------------------------------ MODULE EdgeProofs ------------------------------
(***************************************************************************)
(* The safety of the components of MCEdge for every set of requests,       *)
(* pages, entries and messages, every limit, window and threshold: what a  *)
(* deferred post is told, what rate windows let through, where audit       *)
(* entries are, and what the marketing worker acknowledges.                *)
(***************************************************************************)
EXTENDS MCEdge, Sequences, FiniteSetTheorems, TLAPS

(* Hours and days: the quotient and the remainder by 24.                   *)
LEMMA DivisionBy24 ==
  ASSUME NEW x \in Int
  PROVE  \E q \in Int, h \in 0..23 : x \div 24 = q /\ x % 24 = h /\ x = 24 * q + h
<1>1. PICK q \in Int, h \in 0..23 : q = x \div 24 /\ h = x % 24
  OBVIOUS
<1>2. x = 24 * q + h
  BY <1>1
<1>3. QED
  BY <1>1, <1>2

LEMMA QuotientBy24 ==
  ASSUME NEW q \in Int, NEW h \in 0..23
  PROVE  (24 * q + h) \div 24 = q /\ (24 * q + h) % 24 = h
  BY Z3

(* A time is some hour of a local day; its six o'clock is that day's.      *)
LEMMA LocalDay ==
  ASSUME NEW t \in Nat
  PROVE  \E k \in Int, h \in 0..23 :
           LocalHour(t) = h /\ t = 24 * k + h - Offset /\ Six(t) = 24 * k + 6 - Offset
<1>1. t + Offset \in Int /\ Offset \in Int
  BY PostingAssumption
<1>2. PICK k \in Int, h \in 0..23 : (t + Offset) % 24 = h /\ t + Offset = 24 * k + h
  BY <1>1, DivisionBy24
<1>3. QED
  BY <1>1, <1>2 DEF LocalHour, Six

(* The time that a request deferred at a moment is told: six o'clock of a  *)
(* local day after all hours that were not quiet until then.               *)
RetryOf(a) == IF Quiet(a) THEN RetryAfterQuiet(a) ELSE RetryTomorrow(a)

LEMMA RetryIsSix ==
  ASSUME NEW a \in Nat
  PROVE  \E k \in Int :
           /\ RetryOf(a) = 24 * k + 6 - Offset /\ RetryOf(a) > a
           /\ \A t \in Nat : t <= a /\ ~Quiet(t) =>
                \E j \in Int, h \in 6..22 : j < k /\ t = 24 * j + h - Offset
<1>0. Offset \in Int
  BY PostingAssumption
<1>1. PICK m \in Int, g \in 0..23 :
        LocalHour(a) = g /\ a = 24 * m + g - Offset /\ Six(a) = 24 * m + 6 - Offset
  BY LocalDay
<1>2. PICK k \in Int : k = IF g < 6 THEN m ELSE m + 1
  OBVIOUS
<1>3. RetryOf(a) = 24 * k + 6 - Offset /\ RetryOf(a) > a
  BY <1>0, <1>1, <1>2 DEF RetryOf, Quiet, RetryAfterQuiet, RetryTomorrow
<1>4. ASSUME NEW t \in Nat, t <= a, ~Quiet(t)
      PROVE  \E j \in Int, h \in 6..22 : j < k /\ t = 24 * j + h - Offset
  <2>1. PICK j \in Int, h \in 0..23 : LocalHour(t) = h /\ t = 24 * j + h - Offset
    BY LocalDay
  <2>2. h \in 6..22
    BY <1>4, <2>1 DEF Quiet
  <2>3. j < k
    BY <1>0, <1>1, <1>2, <1>4, <2>1, <2>2
  <2>4. QED
    BY <2>1, <2>2, <2>3
<1>5. QED
  BY <1>3, <1>4

LEMMA RetryIsNotQuiet ==
  ASSUME NEW a \in Nat
  PROVE  RetryOf(a) > a /\ ~Quiet(RetryOf(a))
<1>0. Offset \in Int
  BY PostingAssumption
<1>1. PICK k \in Int : RetryOf(a) = 24 * k + 6 - Offset /\ RetryOf(a) > a
  BY RetryIsSix
<1>2. RetryOf(a) + Offset = 24 * k + 6
  BY <1>0, <1>1
<1>3. (24 * k + 6) % 24 = 6
  BY QuotientBy24
<1>4. QED
  BY <1>1, <1>2, <1>3 DEF Quiet, LocalHour

(* The six o'clock that a request is told is that of its own local day.    *)
LEMMA TomorrowOfRetry ==
  ASSUME NEW a \in Nat
  PROVE  RetryTomorrow(RetryOf(a)) = RetryOf(a) + 24
<1>0. Offset \in Int
  BY PostingAssumption
<1>1. PICK k \in Int : RetryOf(a) = 24 * k + 6 - Offset /\ RetryOf(a) > a
  BY RetryIsSix
<1>2. RetryOf(a) + Offset = 24 * k + 6
  BY <1>0, <1>1
<1>3. LocalHour(RetryOf(a)) = 6
  BY <1>2, QuotientBy24 DEF LocalHour
<1>4. QED
  BY <1>0, <1>1, <1>3 DEF RetryTomorrow, Six

(* A day on is the next date.                                              *)
LEMMA NextDate ==
  ASSUME NEW t \in Nat
  PROVE  Day(t + 24) = Day(t) + 1
<1>1. PICK q \in Int, h \in 0..23 : t \div 24 = q /\ t = 24 * q + h
  BY DivisionBy24
<1>2. t + 24 = 24 * (q + 1) + h
  BY <1>1
<1>3. (24 * (q + 1) + h) \div 24 = q + 1
  BY QuotientBy24
<1>4. QED
  BY <1>1, <1>2, <1>3 DEF Day
-----------------------------------------------------------------------------
CallSteps == {"none", "connection", "weather", "policy", "decide"} \cup Over

CallTypes ==
  [op : {"none", "post", "weather"}, page : Pages \cup {"none"}, step : CallSteps,
   action : {"none", "DEFER", "POST"}, at : Nat, retry : Int]

PostingTypeOK ==
  /\ clock \in Nat /\ Day(clock) \in Days
  /\ count \in [Pages -> [Days -> Nat]]
  /\ call \in [Requests -> CallTypes]

Undecided == {"none", "connection", "weather", "policy"}

(* A request has an answer once the policy was asked, and was told then    *)
(* what the policy answers at that time.                                   *)
AnswersAreOfTheirTime ==
  \A r \in Requests :
    /\ call[r].step # "none" => call[r].page \in Pages
    /\ call[r].step \in Undecided => call[r].action = "none"
    /\ call[r].action # "none" => call[r].at <= clock
    /\ call[r].action = "POST" => ~Quiet(call[r].at)
    /\ call[r].action = "DEFER" =>
         call[r].step = "returned" /\ call[r].retry = RetryOf(call[r].at)

(* A page's count of a date is that of requests allowed on that date, or   *)
(* of some before all that are modelled.                                   *)
AllowedOn(p, d) ==
  \E q \in Requests : /\ call[q].action = "POST" /\ call[q].page = p
                      /\ Day(call[q].at) = d

AllowedBefore ==
  \E t \in Nat : /\ t <= clock /\ Day(t) = 0 /\ ~Quiet(t)
                 /\ \A r \in Requests : call[r].action # "none" => t <= call[r].at

CountsHaveCause ==
  \A p \in Pages, d \in Days :
    count[p][d] > 0 => AllowedOn(p, d) \/ (d = 0 /\ AllowedBefore)

PostingInv == PostingTypeOK /\ AnswersAreOfTheirTime /\ CountsHaveCause

LEMMA DayTyped ==
  ASSUME NEW t \in Nat
  PROVE  Day(t) \in Nat /\ (t <= 23 => Day(t) = 0)
         /\ \A u \in Nat : t <= u => Day(t) <= Day(u)
<1>1. \A x \in Nat : \E q \in Int, h \in 0..23 : Day(x) = q /\ x = 24 * q + h
  BY DivisionBy24 DEF Day
<1>2. PICK q \in Int, h \in 0..23 : Day(t) = q /\ t = 24 * q + h
  BY <1>1
<1>3. ASSUME NEW u \in Nat, t <= u PROVE Day(t) <= Day(u)
  <2>1. PICK k \in Int, g \in 0..23 : Day(u) = k /\ u = 24 * k + g
    BY <1>1
  <2>2. QED
    BY <1>2, <1>3, <2>1
<1>4. QED
  BY <1>2, <1>3

LEMMA PostingInitially == Init => PostingInv
<1> SUFFICES ASSUME Init PROVE PostingInv
  OBVIOUS
<1>1. clock \in Nat /\ clock <= 23 /\ Day(clock) = 0 /\ 0 \in Days
  BY DayTyped, PostingAssumption DEF Init, Days
<1>2. PICK used \in [Pages -> IF \A t \in 0..clock : Quiet(t) THEN {0} ELSE 0..DailyLimit] :
        count = [p \in Pages |-> [d \in Days |-> IF d = 0 THEN used[p] ELSE 0]]
  BY DEF Init
<1>3. PostingTypeOK
  <2>1. \A p \in Pages : used[p] \in Nat
    BY <1>2
  <2>2. count \in [Pages -> [Days -> Nat]]
    BY <1>2, <2>1
  <2>3. QED
    BY <1>1, <2>2 DEF Init, PostingTypeOK, NoCall, CallTypes, CallSteps
<1>4. AnswersAreOfTheirTime
  BY DEF Init, NoCall, AnswersAreOfTheirTime, Undecided
<1>5. ASSUME NEW p \in Pages, NEW d \in Days, count[p][d] > 0
      PROVE  d = 0 /\ AllowedBefore
  <2>1. d = 0 /\ used[p] # 0
    BY <1>2, <1>5
  <2>2. PICK t \in 0..clock : ~Quiet(t)
    BY <1>2, <2>1
  <2>3. t \in Nat /\ t <= clock /\ Day(t) = 0
    BY <1>1, <2>2, DayTyped
  <2>4. \A r \in Requests : call[r].action = "none"
    BY DEF Init, NoCall
  <2>5. QED
    BY <2>1, <2>2, <2>3, <2>4 DEF AllowedBefore
<1>6. QED
  BY <1>3, <1>4, <1>5 DEF PostingInv, CountsHaveCause

LEMMA PostingKeepsType ==
  ASSUME PostingInv, Next
  PROVE  PostingTypeOK'
<1> USE DEF PostingInv, PostingTypeOK, CallTypes, CallSteps, Over, Goto
<1>1. ASSUME NEW r \in Requests, Begin(r) PROVE PostingTypeOK'
  BY <1>1 DEF Begin
<1>2. ASSUME NEW r \in Requests, Throws(r) \/ FindConnection(r) \/ ReadWeather(r) \/ Answer(r)
      PROVE  PostingTypeOK'
  BY <1>2 DEF Throws, FindConnection, ReadWeather, Answer
<1>3. ASSUME NEW r \in Requests, InQuietHours(r) \/ OverLimit(r) PROVE PostingTypeOK'
  <2>1. RetryAfterQuiet(clock) \in Int /\ RetryTomorrow(clock) \in Int
    BY LocalDay, PostingAssumption DEF RetryAfterQuiet, RetryTomorrow
  <2>2. QED
    BY <1>3, <2>1 DEF InQuietHours, OverLimit, Defer
<1>4. ASSUME NEW r \in Requests, Allow(r) PROVE PostingTypeOK'
  <2>1. call[r].page \in Pages
    BY <1>4 DEF Allow, AnswersAreOfTheirTime
  <2>2. count' \in [Pages -> [Days -> Nat]]
    BY <1>4, <2>1 DEF Allow
  <2>3. clock' = clock /\ call' = [call EXCEPT ![r].step = "decide", ![r].action = "POST",
                                              ![r].at = clock]
    BY <1>4 DEF Allow
  <2>4. call' = [call EXCEPT ![r] = [call[r] EXCEPT !.step = "decide", !.action = "POST",
                                                    !.at = clock]]
    BY <2>3
  <2>5. [call[r] EXCEPT !.step = "decide", !.action = "POST", !.at = clock] \in CallTypes
    OBVIOUS
  <2>6. QED
    BY <2>2, <2>3, <2>4, <2>5
<1>5. CASE Tick
  <2>1. clock' \in Nat /\ Day(clock') \in Days
    BY <1>5, DayTyped, PostingAssumption DEF Tick, Days
  <2>2. QED
    BY <1>5, <2>1 DEF Tick
<1>6. CASE Restart
  BY <1>6, ZenonT(60) DEF Restart
<1>7. QED
  BY <1>1, <1>2, <1>3, <1>4, <1>5, <1>6 DEF Next, Step

LEMMA PostingKeepsAnswers ==
  ASSUME PostingInv, Next
  PROVE  AnswersAreOfTheirTime'
<1> USE DEF PostingInv, PostingTypeOK, CallTypes, CallSteps, Over, Goto, Undecided,
            AnswersAreOfTheirTime
<1>1. ASSUME NEW r \in Requests, Begin(r) PROVE AnswersAreOfTheirTime'
  BY <1>1 DEF Begin
<1>2. ASSUME NEW r \in Requests, Throws(r) \/ FindConnection(r) \/ ReadWeather(r) \/ Answer(r)
      PROVE  AnswersAreOfTheirTime'
  BY <1>2 DEF Throws, FindConnection, ReadWeather, Answer
<1>3. ASSUME NEW r \in Requests, InQuietHours(r) \/ OverLimit(r)
      PROVE  AnswersAreOfTheirTime'
  BY <1>3 DEF InQuietHours, OverLimit, Defer, RetryOf
<1>4. ASSUME NEW r \in Requests, Allow(r) PROVE AnswersAreOfTheirTime'
  BY <1>4 DEF Allow
<1>5. CASE Tick
  BY <1>5 DEF Tick
<1>6. CASE Restart
  BY <1>6 DEF Restart
<1>7. QED
  BY <1>1, <1>2, <1>3, <1>4, <1>5, <1>6 DEF Next, Step

(* What has been allowed stays so, and a request that is answered now is   *)
(* answered after what had been allowed before.                            *)
LEMMA CausesStay ==
  ASSUME PostingInv, clock' >= clock, clock' \in Nat,
         \A r \in Requests : call[r].action # "none" => /\ call'[r].action = call[r].action
                                                       /\ call'[r].page = call[r].page
                                                       /\ call'[r].at = call[r].at,
         \A r \in Requests : call[r].action = "none" =>
           call'[r].action = "none" \/ call'[r].at = clock
  PROVE  /\ \A p \in Pages, d \in Days : AllowedOn(p, d) => AllowedOn(p, d)'
         /\ AllowedBefore => AllowedBefore'
<1>1. ASSUME NEW p \in Pages, NEW d \in Days, AllowedOn(p, d)
      PROVE  AllowedOn(p, d)'
  BY <1>1 DEF AllowedOn
<1>2. ASSUME AllowedBefore PROVE AllowedBefore'
  BY <1>2 DEF AllowedBefore, PostingInv, PostingTypeOK
<1>3. QED
  BY <1>1, <1>2

LEMMA PostingKeepsCounts ==
  ASSUME PostingInv, Next
  PROVE  CountsHaveCause'
<1> USE DEF PostingInv, PostingTypeOK, CallTypes, CallSteps, Over, Goto, Undecided
<1>1. ASSUME UNCHANGED count, clock' >= clock, clock' \in Nat,
             \A r \in Requests : call[r].action # "none" => /\ call'[r].action = call[r].action
                                                           /\ call'[r].page = call[r].page
                                                           /\ call'[r].at = call[r].at,
             \A r \in Requests : call[r].action = "none" =>
               call'[r].action = "none" \/ call'[r].at = clock
      PROVE  CountsHaveCause'
  BY <1>1, CausesStay DEF CountsHaveCause
<1>2. ASSUME NEW r \in Requests, Begin(r) \/ Throws(r) \/ FindConnection(r) \/ ReadWeather(r)
                                 \/ Answer(r) \/ InQuietHours(r) \/ OverLimit(r)
      PROVE  CountsHaveCause'
  <2>1. UNCHANGED count /\ UNCHANGED clock
    BY <1>2 DEF Begin, Throws, FindConnection, ReadWeather, Answer, InQuietHours, OverLimit, Defer
  <2>2. \A q \in Requests : q # r => call'[q] = call[q]
    BY <1>2 DEF Begin, Throws, FindConnection, ReadWeather, Answer, InQuietHours, OverLimit, Defer
  <2>3. call[r].action # "none" => /\ call'[r].action = call[r].action
                                   /\ call'[r].page = call[r].page /\ call'[r].at = call[r].at
    <3>1. CASE Begin(r)
      BY <3>1 DEF Begin, AnswersAreOfTheirTime
    <3>2. CASE Throws(r) \/ FindConnection(r) \/ Answer(r)
      BY <3>2 DEF Throws, FindConnection, Answer
    <3>3. CASE ReadWeather(r)
      BY <3>3 DEF ReadWeather
    <3>4. CASE InQuietHours(r) \/ OverLimit(r)
      BY <3>4 DEF InQuietHours, OverLimit, Defer, AnswersAreOfTheirTime
    <3>5. QED
      BY <1>2, <3>1, <3>2, <3>3, <3>4
  <2>4. call[r].action = "none" => call'[r].action = "none" \/ call'[r].at = clock
    <3>1. CASE Begin(r)
      BY <3>1 DEF Begin
    <3>2. CASE Throws(r) \/ FindConnection(r) \/ Answer(r)
      BY <3>2 DEF Throws, FindConnection, Answer
    <3>3. CASE ReadWeather(r)
      BY <3>3 DEF ReadWeather
    <3>4. CASE InQuietHours(r) \/ OverLimit(r)
      BY <3>4 DEF InQuietHours, OverLimit, Defer
    <3>5. QED
      BY <1>2, <3>1, <3>2, <3>3, <3>4
  <2>5. QED
    BY <1>1, <2>1, <2>2, <2>3, <2>4
<1>3. ASSUME NEW r \in Requests, Allow(r) PROVE CountsHaveCause'
  <2>1. /\ call[r].page \in Pages /\ call[r].action = "none" /\ clock' = clock
        /\ call' = [call EXCEPT ![r].step = "decide", ![r].action = "POST", ![r].at = clock]
        /\ count' = [count EXCEPT ![call[r].page][Day(clock)] = @ + 1]
    BY <1>3 DEF Allow, AnswersAreOfTheirTime
  <2>2. AllowedOn(call[r].page, Day(clock))'
    BY <2>1 DEF AllowedOn
  <2>3. /\ \A p \in Pages, d \in Days : AllowedOn(p, d) => AllowedOn(p, d)'
        /\ AllowedBefore => AllowedBefore'
    BY <2>1, CausesStay
  <2>4. ASSUME NEW p \in Pages, NEW d \in Days, count'[p][d] > 0
        PROVE  AllowedOn(p, d)' \/ (d = 0 /\ AllowedBefore')
    <3>1. CASE p = call[r].page /\ d = Day(clock)
      BY <2>1, <2>2, <3>1 DEF AllowedOn
    <3>2. CASE ~(p = call[r].page /\ d = Day(clock))
      <4>1. count'[p][d] = count[p][d]
        BY <2>1, <3>2
      <4>2. QED
        BY <2>3, <2>4, <4>1 DEF CountsHaveCause
    <3>3. QED
      BY <3>1, <3>2
  <2>5. QED
    BY <2>4 DEF CountsHaveCause
<1>4. CASE Tick
  BY <1>1, <1>4 DEF Tick
<1>5. CASE Restart
  BY <1>5 DEF Restart, CountsHaveCause
<1>6. QED
  BY <1>2, <1>3, <1>4, <1>5 DEF Next, Step

LEMMA PostingInductive == PostingInv /\ Next => PostingInv'
  BY PostingKeepsType, PostingKeepsAnswers, PostingKeepsCounts DEF PostingInv

LEMMA PostingStutters == PostingInv /\ UNCHANGED vars => PostingInv'
  BY DEF PostingInv, PostingTypeOK, AnswersAreOfTheirTime, CountsHaveCause, AllowedOn,
         AllowedBefore, vars

(* What was allowed on this date was allowed after r was refused, or the   *)
(* date had begun by then.                                                 *)
LEMMA CauseOfLimit ==
  ASSUME PostingInv, NEW r \in Requests, call[r].action = "DEFER",
         clock >= call[r].at, LimitReached(call[r].page, clock)
  PROVE  OthersSince(r) \/ DateHadBegun(r)
<1> DEFINE a == call[r].at
<1>1. a \in Nat /\ call[r].page \in Pages /\ clock \in Nat /\ Day(clock) \in Days
  BY DEF PostingInv, PostingTypeOK, CallTypes, AnswersAreOfTheirTime
<1>2. count[call[r].page][Day(clock)] > 0
  BY <1>1, PostingAssumption DEF LimitReached, PostingInv, PostingTypeOK
<1>3. CASE AllowedOn(call[r].page, Day(clock))
  <2>1. PICK q \in Requests : /\ call[q].action = "POST" /\ call[q].page = call[r].page
                             /\ Day(call[q].at) = Day(clock)
    BY <1>3 DEF AllowedOn
  <2>2. call[q].at \in Nat /\ call[q].at <= clock /\ ~Quiet(call[q].at)
    BY <2>1 DEF PostingInv, PostingTypeOK, CallTypes, AnswersAreOfTheirTime
  <2>3. CASE call[q].at >= a
    BY <1>1, <2>1, <2>2, <2>3 DEF OthersSince
  <2>4. CASE call[q].at < a
    BY <1>1, <2>1, <2>2, <2>4 DEF DateHadBegun
  <2>5. QED
    BY <1>1, <2>2, <2>3, <2>4
<1>4. CASE Day(clock) = 0 /\ AllowedBefore
  <2>1. PICK t \in Nat : Day(t) = 0 /\ ~Quiet(t) /\ t <= a
    BY <1>4 DEF AllowedBefore
  <2>2. QED
    BY <1>1, <1>4, <2>1 DEF DateHadBegun
<1>5. QED
  BY <1>1, <1>2, <1>3, <1>4 DEF PostingInv, CountsHaveCause

LEMMA PostingImplies == PostingInv => RetryIsAcceptable
<1> SUFFICES ASSUME PostingInv, NEW r \in Requests, call[r].action = "DEFER"
             PROVE  LET retry == call[r].retry IN
                    /\ retry > call[r].at /\ ~Quiet(retry)
                    /\ clock \in {retry, RetryTomorrow(retry)} /\ LimitReached(call[r].page, clock) =>
                         OthersSince(r) \/ (clock = retry /\ DateHadBegun(r))
  BY DEF RetryIsAcceptable
<1> DEFINE a == call[r].at
           retry == call[r].retry
<1>1. a \in Nat /\ retry = RetryOf(a) /\ retry \in Int /\ a <= clock /\ clock \in Nat
  BY DEF PostingInv, PostingTypeOK, CallTypes, AnswersAreOfTheirTime
<1>2. retry > a /\ ~Quiet(retry)
  BY <1>1, RetryIsNotQuiet
<1>3. ASSUME LimitReached(call[r].page, clock)
      PROVE  OthersSince(r) \/ DateHadBegun(r)
  BY <1>1, <1>3, CauseOfLimit
<1>4. ASSUME clock = RetryTomorrow(retry) PROVE ~ DateHadBegun(r)
  <2>1. retry \in Nat /\ clock = retry + 24
    BY <1>1, <1>2, <1>4, TomorrowOfRetry
  <2>2. Day(clock) = Day(retry) + 1 /\ Day(retry) \in Nat
    BY <2>1, NextDate, DayTyped
  <2>3. \A t \in 0..a : Day(t) \in Nat /\ Day(t) <= Day(retry)
    BY <1>1, <1>2, <2>1, DayTyped
  <2>4. QED
    BY <2>2, <2>3 DEF DateHadBegun
<1>5. QED
  BY <1>2, <1>3, <1>4

(* Whatever the server's time zone, who is deferred is told a time at      *)
(* which it can post unless others did, or the date had begun, and then is *)
(* turned away once more and no more.                                      *)
THEOREM RetryTold == AllSpec => []RetryIsAcceptable
<1>1. AllInit => PostingInv
  BY PostingInitially DEF AllInit
<1>2. PostingInv /\ [AllNext]_allVars => PostingInv'
  BY PostingInductive, PostingStutters DEF AllNext, allVars
<1>3. PostingInv => RetryIsAcceptable
  BY PostingImplies
<1>4. QED
  BY <1>1, <1>2, <1>3, PTL DEF AllSpec

-----------------------------------------------------------------------------
(* Of some requests, those from s until before e, and those from s on.     *)
Between(G, s, e) == {g \in G : g[1] \in s..(e - 1)}
Since(G, s)      == {g \in G : g[1] >= s}

AtMost(S, n) == IsFiniteSet(S) /\ Cardinality(S) <= n

(* At moment m, after those in G were let through, the next may begin a    *)
(* window: none of this moment is in G, and few within a window's length.  *)
MayBegin(G, m) == Since(G, m) = {} /\ AtMost(Since(G, m - Window), Limit)

(* A window began at b: it has let through no more than it has counted,    *)
(* and no more than the limit; and so did the Window moments before it.    *)
BeganAt(G, m, entry, b) ==
  /\ b <= m
  /\ AtMost(Since(G, b), entry.count) /\ AtMost(Since(G, b), Limit)
  /\ AtMost(Between(G, b - Window, b), Limit)
  /\ entry.resetAt # 0 =>
       entry.resetAt >= b + Window /\ \A g \in G : g[1] < entry.resetAt

WindowOf(G, m, entry) ==
  IF entry.count = 0 THEN MayBegin(G, m) /\ entry.resetAt = 0
  ELSE \E b \in Nat : BeganAt(G, m, entry, b)

Until(G, m) == \A g \in G : g[1] \in 1..m

Slots == (1..moment) \X (1..MaxAsked)

Entry == [count : Nat, resetAt : Nat]

CheckTypes == [step : {"none", "expire", "ttl"}, count : Nat, request : Nat \X Nat]

(* Those let through, and those that were counted and will be, unless a    *)
(* statement throws.                                                       *)
Admitted ==
  granted \cup {check[c].request :
               c \in {d \in Requests : check[d].step # "none" /\ check[d].count <= Limit}}

RateTypeOK ==
  /\ store \in {"count", "times", "redis"} /\ client \in {"none", "ready", "failed"}
  /\ bucket \in Entry /\ key \in Entry
  /\ moment \in Nat \ {0} /\ cleaned \in Nat /\ asked \in 0..MaxAsked /\ cut \in BOOLEAN
  /\ times \subseteq Slots /\ granted \subseteq Slots
  /\ check \in [Requests -> CheckTypes]
  /\ \A c \in Requests : check[c].step # "none" => store = "redis" /\ check[c].request \in Slots

Expiring == \E c \in Requests : check[c].step = "expire"

(* What each store knows of those let through.                             *)
StoreKnows ==
  /\ store = "times" => Since(Admitted, moment - Window + 1) \subseteq times
  /\ store = "count" =>
       WindowOf(Admitted, moment, bucket) /\ (bucket.count # 0 => bucket.resetAt # 0)
  /\ store = "redis" => WindowOf(Admitted, moment, key)
  /\ Expiring => key.count # 0

Allowance == IF store = "times" THEN Limit ELSE 2 * Limit

WindowsSmall == \A s \in Nat : AtMost(Between(Admitted, s, s + Window), Allowance)

CountsEnd == key.count > 0 /\ key.resetAt = 0 /\ ~ cut => Expiring

RateInv == RateTypeOK /\ StoreKnows /\ WindowsSmall /\ CountsEnd

-----------------------------------------------------------------------------
LEMMA CardinalityOfRate == \A S : Rate!Cardinality(S) = Cardinality(S)
  BY DEF Rate!Cardinality, Cardinality

LEMMA AdmittedTyped ==
  ASSUME RateTypeOK
  PROVE  Admitted \subseteq Slots
  BY DEF RateTypeOK, Admitted

LEMMA RateConstants ==
  ASSUME Rate!WindowAssumption
  PROVE  /\ Limit \in Nat \ {0} /\ Window \in Nat \ {0} /\ MaxAsked \in Nat
         /\ Kept \in Nat /\ Kept >= Window
  BY DEF Rate!WindowAssumption

LEMMA AtMostSubset ==
  ASSUME NEW S, NEW T \in SUBSET S, NEW n \in Nat, AtMost(S, n)
  PROVE  AtMost(T, n)
<1>1. IsFiniteSet(T) /\ Cardinality(T) <= Cardinality(S)
  BY FS_Subset DEF AtMost
<1>2. Cardinality(T) \in Nat /\ Cardinality(S) \in Nat
  BY <1>1, FS_CardinalityType DEF AtMost
<1>3. QED
  BY <1>1, <1>2 DEF AtMost

LEMMA AtMostMore ==
  ASSUME NEW S, NEW m \in Nat, NEW n \in Nat, m <= n, AtMost(S, m)
  PROVE  AtMost(S, n)
  BY FS_CardinalityType DEF AtMost

LEMMA AtMostEmpty ==
  ASSUME NEW n \in Nat
  PROVE  AtMost({}, n)
  BY FS_EmptySet DEF AtMost

LEMMA AtMostAdd ==
  ASSUME NEW S, NEW x, NEW n \in Nat, AtMost(S, n)
  PROVE  AtMost(S \cup {x}, n + 1)
<1>1. /\ IsFiniteSet(S \cup {x}) /\ Cardinality(S) \in Nat
      /\ Cardinality(S \cup {x}) = IF x \in S THEN Cardinality(S) ELSE Cardinality(S) + 1
  BY FS_AddElement, FS_CardinalityType DEF AtMost
<1>2. QED
  BY <1>1 DEF AtMost

LEMMA AtMostUnion ==
  ASSUME NEW S, NEW T, NEW m \in Nat, NEW n \in Nat, AtMost(S, m), AtMost(T, n)
  PROVE  AtMost(S \cup T, m + n)
<1>1. /\ IsFiniteSet(S \cup T) /\ IsFiniteSet(S \cap T)
      /\ Cardinality(S \cup T) = Cardinality(S) + Cardinality(T) - Cardinality(S \cap T)
  BY FS_Union, FS_Intersection DEF AtMost
<1>2. /\ Cardinality(S) \in Nat /\ Cardinality(T) \in Nat /\ Cardinality(S \cap T) \in Nat
      /\ Cardinality(S \cup T) \in Nat
  BY <1>1, FS_CardinalityType DEF AtMost
<1>3. QED
  BY <1>1, <1>2 DEF AtMost
-----------------------------------------------------------------------------
LEMMA Begins ==
  ASSUME Rate!WindowAssumption, NEW m \in Nat, NEW G, Until(G, m), MayBegin(G, m),
         NEW x, x[1] = m, NEW e \in Entry, e.count = 1, e.resetAt \in {0, m + Window}
  PROVE  BeganAt(G \cup {x}, m, e, m)
<1> USE RateConstants
<1>1. Since(G \cup {x}, m) = {x}
  BY DEF Since, MayBegin
<1>2. AtMost({x}, 1) /\ AtMost({x}, Limit)
  <2>1. AtMost({x}, 1)
    <3>1. IsFiniteSet({x}) /\ Cardinality({x}) = 1
      BY FS_Singleton
    <3>2. QED
      BY <3>1 DEF AtMost
  <2>2. QED
    BY <2>1, AtMostMore
<1>3. AtMost(Between(G \cup {x}, m - Window, m), Limit)
  <2>1. Between(G \cup {x}, m - Window, m) \subseteq Since(G, m - Window)
    BY DEF Between, Since
  <2>2. AtMost(Since(G, m - Window), Limit)
    BY DEF MayBegin
  <2>3. QED
    BY <2>1, <2>2, AtMostSubset
<1>4. e.resetAt # 0 => e.resetAt >= m + Window /\ \A g \in G \cup {x} : g[1] < e.resetAt
  BY DEF Until
<1>5. AtMost(Since(G \cup {x}, m), e.count) /\ AtMost(Since(G \cup {x}, m), Limit)
  BY <1>1, <1>2, Zenon
<1>6. QED
  BY <1>3, <1>4, <1>5 DEF BeganAt

LEMMA Continues ==
  ASSUME Rate!WindowAssumption, NEW m \in Nat, NEW G, Until(G, m), NEW b \in Nat,
         NEW e \in Entry, BeganAt(G, m, e, b), e.resetAt = 0 \/ m < e.resetAt,
         NEW f \in Entry, f.count = e.count + 1, f.resetAt = e.resetAt,
         NEW x, x[1] = m, NEW H, H = IF f.count <= Limit THEN G \cup {x} ELSE G
  PROVE  BeganAt(H, m, f, b)
<1> USE RateConstants
<1>0. e.count \in Nat /\ f.count \in Nat /\ e.resetAt \in Nat
  BY DEF Entry
<1>1. CASE f.count <= Limit
  <2>1. Since(H, b) \subseteq Since(G, b) \cup {x} /\ AtMost(Since(G, b) \cup {x}, f.count)
    BY <1>0, <1>1, AtMostAdd, ZenonT(60) DEF Since, BeganAt
  <2>2. AtMost(Since(H, b), f.count)
    BY <1>0, <2>1, AtMostSubset
  <2>3. AtMost(Since(H, b), Limit)
    BY <1>0, <1>1, <2>2, AtMostMore
  <2>4. Between(H, b - Window, b) = Between(G, b - Window, b)
    BY <1>1 DEF Between, BeganAt
  <2>5. \A g \in H : e.resetAt # 0 => g[1] < f.resetAt
    BY <1>1 DEF BeganAt
  <2>6. QED
    BY <2>2, <2>3, <2>4, <2>5 DEF BeganAt
<1>2. CASE ~(f.count <= Limit)
  <2>1. AtMost(Since(G, b), f.count)
    BY <1>0, AtMostMore DEF BeganAt
  <2>2. QED
    BY <1>2, <2>1 DEF BeganAt
<1>3. QED
  BY <1>1, <1>2

LEMMA Expires ==
  ASSUME Rate!WindowAssumption, NEW m \in Nat, NEW G, Until(G, m), NEW b \in Nat,
         NEW e \in Entry, BeganAt(G, m, e, b), e.resetAt # 0, e.resetAt <= m
  PROVE  MayBegin(G, m)
<1> USE RateConstants
<1>1. Since(G, m) = {}
  BY DEF Since, BeganAt, Entry, Until
<1>2. Since(G, m - Window) \subseteq Since(G, b)
  BY DEF Since, BeganAt, Entry, Until
<1>3. QED
  BY <1>1, <1>2, AtMostSubset DEF BeganAt, MayBegin

LEMMA Passes ==
  ASSUME Rate!WindowAssumption, NEW m \in Nat, NEW G, Until(G, m),
         NEW e \in Entry, WindowOf(G, m, e)
  PROVE  WindowOf(G, m + 1, e)
<1> USE RateConstants
<1>1. CASE e.count = 0
  <2>1. Since(G, m + 1) = {} /\ Since(G, m + 1 - Window) \subseteq Since(G, m - Window)
    BY DEF Since, Until
  <2>2. QED
    BY <1>1, <2>1, AtMostSubset DEF WindowOf, MayBegin
<1>2. CASE e.count # 0
  BY <1>2 DEF WindowOf, BeganAt
<1>3. QED
  BY <1>1, <1>2

(* The end of a key is set some time after its window began.               *)
LEMMA EndIsSet ==
  ASSUME Rate!WindowAssumption, NEW m \in Nat, NEW G, Until(G, m),
         NEW e \in Entry, e.count # 0, WindowOf(G, m, e),
         NEW f \in Entry, f.count = e.count, f.resetAt = m + Window
  PROVE  WindowOf(G, m, f)
<1>1. PICK b \in Nat : BeganAt(G, m, e, b)
  BY DEF WindowOf
<1>2. BeganAt(G, m, f, b)
  BY <1>1, RateConstants DEF BeganAt, Until
<1>3. QED
  BY <1>2 DEF WindowOf

LEMMA FewRecently ==
  ASSUME Rate!WindowAssumption, NEW m \in Nat, NEW G, Until(G, m), NEW b \in Nat,
         NEW e \in Entry, BeganAt(G, m, e, b)
  PROVE  AtMost(Since(G, m - Window + 1), 2 * Limit)
<1> USE RateConstants
<1>1. Since(G, m - Window + 1) \subseteq Since(G, b) \cup Between(G, b - Window, b)
  BY DEF Since, Between, BeganAt, Until
<1>2. AtMost(Since(G, b) \cup Between(G, b - Window, b), Limit + Limit)
  BY AtMostUnion DEF BeganAt
<1>3. QED
  BY <1>1, <1>2, AtMostSubset

(* A request let through is in the windows that reach this moment, and in  *)
(* no other.                                                               *)
LEMMA GrantKeepsSmall ==
  ASSUME Rate!WindowAssumption, NEW m \in Nat, NEW G, Until(G, m), NEW n \in Nat,
         NEW x, x[1] = m, AtMost(Since(G \cup {x}, m - Window + 1), n),
         NEW s \in Nat, AtMost(Between(G, s, s + Window), n)
  PROVE  AtMost(Between(G \cup {x}, s, s + Window), n)
<1> USE RateConstants
<1>1. CASE m \in s..(s + Window - 1)
  <2> DEFINE Recent == Since(G \cup {x}, m - Window + 1)
             Those  == Between(G \cup {x}, s, s + Window)
  <2>1. Those \subseteq Recent
    BY <1>1 DEF Between, Since, Until
  <2>2. AtMost(Recent, n)
    OBVIOUS
  <2>3. AtMost(Those, n)
    <3> HIDE DEF Recent, Those
    <3>1. QED
      BY <2>1, <2>2, AtMostSubset
  <2>4. QED
    BY <2>3
<1>2. CASE m \notin s..(s + Window - 1)
  <2>1. Between(G \cup {x}, s, s + Window) = Between(G, s, s + Window)
    BY <1>2 DEF Between
  <2>2. QED
    BY <2>1
<1>3. QED
  BY <1>1, <1>2
-----------------------------------------------------------------------------
LEMMA RateInitially == Rate!WindowAssumption /\ Rate!Init => RateInv
<1> SUFFICES ASSUME Rate!WindowAssumption, Rate!Init PROVE RateInv
  OBVIOUS
<1> USE RateConstants DEF Rate!Init, Rate!NoEntry
<1>1. RateTypeOK
  <2>1. bucket \in Entry /\ key \in Entry
    BY DEF Entry
  <2>2. store \in {"count", "times", "redis"} /\ client \in {"none", "ready", "failed"}
    OBVIOUS
  <2>3. moment \in Nat \ {0} /\ cleaned \in Nat /\ asked \in 0..MaxAsked
    OBVIOUS
  <2>4. cut \in BOOLEAN
    OBVIOUS
  <2>5. /\ times \subseteq Slots /\ granted \subseteq Slots /\ check \in [Requests -> CheckTypes]
        /\ \A c \in Requests : check[c].step = "none"
    BY DEF Rate!NoCheck, CheckTypes
  <2>6. QED
    BY <2>1, <2>2, <2>3, <2>4, <2>5 DEF RateTypeOK
<1>a. Admitted = {} /\ ~ Expiring
  BY DEF Rate!NoCheck, Admitted, Expiring
<1>2. \A m \in Int : AtMost(Since(Admitted, m), Limit)
  <2>1. \A m \in Int : Since(Admitted, m) = {}
    BY <1>a DEF Since
  <2>2. QED
    BY <2>1, AtMostEmpty
<1>3. StoreKnows
  BY <1>a, <1>2 DEF StoreKnows, WindowOf, MayBegin, Since
<1>4. WindowsSmall
  <2>1. \A s \in Nat : Between(Admitted, s, s + Window) = {}
    BY <1>a DEF Between
  <2>2. Allowance \in Nat
    BY DEF Allowance
  <2>3. QED
    BY <2>1, <2>2, AtMostEmpty DEF WindowsSmall
<1>5. CountsEnd
  BY DEF CountsEnd
<1>6. QED
  BY <1>1, <1>3, <1>4, <1>5 DEF RateInv

LEMMA RateFacts ==
  ASSUME Rate!WindowAssumption, RateTypeOK
  PROVE  /\ Until(Admitted, moment) /\ moment \in Nat \ {0}
         /\ Allowance \in Nat
         /\ asked < MaxAsked => <<moment, asked + 1>> \in Slots
  BY RateConstants, AdmittedTyped DEF RateTypeOK, Until, Slots, Allowance

(* Where the last of the windows is small, all stay so.                    *)
LEMMA GrantsStaySmall ==
  ASSUME Rate!WindowAssumption, RateInv, store' = store,
         Admitted' \in {Admitted, Admitted \cup {<<moment, asked + 1>>}},
         AtMost(Since(Admitted', moment - Window + 1), Allowance)
  PROVE  WindowsSmall'
<1>1. Allowance' = Allowance
  BY DEF Allowance
<1>2. ASSUME NEW s \in Nat, Admitted' = Admitted \cup {<<moment, asked + 1>>}
      PROVE  AtMost(Between(Admitted', s, s + Window), Allowance)
  <2>1. AtMost(Between(Admitted, s, s + Window), Allowance)
    BY DEF RateInv, WindowsSmall
  <2>2. QED
    BY <1>2, <2>1, RateFacts, GrantKeepsSmall DEF RateInv
<1>3. QED
  BY <1>1, <1>2 DEF RateInv, WindowsSmall

(* A count that lets through what it counts keeps its window.              *)
LEMMA CountKeeps ==
  ASSUME Rate!WindowAssumption, RateInv, store \in {"count", "redis"},
         NEW e \in Entry, WindowOf(Admitted, moment, e),
         e.count # 0 => e.resetAt = 0 \/ moment < e.resetAt,
         NEW f \in Entry, f.count = e.count + 1,
         IF e.count = 0 THEN f.resetAt \in {0, moment + Window} ELSE f.resetAt = e.resetAt,
         Admitted' = IF f.count <= Limit THEN Admitted \cup {<<moment, asked + 1>>} ELSE Admitted
  PROVE  /\ WindowOf(Admitted', moment, f)
         /\ AtMost(Since(Admitted', moment - Window + 1), 2 * Limit)
<1> USE RateConstants, RateFacts
<1> DEFINE x == <<moment, asked + 1>>
<1>0. RateTypeOK /\ moment \in Nat /\ Until(Admitted, moment) /\ e.count \in Nat /\ f.count \in Nat
      /\ x[1] = moment
  BY DEF RateInv, Entry
<1>1. Until(Admitted', moment)
  BY <1>0 DEF Until
<1>2. \E b \in Nat : BeganAt(Admitted', moment, f, b)
  <2>1. CASE e.count = 0
    <3>1. MayBegin(Admitted, moment) /\ f.count = 1 /\ Admitted' = Admitted \cup {x}
      BY <2>1, <1>0 DEF WindowOf
    <3>2. BeganAt(Admitted \cup {x}, moment, f, moment)
      BY <1>0, <2>1, <3>1, Begins
    <3>3. QED
      BY <1>0, <3>1, <3>2
  <2>2. CASE e.count # 0
    <3>1. PICK b \in Nat : BeganAt(Admitted, moment, e, b)
      BY <2>2 DEF WindowOf
    <3>2. BeganAt(Admitted', moment, f, b)
      BY <1>0, <2>2, <3>1, Continues
    <3>3. QED
      BY <3>2
  <2>3. QED
    BY <2>1, <2>2
<1>3. WindowOf(Admitted', moment, f)
  BY <1>0, <1>2 DEF WindowOf
<1>4. AtMost(Since(Admitted', moment - Window + 1), 2 * Limit)
  BY <1>0, <1>1, <1>2, FewRecently
<1>5. QED
  BY <1>3, <1>4

(* An entry that is over, or not there, leaves room for a window.          *)
LEMMA OverMayBegin ==
  ASSUME Rate!WindowAssumption, RateTypeOK, NEW e \in Entry,
         WindowOf(Admitted, moment, e), e.count = 0 \/ (e.resetAt # 0 /\ e.resetAt <= moment)
  PROVE  WindowOf(Admitted, moment, Rate!NoEntry)
<1>1. MayBegin(Admitted, moment)
  BY RateFacts, Expires DEF WindowOf
<1>2. QED
  BY <1>1 DEF WindowOf, Rate!NoEntry

-----------------------------------------------------------------------------
LEMMA TickKeeps ==
  ASSUME Rate!WindowAssumption, RateInv, Rate!Tick
  PROVE  RateInv'
<1> USE RateConstants DEF Rate!Tick, Rate!inMemory, Rate!inRedis
<1>a. Admitted' = Admitted /\ Expiring' = Expiring
  BY DEF Admitted, Expiring
<1>1. RateTypeOK'
  BY DEF RateInv, RateTypeOK, Slots
<1>2. StoreKnows'
  <2>1. /\ Until(Admitted, moment) /\ moment \in Nat /\ bucket \in Entry /\ key \in Entry
        /\ RateTypeOK
    BY RateFacts DEF RateInv, RateTypeOK
  <2>2. store = "times" => Since(Admitted', moment' - Window + 1) \subseteq times'
    BY <1>a, <2>1 DEF RateInv, StoreKnows, Since, Until
  <2>3. store = "count" => WindowOf(Admitted', moment', bucket')
    BY <1>a, <2>1, Passes DEF RateInv, StoreKnows
  <2>4. store = "redis" => WindowOf(Admitted', moment', key')
    BY <1>a, <2>1, Passes DEF RateInv, StoreKnows
  <2>5. QED
    BY <1>a, <2>2, <2>3, <2>4 DEF RateInv, StoreKnows
<1>3. WindowsSmall'
  BY <1>a DEF RateInv, WindowsSmall, Allowance
<1>4. CountsEnd'
  BY <1>a DEF RateInv, CountsEnd
<1>5. QED
  BY <1>1, <1>2, <1>3, <1>4 DEF RateInv

LEMMA RequestKeeps ==
  ASSUME Rate!WindowAssumption, RateInv, Rate!Request
  PROVE  RateInv'
<1> USE RateConstants DEF Rate!Request, Rate!Ask, Rate!inRedis
<1> DEFINE f == Rate!Counted(bucket)
           e == IF Rate!Expired(bucket) THEN Rate!NoEntry ELSE bucket
<1>0. /\ RateTypeOK /\ bucket \in Entry /\ WindowOf(Admitted, moment, bucket) /\ moment \in Nat \ {0}
      /\ bucket.count \in Nat /\ bucket.resetAt \in Nat /\ (bucket.count # 0 => bucket.resetAt # 0)
      /\ bucket.count = 0 => bucket.resetAt = 0
  BY DEF RateInv, RateTypeOK, StoreKnows, Entry, WindowOf
<1>1. /\ e \in Entry /\ f \in Entry /\ f.count = e.count + 1 /\ f.resetAt # 0
      /\ IF e.count = 0 THEN f.resetAt \in {0, moment + Window} ELSE f.resetAt = e.resetAt
      /\ e.count # 0 => moment < e.resetAt
  BY <1>0 DEF Rate!Counted, Rate!Expired, Rate!NoEntry, Entry
<1>2. WindowOf(Admitted, moment, e)
  <2>1. CASE Rate!Expired(bucket)
    BY <1>0, <2>1, OverMayBegin DEF Rate!Expired
  <2>2. CASE ~Rate!Expired(bucket)
    BY <1>0, <2>2
  <2>3. QED
    BY <2>1, <2>2
<1>3. /\ granted' = IF f.count <= Limit THEN granted \cup {<<moment, asked + 1>>} ELSE granted
      /\ Admitted' = IF f.count <= Limit THEN Admitted \cup {<<moment, asked + 1>>} ELSE Admitted
      /\ bucket' = f /\ moment' = moment /\ store' = store /\ Expiring' = Expiring
  BY DEF Rate!Grant, Admitted, Expiring
<1> HIDE DEF e, f
<1>4. WindowOf(Admitted', moment, f) /\ AtMost(Since(Admitted', moment - Window + 1), 2 * Limit)
  BY <1>1, <1>2, <1>3, CountKeeps
<1>5. WindowsSmall'
  BY <1>3, <1>4, GrantsStaySmall DEF Allowance
<1>6. RateTypeOK'
  BY <1>0, <1>1, <1>3, RateFacts DEF RateTypeOK, Slots
<1>7. StoreKnows'
  BY <1>1, <1>3, <1>4 DEF RateInv, StoreKnows
<1>8. CountsEnd'
  BY <1>3 DEF RateInv, CountsEnd
<1>9. QED
  BY <1>5, <1>6, <1>7, <1>8 DEF RateInv

LEMMA SlideKeeps ==
  ASSUME Rate!WindowAssumption, RateInv, Rate!Slide
  PROVE  RateInv'
<1> USE RateConstants DEF Rate!Slide, Rate!Ask, Rate!inRedis
<1> DEFINE x == <<moment, asked + 1>>
           kept == Rate!Trimmed(Window)
           pass == Rate!Cardinality(kept) < Limit
<1>0. /\ RateTypeOK /\ x \in Slots /\ moment \in Nat /\ Until(Admitted, moment)
      /\ times \subseteq Slots /\ granted \subseteq Slots /\ Admitted \subseteq Slots
      /\ asked + 1 \in 1..MaxAsked
  BY RateFacts, AdmittedTyped DEF RateInv, RateTypeOK
<1>1. /\ times' = kept \cup (IF pass THEN {x} ELSE {})
      /\ granted' = IF pass THEN granted \cup {x} ELSE granted
      /\ Admitted' = IF pass THEN Admitted \cup {x} ELSE Admitted
      /\ Expiring' = Expiring
  BY DEF Rate!Grant, Admitted, Expiring
<1>2. Since(Admitted, moment - Window + 1) \subseteq kept /\ kept \subseteq Slots
  BY <1>0 DEF RateInv, StoreKnows, Since, Until, Rate!Trimmed
<1>3. IsFiniteSet(kept) /\ Cardinality(kept) \in Nat
  <2>1. IsFiniteSet(1..moment) /\ IsFiniteSet(1..MaxAsked)
    BY <1>0, FS_Interval
  <2>2. IsFiniteSet(Slots)
    BY <2>1, FS_Product DEF Slots
  <2>3. QED
    BY <1>2, <2>2, FS_Subset, FS_CardinalityType
<1>4. pass => AtMost(kept \cup {x}, Limit)
  <2>1. pass => AtMost(kept, Limit - 1)
    BY <1>3, CardinalityOfRate DEF AtMost
  <2>2. pass => AtMost(kept \cup {x}, Limit - 1 + 1)
    <3>1. Limit - 1 \in Nat
      OBVIOUS
    <3> DEFINE n == Limit - 1
    <3> HIDE DEF kept, x, pass, n
    <3>2. QED
      BY <2>1, <3>1, AtMostAdd DEF n
  <2>3. Limit - 1 + 1 = Limit
    OBVIOUS
  <2>4. QED
    BY <2>2, <2>3
<1>5. Since(Admitted', moment - Window + 1) \subseteq times' /\ times' \subseteq Slots
  BY <1>0, <1>1, <1>2 DEF Since
<1>6. WindowsSmall'
  <2>1. CASE pass
    <3>1. AtMost(Since(Admitted', moment - Window + 1), Limit)
      <4>1. AtMost(times', Limit) /\ Limit \in Nat
        BY <1>1, <1>4, <2>1
      <4>2. QED
        BY <1>5, <4>1, AtMostSubset
    <3>2. QED
      BY <1>1, <2>1, <3>1, GrantsStaySmall DEF Allowance
  <2>2. CASE ~pass
    BY <1>1, <2>2 DEF RateInv, WindowsSmall, Allowance
  <2>3. QED
    BY <2>1, <2>2
<1>7. RateTypeOK'
  BY <1>0, <1>1, <1>5 DEF RateTypeOK, Slots
<1>8. StoreKnows'
  BY <1>1, <1>5 DEF RateInv, StoreKnows
<1>9. CountsEnd'
  BY <1>1 DEF RateInv, CountsEnd
<1>10. QED
  BY <1>6, <1>7, <1>8, <1>9 DEF RateInv

LEMMA CleanKeeps ==
  ASSUME Rate!WindowAssumption, RateInv, Rate!Clean
  PROVE  RateInv'
<1> USE RateConstants DEF Rate!Clean, Rate!inRedis
<1>0. /\ RateTypeOK /\ bucket \in Entry /\ bucket.count \in Nat /\ bucket.resetAt \in Nat
      /\ moment \in Nat /\ Until(Admitted, moment) /\ Admitted \subseteq Slots /\ times \subseteq Slots
  BY RateFacts, AdmittedTyped DEF RateInv, RateTypeOK, Entry
<1>a. Admitted' = Admitted /\ Expiring' = Expiring
  BY DEF Admitted, Expiring
<1>1. RateTypeOK'
  BY <1>0 DEF RateTypeOK, Rate!NoEntry, Entry, Rate!Trimmed, Slots
<1>2. store = "times" => Since(Admitted', moment' - Window + 1) \subseteq times'
  BY <1>0, <1>a DEF RateInv, StoreKnows, Since, Until, Rate!Trimmed
<1>3. store = "count" =>
        WindowOf(Admitted', moment', bucket') /\ (bucket'.count # 0 => bucket'.resetAt # 0)
  <2>1. CASE store = "count" /\ Rate!Expired(bucket)
    <3>1. WindowOf(Admitted, moment, Rate!NoEntry)
      BY <1>0, <2>1, OverMayBegin DEF Rate!Expired, RateInv, StoreKnows
    <3>2. QED
      BY <1>a, <2>1, <3>1 DEF Rate!NoEntry
  <2>2. CASE ~Rate!Expired(bucket)
    BY <1>a, <2>2 DEF RateInv, StoreKnows
  <2>3. QED
    BY <2>1, <2>2
<1>4. StoreKnows'
  BY <1>a, <1>2, <1>3 DEF RateInv, StoreKnows
<1>5. WindowsSmall' /\ CountsEnd'
  BY <1>a DEF RateInv, WindowsSmall, CountsEnd, Allowance
<1>6. QED
  BY <1>1, <1>4, <1>5 DEF RateInv

LEMMA IncrKeeps ==
  ASSUME Rate!WindowAssumption, RateInv, NEW c \in Requests, Rate!Incr(c)
  PROVE  RateInv'
<1> USE RateConstants DEF Rate!Incr, Rate!Ask, Rate!inMemory
<1> DEFINE e == IF Rate!Lives THEN key ELSE Rate!NoEntry
           f == [count |-> IF Rate!Lives THEN key.count + 1 ELSE 1,
                 resetAt |-> IF Rate!Lives THEN key.resetAt ELSE 0]
<1>0. /\ RateTypeOK /\ key \in Entry /\ WindowOf(Admitted, moment, key) /\ moment \in Nat \ {0}
      /\ key.count \in Nat /\ key.resetAt \in Nat
  BY DEF RateInv, RateTypeOK, StoreKnows, Entry
<1>1. /\ e \in Entry /\ f \in Entry /\ f.count = e.count + 1 /\ f.count # 0
      /\ IF e.count = 0 THEN f.resetAt \in {0, moment + Window} ELSE f.resetAt = e.resetAt
      /\ e.count # 0 => e.resetAt = 0 \/ moment < e.resetAt
  BY <1>0 DEF Rate!Lives, Rate!NoEntry, Entry
<1>2. WindowOf(Admitted, moment, e)
  <2>1. CASE Rate!Lives
    BY <1>0, <2>1
  <2>2. CASE ~Rate!Lives
    BY <1>0, <2>2, OverMayBegin DEF Rate!Lives
  <2>3. QED
    BY <2>1, <2>2
<1> DEFINE counted == [step |-> IF f.count = 1 THEN "expire" ELSE "ttl", count |-> f.count,
                       request |-> <<moment, asked + 1>>]
<1>a. /\ check[c].step = "none" /\ check' = [check EXCEPT ![c] = counted]
      /\ check'[c] = counted /\ \A d \in Requests : d # c => check'[d] = check[d]
      /\ granted' = granted /\ key' = f /\ moment' = moment /\ store' = store /\ store = "redis"
  BY <1>0 DEF Rate!NoCheck, RateTypeOK
<1>3. Admitted' = IF f.count <= Limit THEN Admitted \cup {<<moment, asked + 1>>} ELSE Admitted
  BY <1>a DEF Admitted
<1>4. CountsEnd'
  <2>1. CASE f.count = 1
    <3>1. check'[c].step = "expire"
      BY <1>a, <2>1
    <3>2. QED
      BY <3>1 DEF CountsEnd, Expiring
  <2>2. CASE f.count # 1
    BY <1>0, <1>a, <2>2 DEF RateInv, CountsEnd, Rate!Lives, Expiring
  <2>3. QED
    BY <2>1, <2>2
<1>b. <<moment, asked + 1>> \in Slots /\ counted \in CheckTypes /\ f.count \in Nat
  BY <1>0, <1>1, RateFacts DEF CheckTypes, RateTypeOK, Slots
<1>c. check' \in [Requests -> CheckTypes]
  BY <1>0, <1>a, <1>b DEF RateTypeOK
<1>d. \A d \in Requests : check'[d].step # "none" => check'[d].request \in Slots
  BY <1>0, <1>a, <1>b DEF RateTypeOK
<1> HIDE DEF e, f, counted
<1>5. WindowOf(Admitted', moment, f) /\ AtMost(Since(Admitted', moment - Window + 1), 2 * Limit)
  BY <1>a, <1>1, <1>2, <1>3, CountKeeps
<1>6. WindowsSmall'
  BY <1>a, <1>3, <1>5, GrantsStaySmall DEF Allowance
<1>7. RateTypeOK'
  <2>1. Slots' = Slots
    BY <1>a DEF Slots
  <2>2. QED
    BY <1>0, <1>1, <1>a, <1>c, <1>d, <2>1 DEF RateTypeOK
<1>8. StoreKnows'
  BY <1>1, <1>a, <1>5 DEF RateInv, StoreKnows
<1>9. QED
  BY <1>4, <1>6, <1>7, <1>8 DEF RateInv

LEMMA ExpireKeeps ==
  ASSUME Rate!WindowAssumption, RateInv, NEW c \in Requests, Rate!Expire(c)
  PROVE  RateInv'
<1> USE RateConstants DEF Rate!Expire, Rate!inMemory
<1>0. /\ RateTypeOK /\ key \in Entry /\ WindowOf(Admitted, moment, key) /\ moment \in Nat \ {0}
      /\ key.count # 0 /\ store = "redis" /\ Until(Admitted, moment)
  BY RateFacts DEF RateInv, RateTypeOK, StoreKnows, Expiring
<1>a. /\ check'[c] = [check[c] EXCEPT !.step = "ttl"]
      /\ \A d \in Requests : d # c => check'[d] = check[d]
      /\ check' \in [Requests -> CheckTypes]
  BY <1>0 DEF RateTypeOK, CheckTypes
<1>b. \A d \in Requests : /\ check'[d].count = check[d].count
                           /\ check'[d].request = check[d].request
                           /\ check'[d].step = "none" <=> check[d].step = "none"
  BY <1>0, <1>a DEF RateTypeOK, CheckTypes
<1>c. Admitted' = Admitted
  BY <1>b DEF Admitted
<1>1. key' \in Entry /\ key'.count = key.count /\ key'.resetAt = moment + Window
  BY <1>0 DEF Entry
<1>2. WindowOf(Admitted, moment, key')
  BY <1>0, <1>1, EndIsSet
<1>3. RateTypeOK'
  BY <1>0, <1>1, <1>a, <1>b DEF RateTypeOK, Slots
<1>4. StoreKnows'
  BY <1>0, <1>1, <1>2, <1>c DEF StoreKnows
<1>5. WindowsSmall' /\ CountsEnd'
  BY <1>0, <1>1, <1>c DEF RateInv, WindowsSmall, CountsEnd, Allowance
<1>6. QED
  BY <1>3, <1>4, <1>5 DEF RateInv

LEMMA FewerInWindow ==
  ASSUME Rate!WindowAssumption, NEW m \in Nat, NEW G, NEW H \in SUBSET G,
         NEW e \in Entry, WindowOf(G, m, e)
  PROVE  WindowOf(H, m, e)
<1> USE RateConstants
<1>1. \A s \in Int, n \in Nat : AtMost(Since(G, s), n) => AtMost(Since(H, s), n)
  <2>1. \A s \in Int : Since(H, s) \subseteq Since(G, s)
    BY DEF Since
  <2>2. QED
    BY <2>1, AtMostSubset
<1>2. \A s, t \in Int, n \in Nat : AtMost(Between(G, s, t), n) => AtMost(Between(H, s, t), n)
  <2>1. \A s, t \in Int : Between(H, s, t) \subseteq Between(G, s, t)
    BY DEF Between
  <2>2. QED
    BY <2>1, AtMostSubset
<1>3. CASE e.count = 0
  <2>1. Since(H, m) = {}
    BY <1>3 DEF WindowOf, MayBegin, Since
  <2>2. m - Window \in Int
    OBVIOUS
  <2>3. QED
    BY <1>1, <1>3, <2>1, <2>2 DEF WindowOf, MayBegin
<1>4. CASE e.count # 0
  <2>1. PICK b \in Nat : BeganAt(G, m, e, b)
    BY <1>4 DEF WindowOf
  <2>2. b - Window \in Int /\ e.count \in Nat
    BY DEF Entry
  <2>3. BeganAt(H, m, e, b)
    BY <1>1, <1>2, <2>1, <2>2 DEF BeganAt
  <2>4. QED
    BY <1>4, <2>3 DEF WindowOf
<1>5. QED
  BY <1>3, <1>4

(* Checks that end without a request leave the rest as it was.             *)
LEMMA FewerAdmitted ==
  ASSUME Rate!WindowAssumption, RateInv, RateTypeOK', Admitted' \subseteq Admitted,
         UNCHANGED <<store, times, bucket, key, moment>>, Expiring' => Expiring, CountsEnd'
  PROVE  RateInv'
<1> USE RateConstants
<1>1. Admitted' \in SUBSET Admitted /\ moment \in Nat /\ bucket \in Entry /\ key \in Entry
  BY DEF RateInv, RateTypeOK
<1>2. \A e \in Entry : WindowOf(Admitted, moment, e) => WindowOf(Admitted', moment, e)
  BY <1>1, FewerInWindow
<1>3. StoreKnows'
  BY <1>1, <1>2 DEF RateInv, StoreKnows, Since
<1>4. WindowsSmall'
  <2>1. Allowance' = Allowance /\ Allowance \in Nat
    BY DEF Allowance
  <2>2. \A s \in Nat : Between(Admitted', s, s + Window) \subseteq Between(Admitted, s, s + Window)
    BY DEF Between
  <2>3. QED
    BY <2>1, <2>2, AtMostSubset DEF RateInv, WindowsSmall
<1>5. QED
  BY <1>3, <1>4 DEF RateInv

LEMMA EndOfCheckKeeps ==
  ASSUME Rate!WindowAssumption, RateInv, NEW c \in Requests, Rate!Ttl(c) \/ Rate!Throws(c)
  PROVE  RateInv'
<1> USE RateConstants DEF Rate!inMemory
<1>0. RateTypeOK
  BY DEF RateInv
<1>1. /\ check[c].step # "none" /\ check' = [check EXCEPT ![c] = Rate!NoCheck]
      /\ UNCHANGED <<store, times, bucket, client, key, moment, cleaned, asked>>
      /\ granted' \in {granted, granted \cup {check[c].request}}
      /\ check[c].count > Limit => granted' = granted
      /\ cut' = (cut \/ check[c].step = "expire")
  BY <1>0 DEF Rate!Ttl, Rate!Throws, RateTypeOK, CheckTypes
<1>2. /\ check'[c].step = "none" /\ check' \in [Requests -> CheckTypes]
      /\ \A d \in Requests : d # c => check'[d] = check[d]
  BY <1>0, <1>1 DEF Rate!NoCheck, RateTypeOK, CheckTypes
<1>3. RateTypeOK'
  BY <1>0, <1>1, <1>2 DEF RateTypeOK, Slots
<1>4. Admitted' \subseteq Admitted
  <2>1. check[c].count \in Nat
    BY <1>0 DEF RateTypeOK, CheckTypes
  <2>2. granted' \subseteq Admitted
    BY <1>1, <2>1 DEF Admitted
  <2>3. QED
    BY <1>2, <2>2 DEF Admitted
<1>5. Expiring' => Expiring
  BY <1>2 DEF Expiring
<1>6. CountsEnd'
  BY <1>0, <1>1, <1>2 DEF RateInv, RateTypeOK, CountsEnd, Expiring
<1>7. QED
  BY <1>1, <1>3, <1>4, <1>5, <1>6, FewerAdmitted

LEMMA RestartKeeps ==
  ASSUME Rate!WindowAssumption, RateInv, Rate!Restart
  PROVE  RateInv'
<1> USE RateConstants DEF Rate!Restart, Rate!NoEntry
<1>0. /\ check' \in [Requests -> CheckTypes] /\ \A c \in Requests : check'[c].step = "none"
      /\ Admitted' = granted'
  BY DEF Rate!NoCheck, CheckTypes, Admitted
<1>1. RateTypeOK'
  BY <1>0 DEF RateInv, RateTypeOK, Entry, Slots
<1>2. CASE store = "redis"
  <2>1. Admitted' \subseteq Admitted
    BY <1>0, <1>2 DEF Admitted
  <2>2. ~ Expiring' /\ CountsEnd'
    BY <1>0, <1>2 DEF RateInv, CountsEnd, Expiring
  <2>3. StoreKnows' /\ WindowsSmall'
    <3>1. moment \in Nat /\ key \in Entry /\ Admitted' \in SUBSET Admitted
      BY <2>1 DEF RateInv, RateTypeOK
    <3>2. WindowOf(Admitted', moment, key)
      BY <1>2, <3>1, FewerInWindow DEF RateInv, StoreKnows
    <3>3. \A s \in Nat : Between(Admitted', s, s + Window) \subseteq Between(Admitted, s, s + Window)
      BY <2>1 DEF Between
    <3>4. WindowsSmall'
      BY <1>2, <3>3, AtMostSubset DEF RateInv, WindowsSmall, Allowance
    <3>5. QED
      BY <1>2, <2>2, <3>2, <3>4 DEF StoreKnows
  <2>4. QED
    BY <1>1, <2>2, <2>3 DEF RateInv
<1>3. CASE store # "redis"
  <2>1. \A m \in Int : Since(Admitted', m) = {}
    BY <1>0, <1>3 DEF Since
  <2>2. MayBegin(Admitted', moment')
    <3>1. moment' - Window \in Int /\ moment' \in Int /\ AtMost({}, Limit)
      BY <1>1, AtMostEmpty DEF RateTypeOK
    <3>2. QED
      BY <2>1, <3>1 DEF MayBegin
  <2>3. StoreKnows'
    BY <1>0, <1>1, <1>3, <2>1, <2>2 DEF StoreKnows, WindowOf, RateTypeOK, Expiring
  <2>4. WindowsSmall'
    <3>1. \A s \in Nat : Between(Admitted', s, s + Window) = {}
      BY <1>0, <1>3 DEF Between
    <3>2. QED
      <4>1. AtMost({}, Allowance')
        BY AtMostEmpty DEF Allowance
      <4>2. QED
        BY <3>1, <4>1 DEF WindowsSmall
  <2>5. CountsEnd'
    BY DEF RateInv, CountsEnd, Expiring
  <2>6. QED
    BY <1>1, <2>3, <2>4, <2>5 DEF RateInv
<1>4. QED
  BY <1>2, <1>3

LEMMA RateInductive == Rate!WindowAssumption /\ RateInv /\ Rate!Next => RateInv'
<1> SUFFICES ASSUME Rate!WindowAssumption, RateInv, Rate!Next PROVE RateInv'
  OBVIOUS
<1>1. CASE Rate!Connect \/ Rate!Uncounted
  <2>1. UNCHANGED <<store, bucket, times, key, check, moment, cleaned, granted, cut>>
    BY <1>1 DEF Rate!Connect, Rate!Uncounted, Rate!inMemory, Rate!inRedis
  <2>2. Admitted' = Admitted /\ Expiring' = Expiring
    BY <2>1 DEF Admitted, Expiring
  <2>3. client' \in {"none", "ready", "failed"} /\ asked' \in 0..MaxAsked
    BY <1>1, RateConstants
    DEF Rate!Connect, Rate!Uncounted, Rate!inRedis, Rate!Ask, RateInv, RateTypeOK
  <2>4. RateTypeOK'
    BY <2>1, <2>3 DEF RateInv, RateTypeOK, Slots
  <2>5. QED
    BY <2>1, <2>2, <2>4 DEF RateInv, StoreKnows, WindowsSmall, CountsEnd, Allowance
<1>2. QED
  BY <1>1, TickKeeps, RequestKeeps, SlideKeeps, CleanKeeps, IncrKeeps, ExpireKeeps,
     EndOfCheckKeeps, RestartKeeps
  DEF Rate!Next

LEMMA RateStutters == RateInv /\ UNCHANGED Rate!vars => RateInv'
  BY DEF RateInv, RateTypeOK, Slots, StoreKnows, WindowsSmall, CountsEnd, Allowance, Admitted,
         Expiring, Rate!vars, Rate!inMemory, Rate!inRedis

LEMMA RateImplies == Rate!WindowAssumption /\ RateInv => Rate!WindowsHold
<1> SUFFICES ASSUME Rate!WindowAssumption, RateInv PROVE Rate!WindowsHold
  OBVIOUS
<1>1. ASSUME NEW s \in 1..moment
      PROVE  Rate!Cardinality(Rate!GrantedFrom(s)) <= Allowance
  <2>1. Rate!GrantedFrom(s) \subseteq Between(Admitted, s, s + Window) /\ s \in Nat
    BY <1>1, RateConstants DEF Rate!GrantedFrom, Between, Admitted, RateInv, RateTypeOK
  <2>2. Allowance \in Nat
    BY RateConstants DEF Allowance
  <2>3. AtMost(Rate!GrantedFrom(s), Allowance)
    BY <2>1, <2>2, AtMostSubset DEF RateInv, WindowsSmall
  <2>4. QED
    BY <2>3, CardinalityOfRate DEF AtMost
<1>2. QED
  BY <1>1 DEF Rate!WindowsHold, Allowance, RateInv, CountsEnd, Expiring

(* However requests, checks in Redis and what throws in them, the timer    *)
(* and restarts interleave, the count lets through at most what its store  *)
(* allows, and counts end.                                                 *)
THEOREM WindowsKeep == AllSpec => []WindowsHold
<1> DEFINE I == part = "rate" => RateInv
<1>1. AllInit => I
  BY RateInitially, EdgeAssumption DEF AllInit
<1>2. I /\ [AllNext]_allVars => I'
  BY RateInductive, RateStutters, EdgeAssumption
  DEF AllNext, allVars, rateVars, Rate!vars, Rate!inMemory, Rate!inRedis
<1>3. I => WindowsHold
  BY RateImplies, EdgeAssumption DEF WindowsHold
<1>4. QED
  BY <1>1, <1>2, <1>3, PTL DEF AllSpec

-----------------------------------------------------------------------------
AuditTypeOK ==
  /\ writer \in BOOLEAN /\ up \in BOOLEAN /\ connected \in BOOLEAN /\ failed \in Nat
  /\ buffer \in Seq(Entries)
  /\ written \in [Entries -> Nat] /\ unanswered \in [Entries -> Nat]
  /\ batch \in [Flushes -> Seq(Entries)]
  /\ running \subseteq Flushes /\ enqueued \subseteq Entries /\ dropped \subseteq Entries

Distinct(s) == \A i, j \in DOMAIN s : s[i] = s[j] => i = j

Apart(s, t) == Audit!In(s) \cap Audit!In(t) = {}

(* The entries with a row by a write that was answered, and all that no    *)
(* flush will see again.                                                   *)
Settled == {e \in Entries : written[e] = unanswered[e] + 1}
Gone    == Settled \cup dropped

(* An entry's rows are those of failed writes, and one more if a write was *)
(* answered.                                                               *)
RowsAccounted == \A e \in Entries : written[e] = unanswered[e] + (IF e \in Settled THEN 1 ELSE 0)

(* An entry is in one place, and there once.                               *)
PlacesApart ==
  /\ Distinct(buffer) /\ Audit!In(buffer) \cap Gone = {} /\ Settled \cap dropped = {}
  /\ \A f \in Flushes : Distinct(batch[f]) /\ Apart(batch[f], buffer)
                         /\ Audit!In(batch[f]) \cap Gone = {}
  /\ \A f, g \in Flushes : f # g => Apart(batch[f], batch[g])

(* What was enqueued is somewhere; a flush that is over holds nothing.     *)
NothingLost ==
  /\ enqueued = Audit!In(buffer) \cup Gone \cup UNION {Audit!In(batch[f]) : f \in Flushes}
  /\ \A f \in Flushes \ running : batch[f] = <<>>

AuditInv == AuditTypeOK /\ RowsAccounted /\ PlacesApart /\ NothingLost

-----------------------------------------------------------------------------
LEMMA InOfEmpty == Audit!In(<<>>) = {} /\ Distinct(<<>>)
  BY DEF Audit!In, Distinct

LEMMA InOfAppend ==
  ASSUME NEW s \in Seq(Entries), NEW e \in Entries
  PROVE  /\ Audit!In(Append(s, e)) = Audit!In(s) \cup {e}
         /\ Distinct(s) /\ e \notin Audit!In(s) => Distinct(Append(s, e))
<1>1. /\ Append(s, e) \in Seq(Entries) /\ Len(s) \in Nat
      /\ DOMAIN Append(s, e) = 1..(Len(s) + 1) /\ DOMAIN s = 1..Len(s)
      /\ \A i \in DOMAIN s : Append(s, e)[i] = s[i]
      /\ Append(s, e)[Len(s) + 1] = e
  OBVIOUS
<1>2. \A i \in DOMAIN Append(s, e) : i \in DOMAIN s \/ i = Len(s) + 1
  BY <1>1
<1>3. QED
  BY <1>1, <1>2 DEF Audit!In, Distinct

LEMMA InOfConcat ==
  ASSUME NEW s \in Seq(Entries), NEW t \in Seq(Entries)
  PROVE  /\ Audit!In(s \o t) = Audit!In(s) \cup Audit!In(t)
         /\ Distinct(s) /\ Distinct(t) /\ Apart(s, t) => Distinct(s \o t)
<1> DEFINE m == Len(s)
           n == Len(t)
<1>1. /\ m \in Nat /\ n \in Nat /\ DOMAIN s = 1..m /\ DOMAIN t = 1..n
      /\ DOMAIN (s \o t) = 1..(m + n)
      /\ \A i \in 1..m : (s \o t)[i] = s[i]
      /\ \A i \in 1..n : (s \o t)[i + m] = t[i]
  OBVIOUS
<1>2. \A i \in DOMAIN (s \o t) : i \in 1..m \/ (i - m \in 1..n /\ (s \o t)[i] = t[i - m])
  BY <1>1
<1> HIDE DEF m, n
<1>3. Audit!In(s \o t) \subseteq Audit!In(s) \cup Audit!In(t)
  BY <1>1, <1>2 DEF Audit!In
<1>4. Audit!In(s) \subseteq Audit!In(s \o t)
  BY <1>1 DEF Audit!In
<1>5. Audit!In(t) \subseteq Audit!In(s \o t)
  <2>1. \A i \in 1..n : i + m \in 1..(m + n)
    BY <1>1
  <2>2. QED
    BY <1>1, <2>1 DEF Audit!In
<1>6. ASSUME Distinct(s), Distinct(t), Apart(s, t),
             NEW i \in DOMAIN (s \o t), NEW j \in DOMAIN (s \o t), (s \o t)[i] = (s \o t)[j]
      PROVE  i = j
  <2>1. CASE i \in 1..m /\ j \in 1..m
    BY <1>1, <1>6, <2>1 DEF Distinct
  <2>2. CASE i \notin 1..m /\ j \notin 1..m
    <3>1. i - m = j - m
      BY <1>1, <1>2, <1>6, <2>2 DEF Distinct
    <3>2. QED
      BY <1>1, <3>1
  <2>3. ASSUME NEW k \in 1..m, NEW l \in DOMAIN (s \o t), l \notin 1..m,
               (s \o t)[k] = (s \o t)[l]
        PROVE  FALSE
    <3>1. (s \o t)[k] \in Audit!In(s) /\ (s \o t)[l] \in Audit!In(t)
      BY <1>1, <1>2, <2>3 DEF Audit!In
    <3>2. QED
      BY <1>6, <2>3, <3>1 DEF Apart
  <2>4. QED
    BY <2>1, <2>2, <2>3, <1>6
<1>7. QED
  BY <1>3, <1>4, <1>5, <1>6 DEF Distinct
-----------------------------------------------------------------------------
(* An instance has its own copies of the standard modules' operators.      *)
LEMMA CardinalityOfAudit == \A S : Audit!Cardinality(S) = Cardinality(S)
  BY DEF Audit!Cardinality, Cardinality

LEMMA OnceIn ==
  ASSUME NEW s \in Seq(Entries), NEW e, Distinct(s)
  PROVE  Audit!Times(s, e) = IF e \in Audit!In(s) THEN 1 ELSE 0
<1>1. CASE e \in Audit!In(s)
  <2>1. PICK k \in DOMAIN s : s[k] = e
    BY <1>1 DEF Audit!In
  <2>2. {i \in DOMAIN s : s[i] = e} = {k}
    BY <2>1 DEF Distinct
  <2>3. QED
    BY <1>1, <2>2, FS_Singleton, CardinalityOfAudit DEF Audit!Times
<1>2. CASE e \notin Audit!In(s)
  <2>1. {i \in DOMAIN s : s[i] = e} = {}
    BY <1>2 DEF Audit!In
  <2>2. QED
    BY <1>2, <2>1, FS_EmptySet, CardinalityOfAudit DEF Audit!Times
<1>3. QED
  BY <1>1, <1>2

LEMMA RowsOfBatch ==
  ASSUME NEW before \in [Entries -> Nat], NEW s \in Seq(Entries), Distinct(s)
  PROVE  /\ Audit!WithRows(before, s) \in [Entries -> Nat]
         /\ \A e \in Entries :
              Audit!WithRows(before, s)[e] = before[e] + (IF e \in Audit!In(s) THEN 1 ELSE 0)
<1>1. \A e \in Entries : Audit!Times(s, e) = IF e \in Audit!In(s) THEN 1 ELSE 0
  BY OnceIn
<1>2. QED
  BY <1>1 DEF Audit!WithRows
-----------------------------------------------------------------------------
LEMMA AuditInitially == Audit!Init => AuditInv
<1> SUFFICES ASSUME Audit!Init PROVE AuditInv
  OBVIOUS
<1>1. <<>> \in Seq(Entries)
  OBVIOUS
<1>2. AuditTypeOK
  BY <1>1 DEF Audit!Init, Audit!NoRows, AuditTypeOK
<1>3. Settled = {} /\ Gone = {}
  BY DEF Audit!Init, Audit!NoRows, Settled, Gone
<1>4. RowsAccounted
  BY <1>3 DEF Audit!Init, Audit!NoRows, RowsAccounted
<1>5. PlacesApart
  BY <1>3, InOfEmpty DEF Audit!Init, PlacesApart, Apart
<1>6. NothingLost
  BY <1>3, InOfEmpty DEF Audit!Init, NothingLost
<1>7. QED
  BY <1>2, <1>4, <1>5, <1>6 DEF AuditInv

(* Entries that no flush holds move to a flush that is not under way, or,  *)
(* without a database, go.                                                 *)
LEMMA TakeKeeps ==
  ASSUME AuditInv, NEW f \in Flushes \ running, NEW entries \in Seq(Entries),
         Audit!Take(f, entries), UNCHANGED <<written, unanswered>>,
         writer' = writer, failed' = failed, up' = up,
         enqueued' = enqueued \cup Audit!In(entries), enqueued' \subseteq Entries,
         Distinct(entries), Audit!In(entries) \cap Gone = {},
         Audit!In(buffer) \subseteq Audit!In(entries),
         \A g \in Flushes : Apart(entries, batch[g])
  PROVE  AuditInv'
<1> USE DEF AuditInv, Audit!Take, Audit!Left
<1>1. Settled' = Settled /\ RowsAccounted'
  BY DEF Settled, RowsAccounted
<1>2. Audit!In(entries) \subseteq Entries
  OBVIOUS
<1>3. CASE /\ batch' = [batch EXCEPT ![f] = entries] /\ running' = running \cup {f}
           /\ dropped' = dropped /\ connected' = TRUE
  <2>1. /\ batch'[f] = entries /\ batch[f] = <<>> /\ buffer' = <<>>
        /\ \A g \in Flushes : g # f => batch'[g] = batch[g]
        /\ Gone' = Gone
    BY <1>1, <1>3 DEF AuditTypeOK, NothingLost, Gone
  <2>2. AuditTypeOK'
    BY <1>3, <2>1 DEF AuditTypeOK
  <2>3. PlacesApart'
    BY <1>1, <1>3, <2>1, InOfEmpty DEF PlacesApart, Apart
  <2>4. NothingLost'
    <3>1. UNION {Audit!In(batch'[g]) : g \in Flushes}
            = Audit!In(entries) \cup UNION {Audit!In(batch[g]) : g \in Flushes}
      BY <2>1, InOfEmpty
    <3>2. QED
      BY <1>3, <2>1, <3>1, InOfEmpty DEF NothingLost
  <2>5. QED
    BY <1>1, <2>2, <2>3, <2>4
<1>4. CASE dropped' = dropped \cup Audit!In(entries) /\ UNCHANGED <<connected, batch, running>>
  <2>1. buffer' = <<>> /\ Gone' = Gone \cup Audit!In(entries)
    BY <1>1, <1>4 DEF Gone
  <2>2. AuditTypeOK'
    BY <1>2, <1>4, <2>1 DEF AuditTypeOK
  <2>3. PlacesApart'
    <3>1. Settled' \cap dropped' = {}
      BY <1>1, <1>4 DEF PlacesApart, Gone
    <3>2. QED
      BY <1>4, <2>1, <3>1, InOfEmpty DEF PlacesApart, Apart
  <2>4. NothingLost'
    BY <1>4, <2>1, InOfEmpty DEF NothingLost
  <2>5. QED
    BY <1>1, <2>2, <2>3, <2>4
<1>5. QED
  BY <1>3, <1>4

LEMMA EnqueueKeeps ==
  ASSUME AuditInv, NEW e \in Entries, Audit!Enqueue(e)
  PROVE  AuditInv'
<1> DEFINE entries == Append(buffer, e)
<1>1. buffer \in Seq(Entries) /\ entries \in Seq(Entries)
  BY DEF AuditInv, AuditTypeOK
<1>2. /\ Audit!In(entries) = Audit!In(buffer) \cup {e} /\ e \notin Audit!In(buffer)
      /\ e \notin Gone /\ \A g \in Flushes : e \notin Audit!In(batch[g])
  BY <1>1, InOfAppend DEF AuditInv, NothingLost, Audit!Enqueue
<1>3. /\ Distinct(entries) /\ Audit!In(entries) \cap Gone = {}
      /\ \A g \in Flushes : Apart(entries, batch[g]) /\ Apart(batch[g], entries)
  BY <1>1, <1>2, InOfAppend DEF AuditInv, PlacesApart, Apart
<1>4. /\ enqueued' = enqueued \cup Audit!In(entries) /\ enqueued' \subseteq Entries
      /\ writer' = writer /\ failed' = failed /\ up' = up
      /\ UNCHANGED <<written, unanswered>>
  BY <1>2 DEF Audit!Enqueue, Audit!table, AuditInv, AuditTypeOK, NothingLost
<1>5. ASSUME NEW f \in Flushes \ running, Audit!Take(f, entries)
      PROVE  AuditInv'
  <2> HIDE DEF entries
  <2>1. Audit!In(buffer) \subseteq Audit!In(entries)
    BY <1>2
  <2>2. QED
    BY <1>1, <1>3, <1>4, <1>5, <2>1, TakeKeeps
<1>6. CASE buffer' = entries /\ UNCHANGED <<batch, running, connected, dropped>>
  <2>1. Settled' = Settled /\ Gone' = Gone /\ RowsAccounted'
    BY <1>4, <1>6 DEF Settled, Gone, RowsAccounted, AuditInv
  <2>2. AuditTypeOK'
    BY <1>1, <1>4, <1>6 DEF AuditInv, AuditTypeOK
  <2>3. PlacesApart'
    BY <1>2, <1>3, <1>4, <1>6, <2>1 DEF AuditInv, PlacesApart, Apart
  <2>4. NothingLost'
    BY <1>2, <1>4, <1>6, <2>1 DEF AuditInv, NothingLost
  <2>5. QED
    BY <2>1, <2>2, <2>3, <2>4 DEF AuditInv
<1>7. QED
  BY <1>5, <1>6 DEF Audit!Enqueue

LEMMA FlushKeeps ==
  ASSUME AuditInv, NEW f \in Flushes, Audit!Flush(f)
  PROVE  AuditInv'
<1>1. /\ buffer \in Seq(Entries) /\ Distinct(buffer) /\ Audit!In(buffer) \cap Gone = {}
      /\ \A g \in Flushes : Apart(buffer, batch[g])
      /\ enqueued = enqueued \cup Audit!In(buffer) /\ enqueued \subseteq Entries
  BY DEF AuditInv, AuditTypeOK, PlacesApart, NothingLost, Apart
<1>2. /\ f \in Flushes \ running /\ Audit!Take(f, buffer) /\ UNCHANGED <<written, unanswered>>
      /\ writer' = writer /\ failed' = failed /\ up' = up /\ enqueued' = enqueued
  BY DEF Audit!Flush, Audit!table
<1>3. QED
  BY <1>1, <1>2, TakeKeeps

(* A flush that is over has its batch in the table, answered, or leaves it *)
(* to the buffer, whether rows of it are in the table or not.              *)
LEMMA DoneKeeps ==
  ASSUME AuditInv, NEW f \in Flushes, f \in running, Audit!Done(f),
         RowsAccounted', AuditTypeOK',
         \/ buffer' = batch[f] \o buffer /\ Settled' = Settled
         \/ buffer' = buffer /\ Settled' = Settled \cup Audit!In(batch[f]),
         enqueued' = enqueued, dropped' = dropped
  PROVE  AuditInv'
<1> USE DEF AuditInv, Audit!Done
<1>1. /\ batch'[f] = <<>> /\ running' = running \ {f}
      /\ \A g \in Flushes : g # f => batch'[g] = batch[g]
      /\ batch[f] \in Seq(Entries) /\ buffer \in Seq(Entries)
  BY DEF AuditTypeOK
<1>2. /\ Audit!In(batch[f] \o buffer) = Audit!In(batch[f]) \cup Audit!In(buffer)
      /\ Distinct(batch[f] \o buffer)
  BY <1>1, InOfConcat DEF PlacesApart
<1>3. PlacesApart'
  <2>1. CASE buffer' = batch[f] \o buffer /\ Settled' = Settled
    <3>1. Gone' = Gone
      BY <2>1 DEF Gone
    <3>2. QED
      BY <1>1, <1>2, <2>1, <3>1, InOfEmpty, ZenonT(60) DEF PlacesApart, Apart
  <2>2. CASE buffer' = buffer /\ Settled' = Settled \cup Audit!In(batch[f])
    <3>1. Gone' = Gone \cup Audit!In(batch[f])
      BY <2>2 DEF Gone
    <3>2. Settled' \cap dropped' = {}
      BY <2>2 DEF PlacesApart, Gone
    <3>3. QED
      BY <1>1, <2>2, <3>1, <3>2, InOfEmpty DEF PlacesApart, Apart
  <2>3. QED
    BY <2>1, <2>2
<1>4. NothingLost'
  <2>1. UNION {Audit!In(batch[g]) : g \in Flushes}
          = Audit!In(batch[f]) \cup UNION {Audit!In(batch'[g]) : g \in Flushes}
    BY <1>1, InOfEmpty
  <2>2. Audit!In(buffer') \cup Gone' = Audit!In(batch[f]) \cup Audit!In(buffer) \cup Gone
    BY <1>2 DEF Gone
  <2>3. enqueued' = Audit!In(buffer') \cup Gone' \cup UNION {Audit!In(batch'[g]) : g \in Flushes}
    BY <2>1, <2>2 DEF NothingLost
  <2>4. \A g \in Flushes \ running' : batch'[g] = <<>>
    BY <1>1 DEF NothingLost
  <2>5. QED
    BY <2>3, <2>4 DEF NothingLost
<1>5. QED
  BY <1>3, <1>4

LEMMA WrittenKeeps ==
  ASSUME AuditInv, NEW f \in Flushes, Audit!Written(f)
  PROVE  AuditInv'
<1> DEFINE new == Audit!WithRows(written, batch[f])
<1>1. /\ batch[f] \in Seq(Entries) /\ Distinct(batch[f]) /\ Audit!In(batch[f]) \cap Settled = {}
      /\ Audit!In(batch[f]) \subseteq Entries /\ written \in [Entries -> Nat]
      /\ unanswered \in [Entries -> Nat]
  BY DEF AuditInv, AuditTypeOK, PlacesApart, Gone, Audit!In
<1>2. /\ new \in [Entries -> Nat]
      /\ \A e \in Entries : new[e] = written[e] + (IF e \in Audit!In(batch[f]) THEN 1 ELSE 0)
  BY <1>1, RowsOfBatch
<1>3. /\ f \in running /\ Audit!Done(f) /\ written' = new /\ buffer' = buffer
      /\ UNCHANGED <<writer, connected, failed, up, enqueued, dropped, unanswered>>
  BY DEF Audit!Written
<1> HIDE DEF new
<1>4. \A e \in Entries :
        /\ e \in Settled' <=> e \in Settled \/ e \in Audit!In(batch[f])
        /\ written'[e] = unanswered'[e] + (IF e \in Settled' THEN 1 ELSE 0)
  BY <1>1, <1>2, <1>3 DEF AuditInv, RowsAccounted, Settled
<1>5. Settled' = Settled \cup Audit!In(batch[f])
  BY <1>1, <1>4 DEF Settled
<1>6. RowsAccounted'
  BY <1>4 DEF RowsAccounted
<1>7. AuditTypeOK'
  BY <1>2, <1>3 DEF AuditInv, AuditTypeOK, Audit!Done
<1>8. QED
  BY <1>3, <1>5, <1>6, <1>7, DoneKeeps

LEMMA FailedKeeps ==
  ASSUME AuditInv, NEW f \in Flushes, Audit!Failed(f)
  PROVE  AuditInv'
<1> DEFINE new  == Audit!WithRows(written, batch[f])
           lost == Audit!WithRows(unanswered, batch[f])
<1>1. /\ batch[f] \in Seq(Entries) /\ buffer \in Seq(Entries) /\ Distinct(batch[f])
      /\ written \in [Entries -> Nat] /\ unanswered \in [Entries -> Nat] /\ failed \in Nat
      /\ batch[f] \o buffer \in Seq(Entries)
  BY DEF AuditInv, AuditTypeOK, PlacesApart
<1>2. /\ new \in [Entries -> Nat] /\ lost \in [Entries -> Nat]
      /\ \A e \in Entries : new[e] = written[e] + (IF e \in Audit!In(batch[f]) THEN 1 ELSE 0)
      /\ \A e \in Entries : lost[e] = unanswered[e] + (IF e \in Audit!In(batch[f]) THEN 1 ELSE 0)
  BY <1>1, RowsOfBatch
<1>3. /\ f \in running /\ Audit!Done(f) /\ buffer' = batch[f] \o buffer /\ failed' = failed + 1
      /\ \/ written' = written /\ unanswered' = unanswered
         \/ written' = new /\ unanswered' = lost
      /\ UNCHANGED <<writer, connected, up, enqueued, dropped>>
  BY DEF Audit!Failed, Audit!PutBack, Audit!table
<1> HIDE DEF new, lost
<1>4. \A e \in Entries : /\ e \in Settled' <=> e \in Settled
                         /\ written'[e] = unanswered'[e] + (IF e \in Settled' THEN 1 ELSE 0)
  <2>1. CASE written' = written /\ unanswered' = unanswered
    BY <2>1 DEF AuditInv, RowsAccounted, Settled
  <2>2. CASE written' = new /\ unanswered' = lost
    <3>1. ASSUME NEW e \in Entries
          PROVE  \E k \in {0, 1} : /\ written'[e] = written[e] + k
                                   /\ unanswered'[e] = unanswered[e] + k
      <4>1. written'[e] = new[e] /\ unanswered'[e] = lost[e]
        BY <2>2
      <4>2. CASE e \in Audit!In(batch[f])
        BY <1>2, <4>1, <4>2
      <4>3. CASE e \notin Audit!In(batch[f])
        BY <1>2, <4>1, <4>3
      <4>4. QED
        BY <4>2, <4>3
    <3>2. \A e \in Entries : written[e] \in Nat /\ unanswered[e] \in Nat
      BY <1>1
    <3>3. \A e \in Entries :
            (IF e \in Settled THEN written[e] = unanswered[e] + 1 ELSE written[e] = unanswered[e])
      BY <3>2 DEF AuditInv, RowsAccounted
    <3>4. \A e \in Entries :
            IF e \in Settled THEN written'[e] = unanswered'[e] + 1 ELSE written'[e] = unanswered'[e]
      BY <3>1, <3>2, <3>3
    <3>5. \A e \in Entries : unanswered'[e] \in Nat
      BY <3>1, <3>2
    <3>6. QED
      BY <3>4, <3>5 DEF Settled
  <2>3. QED
    BY <1>3, <2>1, <2>2
<1>5. Settled' = Settled
  BY <1>4 DEF Settled
<1>6. RowsAccounted'
  BY <1>4 DEF RowsAccounted
<1>7. AuditTypeOK'
  BY <1>1, <1>2, <1>3 DEF AuditInv, AuditTypeOK, Audit!Done
<1>8. QED
  BY <1>3, <1>5, <1>6, <1>7, DoneKeeps

LEMMA AuditInductive == AuditInv /\ Audit!Next => AuditInv'
<1> SUFFICES ASSUME AuditInv, Audit!Next PROVE AuditInv'
  OBVIOUS
<1>1. CASE Audit!Register \/ Audit!End
  BY <1>1 DEF Audit!Register, Audit!End, Audit!table, AuditInv, AuditTypeOK, RowsAccounted,
              PlacesApart, NothingLost, Gone, Settled
<1>2. QED
  BY <1>1, EnqueueKeeps, FlushKeeps, WrittenKeeps, FailedKeeps DEF Audit!Next

LEMMA AuditStutters == AuditInv /\ UNCHANGED Audit!vars => AuditInv'
  BY DEF AuditInv, AuditTypeOK, RowsAccounted, PlacesApart, NothingLost, Gone, Settled,
         Audit!vars, Audit!table

-----------------------------------------------------------------------------
LEMMA OnceAmong ==
  ASSUME AuditInv, NEW e
  PROVE  Cardinality({f \in running : e \in Audit!In(batch[f])})
           = IF \E f \in Flushes : e \in Audit!In(batch[f]) THEN 1 ELSE 0
<1>1. \A f \in Flushes : e \in Audit!In(batch[f]) => f \in running
  BY InOfEmpty DEF AuditInv, NothingLost
<1>2. CASE \E f \in Flushes : e \in Audit!In(batch[f])
  <2>1. PICK k \in Flushes : e \in Audit!In(batch[k])
    BY <1>2
  <2>2. {f \in running : e \in Audit!In(batch[f])} = {k}
    BY <1>1, <2>1 DEF AuditInv, AuditTypeOK, PlacesApart, Apart
  <2>3. QED
    BY <1>2, <2>2, FS_Singleton
<1>3. CASE ~ \E f \in Flushes : e \in Audit!In(batch[f])
  <2>1. {f \in running : e \in Audit!In(batch[f])} = {}
    BY <1>3 DEF AuditInv, AuditTypeOK
  <2>2. QED
    BY <1>3, <2>1, FS_EmptySet
<1>4. QED
  BY <1>2, <1>3

LEMMA AuditImplies == AuditInv => Audit!KeptOnce
<1> SUFFICES ASSUME AuditInv, NEW e \in enqueued
             PROVE  Audit!Times(buffer, e)
                      + Audit!Cardinality({f \in running : e \in Audit!In(batch[f])})
                      + written[e] + (IF e \in dropped THEN 1 ELSE 0) = 1 + unanswered[e]
  BY DEF Audit!KeptOnce
<1> DEFINE inBuffer  == Audit!Times(buffer, e)
           inBatches == Audit!Cardinality({f \in running : e \in Audit!In(batch[f])})
           inTable   == IF e \in Settled THEN 1 ELSE 0
           isDropped == IF e \in dropped THEN 1 ELSE 0
<1>1. inBuffer = IF e \in Audit!In(buffer) THEN 1 ELSE 0
  BY OnceIn DEF AuditInv, AuditTypeOK, PlacesApart
<1>2. inBatches = IF \E f \in Flushes : e \in Audit!In(batch[f]) THEN 1 ELSE 0
  BY OnceAmong, CardinalityOfAudit
<1>3. written[e] = unanswered[e] + inTable /\ unanswered[e] \in Nat
  BY DEF AuditInv, AuditTypeOK, RowsAccounted
<1>4. inBuffer + inBatches + inTable + isDropped = 1
  <2>1. e \in Audit!In(buffer) \/ e \in Settled \/ e \in dropped
          \/ \E f \in Flushes : e \in Audit!In(batch[f])
    BY DEF AuditInv, NothingLost, Gone
  <2>2. e \in Audit!In(buffer) => ~ \E f \in Flushes : e \in Audit!In(batch[f])
    BY DEF AuditInv, PlacesApart, Apart
  <2>3. e \in Gone => e \notin Audit!In(buffer) /\ ~ \E f \in Flushes : e \in Audit!In(batch[f])
    BY DEF AuditInv, PlacesApart
  <2>4. ~ (e \in Settled /\ e \in dropped)
    BY DEF AuditInv, PlacesApart
  <2> HIDE DEF inBuffer, inBatches
  <2>5. QED
    BY <1>1, <1>2, <2>1, <2>2, <2>3, <2>4 DEF Gone
<1>5. inBuffer \in Nat /\ inBatches \in Nat /\ inTable \in Nat /\ isDropped \in Nat
  <2> HIDE DEF inBuffer, inBatches
  <2>1. QED
    BY <1>1, <1>2
<1> HIDE DEF inBuffer, inBatches, inTable, isDropped
<1>6. inBuffer + inBatches + written[e] + isDropped = 1 + unanswered[e]
  BY <1>3, <1>4, <1>5
<1>7. QED
  BY <1>6 DEF inBuffer, inBatches, isDropped

(* However flushes overlap and fail, as long as the process runs every     *)
(* entry enqueued is in exactly one place, once, but for rows of writes    *)
(* that failed after they took effect.                                     *)
THEOREM AuditKeepsOnce == AllSpec => []KeptOnce
<1> DEFINE I == part = "audit" => AuditInv
<1>1. AllInit => I
  BY AuditInitially DEF AllInit
<1>2. I /\ [AllNext]_allVars => I'
  BY AuditInductive, AuditStutters DEF AllNext, allVars, auditVars, Audit!vars, Audit!table
<1>3. I => KeptOnce
  BY AuditImplies DEF KeptOnce
<1>4. QED
  BY <1>1, <1>2, <1>3, PTL DEF AllSpec

-----------------------------------------------------------------------------
WorkerSteps ==
  {"none", "named", "dispatch", "success", "failure"} \cup Worker!Over

WorkerTypeOK ==
  /\ form \in [Messages -> Worker!Forms]
  /\ progress \in [Worker!Deliveries -> WorkerSteps]
  /\ rows \subseteq Worker!Deliveries
  /\ recorded \subseteq Worker!Deliveries \X {"success", "failure"}
  /\ acked \subseteq Messages

(* What a delivery has done when its run is to be recorded, and when it is *)
(* answered.                                                               *)
InsertsPrecede ==
  \A d \in Worker!Deliveries :
    form[d[1]] = "insert" /\ (progress[d] = "success" \/ <<d, "success">> \in recorded)
      => d \in rows

AnswersAreRecorded ==
  /\ \A d \in Worker!Deliveries : progress[d] = "answered" => <<d, "success">> \in recorded
  /\ \A m \in acked : \E n \in 1..Tries : <<<<m, n>>, "success">> \in recorded

WorkerInv == WorkerTypeOK /\ InsertsPrecede /\ AnswersAreRecorded

LEMMA WorkerInitially == Worker!Init => WorkerInv
  BY DEF Worker!Init, WorkerInv, WorkerTypeOK, InsertsPrecede, AnswersAreRecorded, WorkerSteps

WorkerStep(d) ==
  \/ Worker!Deliver(d) \/ Worker!Name(d) \/ Worker!Dispatch(d)
  \/ Worker!LogRun(d, "success") \/ Worker!LogRun(d, "failure")
  \/ Worker!Ack(d) \/ Worker!Die(d)

LEMMA WorkerKeepsType ==
  ASSUME WorkerTypeOK, NEW d \in Worker!Deliveries, WorkerStep(d)
  PROVE  WorkerTypeOK'
<1> USE DEF WorkerTypeOK, WorkerSteps, Worker!Over, Worker!Goto
<1>1. CASE Worker!Deliver(d)
  BY <1>1 DEF Worker!Deliver
<1>2. CASE Worker!Name(d)
  BY <1>2 DEF Worker!Name
<1>3. CASE Worker!Dispatch(d)
  BY <1>3 DEF Worker!Dispatch
<1>4. CASE Worker!LogRun(d, "success")
  BY <1>4 DEF Worker!LogRun, Worker!Answer
<1>5. CASE Worker!LogRun(d, "failure")
  BY <1>5 DEF Worker!LogRun, Worker!Answer
<1>6. CASE Worker!Ack(d)
  BY <1>6 DEF Worker!Ack, Worker!Deliveries
<1>7. CASE Worker!Die(d)
  BY <1>7 DEF Worker!Die
<1>8. QED
  BY <1>1, <1>2, <1>3, <1>4, <1>5, <1>6, <1>7 DEF WorkerStep

(* A run is recorded as a success only from the step its rows left it in.  *)
LEMMA WorkerKeepsInserts ==
  ASSUME WorkerInv, NEW d \in Worker!Deliveries, WorkerStep(d)
  PROVE  InsertsPrecede'
<1> USE DEF WorkerInv, WorkerTypeOK, WorkerSteps, InsertsPrecede, Worker!Over, Worker!Goto
<1>1. CASE Worker!Deliver(d)
  BY <1>1 DEF Worker!Deliver
<1>2. CASE Worker!Name(d)
  BY <1>2 DEF Worker!Name
<1>3. CASE Worker!Dispatch(d)
  BY <1>3 DEF Worker!Dispatch
<1>4. CASE Worker!LogRun(d, "success")
  BY <1>4 DEF Worker!LogRun, Worker!Answer
<1>5. CASE Worker!LogRun(d, "failure")
  BY <1>5 DEF Worker!LogRun, Worker!Answer
<1>6. CASE Worker!Ack(d)
  BY <1>6 DEF Worker!Ack
<1>7. CASE Worker!Die(d)
  BY <1>7 DEF Worker!Die
<1>8. QED
  BY <1>1, <1>2, <1>3, <1>4, <1>5, <1>6, <1>7 DEF WorkerStep

(* Only a recorded success is answered, and only an answer acknowledges.   *)
LEMMA WorkerKeepsAnswers ==
  ASSUME WorkerInv, NEW d \in Worker!Deliveries, WorkerStep(d)
  PROVE  AnswersAreRecorded'
<1> USE DEF WorkerInv, WorkerTypeOK, WorkerSteps, AnswersAreRecorded, Worker!Over, Worker!Goto
<1>1. CASE Worker!Deliver(d)
  BY <1>1 DEF Worker!Deliver
<1>2. CASE Worker!Name(d)
  BY <1>2 DEF Worker!Name
<1>3. CASE Worker!Dispatch(d)
  BY <1>3 DEF Worker!Dispatch
<1>4. CASE Worker!LogRun(d, "success")
  BY <1>4 DEF Worker!LogRun, Worker!Answer
<1>5. CASE Worker!LogRun(d, "failure")
  BY <1>5 DEF Worker!LogRun, Worker!Answer
<1>6. CASE Worker!Ack(d)
  <2>1. d = <<d[1], d[2]>> /\ d[2] \in 1..Tries
    BY DEF Worker!Deliveries
  <2>2. <<<<d[1], d[2]>>, "success">> \in recorded
    BY <1>6, <2>1 DEF Worker!Ack
  <2>3. QED
    BY <1>6, <2>1, <2>2 DEF Worker!Ack
<1>7. CASE Worker!Die(d)
  BY <1>7 DEF Worker!Die
<1>8. QED
  BY <1>1, <1>2, <1>3, <1>4, <1>5, <1>6, <1>7 DEF WorkerStep

LEMMA WorkerInductive == WorkerInv /\ Worker!Next => WorkerInv'
  BY WorkerKeepsType, WorkerKeepsInserts, WorkerKeepsAnswers
  DEF WorkerInv, Worker!Next, WorkerStep

LEMMA WorkerStutters == WorkerInv /\ UNCHANGED Worker!vars => WorkerInv'
  BY DEF WorkerInv, WorkerTypeOK, InsertsPrecede, AnswersAreRecorded, Worker!vars

LEMMA WorkerImplies == WorkerInv => Worker!AckedIsDone
  BY DEF WorkerInv, AnswersAreRecorded, InsertsPrecede, Worker!AckedIsDone

(* However deliveries of a message overlap, fail and end, what is          *)
(* acknowledged was recorded as a success, and its rows are in.            *)
THEOREM AcknowledgedIsDone == AllSpec => []AckedIsDone
<1> DEFINE I == part = "worker" => WorkerInv
<1>1. AllInit => I
  BY WorkerInitially DEF AllInit
<1>2. I /\ [AllNext]_allVars => I'
  BY WorkerInductive, WorkerStutters DEF AllNext, allVars, workerVars, Worker!vars
<1>3. I => AckedIsDone
  BY WorkerImplies DEF AckedIsDone
<1>4. QED
  BY <1>1, <1>2, <1>3, PTL DEF AllSpec
===============================================================================
