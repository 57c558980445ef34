------------------------------ MODULE SocialPosting ------------------------------
(***************************************************************************)
(* Posting to a customer's Facebook page: the handlers facebook.post and   *)
(* postWeatherAware (server/routers/_incoming_routers.ts) and the policy   *)
(* both ask (server/services/facebook-policy.ts).                          *)
(*                                                                         *)
(* Time is UTC, in hours. The policy counts posts by the UTC date, in the  *)
(* memory of the process, and takes quiet hours and the time to retry from *)
(* the server's local clock, Offset hours ahead; where Offset is not in    *)
(* -1..6 a local day's posting hours are of two dates. Both handlers ask   *)
(* in the mode "manual"; the policy's rules for other modes are left out,  *)
(* and so is daylight saving. No code inserts connections, they are given, *)
(* and no handler asks for their status.                                   *)
(***************************************************************************)
EXTENDS Integers, FiniteSets

CONSTANTS
  Requests,   \* requests, each issued once
  Pages,      \* the pages connected, each by one customer
  DailyLimit, \* posts of a page on a date: 3 in the code
  Offset,     \* of the server's time zone
  Horizon     \* bound: the last hour

ASSUME PostingAssumption ==
  DailyLimit \in Nat \ {0} /\ Offset \in -12..14 /\ Horizon \in Nat

Hours  == 0..Horizon
Day(t) == t \div 24
Days   == 0..Day(Horizon)
Over   == {"returned", "facebook", "threw"}

VARIABLES
  clock,
  count,       \* dailyPostCounts
  call         \* where each request is

vars == <<clock, count, call>>

NoCall == [op |-> "none", page |-> "none", step |-> "none", action |-> "none", at |-> 0, retry |-> 0]

LocalHour(t) == (t + Offset) % 24
Quiet(t)     == LocalHour(t) >= 23 \/ LocalHour(t) < 6

(* Posts were allowed earlier this date if some of it was not quiet.       *)
Init ==
  /\ clock \in 0..23
  /\ \E used \in [Pages -> IF \A t \in 0..clock : Quiet(t) THEN {0} ELSE 0..DailyLimit] :
       count = [p \in Pages |-> [d \in Days |-> IF d = 0 THEN used[p] ELSE 0]]
  /\ call = [r \in Requests |-> NoCall]

-----------------------------------------------------------------------------
Goto(r, step) == call' = [call EXCEPT ![r].step = step]

Begin(r) ==
  /\ call[r].step = "none"
  /\ \E op \in {"post", "weather"}, p \in Pages :
       call' = [call EXCEPT ![r].op = op, ![r].page = p, ![r].step = "connection"]
  /\ UNCHANGED <<clock, count>>

Throws(r) ==
  /\ call[r].step \in {"connection", "weather"}
  /\ Goto(r, "threw")
  /\ UNCHANGED <<clock, count>>

(* The caller's connection is found whatever its status.                   *)
FindConnection(r) ==
  /\ call[r].step = "connection"
  /\ Goto(r, IF call[r].op = "weather" THEN "weather" ELSE "policy")
  /\ UNCHANGED <<clock, count>>

(* A storm closes the safety gate; when the weather cannot be had it is    *)
(* taken to be fine.                                                       *)
Weather == {"storm", "fine"}

ReadWeather(r) ==
  /\ call[r].step = "weather"
  /\ \E weather \in Weather : Goto(r, IF weather = "storm" THEN "returned" ELSE "policy")
  /\ UNCHANGED <<clock, count>>

-----------------------------------------------------------------------------
(* checkFacebookPostingPolicy, one synchronous call.                       *)
Six(t) == t - LocalHour(t) + 6    \* six o'clock of the local day of t

(* Mutant of RetryAfterQuiet: six o'clock of the same day.                 *)
RetrySameDay(t) == Six(t)

RetryAfterQuiet(t) == IF LocalHour(t) >= 23 THEN Six(t) + 24 ELSE Six(t)
RetryTomorrow(t)   == Six(t) + 24

LimitReached(p, t) == count[p][Day(t)] >= DailyLimit

Defer(r, retry) ==
  /\ call' = [call EXCEPT ![r].step = "returned", ![r].action = "DEFER",
                          ![r].at = clock, ![r].retry = retry]
  /\ UNCHANGED <<clock, count>>

InQuietHours(r) ==
  /\ call[r].step = "policy" /\ Quiet(clock)
  /\ Defer(r, RetryAfterQuiet(clock))

OverLimit(r) ==
  /\ call[r].step = "policy" /\ ~Quiet(clock) /\ LimitReached(call[r].page, clock)
  /\ Defer(r, RetryTomorrow(clock))

Allow(r) ==
  LET p == call[r].page IN
  /\ call[r].step = "policy" /\ ~Quiet(clock) /\ ~LimitReached(p, clock)
  /\ count' = [count EXCEPT ![p][Day(clock)] = @ + 1]
  /\ call' = [call EXCEPT ![r].step = "decide", ![r].action = "POST", ![r].at = clock]
  /\ UNCHANGED clock

(* Back in the handler, which goes on to postToFacebook for the answer     *)
(* "PUBLISH" alone.                                                        *)
GoesOn(action) == action = "PUBLISH"

Answer(r) ==
  /\ call[r].step = "decide"
  /\ Goto(r, IF GoesOn(call[r].action) THEN "facebook" ELSE "returned")
  /\ UNCHANGED <<clock, count>>

-----------------------------------------------------------------------------
Tick ==
  /\ clock < Horizon
  /\ clock' = clock + 1
  /\ UNCHANGED <<count, call>>

(* The process starts again: counts and requests are gone.                 *)
Restart ==
  /\ count' = [p \in Pages |-> [d \in Days |-> 0]]
  /\ call' = [r \in Requests |-> IF call[r].step \in Over \cup {"none"} THEN call[r]
                                 ELSE [call[r] EXCEPT !.step = "threw"]]
  /\ UNCHANGED clock

Step(r) ==
  \/ Begin(r) \/ Throws(r) \/ FindConnection(r) \/ ReadWeather(r)
  \/ InQuietHours(r) \/ OverLimit(r) \/ Allow(r) \/ Answer(r)

Next == (\E r \in Requests : Step(r)) \/ Tick \/ Restart
Spec == Init /\ [][Next]_vars

-----------------------------------------------------------------------------
(* A page's posts of this date were used up by requests allowed after r    *)
(* was refused.                                                            *)
OthersSince(r) ==
  \E q \in Requests : /\ call[q].page = call[r].page /\ call[q].action = "POST"
                      /\ call[q].at \in call[r].at..clock /\ Day(call[q].at) = Day(clock)

(* This date had posting hours before r was refused.                       *)
DateHadBegun(r) == \E t \in 0..call[r].at : ~Quiet(t) /\ Day(t) = Day(clock)

(* Who is deferred is told a time that lies ahead and is not quiet. The    *)
(* page's posts are not used up by then unless others were allowed since,  *)
(* or the date it falls on had begun when the request was refused, as it   *)
(* may where the UTC date and the local day disagree; and then it is       *)
(* refused but once more: at six o'clock the day after, which the second   *)
(* refusal names, only others' posts can be in its way.                    *)
RetryIsAcceptable ==
  \A r \in Requests : call[r].action = "DEFER" =>
    LET retry == call[r].retry IN
    /\ retry > call[r].at /\ ~Quiet(retry)
    /\ clock \in {retry, RetryTomorrow(retry)} /\ LimitReached(call[r].page, clock) =>
         OthersSince(r) \/ (clock = retry /\ DateHadBegun(r))

(* What a refusal for the limit says: "Resets tomorrow at 6:00 AM"         *)
(* (facebook-policy.ts:73). The server's clock and the UTC date, by which  *)
(* posts are counted, may disagree.                                        *)
ResetsTomorrow ==
  \A r \in Requests :
    /\ call[r].action = "DEFER" /\ ~Quiet(call[r].at)
    /\ clock = call[r].retry /\ LimitReached(call[r].page, clock)
    => OthersSince(r)
=============================================================================
