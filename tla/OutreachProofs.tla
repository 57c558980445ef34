---------------------------- MODULE OutreachProofs ----------------------------
(***************************************************************************)
(* The safety of the components of MCOutreach for every set of requests,   *)
(* cycles, hypotheses, signals and packs, however many hypotheses a        *)
(* research cycle leaves and however many reports are written: who leaves  *)
(* results of a cycle, whose notes are lost, what a deferred publish       *)
(* leaves behind, what the assistant remembers and forgets, and what a     *)
(* vote on a shadow's response reaches.                                    *)
(***************************************************************************)
EXTENDS MCOutreach, Sequences, TLAPS

-----------------------------------------------------------------------------
(* Cycles and notes.                                                       *)

Notable   == Hypotheses \cup Signals \cup Requests
WorkOps   == {"runCycle", "processQueuedCycles"}
PastRead  == Modes \cup {"inbox", "finish"}
WorkSteps == PastRead \cup {"work"}
CallSteps == WorkSteps \cup Over \cup {"none", "begin", "write"}

CallTypes ==
  [op : NoteOps \cup WorkOps \cup {"ingest"}, step : CallSteps, on : Runs \cup Notable \cup {Nothing},
   todo : SUBSET Runs, made : 0..Batch, idea : Hypotheses \cup {Nothing}, read : SUBSET Requests]

Statuses == {"none", "new"} \cup Decided

CyclesTypeOK ==
  /\ cycle \in [Runs -> Modes \cup {"none", "ok", "failed"}]
  /\ hypothesis \in [Hypotheses -> [status : Statuses, by : Requests \cup {Nothing}]]
  /\ inbox \subseteq [by : Requests, run : Runs, idea : Hypotheses \cup {Nothing}]
  /\ signals \subseteq Signals \cup Requests
  /\ notes \in [Notable -> SUBSET Requests]
  /\ call \in [Requests -> CallTypes]
  /\ ended \in [Requests -> SUBSET Requests]
  /\ cut \subseteq Requests \X Runs

(* A request works on a cycle in the steps of working, and only then; what *)
(* it notes is a hypothesis it knows or a signal.                          *)
CallPlaced(r) ==
  /\ call[r].step \in WorkSteps => call[r].op \in WorkOps /\ call[r].on \in Runs
  /\ call[r].step \notin WorkSteps /\ call[r].op \notin NoteOps => call[r].on = Nothing
  /\ call[r].step = "none" => call[r].on = Nothing
  /\ call[r].step = "write" => call[r].op \in NoteOps
  /\ call[r].step # "none" /\ call[r].op = "reviewPromotion" =>
       call[r].on \in Hypotheses /\ hypothesis[call[r].on].status # "none"
  /\ call[r].step # "none" /\ call[r].op = "addNote" => call[r].on \in Signals \cup Requests

CallsPlaced == \A r \in Requests : CallPlaced(r)

LEMMA CycleIds ==
  /\ Batch \in Nat \ {0} /\ Nothing \notin Runs /\ Nothing \notin Signals \cup Requests
  /\ Hypotheses \cap (Signals \cup Requests) = {}
  /\ \A r \in Requests, c \in Runs, n \in 1..Batch : <<r, c, n>> \in Hypotheses \ Ideas
  BY CyclesAssumption DEF Hypotheses, Runs

LEMMA NoCallTyped ==
  /\ NoCall \in CallTypes /\ NoCall.op = "runCycle" /\ NoCall.on = Nothing /\ NoCall.todo = {}
  /\ NoCall.step = "none"
  BY CycleIds DEF CallTypes, NoCall, WorkOps, CallSteps

LEMMA CycGoto ==
  ASSUME call \in [Requests -> CallTypes], NEW r \in Requests, NEW s \in CallSteps, Goto(r, s)
  PROVE  /\ call' \in [Requests -> CallTypes]
         /\ \A q \in Requests : q # r => call'[q] = call[q]
         /\ call'[r].step = s
         /\ s \notin Over => call'[r] = [call[r] EXCEPT !.step = s]
         /\ s \in Over /\ call[r].op \in NoteOps =>
              call'[r].op = call[r].op /\ call'[r].on = call[r].on /\ call'[r].todo = {}
         /\ s \in Over /\ call[r].op \notin NoteOps =>
              call'[r].op = "runCycle" /\ call'[r].on = Nothing /\ call'[r].todo = {}
<1> DEFINE on    == [call[r] EXCEPT !.step = s]
           noted == [NoCall EXCEPT !.op = call[r].op, !.on = call[r].on, !.step = s]
           over  == [NoCall EXCEPT !.step = s]
<1>1. /\ on \in CallTypes /\ noted \in CallTypes /\ over \in CallTypes
      /\ on.step = s /\ noted.step = s /\ over.step = s
      /\ noted.op = call[r].op /\ noted.on = call[r].on /\ noted.todo = {}
      /\ over.op = "runCycle" /\ over.on = Nothing /\ over.todo = {}
  <2>1. on \in CallTypes /\ on.step = s
    BY DEF CallTypes
  <2>2. /\ noted \in CallTypes /\ noted.step = s
        /\ noted.op = call[r].op /\ noted.on = call[r].on /\ noted.todo = {}
    BY NoCallTyped DEF CallTypes
  <2>3. /\ over \in CallTypes /\ over.step = s
        /\ over.op = "runCycle" /\ over.on = Nothing /\ over.todo = {}
    BY NoCallTyped DEF CallTypes
  <2>4. QED
    BY <2>1, <2>2, <2>3
<1>2. call' = [call EXCEPT ![r] = IF s \notin Over THEN on
                                  ELSE IF call[r].op \in NoteOps THEN noted ELSE over]
  BY DEF Goto
<1> HIDE DEF noted, over
<1>3. QED
  BY <1>1, <1>2

(* A cycle is left for the next one, or the request is over.               *)
Leaves(r) ==
  /\ call' \in [Requests -> CallTypes]
  /\ \A q \in Requests : q # r => call'[q] = call[q]
  /\ \/ /\ call'[r].step \in Over /\ call'[r].on = Nothing /\ call'[r].op = "runCycle"
        /\ call'[r].todo = {}
     \/ /\ call'[r].step = "work" /\ call'[r].op = call[r].op /\ call[r].op \in WorkOps
        /\ call'[r].on \in call[r].todo /\ call'[r].todo \subseteq call[r].todo

LEMMA CycWorkOn ==
  ASSUME call \in [Requests -> CallTypes], NEW r \in Requests, call[r].op \in WorkOps,
         NEW todo \in SUBSET Runs, WorkOn(r, todo)
  PROVE  /\ call' \in [Requests -> CallTypes]
         /\ \A q \in Requests : q # r => call'[q] = call[q]
         /\ \/ /\ call'[r].step = "returned" /\ call'[r].on = Nothing /\ call'[r].op = "runCycle"
               /\ call'[r].todo = {}
            \/ /\ call'[r].step = "work" /\ call'[r].op = call[r].op
               /\ call'[r].on \in todo /\ call'[r].todo \subseteq todo
<1>1. CASE todo = {} /\ Goto(r, "returned")
  BY <1>1, CycGoto DEF CallSteps, Over, WorkOps, NoteOps
<1>2. ASSUME NEW c \in todo, call' = [call EXCEPT ![r] = [NoCall EXCEPT
               !.op = call[r].op, !.step = "work", !.on = c, !.todo = todo \ {c}]]
      PROVE  /\ call' \in [Requests -> CallTypes]
             /\ \A q \in Requests : q # r => call'[q] = call[q]
             /\ call'[r].step = "work" /\ call'[r].op = call[r].op
             /\ call'[r].on \in todo /\ call'[r].todo \subseteq todo
  <2> DEFINE x == [NoCall EXCEPT !.op = call[r].op, !.step = "work", !.on = c, !.todo = todo \ {c}]
  <2>1. x \in CallTypes /\ x.op = call[r].op /\ x.step = "work" /\ x.on = c /\ x.todo = todo \ {c}
    BY NoCallTyped DEF CallTypes, CallSteps, WorkSteps
  <2> HIDE DEF x
  <2>2. call' = [call EXCEPT ![r] = x]
    BY <1>2 DEF x
  <2>3. QED
    BY <2>1, <2>2
<1>3. QED
  BY <1>1, <1>2 DEF WorkOn

LEMMA CycLeaves ==
  ASSUME CyclesTypeOK, NEW r \in Requests, call[r].op \in WorkOps,
         \/ Advance(r)
         \/ call[r].op = "processQueuedCycles" /\ WorkOn(r, call[r].todo)
         \/ Goto(r, "returned") \/ Goto(r, "threw")
  PROVE  Leaves(r)
<1> USE DEF CyclesTypeOK, Leaves
<1>1. call[r].todo \in SUBSET Runs
  BY DEF CallTypes
<1>2. CASE Goto(r, "returned") \/ Goto(r, "threw")
  BY <1>2, CycGoto DEF CallSteps, Over, WorkOps, NoteOps
<1>3. CASE WorkOn(r, call[r].todo)
  BY <1>1, <1>3, CycWorkOn DEF Over
<1>4. QED
  BY <1>2, <1>3 DEF Advance

-----------------------------------------------------------------------------
On(r, c)   == Working(r) /\ call[r].on = c
Past(r, c) == On(r, c) /\ call[r].step \in PastRead

(* What a step of request r does, as far as who works on what is concerned.*)
CallFacts(r) ==
  /\ \A q \in Requests : q # r => call'[q] = call[q] /\ ended'[q] = ended[q]
  /\ call[r].step \notin Over /\ call'[r].step # "none"
  /\ IF call[r].step = "none"
       THEN call'[r].step = "begin" /\ ended'[r] = {q \in Requests : call[q].step \in Over}
       ELSE ended'[r] = ended[r]

CycleFacts(r) ==
  /\ \A c \in Runs : cycle[c] # "none" =>
       cycle'[c] # "none" /\ (cycle[c] \notin Modes => cycle'[c] \notin Modes)
  /\ \A q \in Requests : q # r /\ call[q].step \in {"none", "begin"} => cycle'[q] = cycle[q]
  /\ call'[r].step = "begin" => call[r].step = "none" /\ cycle'[r] = cycle[r]
  /\ \A c \in Runs : On(r, c)' \/ c \in call'[r].todo => cycle'[c] # "none"

WorkFacts(r) ==
  /\ cut \subseteq cut'
  /\ \A c \in Runs : /\ Workers(c) \subseteq Workers(c)'
                     /\ \A q \in Workers(c)' : q \in Workers(c) \/ (q = r /\ Past(r, c))
                     /\ On(r, c) /\ r \in Workers(c)' =>
                          On(r, c)' \/ <<r, c>> \in cut' \/ cycle'[c] \notin Modes
                     /\ Past(r, c)' => Past(r, c) \/ (On(r, c) /\ cycle[c] \in Modes)

(* What follows from the steps made so far.                                *)
EndedAreOver ==
  \A r \in Requests : /\ \A q \in ended[r] : call[q].step \in Over
                      /\ call[r].step = "none" => ended[r] = {}

CyclesKnown ==
  /\ \A r \in Requests : call[r].step \in {"none", "begin"} => cycle[r] = "none"
  /\ \A r \in Requests, c \in Runs :
       On(r, c) \/ c \in call[r].todo \/ r \in Workers(c) => cycle[c] # "none"

(* A worker is still at the cycle, was cut short, or the cycle is over; who*)
(* is past reading the cycle meets all its workers that were not cut short.*)
WorkersKnown ==
  \A c \in Runs : \A r \in Workers(c) :
    /\ call[r].step # "none"
    /\ On(r, c) \/ <<r, c>> \in cut \/ cycle[c] \notin Modes

WorkersMeet ==
  \A c \in Runs, r \in Requests : Past(r, c) =>
    \A q \in Workers(c) : q = r \/ Overlap(q, r) \/ <<q, c>> \in cut

WorkInv ==
  EndedAreOver /\ CyclesKnown /\ WorkersKnown /\ WorkersMeet /\ WorkedOnceUnlessOverlapping

LEMMA OnIsWork ==
  ASSUME CyclesTypeOK, CallsPlaced, NEW r \in Requests, NEW c \in Runs
  PROVE  On(r, c) <=> call[r].step \in WorkSteps /\ call[r].on = c
  BY CycleIds DEF On, Working, CallsPlaced, CallPlaced, WorkOps, NoteOps

LEMMA OnIsWorkNext ==
  ASSUME CallsPlaced', NEW r \in Requests, NEW c \in Runs
  PROVE  On(r, c)' <=> call'[r].step \in WorkSteps /\ call'[r].on = c
  BY CycleIds DEF On, Working, CallsPlaced, CallPlaced, WorkOps, NoteOps

LEMMA WorkersAreRequests == \A c : Workers(c) \subseteq Requests
  BY DEF Workers

(* Requests that are both under way overlap, and what overlaps stays so.   *)
LEMMA UnderWayOverlap ==
  ASSUME EndedAreOver, NEW q \in Requests, NEW r \in Requests, q # r,
         call[q].step \notin Over \cup {"none"}, call[r].step \notin Over \cup {"none"}
  PROVE  Overlap(q, r) /\ Overlap(r, q)
  BY DEF EndedAreOver, Overlap

LEMMA OverlapStays ==
  ASSUME NEW x \in Requests, CallFacts(x), NEW q \in Requests, NEW r \in Requests, Overlap(q, r),
         call[r].step # "none"
  PROVE  Overlap(q, r)'
  BY DEF CallFacts, Overlap

LEMMA WorkKeeps ==
  ASSUME CyclesTypeOK, CallsPlaced, CyclesTypeOK', CallsPlaced', WorkInv, NEW r \in Requests,
         CallFacts(r), CycleFacts(r), WorkFacts(r)
  PROVE  WorkInv'
<1> USE DEF WorkInv
<1>1. EndedAreOver'
  BY DEF EndedAreOver, CallFacts, CyclesTypeOK
<1>2. CyclesKnown'
  <2>1. \A q \in Requests : call'[q].step \in {"none", "begin"} => cycle'[q] = "none"
    BY DEF CyclesKnown, CallFacts, CycleFacts, Over
  <2>2. ASSUME NEW q \in Requests, NEW c \in Runs,
               On(q, c)' \/ c \in call'[q].todo \/ q \in Workers(c)'
        PROVE  cycle'[c] # "none"
    <3>1. CASE q \in Workers(c)'
      BY <3>1 DEF WorkFacts, CyclesKnown, CycleFacts, Past
    <3>2. CASE q # r /\ (On(q, c)' \/ c \in call'[q].todo)
      BY <3>2 DEF CallFacts, CyclesKnown, CycleFacts, On, Working
    <3>3. CASE q = r /\ (On(q, c)' \/ c \in call'[q].todo)
      BY <3>3 DEF CycleFacts
    <3>4. QED
      BY <2>2, <3>1, <3>2, <3>3
  <2>3. QED
    BY <2>1, <2>2 DEF CyclesKnown
<1>3. WorkersKnown'
  <2>1. ASSUME NEW c \in Runs, NEW q \in Workers(c)'
        PROVE  call'[q].step # "none" /\ (On(q, c)' \/ <<q, c>> \in cut' \/ cycle'[c] \notin Modes)
    <3>1. q \in Requests /\ (q \in Workers(c) \/ (q = r /\ Past(r, c)))
      BY <2>1, WorkersAreRequests DEF WorkFacts, Workers
    <3>2. CASE q # r
      <4>1. On(q, c) => On(q, c)'
        BY <3>1, <3>2 DEF On, Working, CallFacts
      <4>2. QED
        BY <3>1, <3>2, <4>1 DEF WorkersKnown, WorkFacts, CallFacts, CyclesKnown, CycleFacts
    <3>3. CASE q = r
      <4>1. On(r, c) \/ <<r, c>> \in cut \/ (cycle[c] \notin Modes /\ cycle[c] # "none")
        BY <3>1, <3>3 DEF WorkersKnown, CyclesKnown, Past
      <4>2. QED
        BY <2>1, <3>3, <4>1 DEF WorkFacts, CallFacts, CycleFacts
    <3>4. QED
      BY <3>2, <3>3
  <2>2. QED
    BY <2>1 DEF WorkersKnown
<1>4. WorkersMeet'
  <2>1. ASSUME NEW c \in Runs, NEW x \in Requests, Past(x, c)', NEW q \in Workers(c)', q # x
        PROVE  Overlap(q, x)' \/ <<q, c>> \in cut'
    <3>1. q \in Requests /\ (q \in Workers(c) \/ (q = r /\ Past(r, c)))
      BY WorkersAreRequests DEF WorkFacts, Workers
    <3>2. ASSUME NEW z \in Requests, On(z, c)
          PROVE  call[z].step \notin Over \cup {"none"}
      BY <3>2, OnIsWork DEF WorkSteps, PastRead, Modes, Over
    <3>3. On(x, c) /\ call[x].step # "none"
      <4>1. x # r => On(x, c)
        BY <2>1 DEF Past, On, Working, CallFacts
      <4>2. x = r => On(x, c)
        BY <2>1 DEF Past, WorkFacts
      <4>3. QED
        BY <3>2, <4>1, <4>2
    <3>4. Overlap(q, x) \/ <<q, c>> \in cut
      <4>1. CASE Past(x, c) /\ q \in Workers(c)
        BY <2>1, <4>1 DEF WorkersMeet
      <4>2. CASE On(q, c)
        BY <2>1, <3>1, <3>2, <3>3, <4>2, UnderWayOverlap
      <4>3. CASE q \in Workers(c) /\ ~On(q, c) /\ ~Past(x, c)
        <5>1. x = r /\ cycle[c] \in Modes
          BY <2>1, <4>3 DEF Past, On, Working, CallFacts, WorkFacts
        <5>2. QED
          BY <4>3, <5>1 DEF WorkersKnown
      <4>4. QED
        BY <3>1, <4>1, <4>2, <4>3 DEF Past
    <3>5. QED
      BY <3>1, <3>3, <3>4, OverlapStays DEF WorkFacts
  <2>2. QED
    BY <2>1 DEF WorkersMeet
<1>5. WorkedOnceUnlessOverlapping'
  <2>1. ASSUME NEW c \in Runs, NEW q \in Workers(c)', NEW x \in Workers(c)', q # x
        PROVE  Overlap(q, x)' \/ {<<q, c>>, <<x, c>>} \cap cut' # {}
    <3>1. /\ q \in Requests /\ (q \in Workers(c) \/ (q = r /\ Past(r, c)))
          /\ x \in Requests /\ (x \in Workers(c) \/ (x = r /\ Past(r, c)))
      BY WorkersAreRequests DEF WorkFacts, Workers
    <3>2. \A z \in Requests : z \in Workers(c) \/ Past(z, c) => call[z].step # "none"
      BY DEF WorkersKnown, Past, PastRead, Modes
    <3>3. Overlap(q, x) \/ {<<q, c>>, <<x, c>>} \cap cut # {}
      <4>1. CASE q \in Workers(c) /\ x \in Workers(c)
        BY <2>1, <4>1 DEF WorkedOnceUnlessOverlapping
      <4>2. CASE q \in Workers(c) /\ Past(x, c)
        BY <2>1, <3>1, <4>2 DEF WorkersMeet
      <4>3. CASE x \in Workers(c) /\ Past(q, c)
        <5>1. Overlap(x, q) \/ <<x, c>> \in cut
          BY <2>1, <3>1, <4>3 DEF WorkersMeet
        <5>2. QED
          BY <3>1, <3>2, <4>3, <5>1 DEF Overlap
      <4>4. QED
        BY <2>1, <3>1, <4>1, <4>2, <4>3
    <3>4. QED
      BY <3>1, <3>2, <3>3, OverlapStays DEF WorkFacts
  <2>2. QED
    BY <2>1 DEF WorkedOnceUnlessOverlapping
<1>6. QED
  BY <1>1, <1>2, <1>3, <1>4, <1>5
-----------------------------------------------------------------------------
(* What a step of request r does, as far as notes are concerned: it writes *)
(* what it has read and its own when it returns, and only then.            *)
NoteFacts(r) ==
  /\ call[r].step # "none" /\ call[r].op \in NoteOps =>
       call'[r].op = call[r].op /\ call'[r].on = call[r].on
  /\ call'[r].op \in NoteOps /\ call[r].step # "none" => call[r].op \in NoteOps
  /\ call'[r].step = "write" => /\ call'[r].op \in NoteOps /\ notes' = notes
                                /\ call'[r].read = notes[call[r].on]
  /\ IF call'[r].step = "returned" /\ call'[r].op \in NoteOps
       THEN /\ call[r].step = "write"
            /\ notes' = [notes EXCEPT ![call[r].on] = call[r].read \cup {r}]
       ELSE notes' = notes

StepOK(r) ==
  CyclesTypeOK' /\ CallsPlaced' /\ CallFacts(r) /\ CycleFacts(r) /\ WorkFacts(r) /\ NoteFacts(r)

LEMMA WorkersSame ==
  ASSUME inbox' = inbox,
         \A h \in Hypotheses : hypothesis[h].status = "none" <=> hypothesis'[h].status = "none"
  PROVE  \A c \in Runs : Workers(c)' = Workers(c)
  BY CycleIds DEF Workers

LEMMA NotNoting ==
  ASSUME NEW r \in Requests, call[r].op \notin NoteOps, call'[r].op \notin NoteOps,
         call[r].step \notin Over \cup {"none"}, call'[r].step \notin {"none", "write"},
         \A q \in Requests : q # r => call'[q] = call[q], UNCHANGED <<ended, notes>>
  PROVE  CallFacts(r) /\ NoteFacts(r)
  BY DEF CallFacts, NoteFacts

LEMMA PlacesKept ==
  ASSUME CallsPlaced, NEW r \in Requests, CallPlaced(r)',
         \A q \in Requests : q # r => call'[q] = call[q],
         \A h \in Hypotheses : hypothesis[h].status # "none" => hypothesis'[h].status # "none"
  PROVE  CallsPlaced'
  BY DEF CallsPlaced, CallPlaced

(* Of steps that leave the cycle's results alone.                          *)
LEMMA NoNewResults ==
  ASSUME CyclesTypeOK, CallsPlaced, CyclesTypeOK', CallsPlaced', NEW r \in Requests,
         \A c \in Runs : Workers(c)' = Workers(c), cut \subseteq cut',
         \A c \in Runs : On(r, c) /\ r \in Workers(c) =>
           On(r, c)' \/ <<r, c>> \in cut' \/ cycle'[c] \notin Modes,
         call'[r].step \in PastRead =>
           /\ call[r].step \in WorkSteps /\ call'[r].on = call[r].on
           /\ call[r].step \in PastRead \/ cycle[call[r].on] \in Modes
  PROVE  WorkFacts(r)
<1>1. ASSUME NEW c \in Runs, Past(r, c)'
      PROVE  Past(r, c) \/ (On(r, c) /\ cycle[c] \in Modes)
  BY <1>1, OnIsWork DEF Past, On
<1>2. QED
  BY <1>1 DEF WorkFacts

(* Cycles that a request knows are queued, or were.                        *)
LEMMA SameCycles ==
  ASSUME CyclesKnown, NEW r \in Requests, cycle' = cycle,
         call'[r].step = "begin" => call[r].step = "none",
         \A c \in Runs : On(r, c)' \/ c \in call'[r].todo =>
           cycle[c] # "none" \/ On(r, c) \/ c \in call[r].todo
  PROVE  CycleFacts(r)
  BY DEF CyclesKnown, CycleFacts
-----------------------------------------------------------------------------
LEMMA BeginFacts ==
  ASSUME CyclesTypeOK, CallsPlaced, CyclesKnown, NEW r \in Requests, Begin(r)
  PROVE  StepOK(r)
<1>0. PICK op \in NoteOps \cup WorkOps \cup {"ingest"} :
        \E on \in Targets(op) :
          call' = [call EXCEPT ![r].op = op, ![r].on = on, ![r].step = "begin"]
  BY DEF Begin, WorkOps
<1>1. PICK on \in Targets(op) :
        call' = [call EXCEPT ![r].op = op, ![r].on = on, ![r].step = "begin"]
  BY <1>0
<1> DEFINE x == [call[r] EXCEPT !.op = op, !.on = on, !.step = "begin"]
<1>2. on \in Notable \cup {Nothing}
  BY DEF Targets, Known, Notable, CyclesTypeOK
<1>3. call[r] \in CallTypes /\ call[r].step = "none"
  BY DEF CyclesTypeOK, Begin
<1>4. /\ x \in CallTypes /\ x.op = op /\ x.on = on /\ x.step = "begin" /\ x.todo = call[r].todo
  BY <1>2, <1>3 DEF CallTypes, CallSteps
<1>5. call' = [call EXCEPT ![r] = x] /\ call \in [Requests -> CallTypes]
  BY <1>1 DEF CyclesTypeOK
<1> HIDE DEF x
<1>6. /\ call' \in [Requests -> CallTypes] /\ \A q \in Requests : q # r => call'[q] = call[q]
      /\ call'[r] = x
  BY <1>4, <1>5
<1>7. /\ UNCHANGED <<cycle, hypothesis, inbox, signals, notes, cut>>
      /\ ended' = [ended EXCEPT ![r] = {q \in Requests : call[q].step \in Over}]
  BY DEF Begin
<1>8. CyclesTypeOK'
  BY <1>6, <1>7 DEF CyclesTypeOK
<1>9. CallsPlaced'
  <2>1. CallPlaced(r)'
    BY <1>4, <1>6, <1>7 DEF CallPlaced, Targets, Known, CyclesTypeOK, WorkOps, NoteOps, WorkSteps,
       PastRead, Modes
  <2>2. QED
    BY <1>6, <1>7, <2>1, PlacesKept
<1>10. CallFacts(r)
  BY <1>3, <1>4, <1>6, <1>7 DEF CallFacts, CyclesTypeOK, Over
<1>11. ~ \E c \in Runs : On(r, c)' \/ On(r, c)
  BY <1>3, <1>4, <1>6, <1>9, OnIsWork, OnIsWorkNext DEF WorkSteps, PastRead, Modes
<1>12. CycleFacts(r)
  BY <1>3, <1>4, <1>6, <1>7, <1>11, SameCycles
<1>13. WorkFacts(r)
  BY <1>4, <1>6, <1>7, <1>8, <1>9, <1>11, WorkersSame, NoNewResults DEF PastRead, Modes
<1>14. NoteFacts(r)
  BY <1>3, <1>4, <1>6, <1>7 DEF NoteFacts
<1>15. QED
  BY <1>8, <1>9, <1>10, <1>12, <1>13, <1>14 DEF StepOK

(* Steps at which a request leaves its cycle: it has written how the cycle *)
(* ended, found that it had, or was cut short.                             *)
LEMMA LeavingFacts ==
  ASSUME CyclesTypeOK, CallsPlaced, CyclesKnown, NEW r \in Requests,
         call[r].step \in WorkSteps, Leaves(r), UNCHANGED <<hypothesis, inbox, signals, notes, ended>>,
         \/ UNCHANGED cut /\ Write(r, "ok")
         \/ UNCHANGED cut /\ Write(r, "failed")
         \/ UNCHANGED <<cut, cycle>> /\ cycle[call[r].on] \notin Modes
         \/ UNCHANGED cycle /\ CutShort(r)
  PROVE  StepOK(r)
<1> DEFINE on == call[r].on
<1>1. /\ on \in Runs /\ call[r].op \in WorkOps /\ call[r].op \notin NoteOps
      /\ Working(r) /\ cycle[on] # "none" /\ call[r].todo \subseteq Runs
  BY DEF CallsPlaced, CallPlaced, Working, WorkOps, NoteOps, CyclesKnown, On, CyclesTypeOK, CallTypes
<1>2. /\ call' \in [Requests -> CallTypes] /\ \A q \in Requests : q # r => call'[q] = call[q]
      /\ call'[r].step \in Over \cup {"work"} /\ call'[r].op \in WorkOps
      /\ call'[r].step \in Over => call'[r].on = Nothing /\ call'[r].op = "runCycle"
      /\ call'[r].step = "work" => call'[r].on \in call[r].todo
      /\ call'[r].todo \subseteq call[r].todo
  BY DEF Leaves, Over, WorkOps
<1>3. cut \subseteq cut' /\ cut' \subseteq Requests \X Runs
  BY <1>1 DEF CutShort, CyclesTypeOK
<1>4. /\ cycle' \in [Runs -> Modes \cup {"none", "ok", "failed"}]
      /\ \A c \in Runs : c # on => cycle'[c] = cycle[c]
      /\ cycle'[on] \in {"ok", "failed", cycle[on]}
  BY <1>1 DEF Write, CyclesTypeOK
<1>5. r \in Workers(on) => <<r, on>> \in cut' \/ cycle'[on] \notin Modes
  BY <1>1 DEF CutShort, Write, CyclesTypeOK, Modes
<1>6. CyclesTypeOK'
  BY <1>2, <1>3, <1>4 DEF CyclesTypeOK
<1>7. CallsPlaced'
  <2>1. CallPlaced(r)'
    BY <1>1, <1>2 DEF CallPlaced, WorkOps, NoteOps, WorkSteps, PastRead, Modes, Over
  <2>2. QED
    BY <1>2, <2>1, PlacesKept
<1>8. CallFacts(r) /\ NoteFacts(r)
  BY <1>1, <1>2, NotNoting DEF WorkOps, NoteOps, WorkSteps, PastRead, Modes, Over
<1>9. CycleFacts(r)
  <2>1. \A c \in Runs : On(r, c)' \/ c \in call'[r].todo => cycle[c] # "none"
    BY <1>1, <1>2, <1>7, OnIsWorkNext DEF CyclesKnown, WorkSteps, PastRead, Modes, Over
  <2>2. \A q \in Requests : q # r /\ call[q].step \in {"none", "begin"} => q # on
    BY <1>1 DEF CyclesKnown
  <2>3. QED
    BY <1>1, <1>2, <1>4, <2>1, <2>2 DEF CycleFacts, Modes, Over, Runs
<1>10. WorkFacts(r)
  <2>1. \A c \in Runs : On(r, c) => c = on
    BY DEF On
  <2>2. call'[r].step \notin PastRead
    BY <1>2 DEF PastRead, Modes, Over
  <2>3. QED
    BY <1>3, <1>5, <1>6, <1>7, <2>1, <2>2, WorkersSame, NoNewResults
<1>11. QED
  BY <1>6, <1>7, <1>8, <1>9, <1>10 DEF StepOK

LEMMA WritingSteps ==
  ASSUME CyclesTypeOK, CallsPlaced, CyclesKnown, NEW r \in Requests,
         \/ Block(r) \/ FinishResearch(r) \/ FinishExecute(r) \/ FailsOne(r)
         \/ Throws(r) /\ call[r].op \notin NoteOps
  PROVE  StepOK(r)
<1>1. call[r].step \in WorkSteps /\ call[r].op \in WorkOps
  BY DEF Block, FinishResearch, FinishExecute, FailsOne, Throws, CallsPlaced, CallPlaced, CyclesTypeOK,
     CallTypes, CallSteps, WorkSteps, PastRead, Modes, Over, NoteOps, WorkOps
<1>2. QED
  BY <1>1, CycLeaves, LeavingFacts DEF Block, FinishResearch, FinishExecute, FailsOne, Throws

(* A cycle is queued, and its request works on it or returns.              *)
LEMMA QueueingFacts ==
  ASSUME CyclesTypeOK, CallsPlaced, CyclesKnown, NEW r \in Requests, RunCycle(r) \/ QueueOpsRun(r)
  PROVE  StepOK(r)
<1>1. PICK mode \in Modes : cycle' = [cycle EXCEPT ![r] = mode]
  BY DEF RunCycle, QueueOpsRun, Modes
<1>2. /\ call[r] \in CallTypes /\ call[r].op = "runCycle" /\ call[r].step = "begin"
      /\ call \in [Requests -> CallTypes] /\ UNCHANGED <<hypothesis, inbox, signals, notes, ended, cut>>
      /\ r \in Runs
  BY DEF RunCycle, QueueOpsRun, At, CyclesTypeOK, Runs
<1>3. /\ call' \in [Requests -> CallTypes] /\ \A q \in Requests : q # r => call'[q] = call[q]
      /\ call'[r].op = "runCycle" /\ call'[r].todo \subseteq call[r].todo
      /\ \/ call'[r].step = "work" /\ call'[r].on = r
         \/ call'[r].step = "returned" /\ call'[r].on = Nothing
  <2>1. CASE Goto(r, "returned")
    BY <1>2, <2>1, CycGoto DEF CallSteps, Over, NoteOps
  <2>2. CASE call' = [call EXCEPT ![r].step = "work", ![r].on = r]
    <3> DEFINE x == [call[r] EXCEPT !.step = "work", !.on = r]
    <3>1. /\ x \in CallTypes /\ x.step = "work" /\ x.on = r /\ x.op = "runCycle"
          /\ x.todo = call[r].todo
      BY <1>2 DEF CallTypes, CallSteps, WorkSteps
    <3>2. call' = [call EXCEPT ![r] = x]
      BY <2>2
    <3> HIDE DEF x
    <3>3. QED
      BY <1>2, <3>1, <3>2
  <2>3. QED
    BY <2>1, <2>2 DEF RunCycle, QueueOpsRun
<1>4. /\ cycle' \in [Runs -> Modes \cup {"none", "ok", "failed"}] /\ cycle'[r] = mode
      /\ \A c \in Runs : c # r => cycle'[c] = cycle[c]
  BY <1>1, <1>2 DEF CyclesTypeOK
<1>5. CyclesTypeOK'
  BY <1>2, <1>3, <1>4 DEF CyclesTypeOK
<1>6. CallsPlaced'
  <2>1. CallPlaced(r)'
    BY <1>2, <1>3 DEF CallPlaced, WorkOps, NoteOps, WorkSteps, PastRead, Modes
  <2>2. QED
    BY <1>2, <1>3, <2>1, PlacesKept
<1>7. CallFacts(r) /\ NoteFacts(r)
  BY <1>2, <1>3, NotNoting DEF NoteOps, Over
<1>8. ~ \E c \in Runs : On(r, c)
  BY <1>2, OnIsWork DEF WorkSteps, PastRead, Modes
<1>9. CycleFacts(r)
  <2>1. \A c \in Runs : On(r, c)' => c = r
    BY <1>3, CycleIds DEF On
  <2>2. cycle[r] = "none" /\ mode \in Modes /\ mode # "none" /\ Requests \subseteq Runs
    BY <1>2 DEF CyclesKnown, Modes, Runs
  <2>3. \A c \in call'[r].todo : c \in Runs /\ cycle[c] # "none"
    BY <1>2, <1>3 DEF CyclesKnown, CallTypes
  <2>4. QED
    BY <1>3, <1>4, <2>1, <2>2, <2>3 DEF CycleFacts
<1>10. WorkFacts(r)
  BY <1>2, <1>3, <1>5, <1>6, <1>8, WorkersSame, NoNewResults DEF PastRead, Modes
<1>11. QED
  BY <1>5, <1>6, <1>7, <1>9, <1>10 DEF StepOK

(* The queued cycles are listed, and the first of them is worked on.       *)
LEMMA ListingFacts ==
  ASSUME CyclesTypeOK, CallsPlaced, CyclesKnown, NEW r \in Requests, ListQueued(r)
  PROVE  StepOK(r)
<1>1. PICK todo \in SUBSET {c \in Runs : cycle[c] \in Modes} : WorkOn(r, todo)
  BY DEF ListQueued
<1>2. /\ call[r].op = "processQueuedCycles" /\ call[r].step = "begin"
      /\ call \in [Requests -> CallTypes]
      /\ UNCHANGED <<cycle, hypothesis, inbox, signals, notes, ended, cut>>
  BY DEF ListQueued, At, CyclesTypeOK
<1>3. /\ call' \in [Requests -> CallTypes] /\ \A q \in Requests : q # r => call'[q] = call[q]
      /\ call'[r].op \in WorkOps /\ call'[r].todo \subseteq todo
      /\ \/ call'[r].step = "work" /\ call'[r].on \in todo
         \/ call'[r].step = "returned" /\ call'[r].on = Nothing
  BY <1>1, <1>2, CycWorkOn DEF WorkOps
<1>4. CyclesTypeOK'
  BY <1>2, <1>3 DEF CyclesTypeOK
<1>5. CallsPlaced'
  <2>1. CallPlaced(r)'
    BY <1>2, <1>3 DEF CallPlaced, WorkOps, NoteOps, WorkSteps, PastRead, Modes
  <2>2. QED
    BY <1>2, <1>3, <2>1, PlacesKept
<1>6. CallFacts(r) /\ NoteFacts(r)
  BY <1>2, <1>3, NotNoting DEF NoteOps, Over, WorkOps
<1>7. ~ \E c \in Runs : On(r, c)
  BY <1>2, OnIsWork DEF WorkSteps, PastRead, Modes
<1>8. CycleFacts(r)
  <2>1. \A c \in todo : cycle[c] # "none"
    BY DEF Modes
  <2>2. \A c \in Runs : On(r, c)' \/ c \in call'[r].todo => cycle[c] # "none"
    BY <1>3, <1>5, <2>1, CycleIds DEF On
  <2>3. QED
    BY <1>2, <1>3, <2>2, SameCycles
<1>9. WorkFacts(r)
  BY <1>2, <1>3, <1>4, <1>5, <1>7, WorkersSame, NoNewResults DEF PastRead, Modes
<1>10. QED
  BY <1>4, <1>5, <1>6, <1>8, <1>9 DEF StepOK

(* Steps within the work on a cycle that leave no result.                  *)
LEMMA WithinFacts ==
  ASSUME CyclesTypeOK, CallsPlaced, CyclesKnown, NEW r \in Requests,
         call[r].step \in WorkSteps, call'[r].step \in PastRead,
         call' \in [Requests -> CallTypes], \A q \in Requests : q # r => call'[q] = call[q],
         call'[r].op = call[r].op, call'[r].on = call[r].on, call'[r].todo = call[r].todo,
         call[r].step \in PastRead \/ cycle[call[r].on] \in Modes,
         UNCHANGED <<cycle, hypothesis, inbox, signals, notes, ended, cut>>
  PROVE  StepOK(r)
<1>1. call[r].on \in Runs /\ call[r].op \in WorkOps /\ call[r].op \notin NoteOps
  BY DEF CallsPlaced, CallPlaced, WorkOps, NoteOps
<1>2. CyclesTypeOK'
  BY DEF CyclesTypeOK
<1>3. CallsPlaced'
  <2>1. CallPlaced(r)'
    BY <1>1 DEF CallPlaced, WorkSteps, PastRead, Modes, WorkOps, NoteOps
  <2>2. QED
    BY <2>1, PlacesKept
<1>4. CallFacts(r) /\ NoteFacts(r)
  BY <1>1, NotNoting DEF WorkSteps, PastRead, Modes, Over
<1>5. \A c \in Runs : On(r, c) <=> On(r, c)'
  BY <1>1 DEF On, Working, WorkOps
<1>6. CycleFacts(r)
  BY <1>5, SameCycles DEF PastRead, Modes
<1>7. WorkFacts(r)
  BY <1>2, <1>3, <1>5, WorkersSame, NoNewResults
<1>8. QED
  BY <1>2, <1>3, <1>4, <1>6, <1>7 DEF StepOK

LEMMA ReadingSteps ==
  ASSUME CyclesTypeOK, CallsPlaced, CyclesKnown, NEW r \in Requests,
         ReadCycle(r) \/ ReadCandidate(r)
  PROVE  StepOK(r)
<1>0. call \in [Requests -> CallTypes] /\ call[r] \in CallTypes
  BY DEF CyclesTypeOK
<1>1. CASE ReadCandidate(r)
  <2>1. PICK h \in Hypotheses \cup {Nothing} :
          call' = [call EXCEPT ![r].step = "inbox", ![r].idea = h]
    BY <1>1 DEF ReadCandidate, Candidates, Known
  <2> DEFINE x == [call[r] EXCEPT !.step = "inbox", !.idea = h]
  <2>2. /\ x \in CallTypes /\ x.step = "inbox" /\ x.op = call[r].op /\ x.on = call[r].on
        /\ x.todo = call[r].todo
    BY <1>0 DEF CallTypes, CallSteps, WorkSteps, PastRead
  <2>3. call' = [call EXCEPT ![r] = x]
    BY <2>1
  <2> HIDE DEF x
  <2>4. /\ call' \in [Requests -> CallTypes] /\ call'[r] = x
        /\ \A q \in Requests : q # r => call'[q] = call[q]
    BY <1>0, <2>2, <2>3
  <2>5. /\ call[r].step = "execute"
        /\ UNCHANGED <<cycle, hypothesis, inbox, signals, notes, ended, cut>>
    BY <1>1 DEF ReadCandidate
  <2>6. QED
    BY <2>2, <2>4, <2>5, WithinFacts DEF WorkSteps, PastRead, Modes
<1>2. CASE ReadCycle(r)
  <2>1. /\ call[r].step = "work" /\ call[r].op \in WorkOps
        /\ UNCHANGED <<cycle, hypothesis, inbox, signals, notes, ended, cut>>
    BY <1>2 DEF ReadCycle, Working, WorkOps
  <2>2. CASE cycle[call[r].on] \in Modes
    <3> DEFINE mode == cycle[call[r].on]
    <3>1. Goto(r, mode) /\ mode \in PastRead /\ mode \in CallSteps \ Over
      BY <1>2, <2>2 DEF ReadCycle, PastRead, CallSteps, WorkSteps, Over, Modes
    <3>2. /\ call' \in [Requests -> CallTypes] /\ \A q \in Requests : q # r => call'[q] = call[q]
          /\ call'[r] = [call[r] EXCEPT !.step = mode]
      BY <1>0, <3>1, CycGoto
    <3>3. /\ call'[r].step = mode /\ call'[r].op = call[r].op /\ call'[r].on = call[r].on
          /\ call'[r].todo = call[r].todo
      BY <1>0, <3>2 DEF CallTypes
    <3>4. QED
      BY <2>1, <2>2, <3>1, <3>2, <3>3, WithinFacts DEF WorkSteps
  <2>3. CASE cycle[call[r].on] \notin Modes
    <3>1. Advance(r)
      BY <1>2, <2>3 DEF ReadCycle
    <3>2. QED
      BY <2>1, <2>3, <3>1, CycLeaves, LeavingFacts DEF WorkSteps
  <2>4. QED
    BY <2>2, <2>3
<1>3. QED
  BY <1>1, <1>2

(* Steps that leave a result: the request is, from now on, a worker.       *)
LEMMA ResultFacts ==
  ASSUME CyclesTypeOK, CallsPlaced, CyclesKnown, NEW r \in Requests,
         call[r].step \in {"research", "inbox"}, call'[r].step \in PastRead,
         call' \in [Requests -> CallTypes], \A q \in Requests : q # r => call'[q] = call[q],
         call'[r].op = call[r].op, call'[r].on = call[r].on, call'[r].todo = call[r].todo,
         UNCHANGED <<cycle, signals, notes, ended, cut>>, CyclesTypeOK',
         \A h \in Hypotheses : hypothesis[h].status # "none" => hypothesis'[h].status # "none",
         \A h \in Hypotheses : hypothesis'[h].status # hypothesis[h].status =>
           \E n \in 1..Batch : h = <<r, call[r].on, n>>,
         inbox \subseteq inbox',
         \A item \in inbox' : item \in inbox \/ (item.by = r /\ item.run = call[r].on)
  PROVE  StepOK(r)
<1>1. call[r].on \in Runs /\ call[r].op \in WorkOps /\ call[r].op \notin NoteOps
  BY DEF CallsPlaced, CallPlaced, WorkOps, NoteOps, WorkSteps, PastRead, Modes
<1>2. CallsPlaced'
  <2>1. CallPlaced(r)'
    BY <1>1 DEF CallPlaced, WorkSteps, PastRead, Modes, WorkOps, NoteOps
  <2>2. QED
    BY <2>1, PlacesKept
<1>3. CallFacts(r) /\ NoteFacts(r)
  BY <1>1, NotNoting DEF PastRead, Modes, Over
<1>4. \A c \in Runs : On(r, c) <=> On(r, c)'
  BY <1>1 DEF On, Working, WorkOps
<1>5. CycleFacts(r)
  BY <1>4, SameCycles DEF PastRead, Modes
<1>6. ASSUME NEW c \in Runs
      PROVE  /\ Workers(c) \subseteq Workers(c)'
             /\ \A q \in Workers(c)' : q \in Workers(c) \/ (q = r /\ Past(r, c))
  <2>1. Workers(c) \subseteq Workers(c)'
    BY CycleIds DEF Workers
  <2>2. ASSUME NEW q \in Workers(c)', q \notin Workers(c)
        PROVE  q = r /\ call[r].on = c
    <3>1. CASE \E n \in 1..Batch : hypothesis'[<<q, c, n>>].status # "none"
      <4>1. PICK n \in 1..Batch : hypothesis'[<<q, c, n>>].status # "none"
        BY <3>1
      <4>2. q \in Requests /\ <<q, c, n>> \in Hypotheses /\ hypothesis[<<q, c, n>>].status = "none"
        BY <2>2, CycleIds DEF Workers
      <4>3. PICK k \in 1..Batch : <<q, c, n>> = <<r, call[r].on, k>>
        BY <4>1, <4>2
      <4>4. QED
        BY <4>3
    <3>2. CASE \E item \in inbox' : item.by = q /\ item.run = c
      BY <2>2, <3>2 DEF Workers
    <3>3. QED
      BY <2>2, <3>1, <3>2 DEF Workers
  <2>3. call[r].on = c => Past(r, c)
    BY <1>1 DEF Past, On, Working, WorkOps, PastRead, Modes
  <2>4. QED
    BY <2>1, <2>2, <2>3
<1>7. \A c \in Runs : Past(r, c)' => Past(r, c)
  BY <1>4 DEF Past, PastRead, Modes
<1>8. WorkFacts(r)
  BY <1>4, <1>6, <1>7 DEF WorkFacts
<1>9. QED
  BY <1>2, <1>3, <1>5, <1>8 DEF StepOK

LEMMA ResultSteps ==
  ASSUME CyclesTypeOK, CallsPlaced, CyclesKnown, NEW r \in Requests,
         InsertHypothesis(r) \/ InsertItem(r)
  PROVE  StepOK(r)
<1>0. /\ call \in [Requests -> CallTypes] /\ call[r] \in CallTypes
      /\ call[r].made \in 0..Batch /\ call[r].idea \in Hypotheses \cup {Nothing}
  BY DEF CyclesTypeOK, CallTypes
<1>1. CASE InsertHypothesis(r)
  <2> DEFINE h == <<r, call[r].on, call[r].made + 1>>
             x == [call[r] EXCEPT !.made = call[r].made + 1]
  <2>1. /\ call[r].step = "research" /\ call[r].made + 1 \in 1..Batch
        /\ hypothesis' = [hypothesis EXCEPT ![h] = [status |-> "new", by |-> Nothing]]
        /\ UNCHANGED <<cycle, inbox, signals, notes, ended, cut>>
    BY <1>0, <1>1, CycleIds DEF InsertHypothesis
  <2>2. call[r].on \in Runs
    BY <2>1 DEF CallsPlaced, CallPlaced, WorkSteps, PastRead, Modes
  <2>3. h \in Hypotheses
    BY <2>1, <2>2, CycleIds
  <2>4. /\ x \in CallTypes /\ x.step = call[r].step /\ x.op = call[r].op /\ x.on = call[r].on
        /\ x.todo = call[r].todo
    BY <1>0, <2>1 DEF CallTypes
  <2>5. call' = [call EXCEPT ![r] = x]
    BY <1>1 DEF InsertHypothesis
  <2> HIDE DEF x
  <2>6. /\ call' \in [Requests -> CallTypes] /\ call'[r] = x
        /\ \A q \in Requests : q # r => call'[q] = call[q]
    BY <1>0, <2>4, <2>5
  <2>7. CyclesTypeOK'
    <3>1. hypothesis' \in [Hypotheses -> [status : Statuses, by : Requests \cup {Nothing}]]
      BY <2>1, <2>3 DEF CyclesTypeOK, Statuses
    <3>2. QED
      BY <2>1, <2>6, <3>1 DEF CyclesTypeOK
  <2>8. \A k \in Hypotheses : hypothesis'[k] = IF k = h THEN [status |-> "new", by |-> Nothing]
                                               ELSE hypothesis[k]
    BY <2>1, <2>3 DEF CyclesTypeOK
  <2>9. \A k \in Hypotheses : hypothesis'[k].status # hypothesis[k].status =>
          \E n \in 1..Batch : k = <<r, call[r].on, n>>
    BY <2>1, <2>8
  <2>10. \A k \in Hypotheses : hypothesis[k].status # "none" => hypothesis'[k].status # "none"
    BY <2>8
  <2> HIDE DEF h
  <2>11. QED
    BY <2>1, <2>4, <2>6, <2>7, <2>9, <2>10, ResultFacts DEF PastRead, Modes
<1>2. CASE InsertItem(r)
  <2> DEFINE item == [by |-> r, run |-> call[r].on, idea |-> call[r].idea]
  <2>1. /\ call[r].step = "inbox" /\ Goto(r, "finish") /\ inbox' = inbox \cup {item}
        /\ UNCHANGED <<cycle, hypothesis, signals, notes, ended, cut>>
    BY <1>2 DEF InsertItem
  <2>2. call[r].on \in Runs
    BY <2>1 DEF CallsPlaced, CallPlaced, WorkSteps, PastRead, Modes
  <2>3. /\ call' \in [Requests -> CallTypes] /\ \A q \in Requests : q # r => call'[q] = call[q]
        /\ call'[r] = [call[r] EXCEPT !.step = "finish"]
    BY <1>0, <2>1, CycGoto DEF CallSteps, WorkSteps, PastRead, Over
  <2>4. /\ call'[r].step = "finish" /\ call'[r].op = call[r].op /\ call'[r].on = call[r].on
        /\ call'[r].todo = call[r].todo
    BY <1>0, <2>3 DEF CallTypes
  <2>5. item \in [by : Requests, run : Runs, idea : Hypotheses \cup {Nothing}]
        /\ item.by = r /\ item.run = call[r].on
    BY <1>0, <2>2
  <2> HIDE DEF item
  <2>6. CyclesTypeOK'
    BY <2>1, <2>3, <2>5 DEF CyclesTypeOK
  <2>7. QED
    BY <2>1, <2>3, <2>4, <2>5, <2>6, ResultFacts DEF PastRead, Modes
<1>3. QED
  BY <1>1, <1>2
-----------------------------------------------------------------------------
(* Steps of a request that works on no cycle and leaves no result.         *)
LEMMA IdleFacts ==
  ASSUME CyclesTypeOK, CallsPlaced, CyclesKnown, NEW r \in Requests,
         CyclesTypeOK', CallsPlaced', CallFacts(r), NoteFacts(r),
         call[r].step \notin WorkSteps, call'[r].step \notin WorkSteps \cup {"begin"},
         call'[r].todo \subseteq call[r].todo, UNCHANGED <<cycle, inbox, cut>>,
         \A h \in Hypotheses : hypothesis[h].status = "none" <=> hypothesis'[h].status = "none"
  PROVE  StepOK(r)
<1>1. ~ \E c \in Runs : On(r, c) \/ On(r, c)'
  BY OnIsWork, OnIsWorkNext
<1>2. CycleFacts(r)
  BY <1>1, SameCycles
<1>3. WorkFacts(r)
  BY <1>1, WorkersSame, NoNewResults DEF WorkSteps
<1>4. QED
  BY <1>2, <1>3 DEF StepOK

LEMMA NotingSteps ==
  ASSUME CyclesTypeOK, CallsPlaced, CyclesKnown, NEW r \in Requests,
         ReviewPromotion(r) \/ AddNote(r)
  PROVE  StepOK(r)
<1> DEFINE on == call[r].on
<1>1. /\ call[r].step = "write" /\ call[r].op \in NoteOps /\ Goto(r, "returned")
      /\ notes' = [notes EXCEPT ![on] = Appended(r)]
      /\ UNCHANGED <<cycle, inbox, signals, ended, cut>>
  BY DEF ReviewPromotion, AddNote, At, NoteOps
<1>2. /\ on \in Notable /\ (call[r].op = "reviewPromotion" =>
                               on \in Hypotheses /\ hypothesis[on].status # "none")
      /\ call[r].op = "addNote" => on \in Signals \cup Requests
  BY <1>1 DEF CallsPlaced, CallPlaced, NoteOps, Notable
<1>3. /\ call' \in [Requests -> CallTypes] /\ \A q \in Requests : q # r => call'[q] = call[q]
      /\ call'[r].step = "returned" /\ call'[r].op = call[r].op /\ call'[r].on = on
      /\ call'[r].todo = {}
  BY <1>1, CycGoto DEF CyclesTypeOK, CallSteps, Over
<1>4. /\ hypothesis' \in [Hypotheses -> [status : Statuses, by : Requests \cup {Nothing}]]
      /\ \A h \in Hypotheses : hypothesis[h].status = "none" <=> hypothesis'[h].status = "none"
  <2>1. CASE ReviewPromotion(r)
    <3>1. PICK decision \in Decided :
            hypothesis' = [hypothesis EXCEPT ![on] = [status |-> decision, by |-> r]]
      BY <2>1 DEF ReviewPromotion
    <3>2. on \in Hypotheses /\ hypothesis[on].status # "none" /\ decision # "none"
      BY <1>2, <2>1 DEF ReviewPromotion, At, Decided
    <3>3. QED
      BY <3>1, <3>2 DEF CyclesTypeOK, Statuses
  <2>2. CASE AddNote(r)
    BY <2>2 DEF AddNote, CyclesTypeOK
  <2>3. QED
    BY <2>1, <2>2
<1>5. notes' \in [Notable -> SUBSET Requests]
  BY <1>1 DEF CyclesTypeOK, CallTypes, Appended
<1>6. CyclesTypeOK'
  BY <1>1, <1>3, <1>4, <1>5 DEF CyclesTypeOK
<1>7. CallsPlaced'
  <2>1. CallPlaced(r)'
    BY <1>1, <1>2, <1>3, <1>4 DEF CallPlaced, WorkSteps, PastRead, Modes, NoteOps
  <2>2. QED
    BY <1>3, <1>4, <2>1, PlacesKept
<1>8. CallFacts(r) /\ NoteFacts(r)
  BY <1>1, <1>3 DEF CallFacts, NoteFacts, Over, Appended
<1>9. QED
  BY <1>1, <1>3, <1>4, <1>6, <1>7, <1>8, IdleFacts DEF WorkSteps, PastRead, Modes

LEMMA ReadNotesFacts ==
  ASSUME CyclesTypeOK, CallsPlaced, CyclesKnown, NEW r \in Requests, ReadNotes(r)
  PROVE  StepOK(r)
<1> DEFINE on == call[r].on
           x  == [call[r] EXCEPT !.step = "write", !.read = notes[on]]
<1>1. /\ call[r].step = "begin" /\ call[r].op \in NoteOps /\ call[r] \in CallTypes
      /\ call \in [Requests -> CallTypes] /\ call' = [call EXCEPT ![r] = x]
      /\ UNCHANGED <<cycle, hypothesis, inbox, signals, notes, ended, cut>>
  BY DEF ReadNotes, CyclesTypeOK
<1>2. on \in Notable /\ notes[on] \in SUBSET Requests
  BY <1>1 DEF CallsPlaced, CallPlaced, NoteOps, Notable, CyclesTypeOK
<1>3. /\ x \in CallTypes /\ x.step = "write" /\ x.op = call[r].op /\ x.on = on
      /\ x.todo = call[r].todo /\ x.read = notes[on]
  BY <1>1, <1>2 DEF CallTypes, CallSteps
<1> HIDE DEF x
<1>4. /\ call' \in [Requests -> CallTypes] /\ call'[r] = x
      /\ \A q \in Requests : q # r => call'[q] = call[q]
  BY <1>1, <1>3
<1>5. CyclesTypeOK'
  BY <1>1, <1>4 DEF CyclesTypeOK
<1>6. CallsPlaced'
  <2>1. CallPlaced(r)'
    BY <1>1, <1>3, <1>4 DEF CallsPlaced, CallPlaced, WorkSteps, PastRead, Modes, NoteOps
  <2>2. QED
    BY <1>1, <1>4, <2>1, PlacesKept
<1>7. CallFacts(r) /\ NoteFacts(r)
  BY <1>1, <1>3, <1>4 DEF CallFacts, NoteFacts, Over
<1>8. QED
  BY <1>1, <1>3, <1>4, <1>5, <1>6, <1>7, IdleFacts DEF WorkSteps, PastRead, Modes

LEMMA OtherFacts ==
  ASSUME CyclesTypeOK, CallsPlaced, CyclesKnown, NEW r \in Requests,
         Ingest(r) \/ (Throws(r) /\ call[r].op \in NoteOps)
  PROVE  StepOK(r)
<1>1. /\ UNCHANGED <<cycle, hypothesis, inbox, notes, ended>>
      /\ call[r].step \notin WorkSteps \cup Over \cup {"none"}
  BY DEF Ingest, Throws, At, CallsPlaced, CallPlaced, WorkSteps, PastRead, Modes, Over, NoteOps, WorkOps
<1>2. PICK s \in Over : Goto(r, s) /\ (call[r].op \in NoteOps => s = "threw")
  BY DEF Ingest, Throws, At, Over, NoteOps
<1>3. cut' = cut
  BY DEF Ingest, Throws, CutShort, Working, NoteOps
<1>4. signals' \subseteq Signals \cup Requests
  BY DEF Ingest, Throws, CyclesTypeOK, Scrapes, Synthetic
<1>5. /\ call' \in [Requests -> CallTypes] /\ \A q \in Requests : q # r => call'[q] = call[q]
      /\ call'[r].step = s /\ call'[r].todo = {}
      /\ call[r].op \in NoteOps => call'[r].op = call[r].op /\ call'[r].on = call[r].on
      /\ call[r].op \notin NoteOps => call'[r].op = "runCycle" /\ call'[r].on = Nothing
  BY <1>2, CycGoto DEF CyclesTypeOK, CallSteps
<1>6. CyclesTypeOK'
  BY <1>1, <1>3, <1>4, <1>5 DEF CyclesTypeOK
<1>7. CallsPlaced'
  <2>1. CallPlaced(r)'
    BY <1>1, <1>2, <1>5 DEF CallsPlaced, CallPlaced, WorkSteps, PastRead, Modes, NoteOps, Over
  <2>2. QED
    BY <1>1, <1>5, <2>1, PlacesKept
<1>8. CallFacts(r)
  BY <1>1, <1>2, <1>5 DEF CallFacts, Over
<1>9. NoteFacts(r)
  BY <1>1, <1>2, <1>5 DEF NoteFacts, Over, NoteOps
<1>10. QED
  BY <1>1, <1>2, <1>3, <1>5, <1>6, <1>7, <1>8, <1>9, IdleFacts
  DEF WorkSteps, PastRead, Modes, Over

LEMMA EveryStepIsOK ==
  ASSUME CyclesTypeOK, CallsPlaced, CyclesKnown, NEW r \in Requests, Step(r)
  PROVE  StepOK(r)
  BY BeginFacts, WritingSteps, QueueingFacts, ListingFacts, ReadingSteps, ResultSteps,
     NotingSteps, ReadNotesFacts, OtherFacts DEF Step

-----------------------------------------------------------------------------
Noted(r) == call[r].step = "returned" /\ call[r].op \in NoteOps

LostToOverlap(r) ==
  \E q \in Requests : Overlap(q, r) /\ call[q].op = call[r].op /\ call[q].on = call[r].on

(* Who is about to write notes has read all that were reported, or those   *)
(* it has not are lost to an overlap.                                      *)
WritersHaveRead ==
  \A q \in Requests, r \in Requests :
    call[q].step = "write" /\ Noted(r) /\ call[r].op = call[q].op /\ call[r].on = call[q].on =>
      r \in call[q].read \/ LostToOverlap(r)

LEMMA SameNotes ==
  ASSUME CallsPlaced, NEW q \in Requests, NEW r \in Requests, call[q].op \in NoteOps,
         call[r].op \in NoteOps, call[q].step # "none", call[r].step # "none",
         call[q].on = call[r].on
  PROVE  call[q].op = call[r].op
  BY CycleIds DEF CallsPlaced, CallPlaced, NoteOps

LEMMA LostStays ==
  ASSUME NEW x \in Requests, CallFacts(x), NoteFacts(x), NEW r \in Requests,
         Noted(r), LostToOverlap(r)
  PROVE  LostToOverlap(r)'
<1>1. PICK q \in Requests :
        Overlap(q, r) /\ call[q].op = call[r].op /\ call[q].on = call[r].on
  BY DEF LostToOverlap
<1>2. Overlap(q, r)' /\ r # x /\ call'[r] = call[r]
  BY <1>1, OverlapStays DEF Noted, CallFacts, Over
<1>3. call'[q].op = call[q].op /\ call'[q].on = call[q].on
  BY <1>1 DEF CallFacts, NoteFacts, Noted, Overlap
<1>4. QED
  BY <1>1, <1>2, <1>3 DEF LostToOverlap

LEMMA NotesKeep ==
  ASSUME CyclesTypeOK, CallsPlaced, EndedAreOver, WritersHaveRead, NotesLostOnlyToOverlap,
         NEW x \in Requests, CallFacts(x), NoteFacts(x)
  PROVE  WritersHaveRead' /\ NotesLostOnlyToOverlap'
<1>0. /\ notes \in [Notable -> SUBSET Requests]
      /\ \A r \in Requests : call[r].step # "none" /\ call[r].op \in NoteOps => call[r].on \in Notable
  BY DEF CyclesTypeOK, CallsPlaced, CallPlaced, NoteOps, Notable
(* Who returns while another is about to write overlaps it.                *)
<1>1. ASSUME NEW q \in Requests, q # x, call[q].step = "write", Noted(x)',
             call[q].op = call'[x].op, call[q].on = call'[x].on
      PROVE  LostToOverlap(x)'
  <2>1. call[x].step = "write"
    BY <1>1 DEF Noted, NoteFacts
  <2>2. Overlap(q, x)'
    BY <1>1, <2>1, UnderWayOverlap, OverlapStays DEF Over
  <2>3. QED
    BY <1>1, <2>2 DEF LostToOverlap, CallFacts
<1>2. WritersHaveRead'
  <2>1. ASSUME NEW q \in Requests, NEW r \in Requests, call'[q].step = "write", Noted(r)',
               call'[r].op = call'[q].op, call'[r].on = call'[q].on
        PROVE  r \in call'[q].read \/ LostToOverlap(r)'
    <3>1. CASE r = x
      BY <1>1, <2>1, <3>1 DEF CallFacts, Noted
    <3>2. CASE r # x /\ q # x
      BY <2>1, <3>2, LostStays DEF CallFacts, Noted, WritersHaveRead
    <3>3. CASE r # x /\ q = x
      <4>1. /\ call'[r] = call[r] /\ Noted(r) /\ call'[x].read = notes[call[x].on]
            /\ call'[x].op \in NoteOps /\ call[x].step # "none"
        BY <2>1, <3>3 DEF CallFacts, NoteFacts, Noted
      <4>2. call[x].on = call[r].on
        BY <2>1, <3>3, <4>1 DEF NoteFacts
      <4>3. r \in notes[call[r].on] \/ LostToOverlap(r)
        BY <4>1 DEF NotesLostOnlyToOverlap, Noted, LostToOverlap
      <4>4. QED
        BY <3>3, <4>1, <4>2, <4>3, LostStays
    <3>4. QED
      BY <3>1, <3>2, <3>3
  <2>2. QED
    BY <2>1 DEF WritersHaveRead
<1>3. NotesLostOnlyToOverlap'
  <2>1. ASSUME NEW r \in Requests, Noted(r)'
        PROVE  r \in notes'[call'[r].on] \/ LostToOverlap(r)'
    <3>1. CASE r = x
      BY <1>0, <2>1, <3>1 DEF Noted, NoteFacts
    <3>2. CASE r # x
      <4>1. call'[r] = call[r] /\ Noted(r) /\ call[r].on \in Notable /\ call[r].op \in NoteOps
        BY <1>0, <2>1, <3>2 DEF CallFacts, Noted
      <4>2. r \in notes[call[r].on] \/ LostToOverlap(r)
        BY <4>1 DEF NotesLostOnlyToOverlap, Noted, LostToOverlap
      <4>3. CASE LostToOverlap(r)
        BY <4>1, <4>3, LostStays
      <4>4. CASE r \in notes[call[r].on] /\ notes' = notes
        BY <4>1, <4>4
      <4>5. CASE r \in notes[call[r].on] /\ Noted(x)'
        <5>1. /\ call[x].step = "write" /\ call[x].op \in NoteOps
              /\ notes' = [notes EXCEPT ![call[x].on] = call[x].read \cup {x}]
          BY <4>5 DEF Noted, NoteFacts
        <5>2. CASE call[x].on # call[r].on
          BY <1>0, <4>1, <4>5, <5>1, <5>2
        <5>3. CASE call[x].on = call[r].on
          <6>1. call[x].op = call[r].op
            BY <4>1, <5>1, <5>3, SameNotes DEF Noted
          <6>2. r \in call[x].read \/ LostToOverlap(r)
            BY <4>1, <5>1, <5>3, <6>1 DEF WritersHaveRead
          <6>3. QED
            BY <1>0, <4>1, <5>1, <5>3, <6>2, LostStays
        <5>4. QED
          BY <5>2, <5>3
      <4>6. QED
        BY <4>2, <4>3, <4>4, <4>5 DEF NoteFacts, Noted
    <3>3. QED
      BY <3>1, <3>2
  <2>2. QED
    BY <2>1 DEF NotesLostOnlyToOverlap, Noted, LostToOverlap
<1>4. QED
  BY <1>2, <1>3

-----------------------------------------------------------------------------
CyclesInv ==
  CyclesTypeOK /\ CallsPlaced /\ WorkInv /\ WritersHaveRead /\ NotesLostOnlyToOverlap

LEMMA CyclesInitially == Init => CyclesInv
<1> SUFFICES ASSUME Init PROVE CyclesInv
  OBVIOUS
<1>1. \A r \in Requests : call[r] = NoCall /\ ended[r] = {} /\ cycle[r] = "none"
  BY CyclesAssumption DEF Init, Runs
<1>2. /\ cycle \in [Runs -> Modes \cup {"none", "ok", "failed"}]
      /\ hypothesis \in [Hypotheses -> [status : Statuses, by : Requests \cup {Nothing}]]
      /\ \A h \in Hypotheses \ Ideas : hypothesis[h].status = "none"
  <2>1. PICK mode \in [Cycles -> Modes] :
          cycle = [c \in Runs |-> IF c \in Cycles THEN mode[c] ELSE "none"]
    BY DEF Init
  <2>2. cycle \in [Runs -> Modes \cup {"none", "ok", "failed"}]
    BY <2>1
  <2>3. PICK status \in [Ideas -> {"new", "rejected"}] : hypothesis = [h \in Hypotheses |->
          IF h \in Ideas THEN [status |-> status[h], by |-> Nothing] ELSE NoHypothesis]
    BY DEF Init
  <2>4. NoHypothesis \in [status : Statuses, by : Requests \cup {Nothing}]
        /\ NoHypothesis.status = "none"
    BY DEF NoHypothesis, Statuses
  <2>5. \A h \in Ideas : [status |-> status[h], by |-> Nothing]
                           \in [status : Statuses, by : Requests \cup {Nothing}]
    BY <2>3 DEF Statuses, Decided
  <2>6. hypothesis \in [Hypotheses -> [status : Statuses, by : Requests \cup {Nothing}]]
    BY <2>3, <2>4, <2>5
  <2>7. \A h \in Hypotheses \ Ideas : hypothesis[h].status = "none"
    BY <2>3, <2>4
  <2>8. QED
    BY <2>2, <2>6, <2>7
<1>3. CyclesTypeOK
  BY <1>2, NoCallTyped DEF Init, CyclesTypeOK, Notable
<1>4. CallsPlaced
  BY <1>1, NoCallTyped DEF CallsPlaced, CallPlaced, WorkSteps, PastRead, Modes
<1>5. \A c \in Runs : Workers(c) = {}
  <2>1. ASSUME NEW c \in Runs, NEW r \in Requests
        PROVE  r \notin Workers(c)
    <3>1. \A n \in 1..Batch : hypothesis[<<r, c, n>>].status = "none"
      BY <1>2, CycleIds
    <3>2. inbox = {}
      BY DEF Init
    <3>3. QED
      BY <3>1, <3>2 DEF Workers
  <2>2. QED
    BY <2>1 DEF Workers
<1>6. \A r \in Requests, c \in Runs : ~On(r, c)
  BY <1>1, NoCallTyped, CycleIds DEF On
<1>7. WorkInv
  BY <1>1, <1>5, <1>6, NoCallTyped DEF WorkInv, EndedAreOver, CyclesKnown, WorkersKnown, WorkersMeet,
     Past, WorkedOnceUnlessOverlapping
<1>8. WritersHaveRead /\ NotesLostOnlyToOverlap
  BY <1>1, NoCallTyped DEF WritersHaveRead, NotesLostOnlyToOverlap
<1>9. QED
  BY <1>3, <1>4, <1>7, <1>8 DEF CyclesInv

LEMMA CyclesInductive == CyclesInv /\ Next => CyclesInv'
<1> SUFFICES ASSUME CyclesInv, NEW r \in Requests, Step(r) PROVE CyclesInv'
  BY DEF Next
<1>1. StepOK(r)
  BY EveryStepIsOK DEF CyclesInv, WorkInv
<1>2. WorkInv'
  BY <1>1, WorkKeeps DEF CyclesInv, StepOK
<1>3. WritersHaveRead' /\ NotesLostOnlyToOverlap'
  BY <1>1, NotesKeep DEF CyclesInv, WorkInv, StepOK
<1>4. QED
  BY <1>1, <1>2, <1>3 DEF CyclesInv, StepOK

LEMMA CyclesStutter == CyclesInv /\ UNCHANGED vars => CyclesInv'
<1> SUFFICES ASSUME CyclesInv, UNCHANGED vars PROVE CyclesInv'
  OBVIOUS
<1> USE DEF vars
<1>1. CyclesTypeOK' /\ CallsPlaced'
  BY DEF CyclesInv, CyclesTypeOK, CallsPlaced, CallPlaced
<1>2. WorkInv'
  BY SMTT(30) DEF CyclesInv, WorkInv, EndedAreOver, CyclesKnown, WorkersKnown, WorkersMeet,
     WorkedOnceUnlessOverlapping, On, Past, Working, Workers, Overlap
<1>3. WritersHaveRead' /\ NotesLostOnlyToOverlap'
  BY DEF CyclesInv, WritersHaveRead, NotesLostOnlyToOverlap, Noted, LostToOverlap, Overlap
<1>4. QED
  BY <1>1, <1>2, <1>3 DEF CyclesInv

LEMMA CyclesAlways == AllSpec => []CyclesInv
<1>1. AllInit => CyclesInv
  BY CyclesInitially DEF AllInit
<1>2. CyclesInv /\ [AllNext]_allVars => CyclesInv'
  BY CyclesInductive, CyclesStutter DEF AllNext, allVars
<1>3. QED
  BY <1>1, <1>2, PTL DEF AllSpec

(* Although nothing claims a queued cycle, two requests leave results of   *)
(* one only if they ran at the same time or one of them was cut short.     *)
THEOREM CyclesAreWorkedOnce == AllSpec => []WorkedOnceUnlessOverlapping
<1>1. CyclesInv => WorkedOnceUnlessOverlapping
  BY DEF CyclesInv, WorkInv
<1>2. QED
  BY <1>1, CyclesAlways, PTL

(* A note reported as added stays, unless a request that writes the notes  *)
(* of the same hypothesis or signal ran at the same time.                  *)
THEOREM ReportedNotesStay == AllSpec => []NotesLostOnlyToOverlap
<1>1. CyclesInv => NotesLostOnlyToOverlap
  BY DEF CyclesInv
<1>2. QED
  BY <1>1, CyclesAlways, PTL

-----------------------------------------------------------------------------
(* The publish queue.                                                      *)

Intents == [pack : Packs, reports : Nat \ {0}, at : Nat]

Copying   == {"copy", "artifacts", "files", "handoff"}
PubSteps  == {"none", "dedupe", "flush", "scan", "write", "remove"} \cup Copying \cup Publishing!Over

RunTypes ==
  [step : PubSteps, script : {"publish", "flush", Nothing}, intent : Intents \cup {Nothing},
   list : SUBSET Intents, seen : SUBSET Packs]

PubTypeOK ==
  /\ local \in [pack : Packs, reports : Nat \ {0}]
  /\ queue \subseteq Intents /\ written \in Nat
  /\ cloud \in [Packs -> [parts : SUBSET Publishing!Parts, handoff : Nat]]
  /\ run \in [Requests -> RunTypes]

Whole(p) == cloud[p].parts = Publishing!Parts /\ cloud[p].handoff > 0

Kept(p) == Whole(p) \/ \E i \in queue : i.pack = p

HasOlder(i) == Whole(i.pack) \/ \E j \in queue : j.pack = i.pack /\ j.at < i.at

(* Files have times of their own, none later than the newest.              *)
TimesDiffer ==
  /\ \A i, j \in queue : i.at = j.at => i = j
  /\ \A i \in queue : i.at <= written
  /\ \A r \in Requests : \A i \in run[r].list : i.at <= written

(* A run past a copy has an intent, whose pack has what was copied.        *)
Copied(step) ==
  IF step = "artifacts" THEN {"dataset"}
  ELSE IF step = "files" THEN {"dataset", "artifacts"}
  ELSE IF step \in {"handoff", "remove"} THEN Publishing!Parts ELSE {}

CopiesMade(r) ==
  run[r].step \in Copying \cup {"scan", "write", "remove", "deferred"} =>
    /\ run[r].intent \in Intents
    /\ Copied(run[r].step) \subseteq cloud[run[r].intent.pack].parts
    /\ run[r].step = "remove" => Whole(run[r].intent.pack)

(* What a run may still remove as a duplicate has an older one, unless its *)
(* pack has been copied since.                                             *)
SeenHaveOlder(r) ==
  run[r].step = "dedupe" =>
    \A i \in run[r].list \cap queue : i.pack \in run[r].seen => HasOlder(i)

DeferredKept(r) == run[r].step = "deferred" => Kept(run[r].intent.pack)

RunOK(r) == CopiesMade(r) /\ SeenHaveOlder(r) /\ DeferredKept(r)

PubInv == PubTypeOK /\ TimesDiffer /\ \A r \in Requests : RunOK(r)

-----------------------------------------------------------------------------
LEMMA PubInitially == Publishing!QueueAssumption /\ Publishing!Init => PubInv
<1> SUFFICES ASSUME Publishing!QueueAssumption, Publishing!Init PROVE PubInv
  OBVIOUS
<1> USE DEF Publishing!Init, Publishing!NoRun, Copying
<1>1. PubTypeOK
  <2>1. Publishing!NoRun \in RunTypes
    BY DEF RunTypes, PubSteps
  <2>2. /\ local \in [pack : Packs, reports : Nat \ {0}] /\ written \in Nat
        /\ queue \subseteq Intents
        /\ cloud \in [Packs -> [parts : SUBSET Publishing!Parts, handoff : Nat]]
    OBVIOUS
  <2>3. QED
    BY <2>1, <2>2 DEF PubTypeOK
<1>2. TimesDiffer /\ \A r \in Requests : RunOK(r)
  BY DEF TimesDiffer, RunOK, CopiesMade, SeenHaveOlder, DeferredKept
<1>3. QED
  BY <1>1, <1>2 DEF PubInv

(* What is whole stays so.                                                 *)
LEMMA WholeStays ==
  ASSUME PubTypeOK, NEW r \in Requests, run[r].intent \in Intents,
         \/ UNCHANGED cloud
         \/ \E part_ \in Publishing!Parts :
              cloud' = [cloud EXCEPT ![run[r].intent.pack].parts = @ \cup {part_}]
         \/ cloud' = [cloud EXCEPT ![run[r].intent.pack].handoff = run[r].intent.reports]
  PROVE  /\ cloud' \in [Packs -> [parts : SUBSET Publishing!Parts, handoff : Nat]]
         /\ \A p \in Packs : cloud[p].parts \subseteq cloud'[p].parts /\ (Whole(p) => Whole(p)')
<1> USE DEF PubTypeOK, Intents, Whole
<1>1. CASE UNCHANGED cloud
  BY <1>1
<1> DEFINE p == run[r].intent.pack
<1>2. ASSUME NEW x \in Publishing!Parts, cloud' = [cloud EXCEPT ![p].parts = @ \cup {x}]
      PROVE  /\ cloud' \in [Packs -> [parts : SUBSET Publishing!Parts, handoff : Nat]]
             /\ \A q \in Packs : cloud[q].parts \subseteq cloud'[q].parts /\ (Whole(q) => Whole(q)')
  <2>1. /\ cloud' = [cloud EXCEPT ![p] = [cloud[p] EXCEPT !.parts = cloud[p].parts \cup {x}]]
        /\ cloud[p].parts \cup {x} \in SUBSET Publishing!Parts /\ p \in Packs
    BY <1>2
  <2>2. [cloud[p] EXCEPT !.parts = cloud[p].parts \cup {x}]
           \in [parts : SUBSET Publishing!Parts, handoff : Nat]
    BY <2>1, ZenonT(60)
  <2>3. cloud'[p].parts = cloud[p].parts \cup {x} /\ cloud'[p].handoff = cloud[p].handoff
    BY <2>1, ZenonT(60)
  <2>4. QED
    BY <2>1, <2>2, <2>3
<1>3. CASE cloud' = [cloud EXCEPT ![p].handoff = run[r].intent.reports]
  BY <1>3
<1>4. QED
  BY <1>1, <1>2, <1>3

LEMMA PubGoto ==
  ASSUME run \in [Requests -> RunTypes], NEW r \in Requests, NEW s \in PubSteps,
         Publishing!Goto(r, s)
  PROVE  /\ run' \in [Requests -> RunTypes]
         /\ run'[r].step = s /\ run'[r].intent = run[r].intent
         /\ \A q \in Requests : q # r => run'[q] = run[q]
<1> DEFINE over == [run[r] EXCEPT !.step = s, !.list = {}, !.seen = {}]
           on   == [run[r] EXCEPT !.step = s]
<1>1. /\ over \in RunTypes /\ over.step = s /\ over.intent = run[r].intent
      /\ on \in RunTypes /\ on.step = s /\ on.intent = run[r].intent
  BY DEF RunTypes
<1>2. run' = [run EXCEPT ![r] = IF s \in Publishing!Over THEN over ELSE on]
  BY DEF Publishing!Goto
<1> HIDE DEF over, on
<1>3. QED
  BY <1>1, <1>2

LEMMA PubKeepsType ==
  ASSUME PubInv, Publishing!Next
  PROVE  PubTypeOK'
<1> USE DEF PubInv, PubTypeOK, PubSteps, Copying, Publishing!Over, RunOK
<1>1. CASE Publishing!Produce
  BY <1>1 DEF Publishing!Produce
<1>2. ASSUME NEW r \in Requests, Publishing!Die(r) \/ Publishing!CopyFails(r)
               \/ Publishing!HasDuplicateIntent(r) \/ Publishing!FlushDone(r)
      PROVE  PubTypeOK'
  BY <1>2, PubGoto
  DEF Publishing!Die, Publishing!CopyFails, Publishing!HasDuplicateIntent, Publishing!FlushDone
<1>3. ASSUME NEW r \in Requests, Publishing!Publish(r) \/ Publishing!Flush(r)
      PROVE  PubTypeOK'
  <2>1. /\ [Publishing!NoRun EXCEPT !.step = "copy", !.script = "publish",
             !.intent = [pack |-> local.pack, reports |-> local.reports, at |-> 0]] \in RunTypes
        /\ [Publishing!NoRun EXCEPT !.step = "dedupe", !.script = "flush", !.list = queue] \in RunTypes
    BY DEF Publishing!NoRun, RunTypes, Intents
  <2>2. QED
    BY <1>3, <2>1 DEF Publishing!Publish, Publishing!Flush
<1>4. ASSUME NEW r \in Requests, Publishing!QueueIntent(r) PROVE PubTypeOK'
  <2>1. [run[r].intent EXCEPT !.at = written + 1] \in Intents
    BY <1>4 DEF Publishing!QueueIntent, CopiesMade, Intents
  <2>2. QED
    BY <1>4, <2>1, PubGoto DEF Publishing!QueueIntent
<1>5. ASSUME NEW r \in Requests, Publishing!Dedupe(r) PROVE PubTypeOK'
  <2>1. PICK i \in run[r].list :
          /\ queue' = IF Publishing!Seen(r, i) THEN queue \ {i} ELSE queue
          /\ run' = [run EXCEPT ![r].list = @ \ {i},
                                ![r].seen = IF i \in queue THEN @ \cup {i.pack} ELSE @]
    BY <1>5 DEF Publishing!Dedupe
  <2> DEFINE x == [run[r] EXCEPT !.list = run[r].list \ {i},
                     !.seen = IF i \in queue THEN run[r].seen \cup {i.pack} ELSE run[r].seen]
  <2>2. run' = [run EXCEPT ![r] = x]
    BY <2>1
  <2>3. x \in RunTypes
    BY ZenonT(60) DEF RunTypes, Intents
  <2>4. UNCHANGED <<local, written, cloud>>
    BY <1>5 DEF Publishing!Dedupe
  <2>5. queue' \subseteq Intents
    BY <2>1
  <2> HIDE DEF x
  <2>6. run' \in [Requests -> RunTypes]
    BY <2>2, <2>3
  <2>7. QED
    BY <2>4, <2>5, <2>6
<1>6. ASSUME NEW r \in Requests, Publishing!ListItems(r) PROVE PubTypeOK'
  <2>1. run' = [run EXCEPT ![r] = [run[r] EXCEPT !.step = "flush", !.list = queue]]
    BY <1>6 DEF Publishing!ListItems
  <2>2. [run[r] EXCEPT !.step = "flush", !.list = queue] \in RunTypes
    BY DEF RunTypes
  <2>3. QED
    BY <1>6, <2>1, <2>2 DEF Publishing!ListItems
<1>7. ASSUME NEW r \in Requests, Publishing!FlushNext(r) PROVE PubTypeOK'
  <2>1. PICK i \in run[r].list :
          run' = [run EXCEPT ![r].list = @ \ {i}, ![r].intent = i,
                             ![r].step = IF i \in queue THEN "copy" ELSE "flush"]
    BY <1>7 DEF Publishing!FlushNext, Publishing!Take
  <2> DEFINE x == [run[r] EXCEPT !.list = run[r].list \ {i}, !.intent = i,
                     !.step = IF i \in queue THEN "copy" ELSE "flush"]
  <2>2. run' = [run EXCEPT ![r] = x]
    BY <2>1
  <2>3. x \in RunTypes
    BY DEF RunTypes
  <2>4. UNCHANGED <<local, queue, written, cloud>>
    BY <1>7 DEF Publishing!FlushNext, Publishing!Take
  <2> HIDE DEF x
  <2>5. run' \in [Requests -> RunTypes]
    BY <2>2, <2>3
  <2>6. QED
    BY <2>4, <2>5
<1>8. ASSUME NEW r \in Requests, Publishing!Remove(r) PROVE PubTypeOK'
  BY <1>8, PubGoto DEF Publishing!Remove
<1>9. ASSUME NEW r \in Requests,
             Publishing!CopyPack(r) \/ Publishing!CopyFiles(r) \/ Publishing!CopyHandoff(r)
      PROVE  PubTypeOK'
  <2>1. run[r].intent \in Intents
    BY <1>9 DEF CopiesMade, Publishing!CopyPack, Publishing!CopyFiles, Publishing!CopyHandoff,
       Publishing!Copies
  <2>2. cloud' \in [Packs -> [parts : SUBSET Publishing!Parts, handoff : Nat]]
    BY <1>9, <2>1, WholeStays DEF Publishing!CopyPack, Publishing!CopyFiles, Publishing!CopyHandoff,
       Publishing!Copies, Publishing!Parts
  <2>3. QED
    BY <1>9, <2>2, PubGoto DEF Publishing!CopyPack, Publishing!CopyFiles, Publishing!CopyHandoff,
       Publishing!Copies
<1>10. QED
  BY <1>1, <1>2, <1>3, <1>4, <1>5, <1>6, <1>7, <1>8, <1>9 DEF Publishing!Next

(* What one step does to the directory: it leaves it alone, adds the newest*)
(* file, or removes one whose pack is whole or has an older one there.     *)
QueueStays ==
  \/ queue' = queue /\ written' = written
  \/ \E n \in Intents : /\ n.at = written + 1 /\ written' = written + 1
                        /\ queue' = queue \cup {n}
  \/ \E i \in Intents : /\ i \in queue => HasOlder(i)
                        /\ queue' = queue \ {i} /\ written' = written

CloudStays ==
  \A p \in Packs : cloud[p].parts \subseteq cloud'[p].parts /\ (Whole(p) => Whole(p)')

LEMMA QueueKeeps ==
  ASSUME PubInv, QueueStays, CloudStays
  PROVE  /\ \A p \in Packs : Kept(p) => Kept(p)'
         /\ \A k \in Intents : HasOlder(k) => HasOlder(k)'
         /\ \A i, j \in queue' : i.at = j.at => i = j
         /\ \A i \in queue' : i.at <= written'
         /\ \A i \in queue' : i \in queue \/ i.at > written
         /\ written' \in Nat /\ written <= written'
<1> USE DEF CloudStays, Kept, HasOlder
<1>0. queue \subseteq Intents /\ written \in Nat /\ \A i \in Intents : i.at \in Nat /\ i.pack \in Packs
  BY DEF PubInv, PubTypeOK, Intents
<1>1. CASE queue' = queue /\ written' = written
  BY <1>0, <1>1 DEF PubInv, TimesDiffer
<1>2. CASE \E n \in Intents : /\ n.at = written + 1 /\ written' = written + 1
                              /\ queue' = queue \cup {n}
  BY <1>0, <1>2 DEF PubInv, TimesDiffer
<1>3. CASE \E i \in Intents : /\ i \in queue => HasOlder(i)
                              /\ queue' = queue \ {i} /\ written' = written
  <2>1. PICK i \in Intents : /\ i \in queue => HasOlder(i)
                             /\ queue' = queue \ {i} /\ written' = written
    BY <1>3
  <2>2. \A p \in Packs : Kept(p) => Kept(p)'
    BY <1>0, <2>1
  <2>3. \A k \in Intents : HasOlder(k) => HasOlder(k)'
    BY <1>0, <2>1
  <2>4. QED
    BY <1>0, <2>1, <2>2, <2>3 DEF PubInv, TimesDiffer
<1>4. QED
  BY <1>1, <1>2, <1>3 DEF QueueStays

(* What is true of a run stays true while others act.                      *)
LEMMA OthersKeep ==
  ASSUME PubInv, QueueStays, CloudStays, NEW q \in Requests, run'[q] = run[q]
  PROVE  RunOK(q)' /\ \A i \in run'[q].list : i.at <= written'
<1>0. /\ RunOK(q) /\ run[q] \in RunTypes
      /\ \A i \in run[q].list : i.at <= written /\ i \in Intents
      /\ written \in Nat /\ \A i \in Intents : i.at \in Nat /\ i.pack \in Packs
  BY DEF PubInv, PubTypeOK, TimesDiffer, RunTypes, Intents
<1>1. CopiesMade(q)'
  BY <1>0 DEF RunOK, CopiesMade, CloudStays
<1>2. SeenHaveOlder(q)'
  <2>1. ASSUME NEW i \in run[q].list \cap queue' PROVE i \in queue /\ i \in Intents
    BY <1>0, QueueKeeps
  <2>2. QED
    BY <1>0, <2>1, QueueKeeps DEF RunOK, SeenHaveOlder
<1>3. DeferredKept(q)'
  BY <1>0, QueueKeeps DEF RunOK, DeferredKept, CopiesMade
<1>4. \A i \in run'[q].list : i.at <= written'
  BY <1>0, QueueKeeps
<1>5. QED
  BY <1>1, <1>2, <1>3, <1>4 DEF RunOK

(* So a step of one run has to keep what is true of that run.              *)
LEMMA OneRunKeeps ==
  ASSUME PubInv, PubTypeOK', QueueStays, CloudStays, NEW r \in Requests,
         \A q \in Requests : q # r => run'[q] = run[q],
         RunOK(r)', \A i \in run'[r].list : i.at <= written'
  PROVE  PubInv'
<1>1. \A q \in Requests : RunOK(q)' /\ \A i \in run'[q].list : i.at <= written'
  BY OthersKeep
<1>2. QED
  BY <1>1, QueueKeeps DEF PubInv, TimesDiffer

(* Steps that only move a run on.                                          *)
LEMMA MovesOn ==
  ASSUME PubInv, PubTypeOK', NEW r \in Requests, NEW s \in PubSteps, Publishing!Goto(r, s),
         QueueStays, CloudStays, s # "dedupe",
         s \in Copying \cup {"scan", "write", "remove", "deferred"} =>
           /\ run[r].intent \in Intents
           /\ Copied(s) \subseteq cloud'[run[r].intent.pack].parts
           /\ s = "remove" => Whole(run[r].intent.pack)'
           /\ s = "deferred" => Kept(run[r].intent.pack)'
  PROVE  PubInv'
<1>1. /\ run'[r].step = s /\ run'[r].intent = run[r].intent
      /\ \A q \in Requests : q # r => run'[q] = run[q]
  BY PubGoto DEF PubInv, PubTypeOK
<1>2. run'[r].list \subseteq run[r].list
  BY DEF PubInv, PubTypeOK, RunTypes, Publishing!Goto
<1>3. RunOK(r)'
  BY <1>1 DEF RunOK, CopiesMade, SeenHaveOlder, DeferredKept
<1>4. \A i \in run'[r].list : i.at <= written'
  <2>1. \A i \in run[r].list : i.at \in Nat /\ i.at <= written
    BY DEF PubInv, PubTypeOK, TimesDiffer, RunTypes, Intents
  <2>2. written \in Nat /\ written' \in Nat /\ written <= written'
    BY QueueKeeps DEF PubInv, PubTypeOK
  <2>3. QED
    BY <1>2, <2>1, <2>2
<1>5. QED
  BY <1>1, <1>3, <1>4, OneRunKeeps

LEMMA DirectorySteps ==
  ASSUME PubInv, PubTypeOK', NEW r \in Requests,
         Publishing!HasDuplicateIntent(r) \/ Publishing!QueueIntent(r) \/ Publishing!Remove(r)
  PROVE  PubInv'
<1> USE DEF PubSteps, Copying, Publishing!Over
<1>0. /\ run[r].step \in {"scan", "write", "remove"} => run[r].intent \in Intents
      /\ run[r].step = "remove" => Whole(run[r].intent.pack)
      /\ Copied("write") = {} /\ Copied("deferred") = {}
      /\ \A i \in Intents : i.pack \in Packs
      /\ written \in Nat
  BY DEF PubInv, PubTypeOK, RunOK, CopiesMade, Copied, Intents
<1>1. CASE Publishing!HasDuplicateIntent(r)
  <2> DEFINE s == IF \E i \in queue : Publishing!SameKey(i, run[r].intent) THEN "deferred" ELSE "write"
  <2>1. /\ Publishing!Goto(r, s) /\ QueueStays /\ CloudStays /\ run[r].intent \in Intents
        /\ UNCHANGED <<queue, written, cloud>>
    BY <1>0, <1>1 DEF Publishing!HasDuplicateIntent, QueueStays, CloudStays, Whole
  <2>2. s \in {"deferred", "write"} /\ Copied(s) = {}
    BY <1>0
  <2>3. s = "deferred" => \E i \in queue : i.pack = run[r].intent.pack
    BY DEF Publishing!SameKey
  <2> HIDE DEF s
  <2>4. run'[r].intent = run[r].intent
    BY <2>1, <2>2, PubGoto DEF PubInv, PubTypeOK
  <2>5. s = "deferred" => Kept(run[r].intent.pack)'
    BY <2>1, <2>3, <2>4 DEF Kept
  <2>6. QED
    BY <2>1, <2>2, <2>5, MovesOn
<1>2. CASE Publishing!QueueIntent(r)
  <2> DEFINE n == [run[r].intent EXCEPT !.at = written + 1]
  <2>1. /\ Publishing!Goto(r, "deferred") /\ CloudStays /\ run[r].intent \in Intents
        /\ written' = written + 1 /\ queue' = queue \cup {n}
    BY <1>0, <1>2 DEF Publishing!QueueIntent, CloudStays, Whole
  <2>2. n \in Intents /\ n.at = written + 1 /\ n.pack = run[r].intent.pack
    BY <1>0, <2>1 DEF Intents
  <2> HIDE DEF n
  <2>3. QueueStays
    BY <2>1, <2>2 DEF QueueStays
  <2>4. Kept(run[r].intent.pack)'
    <3>1. n \in queue' /\ run'[r].intent.pack = n.pack
      BY <2>1, <2>2, PubGoto DEF PubInv, PubTypeOK
    <3>2. QED
      BY <3>1 DEF Kept
  <2>5. QED
    BY <1>0, <2>1, <2>3, <2>4, MovesOn
<1>3. CASE Publishing!Remove(r)
  <2>1. /\ Publishing!Goto(r, "flush") /\ CloudStays /\ run[r].intent \in Intents
        /\ queue' = queue \ {run[r].intent} /\ written' = written /\ HasOlder(run[r].intent)
    BY <1>0, <1>3 DEF Publishing!Remove, CloudStays, Whole, HasOlder
  <2>2. QueueStays
    BY <2>1 DEF QueueStays
  <2>3. QED
    BY <2>1, <2>2, MovesOn
<1>4. QED
  BY <1>1, <1>2, <1>3

LEMMA CopySteps ==
  ASSUME PubInv, PubTypeOK', NEW r \in Requests,
         Publishing!CopyPack(r) \/ Publishing!CopyFiles(r) \/ Publishing!CopyHandoff(r)
  PROVE  PubInv'
<1> USE DEF PubSteps, Copying, Publishing!Over
<1> DEFINE p == run[r].intent.pack
<1>0. /\ run[r].step \in Copying /\ run[r].intent \in Intents /\ p \in Packs
      /\ Copied(run[r].step) \subseteq cloud[p].parts /\ run[r].intent.reports \in Nat \ {0}
      /\ QueueStays /\ PubTypeOK
      /\ cloud \in [Packs -> [parts : SUBSET Publishing!Parts, handoff : Nat]]
  BY DEF PubInv, PubTypeOK, RunOK, CopiesMade, Intents, QueueStays, Publishing!CopyPack,
     Publishing!CopyFiles, Publishing!CopyHandoff, Publishing!Copies
<1>1. CloudStays
  BY <1>0, WholeStays DEF CloudStays, Publishing!CopyPack, Publishing!CopyFiles,
     Publishing!CopyHandoff, Publishing!Copies, Publishing!Parts
<1>2. ASSUME NEW step \in {"copy", "artifacts", "files"}, NEW x \in Publishing!Parts,
             NEW next \in {"artifacts", "files", "handoff"},
             Publishing!Copies(r, step, x, next), Copied(next) \subseteq Copied(step) \cup {x}
      PROVE  PubInv'
  <2>1. Publishing!Goto(r, next) /\ step = run[r].step
    BY <1>2 DEF Publishing!Copies
  <2>2. x \in cloud'[p].parts
    BY <1>0, <1>2 DEF Publishing!Copies
  <2>3. Copied(next) \subseteq cloud'[p].parts
    BY <1>0, <1>1, <1>2, <2>1, <2>2 DEF CloudStays
  <2>4. QED
    BY <1>0, <1>1, <2>1, <2>3, MovesOn
<1>3. CASE Publishing!CopyPack(r) \/ Publishing!CopyFiles(r)
  <2>1. /\ Copied("artifacts") = Copied("copy") \cup {"dataset"}
        /\ Copied("files") = Copied("artifacts") \cup {"artifacts"}
        /\ Copied("handoff") = Copied("files") \cup {"files"}
    BY DEF Copied, Publishing!Parts
  <2>2. QED
    BY <1>2, <1>3, <2>1 DEF Publishing!CopyPack, Publishing!CopyFiles, Publishing!Parts
<1>4. CASE Publishing!CopyHandoff(r)
  <2>1. Publishing!Goto(r, IF run[r].script = "publish" THEN "published" ELSE "remove")
    BY <1>4 DEF Publishing!CopyHandoff
  <2>2. Copied("handoff") = Publishing!Parts /\ Copied("remove") = Publishing!Parts
    BY DEF Copied
  <2>3. cloud'[p].parts = Publishing!Parts /\ cloud'[p].handoff = run[r].intent.reports
    BY <1>0, <1>4, <2>2 DEF Publishing!CopyHandoff, Publishing!Parts
  <2>4. Whole(p)'
    <3>1. run'[r].intent = run[r].intent
      BY <1>0, <2>1, PubGoto DEF PubTypeOK
    <3>2. QED
      BY <1>0, <2>3, <3>1 DEF Whole
  <2>5. CASE run[r].script = "publish"
    BY <1>0, <1>1, <2>1, <2>5, MovesOn
  <2>6. CASE run[r].script # "publish"
    BY <1>0, <1>1, <2>1, <2>2, <2>3, <2>4, <2>6, MovesOn
  <2>7. QED
    BY <2>5, <2>6
<1>5. QED
  BY <1>3, <1>4

(* Of a list the oldest comes first: when its pack is seen, the others of  *)
(* that pack have an older one.                                            *)
LEMMA DedupeKeeps ==
  ASSUME PubInv, PubTypeOK', NEW r \in Requests, Publishing!Dedupe(r)
  PROVE  PubInv'
<1>0. /\ run \in [Requests -> RunTypes] /\ queue \subseteq Intents /\ RunOK(r)
      /\ \A i \in run[r].list : i \in Intents /\ i.at <= written
      /\ \A i \in Intents : i.at \in Nat /\ i.pack \in Packs
      /\ \A i, j \in queue : i.at = j.at => i = j
  BY DEF PubInv, PubTypeOK, TimesDiffer, RunTypes, Intents
<1>1. PICK i \in run[r].list :
        /\ Publishing!Oldest(i, run[r].list)
        /\ queue' = IF Publishing!Seen(r, i) THEN queue \ {i} ELSE queue
        /\ run' = [run EXCEPT ![r].list = @ \ {i},
                              ![r].seen = IF i \in queue THEN @ \cup {i.pack} ELSE @]
  BY DEF Publishing!Dedupe
<1>2. /\ run'[r].list = run[r].list \ {i} /\ run'[r].step = "dedupe"
      /\ run'[r].seen = IF i \in queue THEN run[r].seen \cup {i.pack} ELSE run[r].seen
      /\ \A q \in Requests : q # r => run'[q] = run[q]
  <2> DEFINE x == [run[r] EXCEPT !.list = run[r].list \ {i},
                     !.seen = IF i \in queue THEN run[r].seen \cup {i.pack} ELSE run[r].seen]
  <2>1. run' = [run EXCEPT ![r] = x]
    BY <1>1
  <2>2. run[r] \in RunTypes /\ run[r].step = "dedupe"
    BY <1>0 DEF Publishing!Dedupe
  <2>3. /\ x.list = run[r].list \ {i} /\ x.step = "dedupe"
        /\ x.seen = IF i \in queue THEN run[r].seen \cup {i.pack} ELSE run[r].seen
    BY <2>2 DEF RunTypes
  <2> HIDE DEF x
  <2>4. QED
    BY <1>0, <2>1, <2>3
<1>3. CloudStays /\ written' = written
  BY DEF Publishing!Dedupe, CloudStays, Whole
<1>4. QueueStays
  <2>1. i \in queue /\ Publishing!Seen(r, i) => HasOlder(i)
    BY <1>0 DEF RunOK, SeenHaveOlder, Publishing!Dedupe, Publishing!Seen
  <2>2. QED
    BY <1>0, <1>1, <1>3, <2>1 DEF QueueStays
<1>5. ASSUME NEW k \in run'[r].list \cap queue', k.pack \in run'[r].seen
      PROVE  HasOlder(k)'
  <2>1. k \in run[r].list /\ k # i /\ k \in queue /\ k \in Intents
    BY <1>0, <1>1, <1>2, <1>5
  <2>2. CASE k.pack \in run[r].seen
    <3>1. HasOlder(k)
      BY <1>0, <2>1, <2>2 DEF RunOK, SeenHaveOlder, Publishing!Dedupe
    <3>2. QED
      BY <1>3, <1>4, <2>1, <3>1, QueueKeeps
  <2>3. CASE k.pack \notin run[r].seen
    <3>1. i \in queue /\ k.pack = i.pack /\ queue' = queue
      BY <1>1, <1>2, <1>5, <2>3 DEF Publishing!Seen
    <3>2. i.at < k.at
      <4>1. i.at <= k.at
        BY <1>1, <2>1 DEF Publishing!Oldest
      <4>2. i.at # k.at /\ i.at \in Nat /\ k.at \in Nat
        BY <1>0, <2>1, <3>1
      <4>3. QED
        BY <4>1, <4>2
    <3>3. QED
      BY <3>1, <3>2 DEF HasOlder
  <2>4. QED
    BY <2>2, <2>3
<1>6. RunOK(r)'
  BY <1>2, <1>5 DEF RunOK, CopiesMade, SeenHaveOlder, DeferredKept, Copying
<1>7. QED
  BY <1>0, <1>2, <1>3, <1>4, <1>6, OneRunKeeps

LEMMA ListSteps ==
  ASSUME PubInv, PubTypeOK', NEW r \in Requests,
         \/ Publishing!Publish(r) \/ Publishing!Flush(r)
         \/ Publishing!ListItems(r) \/ Publishing!FlushNext(r)
  PROVE  PubInv'
<1> USE DEF Copying
<1>0. /\ run \in [Requests -> RunTypes] /\ queue \subseteq Intents /\ local.pack \in Packs
      /\ local.reports \in Nat \ {0} /\ \A i \in queue : i.at <= written
      /\ \A i \in run[r].list : i.at <= written /\ i \in Intents
  BY DEF PubInv, PubTypeOK, TimesDiffer, RunTypes, Intents
<1>1. UNCHANGED <<queue, written, cloud>>
  BY DEF Publishing!Publish, Publishing!Flush, Publishing!ListItems, Publishing!FlushNext,
     Publishing!Take
<1>2. QueueStays /\ CloudStays
  BY <1>1 DEF QueueStays, CloudStays, Whole
<1>3. \A q \in Requests : q # r => run'[q] = run[q]
  BY <1>0 DEF Publishing!Publish, Publishing!Flush, Publishing!ListItems, Publishing!FlushNext,
     Publishing!Take
<1>4. CASE Publishing!Publish(r)
  <2>1. /\ run'[r].step = "copy" /\ run'[r].list = {}
        /\ run'[r].intent = [pack |-> local.pack, reports |-> local.reports, at |-> 0]
    BY <1>0, <1>4 DEF Publishing!Publish, Publishing!NoRun
  <2>2. RunOK(r)'
    BY <1>0, <2>1 DEF RunOK, CopiesMade, SeenHaveOlder, DeferredKept, Copied, Intents
  <2>3. QED
    BY <1>2, <1>3, <2>1, <2>2, OneRunKeeps
<1>5. CASE Publishing!Flush(r)
  <2>1. run'[r].step = "dedupe" /\ run'[r].list = queue /\ run'[r].seen = {}
    BY <1>0, <1>5 DEF Publishing!Flush, Publishing!NoRun
  <2>2. RunOK(r)'
    BY <2>1 DEF RunOK, CopiesMade, SeenHaveOlder, DeferredKept
  <2>3. QED
    BY <1>0, <1>1, <1>2, <1>3, <2>1, <2>2, OneRunKeeps
<1>6. CASE Publishing!ListItems(r)
  <2>1. run'[r].step = "flush" /\ run'[r].list = queue
    BY <1>0, <1>6 DEF Publishing!ListItems, RunTypes
  <2>2. RunOK(r)'
    BY <2>1 DEF RunOK, CopiesMade, SeenHaveOlder, DeferredKept
  <2>3. QED
    BY <1>0, <1>1, <1>2, <1>3, <2>1, <2>2, OneRunKeeps
<1>7. CASE Publishing!FlushNext(r)
  <2>1. PICK i \in run[r].list :
          run' = [run EXCEPT ![r].list = @ \ {i}, ![r].intent = i,
                             ![r].step = IF i \in queue THEN "copy" ELSE "flush"]
    BY <1>7 DEF Publishing!FlushNext, Publishing!Take
  <2>2. /\ run'[r].step \in {"copy", "flush"} /\ run'[r].list \subseteq run[r].list
        /\ run'[r].intent \in Intents
    BY <1>0, <2>1 DEF RunTypes
  <2>3. RunOK(r)'
    BY <2>2 DEF RunOK, CopiesMade, SeenHaveOlder, DeferredKept, Copied
  <2>4. QED
    BY <1>0, <1>1, <1>2, <1>3, <2>2, <2>3, OneRunKeeps
<1>8. QED
  BY <1>4, <1>5, <1>6, <1>7

LEMMA OtherSteps ==
  ASSUME PubInv, PubTypeOK', NEW r \in Requests,
         Publishing!Die(r) \/ Publishing!CopyFails(r) \/ Publishing!FlushDone(r)
  PROVE  PubInv'
<1> USE DEF PubSteps, Copying, Publishing!Over
<1>1. QueueStays /\ CloudStays
  BY DEF QueueStays, CloudStays, Whole, Publishing!Die, Publishing!CopyFails, Publishing!FlushDone
<1>2. PICK s \in {"died", "scan", "flush", "flushed"} :
        Publishing!Goto(r, s) /\ (s = "scan" => run[r].step \in Copying)
  BY DEF Publishing!Die, Publishing!CopyFails, Publishing!FlushDone
<1>3. s = "scan" => run[r].intent \in Intents /\ Copied(s) = {}
  BY <1>2 DEF PubInv, RunOK, CopiesMade, Copied
<1>4. QED
  BY <1>1, <1>2, <1>3, MovesOn

LEMMA PubInductive == PubInv /\ Publishing!Next => PubInv'
<1> SUFFICES ASSUME PubInv, Publishing!Next PROVE PubInv'
  OBVIOUS
<1>1. PubTypeOK'
  BY PubKeepsType
<1>2. CASE Publishing!Produce
  <2>1. UNCHANGED <<queue, written, cloud, run>>
    BY <1>2 DEF Publishing!Produce
  <2>2. QED
    BY <1>1, <2>1 DEF PubInv, TimesDiffer, RunOK, CopiesMade, SeenHaveOlder, DeferredKept, Whole,
       Kept, HasOlder
<1>3. QED
  BY <1>1, <1>2, DirectorySteps, CopySteps, DedupeKeeps, ListSteps, OtherSteps DEF Publishing!Next

LEMMA PubStutters == PubInv /\ UNCHANGED Publishing!vars => PubInv'
  BY DEF PubInv, PubTypeOK, TimesDiffer, RunOK, CopiesMade, SeenHaveOlder, DeferredKept, Whole, Kept,
     HasOlder, Publishing!vars

LEMMA PubImplies == PubInv => Publishing!DeferredIsKept
  BY DEF PubInv, RunOK, DeferredKept, Kept, Whole, Publishing!DeferredIsKept

(* Whichever runs publish, dedupe and flush at once or die, what a publish *)
(* deferred is queued or has been copied whole.                            *)
THEOREM NothingDeferredIsLost == AllSpec => []DeferredIsKept
<1> DEFINE I == part = "publishing" => PubInv
<1>1. AllInit => I
  BY PubInitially, OutreachAssumption DEF AllInit
<1>2. I /\ [AllNext]_allVars => I'
  BY PubInductive, PubStutters DEF AllNext, allVars, publishVars, Publishing!vars
<1>3. I => DeferredIsKept
  BY PubImplies DEF DeferredIsKept
<1>4. QED
  BY <1>1, <1>2, <1>3, PTL DEF AllSpec

-----------------------------------------------------------------------------
(* What the assistant remembers.                                           *)

RowTypes == [id : Memory!Values \X Packs, key : Packs, value : Memory!Values]

MemOps   == {"none", "extract", "remember", "delete", "clear", "list", "recall", "prompt",
             "profile", "prefer"}
MemSteps == {"none", "model", "find", "write", "delete", "read", "profile", "count",
             "synthesize", "save", "preference", "setPreference"} \cup Memory!Over

Held == (Memory!Values \X Packs) \cup Memory!Profiles \cup Memory!Preferences \cup {Nothing}

JobTypes ==
  [op : MemOps, step : MemSteps, facts : Seq(Packs), n : Nat \ {0}, row : Held,
   fields : SUBSET Signals, seen : SUBSET (Packs \X Memory!Values)]

MemTypeOK ==
  /\ memory \in Seq(RowTypes)
  /\ preference \in Memory!Preferences \cup {Nothing}
  /\ profile \in Memory!Profiles \cup {Nothing}
  /\ job \in [Requests -> JobTypes]
  /\ earlier \in [Requests -> SUBSET Requests]

RowsNamed == \A i \in DOMAIN memory : memory[i].id[2] = memory[i].key

(* Which steps a call takes, and what it holds in them.                    *)
SingleOps == {"remember", "delete", "recall"}

JobPlaced(c) ==
  /\ job[c].step = "none" <=> job[c].op = "none"
  /\ job[c].step = "model" => job[c].op = "extract"
  /\ job[c].step \in {"none", "model"} =>
       job[c].facts = <<>> /\ job[c].n = 1 /\ job[c].fields = {}
  /\ job[c].step \in {"find", "write"} =>
       job[c].op \in {"extract", "remember"} /\ job[c].n <= Len(job[c].facts)
  /\ job[c].step = "delete" => job[c].op \in {"delete", "clear"}
  /\ job[c].step = "read" => job[c].op \in {"list", "recall", "prompt", "profile"}
  /\ job[c].step = "profile" => job[c].op \in {"prompt", "profile"}
  /\ job[c].step \in {"count", "synthesize", "save"} => job[c].op = "profile"
  /\ job[c].step \in {"preference", "setPreference"} => job[c].op = "prefer"
  /\ job[c].op \in SingleOps => job[c].n = 1 /\ Len(job[c].facts) = 1

JobHolds(c) ==
  /\ job[c].step = "write" /\ job[c].row # Nothing => job[c].row[2] = Memory!Key(c)
  /\ job[c].op = "profile" => job[c].row \in Memory!Profiles \cup {Nothing}
  /\ job[c].step = "count" => job[c].row # Nothing /\ profile # Nothing
  /\ job[c].step = "setPreference" /\ job[c].row # Nothing => preference # Nothing

EarlierAreOver ==
  \A c \in Requests : \A d \in earlier[c] :
    job[d].step \in Memory!Over /\ job[c].step # "none"

(* Whoever may write or remove a key knows it: Memory!Touches without the  *)
(* extractions whose model has yet to answer.                              *)
MayWrite(c, k) ==
  \/ job[c].op = "clear"
  \/ /\ job[c].op \in {"remember", "delete", "extract"}
     /\ \E i \in DOMAIN job[c].facts : job[c].facts[i] = k

Alone(c, k) == \A d \in Requests \ {c} : MayWrite(d, k) => d \in earlier[c]

(* While none but earlier calls may write its key, the row that a call     *)
(* found stays, and so does what it wrote.                                 *)
Remembered(c) ==
  job[c].op = "remember" /\ Alone(c, Memory!Key(c)) =>
    /\ job[c].step = "write" /\ job[c].row # Nothing =>
         \E i \in DOMAIN memory : memory[i].id = job[c].row
    /\ job[c].step = "returned" =>
         \E i \in DOMAIN memory : memory[i].key = Memory!Key(c) /\ memory[i].value = c

SetsLast(c, f) == \A d \in Requests \ {c} : f \in job[d].fields => d \in earlier[c]

Preferred(c) ==
  job[c].op = "prefer" /\ job[c].step = "returned" =>
    \A f \in job[c].fields : SetsLast(c, f) => preference # Nothing /\ preference[f] = c

(* Of what was there before memories were cleared nothing is in a row, in  *)
(* what a later call has seen, in a profile it made.                       *)
Fresh(v, c) == v \notin earlier[c] \cup {Former}

Cleared(c) ==
  job[c].op = "clear" /\ job[c].step = "returned" =>
    /\ \A i \in DOMAIN memory : Fresh(memory[i].value, c)
    /\ \A d \in Requests : c \in earlier[d] => \A b \in job[d].seen : Fresh(b[2], c)
    /\ profile # Nothing /\ profile.by # Former =>
         (c \in earlier[profile.by] => \A b \in profile.basis : Fresh(b[2], c))

MadeByCall == profile # Nothing /\ profile.by # Former => job[profile.by].op = "profile"

JobOK(c) ==
  JobPlaced(c) /\ JobHolds(c) /\ Remembered(c) /\ Preferred(c) /\ Cleared(c)

MemInv ==
  MemTypeOK /\ RowsNamed /\ EarlierAreOver /\ MadeByCall /\ \A c \in Requests : JobOK(c)

-----------------------------------------------------------------------------
LEMMA MemInitially == Memory!MemoryAssumption /\ Memory!Init => MemInv
<1> SUFFICES ASSUME Memory!MemoryAssumption, Memory!Init PROVE MemInv
  OBVIOUS
<1>1. Memory!NoCall \in JobTypes
  BY DEF Memory!NoCall, JobTypes, MemOps, MemSteps, Held
<1>2. \A c \in Requests : job[c] = Memory!NoCall /\ earlier[c] = {}
  BY DEF Memory!Init
<1>3. memory \in Seq(RowTypes) /\ RowsNamed /\ profile \in Memory!Profiles \cup {Nothing}
  <2>1. CASE memory = <<>> /\ profile = Nothing
    BY <2>1 DEF RowsNamed
  <2>2. CASE \E k \in Packs : /\ memory = <<[id |-> <<Former, k>>, key |-> k, value |-> Former]>>
                              /\ profile = [basis |-> {<<k, Former>>}, by |-> Former, count |-> 2]
    <3>1. PICK k \in Packs : /\ memory = <<[id |-> <<Former, k>>, key |-> k, value |-> Former]>>
                             /\ profile = [basis |-> {<<k, Former>>}, by |-> Former, count |-> 2]
      BY <2>2
    <3> DEFINE m == [id |-> <<Former, k>>, key |-> k, value |-> Former]
    <3>2. m \in RowTypes /\ m.id[2] = m.key
      BY DEF RowTypes, Memory!Values
    <3>3. profile \in Memory!Profiles
      BY <3>1 DEF Memory!Profiles, Memory!Values
    <3>4. memory = <<m>>
      BY <3>1
    <3> HIDE DEF m
    <3>5. memory \in Seq(RowTypes) /\ RowsNamed
      BY <3>2, <3>4 DEF RowsNamed
    <3>6. QED
      BY <3>3, <3>5
  <2>3. QED
    BY <2>1, <2>2 DEF Memory!Init
<1>4. MemTypeOK /\ EarlierAreOver
  BY <1>1, <1>2, <1>3 DEF Memory!Init, MemTypeOK, EarlierAreOver
<1>5. \A c \in Requests : JobOK(c)
  BY <1>2 DEF JobOK, JobPlaced, JobHolds, Remembered, Preferred, Cleared, Memory!NoCall, SingleOps
<1>6. MadeByCall
  <2>1. profile # Nothing => profile.by = Former
    BY DEF Memory!Init
  <2>2. QED
    BY <2>1 DEF MadeByCall
<1>7. QED
  BY <1>3, <1>4, <1>5, <1>6 DEF MemInv

-----------------------------------------------------------------------------
(* What a step of a call does to the tables and to the call itself.        *)
RowsMove(c) ==
  /\ memory' \in Seq(RowTypes)
  /\ \A j \in DOMAIN memory' :
       \/ \E i \in DOMAIN memory : memory'[j] = memory[i]
       \/ memory'[j].value = c /\ memory'[j].id[2] = memory'[j].key
  /\ \A i \in DOMAIN memory : (\E j \in DOMAIN memory' : memory'[j] = memory[i])
                              \/ MayWrite(c, memory[i].key)

ProfileMoves(c) ==
  \/ profile' = profile
  \/ /\ profile # Nothing /\ profile' \in Memory!Profiles
     /\ profile'.basis = profile.basis /\ profile'.by = profile.by
  \/ /\ profile' \in Memory!Profiles /\ job[c].op = "profile"
     /\ profile'.basis = job[c].seen /\ profile'.by = c

PreferenceMoves(c) ==
  \/ preference' = preference
  \/ /\ preference' \in Memory!Preferences
     /\ preference # Nothing => \A f \in Signals \ job[c].fields : preference'[f] = preference[f]

CallMoves(c, new) ==
  /\ job' = [job EXCEPT ![c] = new] /\ new \in JobTypes
  /\ new.op = job[c].op /\ new.fields = job[c].fields
  /\ new.facts = job[c].facts \/ job[c].step = "model"
  /\ \A b \in new.seen : b \in job[c].seen \/ \E i \in DOMAIN memory : b[2] = memory[i].value
  /\ job[c].step \notin Memory!Over \cup {"none"}
  /\ UNCHANGED earlier

Moves(c) ==
  /\ RowsMove(c) /\ ProfileMoves(c) /\ PreferenceMoves(c)
  /\ \E new \in JobTypes : CallMoves(c, new)

(* What of the invariant is about the call that moves.                     *)
OwnOK(c) ==
  /\ JobPlaced(c)' /\ JobHolds(c)' /\ Remembered(c)' /\ Preferred(c)'
  /\ job'[c].op = "clear" /\ job'[c].step = "returned" => memory' = <<>>

LEMMA SeqDomain ==
  ASSUME NEW S, NEW s \in Seq(S)
  PROVE  DOMAIN s = 1..Len(s) /\ Len(s) \in Nat /\ \A i \in DOMAIN s : s[i] \in S
  OBVIOUS

LEMMA MovesFacts ==
  ASSUME Memory!MemoryAssumption, MemInv, NEW c \in Requests, Moves(c), NEW d \in Requests, d # c
  PROVE  /\ job'[d] = job[d] /\ earlier' = earlier
         /\ job'[c].op = job[c].op /\ job'[c].fields = job[c].fields
         /\ \A k \in Packs : MayWrite(c, k) => MayWrite(c, k)'
         /\ \A e \in Requests \ {c}, k \in Packs : MayWrite(e, k)' <=> MayWrite(e, k)
         /\ c \notin earlier[d]
<1>1. PICK new \in JobTypes : CallMoves(c, new)
  BY DEF Moves
<1>2. job'[c] = new /\ \A e \in Requests \ {c} : job'[e] = job[e]
  BY <1>1 DEF CallMoves, MemInv, MemTypeOK
<1>3. job[c].step = "model" => job[c].facts = <<>> /\ job[c].op = "extract"
  BY DEF MemInv, JobOK, JobPlaced
<1>4. \A k \in Packs : MayWrite(c, k) => MayWrite(c, k)'
  BY <1>1, <1>2, <1>3 DEF MayWrite, CallMoves
<1>5. \A e \in Requests \ {c}, k \in Packs : MayWrite(e, k)' <=> MayWrite(e, k)
  BY <1>2 DEF MayWrite
<1>6. c \notin earlier[d]
  BY <1>1 DEF CallMoves, MemInv, EarlierAreOver
<1>7. QED
  BY <1>1, <1>2, <1>4, <1>5, <1>6 DEF CallMoves

LEMMA MovesKeepOthers ==
  ASSUME Memory!MemoryAssumption, MemInv, NEW c \in Requests, Moves(c), NEW d \in Requests, d # c
  PROVE  JobPlaced(d)' /\ JobHolds(d)' /\ Remembered(d)' /\ Preferred(d)'
<1> DEFINE k == Memory!Key(d)
<1>0. /\ job'[d] = job[d] /\ Memory!Key(d)' = Memory!Key(d) /\ earlier' = earlier
      /\ job'[c].op = job[c].op /\ job'[c].fields = job[c].fields
      /\ c \notin earlier[d]
  BY MovesFacts DEF Memory!Key
<1>A. ASSUME NEW x \in Packs
       PROVE  /\ \A e \in Requests \ {c} : MayWrite(e, x)' <=> MayWrite(e, x)
              /\ MayWrite(c, x) => MayWrite(c, x)'
  BY MovesFacts
<1>1. JobPlaced(d)'
  BY <1>0 DEF MemInv, JobOK, JobPlaced
<1>2. (profile # Nothing => profile' # Nothing) /\ (preference # Nothing => preference' # Nothing)
  BY DEF Moves, ProfileMoves, PreferenceMoves, Memory!MemoryAssumption
<1>3. JobHolds(d)'
  BY <1>0, <1>2 DEF MemInv, JobOK, JobHolds
<1>4. Remembered(d)'
  <2> SUFFICES ASSUME job[d].op = "remember", Alone(d, Memory!Key(d))' PROVE
        /\ job[d].step = "write" /\ job[d].row # Nothing =>
             \E j \in DOMAIN memory' : memory'[j].id = job[d].row
        /\ job[d].step = "returned" =>
             \E j \in DOMAIN memory' : memory'[j].key = k /\ memory'[j].value = d
    BY <1>0 DEF Remembered
  <2>1. k \in Packs
    <3>1. job[d] \in JobTypes /\ job[d].n = 1 /\ Len(job[d].facts) = 1
      BY DEF MemInv, MemTypeOK, JobOK, JobPlaced, SingleOps
    <3>2. job[d].facts \in Seq(Packs)
      BY <3>1 DEF JobTypes
    <3>3. QED
      BY <3>1, <3>2, SeqDomain DEF Memory!Key
  <2>2. PICK x \in Packs : x = k
    BY <2>1
  <2>3. x = Memory!Key(d)
    BY <2>2
  <2> HIDE DEF k
  <2>4. \A e \in Requests \ {d} : MayWrite(e, x)' => e \in earlier[d]
    BY <1>0, <2>3 DEF Alone
  <2>5. ~MayWrite(c, x) /\ Alone(d, Memory!Key(d))
    <3>1. ~MayWrite(c, x)
      BY <1>0, <1>A, <2>4
    <3>2. \A e \in Requests \ {d} : MayWrite(e, x) => e \in earlier[d]
      BY <1>A, <2>4, <3>1
    <3>3. QED
      BY <2>3, <3>1, <3>2 DEF Alone
  <2>6. \A i \in DOMAIN memory : memory[i].key = k => \E j \in DOMAIN memory' : memory'[j] = memory[i]
    BY <2>2, <2>5 DEF Moves, RowsMove
  <2>7. Remembered(d) /\ JobHolds(d) /\ RowsNamed
    BY DEF MemInv, JobOK
  <2>8. CASE job[d].step = "write" /\ job[d].row # Nothing
    <3>1. PICK i \in DOMAIN memory : memory[i].id = job[d].row
      BY <2>5, <2>7, <2>8 DEF Remembered
    <3>2. memory[i].key = k
      BY <2>2, <2>3, <2>7, <2>8, <3>1 DEF JobHolds, RowsNamed
    <3>3. QED
      BY <2>6, <2>8, <3>1, <3>2
  <2>9. CASE job[d].step = "returned"
    <3>1. PICK i \in DOMAIN memory : memory[i].key = k /\ memory[i].value = d
      BY <2>2, <2>3, <2>5, <2>7, <2>9 DEF Remembered
    <3>2. QED
      BY <2>6, <2>9, <3>1
  <2>10. QED
    BY <2>8, <2>9
<1>5. Preferred(d)'
  <2> SUFFICES ASSUME job[d].op = "prefer", job[d].step = "returned",
                      NEW f \in job[d].fields, SetsLast(d, f)'
               PROVE  preference' # Nothing /\ preference'[f] = d
    BY <1>0 DEF Preferred
  <2>1. \A e \in Requests \ {d} : f \in job'[e].fields => e \in earlier[d]
    BY <1>0 DEF SetsLast
  <2>2. f \notin job[c].fields
    BY <1>0, <2>1
  <2>3. \A e \in Requests \ {c} : job'[e] = job[e]
    BY MovesFacts
  <2>4. SetsLast(d, f)
    BY <2>1, <2>2, <2>3 DEF SetsLast
  <2>5. preference # Nothing /\ preference[f] = d
    BY <2>4 DEF MemInv, JobOK, Preferred
  <2>6. f \in Signals
    BY DEF MemInv, MemTypeOK, JobTypes
  <2>7. CASE preference' = preference
    BY <2>5, <2>7
  <2>8. CASE preference' # preference
    BY <1>2, <2>2, <2>5, <2>6, <2>8 DEF Moves, PreferenceMoves
  <2>9. QED
    BY <2>7, <2>8
<1>6. QED
  BY <1>1, <1>3, <1>4, <1>5

LEMMA MovesKeepCleared ==
  ASSUME Memory!MemoryAssumption, MemInv, NEW c \in Requests, Moves(c), NEW d \in Requests,
         job'[c].op = "clear" /\ job'[c].step = "returned" => memory' = <<>>
  PROVE  Cleared(d)'
<1>1. PICK new \in JobTypes : CallMoves(c, new)
  BY DEF Moves
<1>2. job'[c] = new /\ \A e \in Requests \ {c} : job'[e] = job[e]
  BY <1>1 DEF CallMoves, MemInv, MemTypeOK
<1>3. /\ earlier' = earlier /\ \A e \in Requests : c \notin earlier[e]
      /\ job \in [Requests -> JobTypes] /\ memory \in Seq(RowTypes)
  BY <1>1 DEF CallMoves, MemInv, MemTypeOK, EarlierAreOver
<1>4. c # Former
  BY DEF Memory!MemoryAssumption
<1> SUFFICES ASSUME job'[d].op = "clear", job'[d].step = "returned"
             PROVE  /\ \A j \in DOMAIN memory' : Fresh(memory'[j].value, d)
                    /\ \A e \in Requests : d \in earlier[e] => \A b \in job'[e].seen : Fresh(b[2], d)
                    /\ profile' # Nothing /\ profile'.by # Former =>
                         (d \in earlier[profile'.by] => \A b \in profile'.basis : Fresh(b[2], d))
  BY <1>3 DEF Cleared, Fresh
<1>5. CASE d = c
  <2>1. profile' \in Memory!Profiles /\ profile'.by # Former => profile'.by \in Requests
    BY DEF Memory!Profiles, Memory!Values
  <2>2. profile' \in Memory!Profiles \cup {Nothing}
    BY DEF Moves, ProfileMoves, MemInv, MemTypeOK
  <2>3. QED
    BY <1>3, <1>5, <2>1, <2>2
<1>6. CASE d # c
  <2>1. job[d].op = "clear" /\ job[d].step = "returned" /\ Cleared(d)
    BY <1>2, <1>6 DEF MemInv, JobOK
  <2>2. Fresh(c, d)
    BY <1>3, <1>4 DEF Fresh
  <2>3. \A i \in DOMAIN memory : Fresh(memory[i].value, d)
    BY <2>1 DEF Cleared
  <2>4. \A j \in DOMAIN memory' : Fresh(memory'[j].value, d)
    BY <2>2, <2>3 DEF Moves, RowsMove
  <2>5. \A e \in Requests : d \in earlier[e] => \A b \in job[e].seen : Fresh(b[2], d)
    BY <2>1 DEF Cleared
  <2>6. \A e \in Requests : d \in earlier[e] => \A b \in job'[e].seen : Fresh(b[2], d)
    BY <1>1, <1>2, <2>3, <2>5 DEF CallMoves
  <2>7. profile' # Nothing /\ profile'.by # Former =>
          (d \in earlier[profile'.by] => \A b \in profile'.basis : Fresh(b[2], d))
    BY <2>1, <2>5 DEF Moves, ProfileMoves, Cleared
  <2>8. QED
    BY <2>4, <2>6, <2>7
<1>7. QED
  BY <1>5, <1>6

LEMMA MovesKeep ==
  ASSUME Memory!MemoryAssumption, MemInv, NEW c \in Requests, Moves(c), OwnOK(c)
  PROVE  MemInv'
<1>1. PICK new \in JobTypes : CallMoves(c, new)
  BY DEF Moves
<1>2. MemTypeOK'
  <2>1. memory' \in Seq(RowTypes) /\ profile' \in Memory!Profiles \cup {Nothing}
        /\ preference' \in Memory!Preferences \cup {Nothing}
    BY DEF Moves, RowsMove, ProfileMoves, PreferenceMoves, MemInv, MemTypeOK
  <2>2. job' \in [Requests -> JobTypes] /\ earlier' = earlier
    BY <1>1 DEF CallMoves, MemInv, MemTypeOK
  <2>3. QED
    BY <2>1, <2>2 DEF MemTypeOK, MemInv
<1>3. RowsNamed'
  BY DEF Moves, RowsMove, RowsNamed, MemInv
<1>4. EarlierAreOver'
  <2>1. job'[c] = new /\ \A e \in Requests \ {c} : job'[e] = job[e]
    BY <1>1 DEF CallMoves, MemInv, MemTypeOK
  <2>2. job'[c].step # "none"
    BY <1>1, <2>1 DEF OwnOK, JobPlaced, CallMoves, MemInv, JobOK
  <2>3. QED
    BY <1>1, <2>1, <2>2 DEF EarlierAreOver, CallMoves, MemInv, MemTypeOK
<1>5. \A d \in Requests : Cleared(d)'
  BY MovesKeepCleared DEF OwnOK
<1>6. \A d \in Requests : JobPlaced(d)' /\ JobHolds(d)' /\ Remembered(d)' /\ Preferred(d)'
  BY MovesKeepOthers DEF OwnOK
<1>7. MadeByCall'
  <2>1. \A d \in Requests : job'[d].op = job[d].op
    BY <1>1 DEF CallMoves, MemInv, MemTypeOK
  <2>2. profile # Nothing /\ profile.by # Former =>
          profile.by \in Requests /\ job[profile.by].op = "profile"
    BY DEF MemInv, MemTypeOK, MadeByCall, Memory!Profiles, Memory!Values
  <2>3. QED
    BY <2>1, <2>2 DEF Moves, ProfileMoves, MadeByCall
<1>8. QED
  BY <1>2, <1>3, <1>4, <1>5, <1>6, <1>7 DEF MemInv, JobOK

-----------------------------------------------------------------------------
(* Every step of a call moves it, and leaves it as it should be.           *)
NoFurther == UNCHANGED <<memory, preference, profile>>

LEMMA StillMoves ==
  ASSUME MemInv, NEW c \in Requests, memory' = memory
  PROVE  RowsMove(c)
  BY DEF RowsMove, MemInv, MemTypeOK

LEMMA JobTyped ==
  ASSUME MemInv, NEW c \in Requests
  PROVE  /\ job[c] \in JobTypes /\ job[c].facts \in Seq(Packs) /\ JobOK(c)
         /\ DOMAIN job[c].facts = 1..Len(job[c].facts) /\ Len(job[c].facts) \in Nat
         /\ \A i \in DOMAIN job[c].facts : job[c].facts[i] \in Packs
<1>1. job[c] \in JobTypes /\ JobOK(c)
  BY DEF MemInv, MemTypeOK
<1>2. job[c].facts \in Seq(Packs)
  BY <1>1 DEF JobTypes
<1>3. QED
  BY <1>1, <1>2, SeqDomain

(* A call whose record alone changes, its operation, fields and facts not. *)
LEMMA CallOnly ==
  ASSUME MemInv, NEW c \in Requests, NEW new \in JobTypes,
         job' = [job EXCEPT ![c] = new], UNCHANGED earlier,
         new.op = job[c].op, new.fields = job[c].fields, new.facts = job[c].facts,
         new.seen \subseteq job[c].seen,
         job[c].step \notin Memory!Over \cup {"none"}
  PROVE  CallMoves(c, new) /\ job'[c] = new
  BY DEF CallMoves, MemInv, MemTypeOK

LEMMA ExtractMoves ==
  ASSUME MemInv, NEW c \in Requests, Memory!Extract(c)
  PROVE  Moves(c) /\ OwnOK(c)
<1>1. job[c] \in JobTypes /\ JobPlaced(c) /\ job[c].op = "extract" /\ job[c].step = "model"
  BY JobTyped DEF JobOK, Memory!Extract, Memory!Is
<1>2. /\ UNCHANGED <<memory, preference, profile, earlier>>
      /\ RowsMove(c) /\ ProfileMoves(c) /\ PreferenceMoves(c)
  BY StillMoves DEF Memory!Extract, Memory!tables, ProfileMoves, PreferenceMoves
<1>3. CASE Memory!Goto(c, "returned")
  <2> DEFINE new == [job[c] EXCEPT !.step = "returned"]
  <2>1. new \in JobTypes /\ job' = [job EXCEPT ![c] = new]
    BY <1>1, <1>3 DEF Memory!Goto, JobTypes, MemSteps, Memory!Over
  <2>2. /\ new.op = job[c].op /\ new.fields = job[c].fields /\ new.facts = job[c].facts
        /\ new.seen = job[c].seen /\ new.step = "returned" /\ new.n = job[c].n
    BY <1>1 DEF JobTypes
  <2> HIDE DEF new
  <2>3. CallMoves(c, new) /\ job'[c] = new
    BY <1>1, <1>2, <2>1, <2>2, CallOnly DEF Memory!Over
  <2>4. OwnOK(c)
    BY <1>1, <2>2, <2>3 DEF OwnOK, JobPlaced, JobHolds, Remembered, Preferred, SingleOps
  <2>5. QED
    BY <1>2, <2>1, <2>3, <2>4 DEF Moves
<1>4. CASE \E n \in 1..MaxFacts : \E facts \in [1..n -> Packs] :
             job' = [job EXCEPT ![c].facts = facts, ![c].step = "find"]
  <2>1. PICK n \in 1..MaxFacts : \E facts \in [1..n -> Packs] :
          job' = [job EXCEPT ![c].facts = facts, ![c].step = "find"]
    BY <1>4
  <2>2. PICK facts \in [1..n -> Packs] :
          job' = [job EXCEPT ![c].facts = facts, ![c].step = "find"]
    BY <2>1
  <2>3. facts \in Seq(Packs) /\ Len(facts) = n
    OBVIOUS
  <2> DEFINE new == [job[c] EXCEPT !.facts = facts, !.step = "find"]
  <2>4. new \in JobTypes /\ job' = [job EXCEPT ![c] = new]
    BY <1>1, <2>2, <2>3 DEF JobTypes, MemSteps
  <2>5. /\ new.op = job[c].op /\ new.fields = job[c].fields /\ new.facts = facts
        /\ new.seen = job[c].seen /\ new.step = "find" /\ new.n = job[c].n
    BY <1>1 DEF JobTypes
  <2> HIDE DEF new
  <2>6. CallMoves(c, new) /\ job'[c] = new
    BY <1>1, <1>2, <2>4, <2>5 DEF CallMoves, MemInv, MemTypeOK, Memory!Over
  <2>7. OwnOK(c)
    BY <1>1, <2>3, <2>5, <2>6 DEF OwnOK, JobPlaced, JobHolds, Remembered, Preferred, SingleOps
  <2>8. QED
    BY <1>2, <2>4, <2>6, <2>7 DEF Moves
<1>5. QED
  BY <1>3, <1>4 DEF Memory!Extract

LEMMA FindMoves ==
  ASSUME MemInv, NEW c \in Requests, Memory!Find(c)
  PROVE  Moves(c) /\ OwnOK(c)
<1> DEFINE k == Memory!Key(c)
           row == IF Memory!RowOf(k) = {} THEN Nothing
                  ELSE (CHOOSE m \in Memory!RowOf(k) : TRUE).id
           new == [job[c] EXCEPT !.step = "write", !.row = row]
<1>1. /\ job[c] \in JobTypes /\ JobPlaced(c) /\ job[c].step = "find"
      /\ job[c].op \in {"extract", "remember"} /\ k \in Packs
  BY JobTyped DEF JobOK, JobPlaced, Memory!Find, Memory!Key, JobTypes
<1>2. /\ UNCHANGED <<memory, preference, profile, earlier>>
      /\ RowsMove(c) /\ ProfileMoves(c) /\ PreferenceMoves(c)
  BY StillMoves DEF Memory!Find, Memory!tables, ProfileMoves, PreferenceMoves
<1>3. row = Nothing \/ \E i \in DOMAIN memory : memory[i].id = row /\ memory[i].key = k
  BY DEF Memory!RowOf, Memory!Rows
<1>4. row \in Held /\ (row # Nothing => row[2] = k)
  <2>1. \A i \in DOMAIN memory : memory[i] \in RowTypes /\ memory[i].id[2] = memory[i].key
    BY SeqDomain DEF MemInv, MemTypeOK, RowsNamed
  <2>2. QED
    BY <1>3, <2>1 DEF RowTypes, Held
<1>5. job' = [job EXCEPT ![c] = new]
  BY DEF Memory!Find
<1> HIDE DEF row
<1>6. /\ new \in JobTypes /\ new.op = job[c].op /\ new.fields = job[c].fields
      /\ new.facts = job[c].facts /\ new.seen = job[c].seen /\ new.n = job[c].n
      /\ new.step = "write" /\ new.row = row
  BY <1>1, <1>4 DEF JobTypes, MemSteps
<1> HIDE DEF new
<1>7. CallMoves(c, new) /\ job'[c] = new
  BY <1>1, <1>2, <1>5, <1>6, CallOnly DEF Memory!Over
<1>8. Memory!Key(c)' = k
  BY <1>6, <1>7 DEF Memory!Key
<1>9. OwnOK(c)
  BY <1>1, <1>2, <1>3, <1>4, <1>6, <1>7, <1>8 DEF OwnOK, JobPlaced, JobHolds, Remembered, Preferred,
     SingleOps
<1>10. QED
  BY <1>2, <1>6, <1>7, <1>9 DEF Moves

(* Only rows of S are gone from what is left without them.                 *)
LEMMA WithoutFacts ==
  ASSUME memory \in Seq(RowTypes), NEW S
  PROVE  /\ Memory!Without(S) \in Seq(RowTypes)
         /\ \A j \in DOMAIN Memory!Without(S) :
              \E i \in DOMAIN memory : Memory!Without(S)[j] = memory[i]
         /\ \A i \in DOMAIN memory :
              memory[i] \in S \/ \E j \in DOMAIN Memory!Without(S) : Memory!Without(S)[j] = memory[i]
<1> DEFINE at == CHOOSE i \in DOMAIN memory : memory[i] \in S
           left == [j \in 1..Len(memory) - 1 |-> memory[IF j < at THEN j ELSE j + 1]]
<1>1. CASE S \cap Memory!Rows = {}
  BY <1>1 DEF Memory!Without
<1>2. CASE S \cap Memory!Rows # {}
  <2>1. Memory!Without(S) = left
    BY <1>2 DEF Memory!Without
  <2>2. at \in DOMAIN memory /\ memory[at] \in S
    BY <1>2 DEF Memory!Rows
  <2>3. DOMAIN memory = 1..Len(memory) /\ Len(memory) \in Nat
        /\ \A i \in DOMAIN memory : memory[i] \in RowTypes
    BY SeqDomain
  <2>4. PICK a \in 1..Len(memory) : a = at
    BY <2>2, <2>3
  <2>5. left = [j \in 1..Len(memory) - 1 |-> memory[IF j < a THEN j ELSE j + 1]]
    BY <2>4
  <2> HIDE DEF at, left
  <2>6. left \in [1..Len(memory) - 1 -> RowTypes] /\ Len(memory) - 1 \in Nat
    BY <2>3, <2>5
  <2>7. left \in Seq(RowTypes) /\ DOMAIN left = 1..Len(memory) - 1
    BY <2>6
  <2>8. \A j \in DOMAIN left : \E i \in DOMAIN memory : left[j] = memory[i]
    BY <2>3, <2>5, <2>7
  <2>9. ASSUME NEW i \in DOMAIN memory, memory[i] \notin S
        PROVE  \E j \in DOMAIN left : left[j] = memory[i]
    <3>1. i # a
      BY <2>2, <2>4, <2>9
    <3>2. CASE i < a
      <4>1. i \in DOMAIN left /\ left[i] = memory[i]
        BY <2>3, <2>5, <2>7, <3>2
      <4>2. QED
        BY <4>1
    <3>3. CASE i > a
      <4>1. i - 1 \in DOMAIN left /\ left[i - 1] = memory[i]
        BY <2>3, <2>5, <2>7, <3>3
      <4>2. QED
        BY <4>1
    <3>4. QED
      BY <2>3, <3>1, <3>2, <3>3
  <2>10. QED
    BY <2>1, <2>7, <2>8, <2>9
<1>3. QED
  BY <1>1, <1>2

LEMMA AppendFacts ==
  ASSUME NEW s \in Seq(RowTypes), NEW m \in RowTypes
  PROVE  /\ Append(s, m) \in Seq(RowTypes)
         /\ \A j \in DOMAIN Append(s, m) :
              Append(s, m)[j] = m \/ \E i \in DOMAIN s : Append(s, m)[j] = s[i]
         /\ \A i \in DOMAIN s : \E j \in DOMAIN Append(s, m) : Append(s, m)[j] = s[i]
         /\ \E j \in DOMAIN Append(s, m) : Append(s, m)[j] = m
<1>1. /\ Append(s, m) \in Seq(RowTypes) /\ DOMAIN s = 1..Len(s) /\ DOMAIN Append(s, m) = 1..Len(s) + 1
      /\ Len(s) \in Nat /\ Append(s, m)[Len(s) + 1] = m
      /\ \A i \in 1..Len(s) : Append(s, m)[i] = s[i]
  OBVIOUS
<1>2. Len(s) + 1 \in DOMAIN Append(s, m) /\ \A i \in DOMAIN s : i \in DOMAIN Append(s, m)
  BY <1>1
<1>3. \A j \in DOMAIN Append(s, m) : j \in DOMAIN s \/ j = Len(s) + 1
  BY <1>1
<1>4. QED
  BY <1>1, <1>2, <1>3

(* What a write leaves in the table: an insert or an update is of the      *)
(* writer's value, and only a row of its key goes.                         *)
Stores(s, k, row, c) ==
  /\ s \in Seq(RowTypes)
  /\ \A j \in DOMAIN s :
       \/ \E i \in DOMAIN memory : s[j] = memory[i]
       \/ s[j].value = c /\ s[j].key = k /\ s[j].id[2] = k
  /\ \A i \in DOMAIN memory : memory[i].key = k \/ \E j \in DOMAIN s : s[j] = memory[i]
  /\ \/ \E j \in DOMAIN s : s[j].key = k /\ s[j].value = c
     \/ row # Nothing /\ \A i \in DOMAIN memory : memory[i].id # row

LEMMA StoredFacts ==
  ASSUME MemInv, NEW c \in Requests, job[c].step = "write"
  PROVE  Stores(Memory!Stored(job[c].row, Memory!Key(c), c), Memory!Key(c), job[c].row, c)
<1> DEFINE k == Memory!Key(c)
           row == job[c].row
           old == {m \in Memory!Rows : m.id = row}
<1>1. /\ memory \in Seq(RowTypes) /\ k \in Packs
      /\ \A i \in DOMAIN memory : memory[i] \in RowTypes /\ memory[i].id[2] = memory[i].key
  <2>1. k \in Packs
    BY JobTyped DEF Memory!Key, JobOK, JobPlaced, JobTypes
  <2>2. QED
    BY <2>1, SeqDomain DEF MemInv, MemTypeOK, RowsNamed
<1>2. row # Nothing => row[2] = k
  BY DEF MemInv, JobOK, JobHolds
<1>3. ASSUME row = Nothing
      PROVE  Stores(Memory!Stored(row, k, c), k, row, c)
  <2> DEFINE m == [id |-> <<c, k>>, key |-> k, value |-> c]
  <2>1. m \in RowTypes /\ m.key = k /\ m.value = c /\ m.id[2] = k
    BY <1>1 DEF RowTypes, Memory!Values
  <2>2. Memory!Stored(row, k, c) = Append(memory, m)
    BY <1>3 DEF Memory!Stored
  <2> HIDE DEF m, k, row
  <2>3. QED
    <3> DEFINE s == Append(memory, m)
    <3>1. /\ s \in Seq(RowTypes)
          /\ \A j \in DOMAIN s : s[j] = m \/ \E i \in DOMAIN memory : s[j] = memory[i]
          /\ \A i \in DOMAIN memory : \E j \in DOMAIN s : s[j] = memory[i]
          /\ \E j \in DOMAIN s : s[j] = m
      BY <1>1, <2>1, AppendFacts
    <3> HIDE DEF s
    <3>2. Stores(s, k, row, c)
      BY <2>1, <3>1 DEF Stores
    <3>3. QED
      BY <2>2, <3>2 DEF s
<1>4. ASSUME row # Nothing, old = {}
      PROVE  Stores(Memory!Stored(row, k, c), k, row, c)
  <2>1. Memory!Stored(row, k, c) = memory
    BY <1>4 DEF Memory!Stored
  <2>2. \A i \in DOMAIN memory : memory[i].id # row
    BY <1>4 DEF Memory!Rows
  <2> HIDE DEF k, row, old
  <2>3. QED
    BY <1>1, <1>4, <2>1, <2>2 DEF Stores
<1>5. ASSUME row # Nothing, old # {}
      PROVE  Stores(Memory!Stored(row, k, c), k, row, c)
  <2> DEFINE m == [id |-> row, key |-> k, value |-> c]
             left == Memory!Without(old)
  <2>1. \A i \in DOMAIN memory : memory[i] \in old => memory[i].key = k
    BY <1>1, <1>2, <1>5
  <2>2. PICK i \in DOMAIN memory : memory[i].id = row
    BY <1>5 DEF Memory!Rows
  <2>3. m \in RowTypes /\ m.key = k /\ m.value = c /\ m.id[2] = k
    BY <1>1, <1>2, <1>5, <2>2 DEF RowTypes, Memory!Values
  <2>4. Memory!Stored(row, k, c) = Append(left, m)
    BY <1>5 DEF Memory!Stored
  <2> HIDE DEF old
  <2>5. /\ left \in Seq(RowTypes)
        /\ \A j \in DOMAIN left : \E x \in DOMAIN memory : left[j] = memory[x]
        /\ \A x \in DOMAIN memory : memory[x].key = k \/ \E j \in DOMAIN left : left[j] = memory[x]
    BY <1>1, <2>1, WithoutFacts
  <2> HIDE DEF m, left, k, row
  <2> DEFINE s == Append(left, m)
  <2>6. /\ s \in Seq(RowTypes)
        /\ \A j \in DOMAIN s : s[j] = m \/ \E x \in DOMAIN left : s[j] = left[x]
        /\ \A x \in DOMAIN left : \E j \in DOMAIN s : s[j] = left[x]
        /\ \E j \in DOMAIN s : s[j] = m
    BY <2>3, <2>5, AppendFacts
  <2>7. Memory!Stored(row, k, c) = s
    BY <2>4
  <2> HIDE DEF s
  <2>8. ASSUME NEW j \in DOMAIN s
        PROVE  \/ \E x \in DOMAIN memory : s[j] = memory[x]
               \/ s[j].value = c /\ s[j].key = k /\ s[j].id[2] = k
    <3>1. CASE s[j] = m
      BY <2>3, <3>1
    <3>2. CASE \E x \in DOMAIN left : s[j] = left[x]
      <4>1. PICK x \in DOMAIN left : s[j] = left[x]
        BY <3>2
      <4>2. \E y \in DOMAIN memory : left[x] = memory[y]
        BY <2>5
      <4>3. QED
        BY <4>1, <4>2
    <3>3. QED
      BY <2>6, <3>1, <3>2
  <2>9. \A x \in DOMAIN memory : memory[x].key = k \/ \E j \in DOMAIN s : s[j] = memory[x]
    BY <2>5, <2>6
  <2>10. \E j \in DOMAIN s : s[j].key = k /\ s[j].value = c
    BY <2>3, <2>6
  <2>11. Stores(s, k, row, c)
    BY <2>6, <2>8, <2>9, <2>10 DEF Stores
  <2>12. QED
    BY <2>7, <2>11
<1>6. Stores(Memory!Stored(row, k, c), k, row, c)
  BY <1>3, <1>4, <1>5
<1>7. QED
  BY <1>6

LEMMA WriteMoves ==
  ASSUME MemInv, NEW c \in Requests, Memory!Write(c)
  PROVE  Moves(c) /\ OwnOK(c)
<1> DEFINE k    == Memory!Key(c)
           dup  == job[c].row = Nothing /\ Memory!RowOf(k) # {}
           last == job[c].n = Len(job[c].facts)
           end  == IF dup /\ job[c].op = "remember" THEN "failed" ELSE "returned"
           over == [job[c] EXCEPT !.step = end]
           more == job[c].n + 1
           next == [job[c] EXCEPT !.n = more, !.step = "find"]
           new  == IF last THEN over ELSE next
<1>1. /\ job[c] \in JobTypes /\ JobOK(c) /\ JobPlaced(c) /\ job[c].step = "write"
      /\ job[c].op \in {"extract", "remember"} /\ job[c].n \in Nat \ {0}
      /\ job[c].n <= Len(job[c].facts) /\ Len(job[c].facts) \in Nat /\ k \in Packs
      /\ job[c].n \in DOMAIN job[c].facts
  BY JobTyped DEF JobOK, JobPlaced, Memory!Write, Memory!Key, JobTypes
<1>2. /\ UNCHANGED <<preference, profile, earlier>>
      /\ memory' = IF dup THEN memory ELSE Memory!Stored(job[c].row, k, c)
      /\ job' = [job EXCEPT ![c] = new]
  BY DEF Memory!Write
<1>3. MayWrite(c, k)
  BY <1>1 DEF MayWrite, Memory!Key
<1>4. Stores(Memory!Stored(job[c].row, k, c), k, job[c].row, c)
  BY <1>1, StoredFacts
<1>5. dup \/ Stores(memory', k, job[c].row, c)
  BY <1>2, <1>4
<1>6. /\ new.op = job[c].op /\ new.fields = job[c].fields /\ new.facts = job[c].facts
      /\ new.seen = job[c].seen /\ new.n \in Nat /\ new \in JobTypes
      /\ last => new.n = job[c].n /\ new.step \in {"failed", "returned"}
      /\ last /\ dup /\ job[c].op = "remember" => new.step = "failed"
      /\ ~last => new.n = job[c].n + 1 /\ new.step = "find"
  <2>1. end \in {"failed", "returned"} /\ (dup /\ job[c].op = "remember" => end = "failed")
    OBVIOUS
  <2> HIDE DEF end
  <2>2. /\ over.op = job[c].op /\ over.fields = job[c].fields /\ over.facts = job[c].facts
        /\ over.seen = job[c].seen /\ over.n = job[c].n /\ over.step = end /\ over \in JobTypes
    BY <1>1, <2>1 DEF JobTypes, MemSteps, Memory!Over
  <2>3. /\ next.op = job[c].op /\ next.fields = job[c].fields /\ next.facts = job[c].facts
        /\ next.seen = job[c].seen /\ next.n = more /\ next.step = "find"
        /\ next \in JobTypes
    <3>1. more \in Nat \ {0}
      BY <1>1
    <3> HIDE DEF more
    <3>2. QED
      BY <1>1, <3>1 DEF JobTypes, MemSteps
  <2> HIDE DEF over, next, dup
  <2>4. QED
    BY <1>1, <2>1, <2>2, <2>3
<1>7. RowsMove(c)
  <2>1. CASE dup
    BY <1>2, <2>1, StillMoves
  <2>2. CASE ~dup
    <3>1. Stores(memory', k, job[c].row, c)
      BY <1>5, <2>2
    <3> HIDE DEF k
    <3>2. QED
      BY <1>3, <3>1 DEF RowsMove, Stores
  <2>3. QED
    BY <2>1, <2>2
<1> HIDE DEF new, end, over, next, dup, k
<1>8. CallMoves(c, new) /\ job'[c] = new
  BY <1>1, <1>2, <1>6, CallOnly DEF Memory!Over
<1>9. JobPlaced(c)' /\ JobHolds(c)'
  <2>1. new.n <= Len(job[c].facts)
    BY <1>1, <1>6 DEF last
  <2>2. /\ new.step \in {"find", "failed", "returned"} /\ new.op \in {"extract", "remember"}
        /\ new.op = "remember" => new.n = 1 /\ Len(new.facts) = 1
    BY <1>1, <1>6 DEF last, JobPlaced, SingleOps
  <2>3. QED
    BY <1>6, <1>8, <2>1, <2>2 DEF JobPlaced, JobHolds, SingleOps
<1>10. Remembered(c)'
  <2> SUFFICES ASSUME job[c].op = "remember", Alone(c, Memory!Key(c))'
               PROVE  /\ job'[c].step # "write"
                      /\ job'[c].step = "returned" =>
                           \E j \in DOMAIN memory' :
                             memory'[j].key = Memory!Key(c)' /\ memory'[j].value = c
    BY <1>6, <1>8 DEF Remembered
  <2>1. last /\ new.n = job[c].n
    BY <1>1, <1>6 DEF JobPlaced, SingleOps
  <2>2. Memory!Key(c)' = Memory!Key(c) /\ Memory!Key(c) = k
    BY <1>6, <1>8, <2>1 DEF Memory!Key, k
  <2>3. CASE dup
    BY <1>6, <1>8, <2>1, <2>3
  <2>4. CASE ~dup
    <3>1. PICK x \in Packs : x = k
      BY <1>1
    <3>2. \A e \in Requests \ {c} : MayWrite(e, x)' => e \in earlier[c]
      BY <1>2, <2>2, <3>1 DEF Alone
    <3>3. \A e \in Requests \ {c} : job'[e] = job[e]
      BY <1>2 DEF MemInv, MemTypeOK
    <3>4. \A e \in Requests \ {c} : MayWrite(e, x) => e \in earlier[c]
      BY <3>2, <3>3 DEF MayWrite
    <3>5. Alone(c, Memory!Key(c))
      BY <2>2, <3>1, <3>4 DEF Alone
    <3>6. job[c].row # Nothing => \E i \in DOMAIN memory : memory[i].id = job[c].row
      BY <1>1, <3>5 DEF JobOK, Remembered
    <3>7. \E j \in DOMAIN memory' : memory'[j].key = k /\ memory'[j].value = c
      BY <1>5, <2>4, <3>6 DEF Stores
    <3>8. QED
      BY <1>6, <1>8, <2>1, <2>2, <3>7
  <2>5. QED
    BY <2>3, <2>4
<1>11. OwnOK(c)
  BY <1>1, <1>6, <1>8, <1>9, <1>10 DEF OwnOK, Preferred
<1>12. QED
  BY <1>2, <1>6, <1>7, <1>8, <1>11 DEF Moves, ProfileMoves, PreferenceMoves

LEMMA DeleteMoves ==
  ASSUME MemInv, NEW c \in Requests, Memory!Delete(c)
  PROVE  Moves(c) /\ OwnOK(c)
<1> DEFINE k   == Memory!Key(c)
           new == [job[c] EXCEPT !.step = "returned"]
<1>1. /\ job[c] \in JobTypes /\ JobPlaced(c) /\ job[c].step = "delete"
      /\ job[c].op \in {"delete", "clear"}
  BY JobTyped DEF JobOK, JobPlaced, Memory!Delete
<1>2. /\ UNCHANGED <<preference, profile, earlier>> /\ job' = [job EXCEPT ![c] = new]
      /\ memory' = IF job[c].op = "clear" THEN <<>> ELSE Memory!Without(Memory!RowOf(k))
  BY DEF Memory!Delete, Memory!Goto
<1>3. /\ new \in JobTypes /\ new.op = job[c].op /\ new.fields = job[c].fields
      /\ new.facts = job[c].facts /\ new.seen = job[c].seen /\ new.n = job[c].n
      /\ new.step = "returned"
  BY <1>1 DEF JobTypes, MemSteps, Memory!Over
<1> HIDE DEF new
<1>4. RowsMove(c)
  <2>1. CASE job[c].op = "clear"
    <3>1. \A x : MayWrite(c, x)
      BY <2>1 DEF MayWrite
    <3>2. memory' = <<>>
      BY <1>2, <2>1
    <3>3. QED
      BY <3>1, <3>2 DEF RowsMove
  <2>2. CASE job[c].op = "delete"
    <3>1. job[c].n = 1 /\ 1 \in DOMAIN job[c].facts
      BY <1>1, <2>2, JobTyped DEF JobPlaced, SingleOps
    <3>2. MayWrite(c, k)
      BY <2>2, <3>1 DEF MayWrite, Memory!Key
    <3>3. memory' = Memory!Without(Memory!RowOf(k))
      BY <1>2, <2>2
    <3>4. \A m \in Memory!RowOf(k) : m.key = k
      BY DEF Memory!RowOf
    <3> HIDE DEF k
    <3> DEFINE gone == Memory!RowOf(k)
    <3> HIDE DEF gone
    <3>5. /\ Memory!Without(gone) \in Seq(RowTypes)
          /\ \A j \in DOMAIN Memory!Without(gone) :
               \E i \in DOMAIN memory : Memory!Without(gone)[j] = memory[i]
          /\ \A i \in DOMAIN memory :
               \/ memory[i] \in gone
               \/ \E j \in DOMAIN Memory!Without(gone) : Memory!Without(gone)[j] = memory[i]
      BY WithoutFacts DEF MemInv, MemTypeOK
    <3>6. memory' = Memory!Without(gone) /\ \A m \in gone : m.key = k
      BY <3>3, <3>4 DEF gone
    <3>7. QED
      BY <3>2, <3>5, <3>6 DEF RowsMove
  <2>3. QED
    BY <1>1, <2>1, <2>2
<1>5. CallMoves(c, new) /\ job'[c] = new
  BY <1>1, <1>2, <1>3, CallOnly DEF Memory!Over
<1>6. OwnOK(c)
  BY <1>1, <1>2, <1>3, <1>5 DEF OwnOK, JobPlaced, JobHolds, Remembered, Preferred, SingleOps
<1>7. QED
  BY <1>2, <1>3, <1>4, <1>5, <1>6 DEF Moves, ProfileMoves, PreferenceMoves

LEMMA QuietMoves ==
  ASSUME MemInv, NEW c \in Requests, NEW new \in JobTypes,
         job' = [job EXCEPT ![c] = new], UNCHANGED <<memory, preference, profile, earlier>>,
         new.op = job[c].op, new.fields = job[c].fields, new.facts = job[c].facts,
         \A b \in new.seen : b \in job[c].seen \/ \E i \in DOMAIN memory : b[2] = memory[i].value,
         job[c].step \notin Memory!Over \cup {"none"}
  PROVE  Moves(c) /\ job'[c] = new
<1>1. CallMoves(c, new) /\ job'[c] = new
  BY DEF CallMoves, MemInv, MemTypeOK
<1>2. QED
  BY <1>1, StillMoves DEF Moves, ProfileMoves, PreferenceMoves

LEMMA ThrowMoves ==
  ASSUME MemInv, NEW c \in Requests, Memory!Throws(c)
  PROVE  Moves(c) /\ OwnOK(c)
<1> DEFINE goesOn == job[c].op = "extract" /\ job[c].n < Len(job[c].facts)
           to  == CASE goesOn -> "find"
                    [] Memory!Is(c, "prompt", "profile") -> "read"
                    [] OTHER -> "failed"
           at  == IF goesOn THEN job[c].n + 1 ELSE job[c].n
           new == [job[c] EXCEPT !.step = to, !.n = at]
<1>1. /\ job[c] \in JobTypes /\ JobPlaced(c) /\ JobHolds(c)
      /\ job[c].step \in {"find", "write", "delete", "read", "profile", "count", "save",
                          "preference", "setPreference"}
      /\ job[c].n \in Nat \ {0} /\ Len(job[c].facts) \in Nat
  BY JobTyped DEF JobOK, Memory!Throws, JobTypes
<1>2. UNCHANGED <<memory, preference, profile, earlier>> /\ job' = [job EXCEPT ![c] = new]
  <2>1. UNCHANGED <<memory, preference, profile, earlier>>
    BY DEF Memory!Throws, Memory!tables
  <2>2. job' = [job EXCEPT ![c].step = to, ![c].n = at]
    BY DEF Memory!Throws
  <2> HIDE DEF to, at
  <2>3. QED
    BY <2>1, <2>2
<1>3. at \in Nat \ {0} /\ (~goesOn => at = job[c].n) /\ (goesOn => at <= Len(job[c].facts))
  BY <1>1
<1>4. /\ to \in {"find", "read", "failed"} /\ (to = "find" => goesOn)
      /\ to = "read" => job[c].op = "prompt"
  <2>1. CASE goesOn
    BY <2>1 DEF Memory!Is
  <2>2. CASE ~goesOn /\ Memory!Is(c, "prompt", "profile")
    BY <2>2 DEF Memory!Is
  <2>3. CASE ~goesOn /\ ~Memory!Is(c, "prompt", "profile")
    BY <2>3
  <2>4. QED
    BY <2>1, <2>2, <2>3
<1>5. goesOn => job[c].op = "extract"
  OBVIOUS
<1> HIDE DEF goesOn, to, at
<1>6. /\ new \in JobTypes /\ new.op = job[c].op /\ new.fields = job[c].fields
      /\ new.facts = job[c].facts /\ new.seen = job[c].seen /\ new.n = at /\ new.step = to
      /\ new.row = job[c].row
  BY <1>1, <1>3, <1>4 DEF JobTypes, MemSteps, Memory!Over
<1> HIDE DEF new
<1>7. Moves(c) /\ job'[c] = new
  BY <1>1, <1>2, <1>6, QuietMoves DEF Memory!Over
<1>8. JobPlaced(c)'
  BY <1>1, <1>3, <1>4, <1>5, <1>6, <1>7 DEF JobPlaced, SingleOps
<1>9. JobHolds(c)' /\ Remembered(c)' /\ Preferred(c)'
  BY <1>1, <1>4, <1>6, <1>7 DEF JobHolds, Remembered, Preferred
<1>10. QED
  BY <1>4, <1>6, <1>7, <1>8, <1>9 DEF OwnOK

LEMMA ReadMoves ==
  ASSUME MemInv, NEW c \in Requests, Memory!Read(c)
  PROVE  Moves(c) /\ OwnOK(c)
<1> DEFINE window == {i \in Memory!Window(job[c].op) :
                        job[c].op = "recall" => memory[i].key = Memory!Key(c)}
           seen == {<<memory[i].key, memory[i].value>> : i \in window}
           to   == IF job[c].op = "profile" THEN "synthesize" ELSE "returned"
           new  == [job[c] EXCEPT !.seen = seen, !.step = to]
<1>1. /\ job[c] \in JobTypes /\ JobPlaced(c) /\ JobHolds(c) /\ job[c].step = "read"
      /\ job[c].op \in {"list", "recall", "prompt", "profile"}
  BY JobTyped DEF JobOK, JobPlaced, Memory!Read
<1>2. UNCHANGED <<memory, preference, profile, earlier>> /\ job' = [job EXCEPT ![c] = new]
  BY DEF Memory!Read, Memory!tables
<1>3. \A b \in seen : /\ b \in Packs \X Memory!Values
                      /\ \E i \in DOMAIN memory : b[2] = memory[i].value
  <2>1. \A i \in DOMAIN memory : memory[i].key \in Packs /\ memory[i].value \in Memory!Values
    <3>1. \A i \in DOMAIN memory : memory[i] \in RowTypes
      BY SeqDomain DEF MemInv, MemTypeOK
    <3>2. QED
      BY <3>1 DEF RowTypes
  <2>2. \A i \in window : i \in DOMAIN memory
    BY DEF Memory!Window
  <2> HIDE DEF window
  <2>3. QED
    BY <2>1, <2>2
<1>4. to \in {"synthesize", "returned"} /\ (to = "synthesize" => job[c].op = "profile")
  OBVIOUS
<1> HIDE DEF seen, to
<1>5. /\ new \in JobTypes /\ new.op = job[c].op /\ new.fields = job[c].fields
      /\ new.facts = job[c].facts /\ new.seen = seen /\ new.n = job[c].n /\ new.step = to
      /\ new.row = job[c].row
  BY <1>1, <1>3, <1>4 DEF JobTypes, MemSteps, Memory!Over
<1> HIDE DEF new
<1>6. Moves(c) /\ job'[c] = new
  BY <1>1, <1>2, <1>3, <1>5, QuietMoves DEF Memory!Over
<1>7. OwnOK(c)
  BY <1>1, <1>4, <1>5, <1>6 DEF OwnOK, JobPlaced, JobHolds, Remembered, Preferred, SingleOps
<1>8. QED
  BY <1>6, <1>7

LEMMA LoadProfileMoves ==
  ASSUME MemInv, NEW c \in Requests, Memory!LoadProfile(c)
  PROVE  Moves(c) /\ OwnOK(c)
<1>1. /\ job[c] \in JobTypes /\ JobPlaced(c) /\ JobHolds(c) /\ job[c].step = "profile"
      /\ job[c].op \in {"prompt", "profile"} /\ profile \in Memory!Profiles \cup {Nothing}
  BY JobTyped DEF JobOK, JobPlaced, Memory!LoadProfile, MemInv, MemTypeOK
<1>2. /\ UNCHANGED <<memory, preference, profile, earlier>>
      /\ \E to \in {"read", "count"} :
           /\ job' = [job EXCEPT ![c].row = profile, ![c].step = to]
           /\ to = "count" => job[c].op = "profile" /\ profile # Nothing
  BY <1>1 DEF Memory!LoadProfile, Memory!tables
<1>3. PICK to \in {"read", "count"} :
        /\ job' = [job EXCEPT ![c].row = profile, ![c].step = to]
        /\ to = "count" => job[c].op = "profile" /\ profile # Nothing
  BY <1>2
<1> DEFINE new == [job[c] EXCEPT !.row = profile, !.step = to]
<1>4. /\ new \in JobTypes /\ new.op = job[c].op /\ new.fields = job[c].fields
      /\ new.facts = job[c].facts /\ new.seen = job[c].seen /\ new.n = job[c].n /\ new.step = to
      /\ new.row = profile
  <2>1. profile \in Held
    BY <1>1 DEF Held
  <2>2. QED
    BY <1>1, <2>1 DEF JobTypes, MemSteps
<1>5. job' = [job EXCEPT ![c] = new]
  BY <1>3
<1> HIDE DEF new
<1>6. Moves(c) /\ job'[c] = new
  BY <1>1, <1>2, <1>4, <1>5, QuietMoves DEF Memory!Over
<1>7. OwnOK(c)
  BY <1>1, <1>2, <1>3, <1>4, <1>6 DEF OwnOK, JobPlaced, JobHolds, Remembered, Preferred, SingleOps
<1>8. QED
  BY <1>6, <1>7

LEMMA CountMoves ==
  ASSUME MemInv, NEW c \in Requests, Memory!Count(c)
  PROVE  Moves(c) /\ OwnOK(c)
<1> DEFINE new == [job[c] EXCEPT !.step = "returned"]
           count == job[c].row.count + 1
<1>1. /\ job[c] \in JobTypes /\ JobPlaced(c) /\ JobHolds(c) /\ job[c].step = "count"
      /\ job[c].op = "profile" /\ job[c].row \in Memory!Profiles /\ profile \in Memory!Profiles
  BY JobTyped DEF JobOK, JobPlaced, JobHolds, Memory!Count, MemInv, MemTypeOK
<1>2. /\ UNCHANGED <<memory, preference, earlier>> /\ job' = [job EXCEPT ![c] = new]
      /\ profile' = [profile EXCEPT !.count = count] /\ profile # Nothing
  BY <1>1 DEF Memory!Count, Memory!Goto, JobHolds
<1>3. count \in Nat
  BY <1>1 DEF Memory!Profiles
<1> HIDE DEF count
<1>4. ProfileMoves(c)
  BY <1>1, <1>2, <1>3 DEF ProfileMoves, Memory!Profiles
<1>5. /\ new \in JobTypes /\ new.op = job[c].op /\ new.fields = job[c].fields
      /\ new.facts = job[c].facts /\ new.seen = job[c].seen /\ new.n = job[c].n
      /\ new.step = "returned" /\ new.row = job[c].row
  BY <1>1 DEF JobTypes, MemSteps, Memory!Over
<1> HIDE DEF new
<1>6. CallMoves(c, new) /\ job'[c] = new
  BY <1>1, <1>2, <1>5, CallOnly DEF Memory!Over
<1>7. OwnOK(c)
  BY <1>1, <1>5, <1>6 DEF OwnOK, JobPlaced, JobHolds, Remembered, Preferred, SingleOps
<1>8. QED
  BY <1>2, <1>4, <1>5, <1>6, <1>7, StillMoves DEF Moves, PreferenceMoves

LEMMA SynthesizeMoves ==
  ASSUME MemInv, NEW c \in Requests, Memory!Synthesize(c)
  PROVE  Moves(c) /\ OwnOK(c)
<1>1. /\ job[c] \in JobTypes /\ JobPlaced(c) /\ JobHolds(c) /\ job[c].step = "synthesize"
      /\ job[c].op = "profile"
  BY JobTyped DEF JobOK, JobPlaced, Memory!Synthesize
<1>2. UNCHANGED <<memory, preference, profile, earlier>>
  BY DEF Memory!Synthesize, Memory!tables
<1>3. PICK basis \in {job[c].seen, {}} : job' = [job EXCEPT ![c].seen = basis, ![c].step = "save"]
  BY DEF Memory!Synthesize
<1> DEFINE new == [job[c] EXCEPT !.seen = basis, !.step = "save"]
<1>4. /\ new \in JobTypes /\ new.op = job[c].op /\ new.fields = job[c].fields
      /\ new.facts = job[c].facts /\ new.seen = basis /\ new.n = job[c].n
      /\ new.step = "save" /\ new.row = job[c].row
  BY <1>1 DEF JobTypes, MemSteps
<1>5. job' = [job EXCEPT ![c] = new]
  BY <1>3
<1> HIDE DEF new
<1>6. Moves(c) /\ job'[c] = new
  BY <1>1, <1>2, <1>4, <1>5, QuietMoves DEF Memory!Over
<1>7. OwnOK(c)
  BY <1>1, <1>4, <1>6 DEF OwnOK, JobPlaced, JobHolds, Remembered, Preferred, SingleOps
<1>8. QED
  BY <1>6, <1>7

LEMMA SaveProfileMoves ==
  ASSUME MemInv, NEW c \in Requests, Memory!SaveProfile(c)
  PROVE  Moves(c) /\ OwnOK(c)
<1>1. /\ job[c] \in JobTypes /\ JobPlaced(c) /\ JobHolds(c) /\ job[c].step = "save"
      /\ job[c].op = "profile" /\ job[c].row \in Memory!Profiles \cup {Nothing}
      /\ job[c].seen \in SUBSET (Packs \X Memory!Values)
  BY JobTyped DEF JobOK, JobPlaced, JobHolds, Memory!SaveProfile, JobTypes
<1>2. /\ UNCHANGED <<memory, preference, earlier>>
      /\ \E to \in {"returned", "failed"} : job' = [job EXCEPT ![c].step = to]
      /\ \/ profile' = profile
         \/ \E n \in Nat : profile' = [basis |-> job[c].seen, by |-> c, count |-> n]
  <2>1. UNCHANGED <<memory, preference, earlier>>
    BY DEF Memory!SaveProfile
  <2>2. CASE job[c].row # Nothing
    <3>1. job[c].row.count + 1 \in Nat
      BY <1>1, <2>2 DEF Memory!Profiles
    <3>2. /\ profile' = [basis |-> job[c].seen, by |-> c, count |-> job[c].row.count + 1]
          /\ job' = [job EXCEPT ![c].step = "returned"]
      BY <2>2 DEF Memory!SaveProfile, Memory!Rebuilt, Memory!Goto
    <3>3. QED
      BY <2>1, <3>1, <3>2
  <2>3. CASE job[c].row = Nothing /\ profile # Nothing
    BY <2>1, <2>3 DEF Memory!SaveProfile, Memory!Goto
  <2>4. CASE job[c].row = Nothing /\ profile = Nothing
    BY <2>1, <2>4 DEF Memory!SaveProfile, Memory!Goto
  <2>5. QED
    BY <2>2, <2>3, <2>4
<1>3. ProfileMoves(c)
  BY <1>1, <1>2 DEF ProfileMoves, Memory!Profiles, Memory!Values
<1>4. PICK to \in {"returned", "failed"} : job' = [job EXCEPT ![c].step = to]
  BY <1>2
<1> DEFINE new == [job[c] EXCEPT !.step = to]
<1>5. /\ new \in JobTypes /\ new.op = job[c].op /\ new.fields = job[c].fields
      /\ new.facts = job[c].facts /\ new.seen = job[c].seen /\ new.n = job[c].n
      /\ new.step = to /\ new.row = job[c].row
  BY <1>1 DEF JobTypes, MemSteps, Memory!Over
<1>6. job' = [job EXCEPT ![c] = new]
  BY <1>4
<1> HIDE DEF new
<1>7. CallMoves(c, new) /\ job'[c] = new
  BY <1>1, <1>2, <1>5, <1>6, CallOnly DEF Memory!Over
<1>8. OwnOK(c)
  BY <1>1, <1>5, <1>7 DEF OwnOK, JobPlaced, JobHolds, Remembered, Preferred, SingleOps
<1>9. QED
  BY <1>2, <1>3, <1>5, <1>7, <1>8, StillMoves DEF Moves, PreferenceMoves

LEMMA FindPreferenceMoves ==
  ASSUME MemInv, NEW c \in Requests, Memory!FindPreference(c)
  PROVE  Moves(c) /\ OwnOK(c)
<1> DEFINE new == [job[c] EXCEPT !.row = preference, !.step = "setPreference"]
<1>1. /\ job[c] \in JobTypes /\ JobPlaced(c) /\ job[c].step = "preference"
      /\ job[c].op = "prefer" /\ preference \in Held
  BY JobTyped DEF JobOK, JobPlaced, Memory!FindPreference, MemInv, MemTypeOK, Held
<1>2. UNCHANGED <<memory, preference, profile, earlier>> /\ job' = [job EXCEPT ![c] = new]
  BY DEF Memory!FindPreference, Memory!tables
<1>3. /\ new \in JobTypes /\ new.op = job[c].op /\ new.fields = job[c].fields
      /\ new.facts = job[c].facts /\ new.seen = job[c].seen /\ new.n = job[c].n
      /\ new.step = "setPreference" /\ new.row = preference
  BY <1>1 DEF JobTypes, MemSteps
<1> HIDE DEF new
<1>4. Moves(c) /\ job'[c] = new
  BY <1>1, <1>2, <1>3, QuietMoves DEF Memory!Over
<1>5. OwnOK(c)
  BY <1>1, <1>2, <1>3, <1>4 DEF OwnOK, JobPlaced, JobHolds, Remembered, Preferred, SingleOps
<1>6. QED
  BY <1>4, <1>5

LEMMA SetPreferenceMoves ==
  ASSUME Memory!MemoryAssumption, MemInv, NEW c \in Requests, Memory!SetPreference(c)
  PROVE  Moves(c) /\ OwnOK(c)
<1>1. /\ job[c] \in JobTypes /\ JobPlaced(c) /\ JobHolds(c) /\ job[c].step = "setPreference"
      /\ job[c].op = "prefer" /\ preference \in Memory!Preferences \cup {Nothing}
      /\ job[c].fields \subseteq Signals
  BY JobTyped DEF JobOK, JobPlaced, JobHolds, Memory!SetPreference, MemInv, MemTypeOK, JobTypes
<1>2. UNCHANGED <<memory, profile, earlier>>
  BY DEF Memory!SetPreference
<1>3. PICK to \in {"returned", "failed"} :
        /\ job' = [job EXCEPT ![c].step = to]
        /\ to = "failed" => preference' = preference
        /\ to = "returned" =>
             /\ preference' \in Memory!Preferences
             /\ \A f \in job[c].fields : preference'[f] = c
             /\ preference # Nothing =>
                  \A f \in Signals \ job[c].fields : preference'[f] = preference[f]
  <2>1. CASE \/ job[c].row # Nothing /\ job[c].fields = {}
             \/ job[c].row = Nothing /\ preference # Nothing
    BY <2>1 DEF Memory!SetPreference, Memory!Goto
  <2>2. CASE job[c].row # Nothing /\ job[c].fields # {}
    <3>1. /\ preference' = [f \in Signals |-> IF f \in job[c].fields THEN c ELSE preference[f]]
          /\ job' = [job EXCEPT ![c].step = "returned"]
      BY <2>2 DEF Memory!SetPreference, Memory!Goto, Memory!Updated
    <3>2. preference \in Memory!Preferences
      BY <1>1, <2>2 DEF JobHolds
    <3>3. QED
      BY <1>1, <3>1, <3>2 DEF Memory!Preferences
  <2>3. CASE job[c].row = Nothing /\ preference = Nothing
    <3>1. /\ preference' = [f \in Signals |-> IF f \in job[c].fields THEN c ELSE Nothing]
          /\ job' = [job EXCEPT ![c].step = "returned"]
      BY <2>3 DEF Memory!SetPreference, Memory!Goto
    <3>2. QED
      BY <1>1, <2>3, <3>1 DEF Memory!Preferences
  <2>4. QED
    BY <2>1, <2>2, <2>3
<1>4. PreferenceMoves(c)
  BY <1>3 DEF PreferenceMoves
<1> DEFINE new == [job[c] EXCEPT !.step = to]
<1>5. /\ new \in JobTypes /\ new.op = job[c].op /\ new.fields = job[c].fields
      /\ new.facts = job[c].facts /\ new.seen = job[c].seen /\ new.n = job[c].n
      /\ new.step = to /\ new.row = job[c].row
  BY <1>1 DEF JobTypes, MemSteps, Memory!Over
<1>6. job' = [job EXCEPT ![c] = new]
  BY <1>3
<1> HIDE DEF new
<1>7. CallMoves(c, new) /\ job'[c] = new
  BY <1>1, <1>2, <1>5, <1>6, CallOnly DEF Memory!Over
<1>8. JobPlaced(c)' /\ JobHolds(c)' /\ Remembered(c)'
  BY <1>1, <1>5, <1>7 DEF JobPlaced, JobHolds, Remembered, SingleOps
<1>9. Preferred(c)'
  <2>1. to = "returned" => preference' # Nothing /\ \A f \in job[c].fields : preference'[f] = c
    BY <1>3 DEF Memory!MemoryAssumption
  <2>2. QED
    BY <1>5, <1>7, <2>1 DEF Preferred
<1>10. QED
  BY <1>1, <1>2, <1>4, <1>5, <1>7, <1>8, <1>9, StillMoves DEF Moves, ProfileMoves, OwnOK

LEMMA BeginKeeps ==
  ASSUME MemInv, NEW c \in Requests, Memory!Begin(c)
  PROVE  MemInv'
<1>1. PICK op \in DOMAIN Memory!FirstStep, k \in Packs, fields \in SUBSET Signals :
        /\ op # "prefer" => fields = {}
        /\ job' = [job EXCEPT ![c] = [Memory!NoCall EXCEPT
             !.op = op, !.step = Memory!FirstStep[op], !.fields = fields,
             !.facts = IF op \in {"remember", "recall", "delete"} THEN <<k>> ELSE <<>>]]
  BY DEF Memory!Begin
<1> DEFINE first == Memory!FirstStep[op]
           facts == IF op \in {"remember", "recall", "delete"} THEN <<k>> ELSE <<>>
           new   == [Memory!NoCall EXCEPT !.op = op, !.step = first, !.fields = fields, !.facts = facts]
<1>2. /\ job[c].step = "none" /\ job[c].op = "none" /\ job[c].facts = <<>> /\ job[c].fields = {}
      /\ UNCHANGED <<memory, preference, profile>>
      /\ earlier' = [earlier EXCEPT ![c] = {d \in Requests : job[d].step \in Memory!Over}]
  BY JobTyped DEF Memory!Begin, JobOK, JobPlaced, Memory!tables
<1>3. op \in MemOps \ {"none"}
      /\ first = IF op = "extract" THEN "model" ELSE IF op = "remember" THEN "find"
                 ELSE IF op \in {"delete", "clear"} THEN "delete"
                 ELSE IF op \in {"list", "recall"} THEN "read"
                 ELSE IF op \in {"prompt", "profile"} THEN "profile" ELSE "preference"
  BY DEF Memory!FirstStep, MemOps
<1>4. /\ facts \in Seq(Packs) /\ (op \in SingleOps => Len(facts) = 1)
      /\ op \notin SingleOps => facts = <<>>
  BY DEF SingleOps
<1>5. job' = [job EXCEPT ![c] = new]
  BY <1>1
<1> HIDE DEF first, facts
<1>6. /\ new \in JobTypes /\ new.op = op /\ new.step = first /\ new.fields = fields
      /\ new.facts = facts /\ new.n = 1 /\ new.row = Nothing /\ new.seen = {}
  <2>1. /\ Memory!NoCall \in JobTypes /\ Memory!NoCall.n = 1
        /\ Memory!NoCall.row = Nothing /\ Memory!NoCall.seen = {}
    BY DEF Memory!NoCall, JobTypes, MemOps, MemSteps, Held
  <2>2. first \in MemSteps /\ op \in MemOps
    BY <1>3 DEF MemSteps
  <2>3. QED
    BY <1>4, <2>1, <2>2 DEF JobTypes
<1> HIDE DEF new
<1>7. job'[c] = new /\ \A d \in Requests \ {c} : job'[d] = job[d] /\ earlier'[d] = earlier[d]
  BY <1>2, <1>5 DEF MemInv, MemTypeOK
<1>8. MemTypeOK' /\ RowsNamed'
  BY <1>2, <1>5, <1>6 DEF MemInv, MemTypeOK, RowsNamed
<1>9. \A d \in Requests : c \notin earlier[d]
  BY <1>2 DEF MemInv, EarlierAreOver, Memory!Over
<1>10. EarlierAreOver'
  <2>1. first # "none" /\ first \notin Memory!Over
    BY <1>3 DEF Memory!Over
  <2>2. ASSUME NEW d \in Requests, NEW e \in earlier'[d]
        PROVE  job'[e].step \in Memory!Over /\ job'[d].step # "none"
    <3>1. CASE d = c
      <4>1. e \in Requests /\ job[e].step \in Memory!Over
        BY <1>2, <2>2, <3>1 DEF MemInv, MemTypeOK
      <4>2. e # c
        BY <1>2, <4>1 DEF Memory!Over
      <4>3. QED
        BY <1>6, <1>7, <2>1, <3>1, <4>1, <4>2
    <3>2. CASE d # c
      <4>1. e \in earlier[d] /\ e \in Requests /\ e # c
        BY <1>7, <1>9, <2>2, <3>2 DEF MemInv, MemTypeOK
      <4>2. QED
        BY <1>7, <3>2, <4>1 DEF MemInv, EarlierAreOver
    <3>3. QED
      BY <3>1, <3>2
  <2>3. QED
    BY <2>2 DEF EarlierAreOver
<1>11. JobPlaced(c)' /\ JobHolds(c)' /\ Remembered(c)' /\ Preferred(c)' /\ Cleared(c)'
  <2>1. first \notin {"none", "write", "count", "synthesize", "save", "setPreference", "returned"}
    BY <1>3
  <2>2. JobHolds(c)' /\ Remembered(c)' /\ Preferred(c)' /\ Cleared(c)'
    BY <1>6, <1>7, <2>1 DEF JobHolds, Remembered, Preferred, Cleared
  <2>3. /\ first = "model" => op = "extract"
        /\ first = "find" => op = "remember"
        /\ first = "delete" => op \in {"delete", "clear"}
        /\ first = "read" => op \in {"list", "recall", "prompt", "profile"}
        /\ first = "profile" => op \in {"prompt", "profile"}
        /\ first \in {"preference", "setPreference"} => op = "prefer"
    BY <1>3 DEF MemOps
  <2>4. /\ op # "none" /\ (op = "extract" => op \notin SingleOps /\ fields = {})
        /\ op \in SingleOps <=> op \in {"remember", "delete", "recall"}
    BY <1>1, <1>3 DEF SingleOps
  <2>5. JobPlaced(c)'
    <3>1. op = "extract" => facts = <<>> /\ fields = {}
      BY <1>4, <2>4
    <3>2. op \in SingleOps => Len(facts) = 1
      BY <1>4
    <3>3. first = "find" => op \in SingleOps
      BY <2>3, <2>4
    <3>4. /\ new.step # "none" /\ new.op # "none"
          /\ new.step = "model" => new.op = "extract" /\ new.facts = <<>> /\ new.fields = {}
          /\ new.op \in SingleOps => new.n = 1 /\ Len(new.facts) = 1
      BY <1>6, <2>1, <2>3, <2>4, <3>1, <3>2
    <3>5. new.step \in {"find", "write"} =>
            new.op \in {"extract", "remember"} /\ new.n <= Len(new.facts)
      <4> SUFFICES ASSUME first = "find" PROVE op = "remember" /\ new.n <= Len(facts)
        BY <1>6, <2>1
      <4>1. op = "remember" /\ Len(facts) = 1 /\ new.n = 1
        BY <1>6, <2>3, <3>2, <3>3
      <4>2. QED
        BY <4>1
    <3>6. /\ new.step = "delete" => new.op \in {"delete", "clear"}
          /\ new.step = "read" => new.op \in {"list", "recall", "prompt", "profile"}
          /\ new.step = "profile" => new.op \in {"prompt", "profile"}
          /\ new.step \notin {"count", "synthesize", "save"}
          /\ new.step \in {"preference", "setPreference"} => new.op = "prefer"
      BY <1>6, <2>1, <2>3
    <3>7. new.n = 1
      BY <1>6
    <3>8. QED
      BY <1>7, <3>4, <3>5, <3>6, <3>7 DEF JobPlaced
  <2>6. QED
    BY <2>2, <2>5
<1>12. ASSUME NEW d \in Requests, d # c
       PROVE  JobOK(d)'
  <2>1. JobPlaced(d) /\ JobHolds(d) /\ Remembered(d) /\ Preferred(d) /\ Cleared(d)
    BY DEF MemInv, JobOK
  <2>2. job'[d] = job[d] /\ earlier'[d] = earlier[d] /\ Memory!Key(d)' = Memory!Key(d)
    BY <1>7, <1>12 DEF Memory!Key
  <2>3. JobPlaced(d)' /\ JobHolds(d)'
    BY <1>2, <2>1, <2>2 DEF JobPlaced, JobHolds
  <2>4. Remembered(d)'
    <3>1. ASSUME job[d].op = "remember", Alone(d, Memory!Key(d))'
          PROVE  Alone(d, Memory!Key(d))
      <4>1. \A e \in Requests \ {d} :
              MayWrite(e, Memory!Key(d))' => e \in earlier[d]
        BY <2>2, <3>1 DEF Alone
      <4>2. \A e \in Requests \ {d} : MayWrite(e, Memory!Key(d)) => e \in earlier[d]
        BY <1>2, <1>7, <2>2, <4>1 DEF MayWrite
      <4>3. QED
        BY <4>2 DEF Alone
    <3>2. QED
      BY <1>2, <2>1, <2>2, <3>1 DEF Remembered
  <2>5. Preferred(d)'
    <3>1. ASSUME NEW f \in job[d].fields, SetsLast(d, f)'
          PROVE  SetsLast(d, f)
      <4>1. \A e \in Requests \ {d} : f \in job'[e].fields => e \in earlier[d]
        BY <2>2, <3>1 DEF SetsLast
      <4>2. QED
        BY <1>2, <1>7, <4>1 DEF SetsLast
    <3>2. QED
      BY <1>2, <2>1, <2>2, <3>1 DEF Preferred
  <2>6. Cleared(d)'
    <3> SUFFICES ASSUME job[d].op = "clear", job[d].step = "returned"
                 PROVE  /\ \A i \in DOMAIN memory : Fresh(memory[i].value, d)
                        /\ \A e \in Requests : d \in earlier'[e] =>
                             \A b \in job'[e].seen : Fresh(b[2], d)
                        /\ profile # Nothing /\ profile.by # Former =>
                             (d \in earlier'[profile.by] => \A b \in profile.basis : Fresh(b[2], d))
      BY <1>2, <2>2 DEF Cleared, Fresh
    <3>1. \A e \in Requests : d \in earlier'[e] => \A b \in job'[e].seen : Fresh(b[2], d)
      BY <1>6, <1>7, <2>1 DEF Cleared
    <3>2. profile # Nothing /\ profile.by # Former => earlier'[profile.by] = earlier[profile.by]
      BY <1>2, <1>7 DEF MemInv, MemTypeOK, MadeByCall, Memory!Profiles, Memory!Values
    <3>3. QED
      BY <2>1, <3>1, <3>2 DEF Cleared
  <2>7. QED
    BY <2>3, <2>4, <2>5, <2>6 DEF JobOK
<1>13. MadeByCall'
  <2>1. profile # Nothing /\ profile.by # Former =>
          profile.by \in Requests \ {c} /\ job[profile.by].op = "profile"
    BY <1>2 DEF MemInv, MemTypeOK, MadeByCall, Memory!Profiles, Memory!Values
  <2>2. QED
    BY <1>2, <1>7, <2>1 DEF MadeByCall
<1>14. QED
  BY <1>8, <1>10, <1>11, <1>12, <1>13 DEF MemInv, JobOK

LEMMA MemInductive == Memory!MemoryAssumption /\ MemInv /\ Memory!Next => MemInv'
<1> SUFFICES ASSUME Memory!MemoryAssumption, MemInv, Memory!Next PROVE MemInv'
  OBVIOUS
<1>1. PICK c \in Requests :
        \/ Memory!Begin(c) \/ Memory!Extract(c) \/ Memory!Find(c) \/ Memory!Write(c)
        \/ Memory!Delete(c) \/ Memory!Throws(c) \/ Memory!Read(c) \/ Memory!LoadProfile(c)
        \/ Memory!Count(c) \/ Memory!Synthesize(c) \/ Memory!SaveProfile(c)
        \/ Memory!FindPreference(c) \/ Memory!SetPreference(c)
  BY DEF Memory!Next
<1>2. CASE Memory!Begin(c)
  BY <1>2, BeginKeeps
<1>3. CASE ~Memory!Begin(c)
  <2>1. Moves(c) /\ OwnOK(c)
    BY <1>1, <1>3, ExtractMoves, FindMoves, WriteMoves, DeleteMoves, ThrowMoves, ReadMoves,
       LoadProfileMoves, CountMoves, SynthesizeMoves, SaveProfileMoves, FindPreferenceMoves,
       SetPreferenceMoves
  <2>2. QED
    BY <2>1, MovesKeep
<1>4. QED
  BY <1>2, <1>3

LEMMA MemStutters == MemInv /\ UNCHANGED Memory!vars => MemInv'
<1> SUFFICES ASSUME MemInv, UNCHANGED Memory!vars PROVE MemInv'
  OBVIOUS
<1>1. UNCHANGED <<memory, preference, profile, job, earlier>>
  BY DEF Memory!vars, Memory!tables
<1>2. MemTypeOK' /\ RowsNamed' /\ EarlierAreOver' /\ MadeByCall'
  BY <1>1 DEF MemInv, MemTypeOK, RowsNamed, EarlierAreOver, MadeByCall
<1>3. ASSUME NEW c \in Requests
      PROVE  JobOK(c)'
  <2>1. JobPlaced(c)' /\ JobHolds(c)'
    BY <1>1 DEF MemInv, JobOK, JobPlaced, JobHolds, Memory!Key
  <2>2. Remembered(c)'
    BY <1>1 DEF MemInv, JobOK, Remembered, Alone, MayWrite, Memory!Key
  <2>3. Preferred(c)' /\ Cleared(c)'
    BY <1>1 DEF MemInv, JobOK, Preferred, SetsLast, Cleared, Fresh
  <2>4. QED
    BY <2>1, <2>2, <2>3 DEF JobOK
<1>4. QED
  BY <1>2, <1>3 DEF MemInv

LEMMA MemImplies == MemInv => Memory!AnswersStand /\ Memory!ProfileForgetsCleared
<1> SUFFICES ASSUME MemInv PROVE Memory!AnswersStand /\ Memory!ProfileForgetsCleared
  OBVIOUS
<1>1. ASSUME NEW c \in Requests, Memory!Is(c, "remember", "returned"),
             Memory!Undisturbed(c, Memory!Key(c))
      PROVE  \E m \in Memory!RowOf(Memory!Key(c)) : m.value = c
  <2>1. Alone(c, Memory!Key(c))
    BY <1>1 DEF Alone, MayWrite, Memory!Undisturbed, Memory!Touches
  <2>2. PICK i \in DOMAIN memory : memory[i].key = Memory!Key(c) /\ memory[i].value = c
    BY <1>1, <2>1 DEF MemInv, JobOK, Remembered, Memory!Is
  <2>3. QED
    BY <2>2 DEF Memory!RowOf, Memory!Rows
<1>2. ASSUME NEW c \in Requests, Memory!Is(c, "prefer", "returned"), NEW f \in job[c].fields,
             \A d \in Requests \ {c} : f \in job[d].fields => d \in earlier[c]
      PROVE  preference[f] = c
  BY <1>2 DEF MemInv, JobOK, Preferred, SetsLast, Memory!Is
<1>3. Memory!AnswersStand
  BY <1>1, <1>2 DEF Memory!AnswersStand
<1>4. Memory!ProfileForgetsCleared
  <2> SUFFICES ASSUME profile # Nothing, profile.by # Former, NEW c \in earlier[profile.by],
                      Memory!Is(c, "clear", "returned"), NEW b \in profile.basis
               PROVE  b[2] \notin earlier[c] \cup {Former}
    BY DEF Memory!ProfileForgetsCleared
  <2>1. c \in Requests
    BY DEF MemInv, MemTypeOK, Memory!Profiles, Memory!Values
  <2>2. Cleared(c)
    BY <2>1 DEF MemInv, JobOK
  <2>3. QED
    BY <2>1, <2>2 DEF Cleared, Fresh, Memory!Is
<1>5. QED
  BY <1>3, <1>4

LEMMA MemoryAlways == AllSpec => [](part = "memory" => MemInv)
<1> DEFINE I == part = "memory" => MemInv
<1>1. AllInit => I
  BY MemInitially, OutreachAssumption DEF AllInit
<1>2. I /\ [AllNext]_allVars => I'
  BY MemInductive, MemStutters, OutreachAssumption
     DEF AllNext, allVars, memoryVars, Memory!vars, Memory!tables
<1>3. QED
  BY <1>1, <1>2, PTL DEF AllSpec

(* However calls about the memories and the preferences interleave and     *)
(* their statements fail, what one answered stands until another that      *)
(* writes or removes the same overlaps or follows.                         *)
THEOREM WhatIsAnsweredStands == AllSpec => []AnswersStand
<1>1. (part = "memory" => MemInv) => AnswersStand
  BY MemImplies DEF AnswersStand
<1>2. QED
  BY <1>1, MemoryAlways, PTL

(* A profile whose making began after the user cleared the memories rests  *)
(* on none that was there before.                                          *)
THEOREM ClearedIsForgotten == AllSpec => []ProfileForgetsCleared
<1>1. (part = "memory" => MemInv) => ProfileForgetsCleared
  BY MemImplies DEF ProfileForgetsCleared
<1>2. QED
  BY <1>1, MemoryAlways, PTL

-----------------------------------------------------------------------------
(* Shadow learning.                                                        *)

Stages    == {"none", "asked", "replied", "quiet", "compare", "shown"}
LaneSteps == {"none", "health", "probe", "local", "paid", "store", "response", "nothing"}
Votes     == {"none", "primary", "shadow"}
Shadows   == {"none", "ollama", "deepseek"}
LaneTypes == [step : LaneSteps, began : Int, model : Shadows]

TrainTypeOK ==
  /\ stage \in [Signals -> Stages]
  /\ lane \in [Signals -> [Training!Lanes -> LaneTypes]]
  /\ pairs \subseteq [of : Signals, lane : Training!Lanes, vote : Votes]
  /\ events \in [Signals -> [reply : Training!ReplyModels \cup {"none"}, shown : Shadows]]
  /\ vote \in [Signals -> [side : {"none", "reply", "shown"}, hasEvent : BOOLEAN]]
  /\ informed \subseteq Signals
  /\ cache.at \in Int /\ clock \in Int

(* Once shown, an exchange has what its lanes will ever store; the side    *)
(* that a vote's name stands for then is on every pair.                    *)
ShownIsReady == \A e \in Signals : stage[e] = "shown" => Training!Ready(e)

InformedAreMarked ==
  \A e \in informed :
    /\ stage[e] = "shown" /\ vote[e].side \in {"reply", "shown"}
    /\ vote[e].hasEvent =>
         \A p \in pairs : p.of = e => p.vote = Training!Side(events[e][vote[e].side])

TrainInv == TrainTypeOK /\ ShownIsReady /\ InformedAreMarked

LEMMA TrainInitially == Training!Init => TrainInv
  BY DEF Training!Init, TrainInv, TrainTypeOK, ShownIsReady, InformedAreMarked, Stages, LaneTypes,
     LaneSteps, Votes, Shadows, Training!NoLane, Training!NoVote

(* What a lane does before its exchange is ready: it goes on, and may      *)
(* store its response.                                                     *)
Goes(e, l) ==
  /\ \E new \in LaneTypes : lane' = [lane EXCEPT ![e][l] = new]
  /\ lane[e][l].step \notin {"response", "nothing"}
  /\ \A p \in pairs' : p \in pairs \/ p = [of |-> e, lane |-> l, vote |-> "none"]
  /\ UNCHANGED <<stage, events, vote, informed, clock>> /\ cache'.at \in Int

LEMMA CalledLane ==
  ASSUME NEW s \in LaneSteps, NEW course \in LaneSteps
  PROVE  [Training!NoLane EXCEPT !.step = s, !.model = Training!ShadowModel(course)] \in LaneTypes
<1>1. Training!ShadowModel(course) \in Shadows
  BY DEF Shadows, Training!ShadowModel
<1>2. Training!NoLane \in LaneTypes
  BY DEF Training!NoLane, LaneTypes, LaneSteps, Shadows
<1>3. QED
  BY <1>1, <1>2 DEF LaneTypes

LEMMA LaneGoes ==
  ASSUME TrainTypeOK, NEW e \in Signals, NEW l \in Training!Lanes,
         \/ Training!AskHealth(e, l) \/ Training!Probe(e, l) \/ Training!Call(e, l)
         \/ Training!Store(e, l)
  PROVE  Goes(e, l)
<1> USE DEF TrainTypeOK, Goes
<1>1. \A up : /\ Training!Course(l, up) \in LaneSteps
              /\ [Training!NoLane EXCEPT !.step = Training!Course(l, up)] \in LaneTypes
  BY DEF Training!Course, LaneSteps, LaneTypes, Shadows, Training!NoLane
<1>2. lane[e][l] \in LaneTypes
  OBVIOUS
<1>3. CASE Training!AskHealth(e, l)
  <2>1. [Training!NoLane EXCEPT !.step = "probe", !.began = clock] \in LaneTypes
    BY DEF LaneTypes, LaneSteps, Shadows, Training!NoLane
  <2>2. CASE clock - cache.at < 2
    <3> DEFINE new == [Training!NoLane EXCEPT !.step = Training!Course(l, cache.up)]
    <3>1. new \in LaneTypes
      BY <1>1
    <3>2. lane' = [lane EXCEPT ![e][l] = new]
      BY <1>3, <2>2 DEF Training!AskHealth, Training!Decide
    <3> HIDE DEF new
    <3>3. QED
      BY <1>3, <3>1, <3>2 DEF Training!AskHealth
  <2>3. CASE ~(clock - cache.at < 2)
    BY <1>3, <2>1, <2>3 DEF Training!AskHealth
  <2>4. QED
    BY <2>2, <2>3
<1>4. CASE Training!Probe(e, l)
  <2>1. PICK up \in BOOLEAN :
          /\ cache' = [at |-> lane[e][l].began, up |-> up]
          /\ lane' = [lane EXCEPT ![e][l] = [Training!NoLane EXCEPT !.step = Training!Course(l, up)]]
    BY <1>4 DEF Training!Probe, Training!Decide
  <2> DEFINE new == [Training!NoLane EXCEPT !.step = Training!Course(l, up)]
  <2>2. new \in LaneTypes /\ lane' = [lane EXCEPT ![e][l] = new]
    BY <1>1, <2>1
  <2>3. cache'.at \in Int
    BY <1>2, <2>1 DEF LaneTypes
  <2> HIDE DEF new
  <2>4. QED
    BY <1>4, <2>2, <2>3 DEF Training!Probe
<1>5. CASE Training!Call(e, l)
  <2>1. PICK step \in {"store", "nothing"} :
          lane' = [lane EXCEPT ![e][l] =
                     [Training!NoLane EXCEPT !.step = step,
                                             !.model = Training!ShadowModel(lane[e][l].step)]]
    BY <1>5 DEF Training!Call
  <2> DEFINE new == [Training!NoLane EXCEPT !.step = step,
                                            !.model = Training!ShadowModel(lane[e][l].step)]
  <2>2. step \in LaneSteps /\ lane[e][l].step \in LaneSteps
    BY <1>2 DEF LaneSteps, LaneTypes
  <2>3. new \in LaneTypes
    BY <2>2, CalledLane
  <2>4. lane' = [lane EXCEPT ![e][l] = new]
    BY <2>1
  <2> HIDE DEF new
  <2>5. QED
    BY <1>5, <2>3, <2>4 DEF Training!Call
<1>6. CASE Training!Store(e, l)
  <2>1. [lane[e][l] EXCEPT !.step = "response"] \in LaneTypes
    BY <1>2 DEF LaneTypes, LaneSteps
  <2>2. lane' = [lane EXCEPT ![e][l] = [lane[e][l] EXCEPT !.step = "response"]]
    BY <1>6 DEF Training!Store
  <2>3. QED
    BY <1>6, <2>1, <2>2 DEF Training!Store
<1>7. QED
  BY <1>3, <1>4, <1>5, <1>6

LEMMA LaneKeeps ==
  ASSUME TrainInv, NEW e \in Signals, NEW l \in Training!Lanes, Goes(e, l)
  PROVE  TrainInv'
<1> USE DEF TrainInv
<1>1. PICK new \in LaneTypes : lane' = [lane EXCEPT ![e][l] = new]
  BY DEF Goes
<1>2. TrainTypeOK'
  <2>1. [of |-> e, lane |-> l, vote |-> "none"] \in [of : Signals, lane : Training!Lanes, vote : Votes]
    BY DEF Votes
  <2>2. QED
    BY <1>1, <2>1 DEF Goes, TrainTypeOK
<1>3. stage[e] # "shown"
  BY DEF Goes, ShownIsReady, Training!Ready
<1>4. ShownIsReady'
  <2> SUFFICES ASSUME NEW d \in Signals, stage[d] = "shown" PROVE Training!Ready(d)'
    BY DEF ShownIsReady, Goes
  <2>1. lane'[d] = lane[d]
    BY <1>1, <1>3 DEF TrainTypeOK
  <2>2. QED
    BY <2>1 DEF ShownIsReady, Training!Ready
<1>5. InformedAreMarked'
  BY <1>3 DEF InformedAreMarked, Goes
<1>6. QED
  BY <1>2, <1>4, <1>5

LEMMA StageKeeps ==
  ASSUME TrainInv, NEW e \in Signals,
         \/ Training!Ask(e) \/ Training!Reply(e) \/ Training!Emit(e) \/ Training!ShowNothing(e)
  PROVE  TrainInv'
<1> USE DEF TrainInv
<1>1. /\ stage[e] # "shown" /\ UNCHANGED <<pairs, cache, clock, vote, informed>>
      /\ \A d \in Signals \ {e} : events'[d] = events[d]
      /\ \E s \in Stages : stage' = [stage EXCEPT ![e] = s] /\ (s = "shown" => Training!Ready(e))
  BY DEF Training!Ask, Training!Reply, Training!Emit, Training!ShowNothing, Stages, TrainTypeOK
<1>2. \/ lane' = lane
      \/ /\ Training!Reply(e)
         /\ \E new \in [Training!Lanes -> LaneTypes] : lane' = [lane EXCEPT ![e] = new]
         /\ stage'[e] # "shown"
  <2>1. [l \in Training!Lanes |-> [Training!NoLane EXCEPT !.step = "health"]]
          \in [Training!Lanes -> LaneTypes]
    BY DEF LaneTypes, LaneSteps, Shadows, Training!NoLane
  <2>2. QED
    BY <2>1 DEF Training!Ask, Training!Reply, Training!Emit, Training!ShowNothing, TrainTypeOK
<1>3. TrainTypeOK'
  <2>1. events' \in [Signals -> [reply : Training!ReplyModels \cup {"none"}, shown : Shadows]]
    <3>1. CASE Training!Reply(e)
      <4>1. PICK name \in Training!ReplyModels : events' = [events EXCEPT ![e].reply = name]
        BY <3>1 DEF Training!Reply
      <4>2. [events[e] EXCEPT !.reply = name]
              \in [reply : Training!ReplyModels \cup {"none"}, shown : Shadows]
        BY DEF TrainTypeOK
      <4>3. QED
        BY <4>1, <4>2 DEF TrainTypeOK
    <3>2. CASE Training!Emit(e)
      <4>1. \A l \in Training!Lanes : lane[e][l].model \in Shadows
        BY DEF TrainTypeOK, LaneTypes
      <4>2. PICK name \in Shadows : events' = [events EXCEPT ![e].shown = name]
        BY <3>2, <4>1 DEF Training!Emit
      <4>3. [events[e] EXCEPT !.shown = name]
              \in [reply : Training!ReplyModels \cup {"none"}, shown : Shadows]
        BY DEF TrainTypeOK
      <4>4. QED
        BY <4>2, <4>3 DEF TrainTypeOK
    <3>3. CASE Training!Ask(e) \/ Training!ShowNothing(e)
      BY <3>3 DEF Training!Ask, Training!ShowNothing, TrainTypeOK
    <3>4. QED
      BY <3>1, <3>2, <3>3
  <2>2. lane' \in [Signals -> [Training!Lanes -> LaneTypes]]
    BY <1>2 DEF TrainTypeOK
  <2>3. stage' \in [Signals -> Stages]
    BY <1>1 DEF TrainTypeOK
  <2>4. QED
    BY <1>1, <2>1, <2>2, <2>3 DEF TrainTypeOK
<1>4. ShownIsReady'
  <2> SUFFICES ASSUME NEW d \in Signals, stage'[d] = "shown" PROVE Training!Ready(d)'
    BY DEF ShownIsReady
  <2>1. lane'[d] = lane[d] /\ Training!Ready(d)
    BY <1>1, <1>2 DEF TrainTypeOK, ShownIsReady
  <2>2. QED
    BY <2>1 DEF Training!Ready
<1>5. InformedAreMarked'
  BY <1>1 DEF InformedAreMarked, TrainTypeOK
<1>6. QED
  BY <1>3, <1>4, <1>5

LEMMA VoteKeeps ==
  ASSUME TrainInv, NEW e \in Signals, Training!Vote(e)
  PROVE  TrainInv'
<1> USE DEF TrainInv
<1>1. PICK side \in {"reply", "shown"}, hasEvent \in BOOLEAN :
        /\ vote' = [vote EXCEPT ![e] = [side |-> side, hasEvent |-> hasEvent]]
        /\ pairs' = {IF p.of = e /\ hasEvent
                     THEN [p EXCEPT !.vote = Training!Side(events[e][side])] ELSE p : p \in pairs}
  <2>1. ({"reply"} \cup (IF stage[e] = "shown" THEN {"shown"} ELSE {})) \subseteq {"reply", "shown"}
    OBVIOUS
  <2> DEFINE Given(side, hasEvent) ==
        /\ vote' = [vote EXCEPT ![e] = [side |-> side, hasEvent |-> hasEvent]]
        /\ pairs' = {IF p.of = e /\ hasEvent
                     THEN [p EXCEPT !.vote = Training!Side(events[e][side])] ELSE p : p \in pairs}
  <2>2. \E side \in {"reply"} \cup (IF stage[e] = "shown" THEN {"shown"} ELSE {}),
          hasEvent \in BOOLEAN : Given(side, hasEvent)
    BY DEF Training!Vote
  <2> HIDE DEF Given
  <2>3. \E side \in {"reply", "shown"}, hasEvent \in BOOLEAN : Given(side, hasEvent)
    BY <2>1, <2>2
  <2>4. QED
    BY <2>3 DEF Given
<1> DEFINE v == Training!Side(events[e][side])
<1>2. v \in Votes
  BY DEF Training!Side, Votes
<1>3. CASE ~hasEvent
  <2>1. pairs' = pairs
    BY <1>1, <1>3
  <2>2. QED
    BY <1>1, <1>3, <2>1
       DEF Training!Vote, TrainTypeOK, ShownIsReady, Training!Ready, InformedAreMarked
<1>4. CASE hasEvent
  <2>1. pairs' = {IF p.of = e THEN [p EXCEPT !.vote = v] ELSE p : p \in pairs}
    BY <1>1, <1>4
  <2>2. /\ UNCHANGED <<stage, events, lane, cache, clock>>
        /\ informed' \subseteq informed \cup {e}
        /\ e \in informed' \ informed => stage[e] = "shown"
    BY DEF Training!Vote
  <2> HIDE DEF v
  <2>3. \A q \in pairs' : \/ q \in pairs /\ q.of # e
                          \/ q.of = e /\ q.vote = v /\ \E p \in pairs : q = [p EXCEPT !.vote = v]
    <3>1. \A p \in pairs : [p EXCEPT !.vote = v].of = p.of /\ [p EXCEPT !.vote = v].vote = v
      BY DEF TrainTypeOK
    <3>2. QED
      BY <2>1, <3>1
  <2>4. pairs' \subseteq [of : Signals, lane : Training!Lanes, vote : Votes]
    <3>1. \A p \in pairs : [p EXCEPT !.vote = v] \in [of : Signals, lane : Training!Lanes, vote : Votes]
      BY <1>2 DEF TrainTypeOK
    <3>2. QED
      BY <2>3, <3>1 DEF TrainTypeOK
  <2>5. TrainTypeOK'
    BY <1>1, <2>2, <2>4 DEF TrainTypeOK
  <2>6. ShownIsReady'
    BY <2>2 DEF ShownIsReady, Training!Ready
  <2>7. InformedAreMarked'
    <3> SUFFICES ASSUME NEW d \in informed'
                 PROVE  /\ stage[d] = "shown" /\ vote'[d].side \in {"reply", "shown"}
                        /\ vote'[d].hasEvent =>
                             \A q \in pairs' : q.of = d =>
                               q.vote = Training!Side(events[d][vote'[d].side])
      BY <2>2 DEF InformedAreMarked, Training!Side
    <3>1. CASE d = e
      BY <1>1, <2>2, <2>3, <3>1 DEF InformedAreMarked, TrainTypeOK, v
    <3>2. CASE d # e
      BY <1>1, <2>2, <2>3, <3>2 DEF InformedAreMarked, TrainTypeOK
    <3>3. QED
      BY <3>1, <3>2
  <2>8. QED
    BY <2>5, <2>6, <2>7
<1>5. QED
  BY <1>3, <1>4

LEMMA TrainInductive == TrainInv /\ Training!Next => TrainInv'
<1> SUFFICES ASSUME TrainInv, Training!Next PROVE TrainInv'
  OBVIOUS
<1>1. CASE Training!Tick
  BY <1>1 DEF Training!Tick, TrainInv, TrainTypeOK, ShownIsReady, InformedAreMarked, Training!Ready
<1>2. QED
  BY <1>1, LaneGoes, LaneKeeps, StageKeeps, VoteKeeps DEF Training!Next, TrainInv

LEMMA TrainStutters == TrainInv /\ UNCHANGED Training!vars => TrainInv'
  BY DEF TrainInv, TrainTypeOK, ShownIsReady, InformedAreMarked, Training!Ready, Training!vars

LEMMA TrainImplies == TrainInv => Training!VoteReachesPairs
<1> SUFFICES ASSUME TrainInv, NEW e \in informed, vote[e].hasEvent, NEW p \in pairs, p.of = e
             PROVE  /\ p \in Training!Voted
                    /\ p.vote = Training!Side(events[e][vote[e].side])
                    /\ Training!ToldApart(e) => Training!Output(p) = Training!ChosenBy(e, p)
  BY DEF Training!VoteReachesPairs
<1>1. /\ p.vote = Training!Side(events[e][vote[e].side])
      /\ vote[e].side \in {"reply", "shown"}
  BY DEF TrainInv, InformedAreMarked
<1>2. p \in Training!Voted
  BY <1>1 DEF Training!Voted, Training!Side
<1>3. ASSUME Training!ToldApart(e) PROVE Training!Output(p) = Training!ChosenBy(e, p)
  BY <1>1, <1>3 DEF Training!ToldApart, Training!Output, Training!ChosenBy
<1>4. QED
  BY <1>1, <1>2, <1>3

(* However lanes, health checks and votes interleave and inserts fail, a   *)
(* vote given when two responses were shown, with its event's id, is on    *)
(* every pair of its exchange, those stored later included, as the side    *)
(* that the preferred model's name stands for; where the names tell the    *)
(* sides apart the example's output is what the user chose.                *)
THEOREM VotesReachPairs == AllSpec => []VoteReachesPairs
<1> DEFINE I == part = "training" => TrainInv
<1>1. AllInit => I
  BY TrainInitially DEF AllInit
<1>2. I /\ [AllNext]_allVars => I'
  BY TrainInductive, TrainStutters DEF AllNext, allVars, trainingVars, Training!vars
<1>3. I => VoteReachesPairs
  BY TrainImplies DEF VoteReachesPairs
<1>4. QED
  BY <1>1, <1>2, <1>3, PTL DEF AllSpec
==============================================================================
