---------------------------- MODULE MarketingCycles ----------------------------
(***************************************************************************)
(* Marketing cycles: an administrator queues a cycle, which is worked on   *)
(* by that same request and by whoever works off the queue; a research     *)
(* cycle leaves hypotheses, an execute cycle hands one of them to the      *)
(* operators' inbox; hypotheses are reviewed, signals annotated and        *)
(* ingested (server/routers/admin/marketingAgents.ts, marketingSignals.ts, *)
(* ingestors/llc/de_scrape.ts).                                            *)
(*                                                                         *)
(* A cycle stays queued until its last statement; nothing claims it. Every *)
(* statement is an action. The vertical, the models asked and the texts    *)
(* are left out: a failing model only changes the number of ideas.         *)
(***************************************************************************)
EXTENDS Integers, FiniteSets

CONSTANTS
  Requests,   \* requests, each issued once; what it inserts bears its name
  Cycles,     \* cycles queued on earlier days
  Ideas,      \* hypotheses of earlier days
  Signals,    \* filings, by canonicalKey
  Batch,      \* bound: hypotheses of one research cycle, 3 in the code
  Nothing     \* null

ASSUME CyclesAssumption ==
  /\ Batch \in Nat \ {0}
  /\ Requests \cap (Cycles \cup Signals) = {} /\ Ideas \cap (Requests \cup Signals) = {}
  /\ (Requests \X (Cycles \cup Requests) \X (1..Batch)) \cap (Ideas \cup Requests \cup Signals) = {}
  /\ Nothing \notin Requests \cup Cycles \cup Ideas \cup Signals

Runs       == Cycles \cup Requests               \* marketing_run_log.id
Hypotheses == Ideas \cup (Requests \X Runs \X (1..Batch))
Decided    == {"approved", "rejected", "promoted"}
Modes      == {"research", "execute", "blocked"}  \* blocked: execute, by a sandbox engine
NoteOps    == {"reviewPromotion", "addNote"}
Over       == {"returned", "threw"}

VARIABLES
  cycle,       \* marketing_run_log: ok, failed, or its mode while it is queued
  hypothesis,  \* marketing_hypotheses: status, and who decided it last
  inbox,       \* items of source marketing_cycle_execute
  signals,     \* filings in marketing_signals; one made up bears its request's name
  notes,       \* of hypotheses and signals: whose notes they hold
  call,        \* where each request is, and what it has read
  ended,       \* history: for each request those over before it began
  cut          \* history: whose work on which cycle was cut short

vars == <<cycle, hypothesis, inbox, signals, notes, call, ended, cut>>

NoHypothesis == [status |-> "none", by |-> Nothing]
NoCall == [op |-> "runCycle", step |-> "none", on |-> Nothing,
           todo |-> {}, made |-> 0, idea |-> Nothing, read |-> {}]

Init ==
  /\ \E mode \in [Cycles -> Modes] :
       cycle = [c \in Runs |-> IF c \in Cycles THEN mode[c] ELSE "none"]
  /\ \E status \in [Ideas -> {"new", "rejected"}] : hypothesis = [h \in Hypotheses |->
       IF h \in Ideas THEN [status |-> status[h], by |-> Nothing] ELSE NoHypothesis]
  /\ inbox = {} /\ cut = {}
  /\ signals = {}
  /\ notes = [x \in Hypotheses \cup Signals \cup Requests |-> {}]
  /\ call = [r \in Requests |-> NoCall] /\ ended = [r \in Requests |-> {}]

-----------------------------------------------------------------------------
At(r, op, step) == call[r].op = op /\ call[r].step = step
(* Of a request that is over only a note's whereabouts are of interest.    *)
Goto(r, step) == call' = [call EXCEPT ![r] =
  IF step \notin Over THEN [@ EXCEPT !.step = step]
    ELSE IF call[r].op \in NoteOps
      THEN [NoCall EXCEPT !.op = call[r].op, !.on = call[r].on, !.step = step]
      ELSE [NoCall EXCEPT !.step = step]]

Known == {h \in Hypotheses : hypothesis[h].status # "none"}

Targets(op) ==
  IF op = "reviewPromotion" THEN Known ELSE IF op = "addNote" THEN signals ELSE {Nothing}

Begin(r) ==
  /\ call[r].step = "none"
  /\ \E op \in NoteOps \cup {"runCycle", "processQueuedCycles", "ingest"} :
       \E on \in Targets(op) :
         call' = [call EXCEPT ![r].op = op, ![r].on = on, ![r].step = "begin"]
  /\ ended' = [ended EXCEPT ![r] = {q \in Requests : call[q].step \in Over}]
  /\ UNCHANGED <<cycle, hypothesis, inbox, signals, notes, cut>>

Working(r) == call[r].op \in {"runCycle", "processQueuedCycles"} /\ call[r].on \in Runs

(* Who has left results of cycle c.                                        *)
Workers(c) == {r \in Requests : \/ \E n \in 1..Batch : hypothesis[<<r, c, n>>].status # "none"
                                \/ \E item \in inbox : item.by = r /\ item.run = c}

CutShort(r) == cut' = IF Working(r) /\ r \in Workers(call[r].on)
                        THEN cut \cup {<<r, call[r].on>>} ELSE cut

(* A statement throws or the process dies; before its first statement a    *)
(* request has done nothing and may as well wait. To the queue's worker it *)
(* is FailsOne at the end of its list.                                     *)
Throws(r) ==
  /\ call[r].step \notin Over \cup {"none", "begin"} /\ call[r].op # "processQueuedCycles"
  /\ Goto(r, "threw")
  /\ CutShort(r)
  /\ UNCHANGED <<cycle, hypothesis, inbox, signals, notes, ended>>

-----------------------------------------------------------------------------
(* Queueing. An execute cycle of a sandbox engine needs the flag           *)
(* MARKETING_ALLOW_SANDBOX_EXECUTE here, and is refused below all the      *)
(* same. Unless the bridge is off, the request works on its own cycle.     *)
RunCycle(r) ==
  /\ At(r, "runCycle", "begin")
  /\ \E mode \in Modes : cycle' = [cycle EXCEPT ![r] = mode]
  /\ \/ call' = [call EXCEPT ![r].step = "work", ![r].on = r]
     \/ Goto(r, "returned")
  /\ UNCHANGED <<hypothesis, inbox, signals, notes, ended, cut>>

(* The operators' endpoints (/ops/marketing/scrub, benchmark-refresh) leave *)
(* research cycles to the queue's worker.                                  *)
QueueOpsRun(r) ==
  /\ At(r, "runCycle", "begin")
  /\ cycle' = [cycle EXCEPT ![r] = "research"]
  /\ Goto(r, "returned")
  /\ UNCHANGED <<hypothesis, inbox, signals, notes, ended, cut>>

(* The cycles of a list are worked on one after the other; their order     *)
(* does not matter here.                                                   *)
WorkOn(r, todo) ==
  \/ todo = {} /\ Goto(r, "returned")
  \/ \E c \in todo : call' = [call EXCEPT ![r] = [NoCall EXCEPT
       !.op = call[r].op, !.step = "work", !.on = c, !.todo = todo \ {c}]]

(* Those queued, or the latest of them; /ops/marketing/score does the same. *)
ListQueued(r) ==
  /\ At(r, "processQueuedCycles", "begin")
  /\ \E todo \in SUBSET {c \in Runs : cycle[c] \in Modes} : WorkOn(r, todo)
  /\ UNCHANGED <<cycle, hypothesis, inbox, signals, notes, ended, cut>>

(* The caller carries on with the next cycle, or answers.                  *)
Advance(r) == IF call[r].op = "runCycle" THEN Goto(r, "returned") ELSE WorkOn(r, call[r].todo)

(* What one cycle throws, the queue's worker catches.                      *)
FailsOne(r) ==
  /\ call[r].op = "processQueuedCycles" /\ call[r].step \notin Over \cup {"none", "begin"}
  /\ CutShort(r)
  /\ WorkOn(r, call[r].todo)
  /\ UNCHANGED <<cycle, hypothesis, inbox, signals, notes, ended>>

(* The cycle is read; it may no longer be queued.                          *)
ReadCycle(r) ==
  /\ Working(r) /\ call[r].step = "work"
  /\ LET mode == cycle[call[r].on] IN IF mode \in Modes THEN Goto(r, mode) ELSE Advance(r)
  /\ UNCHANGED <<cycle, hypothesis, inbox, signals, notes, ended, cut>>

Write(r, status) == cycle' = [cycle EXCEPT ![call[r].on] = status]

Block(r) ==
  /\ call[r].step = "blocked"
  /\ Write(r, "failed") /\ Advance(r)
  /\ UNCHANGED <<hypothesis, inbox, signals, notes, ended, cut>>

-----------------------------------------------------------------------------
(* Research: hypotheses are inserted one by one, at least one; the models  *)
(* and the templates give no more than Batch.                              *)
InsertHypothesis(r) ==
  /\ call[r].step = "research" /\ call[r].made < Batch
  /\ LET h == <<r, call[r].on, call[r].made + 1>> IN
       hypothesis' = [hypothesis EXCEPT ![h] = [status |-> "new", by |-> Nothing]]
  /\ call' = [call EXCEPT ![r].made = @ + 1]
  /\ UNCHANGED <<cycle, inbox, signals, notes, ended, cut>>

FinishResearch(r) ==
  /\ call[r].step = "research" /\ call[r].made > 0
  /\ Write(r, "ok") /\ Advance(r)
  /\ UNCHANGED <<hypothesis, inbox, signals, notes, ended, cut>>

(* Execute: the candidate updated last, of those somebody approved, or     *)
(* nobody has looked at yet. Times are left out: it may be any of them.    *)

Candidates == {h \in Known : hypothesis[h].status \in {"promoted", "approved", "new"}}

ReadCandidate(r) ==
  /\ call[r].step = "execute"
  /\ \E h \in IF Candidates = {} THEN {Nothing} ELSE Candidates :
       call' = [call EXCEPT ![r].step = "inbox", ![r].idea = h]
  /\ UNCHANGED <<cycle, hypothesis, inbox, signals, notes, ended, cut>>

InsertItem(r) ==
  /\ call[r].step = "inbox"
  /\ inbox' = inbox \cup {[by |-> r, run |-> call[r].on, idea |-> call[r].idea]}
  /\ Goto(r, "finish")
  /\ UNCHANGED <<cycle, hypothesis, signals, notes, ended, cut>>

(* Mutant of FinishExecute: the cycle's message is written, its status not.*)
FinishWithoutStatus(r) ==
  /\ call[r].step = "finish"
  /\ Advance(r)
  /\ UNCHANGED <<cycle, hypothesis, inbox, signals, notes, ended, cut>>

FinishExecute(r) ==
  /\ call[r].step = "finish"
  /\ Write(r, "ok") /\ Advance(r)
  /\ UNCHANGED <<hypothesis, inbox, signals, notes, ended, cut>>

-----------------------------------------------------------------------------
(* Notes are appended to those read, and written whole; a review writes    *)
(* its decision with them, over any other.                                 *)
ReadNotes(r) ==
  /\ call[r].op \in NoteOps /\ call[r].step = "begin"
  /\ call' = [call EXCEPT ![r].step = "write", ![r].read = notes[call[r].on]]
  /\ UNCHANGED <<cycle, hypothesis, inbox, signals, notes, ended, cut>>

(* Mutant of Appended: the new note replaces the others.                   *)
Replaced(r) == {r}
Appended(r) == call[r].read \cup {r}

ReviewPromotion(r) ==
  /\ At(r, "reviewPromotion", "write")
  /\ \E decision \in Decided :
       hypothesis' = [hypothesis EXCEPT ![call[r].on] = [status |-> decision, by |-> r]]
  /\ notes' = [notes EXCEPT ![call[r].on] = Appended(r)]
  /\ Goto(r, "returned")
  /\ UNCHANGED <<cycle, inbox, signals, ended, cut>>

AddNote(r) ==
  /\ At(r, "addNote", "write")
  /\ notes' = [notes EXCEPT ![call[r].on] = Appended(r)]
  /\ Goto(r, "returned")
  /\ UNCHANGED <<cycle, hypothesis, inbox, signals, ended, cut>>

(* What a scrape of the register yields: some filings, or it fails.        *)
Scrapes == SUBSET Signals \ {{}}

(* Instead of a failed scrape filings are made up. Their numbers are random, *)
(* so their keys are new each time: one stands for those of a request.     *)
Synthetic(r) == {r}

(* Each filing is inserted, if its key is new; a failing insert does not   *)
(* stop the others.                                                        *)
Ingest(r) ==
  /\ At(r, "ingest", "begin")
  /\ \E filings \in Scrapes \cup {Synthetic(r)} : \E inserted \in SUBSET filings :
       signals' = signals \cup inserted
  /\ Goto(r, "returned")
  /\ UNCHANGED <<cycle, hypothesis, inbox, notes, ended, cut>>

-----------------------------------------------------------------------------
Step(r) ==
  \/ Begin(r) \/ Throws(r)
  \/ RunCycle(r) \/ QueueOpsRun(r) \/ ListQueued(r) \/ FailsOne(r) \/ ReadCycle(r) \/ Block(r)
  \/ InsertHypothesis(r) \/ FinishResearch(r)
  \/ ReadCandidate(r) \/ InsertItem(r) \/ FinishExecute(r)
  \/ ReadNotes(r) \/ ReviewPromotion(r) \/ AddNote(r) \/ Ingest(r)

Next == \E r \in Requests : Step(r)
Spec == Init /\ [][Next]_vars

-----------------------------------------------------------------------------
Overlap(q, r) == q # r /\ q \notin ended[r] /\ r \notin ended[q] /\ call[q].step # "none"

(* A cycle is worked on once, although it is claimed by nobody and stays   *)
(* queued to the end: two requests leave results of one cycle only if they *)
(* ran at the same time or one of them was cut short.                      *)
WorkedOnceUnlessOverlapping ==
  \A c \in Runs : \A q, r \in Workers(c) :
    q = r \/ Overlap(q, r) \/ {<<q, c>>, <<r, c>>} \cap cut # {}

(* A note that was reported as added stays, unless a request that writes   *)
(* the notes of the same hypothesis or signal ran at the same time.        *)
NotesLostOnlyToOverlap ==
  \A r \in Requests : LET c == call[r] IN
    c.step = "returned" /\ c.op \in NoteOps =>
      \/ r \in notes[c.on]
      \/ \E q \in Requests : Overlap(q, r) /\ call[q].op = c.op /\ call[q].on = c.on
=============================================================================
