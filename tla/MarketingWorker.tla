---------------------------- MODULE MarketingWorker ----------------------------
(***************************************************************************)
(* scripts/gcp/worker/main.py: a scheduler's messages are pushed to this   *)
(* service, which runs the job a message names, inserts what it yields     *)
(* into one table, and records the run in another. An answer of 200        *)
(* acknowledges the message; without one Pub/Sub delivers it again, also   *)
(* while an earlier delivery still runs. Pub/Sub is modelled from this.    *)
(*                                                                         *)
(* Every call of BigQuery may fail, before or after it took effect.        *)
(***************************************************************************)
EXTENDS Naturals, FiniteSets

CONSTANTS
  Messages,   \* messages of the scheduler
  Tries       \* bound of the model: deliveries of a message

WorkerAssumption == Tries \in Nat \ {0}

Deliveries == Messages \X (1..Tries)

(* What a message asks for: a job that inserts rows, one that only reads   *)
(* (daily-report), no job that is known, or nothing, as it is JSON but no  *)
(* object.                                                                 *)
Forms == {"insert", "read", "unknown", "scalar"}

VARIABLES
  form,      \* of each message
  step,      \* where each delivery is
  rows,      \* deliveries whose rows are in their table
  audit,     \* agent_run_audit: deliveries and their status
  acked      \* messages acknowledged

vars == <<form, step, rows, audit, acked>>

Over == {"answered", "refused", "died"}

Init ==
  /\ form \in [Messages -> Forms]
  /\ step = [d \in Deliveries |-> "none"]
  /\ rows = {} /\ audit = {} /\ acked = {}

Goto(d, s) == step' = [step EXCEPT ![d] = s]

Deliver(d) ==
  /\ d[1] \notin acked /\ step[d] = "none"
  /\ \A n \in 1..(d[2] - 1) : step[<<d[1], n>>] # "none"
  /\ Goto(d, "named")
  /\ UNCHANGED <<form, rows, audit, acked>>

(* The job is named by the payload, be it JSON, nearly JSON or plain text, *)
(* or by an attribute. A payload without names raises outside the try.     *)
Name(d) ==
  /\ step[d] = "named"
  /\ Goto(d, IF form[d[1]] = "scalar" THEN "refused" ELSE "dispatch")
  /\ UNCHANGED <<form, rows, audit, acked>>

(* The rows of a job are one insert. *)
Dispatch(d) ==
  /\ step[d] = "dispatch"
  /\ \E inserted \in BOOLEAN, raised \in BOOLEAN :
       /\ inserted => form[d[1]] = "insert"
       /\ raised => form[d[1]] # "unknown"
       /\ form[d[1]] = "insert" => inserted \/ raised
       /\ rows' = IF inserted THEN rows \cup {d} ELSE rows
       /\ Goto(d, IF raised THEN "failure" ELSE "success")
  /\ UNCHANGED <<form, audit, acked>>

(* Mutant of Answer: a failure is answered like a success.                 *)
AnswerOk(status) == "answered"

Answer(status) == IF status = "success" THEN "answered" ELSE "refused"

(* log_run; that of a success is inside the try, that of a failure is not. *)
LogRun(d, status) ==
  /\ step[d] = status
  /\ \E inserted \in BOOLEAN, raised \in BOOLEAN :
       /\ inserted \/ raised
       /\ audit' = IF inserted THEN audit \cup {<<d, status>>} ELSE audit
       /\ Goto(d, IF ~ raised THEN Answer(status)
                  ELSE IF status = "success" THEN "failure" ELSE "refused")
  /\ UNCHANGED <<form, rows, acked>>

(* Pub/Sub gets the answer.                                                *)
Ack(d) ==
  /\ step[d] = "answered" /\ d[1] \notin acked
  /\ acked' = acked \cup {d[1]}
  /\ UNCHANGED <<form, step, rows, audit>>

(* The instance that serves a delivery ends.                               *)
Die(d) ==
  /\ step[d] \notin Over \cup {"none"}
  /\ Goto(d, "died")
  /\ UNCHANGED <<form, rows, audit, acked>>

Next == \E d \in Deliveries :
  Deliver(d) \/ Name(d) \/ Dispatch(d) \/ LogRun(d, "success") \/ LogRun(d, "failure")
    \/ Ack(d) \/ Die(d)

Spec == Init /\ [][Next]_vars

-----------------------------------------------------------------------------
(* A message that will not come again has been worked off: a delivery of   *)
(* it is recorded as a success, and the rows of every recorded success of  *)
(* an inserting job are in, however often it failed before.                *)
AckedIsDone ==
  /\ \A m \in acked : \E n \in 1..Tries : <<<<m, n>>, "success">> \in audit
  /\ \A d \in Deliveries : <<d, "success">> \in audit /\ form[d[1]] = "insert" => d \in rows
=============================================================================
