------------------------------ MODULE FeedbackLoop ------------------------------
(***************************************************************************)
(* Feedback on agents and what becomes of it: items are clustered into     *)
(* improvement proposals by the weekly swarm, proposals pass the promotion *)
(* gate (review, apply, roll back), and each decision closes or reopens    *)
(* the items behind it (server/routers/admin/feedback.ts).                 *)
(*                                                                         *)
(* No handler has a transaction: each reads, then writes by id, and every  *)
(* statement is an action. Messages, notes and counts are left out, and so *)
(* is the patch, which is always null.                                     *)
(***************************************************************************)
EXTENDS Integers, FiniteSets

CONSTANTS
  Requests,   \* requests, each issued once; what it inserts bears its name
  Items,      \* feedback of earlier days
  Past,       \* swarm runs of earlier days
  Clusters,   \* categories and severities
  Nothing     \* null

LoopAssumption ==
  /\ Requests \cap (Items \cup Past) = {} /\ Clusters # {}
  /\ Nothing \notin Requests \cup Items

AllItems  == Items \cup Requests
Proposals == (Requests \cup Past) \X Clusters   \* the swarm that made it, and of what
Open      == {"open", "triaged"}
Closed    == {"resolved", "wont_fix"}
Statuses  == Open \cup Closed \cup {"in_review"}
Decisions == {"review", "apply", "rollback"}
Over      == {"returned", "threw"}

VARIABLES
  item,      \* agent_feedback: cluster, status, and who wrote it last
  proposal,  \* feedback_improvement_proposals: status and feedbackIds
  swarm,     \* swarm_runs
  call,      \* where each request is, and what it has read
  ended      \* history: for each request those over before it began

vars == <<item, proposal, swarm, call, ended>>

NoItem     == [status |-> "none", cluster |-> Nothing, by |-> Nothing]
NoProposal == [status |-> "none", items |-> {}]
NoCall     == [op |-> "create", step |-> "none", on |-> Nothing, decision |-> "none", read |-> {}]

(* Each earlier proposal is of all items of its cluster.                   *)
Init ==
  /\ \E cluster \in [Items -> Clusters],
        status \in [Past \X Clusters -> {"proposed", "approved", "applied"}] :
       /\ proposal = [p \in Proposals |-> IF p[1] \in Past
            THEN [status |-> status[p], items |-> {i \in Items : cluster[i] = p[2]}]
            ELSE NoProposal]
       /\ item = [i \in AllItems |-> IF i \in Items
            THEN [cluster |-> cluster[i], by |-> Nothing, status |->
                    IF \E s \in Past : status[s, cluster[i]] = "applied"
                      THEN "resolved" ELSE "triaged"]
            ELSE NoItem]
  /\ swarm = [r \in Requests |-> "none"]
  /\ call = [r \in Requests |-> NoCall] /\ ended = [r \in Requests |-> {}]

-----------------------------------------------------------------------------
At(r, op, step) == call[r].op = op /\ call[r].step = step
Goto(r, step) == call' = [call EXCEPT ![r] =
  IF step \notin Over THEN [@ EXCEPT !.step = step]
    ELSE [NoCall EXCEPT !.op = call[r].op, !.on = call[r].on, !.step = step]]

Made == {p \in Proposals : proposal[p].status # "none"}
Here == {i \in AllItems : item[i].status # "none"}

Targets(op) ==
  CASE op \in Decisions     -> Made
    [] op = "updateStatus"  -> Here
    [] OTHER                -> {Nothing}

Begin(r) ==
  /\ call[r].step = "none"
  /\ \E op \in Decisions \cup {"create", "updateStatus", "swarm"} : \E on \in Targets(op) :
       call' = [call EXCEPT ![r].op = op, ![r].on = on, ![r].step = "begin"]
  /\ ended' = [ended EXCEPT ![r] = {q \in Requests : call[q].step \in Over}]
  /\ UNCHANGED <<item, proposal, swarm>>

(* A statement throws or the process dies; before its first statement a    *)
(* request has done nothing and may as well wait.                          *)
Throws(r) ==
  /\ call[r].step \notin Over \cup {"none", "begin"}
  /\ Goto(r, "threw")
  /\ UNCHANGED <<item, proposal, swarm, ended>>

-----------------------------------------------------------------------------
(* Feedback by hand.                                                       *)
Create(r) ==
  /\ At(r, "create", "begin")
  /\ \E c \in Clusters : item' =
       [item EXCEPT ![r] = [status |-> "open", cluster |-> c, by |-> r]]
  /\ Goto(r, "returned")
  /\ UNCHANGED <<proposal, swarm, ended>>

SetItems(is, status, r) == item' = [i \in AllItems |->
  IF i \in is THEN [item[i] EXCEPT !.status = status, !.by = r] ELSE item[i]]

(* Any status after any.                                                   *)
UpdateStatus(r) ==
  /\ At(r, "updateStatus", "begin")
  /\ \E status \in Statuses : SetItems({call[r].on}, status, r)
  /\ Goto(r, "returned")
  /\ UNCHANGED <<proposal, swarm, ended>>

-----------------------------------------------------------------------------
(* The swarm. It takes the items of some statuses, those not closed by     *)
(* default, so that an item may be behind several proposals.               *)
Scopes == {Open, {"open"}, Statuses}

Gather(r) ==
  /\ At(r, "swarm", "begin")
  /\ \E scope \in Scopes :
       LET found == {i \in Here : item[i].status \in scope} IN
       IF found = {} THEN Goto(r, "returned")
         ELSE call' = [call EXCEPT ![r].step = "run", ![r].read = found]
  /\ UNCHANGED <<item, proposal, swarm, ended>>

InsertRun(r) ==
  /\ At(r, "swarm", "run")
  /\ swarm' = [swarm EXCEPT ![r] = "running"]
  /\ Goto(r, "propose")
  /\ UNCHANGED <<item, proposal, ended>>

(* One proposal for each cluster, in one statement.                        *)
Clustered(r, c) == {i \in call[r].read : item[i].cluster = c}

Propose(r) ==
  /\ At(r, "swarm", "propose")
  /\ proposal' = [p \in Proposals |->
       IF p[1] = r /\ Clustered(r, p[2]) # {}
         THEN [status |-> "proposed", items |-> Clustered(r, p[2])] ELSE proposal[p]]
  /\ Goto(r, "triage")
  /\ UNCHANGED <<item, swarm, ended>>

(* Those still open.                                                       *)
Triage(r) ==
  /\ At(r, "swarm", "triage")
  /\ SetItems({i \in call[r].read : item[i].status = "open"}, "triaged", r)
  /\ Goto(r, "complete")
  /\ UNCHANGED <<proposal, swarm, ended>>

CompleteRun(r) ==
  /\ At(r, "swarm", "complete")
  /\ swarm' = [swarm EXCEPT ![r] = "completed"]
  /\ Goto(r, "returned")
  /\ UNCHANGED <<item, proposal, ended>>

-----------------------------------------------------------------------------
(* The promotion gate.                                                     *)

(* Nothing writes under_review.                                            *)
Allows(op, status) ==
  CASE op = "review"   -> status \in {"proposed", "under_review"}
    [] op = "apply"    -> status = "approved"
    [] op = "rollback" -> status = "applied"

Outcomes(op) ==
  CASE op = "review"   -> {"approved", "rejected"}
    [] op = "apply"    -> {"applied"}
    [] op = "rollback" -> {"rolled_back"}

(* The proposal is read and its status judged.                             *)
ReadProposal(r) ==
  /\ call[r].op \in Decisions /\ call[r].step = "begin"
  /\ Allows(call[r].op, proposal[call[r].on].status)
  /\ \E decision \in Outcomes(call[r].op) :
       call' = [call EXCEPT ![r].step = "decide", ![r].decision = decision]
  /\ UNCHANGED <<item, proposal, swarm, ended>>

(* It is written by id, whatever its status is by now.                     *)
Decide(r) ==
  /\ call[r].step = "decide"
  /\ proposal' = [proposal EXCEPT ![call[r].on].status = call[r].decision]
  /\ Goto(r, IF call[r].decision = "approved" THEN "returned" ELSE "items")
  /\ UNCHANGED <<item, swarm, ended>>

(* Mutant of StatusAfter: a roll back leaves the feedback as it is.        *)
StatusAfterApplied(decision) ==
  IF decision = "rejected" THEN "wont_fix" ELSE "resolved"

StatusAfter(decision) ==
  CASE decision = "rejected"    -> "wont_fix"
    [] decision = "applied"     -> "resolved"
    [] decision = "rolled_back" -> "open"

(* All items of the proposal follow, whoever has handled them meanwhile.   *)
UpdateItems(r) ==
  /\ call[r].step = "items"
  /\ SetItems(proposal[call[r].on].items, StatusAfter(call[r].decision), r)
  /\ Goto(r, "returned")
  /\ UNCHANGED <<proposal, swarm, ended>>

-----------------------------------------------------------------------------
Step(r) ==
  \/ Begin(r) \/ Throws(r) \/ Create(r) \/ UpdateStatus(r)
  \/ Gather(r) \/ InsertRun(r) \/ Propose(r) \/ Triage(r) \/ CompleteRun(r)
  \/ ReadProposal(r) \/ Decide(r) \/ UpdateItems(r)

Next == \E r \in Requests : Step(r)
Spec == Init /\ [][Next]_vars

-----------------------------------------------------------------------------
Overlap(q, r) == q # r /\ q \notin ended[r] /\ r \notin ended[q] /\ call[q].step # "none"

Rivals(r) == {q \in Requests : /\ Overlap(q, r) /\ call[q].on = call[r].on
                               /\ call[q].op \in Decisions}

(* Feedback a proposal closed stays closed by it: the proposal behind a    *)
(* resolved item is applied, behind one that will not be fixed rejected,   *)
(* unless decisions overlapped or a roll back was cut short, however many  *)
(* proposals share the item.                                               *)
ClosedByStandingDecision ==
  \A i \in Here : LET r == item[i].by IN
    item[i].status \in Closed /\ r # Nothing /\ call[r].op \in Decisions =>
      \/ proposal[call[r].on].status = IF item[i].status = "resolved" THEN "applied" ELSE "rejected"
      \/ Rivals(r) # {}
      \/ \E q \in Requests : /\ call[q].op = "rollback" /\ call[q].on = call[r].on
                             /\ call[q].step # "returned"
=============================================================================
