-------------------------- MODULE PipelineApprovals -------------------------
(***************************************************************************)
(* server/services/approvalEngine.ts behind                                *)
(* server/routers/admin/pipelineApprovals.ts: administrators request       *)
(* approval of an operation and resolve each other's requests, and gates   *)
(* check, before an operation runs, that an approval is on record.         *)
(*                                                                         *)
(* Every engine function is a sequence of awaited statements without a     *)
(* transaction; each statement is an action, and the statements of         *)
(* concurrent calls interleave.                                            *)
(***************************************************************************)
EXTENDS Integers, FiniteSets

CONSTANTS
  Users,      \* administrators
  NoUser,     \* approvedBy is null
  Subjects,   \* what a request is about: operation, resourceType, resourceId
  Tier,       \* OPERATION_TIERS: the tier, 0 to 3, of each subject's operation
  Resolvers,  \* concurrent executions of resolveApproval
  Gates,      \* concurrent executions of checkApprovalGate
  TTL,        \* APPROVAL_TTL_MS, in ticks
  MaxId,      \* bound: approval records
  MaxNow      \* bound: ticks of the clock

ASSUME UsersAssumption == NoUser \notin Users /\ Users # {} /\ Subjects # {}
ASSUME TierAssumption == Tier \in [Subjects -> 0 .. 3]
ASSUME BoundsAssumption == TTL \in Nat /\ MaxId \in Nat \ {0} /\ MaxNow \in Nat

(* pipeline_approvals.id is an auto-increment.                             *)
Ids == 1 .. MaxId

VARIABLES
  now,
  status, subject, requestedBy, approvedBy, createdAt,  \* columns, by id
  resolver,   \* where each resolveApproval is, and its arguments
  gate        \* where each checkApprovalGate is, and its arguments

columns == <<status, subject, requestedBy, approvedBy, createdAt>>
vars == <<now, columns, resolver, gate>>

Statuses  == {"none", "pending", "approved", "denied", "expired"}
Decisions == {"approved", "denied"}

AnySubject == CHOOSE s \in Subjects : TRUE
AnyUser    == CHOOSE u \in Users : TRUE

ResolverAt == [step : {"idle", "read", "update", "resolved"},
               id : Ids, decision : Decisions, user : Users]
GateAt     == [step : {"idle", "read", "expire", "dual", "allowed"},
               subject : Subjects, id : Ids]

IdleResolver == [step |-> "idle", id |-> 1, decision |-> "denied", user |-> AnyUser]
IdleGate     == [step |-> "idle", subject |-> AnySubject, id |-> 1]

Init ==
  /\ now = 0
  /\ status = [i \in Ids |-> "none"]
  /\ subject = [i \in Ids |-> AnySubject]
  /\ requestedBy = [i \in Ids |-> NoUser]
  /\ approvedBy = [i \in Ids |-> NoUser]
  /\ createdAt = [i \in Ids |-> 0]
  /\ resolver = [r \in Resolvers |-> IdleResolver]
  /\ gate = [g \in Gates |-> IdleGate]

Tick ==
  /\ now < MaxNow
  /\ now' = now + 1
  /\ UNCHANGED <<columns, resolver, gate>>

-----------------------------------------------------------------------------
(* requestApproval: one insert of a pending record.                        *)
RequestApproval(i, s, u) ==
  /\ status[i] = "none"
  /\ \A j \in Ids : j < i => status[j] # "none"
  /\ status' = [status EXCEPT ![i] = "pending"]
  /\ subject' = [subject EXCEPT ![i] = s]
  /\ requestedBy' = [requestedBy EXCEPT ![i] = u]
  /\ createdAt' = [createdAt EXCEPT ![i] = now]
  /\ UNCHANGED <<now, approvedBy, resolver, gate>>

-----------------------------------------------------------------------------
(* resolveApproval: read the record, check it, update it if still pending. *)
ResolverGoto(r, step) == resolver' = [resolver EXCEPT ![r].step = step]

(* A call that answers an error leaves nothing behind.                     *)
ResolverRefuses(r) == resolver' = [resolver EXCEPT ![r] = IdleResolver]

ResolveCall(r, i, decision, u) ==
  /\ resolver[r].step \in {"idle", "resolved"}
  /\ resolver' = [resolver EXCEPT ![r] =
       [step |-> "read", id |-> i, decision |-> decision, user |-> u]]
  /\ UNCHANGED <<now, columns, gate>>

(* Mutant of MayResolve: the self-approval check is missing.               *)
MayResolveOwn(i, u) == status[i] = "pending"

(* NOT_FOUND and "Approval already resolved" (any status but pending), and *)
(* FORBIDDEN, "Cannot approve your own request".                           *)
MayResolve(i, u) == status[i] = "pending" /\ requestedBy[i] # u

ResolveRead(r) ==
  /\ resolver[r].step = "read"
  /\ IF MayResolve(resolver[r].id, resolver[r].user)
     THEN ResolverGoto(r, "update")
     ELSE ResolverRefuses(r)
  /\ UNCHANGED <<now, columns, gate>>

(* UPDATE ... WHERE id = ? AND status = 'pending'. The answer may be lost, *)
(* and the administrator told of a failure that did not happen.            *)
StillPending(i) == status[i] = "pending"

ResolveUpdate(r) ==
  LET i == resolver[r].id IN
  /\ resolver[r].step = "update"
  /\ StillPending(i)
  /\ status' = [status EXCEPT ![i] = resolver[r].decision]
  /\ approvedBy' = [approvedBy EXCEPT ![i] = resolver[r].user]
  /\ ResolverGoto(r, "resolved") \/ ResolverRefuses(r)
  /\ UNCHANGED <<now, subject, requestedBy, createdAt, gate>>

(* affectedRows = 0: CONFLICT, "already resolved by another admin".        *)
ResolveConflict(r) ==
  /\ resolver[r].step = "update"
  /\ ~StillPending(resolver[r].id)
  /\ ResolverRefuses(r)
  /\ UNCHANGED <<now, columns, gate>>

ResolveFails(r) ==
  /\ resolver[r].step \in {"read", "update"}
  /\ ResolverRefuses(r)
  /\ UNCHANGED <<now, columns, gate>>

-----------------------------------------------------------------------------
(* checkApprovalGate.                                                      *)
GateAnswers(g, step) == gate' = [gate EXCEPT ![g] = [IdleGate EXCEPT !.step = step]]
GateRefuses(g) == GateAnswers(g, "idle")
GateAllows(g)  == GateAnswers(g, "allowed")

Approved(s) == {i \in Ids : status[i] = "approved" /\ subject[i] = s}

(* Mutant of Newest: ORDER BY createdAt ASC.                               *)
OldestOf(S) == {i \in S : \A j \in S : createdAt[i] <= createdAt[j]}

(* ORDER BY createdAt DESC LIMIT 1; equal timestamps come in any order.    *)
Newest(S) == {i \in S : \A j \in S : createdAt[j] <= createdAt[i]}

Age(i) == now - createdAt[i]

(* A subject of tier 0 or 1 is allowed at once, without any statement.     *)
GateCall(g, s) ==
  /\ gate[g].step \in {"idle", "allowed"}
  /\ IF Tier[s] <= 1
     THEN GateAllows(g)
     ELSE gate' = [gate EXCEPT ![g] = [step |-> "read", subject |-> s, id |-> 1]]
  /\ UNCHANGED <<now, columns, resolver>>

GateFindsNone(g) ==
  /\ gate[g].step = "read"
  /\ Approved(gate[g].subject) = {}
  /\ GateRefuses(g)
  /\ UNCHANGED <<now, columns, resolver>>

GateFindsStale(g) ==
  /\ gate[g].step = "read"
  /\ \E i \in Newest(Approved(gate[g].subject)) :
       /\ Age(i) > TTL
       /\ gate' = [gate EXCEPT ![g].step = "expire", ![g].id = i]
  /\ UNCHANGED <<now, columns, resolver>>

(* Mutant of GateFindsFresh: the tier is not asked for dual approval.      *)
GateSkipsDual(g) ==
  /\ gate[g].step = "read"
  /\ \E i \in Newest(Approved(gate[g].subject)) : Age(i) <= TTL
  /\ GateAllows(g)
  /\ UNCHANGED <<now, columns, resolver>>

GateFindsFresh(g) ==
  /\ gate[g].step = "read"
  /\ \E i \in Newest(Approved(gate[g].subject)) : Age(i) <= TTL
  /\ IF Tier[gate[g].subject] = 3
     THEN gate' = [gate EXCEPT ![g].step = "dual"]
     ELSE GateAllows(g)
  /\ UNCHANGED <<now, columns, resolver>>

(* UPDATE ... SET status = 'expired' WHERE id = ?, whatever it is by then. *)
GateExpire(g) ==
  /\ gate[g].step = "expire"
  /\ status' = [status EXCEPT ![gate[g].id] = "expired"]
  /\ GateRefuses(g)
  /\ UNCHANGED <<now, subject, requestedBy, approvedBy, createdAt, resolver>>

(* Tier 3: the second query; LIMIT 10 is beyond the bound on records.      *)
Approvers(s) == {approvedBy[i] : i \in Approved(s)}

GateDual(g) ==
  /\ gate[g].step = "dual"
  /\ IF Cardinality(Approvers(gate[g].subject)) < 2
     THEN GateRefuses(g)
     ELSE GateAllows(g)
  /\ UNCHANGED <<now, columns, resolver>>

(* The database is unavailable or a statement fails: allowed = false.      *)
GateFails(g) ==
  /\ gate[g].step \in {"read", "expire", "dual"}
  /\ GateRefuses(g)
  /\ UNCHANGED <<now, columns, resolver>>

-----------------------------------------------------------------------------
Next ==
  \/ Tick
  \/ \E i \in Ids, s \in Subjects, u \in Users : RequestApproval(i, s, u)
  \/ \E r \in Resolvers :
       \/ \E i \in Ids, d \in Decisions, u \in Users : ResolveCall(r, i, d, u)
       \/ ResolveRead(r) \/ ResolveUpdate(r) \/ ResolveConflict(r) \/ ResolveFails(r)
  \/ \E g \in Gates :
       \/ \E s \in Subjects : GateCall(g, s)
       \/ GateFindsNone(g) \/ GateFindsStale(g) \/ GateFindsFresh(g)
       \/ GateExpire(g) \/ GateDual(g) \/ GateFails(g)

Spec == Init /\ [][Next]_vars

-----------------------------------------------------------------------------
TypeOK ==
  /\ now \in 0 .. MaxNow
  /\ status \in [Ids -> Statuses]
  /\ subject \in [Ids -> Subjects]
  /\ requestedBy \in [Ids -> Users \cup {NoUser}]
  /\ approvedBy \in [Ids -> Users \cup {NoUser}]
  /\ createdAt \in [Ids -> 0 .. MaxNow]
  /\ resolver \in [Resolvers -> ResolverAt]
  /\ gate \in [Gates -> GateAt]

(* The whole store behaves as if every request were decided atomically,    *)
(* once, by someone else than the requester, and lapsed only when old:     *)
(* the reads, the conditional update and the gate's unconditional one      *)
(* cannot re-decide, re-open or revive a record.                           *)
Ledger == INSTANCE ApprovalLedger WITH decidedBy <- approvedBy

LedgerIsAtomic == Ledger!Spec

(* "Prevents race condition where two admins approve simultaneously": when *)
(* resolveApproval answers success, the record says what this very call    *)
(* decided, whoever else was resolving it, and goes on saying it.          *)
SuccessMeansRecorded ==
  \A r \in Resolvers :
    resolver[r].step = "resolved" =>
      LET i == resolver[r].id IN
      /\ approvedBy[i] = resolver[r].user
      /\ \/ status[i] = resolver[r].decision
         \/ status[i] = "expired" /\ resolver[r].decision = "approved"

Fresh(s) == {i \in Approved(s) : Age(i) <= TTL}

BecomesAllowed(g) ==
  gate[g].step \in {"read", "dual"} /\ gate'[g].step = "allowed"

ByAnother(i) == approvedBy[i] \in Users \ {requestedBy[i]}

(* An operation of tier 2 is let through only on an approval that is on    *)
(* record, no older than 24 hours, and given by someone who had not asked  *)
(* for it; one of tier 3 only on approvals by two administrators.          *)
GateAllowsOnlyApproved ==
  [][\A g \in Gates :
       BecomesAllowed(g) =>
         LET s == gate[g].subject IN
         /\ Tier[s] = 2 => \E i \in Fresh(s) : ByAnother(i)
         /\ Tier[s] = 3 => \E i, j \in Approved(s) :
                             /\ ByAnother(i) /\ ByAnother(j)
                             /\ approvedBy[i] # approvedBy[j]]_vars

(* Conversely, the gate gives up on a subject for want of an approval only *)
(* when there is no fresh one: looking at the newest alone is enough.      *)
GateOverlooksNothing ==
  [][\A g \in Gates :
       GateFindsNone(g) \/ GateFindsStale(g) => Fresh(gate[g].subject) = {}]_vars
=============================================================================
