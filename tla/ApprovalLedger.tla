--------------------------- MODULE ApprovalLedger ---------------------------
(***************************************************************************)
(* The durable approval store as the people who use it see it: a request   *)
(* is decided at most once, in one atomic step, by someone other than its  *)
(* requester; the decision is final, except that a granted approval lapses *)
(* once it is older than TTL.                                              *)
(***************************************************************************)
EXTENDS Integers

CONSTANTS Ids,      \* approval records
          Users,    \* administrators
          TTL       \* how long after its creation an approval may be used

VARIABLES now,          \* the clock
          status,       \* "none" until the record exists
          requestedBy,  \* who asked
          decidedBy,    \* who decided, NoUser before
          createdAt     \* when it was asked for

ledger == <<status, requestedBy, decidedBy, createdAt>>

CONSTANT NoUser

Init ==
  /\ now = 0
  /\ status = [i \in Ids |-> "none"]
  /\ requestedBy = [i \in Ids |-> NoUser]
  /\ decidedBy = [i \in Ids |-> NoUser]
  /\ createdAt = [i \in Ids |-> 0]

Ask(i, u) ==
  /\ status[i] = "none"
  /\ status' = [status EXCEPT ![i] = "pending"]
  /\ requestedBy' = [requestedBy EXCEPT ![i] = u]
  /\ createdAt' = [createdAt EXCEPT ![i] = now]
  /\ UNCHANGED <<now, decidedBy>>

Decide(i, u, decision) ==
  /\ status[i] = "pending"
  /\ requestedBy[i] # u
  /\ status' = [status EXCEPT ![i] = decision]
  /\ decidedBy' = [decidedBy EXCEPT ![i] = u]
  /\ UNCHANGED <<now, requestedBy, createdAt>>

Lapse(i) ==
  /\ status[i] = "approved"
  /\ now - createdAt[i] > TTL
  /\ status' = [status EXCEPT ![i] = "expired"]
  /\ UNCHANGED <<now, requestedBy, decidedBy, createdAt>>

Wait == now' = now + 1 /\ UNCHANGED ledger

Next ==
  \/ \E i \in Ids, u \in Users : \/ Ask(i, u)
                                 \/ Decide(i, u, "approved")
                                 \/ Decide(i, u, "denied")
  \/ \E i \in Ids : Lapse(i)
  \/ Wait

Spec == Init /\ [][Next]_<<now, ledger>>
=============================================================================
