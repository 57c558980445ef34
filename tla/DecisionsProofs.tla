--------------------------- MODULE DecisionsProofs ---------------------------
(***************************************************************************)
(* What racing decisions come to: the approval engine's guarantees, for    *)
(* every number of records, administrators and concurrent calls and every  *)
(* assignment of tiers; those of reservePromo, for every set of codes,     *)
(* intakes and concurrent calls and every maxRedemptions; what a sign-in   *)
(* and a server's start leave, for every number of servers, accounts and   *)
(* requests; and whom a guardian guards, for every number of users.        *)
(***************************************************************************)
EXTENDS MCDecisions, Sequences, FiniteSetTheorems, TLAPS

(* Who decided a record is not who asked for it.                           *)
DecidedByAnother ==
  \A i \in Ids :
    status[i] \in {"approved", "denied", "expired"} => ByAnother(i)

(* The self-approval check is made before the update and still holds at    *)
(* it: the requester of a record that exists never changes.                *)
UpdatersChecked ==
  \A r \in Resolvers :
    resolver[r].step = "update" =>
      /\ status[resolver[r].id] # "none"
      /\ requestedBy[resolver[r].id] # resolver[r].user

(* The gate's unconditional update hits a record that was approved and too *)
(* old when read, and that can only have expired since.                    *)
ExpiringIsOld ==
  \A g \in Gates :
    gate[g].step = "expire" =>
      /\ status[gate[g].id] \in {"approved", "expired"}
      /\ Age(gate[g].id) > TTL

(* Only operations that need an approval reach the queries, and only those *)
(* that need two reach the second one.                                     *)
GatedTiers ==
  \A g \in Gates :
    gate[g].step = "dual" => Tier[gate[g].subject] = 3

IInv ==
  /\ TypeOK
  /\ DecidedByAnother
  /\ UpdatersChecked
  /\ SuccessMeansRecorded
  /\ ExpiringIsOld
  /\ GatedTiers

-----------------------------------------------------------------------------
LEMMA IdleTyped == /\ AnySubject \in Subjects /\ AnyUser \in Users
                   /\ 1 \in Ids
                   /\ IdleResolver \in ResolverAt
                   /\ IdleGate \in GateAt
<1>1. AnySubject \in Subjects /\ AnyUser \in Users
  BY UsersAssumption DEF AnySubject, AnyUser
<1>2. 1 \in Ids
  BY BoundsAssumption DEF Ids
<1>3. QED
  BY <1>1, <1>2 DEF IdleResolver, IdleGate, ResolverAt, GateAt, Decisions

LEMMA InitIInv == Init => IInv
<1> SUFFICES ASSUME Init PROVE IInv
  OBVIOUS
<1>1. TypeOK
  BY IdleTyped, BoundsAssumption DEF Init, TypeOK, Statuses
<1>2. QED
  BY <1>1 DEF Init, IInv, DecidedByAnother, UpdatersChecked,
     SuccessMeansRecorded, ExpiringIsOld, GatedTiers, IdleResolver, IdleGate

-----------------------------------------------------------------------------
(* What each call does to its own slot keeps the slot well typed.          *)
LEMMA TypeOKStep == TypeOK /\ [Next]_vars => TypeOK'
<1> SUFFICES ASSUME TypeOK, [Next]_vars PROVE TypeOK'
  OBVIOUS
<1> USE IdleTyped, BoundsAssumption DEF TypeOK, columns
<1>1. CASE Tick
  BY <1>1 DEF Tick
<1>2. ASSUME NEW i \in Ids, NEW s \in Subjects, NEW u \in Users,
             RequestApproval(i, s, u)
      PROVE  TypeOK'
  BY <1>2 DEF RequestApproval, Statuses
<1>3. ASSUME NEW r \in Resolvers, NEW i \in Ids, NEW d \in Decisions,
             NEW u \in Users, ResolveCall(r, i, d, u)
      PROVE  TypeOK'
  BY <1>3 DEF ResolveCall, ResolverAt
<1>4. ASSUME NEW r \in Resolvers,
             ResolveRead(r) \/ ResolveConflict(r) \/ ResolveFails(r)
      PROVE  TypeOK'
  BY <1>4 DEF ResolveRead, ResolveConflict, ResolveFails, ResolverGoto,
              ResolverRefuses, ResolverAt
<1>5. ASSUME NEW r \in Resolvers, ResolveUpdate(r) PROVE TypeOK'
  <2>1. resolver[r].decision \in Statuses /\ resolver[r].user \in Users
    BY DEF ResolverAt, Decisions, Statuses
  <2>2. resolver' \in [Resolvers -> ResolverAt]
    BY <1>5 DEF ResolveUpdate, ResolverGoto, ResolverRefuses, ResolverAt
  <2>3. QED
    BY <1>5, <2>1, <2>2 DEF ResolveUpdate
<1>6. ASSUME NEW g \in Gates, NEW s \in Subjects, GateCall(g, s)
      PROVE  TypeOK'
  BY <1>6 DEF GateCall, GateAllows, GateAnswers, GateAt, IdleGate
<1>7. ASSUME NEW g \in Gates,
             GateFindsNone(g) \/ GateFindsStale(g) \/ GateFindsFresh(g)
               \/ GateDual(g) \/ GateFails(g)
      PROVE  TypeOK'
  <2>1. ASSUME NEW i \in Newest(Approved(gate[g].subject)) PROVE i \in Ids
    BY DEF Newest, Approved
  <2>2. QED
    BY <1>7, <2>1
       DEF GateFindsNone, GateFindsStale, GateFindsFresh, GateDual, GateFails,
           GateAllows, GateRefuses, GateAnswers, GateAt, IdleGate
<1>8. ASSUME NEW g \in Gates, GateExpire(g) PROVE TypeOK'
  BY <1>8 DEF GateExpire, GateRefuses, GateAnswers, GateAt, IdleGate, Statuses
<1>9. CASE UNCHANGED vars
  BY <1>9 DEF vars
<1>10. QED
  BY <1>1, <1>2, <1>3, <1>4, <1>5, <1>6, <1>7, <1>8, <1>9 DEF Next

-----------------------------------------------------------------------------
(* A step that leaves the records and the clock alone preserves what is    *)
(* said about the calls that do not move.                                  *)
LEMMA NextIInv == IInv /\ [Next]_vars => IInv'
<1> SUFFICES ASSUME IInv, [Next]_vars PROVE IInv'
  OBVIOUS
<1>t. TypeOK /\ TypeOK'
  BY TypeOKStep DEF IInv
<1> USE IdleTyped DEF columns, ByAnother, Age
<1>1. CASE Tick
  <2>1. \A i \in Ids : Age(i)' >= Age(i)
    BY <1>1, <1>t DEF Tick, TypeOK
  <2>2. ExpiringIsOld'
    BY <1>1, <2>1, <1>t, BoundsAssumption
       DEF Tick, IInv, ExpiringIsOld, TypeOK, GateAt
  <2>3. QED
    BY <1>1, <1>t, <2>2 DEF Tick, IInv, DecidedByAnother, UpdatersChecked,
       SuccessMeansRecorded, GatedTiers
<1>2. ASSUME NEW i \in Ids, NEW s \in Subjects, NEW u \in Users,
             RequestApproval(i, s, u)
      PROVE  IInv'
  <2> USE <1>2, <1>t DEF RequestApproval, IInv, TypeOK
  <2>1. DecidedByAnother'
    BY DEF DecidedByAnother
  <2>2. UpdatersChecked'
    BY DEF UpdatersChecked, ResolverAt
  <2>3. SuccessMeansRecorded'
    BY DEF SuccessMeansRecorded, ResolverAt, Decisions
  <2>4. ExpiringIsOld' /\ GatedTiers'
    BY DEF ExpiringIsOld, GatedTiers, GateAt
  <2>5. QED
    BY <2>1, <2>2, <2>3, <2>4
<1>3. ASSUME NEW r \in Resolvers, NEW i \in Ids, NEW d \in Decisions,
             NEW u \in Users, ResolveCall(r, i, d, u)
      PROVE  IInv'
  BY <1>3, <1>t DEF ResolveCall, IInv, TypeOK, DecidedByAnother,
     UpdatersChecked, SuccessMeansRecorded, ExpiringIsOld, GatedTiers
<1>4. ASSUME NEW r \in Resolvers,
             ResolveRead(r) \/ ResolveConflict(r) \/ ResolveFails(r)
      PROVE  IInv'
  <2> USE <1>4, <1>t DEF ResolveRead, ResolveConflict, ResolveFails,
          ResolverGoto, ResolverRefuses, IInv, TypeOK
  <2>1. UpdatersChecked'
    BY DEF UpdatersChecked, MayResolve, ResolverAt, IdleResolver
  <2>2. SuccessMeansRecorded'
    BY DEF SuccessMeansRecorded, ResolverAt, IdleResolver
  <2>3. DecidedByAnother' /\ ExpiringIsOld' /\ GatedTiers'
    BY DEF DecidedByAnother, ExpiringIsOld, GatedTiers
  <2>4. QED
    BY <2>1, <2>2, <2>3
<1>5. ASSUME NEW r \in Resolvers, ResolveUpdate(r) PROVE IInv'
  <2>1. PICK i \in Ids : i = resolver[r].id
    BY <1>t DEF TypeOK, ResolverAt
  <2>2. /\ status[i] = "pending"
        /\ requestedBy[i] # resolver[r].user /\ resolver[r].user \in Users
        /\ resolver[r].decision \in {"approved", "denied"}
        /\ status' = [status EXCEPT ![i] = resolver[r].decision]
        /\ approvedBy' = [approvedBy EXCEPT ![i] = resolver[r].user]
        /\ UNCHANGED <<now, subject, requestedBy, createdAt, gate>>
        /\ resolver[r].step = "update"
    BY <1>5, <2>1, <1>t DEF ResolveUpdate, StillPending, IInv, UpdatersChecked,
       TypeOK, ResolverAt, Decisions
  <2>3. \/ resolver' = [resolver EXCEPT ![r].step = "resolved"]
        \/ resolver' = [resolver EXCEPT ![r] = IdleResolver]
    BY <1>5 DEF ResolveUpdate, ResolverGoto, ResolverRefuses
  <2>4. DecidedByAnother'
    BY <2>2, <1>t DEF DecidedByAnother, IInv, TypeOK
  <2>5. UpdatersChecked'
    BY <2>2, <2>3, <1>t DEF UpdatersChecked, IInv, TypeOK, IdleResolver, ResolverAt
  <2>6. SuccessMeansRecorded'
    <3>1. ASSUME NEW q \in Resolvers \ {r}, resolver'[q].step = "resolved"
          PROVE  /\ resolver'[q] = resolver[q]
                 /\ resolver[q].id # i
      BY <3>1, <2>2, <2>3, <1>t
         DEF SuccessMeansRecorded, IInv, TypeOK, ResolverAt, Decisions
    <3>2. QED
      BY <2>1, <2>2, <2>3, <3>1, <1>t
         DEF SuccessMeansRecorded, IInv, TypeOK, ResolverAt, IdleResolver
  <2>7. ExpiringIsOld' /\ GatedTiers'
    BY <2>2, <1>t DEF ExpiringIsOld, GatedTiers, IInv, TypeOK, GateAt
  <2>8. QED
    BY <1>t, <2>4, <2>5, <2>6, <2>7 DEF IInv
<1>6. ASSUME NEW g \in Gates, NEW s \in Subjects, GateCall(g, s) PROVE IInv'
  BY <1>6, <1>t DEF GateCall, GateAllows, GateAnswers, IInv, TypeOK, IdleGate,
     DecidedByAnother, UpdatersChecked, SuccessMeansRecorded, ExpiringIsOld,
     GatedTiers
<1>7. ASSUME NEW g \in Gates,
             GateFindsNone(g) \/ GateFindsStale(g) \/ GateFindsFresh(g)
               \/ GateDual(g) \/ GateFails(g)
      PROVE  IInv'
  <2>1. UNCHANGED <<now, columns, resolver>>
    BY <1>7 DEF GateFindsNone, GateFindsStale, GateFindsFresh, GateDual,
                GateFails
  <2>2. ExpiringIsOld'
    <3>1. ASSUME NEW i \in Newest(Approved(gate[g].subject))
          PROVE  i \in Ids /\ status[i] = "approved"
      BY DEF Newest, Approved
    <3>2. QED
      BY <1>7, <3>1, <2>1, <1>t
         DEF GateFindsNone, GateFindsStale, GateFindsFresh, GateDual, GateFails,
             GateAllows, GateRefuses, GateAnswers, IdleGate, GateAt, IInv,
             TypeOK, ExpiringIsOld
  <2>3. GatedTiers'
    BY <1>7, <1>t
       DEF GateFindsNone, GateFindsStale, GateFindsFresh, GateDual, GateFails,
           GateAllows, GateRefuses, GateAnswers, IdleGate, GateAt, IInv,
           TypeOK, GatedTiers
  <2>4. QED
    BY <1>t, <2>1, <2>2, <2>3
       DEF IInv, DecidedByAnother, UpdatersChecked, SuccessMeansRecorded
<1>8. ASSUME NEW g \in Gates, GateExpire(g) PROVE IInv'
  <2> USE <1>8, <1>t DEF GateExpire, GateRefuses, GateAnswers, IInv, TypeOK
  <2>1. PICK i \in Ids : i = gate[g].id
    BY DEF GateAt
  <2>2. status[i] \in {"approved", "expired"}
    BY <2>1 DEF ExpiringIsOld
  <2>3. DecidedByAnother'
    BY <2>1, <2>2 DEF DecidedByAnother
  <2>4. UpdatersChecked'
    BY <2>1 DEF UpdatersChecked, ResolverAt
  <2>5. SuccessMeansRecorded'
    BY <2>1, <2>2 DEF SuccessMeansRecorded, ResolverAt, Decisions
  <2>6. ExpiringIsOld' /\ GatedTiers'
    BY DEF ExpiringIsOld, GatedTiers, GateAt, IdleGate
  <2>7. QED
    BY <2>3, <2>4, <2>5, <2>6
<1>9. CASE UNCHANGED vars
  BY <1>9, <1>t DEF vars, IInv, DecidedByAnother, UpdatersChecked,
     SuccessMeansRecorded, ExpiringIsOld, GatedTiers
<1>10. QED
  BY <1>1, <1>2, <1>3, <1>4, <1>5, <1>6, <1>7, <1>8, <1>9 DEF Next

(* The inductive invariant holds throughout.                               *)
LEMMA Invariance == Spec => []IInv
  BY InitIInv, NextIInv, PTL DEF Spec

LEMMA ApprovalsPart == AllSpec => Spec
<1>1. AllInit => Init
  BY DEF AllInit
<1>2. [AllNext]_allVars => [Next]_vars
  BY DEF AllNext, allVars, vars
<1>3. QED
  BY <1>1, <1>2, PTL DEF AllSpec, Spec

-----------------------------------------------------------------------------
(* Every column and local keeps its type.                                  *)
THEOREM TypeCorrect == AllSpec => []TypeOK
<1>1. IInv => TypeOK
  BY DEF IInv
<1>2. QED
  BY <1>1, Invariance, ApprovalsPart, PTL

(* However many administrators resolve a record at once, the one who was   *)
(* told of success is the one the record names, for ever.                  *)
THEOREM WinnerIsRecorded == AllSpec => []SuccessMeansRecorded
<1>1. IInv => SuccessMeansRecorded
  BY DEF IInv
<1>2. QED
  BY <1>1, Invariance, ApprovalsPart, PTL

(* The engine's reads and updates implement atomic, final decisions by     *)
(* someone other than the requester, and lapses of old approvals only.     *)
THEOREM LedgerRefinement == AllSpec => LedgerIsAtomic
<1>1. Init => Ledger!Init
  BY DEF Init, Ledger!Init
<1>2. IInv /\ [Next]_vars => [Ledger!Next]_<<now, Ledger!ledger>>
  <2> SUFFICES ASSUME IInv, [Next]_vars
               PROVE  Ledger!Next \/ UNCHANGED <<now, Ledger!ledger>>
    OBVIOUS
  <2> USE DEF Ledger!ledger, columns
  <2>1. CASE Tick
    BY <2>1 DEF Tick, Ledger!Next, Ledger!Wait
  <2>2. ASSUME NEW i \in Ids, NEW s \in Subjects, NEW u \in Users,
               RequestApproval(i, s, u)
        PROVE  Ledger!Next
    <3>1. Ledger!Ask(i, u)
      BY <2>2 DEF RequestApproval, Ledger!Ask
    <3>2. QED
      BY <3>1 DEF Ledger!Next
  <2>3. ASSUME NEW r \in Resolvers, ResolveUpdate(r) PROVE Ledger!Next
    <3>1. PICK i \in Ids, u \in Users, d \in Decisions :
             i = resolver[r].id /\ u = resolver[r].user /\ d = resolver[r].decision
      BY DEF IInv, TypeOK, ResolverAt
    <3>2. Ledger!Decide(i, u, d)
      BY <2>3, <3>1 DEF ResolveUpdate, StillPending, Ledger!Decide, IInv,
         UpdatersChecked
    <3>3. QED
      BY <3>2 DEF Ledger!Next, Decisions
  <2>4. ASSUME NEW g \in Gates, GateExpire(g)
        PROVE  Ledger!Next \/ UNCHANGED <<now, Ledger!ledger>>
    <3>1. PICK i \in Ids : i = gate[g].id
      BY DEF IInv, TypeOK, GateAt
    <3>2. status[i] \in {"approved", "expired"} /\ now - createdAt[i] > TTL
      BY <2>4, <3>1 DEF GateExpire, IInv, ExpiringIsOld, Age
    <3>3. CASE status[i] = "approved"
      <4>1. Ledger!Lapse(i)
        BY <2>4, <3>1, <3>2, <3>3 DEF GateExpire, Ledger!Lapse
      <4>2. QED
        BY <4>1 DEF Ledger!Next
    <3>4. CASE status[i] = "expired"
      BY <2>4, <3>1, <3>4 DEF GateExpire, IInv, TypeOK
    <3>5. QED
      BY <3>2, <3>3, <3>4
  <2>5. CASE UNCHANGED <<now, columns>>
    BY <2>5
  <2>6. QED
    BY <2>1, <2>2, <2>3, <2>4, <2>5
       DEF Next, vars, ResolveCall, ResolveRead, ResolveConflict, ResolveFails,
           GateCall, GateFindsNone, GateFindsStale, GateFindsFresh, GateDual,
           GateFails
<1>3. QED
  BY <1>1, <1>2, Invariance, ApprovalsPart, PTL DEF Spec, LedgerIsAtomic, Ledger!Spec

-----------------------------------------------------------------------------
LEMMA TwoDistinct ==
  ASSUME NEW S, ~(Cardinality(S) < 2)
  PROVE  \E a, b \in S : a # b
<1> SUFFICES ASSUME \A a, b \in S : a = b PROVE Cardinality(S) < 2
  OBVIOUS
<1>1. CASE S = {}
  BY <1>1, FS_EmptySet
<1>2. CASE S # {}
  <2>1. PICK a \in S : S = {a}
    BY <1>2
  <2>2. Cardinality({a}) = 1
    BY FS_Singleton
  <2>3. QED
    BY <2>1, <2>2
<1>3. QED
  BY <1>1, <1>2

(* checkApprovalGate lets a tier 2 operation through only on a fresh       *)
(* approval by someone other than its requester, and a tier 3 operation    *)
(* only on approvals by two administrators.                                *)
THEOREM GateIsSound == AllSpec => GateAllowsOnlyApproved
<1>1. ASSUME IInv, [Next]_vars, NEW g \in Gates, BecomesAllowed(g)
      PROVE  LET s == gate[g].subject IN
             /\ Tier[s] = 2 => \E i \in Fresh(s) : ByAnother(i)
             /\ Tier[s] = 3 => \E i, j \in Approved(s) :
                                 /\ ByAnother(i) /\ ByAnother(j)
                                 /\ approvedBy[i] # approvedBy[j]
  <2> DEFINE s == gate[g].subject
  <2>1. GateFindsFresh(g) \/ GateDual(g)
    <3>1. gate'[g] # gate[g] /\ gate[g].step \in {"read", "dual"}
      BY <1>1 DEF BecomesAllowed
    <3>2. PICK h \in Gates :
            \/ \E t \in Subjects : GateCall(h, t)
            \/ GateFindsNone(h) \/ GateFindsStale(h) \/ GateFindsFresh(h)
            \/ GateExpire(h) \/ GateDual(h) \/ GateFails(h)
      BY <1>1, <3>1
         DEF Next, vars, Tick, RequestApproval, ResolveCall, ResolveRead,
             ResolveUpdate, ResolveConflict, ResolveFails
    <3>3. h = g
      BY <1>1, <3>1, <3>2
         DEF GateCall, GateFindsNone, GateFindsStale, GateFindsFresh,
             GateExpire, GateDual, GateFails, GateAllows, GateRefuses,
             GateAnswers, IInv, TypeOK
    <3>4. ~ \E t \in Subjects : GateCall(g, t)
      BY <3>1 DEF GateCall
    <3>5. ~(GateFindsNone(g) \/ GateExpire(g) \/ GateFails(g))
      BY <1>1 DEF GateFindsNone, GateExpire, GateFails, GateRefuses,
         GateAnswers, IdleGate, BecomesAllowed, IInv, TypeOK
    <3>6. ~GateFindsStale(g)
      BY <1>1 DEF GateFindsStale, BecomesAllowed, IInv, TypeOK, GateAt
    <3>7. QED
      BY <3>2, <3>3, <3>4, <3>5, <3>6
  <2>2. ASSUME NEW i \in Approved(s) PROVE ByAnother(i)
    BY <1>1 DEF Approved, IInv, DecidedByAnother
  <2>3. CASE GateFindsFresh(g)
    <3>1. PICK i \in Newest(Approved(s)) : Age(i) <= TTL
      BY <2>3 DEF GateFindsFresh
    <3>2. i \in Fresh(s) /\ i \in Approved(s)
      BY <3>1 DEF Newest, Fresh
    <3>3. Tier[s] # 3
      BY <1>1, <2>3 DEF GateFindsFresh, BecomesAllowed, IInv, TypeOK, GateAt
    <3>4. QED
      BY <2>2, <3>2, <3>3
  <2>4. CASE GateDual(g)
    <3>1. Tier[s] = 3
      BY <1>1, <2>4 DEF GateDual, IInv, GatedTiers
    <3>2. ~(Cardinality(Approvers(s)) < 2)
      BY <1>1, <2>4 DEF GateDual, BecomesAllowed, GateRefuses, GateAnswers,
                        IdleGate, IInv, TypeOK
    <3>3. PICK a, b \in Approvers(s) : a # b
      BY <3>2, TwoDistinct
    <3>4. PICK i, j \in Approved(s) : a = approvedBy[i] /\ b = approvedBy[j]
      BY <3>3 DEF Approvers
    <3>5. QED
      BY <2>2, <3>1, <3>3, <3>4
  <2>5. QED
    BY <2>1, <2>3, <2>4
<1>2. IInv /\ [Next]_vars =>
        [\A g \in Gates :
           BecomesAllowed(g) =>
             LET s == gate[g].subject IN
             /\ Tier[s] = 2 => \E i \in Fresh(s) : ByAnother(i)
             /\ Tier[s] = 3 => \E i, j \in Approved(s) :
                                 /\ ByAnother(i) /\ ByAnother(j)
                                 /\ approvedBy[i] # approvedBy[j]]_vars
  BY <1>1
<1>3. QED
  BY <1>2, Invariance, ApprovalsPart, PTL DEF Spec, GateAllowsOnlyApproved

(* ... and refuses for want of an approval only when there is none.        *)
THEOREM GateIsComplete == AllSpec => GateOverlooksNothing
<1>1. ASSUME IInv, NEW g \in Gates, GateFindsNone(g) \/ GateFindsStale(g)
      PROVE  Fresh(gate[g].subject) = {}
  <2>1. CASE GateFindsNone(g)
    BY <2>1 DEF GateFindsNone, Fresh
  <2>2. CASE GateFindsStale(g)
    <3>1. PICK i \in Newest(Approved(gate[g].subject)) : Age(i) > TTL
      BY <2>2 DEF GateFindsStale
    <3>2. ASSUME NEW j \in Approved(gate[g].subject) PROVE ~(Age(j) <= TTL)
      <4>1. i \in Ids /\ j \in Ids /\ createdAt[j] <= createdAt[i]
        BY <3>1 DEF Newest, Approved
      <4>2. createdAt[i] \in Int /\ createdAt[j] \in Int /\ now \in Int
              /\ TTL \in Int
        BY <1>1, <4>1, BoundsAssumption DEF IInv, TypeOK
      <4>3. QED
        BY <3>1, <4>1, <4>2 DEF Age
    <3>3. QED
      BY <3>2 DEF Fresh
  <2>3. QED
    BY <1>1, <2>1, <2>2
<1>2. IInv /\ [Next]_vars =>
        [\A g \in Gates :
           GateFindsNone(g) \/ GateFindsStale(g) => Fresh(gate[g].subject) = {}]_vars
  BY <1>1
<1>3. QED
  BY <1>2, Invariance, ApprovalsPart, PTL DEF Spec, GateOverlooksNothing

-----------------------------------------------------------------------------
(* Founder seats.                                                          *)
LEMMA CardinalityOfPromo == \A S : Promo!Cardinality(S) = Cardinality(S)
  BY DEF Promo!Cardinality, Cardinality

LEMMA PromoTypes == Codes # {} /\ Intakes # {} /\ MaxRedemptions \in [Codes -> Nat]
  BY DecisionsAssumption DEF Promo!PromoAssumption

(* A count is never ahead of the table, because rows are never deleted,    *)
(* and a call that has passed step 4 has counted below the limit.          *)
CountsAreBehind ==
  \A c \in Calls, k \in Codes :
    pc[c] \in {"existing", "insert"} /\ code[c] = k =>
      /\ current[c] <= Promo!Taken(k)
      /\ current[c] < MaxRedemptions[k]

(* The order of steps 4 and 5 matters: the search for an existing          *)
(* redemption comes AFTER the count, so while the count is still exact     *)
(* its answer is, too.                                                     *)
FreshAtInsert ==
  \A c \in Calls, k \in Codes :
    pc[c] = "insert" /\ code[c] = k /\ current[c] = Promo!Taken(k)
      => ~Promo!HasRedemption(k, intake[c])

SeatsIInv ==
  /\ Promo!TypeOK
  /\ IsFiniteSet(redemptions)
  /\ Promo!WithinLimit
  /\ Promo!FoundersContiguous
  /\ Promo!OnePerIntake
  /\ CountsAreBehind
  /\ FreshAtInsert

-----------------------------------------------------------------------------
LEMMA AnyTyped == Promo!AnyCode \in Codes /\ Promo!AnyIntake \in Intakes
  BY PromoTypes DEF Promo!AnyCode, Promo!AnyIntake

(* How many redemptions a code has is a natural number.                    *)
LEMMA TakenIsNat ==
  ASSUME IsFiniteSet(redemptions), NEW k
  PROVE  IsFiniteSet(Promo!RedemptionsOf(k)) /\ Promo!Taken(k) \in Nat
<1>1. Promo!RedemptionsOf(k) \subseteq redemptions
  BY DEF Promo!RedemptionsOf
<1>2. IsFiniteSet(Promo!RedemptionsOf(k))
  BY <1>1, FS_Subset
<1>3. QED
  BY <1>2, FS_CardinalityType, CardinalityOfPromo DEF Promo!Taken

(* The row an insert adds.                                                 *)
NewRow(c) ==
  [code |-> code[c], intake |-> intake[c], founder |-> Promo!FounderNumber(c)]

(* The unique index lets an insert through only if the call's count is     *)
(* still exact; then it takes seat n + 1 and leaves the other codes alone. *)
LEMMA InsertTakesNextSeat ==
  ASSUME SeatsIInv, NEW c \in Calls, Promo!Insert(c), NEW k \in Codes, k = code[c]
  PROVE  /\ current[c] = Promo!Taken(k)
         /\ NewRow(c) \in Promo!Redemption
         /\ NewRow(c) \notin redemptions
         /\ IsFiniteSet(redemptions')
         /\ redemptions' = redemptions \cup {NewRow(c)}
         /\ Promo!RedemptionsOf(k)' = Promo!RedemptionsOf(k) \cup {NewRow(c)}
         /\ Promo!Taken(k)' = Promo!Taken(k) + 1
         /\ \A j \in Codes \ {k} :
              Promo!RedemptionsOf(j)' = Promo!RedemptionsOf(j) /\ Promo!Taken(j)' = Promo!Taken(j)
<1>t. intake[c] \in Intakes /\ current[c] \in Nat
  BY DEF SeatsIInv, Promo!TypeOK
<1>1. Promo!Taken(k) \in Nat /\ IsFiniteSet(Promo!RedemptionsOf(k))
  BY TakenIsNat DEF SeatsIInv
<1>2. current[c] <= Promo!Taken(k)
  BY DEF SeatsIInv, CountsAreBehind, Promo!Insert
<1>3. current[c] + 1 \notin {r.founder : r \in Promo!RedemptionsOf(k)}
  BY DEF Promo!Insert, Promo!IndexRejects, Promo!RedemptionsOf, Promo!FounderNumber
<1>4. {r.founder : r \in Promo!RedemptionsOf(k)} = 1 .. Promo!Taken(k)
  BY DEF SeatsIInv, Promo!FoundersContiguous
<1>5. current[c] = Promo!Taken(k)
  <2>1. current[c] + 1 \notin 1 .. Promo!Taken(k)
    BY <1>3, <1>4
  <2>2. QED
    BY <2>1, <1>t, <1>1, <1>2
<1>6. NewRow(c) \in Promo!Redemption
  BY <1>t DEF NewRow, Promo!Redemption, Promo!FounderNumber
<1>7. NewRow(c) \notin redemptions
  BY DEF NewRow, Promo!Insert, Promo!IndexRejects
<1>8. redemptions' = redemptions \cup {NewRow(c)}
  BY DEF Promo!Insert, NewRow
<1>9. IsFiniteSet(redemptions')
  BY <1>8, FS_AddElement DEF SeatsIInv
<1>10. Promo!RedemptionsOf(k)' = Promo!RedemptionsOf(k) \cup {NewRow(c)}
  BY <1>8 DEF Promo!RedemptionsOf, NewRow
<1>11. Promo!Taken(k)' = Promo!Taken(k) + 1
  <2>1. NewRow(c) \notin Promo!RedemptionsOf(k)
    BY <1>7 DEF Promo!RedemptionsOf
  <2>2. Cardinality(Promo!RedemptionsOf(k) \cup {NewRow(c)})
          = Cardinality(Promo!RedemptionsOf(k)) + 1
    BY <1>1, <2>1, FS_AddElement
  <2>3. QED
    BY <2>2, <1>10, CardinalityOfPromo DEF Promo!Taken
<1>12. ASSUME NEW j \in Codes \ {k}
       PROVE  Promo!RedemptionsOf(j)' = Promo!RedemptionsOf(j) /\ Promo!Taken(j)' = Promo!Taken(j)
  <2>1. Promo!RedemptionsOf(j)' = Promo!RedemptionsOf(j)
    BY <1>8 DEF Promo!RedemptionsOf, NewRow
  <2>2. QED
    BY <2>1 DEF Promo!Taken
<1>13. QED
  BY <1>5, <1>6, <1>7, <1>8, <1>9, <1>10, <1>11, <1>12

(* A step that leaves promo_redemptions alone keeps every fact that is     *)
(* about the table only.                                                   *)
LEMMA SameTable ==
  ASSUME SeatsIInv, redemptions' = redemptions
  PROVE  /\ IsFiniteSet(redemptions)'
         /\ Promo!WithinLimit'
         /\ Promo!FoundersContiguous'
         /\ Promo!OnePerIntake'
         /\ \A k \in Codes : Promo!Taken(k)' = Promo!Taken(k) /\ Promo!Taken(k) \in Nat
         /\ \A k, i : Promo!HasRedemption(k, i)' = Promo!HasRedemption(k, i)
<1>1. ASSUME NEW k PROVE Promo!RedemptionsOf(k)' = Promo!RedemptionsOf(k)
  BY DEF Promo!RedemptionsOf
<1>2. ASSUME NEW k PROVE Promo!Taken(k)' = Promo!Taken(k) /\ Promo!Taken(k) \in Nat
  BY <1>1, TakenIsNat DEF Promo!Taken, SeatsIInv
<1>3. QED
  BY <1>1, <1>2 DEF SeatsIInv, Promo!WithinLimit, Promo!FoundersContiguous, Promo!OnePerIntake,
                    Promo!HasRedemption

-----------------------------------------------------------------------------
LEMMA InitSeats == Promo!Init => SeatsIInv
<1> SUFFICES ASSUME Promo!Init PROVE SeatsIInv
  OBVIOUS
<1>1. Promo!TypeOK
  BY AnyTyped DEF Promo!Init, Promo!TypeOK, Promo!Steps
<1>2. \A k : Promo!RedemptionsOf(k) = {} /\ Promo!Taken(k) = 0
  BY FS_EmptySet, CardinalityOfPromo DEF Promo!Init, Promo!RedemptionsOf, Promo!Taken
<1>3. Promo!WithinLimit /\ Promo!FoundersContiguous
  BY <1>2, PromoTypes DEF Promo!WithinLimit, Promo!FoundersContiguous
<1>4. IsFiniteSet(redemptions) /\ Promo!OnePerIntake
  BY FS_EmptySet DEF Promo!Init, Promo!OnePerIntake
<1>5. CountsAreBehind /\ FreshAtInsert
  BY DEF Promo!Init, CountsAreBehind, FreshAtInsert
<1>6. QED
  BY <1>1, <1>3, <1>4, <1>5 DEF SeatsIInv

LEMMA SeatsTyped == Promo!TypeOK /\ SeatsIInv /\ [Promo!Next]_Promo!vars => Promo!TypeOK'
<1> SUFFICES ASSUME Promo!TypeOK, SeatsIInv, [Promo!Next]_Promo!vars PROVE Promo!TypeOK'
  OBVIOUS
<1> USE AnyTyped DEF Promo!TypeOK, Promo!Steps, Promo!Goto, Promo!Return, Promo!table, Promo!local
<1>1. ASSUME NEW c \in Calls, NEW k \in Codes, NEW i \in Intakes,
             Promo!Lookup(c, k, i)
      PROVE  Promo!TypeOK'
  BY <1>1 DEF Promo!Lookup
<1>2. ASSUME NEW c \in Calls, Promo!CountBelowLimit(c) PROVE Promo!TypeOK'
  BY <1>2, TakenIsNat DEF Promo!CountBelowLimit, Promo!Redeemed, SeatsIInv
<1>3. ASSUME NEW c \in Calls, Promo!CountAtLimit(c) PROVE Promo!TypeOK'
  BY <1>3 DEF Promo!CountAtLimit
<1>4. ASSUME NEW c \in Calls, Promo!FindExisting(c) PROVE Promo!TypeOK'
  BY <1>4 DEF Promo!FindExisting
<1>5. ASSUME NEW c \in Calls, Promo!Insert(c) PROVE Promo!TypeOK'
  <2>1. PICK k \in Codes : k = code[c]
    OBVIOUS
  <2>2. NewRow(c) \in Promo!Redemption /\ redemptions' = redemptions \cup {NewRow(c)}
    BY <1>5, <2>1, InsertTakesNextSeat
  <2>3. redemptions' \subseteq Promo!Redemption /\ lapsed' \subseteq redemptions'
    BY <1>5, <2>2 DEF Promo!Insert
  <2>4. QED
    BY <1>5, <2>3 DEF Promo!Insert
<1>6. ASSUME NEW c \in Calls, Promo!InsertDuplicate(c) PROVE Promo!TypeOK'
  BY <1>6 DEF Promo!InsertDuplicate
<1>7. ASSUME NEW c \in Calls, Promo!StatementFails(c) PROVE Promo!TypeOK'
  BY <1>7 DEF Promo!StatementFails
<1>8. ASSUME NEW k \in Codes, Promo!CodeExpires(k) PROVE Promo!TypeOK'
  BY <1>8 DEF Promo!CodeExpires, Promo!RowStates
<1>9. ASSUME NEW r \in redemptions, Promo!ReservationLapses(r) PROVE Promo!TypeOK'
  BY <1>9 DEF Promo!ReservationLapses
<1>10. CASE UNCHANGED Promo!vars
  BY <1>10 DEF Promo!vars
<1>11. QED
  BY <1>1, <1>2, <1>3, <1>4, <1>5, <1>6, <1>7, <1>8, <1>9, <1>10
     DEF Promo!Next, Promo!CallStep, Promo!LookupRefuses

(* An insert preserves everything that speaks about the table: the new     *)
(* founder number extends 1..n, and the new pair is new.                   *)
LEMMA InsertStep ==
  ASSUME SeatsIInv, Promo!TypeOK', NEW c \in Calls, Promo!Insert(c)
  PROVE  SeatsIInv'
<1>k. PICK k \in Codes : k = code[c]
  BY DEF SeatsIInv, Promo!TypeOK
<1>f. /\ current[c] = Promo!Taken(k)
      /\ IsFiniteSet(redemptions')
      /\ redemptions' = redemptions \cup {NewRow(c)}
      /\ Promo!RedemptionsOf(k)' = Promo!RedemptionsOf(k) \cup {NewRow(c)}
      /\ Promo!Taken(k)' = Promo!Taken(k) + 1
      /\ \A j \in Codes \ {k} :
           Promo!RedemptionsOf(j)' = Promo!RedemptionsOf(j) /\ Promo!Taken(j)' = Promo!Taken(j)
  BY <1>k, InsertTakesNextSeat
<1>n. \A j \in Codes : Promo!Taken(j) \in Nat
  BY TakenIsNat DEF SeatsIInv
<1>c. \A d \in Calls \ {c} : /\ pc'[d] = pc[d] /\ code'[d] = code[d]
                            /\ intake'[d] = intake[d]
                            /\ current'[d] = current[d]
  BY DEF Promo!Insert, Promo!Return, Promo!Goto, SeatsIInv, Promo!TypeOK
<1>i. pc'[c] = "idle"
  BY DEF Promo!Insert, Promo!Return, Promo!Goto, SeatsIInv, Promo!TypeOK
<1>m. current[c] < MaxRedemptions[k] /\ MaxRedemptions[k] \in Nat
  BY <1>k, PromoTypes DEF SeatsIInv, CountsAreBehind, Promo!Insert
<1>1. Promo!WithinLimit'
  <2>1. ASSUME NEW j \in Codes PROVE Promo!Taken(j)' <= MaxRedemptions[j]
    <3>1. CASE j = k
      BY <3>1, <1>f, <1>n, <1>m
    <3>2. CASE j # k
      BY <3>2, <1>f DEF SeatsIInv, Promo!WithinLimit
    <3>3. QED
      BY <3>1, <3>2
  <2>2. QED
    BY <2>1 DEF Promo!WithinLimit
<1>2. Promo!FoundersContiguous'
  <2>1. ASSUME NEW j \in Codes
        PROVE  {r.founder : r \in Promo!RedemptionsOf(j)'} = 1 .. Promo!Taken(j)'
    <3>1. CASE j = k
      <4>1. NewRow(c).founder = Promo!Taken(k) + 1
        BY <1>f DEF NewRow, Promo!FounderNumber
      <4>2. {r.founder : r \in Promo!RedemptionsOf(k)} = 1 .. Promo!Taken(k)
        BY DEF SeatsIInv, Promo!FoundersContiguous
      <4>3. {r.founder : r \in Promo!RedemptionsOf(k) \cup {NewRow(c)}}
              = {r.founder : r \in Promo!RedemptionsOf(k)} \cup {Promo!Taken(k) + 1}
        BY <4>1
      <4>4. (1 .. Promo!Taken(k)) \cup {Promo!Taken(k) + 1} = 1 .. (Promo!Taken(k) + 1)
        BY <1>n
      <4>5. QED
        BY <3>1, <1>f, <4>2, <4>3, <4>4
    <3>2. CASE j # k
      BY <3>2, <1>f DEF SeatsIInv, Promo!FoundersContiguous
    <3>3. QED
      BY <3>1, <3>2
  <2>2. QED
    BY <2>1 DEF Promo!FoundersContiguous
<1>3. Promo!OnePerIntake'
  <2>1. ~Promo!HasRedemption(k, intake[c])
    BY <1>k, <1>f DEF SeatsIInv, FreshAtInsert, Promo!Insert
  <2>2. NewRow(c).code = k /\ NewRow(c).intake = intake[c]
    BY <1>k DEF NewRow
  <2>3. \A r \in redemptions : ~(r.code = k /\ r.intake = intake[c])
    BY <2>1 DEF Promo!HasRedemption
  <2>4. \A r, s \in redemptions :
          r.code = s.code /\ r.intake = s.intake => r = s
    BY DEF SeatsIInv, Promo!OnePerIntake
  <2>5. \A r, s \in redemptions \cup {NewRow(c)} :
          r.code = s.code /\ r.intake = s.intake => r = s
    BY <2>2, <2>3, <2>4
  <2>6. QED
    BY <1>f, <2>5 DEF Promo!OnePerIntake
<1>4. CountsAreBehind'
  <2>1. ASSUME NEW d \in Calls, NEW j \in Codes,
               pc'[d] \in {"existing", "insert"}, code'[d] = j
        PROVE  current'[d] <= Promo!Taken(j)' /\ current'[d] < MaxRedemptions[j]
    <3>1. d # c
      BY <2>1, <1>i
    <3>2. current[d] <= Promo!Taken(j) /\ current[d] < MaxRedemptions[j]
      BY <2>1, <1>c, <3>1 DEF SeatsIInv, CountsAreBehind
    <3>3. current[d] \in Nat
      BY DEF SeatsIInv, Promo!TypeOK
    <3>4. /\ Promo!Taken(j) \in Nat
          /\ Promo!Taken(j)' = Promo!Taken(j) \/ Promo!Taken(j)' = Promo!Taken(j) + 1
      BY <1>n, <1>f
    <3>5. QED
      BY <1>c, <3>1, <3>2, <3>3, <3>4
  <2>2. QED
    BY <2>1 DEF CountsAreBehind
<1>5. FreshAtInsert'
  <2>1. ASSUME NEW d \in Calls, NEW j \in Codes,
               pc'[d] = "insert", code'[d] = j, current'[d] = Promo!Taken(j)'
        PROVE  \A r \in redemptions' : ~(r.code = j /\ r.intake = intake'[d])
    <3>1. d # c
      BY <2>1, <1>i
    <3>2. current[d] \in Nat /\ current[d] <= Promo!Taken(j)
      BY <2>1, <1>c, <3>1 DEF SeatsIInv, Promo!TypeOK, CountsAreBehind
    <3>3. j # k
      BY <2>1, <1>c, <1>f, <1>n, <3>1, <3>2
    <3>4. current[d] = Promo!Taken(j)
      BY <2>1, <1>c, <1>f, <3>1, <3>3
    <3>5. \A r \in redemptions : ~(r.code = j /\ r.intake = intake[d])
      BY <2>1, <1>c, <3>1, <3>4 DEF SeatsIInv, FreshAtInsert, Promo!HasRedemption
    <3>6. NewRow(c).code # j
      BY <1>k, <3>3 DEF NewRow
    <3>7. QED
      BY <1>f, <1>c, <3>1, <3>5, <3>6
  <2>2. QED
    BY <2>1 DEF FreshAtInsert, Promo!HasRedemption
<1>6. QED
  BY <1>f, <1>1, <1>2, <1>3, <1>4, <1>5 DEF SeatsIInv

(* Every other step leaves the table alone.                                *)
LEMMA NextSeats == SeatsIInv /\ [Promo!Next]_Promo!vars => SeatsIInv'
<1> SUFFICES ASSUME SeatsIInv, [Promo!Next]_Promo!vars PROVE SeatsIInv'
  OBVIOUS
<1>t. Promo!TypeOK'
  BY SeatsTyped DEF SeatsIInv
<1>s. ASSUME redemptions' = redemptions,
             NEW c \in Calls,
             \A d \in Calls \ {c} : /\ pc'[d] = pc[d] /\ code'[d] = code[d]
                                   /\ intake'[d] = intake[d]
                                   /\ current'[d] = current[d],
             \A k \in Codes :
               pc'[c] \in {"existing", "insert"} /\ code'[c] = k =>
                 /\ current'[c] <= Promo!Taken(k) /\ current'[c] < MaxRedemptions[k]
                 /\ pc'[c] = "insert" /\ current'[c] = Promo!Taken(k)
                      => ~Promo!HasRedemption(k, intake'[c])
      PROVE  SeatsIInv'
  <2>1. /\ IsFiniteSet(redemptions)' /\ Promo!WithinLimit' /\ Promo!FoundersContiguous'
        /\ Promo!OnePerIntake'
        /\ \A k \in Codes : Promo!Taken(k)' = Promo!Taken(k) /\ Promo!Taken(k) \in Nat
        /\ \A k, i : Promo!HasRedemption(k, i)' = Promo!HasRedemption(k, i)
    BY <1>s, SameTable
  <2>2. CountsAreBehind'
    BY <1>s, <2>1 DEF CountsAreBehind, SeatsIInv
  <2>3. FreshAtInsert'
    <3>1. ASSUME NEW d \in Calls, NEW k \in Codes,
                 pc'[d] = "insert", code'[d] = k, current'[d] = Promo!Taken(k)
          PROVE  ~Promo!HasRedemption(k, intake'[d])
      BY <1>s, <3>1 DEF FreshAtInsert, SeatsIInv
    <3>2. QED
      BY <3>1, <2>1, <1>s DEF FreshAtInsert, Promo!HasRedemption
  <2>4. QED
    BY <1>t, <2>1, <2>2, <2>3 DEF SeatsIInv
<1> USE DEF Promo!Goto, Promo!Return, Promo!table, Promo!local
<1>1. ASSUME NEW c \in Calls, NEW k \in Codes, NEW i \in Intakes,
             Promo!Lookup(c, k, i)
      PROVE  SeatsIInv'
  BY <1>1, <1>s DEF Promo!Lookup, SeatsIInv, Promo!TypeOK
<1>2. ASSUME NEW c \in Calls, Promo!CountBelowLimit(c) PROVE SeatsIInv'
  <2>1. PICK k \in Codes : k = code[c]
    BY DEF SeatsIInv, Promo!TypeOK
  <2>2. Promo!Taken(k) \in Nat
    BY TakenIsNat DEF SeatsIInv
  <2>3. pc'[c] = "existing" /\ code'[c] = k /\ current'[c] = Promo!Taken(k)
          /\ Promo!Taken(k) < MaxRedemptions[k]
    BY <1>2, <2>1 DEF Promo!CountBelowLimit, Promo!Redeemed, SeatsIInv, Promo!TypeOK
  <2>4. QED
    BY <1>2, <1>s, <2>2, <2>3 DEF Promo!CountBelowLimit, SeatsIInv, Promo!TypeOK
<1>3. ASSUME NEW c \in Calls, Promo!CountAtLimit(c) PROVE SeatsIInv'
  BY <1>3, <1>s DEF Promo!CountAtLimit, SeatsIInv, Promo!TypeOK
<1>4. ASSUME NEW c \in Calls, Promo!FindExisting(c) PROVE SeatsIInv'
  <2>1. CASE Promo!HasRedemption(code[c], intake[c])
    BY <1>4, <2>1, <1>s DEF Promo!FindExisting, SeatsIInv, Promo!TypeOK
  <2>2. CASE ~Promo!HasRedemption(code[c], intake[c])
    <3>1. PICK k \in Codes : k = code[c]
      BY DEF SeatsIInv, Promo!TypeOK
    <3>2. current[c] <= Promo!Taken(k) /\ current[c] < MaxRedemptions[k]
      BY <1>4, <3>1 DEF Promo!FindExisting, SeatsIInv, CountsAreBehind
    <3>3. QED
      BY <1>4, <1>s, <2>2, <3>1, <3>2 DEF Promo!FindExisting, SeatsIInv, Promo!TypeOK
  <2>3. QED
    BY <2>1, <2>2
<1>5. ASSUME NEW c \in Calls, Promo!Insert(c) PROVE SeatsIInv'
  BY <1>5, <1>t, InsertStep
<1>6. ASSUME NEW c \in Calls, Promo!InsertDuplicate(c) PROVE SeatsIInv'
  BY <1>6, <1>s DEF Promo!InsertDuplicate, SeatsIInv, Promo!TypeOK
<1>7. ASSUME NEW c \in Calls, Promo!StatementFails(c) PROVE SeatsIInv'
  BY <1>7, <1>s DEF Promo!StatementFails, SeatsIInv, Promo!TypeOK
<1>8. CASE UNCHANGED <<redemptions, pc, Promo!local>>
  <2>1. /\ IsFiniteSet(redemptions)' /\ Promo!WithinLimit' /\ Promo!FoundersContiguous'
        /\ Promo!OnePerIntake'
        /\ \A k \in Codes : Promo!Taken(k)' = Promo!Taken(k)
    BY <1>8, SameTable
  <2>2. CountsAreBehind' /\ FreshAtInsert'
    BY <1>8, <2>1 DEF CountsAreBehind, FreshAtInsert, Promo!HasRedemption, SeatsIInv
  <2>3. QED
    BY <1>t, <2>1, <2>2 DEF SeatsIInv
<1>9. QED
  BY <1>1, <1>2, <1>3, <1>4, <1>5, <1>6, <1>7, <1>8
     DEF Promo!Next, Promo!CallStep, Promo!LookupRefuses, Promo!CodeExpires,
         Promo!ReservationLapses, Promo!vars

(* The inductive invariant holds throughout.                               *)
LEMMA SeatsInvariance == Promo!Spec => []SeatsIInv
  BY InitSeats, NextSeats, PTL DEF Promo!Spec

LEMMA PromoPart == AllSpec => Promo!Spec
<1>1. AllInit => Promo!Init
  BY DEF AllInit
<1>2. [AllNext]_allVars => [Promo!Next]_Promo!vars
  BY DEF AllNext, allVars, seatVars, Promo!vars
<1>3. QED
  BY <1>1, <1>2, PTL DEF AllSpec, Promo!Spec

-----------------------------------------------------------------------------
(* Every variable of reservePromo keeps its type.                          *)
THEOREM SeatsTypeCorrect == AllSpec => []Promo!TypeOK
<1>1. SeatsIInv => Promo!TypeOK
  BY DEF SeatsIInv
<1>2. QED
  BY <1>1, SeatsInvariance, PromoPart, PTL

(* reservePromo never grants more seats than promoCodes.maxRedemptions.    *)
THEOREM NeverOversold == AllSpec => []Promo!WithinLimit
<1>1. SeatsIInv => Promo!WithinLimit
  BY DEF SeatsIInv
<1>2. QED
  BY <1>1, SeatsInvariance, PromoPart, PTL

(* The founders of a code are numbered 1..n without a gap.                 *)
THEOREM NumbersContiguous == AllSpec => []Promo!FoundersContiguous
<1>1. SeatsIInv => Promo!FoundersContiguous
  BY DEF SeatsIInv
<1>2. QED
  BY <1>1, SeatsInvariance, PromoPart, PTL

(* An intake is granted at most one seat of a code.                        *)
THEOREM OneSeatEach == AllSpec => []Promo!OnePerIntake
<1>1. SeatsIInv => Promo!OnePerIntake
  BY DEF SeatsIInv
<1>2. QED
  BY <1>1, SeatsInvariance, PromoPart, PTL

(* reservePromo's duplicate-key branch is taken only by a call that        *)
(* another one has overtaken since it counted.                             *)
THEOREM DuplicateMeansOvertaken == AllSpec => Promo!DuplicateOnlyWhenOvertaken
<1>1. ASSUME SeatsIInv, [Promo!Next]_Promo!vars, NEW c \in Calls, Promo!InsertDuplicate(c)
      PROVE  Promo!Taken(code[c]) > current[c]
  <2>1. PICK k \in Codes : k = code[c]
    BY <1>1 DEF SeatsIInv, Promo!TypeOK
  <2>2. current[c] \in Nat /\ Promo!Taken(k) \in Nat
    BY <1>1, TakenIsNat DEF SeatsIInv, Promo!TypeOK
  <2>3. PICK r \in Promo!RedemptionsOf(k) : r.founder = current[c] + 1
    BY <1>1, <2>1 DEF Promo!InsertDuplicate, Promo!IndexRejects, Promo!RedemptionsOf,
                      Promo!FounderNumber
  <2>4. current[c] + 1 \in {q.founder : q \in Promo!RedemptionsOf(k)}
    BY <2>3
  <2>5. {q.founder : q \in Promo!RedemptionsOf(k)} = 1 .. Promo!Taken(k)
    BY <1>1 DEF SeatsIInv, Promo!FoundersContiguous
  <2>6. current[c] + 1 \in 1 .. Promo!Taken(k)
    BY <2>4, <2>5
  <2>7. QED
    BY <2>1, <2>2, <2>6
<1>2. SeatsIInv /\ [Promo!Next]_Promo!vars =>
        [\A c \in Calls : Promo!InsertDuplicate(c) => Promo!Taken(code[c]) > current[c]]_Promo!vars
  BY <1>1
<1>3. QED
  BY <1>2, SeatsInvariance, PromoPart, PTL DEF Promo!Spec, Promo!DuplicateOnlyWhenOvertaken

(* The four statements of reservePromo implement the atomic grant: its     *)
(* insert maps to FounderSeats' Grant, every other step to a stutter.      *)
THEOREM SeatsRefinement == AllSpec => ActsAtomically
<1>1. Promo!Init => Seats!Init
  BY DEF Promo!Init, Seats!Init
<1>2. SeatsIInv /\ [Promo!Next]_Promo!vars => [Seats!Next]_redemptions
  <2> SUFFICES ASSUME SeatsIInv, [Promo!Next]_Promo!vars PROVE [Seats!Next]_redemptions
    OBVIOUS
  <2>1. ASSUME NEW c \in Calls, Promo!Insert(c) PROVE Seats!Next
    <3>1. PICK k \in Codes : k = code[c]
      BY DEF SeatsIInv, Promo!TypeOK
    <3>2. current[c] = Promo!Taken(k) /\ redemptions' = redemptions \cup {NewRow(c)}
      BY <2>1, <3>1, InsertTakesNextSeat
    <3>3. current[c] < MaxRedemptions[k] /\ ~Promo!HasRedemption(k, intake[c])
      BY <2>1, <3>1, <3>2 DEF Promo!Insert, SeatsIInv, CountsAreBehind, FreshAtInsert
    <3>4. Seats!SeatsOf(k) = Promo!RedemptionsOf(k)
      BY DEF Seats!SeatsOf, Promo!RedemptionsOf
    <3>5. Seats!Grant(k, intake[c])
      <4>1. Promo!Taken(k) \in 0 .. (MaxRedemptions[k] - 1)
        BY <3>2, <3>3, TakenIsNat, PromoTypes DEF SeatsIInv
      <4>2. {s.founder : s \in Seats!SeatsOf(k)} = 1 .. Promo!Taken(k)
        BY <3>4 DEF SeatsIInv, Promo!FoundersContiguous
      <4>3. \A s \in Seats!SeatsOf(k) : s.intake # intake[c]
        BY <3>1, <3>3, <3>4 DEF Promo!HasRedemption, Promo!RedemptionsOf
      <4>4. NewRow(c) = [code |-> k, intake |-> intake[c],
                         founder |-> Promo!Taken(k) + 1]
        BY <3>1, <3>2 DEF NewRow, Promo!FounderNumber
      <4>5. QED
        BY <3>2, <4>1, <4>2, <4>3, <4>4 DEF Seats!Grant
    <3>6. QED
      BY <3>5 DEF Seats!Next, SeatsIInv, Promo!TypeOK
  <2>2. CASE UNCHANGED redemptions
    BY <2>2
  <2>3. QED
    BY <2>1, <2>2
       DEF Promo!Next, Promo!CallStep, Promo!Lookup, Promo!LookupRefuses, Promo!CountBelowLimit,
           Promo!CountAtLimit, Promo!FindExisting, Promo!InsertDuplicate, Promo!StatementFails, Promo!CodeExpires,
           Promo!ReservationLapses, Promo!vars, Promo!table
<1>3. QED
  BY <1>1, <1>2, SeatsInvariance, PromoPart, PTL DEF Promo!Spec, ActsAtomically, Seats!Spec
-----------------------------------------------------------------------------
(* Accounts and jobs.                                                      *)
JobFields == {"op", "user", "server", "given", "new", "role", "seen", "step"}
Seeding   == {"user", "insertUser", "credential", "insertCredential"}
Unmade    == {"none", "user", "credential", "role", "write", "owned", "shared", "project"}
Equipping == {"collaborator", "profile", "insertProfile", "agent"}

JobsTyped ==
  /\ DOMAIN user = Addresses /\ DOMAIN credential = Addresses
  /\ DOMAIN project = Requests /\ DOMAIN call = Requests
  /\ \A p \in Requests : DOMAIN project[p] = {"owner", "slug", "status"}
  /\ DOMAIN server = Servers /\ \A s \in Servers : DOMAIN server[s] = {"step", "seed"}

CallTyped(r) ==
  /\ DOMAIN call[r] = JobFields
  /\ call[r].step \notin Accounts!Over \cup {"none"} =>
       call[r].user \in Addresses /\ call[r].new \in Passwords

(* What a server that seeds has behind it, whoever did it.                 *)
HasAccount(i) == user[Seeds[i]] # Nothing /\ credential[Seeds[i]] # Nothing

SeedsSoFar(s) ==
  /\ server[s].step \in Seeding =>
       /\ server[s].seed \in 1..Len(Seeds)
       /\ \A i \in 1..Len(Seeds) : i < server[s].seed => HasAccount(i)
  /\ server[s].step \in {"credential", "insertCredential"} =>
       user[Seeds[server[s].seed]] # Nothing
  /\ server[s].step = "up" => \A i \in 1..Len(Seeds) : HasAccount(i)

(* A login has read a role before it writes one.                           *)
RoleKnown(r) ==
  call[r].op = "login" /\ call[r].step \in {"credential", "role"} => call[r].role # Nothing

(* A request that has not inserted its job has none.                       *)
Uninserted(r) == call[r].step \in Unmade => project[r].status = "none"

HasJob(p, u) ==
  /\ project[p].status = "active"
  /\ project[p].owner = u \/ [project |-> p, user |-> u] \in collaborator

(* What a login has found or made is there, unless an operator interfered. *)
LoginSound(r) ==
  call[r].op = "login" /\ r \notin moved =>
    /\ call[r].step = "shared" =>
         \A p \in call[r].seen : p \in Requests /\ HasJob(p, call[r].user)
    /\ call[r].step \in Equipping => HasJob(r, call[r].user)
    /\ call[r].step = "returned" => \E p \in Requests : HasJob(p, call[r].user)

JobsIInv ==
  /\ JobsTyped
  /\ \A s \in Servers : SeedsSoFar(s)
  /\ \A r \in Requests : CallTyped(r) /\ RoleKnown(r) /\ Uninserted(r) /\ LoginSound(r)

(* No row of an account is ever lost.                                      *)
AccountsGrow ==
  /\ DOMAIN user' = Addresses /\ DOMAIN credential' = Addresses
  /\ \A u \in Addresses : /\ user[u] # Nothing => user'[u] # Nothing
                          /\ credential[u] # Nothing => credential'[u] # Nothing

LEMMA AccountFacts ==
  /\ \A i \in 1..Len(Seeds) : Seeds[i] \in Addresses
  /\ Len(Seeds) \in Nat \ {0} /\ DOMAIN Seeds = 1..Len(Seeds)
  /\ SeedPassword \in Passwords /\ Nothing \notin Passwords /\ Nothing # "user" /\ Nothing # "admin"
  BY DecisionsAssumption DEF Accounts!AccountAssumption

LEMMA SeedsStay ==
  ASSUME NEW s \in Servers, SeedsSoFar(s), AccountsGrow, server'[s] = server[s]
  PROVE  SeedsSoFar(s)'
<1>1. \A i \in 1..Len(Seeds) : HasAccount(i) => HasAccount(i)'
  BY AccountFacts DEF HasAccount, AccountsGrow
<1>2. server[s].seed \in 1..Len(Seeds) /\ user[Seeds[server[s].seed]] # Nothing =>
        user'[Seeds[server[s].seed]] # Nothing
  BY AccountFacts DEF AccountsGrow
<1>3. QED
  BY <1>1, <1>2 DEF SeedsSoFar, Seeding

(* A step of a server: the requests of a process that ends throw.          *)
LEMMA ServerKeeps ==
  ASSUME JobsIInv, NEW s \in Servers, AccountsGrow, project' = project,
         collaborator' = collaborator, moved' = moved,
         DOMAIN server' = Servers, DOMAIN server'[s] = {"step", "seed"},
         \A z \in Servers : z # s => server'[z] = server[z],
         DOMAIN call' = Requests,
         \A r \in Requests : call'[r] \in {call[r], [call[r] EXCEPT !.step = "threw"]},
         SeedsSoFar(s)'
  PROVE  JobsIInv'
<1>1. JobsTyped'
  BY DEF JobsIInv, JobsTyped, AccountsGrow
<1>2. \A z \in Servers : SeedsSoFar(z)'
  BY SeedsStay DEF JobsIInv
<1>3. ASSUME NEW r \in Requests
      PROVE  (CallTyped(r) /\ RoleKnown(r) /\ Uninserted(r) /\ LoginSound(r))'
  <2>1. CASE call'[r] = call[r]
    <3>1. CallTyped(r) /\ RoleKnown(r) /\ Uninserted(r) /\ LoginSound(r)
      BY DEF JobsIInv
    <3>2. \A p, u : HasJob(p, u) => HasJob(p, u)'
      BY DEF HasJob
    <3>3. (CallTyped(r) /\ RoleKnown(r) /\ Uninserted(r))'
      BY <2>1, <3>1 DEF CallTyped, RoleKnown, Uninserted
    <3>4. LoginSound(r)'
      BY <2>1, <3>1, <3>2 DEF LoginSound
    <3>5. QED
      BY <3>3, <3>4
  <2>2. CASE call'[r] = [call[r] EXCEPT !.step = "threw"]
    <3>1. DOMAIN call'[r] = JobFields /\ call'[r].step = "threw"
      BY <2>2 DEF JobsIInv, CallTyped, JobFields
    <3>2. QED
      BY <3>1 DEF CallTyped, RoleKnown, Uninserted, LoginSound, Unmade, Equipping, Accounts!Over
  <2>3. QED
    BY <2>1, <2>2
<1>4. QED
  BY <1>1, <1>2, <1>3 DEF JobsIInv

LEMMA BootFacts ==
  ASSUME JobsIInv, NEW s \in Servers, NEW step, Accounts!Boot(s, step)
  PROVE  /\ DOMAIN server' = Servers /\ DOMAIN server'[s] = {"step", "seed"}
         /\ server'[s].step = step /\ server'[s].seed = server[s].seed
         /\ \A z \in Servers : z # s => server'[z] = server[z]
  BY DEF JobsIInv, JobsTyped, Accounts!Boot

LEMMA NextSeedFacts ==
  ASSUME JobsIInv, NEW s \in Servers, server[s].step \in Seeding,
         NEW n, n = server[s].seed, Accounts!NextSeed(s), AccountsGrow, HasAccount(n)'
  PROVE  /\ DOMAIN server' = Servers /\ DOMAIN server'[s] = {"step", "seed"}
         /\ \A z \in Servers : z # s => server'[z] = server[z]
         /\ SeedsSoFar(s)'
<1>1. /\ n \in 1..Len(Seeds) /\ \A i \in 1..Len(Seeds) : i < n => HasAccount(i)
  BY DEF JobsIInv, SeedsSoFar
<1>2. \A i \in 1..Len(Seeds) : HasAccount(i) => HasAccount(i)'
  BY AccountFacts DEF HasAccount, AccountsGrow
<1>3. /\ DOMAIN server' = Servers
      /\ \A z \in Servers : z # s => server'[z] = server[z]
      /\ server'[s] = IF n = Len(Seeds) THEN [step |-> "up", seed |-> 0]
                      ELSE [step |-> "user", seed |-> n + 1]
  BY DEF JobsIInv, JobsTyped, Accounts!NextSeed
<1>4. \A i \in 1..Len(Seeds) : i <= n => HasAccount(i)'
  <2>1. n \in Int /\ \A i \in 1..Len(Seeds) : i \in Int
    BY <1>1, AccountFacts
  <2>2. \A i \in 1..Len(Seeds) : i <= n => i < n \/ i = n
    BY <2>1
  <2>3. QED
    BY <1>1, <1>2, <2>2
<1>5. CASE n = Len(Seeds)
  <2>1. server'[s] = [step |-> "up", seed |-> 0]
    BY <1>3, <1>5
  <2>2. \A i \in 1..Len(Seeds) : i <= n
    BY <1>5, AccountFacts
  <2>3. QED
    BY <1>3, <1>4, <2>1, <2>2 DEF SeedsSoFar, Seeding
<1>6. CASE n # Len(Seeds)
  <2>1. server'[s] = [step |-> "user", seed |-> n + 1] /\ n + 1 \in 1..Len(Seeds)
    BY <1>1, <1>3, <1>6, AccountFacts
  <2>2. \A i \in 1..Len(Seeds) : i < n + 1 => i <= n
    BY <1>1, AccountFacts
  <2>3. QED
    BY <1>3, <1>4, <2>1, <2>2 DEF SeedsSoFar, Seeding
<1>7. QED
  BY <1>5, <1>6

LEMMA StartKeeps ==
  ASSUME JobsIInv, NEW s \in Servers, Accounts!Start(s)
  PROVE  JobsIInv'
<1>1. /\ server' = [server EXCEPT ![s] = [step |-> "user", seed |-> 1]]
      /\ user' = user /\ credential' = credential /\ project' = project
      /\ collaborator' = collaborator /\ moved' = moved /\ call' = call
  BY DEF Accounts!Start, Accounts!tables
<1>2. AccountsGrow
  BY <1>1 DEF AccountsGrow, JobsIInv, JobsTyped
<1>3. /\ DOMAIN server' = Servers /\ server'[s] = [step |-> "user", seed |-> 1]
      /\ \A z \in Servers : z # s => server'[z] = server[z]
  BY <1>1 DEF JobsIInv, JobsTyped
<1>4. 1 \in 1..Len(Seeds) /\ \A i \in 1..Len(Seeds) : ~ (i < 1)
  BY AccountFacts
<1>5. SeedsSoFar(s)'
  BY <1>3, <1>4 DEF SeedsSoFar, Seeding
<1>6. DOMAIN call' = Requests
  BY <1>1 DEF JobsIInv, JobsTyped
<1>7. QED
  BY <1>1, <1>2, <1>3, <1>5, <1>6, ServerKeeps

LEMMA FindSeedUserKeeps ==
  ASSUME JobsIInv, NEW s \in Servers, Accounts!FindSeedUser(s)
  PROVE  JobsIInv'
<1> DEFINE next == IF user[Seeds[server[s].seed]] = Nothing THEN "insertUser" ELSE "credential"
<1>1. /\ Accounts!Boot(s, next) /\ server[s].step = "user"
      /\ user' = user /\ credential' = credential /\ project' = project
      /\ collaborator' = collaborator /\ moved' = moved /\ call' = call
  BY DEF Accounts!FindSeedUser, Accounts!tables, Accounts!At, Accounts!Seed
<1>2. AccountsGrow /\ DOMAIN call' = Requests
  BY <1>1 DEF AccountsGrow, JobsIInv, JobsTyped
<1>3. next = "credential" => user[Seeds[server[s].seed]] # Nothing
  OBVIOUS
<1>4. next \in {"insertUser", "credential"}
  OBVIOUS
<1> HIDE DEF next
<1>5. /\ DOMAIN server' = Servers /\ DOMAIN server'[s] = {"step", "seed"}
      /\ server'[s].step = next /\ server'[s].seed = server[s].seed
      /\ \A z \in Servers : z # s => server'[z] = server[z]
  BY <1>1, BootFacts
<1>6. SeedsSoFar(s)'
  BY <1>1, <1>3, <1>4, <1>5 DEF SeedsSoFar, Seeding, JobsIInv, HasAccount
<1>7. QED
  BY <1>1, <1>2, <1>5, <1>6, ServerKeeps

(* A start that ends.                                                      *)
LEMMA DownKeeps ==
  ASSUME JobsIInv, NEW s \in Servers, server' = [server EXCEPT ![s] = Accounts!Down],
         AccountsGrow, project' = project, collaborator' = collaborator, moved' = moved,
         DOMAIN call' = Requests,
         \A r \in Requests : call'[r] \in {call[r], [call[r] EXCEPT !.step = "threw"]}
  PROVE  JobsIInv'
<1>1. /\ DOMAIN server' = Servers /\ server'[s] = [step |-> "down", seed |-> 0]
      /\ \A z \in Servers : z # s => server'[z] = server[z]
  BY DEF JobsIInv, JobsTyped, Accounts!Down
<1>2. SeedsSoFar(s)'
  BY <1>1 DEF SeedsSoFar, Seeding
<1>3. QED
  BY <1>1, <1>2, ServerKeeps

LEMMA InsertSeedUserKeeps ==
  ASSUME JobsIInv, NEW s \in Servers, Accounts!InsertSeedUser(s)
  PROVE  JobsIInv'
<1> DEFINE u == Seeds[server[s].seed]
<1>1. /\ server[s].step = "insertUser" /\ credential' = credential /\ project' = project
      /\ collaborator' = collaborator /\ moved' = moved /\ call' = call
  BY DEF Accounts!InsertSeedUser, Accounts!At
<1>2. DOMAIN call' = Requests
  BY <1>1 DEF JobsIInv, JobsTyped
<1>3. server[s].seed \in 1..Len(Seeds) /\ u \in Addresses
  BY <1>1, AccountFacts DEF JobsIInv, SeedsSoFar, Seeding
<1>4. CASE user[u] # Nothing
  <2>1. server' = [server EXCEPT ![s] = Accounts!Down] /\ user' = user
    BY <1>4 DEF Accounts!InsertSeedUser, Accounts!Seed
  <2>2. AccountsGrow
    BY <1>1, <2>1 DEF AccountsGrow, JobsIInv, JobsTyped
  <2>3. QED
    BY <1>1, <1>2, <2>1, <2>2, DownKeeps
<1>5. CASE user[u] = Nothing
  <2>1. Accounts!Boot(s, "credential") /\ user' = [user EXCEPT ![u] = "admin"]
    BY <1>5 DEF Accounts!InsertSeedUser, Accounts!Seed
  <2>2. AccountsGrow /\ user'[u] # Nothing
    BY <1>1, <1>3, <2>1, AccountFacts DEF AccountsGrow, JobsIInv, JobsTyped
  <2>3. /\ DOMAIN server' = Servers /\ DOMAIN server'[s] = {"step", "seed"}
        /\ server'[s].step = "credential" /\ server'[s].seed = server[s].seed
        /\ \A z \in Servers : z # s => server'[z] = server[z]
    BY <2>1, BootFacts
  <2>4. \A i \in 1..Len(Seeds) : HasAccount(i) => HasAccount(i)'
    BY <2>2, AccountFacts DEF HasAccount, AccountsGrow
  <2>5. SeedsSoFar(s)'
    BY <1>1, <1>3, <2>2, <2>3, <2>4 DEF SeedsSoFar, Seeding, JobsIInv
  <2>6. QED
    BY <1>1, <1>2, <2>2, <2>3, <2>5, ServerKeeps
<1>6. QED
  BY <1>4, <1>5

LEMMA FindCredentialKeeps ==
  ASSUME JobsIInv, NEW s \in Servers, Accounts!FindCredential(s)
  PROVE  JobsIInv'
<1> PICK n : n = server[s].seed
  OBVIOUS
<1>1. /\ server[s].step = "credential" /\ user' = user /\ credential' = credential
      /\ project' = project /\ collaborator' = collaborator /\ moved' = moved /\ call' = call
  BY DEF Accounts!FindCredential, Accounts!At, Accounts!tables
<1>2. DOMAIN call' = Requests /\ AccountsGrow
  BY <1>1 DEF AccountsGrow, JobsIInv, JobsTyped
<1>3. n \in 1..Len(Seeds) /\ user[Seeds[n]] # Nothing /\ server[s].step \in Seeding
  BY <1>1 DEF JobsIInv, SeedsSoFar, Seeding
<1>4. CASE credential[Seeds[n]] = Nothing
  <2>1. Accounts!Boot(s, "insertCredential")
    BY <1>4 DEF Accounts!FindCredential, Accounts!Seed, Accounts!Lacks
  <2>2. /\ DOMAIN server' = Servers /\ DOMAIN server'[s] = {"step", "seed"}
        /\ server'[s].step = "insertCredential" /\ server'[s].seed = server[s].seed
        /\ \A z \in Servers : z # s => server'[z] = server[z]
    BY <2>1, BootFacts
  <2>3. SeedsSoFar(s)'
    BY <1>1, <1>3, <2>2 DEF SeedsSoFar, Seeding, JobsIInv, HasAccount
  <2>4. QED
    BY <1>1, <1>2, <2>2, <2>3, ServerKeeps
<1>5. CASE credential[Seeds[n]] # Nothing
  <2>1. Accounts!NextSeed(s)
    BY <1>5 DEF Accounts!FindCredential, Accounts!Seed, Accounts!Lacks
  <2>2. HasAccount(n)'
    BY <1>1, <1>3, <1>5 DEF HasAccount
  <2>3. QED
    BY <1>1, <1>2, <1>3, <2>1, <2>2, NextSeedFacts, ServerKeeps
<1>6. QED
  BY <1>4, <1>5

LEMMA InsertCredentialKeeps ==
  ASSUME JobsIInv, NEW s \in Servers, Accounts!InsertCredential(s)
  PROVE  JobsIInv'
<1> PICK n : n = server[s].seed
  OBVIOUS
<1>1. /\ server[s].step = "insertCredential" /\ user' = user
      /\ project' = project /\ collaborator' = collaborator /\ moved' = moved /\ call' = call
  BY DEF Accounts!InsertCredential, Accounts!At
<1>2. DOMAIN call' = Requests
  BY <1>1 DEF JobsIInv, JobsTyped
<1>3. n \in 1..Len(Seeds) /\ user[Seeds[n]] # Nothing /\ server[s].step \in Seeding
  BY <1>1 DEF JobsIInv, SeedsSoFar, Seeding
<1>4. CASE credential[Seeds[n]] = Nothing
  <2>1. Accounts!NextSeed(s) /\ credential' = [credential EXCEPT ![Seeds[n]] = SeedPassword]
    BY <1>4 DEF Accounts!InsertCredential, Accounts!Seed, Accounts!Lacks
  <2>2. Seeds[n] \in Addresses /\ SeedPassword # Nothing
    BY <1>3, AccountFacts
  <2>3. AccountsGrow /\ credential'[Seeds[n]] # Nothing
    BY <1>1, <2>1, <2>2 DEF AccountsGrow, JobsIInv, JobsTyped
  <2>4. HasAccount(n)'
    BY <1>1, <1>3, <2>3 DEF HasAccount
  <2>5. QED
    BY <1>1, <1>2, <1>3, <2>1, <2>3, <2>4, NextSeedFacts, ServerKeeps
<1>5. CASE credential[Seeds[n]] # Nothing
  <2>1. server' = [server EXCEPT ![s] = Accounts!Down] /\ credential' = credential
    BY <1>5 DEF Accounts!InsertCredential, Accounts!Seed, Accounts!Lacks
  <2>2. AccountsGrow
    BY <1>1, <2>1 DEF AccountsGrow, JobsIInv, JobsTyped
  <2>3. QED
    BY <1>1, <1>2, <2>1, <2>2, DownKeeps
<1>6. QED
  BY <1>4, <1>5

LEMMA CrashKeeps ==
  ASSUME JobsIInv, NEW s \in Servers, Accounts!Crash(s)
  PROVE  JobsIInv'
<1>1. /\ server' = [server EXCEPT ![s] = Accounts!Down] /\ user' = user
      /\ credential' = credential /\ project' = project /\ collaborator' = collaborator
      /\ moved' = moved
      /\ call' = [r \in Requests |->
           IF call[r].server = s /\ call[r].step \notin Accounts!Over
             THEN [call[r] EXCEPT !.step = "threw"] ELSE call[r]]
  BY DEF Accounts!Crash, Accounts!tables
<1>2. AccountsGrow /\ DOMAIN call' = Requests
  BY <1>1 DEF AccountsGrow, JobsIInv, JobsTyped
<1>3. \A r \in Requests : call'[r] \in {call[r], [call[r] EXCEPT !.step = "threw"]}
  BY <1>1
<1>4. QED
  BY <1>1, <1>2, <1>3, DownKeeps

(* A step of a request.                                                    *)
LEMMA RequestKeeps ==
  ASSUME JobsIInv, NEW r \in Requests, AccountsGrow,
         server' = server, moved' = moved, collaborator \subseteq collaborator',
         DOMAIN project' = Requests,
         \A p \in Requests : DOMAIN project'[p] = {"owner", "slug", "status"},
         \A p \in Requests : p # r => project'[p] = project[p],
         project'[r] = project[r] \/ call[r].step = "project",
         DOMAIN call' = Requests, \A q \in Requests : q # r => call'[q] = call[q],
         CallTyped(r)', RoleKnown(r)', Uninserted(r)', LoginSound(r)'
  PROVE  JobsIInv'
<1>1. \A s \in Servers : SeedsSoFar(s)'
  BY SeedsStay DEF JobsIInv
<1>2. \A p \in Requests : \A u : HasJob(p, u) => HasJob(p, u)'
  <2>1. call[r].step = "project" => project[r].status = "none"
    BY DEF JobsIInv, Uninserted, Unmade
  <2>2. QED
    BY <2>1 DEF HasJob
<1>3. ASSUME NEW q \in Requests, q # r
      PROVE  (CallTyped(q) /\ RoleKnown(q) /\ Uninserted(q) /\ LoginSound(q))'
  <2>1. CallTyped(q) /\ RoleKnown(q) /\ Uninserted(q) /\ LoginSound(q)
    BY DEF JobsIInv
  <2>2. call'[q] = call[q] /\ project'[q] = project[q]
    BY <1>3
  <2>3. (CallTyped(q) /\ RoleKnown(q) /\ Uninserted(q))'
    BY <2>1, <2>2 DEF CallTyped, RoleKnown, Uninserted
  <2>4. LoginSound(q)'
    BY <1>2, <2>1, <2>2 DEF LoginSound
  <2>5. QED
    BY <2>3, <2>4
<1>4. JobsTyped'
  BY DEF JobsIInv, JobsTyped, AccountsGrow
<1>5. QED
  BY <1>1, <1>3, <1>4 DEF JobsIInv

(* The same, of a step that inserts no job.                                *)
LEMMA QuietRequestKeeps ==
  ASSUME JobsIInv, NEW r \in Requests, AccountsGrow,
         server' = server, moved' = moved, collaborator' = collaborator, project' = project,
         DOMAIN call' = Requests, \A q \in Requests : q # r => call'[q] = call[q],
         CallTyped(r)', RoleKnown(r)', Uninserted(r)', LoginSound(r)'
  PROVE  JobsIInv'
  BY RequestKeeps DEF JobsIInv, JobsTyped

LEMMA JobGotoFacts ==
  ASSUME JobsIInv, NEW r \in Requests, NEW s, Accounts!Goto(r, s)
  PROVE  /\ DOMAIN call' = Requests /\ \A q \in Requests : q # r => call'[q] = call[q]
         /\ DOMAIN call'[r] = JobFields /\ call'[r].step = s
         /\ call'[r].op = call[r].op /\ call'[r].user = call[r].user
         /\ call'[r].new = call[r].new /\ call'[r].role = call[r].role
         /\ call'[r].seen = call[r].seen
  BY DEF JobsIInv, JobsTyped, CallTyped, JobFields, Accounts!Goto

LEMMA TablesStay ==
  ASSUME JobsIInv, user' = user, credential' = credential
  PROVE  AccountsGrow
  BY DEF AccountsGrow, JobsIInv, JobsTyped

(* A step that only goes on: to an end that is no success, or on the way.  *)
LEMMA JobGoesOn ==
  ASSUME JobsIInv, NEW r \in Requests, NEW s, Accounts!Goto(r, s),
         call[r].step \notin Accounts!Over \cup {"none"}, AccountsGrow,
         server' = server, moved' = moved, collaborator' = collaborator, project' = project,
         s \notin {"none", "shared"},
         s \in {"credential", "role"} => call[r].step = "credential" \/ call[r].op # "login",
         s \in Unmade => call[r].step \in Unmade,
         s \in Equipping => call[r].step \in Equipping,
         s = "returned" => call[r].op # "login" \/ call[r].step \in Equipping
  PROVE  JobsIInv'
<1>1. /\ DOMAIN call' = Requests /\ \A q \in Requests : q # r => call'[q] = call[q]
      /\ DOMAIN call'[r] = JobFields /\ call'[r].step = s
      /\ call'[r].op = call[r].op /\ call'[r].user = call[r].user
      /\ call'[r].new = call[r].new /\ call'[r].role = call[r].role
  BY JobGotoFacts
<1>2. CallTyped(r) /\ RoleKnown(r) /\ Uninserted(r) /\ LoginSound(r)
  BY DEF JobsIInv
<1>3. CallTyped(r)' /\ RoleKnown(r)' /\ Uninserted(r)'
  BY <1>1, <1>2 DEF CallTyped, RoleKnown, Uninserted
<1>4. LoginSound(r)'
  <2>1. \A p, u : HasJob(p, u)' <=> HasJob(p, u)
    BY DEF HasJob
  <2>2. SUFFICES ASSUME call[r].op = "login", r \notin moved, s \in Equipping \cup {"returned"}
                 PROVE  HasJob(r, call[r].user)
    BY <1>1, <2>1 DEF LoginSound
  <2>3. QED
    BY <1>2, <2>2 DEF LoginSound
<1>5. QED
  BY <1>1, <1>3, <1>4, QuietRequestKeeps

LEMMA JobBeginKeeps ==
  ASSUME JobsIInv, NEW r \in Requests, Accounts!Begin(r)
  PROVE  JobsIInv'
<1>1. PICK c : /\ \E op \in Accounts!Ops, s \in Servers, u \in Addresses, given, new \in Passwords :
                    c = [Accounts!NoCall EXCEPT !.op = op, !.user = u, !.server = s,
                          !.given = given, !.new = new, !.step = Accounts!FirstStep[op]]
               /\ call' = [call EXCEPT ![r] = c]
  BY ONLY Accounts!Begin(r) DEF Accounts!Begin
<1>2. /\ call[r].step = "none" /\ user' = user /\ credential' = credential
      /\ project' = project /\ collaborator' = collaborator
      /\ server' = server /\ moved' = moved
  BY DEF Accounts!Begin, Accounts!tables
<1>3. /\ DOMAIN c = JobFields /\ c.user \in Addresses /\ c.new \in Passwords
      /\ \/ c.op = "login" /\ c.step = "user"
         \/ c.op = "changePassword" /\ c.step = "credential"
         \/ c.op = "createJob" /\ c.step = "project"
         \/ c.op = "list" /\ c.step = "owned"
  BY <1>1 DEF JobFields, Accounts!NoCall, Accounts!Ops, Accounts!FirstStep
<1>4. /\ DOMAIN call' = Requests /\ \A q \in Requests : q # r => call'[q] = call[q]
      /\ call'[r] = c
  BY <1>1 DEF JobsIInv, JobsTyped
<1>5. CallTyped(r)' /\ RoleKnown(r)' /\ LoginSound(r)'
  BY <1>3, <1>4 DEF CallTyped, RoleKnown, LoginSound, Equipping
<1>6. Uninserted(r)'
  BY <1>2 DEF JobsIInv, Uninserted, Unmade
<1>7. QED
  BY <1>2, <1>4, <1>5, <1>6, TablesStay, QuietRequestKeeps

LEMMA SmallStepsKeep ==
  ASSUME JobsIInv, NEW r \in Requests,
         Accounts!Throws(r) \/ Accounts!Verify(r) \/ Accounts!FindProfile(r)
           \/ Accounts!InsertProfile(r) \/ Accounts!InsertAgent(r)
  PROVE  JobsIInv'
<1> USE DEF Accounts!Over, Unmade, Equipping
<1>1. /\ user' = user /\ credential' = credential /\ project' = project
      /\ collaborator' = collaborator /\ server' = server /\ moved' = moved
  BY DEF Accounts!Throws, Accounts!Verify, Accounts!FindProfile, Accounts!InsertProfile,
     Accounts!InsertAgent, Accounts!tables
<1>2. AccountsGrow
  BY <1>1, TablesStay
<1>3. CASE Accounts!Throws(r)
  BY <1>1, <1>2, <1>3, JobGoesOn DEF Accounts!Throws
<1>4. CASE Accounts!Verify(r)
  <2>1. PICK s \in {"refused", "role", "write"} : Accounts!Goto(r, s)
    BY <1>4 DEF Accounts!Verify
  <2>2. call[r].step = "credential"
    BY <1>4 DEF Accounts!Verify
  <2>3. QED
    BY <1>1, <1>2, <2>1, <2>2, JobGoesOn
<1>5. CASE Accounts!FindProfile(r)
  <2>1. PICK s \in {"agent", "insertProfile"} : Accounts!Goto(r, s)
    BY <1>5 DEF Accounts!FindProfile
  <2>2. call[r].step = "profile"
    BY <1>5 DEF Accounts!FindProfile
  <2>3. QED
    BY <1>1, <1>2, <2>1, <2>2, JobGoesOn
<1>6. CASE Accounts!InsertProfile(r)
  BY <1>1, <1>2, <1>6, JobGoesOn DEF Accounts!InsertProfile
<1>7. CASE Accounts!InsertAgent(r)
  BY <1>1, <1>2, <1>7, JobGoesOn DEF Accounts!InsertAgent
<1>8. QED
  BY <1>3, <1>4, <1>5, <1>6, <1>7

LEMMA FindUserKeeps ==
  ASSUME JobsIInv, NEW r \in Requests, Accounts!FindUser(r)
  PROVE  JobsIInv'
<1>1. /\ user' = user /\ credential' = credential /\ project' = project
      /\ collaborator' = collaborator /\ server' = server /\ moved' = moved
      /\ call[r].op = "login" /\ call[r].step = "user"
  BY DEF Accounts!FindUser, Accounts!Is, Accounts!tables
<1>2. AccountsGrow
  BY <1>1, TablesStay
<1>3. CASE user[call[r].user] = Nothing
  <2>1. Accounts!Goto(r, "refused")
    BY <1>3 DEF Accounts!FindUser
  <2>2. QED
    BY <1>1, <1>2, <2>1, JobGoesOn DEF Accounts!Over, Unmade, Equipping
<1>4. CASE user[call[r].user] # Nothing
  <2>1. call' = [call EXCEPT ![r].role = user[call[r].user], ![r].step = "credential"]
    BY <1>4 DEF Accounts!FindUser
  <2>2. /\ DOMAIN call' = Requests /\ \A q \in Requests : q # r => call'[q] = call[q]
        /\ DOMAIN call'[r] = JobFields /\ call'[r].step = "credential"
        /\ call'[r].op = call[r].op /\ call'[r].user = call[r].user
        /\ call'[r].new = call[r].new /\ call'[r].role = user[call[r].user]
    BY <2>1 DEF JobsIInv, JobsTyped, CallTyped, JobFields
  <2>3. CallTyped(r) /\ Uninserted(r)
    BY DEF JobsIInv
  <2>4. (CallTyped(r) /\ RoleKnown(r) /\ Uninserted(r) /\ LoginSound(r))'
    BY <1>1, <1>4, <2>2, <2>3
       DEF CallTyped, RoleKnown, Uninserted, LoginSound, Accounts!Over, Unmade, Equipping
  <2>5. QED
    BY <1>1, <1>2, <2>2, <2>4, QuietRequestKeeps
<1>5. QED
  BY <1>3, <1>4

LEMMA WritePasswordKeeps ==
  ASSUME JobsIInv, NEW r \in Requests, Accounts!WritePassword(r)
  PROVE  JobsIInv'
<1>1. /\ user' = user /\ project' = project /\ collaborator' = collaborator
      /\ server' = server /\ moved' = moved
      /\ call[r].op = "changePassword" /\ call[r].step = "write"
      /\ credential' = [credential EXCEPT ![call[r].user] = call[r].new]
      /\ Accounts!Goto(r, "returned")
  BY DEF Accounts!WritePassword, Accounts!Is
<1>2. call[r].user \in Addresses /\ call[r].new # Nothing
  BY <1>1, AccountFacts DEF JobsIInv, CallTyped, Accounts!Over
<1>3. AccountsGrow
  BY <1>1, <1>2 DEF AccountsGrow, JobsIInv, JobsTyped
<1>4. QED
  BY <1>1, <1>3, JobGoesOn DEF Accounts!Over, Unmade, Equipping

LEMMA SetRoleKeeps ==
  ASSUME JobsIInv, NEW r \in Requests, Accounts!SetRole(r)
  PROVE  JobsIInv'
<1> DEFINE role == Accounts!UserRole(call[r].user, call[r].role)
<1>1. /\ credential' = credential /\ project' = project /\ collaborator' = collaborator
      /\ server' = server /\ moved' = moved
      /\ call[r].op = "login" /\ call[r].step = "role"
      /\ user' = IF role = call[r].role THEN user ELSE [user EXCEPT ![call[r].user] = role]
      /\ Accounts!Goto(r, "owned")
  BY DEF Accounts!SetRole, Accounts!Is
<1>2. role # Nothing
  BY <1>1, AccountFacts DEF JobsIInv, RoleKnown, Accounts!UserRole
<1> HIDE DEF role
<1>3. AccountsGrow
  BY <1>1, <1>2 DEF AccountsGrow, JobsIInv, JobsTyped
<1>4. QED
  BY <1>1, <1>3, JobGoesOn DEF Accounts!Over, Unmade, Equipping

LEMMA FindOwnedKeeps ==
  ASSUME JobsIInv, NEW r \in Requests, Accounts!FindOwned(r)
  PROVE  JobsIInv'
<1>1. /\ user' = user /\ credential' = credential /\ project' = project
      /\ collaborator' = collaborator /\ server' = server /\ moved' = moved
      /\ call[r].step = "owned"
  BY DEF Accounts!FindOwned, Accounts!tables
<1>2. PICK seen : seen = Accounts!Owned(call[r].op, call[r].user)
  OBVIOUS
<1>3. call' = [call EXCEPT ![r].seen = seen, ![r].step = "shared"]
  BY <1>2 DEF Accounts!FindOwned
<1>4. /\ DOMAIN call' = Requests /\ \A q \in Requests : q # r => call'[q] = call[q]
      /\ DOMAIN call'[r] = JobFields /\ call'[r].step = "shared"
      /\ call'[r].op = call[r].op /\ call'[r].user = call[r].user
      /\ call'[r].new = call[r].new /\ call'[r].seen = seen
  BY <1>3 DEF JobsIInv, JobsTyped, CallTyped, JobFields
<1>5. CallTyped(r) /\ Uninserted(r)
  BY DEF JobsIInv
<1>6. (CallTyped(r) /\ RoleKnown(r) /\ Uninserted(r))'
  BY <1>1, <1>4, <1>5 DEF CallTyped, RoleKnown, Uninserted, Accounts!Over, Unmade
<1>7. call[r].op = "login" => \A p \in seen : p \in Requests /\ HasJob(p, call[r].user)
  BY <1>2 DEF Accounts!Owned, Accounts!Counts, HasJob
<1>8. LoginSound(r)'
  BY <1>1, <1>4, <1>7 DEF LoginSound, HasJob, Equipping
<1>9. QED
  BY <1>1, <1>4, <1>6, <1>8, TablesStay, QuietRequestKeeps

LEMMA FindSharedKeeps ==
  ASSUME JobsIInv, NEW r \in Requests, Accounts!FindShared(r)
  PROVE  JobsIInv'
<1>1. /\ user' = user /\ credential' = credential /\ project' = project
      /\ collaborator' = collaborator /\ server' = server /\ moved' = moved
      /\ call[r].step = "shared"
  BY DEF Accounts!FindShared, Accounts!tables
<1>2. AccountsGrow
  BY <1>1, TablesStay
<1>3. PICK seen : seen = call[r].seen \cup Accounts!Shared(call[r].op, call[r].user)
  OBVIOUS
<1>4. CASE call[r].op = "login" /\ seen = {}
  <2>1. Accounts!Goto(r, "project")
    BY <1>3, <1>4 DEF Accounts!FindShared
  <2>2. QED
    BY <1>1, <1>2, <2>1, JobGoesOn DEF Accounts!Over, Unmade, Equipping
<1>5. CASE ~ (call[r].op = "login" /\ seen = {})
  <2>1. call' = [call EXCEPT ![r].seen = seen, ![r].step = "returned"]
    BY <1>3, <1>5 DEF Accounts!FindShared
  <2>2. /\ DOMAIN call' = Requests /\ \A q \in Requests : q # r => call'[q] = call[q]
        /\ DOMAIN call'[r] = JobFields /\ call'[r].step = "returned"
        /\ call'[r].op = call[r].op /\ call'[r].user = call[r].user
    BY <2>1 DEF JobsIInv, JobsTyped, CallTyped, JobFields
  <2>3. (CallTyped(r) /\ RoleKnown(r) /\ Uninserted(r))'
    BY <2>2 DEF CallTyped, RoleKnown, Uninserted, Accounts!Over, Unmade
  <2>4. LoginSound(r)
    BY DEF JobsIInv
  <2>5. ASSUME call[r].op = "login", r \notin moved
        PROVE  \E p \in Requests : HasJob(p, call[r].user)
    <3>1. PICK p \in seen : TRUE
      BY <1>5, <2>5
    <3>2. CASE p \in call[r].seen
      BY <1>1, <2>4, <2>5, <3>2 DEF LoginSound
    <3>3. CASE p \in Accounts!Shared(call[r].op, call[r].user)
      BY <2>5, <3>3 DEF Accounts!Shared, Accounts!Counts, HasJob
    <3>4. QED
      BY <1>3, <3>1, <3>2, <3>3
  <2>6. LoginSound(r)'
    BY <1>1, <2>2, <2>5 DEF LoginSound, HasJob, Equipping
  <2>7. QED
    BY <1>1, <1>2, <2>2, <2>3, <2>6, QuietRequestKeeps
<1>6. QED
  BY <1>4, <1>5

LEMMA InsertProjectKeeps ==
  ASSUME JobsIInv, NEW r \in Requests, Accounts!InsertProject(r)
  PROVE  JobsIInv'
<1>1. /\ user' = user /\ credential' = credential /\ collaborator' = collaborator
      /\ server' = server /\ moved' = moved
      /\ call[r].op \in {"login", "createJob"} /\ call[r].step = "project"
  BY DEF Accounts!InsertProject
<1>2. AccountsGrow
  BY <1>1, TablesStay
<1>3. CASE Accounts!Goto(r, "duplicate") /\ project' = project
  BY <1>1, <1>2, <1>3, JobGoesOn DEF Accounts!Over, Unmade, Equipping
<1>4. ASSUME NEW slug, Accounts!Goto(r, "collaborator"),
             project' = [project EXCEPT ![r] =
               [owner |-> call[r].user, slug |-> slug, status |-> "active"]]
      PROVE  JobsIInv'
  <2>1. /\ DOMAIN project' = Requests
        /\ project'[r] = [owner |-> call[r].user, slug |-> slug, status |-> "active"]
        /\ \A p \in Requests : p # r => project'[p] = project[p]
    BY <1>4 DEF JobsIInv, JobsTyped
  <2>2. /\ DOMAIN call' = Requests /\ \A q \in Requests : q # r => call'[q] = call[q]
        /\ DOMAIN call'[r] = JobFields /\ call'[r].step = "collaborator"
        /\ call'[r].op = call[r].op /\ call'[r].user = call[r].user
        /\ call'[r].new = call[r].new /\ call'[r].role = call[r].role
    BY <1>4, JobGotoFacts
  <2>3. CallTyped(r)
    BY DEF JobsIInv
  <2>4. (CallTyped(r) /\ RoleKnown(r) /\ Uninserted(r))'
    BY <1>1, <2>2, <2>3 DEF CallTyped, RoleKnown, Uninserted, Accounts!Over, Unmade
  <2>5. LoginSound(r)'
    BY <2>1, <2>2 DEF LoginSound, HasJob
  <2>6. \A p \in Requests : DOMAIN project'[p] = {"owner", "slug", "status"}
    BY <2>1 DEF JobsIInv, JobsTyped
  <2>7. QED
    BY <1>1, <1>2, <2>1, <2>2, <2>4, <2>5, <2>6, RequestKeeps
<1>5. QED
  BY <1>3, <1>4 DEF Accounts!InsertProject

LEMMA InsertCollaboratorKeeps ==
  ASSUME JobsIInv, NEW r \in Requests, Accounts!InsertCollaborator(r)
  PROVE  JobsIInv'
<1>1. /\ user' = user /\ credential' = credential /\ project' = project
      /\ collaborator \subseteq collaborator'
      /\ server' = server /\ moved' = moved
      /\ call[r].step = "collaborator" /\ Accounts!Goto(r, "profile")
  BY DEF Accounts!InsertCollaborator
<1>2. /\ DOMAIN call' = Requests /\ \A q \in Requests : q # r => call'[q] = call[q]
      /\ DOMAIN call'[r] = JobFields /\ call'[r].step = "profile"
      /\ call'[r].op = call[r].op /\ call'[r].user = call[r].user
      /\ call'[r].new = call[r].new /\ call'[r].role = call[r].role
  BY <1>1, JobGotoFacts
<1>3. CallTyped(r) /\ LoginSound(r)
  BY DEF JobsIInv
<1>4. (CallTyped(r) /\ RoleKnown(r) /\ Uninserted(r))'
  BY <1>1, <1>2, <1>3 DEF CallTyped, RoleKnown, Uninserted, Accounts!Over, Unmade
<1>5. HasJob(r, call[r].user) => HasJob(r, call[r].user)'
  BY <1>1, <1>2 DEF HasJob
<1>6. LoginSound(r)'
  BY <1>1, <1>2, <1>3, <1>5 DEF LoginSound, Equipping
<1>7. DOMAIN project' = Requests /\ \A p \in Requests : DOMAIN project'[p] = {"owner", "slug", "status"}
  BY <1>1 DEF JobsIInv, JobsTyped
<1>8. QED
  BY <1>1, <1>2, <1>4, <1>6, <1>7, TablesStay, RequestKeeps

(* An operator's change excuses whoever has begun.                         *)
LEMMA SetStatusKeeps ==
  ASSUME JobsIInv, NEW p \in Requests, Accounts!SetStatus(p)
  PROVE  JobsIInv'
<1>1. /\ user' = user /\ credential' = credential /\ collaborator' = collaborator
      /\ server' = server /\ call' = call /\ project[p].status # "none"
      /\ moved' = {r \in Requests : call[r].step # "none"}
  BY DEF Accounts!SetStatus
<1>2. PICK x : project' = [project EXCEPT ![p].status = x]
  BY DEF Accounts!SetStatus
<1>3. /\ DOMAIN project' = Requests /\ \A q \in Requests : q # p => project'[q] = project[q]
      /\ DOMAIN project'[p] = {"owner", "slug", "status"}
  BY <1>2 DEF JobsIInv, JobsTyped
<1>4. JobsTyped'
  BY <1>1, <1>3 DEF JobsIInv, JobsTyped
<1>5. AccountsGrow
  BY <1>1, TablesStay
<1>6. \A s \in Servers : SeedsSoFar(s)'
  BY <1>1, <1>5, SeedsStay DEF JobsIInv
<1>7. ASSUME NEW r \in Requests
      PROVE  (CallTyped(r) /\ RoleKnown(r) /\ Uninserted(r) /\ LoginSound(r))'
  <2>1. CallTyped(r) /\ RoleKnown(r) /\ Uninserted(r)
    BY DEF JobsIInv
  <2>2. (CallTyped(r) /\ RoleKnown(r) /\ Uninserted(r))'
    BY <1>1, <1>3, <2>1 DEF CallTyped, RoleKnown, Uninserted
  <2>3. LoginSound(r)'
    BY <1>1 DEF LoginSound, Equipping
  <2>4. QED
    BY <2>2, <2>3
<1>8. QED
  BY <1>4, <1>6, <1>7 DEF JobsIInv

LEMMA JobsStep ==
  ASSUME JobsIInv, Accounts!Next
  PROVE  JobsIInv'
<1>1. ASSUME NEW s \in Servers,
             \/ Accounts!Start(s) \/ Accounts!FindSeedUser(s) \/ Accounts!InsertSeedUser(s)
             \/ Accounts!FindCredential(s) \/ Accounts!InsertCredential(s) \/ Accounts!Crash(s)
      PROVE  JobsIInv'
  BY <1>1, StartKeeps, FindSeedUserKeeps, InsertSeedUserKeeps, FindCredentialKeeps,
     InsertCredentialKeeps, CrashKeeps
<1>2. ASSUME NEW r \in Requests,
             \/ Accounts!Begin(r) \/ Accounts!Throws(r) \/ Accounts!FindUser(r)
             \/ Accounts!Verify(r) \/ Accounts!WritePassword(r) \/ Accounts!SetRole(r)
             \/ Accounts!FindOwned(r) \/ Accounts!FindShared(r) \/ Accounts!InsertProject(r)
             \/ Accounts!InsertCollaborator(r) \/ Accounts!FindProfile(r)
             \/ Accounts!InsertProfile(r) \/ Accounts!InsertAgent(r) \/ Accounts!SetStatus(r)
      PROVE  JobsIInv'
  BY <1>2, JobBeginKeeps, SmallStepsKeep, FindUserKeeps, WritePasswordKeeps, SetRoleKeeps,
     FindOwnedKeeps, FindSharedKeeps, InsertProjectKeeps, InsertCollaboratorKeeps,
     SetStatusKeeps
<1>3. QED
  BY <1>1, <1>2 DEF Accounts!Next

LEMMA JobsStutter ==
  ASSUME JobsIInv, UNCHANGED jobVars
  PROVE  JobsIInv'
<1>1. AccountsGrow
  BY TablesStay DEF jobVars
<1>2. \A s \in Servers : SeedsSoFar(s)'
  BY <1>1, SeedsStay DEF JobsIInv, jobVars
<1>3. QED
  BY <1>2 DEF JobsIInv, JobsTyped, CallTyped, RoleKnown, Uninserted, LoginSound, HasJob, jobVars

LEMMA JobsAlways == AllSpec => [](part = "jobs" => JobsIInv)
<1> DEFINE I == part = "jobs" => JobsIInv
<1>1. AllInit => I
  <2> SUFFICES ASSUME AllInit, part = "jobs"
               PROVE  JobsIInv
    OBVIOUS
  <2>1. Accounts!Init
    BY DEF AllInit
  <2>2. /\ JobsTyped /\ \A r \in Requests : call[r] = Accounts!NoCall
        /\ \A r \in Requests : project[r].status = "none"
        /\ \A s \in Servers : server[s].step = "down"
    BY <2>1 DEF Accounts!Init, JobsTyped, Accounts!NoProject, Accounts!Down
  <2>3. QED
    BY <2>2 DEF JobsIInv, SeedsSoFar, Seeding, CallTyped, RoleKnown, Uninserted, LoginSound,
       JobFields, Accounts!NoCall
<1>2. I /\ [AllNext]_allVars => I'
  <2> SUFFICES ASSUME I, [AllNext]_allVars, part' = "jobs"
               PROVE  JobsIInv'
    OBVIOUS
  <2>1. part = "jobs" /\ JobsIInv
    BY DEF AllNext, allVars
  <2>2. CASE Accounts!Next
    BY <2>1, <2>2, JobsStep
  <2>3. CASE UNCHANGED jobVars
    BY <2>1, <2>3, JobsStutter
  <2>4. QED
    BY <2>1, <2>2, <2>3 DEF AllNext, allVars, jobVars
<1>3. QED
  BY <1>1, <1>2, PTL DEF AllSpec

(* Whoever was told of a sign-in has an active job of its own or a shared  *)
(* one, unless an operator has changed some job's status since it began.   *)
THEOREM SignedInAlwaysHasJob == AllSpec => []SignedInHasJob
<1>1. (part = "jobs" => JobsIInv) => SignedInHasJob
  BY DEF SignedInHasJob, Accounts!SignedInHasJob, Accounts!Is, JobsIInv, LoginSound, HasJob
<1>2. QED
  BY <1>1, JobsAlways, PTL

(* A server that listens has all its accounts, with a password, for any    *)
(* number of servers and accounts, however often a start was cut short.    *)
THEOREM StartedAlwaysHasSeeds == AllSpec => []StartedHasSeeds
<1>1. (part = "jobs" => JobsIInv) => StartedHasSeeds
  <2> SUFFICES ASSUME part = "jobs", JobsIInv, NEW s \in Servers, server[s].step = "up",
                      NEW i \in DOMAIN Seeds
               PROVE  user[Seeds[i]] # Nothing /\ credential[Seeds[i]] # Nothing
    BY DEF StartedHasSeeds, Accounts!StartedHasSeeds, Accounts!Seeded, Accounts!At
  <2>1. QED
    BY AccountFacts DEF JobsIInv, SeedsSoFar, HasAccount
<1>2. QED
  BY <1>1, JobsAlways, PTL

-----------------------------------------------------------------------------
(* Families.                                                               *)
FamilyFields == {"op", "user", "family", "on", "device", "step", "page", "total"}

RequestTyped(r) ==
  /\ DOMAIN request[r] = FamilyFields
  /\ request[r].step = "join" => request[r].op = "redeem"
  /\ request[r].step \in {"family", "member"} => request[r].op = "createPairing"

FamiliesTyped ==
  /\ DOMAIN request = Requests /\ DOMAIN over = Requests /\ DOMAIN session = Guests
  /\ \A r \in Requests : RequestTyped(r)
  /\ \A r \in Requests : \A q \in over[r] : q \in Requests /\ request[q].step \in Family!Over

(* The pairing of this name is over, and has made its family.              *)
Made(f) ==
  f \in Requests /\ request[f].op = "createPairing" /\ request[f].step = "returned"


MembersKnown ==
  \A m \in member :
    /\ m = [family |-> m.family, user |-> m.user, role |-> m.role]
    /\ m.family \in Past \/ Made(m.family)
    /\ m.role = "guardian" /\ m.family \in Requests => m.user = request[m.family].user

OneRoleEach ==
  \A m, n \in member : m.family = n.family /\ m.user = n.user => m = n

(* Who is past its look for a family overlaps whoever paired since.        *)
PairsAlone(r) ==
  request[r].step \in {"family", "member"} =>
    \A m \in member : m.role = "guardian" /\ m.user = request[r].user =>
      m.family \in Requests /\ Family!Overlap(m.family, r)

JoinsKnown(r) ==
  request[r].step = "join" => request[r].family \in Past \/ Made(request[r].family)

IsServed(r) ==
  /\ request[r].step = "refused" /\ request[r].op \in Family!Members
  /\ session[request[r].user] = "active" /\ request[r].family \in Past \cup over[r]
  => [family |-> request[r].family, user |-> request[r].user, role |-> "guardian"] \notin member

FamiliesIInv ==
  /\ FamiliesTyped /\ MembersKnown /\ OneRoleEach /\ Family!OneFamilyUnlessOverlapping
  /\ \A r \in Requests : PairsAlone(r) /\ JoinsKnown(r) /\ IsServed(r)

(* What every step of a request leaves alone.                              *)
Steps(r) ==
  /\ DOMAIN request' = Requests /\ \A q \in Requests : q # r => request'[q] = request[q]
  /\ request[r].step \notin Family!Over
  /\ RequestTyped(r)'
  /\ request[r].step # "none" =>
       request'[r].op = request[r].op /\ request'[r].user = request[r].user
  /\ request'[r].step # "none"
  /\ DOMAIN over' = Requests
  /\ \A q \in Requests : request[q].step # "none" => over'[q] = over[q]
  /\ \A q \in Requests : over'[q] = over[q]
                         \/ over'[q] = {p \in Requests : request[p].step \in Family!Over}
  /\ DOMAIN session' = Guests

LEMMA GuardianFacts == Requests \cap Past = {}
  BY DecisionsAssumption DEF Family!GuardianAssumption

LEMMA StepsTyped ==
  ASSUME FamiliesTyped, NEW r \in Requests, Steps(r)
  PROVE  /\ FamiliesTyped'
         /\ \A f : Made(f) => f # r /\ Made(f)'
         /\ \A q, p \in Requests : /\ Family!Overlap(q, p) /\ request[p].step # "none"
                                   => Family!Overlap(q, p)'
<1>1. FamiliesTyped'
  BY DEF FamiliesTyped, Steps, RequestTyped
<1>2. \A f : Made(f) => f # r /\ Made(f)'
  BY DEF Steps, Made, Family!Over
<1>3. \A q, p \in Requests : /\ Family!Overlap(q, p) /\ request[p].step # "none"
                             => Family!Overlap(q, p)'
  BY DEF Steps, Family!Overlap
<1>4. QED
  BY <1>1, <1>2, <1>3

(* A step that leaves the members alone.                                   *)
LEMMA MembersStay ==
  ASSUME FamiliesIInv, NEW r \in Requests, Steps(r), member' = member, session' = session,
         PairsAlone(r)', JoinsKnown(r)', IsServed(r)'
  PROVE  FamiliesIInv'
<1>1. /\ FamiliesTyped'
      /\ \A f : Made(f) => f # r /\ Made(f)'
      /\ \A q, p \in Requests : /\ Family!Overlap(q, p) /\ request[p].step # "none"
                                => Family!Overlap(q, p)'
  BY StepsTyped DEF FamiliesIInv
<1>2. \A f : Made(f) => request'[f] = request[f]
  BY <1>1 DEF Made, Steps
<1>3. MembersKnown' /\ OneRoleEach'
  BY <1>1, <1>2, GuardianFacts DEF FamiliesIInv, MembersKnown, OneRoleEach
<1>4. ASSUME NEW q \in Requests, q # r
      PROVE  (PairsAlone(q) /\ JoinsKnown(q) /\ IsServed(q))'
  <2>1. PairsAlone(q) /\ JoinsKnown(q) /\ IsServed(q) /\ request'[q] = request[q]
    BY <1>4 DEF FamiliesIInv, Steps
  <2>2. PairsAlone(q)'
    BY <1>1, <2>1 DEF PairsAlone
  <2>3. JoinsKnown(q)'
    BY <1>1, <2>1 DEF JoinsKnown
  <2>4. IsServed(q)'
    BY <2>1 DEF IsServed, Steps
  <2>5. QED
    BY <2>2, <2>3, <2>4
<1>5. Family!OneFamilyUnlessOverlapping'
  <2>1. \A m \in member : m.family \in Requests => request[m.family].step # "none"
    BY GuardianFacts DEF FamiliesIInv, MembersKnown, Made
  <2>2. QED
    BY <1>1, <2>1 DEF FamiliesIInv, Family!OneFamilyUnlessOverlapping
<1>6. QED
  BY <1>1, <1>3, <1>4, <1>5 DEF FamiliesIInv

LEMMA FamilyGotoFacts ==
  ASSUME FamiliesIInv, NEW r \in Requests, NEW s, Family!Goto(r, s),
         request[r].step \notin Family!Over \cup {"none"}, s # "none",
         s = "join" => request[r].op = "redeem",
         s \in {"family", "member"} => request[r].op = "createPairing",
         over' = over, DOMAIN session' = Guests
  PROVE  /\ Steps(r) /\ request'[r].step = s
         /\ request'[r].family = request[r].family
<1>1. /\ DOMAIN request' = Requests /\ \A q \in Requests : q # r => request'[q] = request[q]
      /\ DOMAIN request'[r] = FamilyFields /\ request'[r].step = s
      /\ request'[r].op = request[r].op /\ request'[r].user = request[r].user
      /\ request'[r].family = request[r].family
  BY DEF FamiliesIInv, FamiliesTyped, RequestTyped, FamilyFields, Family!Goto
<1>2. QED
  BY <1>1 DEF Steps, RequestTyped, FamiliesIInv, FamiliesTyped

(* A request that goes on, in no danger of any of what can go wrong.       *)
LEMMA FamilyGoesOn ==
  ASSUME FamiliesIInv, NEW r \in Requests, NEW s, Family!Goto(r, s),
         request[r].step \notin Family!Over \cup {"none"},
         s \notin {"none", "join", "family", "member"},
         s = "refused" => request[r].op \notin Family!Members,
         over' = over, session' = session, member' = member
  PROVE  FamiliesIInv'
<1>1. Steps(r) /\ request'[r].step = s
  BY FamilyGotoFacts DEF FamiliesIInv, FamiliesTyped
<1>2. request'[r].op = request[r].op
  BY <1>1 DEF Steps
<1>3. (PairsAlone(r) /\ JoinsKnown(r) /\ IsServed(r))'
  BY <1>1, <1>2 DEF PairsAlone, JoinsKnown, IsServed, Family!Members, Family!Managing
<1>4. QED
  BY <1>1, <1>3, MembersStay

LEMMA FamilyBeginKeeps ==
  ASSUME FamiliesIInv, NEW r \in Requests, Family!Begin(r)
  PROVE  FamiliesIInv'
<1>1. PICK op \in Family!Ops, u \in Guests, f \in family, d \in Devices :
        \E on \in Family!Targets(op) :
          request' = [request EXCEPT ![r] = [Family!NoCall EXCEPT
            !.op = op, !.user = u, !.on = on, !.step = "validate",
            !.family = IF op \in {"createPairing", "redeem"} THEN Nothing ELSE f,
            !.device = IF op = "ping" THEN d ELSE Nothing]]
  BY DEF Family!Begin
<1>2. /\ request[r].step = "none" /\ session' = session /\ member' = member
      /\ over' = [over EXCEPT ![r] = {q \in Requests : request[q].step \in Family!Over}]
  BY DEF Family!Begin
<1>3. /\ DOMAIN request' = Requests /\ \A q \in Requests : q # r => request'[q] = request[q]
      /\ DOMAIN request'[r] = FamilyFields /\ request'[r].step = "validate"
  BY <1>1 DEF FamiliesIInv, FamiliesTyped, FamilyFields, Family!NoCall
<1>4. Steps(r)
  BY <1>2, <1>3 DEF Steps, RequestTyped, FamiliesIInv, FamiliesTyped, Family!Over
<1>5. (PairsAlone(r) /\ JoinsKnown(r) /\ IsServed(r))'
  BY <1>3 DEF PairsAlone, JoinsKnown, IsServed
<1>6. QED
  BY <1>2, <1>4, <1>5, MembersStay

(* Who is refused as no member is none, and who is refused as no guardian  *)
(* has another role, its only one in that family.                          *)
LEMMA RefusalKeeps ==
  ASSUME FamiliesIInv, NEW r \in Requests, Family!Goto(r, "refused"),
         request[r].step \notin Family!Over \cup {"none"},
         over' = over, session' = session, member' = member,
         \/ session[request[r].user] # "active"
         \/ [family |-> request[r].family, user |-> request[r].user, role |-> "guardian"]
              \notin member
  PROVE  FamiliesIInv'
<1>1. /\ Steps(r) /\ request'[r].step = "refused"
      /\ request'[r].family = request[r].family
  BY FamilyGotoFacts DEF FamiliesIInv, FamiliesTyped
<1>2. request'[r].user = request[r].user
  BY <1>1 DEF Steps
<1>3. (PairsAlone(r) /\ JoinsKnown(r) /\ IsServed(r))'
  BY <1>1, <1>2 DEF PairsAlone, JoinsKnown, IsServed
<1>4. QED
  BY <1>1, <1>3, MembersStay

LEMMA RequireMemberKeeps ==
  ASSUME FamiliesIInv, NEW r \in Requests, Family!RequireMember(r)
  PROVE  FamiliesIInv'
<1> DEFINE own == {m \in member : m.user = request[r].user /\ m.family = request[r].family}
           mine == [family |-> request[r].family, user |-> request[r].user, role |-> "guardian"]
<1>1. /\ request[r].step = "role" /\ over' = over /\ session' = session /\ member' = member
      /\ request[r].step \notin Family!Over \cup {"none"}
  BY DEF Family!RequireMember, Family!Over
<1>2. CASE own = {} /\ Family!Goto(r, "refused")
  <2>1. mine \notin member
    BY <1>2
  <2>2. QED
    BY <1>1, <1>2, <2>1, RefusalKeeps
<1>3. ASSUME NEW m \in own, Family!Goto(r, "work")
      PROVE  FamiliesIInv'
  BY <1>1, <1>3, FamilyGoesOn
<1>4. ASSUME NEW m \in own, m.role # "guardian", Family!Goto(r, "refused")
      PROVE  FamiliesIInv'
  <2>1. mine \notin member
    <3>1. SUFFICES ASSUME mine \in member
                   PROVE  FALSE
      OBVIOUS
    <3>2. m = mine
      BY <3>1 DEF FamiliesIInv, OneRoleEach
    <3>3. QED
      BY <1>4, <3>2
  <2>2. QED
    BY <1>1, <1>4, <2>1, RefusalKeeps
<1>5. QED
  BY <1>2, <1>3, <1>4 DEF Family!RequireMember, Family!MayManage

LEMMA ValidateKeeps ==
  ASSUME FamiliesIInv, NEW r \in Requests, Family!Validate(r)
  PROVE  FamiliesIInv'
<1>1. /\ over' = over /\ session' = session /\ member' = member
      /\ request[r].step \notin Family!Over \cup {"none"}
  BY DEF Family!Validate, Family!Over
<1>2. CASE session[request[r].user] # "active"
  BY <1>1, <1>2, RefusalKeeps DEF Family!Validate
<1>3. CASE session[request[r].user] = "active"
  <2>1. PICK s \in {"role", "work"} : Family!Goto(r, s)
    BY <1>3 DEF Family!Validate
  <2>2. QED
    BY <1>1, <2>1, FamilyGoesOn
<1>4. QED
  BY <1>2, <1>3

LEMMA FindFamilyKeeps ==
  ASSUME FamiliesIInv, NEW r \in Requests, Family!FindFamily(r)
  PROVE  FamiliesIInv'
<1>1. /\ over' = over /\ session' = session /\ member' = member
      /\ request[r].op = "createPairing" /\ request[r].step \notin Family!Over \cup {"none"}
  BY DEF Family!FindFamily, Family!At, Family!Over
<1>2. CASE Family!GuardianRows(request[r].user) # {}
  BY <1>1, <1>2, FamilyGoesOn DEF Family!FindFamily
<1>3. CASE Family!GuardianRows(request[r].user) = {}
  <2>1. Family!Goto(r, "family")
    BY <1>3 DEF Family!FindFamily
  <2>2. Steps(r) /\ request'[r].step = "family"
    BY <1>1, <2>1, FamilyGotoFacts DEF FamiliesIInv, FamiliesTyped
  <2>3. request'[r].user = request[r].user
    BY <1>1, <2>2 DEF Steps
  <2>4. (PairsAlone(r) /\ JoinsKnown(r) /\ IsServed(r))'
    BY <1>1, <1>3, <2>2, <2>3 DEF PairsAlone, JoinsKnown, IsServed, Family!GuardianRows
  <2>5. QED
    BY <1>1, <2>2, <2>4, MembersStay
<1>4. QED
  BY <1>2, <1>3

LEMMA InsertFamilyKeeps ==
  ASSUME FamiliesIInv, NEW r \in Requests, Family!InsertFamily(r)
  PROVE  FamiliesIInv'
<1>1. /\ over' = over /\ session' = session /\ member' = member
      /\ request[r].op = "createPairing" /\ request[r].step = "family"
      /\ request[r].step \notin Family!Over \cup {"none"} /\ Family!Goto(r, "member")
  BY DEF Family!InsertFamily, Family!At, Family!Over
<1>2. Steps(r) /\ request'[r].step = "member"
  BY <1>1, FamilyGotoFacts DEF FamiliesIInv, FamiliesTyped
<1>3. request'[r].user = request[r].user
  BY <1>1, <1>2 DEF Steps
<1>4. PairsAlone(r) /\ FamiliesTyped /\ MembersKnown
  BY DEF FamiliesIInv
<1>5. \A q \in Requests : Family!Overlap(q, r) => Family!Overlap(q, r)'
  BY <1>1, <1>2, <1>4, StepsTyped
<1>6. (PairsAlone(r) /\ JoinsKnown(r) /\ IsServed(r))'
  BY <1>1, <1>2, <1>3, <1>4, <1>5 DEF PairsAlone, JoinsKnown, IsServed
<1>7. QED
  BY <1>1, <1>2, <1>6, MembersStay

LEMMA FindGuardianKeeps ==
  ASSUME FamiliesIInv, NEW r \in Requests, Family!FindGuardian(r)
  PROVE  FamiliesIInv'
<1>1. /\ over' = over /\ session' = session /\ member' = member
      /\ request[r].op = "redeem" /\ request[r].step \notin Family!Over \cup {"none"}
  BY DEF Family!FindGuardian, Family!At, Family!Over
<1>2. CASE Family!Goto(r, "refused")
  BY <1>1, <1>2, FamilyGoesOn DEF Family!Members, Family!Managing
<1>3. ASSUME NEW m \in member,
             request' = [request EXCEPT ![r].family = m.family, ![r].step = "join"]
      PROVE  FamiliesIInv'
  <2>1. /\ DOMAIN request' = Requests
        /\ \A q \in Requests : q # r => request'[q] = request[q]
        /\ DOMAIN request'[r] = FamilyFields /\ request'[r].step = "join"
        /\ request'[r].op = request[r].op /\ request'[r].user = request[r].user
        /\ request'[r].family = m.family
    BY <1>3 DEF FamiliesIInv, FamiliesTyped, RequestTyped, FamilyFields
  <2>2. Steps(r)
    BY <1>1, <2>1 DEF Steps, RequestTyped, FamiliesIInv, FamiliesTyped
  <2>3. m.family \in Past \/ Made(m.family)
    BY <1>3 DEF FamiliesIInv, MembersKnown
  <2>4. \A f : Made(f) => Made(f)'
    BY <2>2, StepsTyped DEF FamiliesIInv
  <2>5. (PairsAlone(r) /\ JoinsKnown(r) /\ IsServed(r))'
    BY <2>1, <2>3, <2>4 DEF PairsAlone, JoinsKnown, IsServed
  <2>6. QED
    BY <1>1, <2>2, <2>5, MembersStay
<1>4. QED
  BY <1>2, <1>3 DEF Family!FindGuardian

(* A new member: of a family in which it has no role yet, and whom nobody  *)
(* who was refused there before was.                                       *)
LEMMA MemberJoins ==
  ASSUME FamiliesIInv, NEW r \in Requests, Steps(r), session' = session,
         NEW f, NEW u, NEW role,
         member' = member \cup {[family |-> f, user |-> u, role |-> role]},
         request'[r].step = "returned", u = request[r].user,
         \A m \in member : ~ (m.family = f /\ m.user = u),
         f \in Past \/ Made(f)', request[r].step # "none",
         role = "guardian" => /\ f = r /\ request[r].step = "member"
                              /\ request[r].op = "createPairing"
  PROVE  FamiliesIInv'
<1> DEFINE new == [family |-> f, user |-> u, role |-> role]
<1>1. /\ FamiliesTyped'
      /\ \A e : Made(e) => e # r /\ Made(e)'
      /\ \A q, p \in Requests : /\ Family!Overlap(q, p) /\ request[p].step # "none"
                                => Family!Overlap(q, p)'
  BY StepsTyped DEF FamiliesIInv
<1>2. \A e : Made(e) => request'[e] = request[e]
  BY <1>1 DEF Made, Steps
<1>3. request'[r].user = u
  BY DEF Steps
<1>4. new.family = f /\ new.user = u /\ new.role = role /\ member' = member \cup {new}
  OBVIOUS
<1> HIDE DEF new
<1>5. MembersKnown'
  <2>1. ASSUME NEW m \in member
        PROVE  /\ m = [family |-> m.family, user |-> m.user, role |-> m.role]
               /\ m.family \in Past \/ Made(m.family)'
               /\ m.role = "guardian" /\ m.family \in Requests =>
                    m.user = request'[m.family].user
    BY <1>1, <1>2, GuardianFacts DEF FamiliesIInv, MembersKnown
  <2>2. /\ new = [family |-> new.family, user |-> new.user, role |-> new.role]
        /\ new.family \in Past \/ Made(f)'
        /\ new.role = "guardian" /\ new.family \in Requests =>
             new.user = request'[new.family].user
    BY <1>3, <1>4 DEF new
  <2>3. QED
    BY <1>4, <2>1, <2>2 DEF MembersKnown
<1>6. OneRoleEach'
  BY <1>4 DEF FamiliesIInv, OneRoleEach
<1>7. ASSUME NEW q \in Requests
      PROVE  PairsAlone(q)'
  <2>1. CASE q = r
    BY <2>1 DEF PairsAlone
  <2>2. CASE q # r
    <3>1. PairsAlone(q) /\ request'[q] = request[q]
      BY <2>2 DEF FamiliesIInv, Steps
    <3>2. SUFFICES ASSUME request[q].step \in {"family", "member"}, NEW m \in member',
                          m.role = "guardian", m.user = request[q].user
                   PROVE  m.family \in Requests /\ Family!Overlap(m.family, q)'
      BY <3>1 DEF PairsAlone
    <3>3. CASE m \in member
      BY <1>1, <3>1, <3>2, <3>3 DEF PairsAlone
    <3>4. CASE m = new
      <4>1. f = r /\ request[r].step = "member"
        BY <1>4, <3>2, <3>4
      <4>2. r \notin over[q] /\ q \notin over[r]
        BY <3>2, <4>1 DEF FamiliesIInv, FamiliesTyped, Family!Over
      <4>3. Family!Overlap(r, q)
        BY <2>2, <4>1, <4>2 DEF Family!Overlap
      <4>4. QED
        BY <1>1, <1>4, <3>2, <3>4, <4>1, <4>3
    <3>5. QED
      BY <1>4, <3>3, <3>4
  <2>3. QED
    BY <2>1, <2>2
<1>8. ASSUME NEW q \in Requests
      PROVE  JoinsKnown(q)'
  <2>1. CASE q = r
    BY <2>1 DEF JoinsKnown
  <2>2. CASE q # r
    BY <1>1, <2>2 DEF JoinsKnown, FamiliesIInv, Steps
  <2>3. QED
    BY <2>1, <2>2
<1>9. ASSUME NEW q \in Requests
      PROVE  IsServed(q)'
  <2>1. CASE q = r
    BY <2>1 DEF IsServed
  <2>2. CASE q # r
    <3>1. IsServed(q) /\ request'[q] = request[q]
      BY <2>2 DEF FamiliesIInv, Steps
    <3>2. request[q].step = "refused" => over'[q] = over[q]
      BY DEF Steps
    <3>3. SUFFICES ASSUME request[q].step = "refused", request[q].op \in Family!Members,
                          request[q].family \in Past \cup over[q],
                          new = [family |-> request[q].family, user |-> request[q].user,
                                 role |-> "guardian"]
                   PROVE  FALSE
      BY <1>4, <3>1, <3>2 DEF IsServed, Family!Members, Family!Managing
    <3>4. f = request[q].family /\ role = "guardian"
      BY <1>4, <3>3
    <3>5. r \in over[q]
      BY <3>3, <3>4, GuardianFacts
    <3>6. QED
      BY <3>4, <3>5 DEF FamiliesIInv, FamiliesTyped, Family!Over
  <2>3. QED
    BY <2>1, <2>2
<1>10. Family!OneFamilyUnlessOverlapping'
  <2>1. \A m \in member : m.family \in Requests => request[m.family].step # "none"
    BY GuardianFacts DEF FamiliesIInv, MembersKnown, Made
  <2>2. ASSUME NEW m \in member, NEW n \in member
        PROVE  m.role = "guardian" /\ n.role = "guardian" /\ m.user = n.user =>
                 \/ m.family = n.family
                 \/ {m.family, n.family} \subseteq Past
                 \/ m.family \in Requests /\ n.family \in Requests
                    /\ Family!Overlap(m.family, n.family)'
    BY <1>1, <2>1 DEF FamiliesIInv, Family!OneFamilyUnlessOverlapping
  <2>3. ASSUME NEW m \in member, m.role = "guardian", role = "guardian", m.user = u
        PROVE  /\ m.family \in Requests /\ f \in Requests
               /\ Family!Overlap(m.family, f)' /\ Family!Overlap(f, m.family)'
    <3>1. m.family \in Requests /\ Family!Overlap(m.family, r)
      BY <2>3 DEF FamiliesIInv, PairsAlone
    <3>2. Family!Overlap(r, m.family)
      BY <2>3, <3>1 DEF Family!Overlap
    <3>3. request[m.family].step # "none"
      BY <2>1, <3>1
    <3>4. QED
      BY <1>1, <2>3, <3>1, <3>2, <3>3
  <2>4. QED
    BY <1>4, <2>2, <2>3 DEF Family!OneFamilyUnlessOverlapping
<1>11. QED
  BY <1>1, <1>5, <1>6, <1>7, <1>8, <1>9, <1>10 DEF FamiliesIInv

LEMMA InsertGuardianKeeps ==
  ASSUME FamiliesIInv, NEW r \in Requests, Family!InsertGuardian(r)
  PROVE  FamiliesIInv'
<1>1. /\ over' = over /\ session' = session
      /\ request[r].op = "createPairing" /\ request[r].step = "member"
      /\ request[r].step \notin Family!Over \cup {"none"} /\ Family!Goto(r, "returned")
      /\ member' = member \cup {[family |-> r, user |-> request[r].user, role |-> "guardian"]}
  BY DEF Family!InsertGuardian, Family!At, Family!Over
<1>2. Steps(r) /\ request'[r].step = "returned"
  BY <1>1, FamilyGotoFacts DEF FamiliesIInv, FamiliesTyped
<1>3. Made(r)'
  BY <1>1, <1>2 DEF Made, Steps
<1>4. \A m \in member : m.family # r
  BY <1>1, GuardianFacts DEF FamiliesIInv, MembersKnown, Made
<1>5. PICK u : u = request[r].user
  OBVIOUS
<1>6. member' = member \cup {[family |-> r, user |-> u, role |-> "guardian"]}
  BY <1>1, <1>5
<1>7. QED
  BY <1>1, <1>2, <1>3, <1>4, <1>5, <1>6, MemberJoins

LEMMA JoinKeeps ==
  ASSUME FamiliesIInv, NEW r \in Requests, Family!Join(r)
  PROVE  FamiliesIInv'
<1>1. /\ over' = over /\ session' = session
      /\ request[r].op = "redeem" /\ request[r].step = "join"
      /\ request[r].step \notin Family!Over \cup {"none"}
  BY DEF Family!Join, Family!At, Family!Over
<1>2. CASE Family!Joined(request[r].family, request[r].user)
  BY <1>1, <1>2, FamilyGoesOn DEF Family!Join
<1>3. CASE ~ Family!Joined(request[r].family, request[r].user)
  <2>1. PICK f : f = request[r].family
    OBVIOUS
  <2>2. PICK u : u = request[r].user
    OBVIOUS
  <2>3. /\ member' = member \cup {[family |-> f, user |-> u, role |-> "ward"]}
        /\ Family!Goto(r, "returned") /\ \A m \in member : ~ (m.family = f /\ m.user = u)
    BY <1>3, <2>1, <2>2 DEF Family!Join, Family!Joined
  <2>4. Steps(r) /\ request'[r].step = "returned"
    BY <1>1, <2>3, FamilyGotoFacts DEF FamiliesIInv, FamiliesTyped
  <2>5. f \in Past \/ Made(f)
    BY <1>1, <2>1 DEF FamiliesIInv, JoinsKnown
  <2>6. \A e : Made(e) => Made(e)'
    BY <2>4, StepsTyped DEF FamiliesIInv
  <2>7. f \in Past \/ Made(f)'
    BY <2>5, <2>6
  <2>8. QED
    BY <1>1, <2>2, <2>3, <2>4, <2>7, MemberJoins
<1>4. QED
  BY <1>2, <1>3

LEMMA RevokeKeeps ==
  ASSUME FamiliesIInv, NEW u \in Guests, Family!Revoke(u)
  PROVE  FamiliesIInv'
<1>1. /\ member' = member /\ request' = request /\ over' = over
      /\ session' = [session EXCEPT ![u] = "revoked"]
  BY DEF Family!Revoke
<1>2. /\ DOMAIN session' = Guests
      /\ \A v : session'[v] = "active" => session[v] = "active"
  BY <1>1 DEF FamiliesIInv, FamiliesTyped
<1>3. QED
  BY <1>1, <1>2 DEF FamiliesIInv, FamiliesTyped, RequestTyped, MembersKnown, Made, OneRoleEach,
     PairsAlone, JoinsKnown, IsServed, Family!Overlap, Family!OneFamilyUnlessOverlapping

LEMMA OtherStepsKeep ==
  ASSUME FamiliesIInv, NEW r \in Requests,
         \/ Family!Throws(r) \/ Family!Insert(r) \/ Family!Update(r) \/ Family!Delete(r)
         \/ Family!Ping(r) \/ Family!Show(r)
  PROVE  FamiliesIInv'
<1>1. PICK s \in {"threw", "returned"} : Family!Goto(r, s)
  BY DEF Family!Throws, Family!Insert, Family!Update, Family!Delete, Family!Ping, Family!Show
<1>2. /\ over' = over /\ session' = session /\ member' = member
      /\ request[r].step \notin Family!Over \cup {"none"}
  BY DEF Family!Throws, Family!Insert, Family!Update, Family!Delete, Family!Ping, Family!Show,
     Family!At, Family!Over
<1>3. QED
  BY <1>1, <1>2, FamilyGoesOn

LEMMA ListKeeps ==
  ASSUME FamiliesIInv, NEW r \in Requests, Family!ReadPage(r) \/ Family!CountAll(r)
  PROVE  FamiliesIInv'
<1>1. /\ over' = over /\ session' = session /\ member' = member
      /\ request[r].step \notin Family!Over \cup {"none"}
  BY DEF Family!ReadPage, Family!CountAll, Family!At, Family!Over
<1>2. \E n : \/ request' = [request EXCEPT ![r].page = n, ![r].step = "count"]
              \/ request' = [request EXCEPT ![r].total = n, ![r].step = "returned"]
  BY DEF Family!ReadPage, Family!CountAll
<1>3. PICK n : \/ request' = [request EXCEPT ![r].page = n, ![r].step = "count"]
               \/ request' = [request EXCEPT ![r].total = n, ![r].step = "returned"]
  BY <1>2
<1>4. /\ DOMAIN request' = Requests /\ \A q \in Requests : q # r => request'[q] = request[q]
      /\ DOMAIN request'[r] = FamilyFields /\ request'[r].step \in {"count", "returned"}
      /\ request'[r].op = request[r].op /\ request'[r].user = request[r].user
  BY <1>3 DEF FamiliesIInv, FamiliesTyped, RequestTyped, FamilyFields
<1>5. Steps(r)
  BY <1>1, <1>4 DEF Steps, RequestTyped, FamiliesIInv, FamiliesTyped
<1>6. (PairsAlone(r) /\ JoinsKnown(r) /\ IsServed(r))'
  BY <1>4 DEF PairsAlone, JoinsKnown, IsServed
<1>7. QED
  BY <1>1, <1>5, <1>6, MembersStay

LEMMA FamiliesStep ==
  ASSUME FamiliesIInv, Family!Next
  PROVE  FamiliesIInv'
<1>1. ASSUME NEW r \in Requests, Family!Step(r)
      PROVE  FamiliesIInv'
  BY <1>1, FamilyBeginKeeps, ValidateKeeps, RequireMemberKeeps, FindFamilyKeeps,
     InsertFamilyKeeps, InsertGuardianKeeps, FindGuardianKeeps, JoinKeeps, OtherStepsKeep,
     ListKeeps DEF Family!Step
<1>2. QED
  BY <1>1, RevokeKeeps DEF Family!Next

LEMMA FamiliesAlways == AllSpec => [](part = "family" => FamiliesIInv)
<1> DEFINE I == part = "family" => FamiliesIInv
<1>1. AllInit => I
  <2> SUFFICES ASSUME AllInit, part = "family"
               PROVE  FamiliesIInv
    OBVIOUS
  <2>1. Family!Init
    BY DEF AllInit
  <2>2. /\ FamiliesTyped /\ \A r \in Requests : request[r].step = "none"
    BY <2>1 DEF Family!Init, FamiliesTyped, RequestTyped, FamilyFields, Family!NoCall
  <2>3. PICK guardian \in [Past -> Guests \cup {Nothing}] :
          member = {[family |-> f, user |-> guardian[f], role |-> "guardian"] :
                      f \in {f \in Past : guardian[f] # Nothing}}
    BY <2>1 DEF Family!Init
  <2>4. \A m \in member : \E f \in Past :
          m = [family |-> f, user |-> guardian[f], role |-> "guardian"]
    BY <2>3
  <2>5. \A m \in member : /\ m = [family |-> m.family, user |-> m.user, role |-> m.role]
                          /\ m.family \in Past /\ m.user = guardian[m.family]
                          /\ m.role = "guardian"
    BY <2>4
  <2>6. MembersKnown /\ OneRoleEach /\ Family!OneFamilyUnlessOverlapping
    BY <2>5, GuardianFacts DEF MembersKnown, OneRoleEach, Family!OneFamilyUnlessOverlapping
  <2>7. QED
    BY <2>2, <2>6 DEF FamiliesIInv, PairsAlone, JoinsKnown, IsServed
<1>2. I /\ [AllNext]_allVars => I'
  <2> SUFFICES ASSUME I, [AllNext]_allVars, part' = "family"
               PROVE  FamiliesIInv'
    OBVIOUS
  <2>1. part = "family" /\ FamiliesIInv
    BY DEF AllNext, allVars
  <2>2. CASE Family!Next
    BY <2>1, <2>2, FamiliesStep
  <2>3. CASE UNCHANGED familyVars
    BY <2>1, <2>3 DEF familyVars, FamiliesIInv, FamiliesTyped, RequestTyped, MembersKnown, Made,
       OneRoleEach, PairsAlone, JoinsKnown, IsServed, Family!Overlap,
       Family!OneFamilyUnlessOverlapping
  <2>4. QED
    BY <2>1, <2>2, <2>3 DEF AllNext, allVars, familyVars
<1>3. QED
  BY <1>1, <1>2, PTL DEF AllSpec

(* A user guards one family, unless the requests that paired them          *)
(* overlapped, for any number of users, families and requests.             *)
THEOREM OneFamilyAlways == AllSpec => []OneFamilyUnlessOverlapping
<1>1. (part = "family" => FamiliesIInv) => OneFamilyUnlessOverlapping
  BY DEF OneFamilyUnlessOverlapping, FamiliesIInv
<1>2. QED
  BY <1>1, FamiliesAlways, PTL

(* A guardian with a session is never refused what guardians may do, from  *)
(* the end of its pairing on.                                              *)
THEOREM GuardianAlwaysServed == AllSpec => []GuardianIsServed
<1>1. (part = "family" => FamiliesIInv) => GuardianIsServed
  BY DEF GuardianIsServed, Family!GuardianIsServed, FamiliesIInv, IsServed
<1>2. QED
  BY <1>1, FamiliesAlways, PTL
==============================================================================
