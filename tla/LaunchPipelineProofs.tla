------------------------ MODULE LaunchPipelineProofs ------------------------
(***************************************************************************)
(* What the deployment pipeline guarantees, for any number of intakes,     *)
(* plans, deployments and overlapping calls.                               *)
(***************************************************************************)
EXTENDS LaunchPipeline, TLAPS

(* Ids are given out in order: a rollback is younger than what it leaves.  *)
IdsInOrder ==
  \A d, e \in DeploymentIds :
    e < d /\ status[d] # "none" => status[e] # "none"

NotFromTheFuture == \A d \in Deployments : createdAt[d] <= now

SuccessHasSite ==
  \A d \in DeploymentIds : status[d] = "success" => HasSite(d)

SameSite(s, d) == intake[s] = intake[d] /\ plan[s] = plan[d]

(* The rows a call has read are still there, a site that was built stays   *)
(* built, and what a rollback has read of lastSuccess is about one site.   *)
KnowsRows(c) ==
  LET d == call[c].dep
      s == call[c].source IN
  /\ call[c].step # "idle" => d \in Deployments
  /\ call[c].step = "mark" => HasSite(d)
  /\ call[c].step = "restore" =>
       /\ s \in Deployments \ {d}
       /\ intake[s] = intake[d]
       /\ HasSite(s)
       /\ \A t \in call[c].sites :
            t \in Deployments /\ HasSite(t) /\ SameSite(t, s)

CallsKnowRows == \A c \in Calls : KnowsRows(c)

(* Nothing older than the deployment runNext has picked enters the queue.  *)
PickedIsOldest ==
  \A c \in Calls :
    call[c].step = "claim" /\ call[c].next =>
      \A e \in Deployments :
        status[e] = "queued" => createdAt[call[c].dep] <= createdAt[e]

IInv ==
  /\ TypeOK
  /\ IdsInOrder
  /\ NotFromTheFuture
  /\ SuccessHasSite
  /\ CallsKnowRows
  /\ PickedIsOldest
  /\ BuildsOwnPlan
  /\ UrlsNameOwnSites
  /\ RollbackRestoresSite
  /\ RunningIsHeld

-----------------------------------------------------------------------------
(* How a step treats the rows there are: what the insert wrote stays, a    *)
(* row loses no site, and gains none but its own.                          *)
RowsKept ==
  /\ plans <= plans'
  /\ \A p \in PlanIds : p <= plans => planOf'[p] = planOf[p]
  /\ \A d \in Deployments :
       /\ d \in Deployments'
       /\ plan'[d] = plan[d] /\ intake'[d] = intake[d] /\ from'[d] = from[d]
       /\ createdAt'[d] = createdAt[d]
       /\ sites'[d] \in {sites[d], sites[d] \cup {d}}
       /\ status[d] # "queued" => status'[d] # "queued"

(* A row a step adds: the next id, queued now.                             *)
AddsRow(d, p, i, f, named) ==
  /\ Deployments' = Deployments \cup {d}
  /\ d \in DeploymentIds \ Deployments
  /\ \A e \in DeploymentIds : e < d => e \in Deployments
  /\ status'[d] = "queued" /\ createdAt'[d] = now
  /\ plan'[d] = p /\ intake'[d] = i /\ from'[d] = f /\ sites'[d] = named
  /\ \A e \in Deployments : status'[e] = status[e] /\ sites'[e] = sites[e]

-----------------------------------------------------------------------------
LEMMA ConstantsTyped == /\ AnyIntake \in Intakes
                        /\ 1 \in PlanIds /\ 1 \in DeploymentIds
                        /\ Idle \in CallAt
<1>1. AnyIntake \in Intakes
  BY IntakesAssumption DEF AnyIntake
<1>2. 1 \in PlanIds /\ 1 \in DeploymentIds
  BY BoundsAssumption DEF PlanIds, DeploymentIds
<1>3. QED
  BY <1>1, <1>2 DEF Idle, At, CallAt, Steps

LEMMA InitIInv == Init => IInv
<1> SUFFICES ASSUME Init PROVE IInv
  OBVIOUS
<1>1. TypeOK
  BY ConstantsTyped, BoundsAssumption
     DEF Init, TypeOK, IntakeStatuses, JobStatuses, OrNull
<1>2. Deployments = {}
  BY DEF Init, Deployments
<1>3. QED
  BY <1>1, <1>2
     DEF Init, IInv, IdsInOrder, NotFromTheFuture, SuccessHasSite, CallsKnowRows,
         KnowsRows, PickedIsOldest, BuildsOwnPlan, UrlsNameOwnSites,
         RollbackRestoresSite, RunningIsHeld, Idle, At

-----------------------------------------------------------------------------
(* An insert writes well-typed columns.                                    *)
LEMMA InsertTyped ==
  ASSUME TypeOK, NEW d \in DeploymentIds, NEW p \in PlanIds, NEW i \in Intakes,
         NEW f \in OrNull(DeploymentIds), NEW named \in SUBSET DeploymentIds,
         InsertDeployment(d, p, i, f, named)
  PROVE  /\ status' \in [DeploymentIds -> JobStatuses]
         /\ plan' \in [DeploymentIds -> PlanIds]
         /\ intake' \in [DeploymentIds -> Intakes]
         /\ from' \in [DeploymentIds -> OrNull(DeploymentIds)]
         /\ createdAt' \in [DeploymentIds -> 0 .. MaxNow]
         /\ completedAt' = completedAt
         /\ sites' \in [DeploymentIds -> SUBSET DeploymentIds]
  BY DEF InsertDeployment, TypeOK, JobStatuses

LEMMA GotoTyped ==
  ASSUME TypeOK, NEW c \in Calls, NEW step \in Steps, Goto(c, step)
  PROVE  call' \in [Calls -> CallAt]
  BY DEF Goto, TypeOK, CallAt

LEMMA TypeOKStep == TypeOK /\ [Next]_vars => TypeOK'
<1> SUFFICES ASSUME TypeOK, [Next]_vars PROVE TypeOK'
  OBVIOUS
<1> USE ConstantsTyped, BoundsAssumption
    DEF TypeOK, columns, fixed, planColumns
<1>1. CASE Tick
  BY <1>1 DEF Tick
<1>2. ASSUME NEW i \in Intakes, NEW s \in IntakeStatuses, SetIntakeStatus(i, s)
      PROVE  TypeOK'
  BY <1>2 DEF SetIntakeStatus
<1>3. ASSUME NEW i \in Intakes, GeneratePlan(i) PROVE TypeOK'
  BY <1>3 DEF GeneratePlan, PlanIds
<1>4. ASSUME NEW d \in DeploymentIds, NEW p \in PlanIds, StartDeployment(d, p)
      PROVE  TypeOK'
  <2>1. /\ planOf[p] \in Intakes /\ 0 \in OrNull(DeploymentIds)
        /\ InsertDeployment(d, p, planOf[p], 0, {})
    BY <1>4 DEF StartDeployment, OrNull
  <2>2. QED
    BY <1>4, <2>1, InsertTyped DEF StartDeployment
<1>5. ASSUME NEW c \in Calls, NEW d \in DeploymentIds, Restore(c, d)
      PROVE  TypeOK'
  <2> DEFINE s == call[c].source
  <2>1. /\ plan[s] \in PlanIds /\ intake[s] \in Intakes
        /\ call[c].dep \in OrNull(DeploymentIds)
        /\ call[c].sites \in SUBSET DeploymentIds
    BY DEF CallAt, OrNull
  <2>2. InsertDeployment(d, plan[s], intake[s], call[c].dep, call[c].sites)
    BY <1>5 DEF Restore
  <2>3. call' \in [Calls -> CallAt]
    BY <1>5 DEF Restore, Return
  <2> HIDE DEF s
  <2>4. QED
    BY <1>5, <2>1, <2>2, <2>3, InsertTyped DEF Restore
<1>6. ASSUME NEW c \in Calls, RunNext(c) \/ (\E i \in Intakes : Rollback(c, i))
      PROVE  TypeOK'
  <2>1. \E d \in DeploymentIds, step \in Steps, next \in BOOLEAN :
          call' = [call EXCEPT ![c] = At(step, next, d)]
    BY <1>6 DEF RunNext, Rollback, Oldest, Newest, Deployments, DeploymentsOf, Steps
  <2>2. call' \in [Calls -> CallAt]
    BY <2>1 DEF At, CallAt
  <2>3. QED
    BY <1>6, <2>2 DEF RunNext, Rollback
<1>7. ASSUME NEW c \in Calls, NEW d \in DeploymentIds, RunDeployment(c, d)
      PROVE  TypeOK'
  BY <1>7 DEF RunDeployment, CallAt, At, Steps
<1>8. ASSUME NEW c \in Calls, Claim(c) PROVE TypeOK'
  BY <1>8 DEF Claim, Goto, CallAt, Steps, JobStatuses
<1>9. ASSUME NEW c \in Calls, FinishNext(c) \/ FinishRun(c) \/ AnswerLost(c)
      PROVE  TypeOK'
  <2>1. call[c].dep \in DeploymentIds
    BY DEF CallAt
  <2>2. call' \in [Calls -> CallAt]
    <3>1. \/ Goto(c, "mark") \/ Goto(c, "fail") \/ Return(c)
      BY <1>9 DEF FinishNext, FinishRun, AnswerLost
    <3>2. CASE Return(c)
      BY <3>2 DEF Return
    <3>3. CASE Goto(c, "mark") \/ Goto(c, "fail")
      BY <3>3, GotoTyped DEF Steps
    <3>4. QED
      BY <3>1, <3>2, <3>3
  <2>3. Complete(c)
    BY <1>9 DEF FinishNext, FinishRun, AnswerLost
  <2>4. QED
    BY <2>1, <2>2, <2>3 DEF Complete, JobStatuses
<1>10. ASSUME NEW c \in Calls, MarkDeployed(c) PROVE TypeOK'
  <2>1. intake[call[c].dep] \in Intakes
    BY DEF CallAt
  <2>2. QED
    BY <1>10, <2>1 DEF MarkDeployed, Return, IntakeStatuses
<1>11. ASSUME NEW c \in Calls, Fail(c) PROVE TypeOK'
  <2>1. call[c].dep \in DeploymentIds
    BY DEF CallAt
  <2>2. QED
    BY <1>11, <2>1 DEF Fail, Return, JobStatuses
<1>12. ASSUME NEW c \in Calls,
              Throws(c) \/ FindsNoSource(c) \/ RollbackThrows(c)
       PROVE  TypeOK'
  <2>1. CASE Throws(c)
    BY <2>1, GotoTyped DEF Throws, Steps
  <2>2. CASE FindsNoSource(c) \/ RollbackThrows(c)
    BY <2>2 DEF FindsNoSource, RollbackThrows, Return
  <2>3. QED
    BY <1>12, <2>1, <2>2
<1>13. ASSUME NEW c \in Calls, FindSource(c) PROVE TypeOK'
  <2>1. PICK s \in LastCompleted(Candidates(call[c].dep)) :
          call' = [call EXCEPT ![c].step = "restore", ![c].source = s,
                               ![c].sites = sites[s]]
    BY <1>13 DEF FindSource
  <2>2. s \in DeploymentIds /\ sites[s] \in SUBSET DeploymentIds
    BY DEF LastCompleted, Candidates, DeploymentsOf, Deployments
  <2>3. call' \in [Calls -> CallAt]
    BY <2>1, <2>2, ZenonT(60) DEF CallAt, Steps
  <2>4. QED
    BY <1>13, <2>3 DEF FindSource
<1>14. ASSUME NEW c \in Calls, FailThrows(c) PROVE TypeOK'
  BY <1>14 DEF FailThrows, StillRunning, Return, CallAt
<1>15. CASE Crash
  BY <1>15 DEF Crash, StillRunning
<1>16. CASE UNCHANGED vars
  BY <1>16 DEF vars
<1>17. QED
  BY <1>1, <1>2, <1>3, <1>4, <1>5, <1>6, <1>7, <1>8, <1>9, <1>10, <1>11, <1>12,
     <1>13, <1>14, <1>15, <1>16, TargetsAssumption
     DEF Next, CallStep, UpdateStatus, SubmitFeedback, IntakeStatuses
-----------------------------------------------------------------------------
(* The steps that touch the plans and the deployments.                     *)
LEMMA StepKinds ==
  ASSUME TypeOK, [Next]_vars
  PROVE  \/ UNCHANGED <<planColumns, columns>> /\ now <= now'
         \/ \E i \in Intakes : GeneratePlan(i)
         \/ \E d \in DeploymentIds, p \in PlanIds : StartDeployment(d, p)
         \/ \E c \in Calls, d \in DeploymentIds : Restore(c, d)
         \/ \E c \in Calls : Claim(c) \/ Complete(c) \/ Fail(c)
<1> DEFINE Quiet == UNCHANGED <<planColumns, columns>> /\ now <= now'
<1>1. now <= now
  BY DEF TypeOK
<1>2. Tick => Quiet
  BY DEF Tick, TypeOK
<1>3. UNCHANGED vars => Quiet
  BY <1>1 DEF vars
<1>4. \A i \in Intakes, s \in IntakeStatuses : SetIntakeStatus(i, s) => Quiet
  BY <1>1 DEF SetIntakeStatus
<1>5. ASSUME NEW c \in Calls,
             \/ RunNext(c) \/ (\E d \in DeploymentIds : RunDeployment(c, d))
             \/ MarkDeployed(c) \/ Throws(c) \/ FailThrows(c)
             \/ (\E i \in Intakes : Rollback(c, i))
             \/ FindSource(c) \/ FindsNoSource(c) \/ RollbackThrows(c)
      PROVE  Quiet
  BY <1>1, <1>5
     DEF RunNext, RunDeployment, MarkDeployed, Throws, FailThrows, Rollback,
         FindSource, FindsNoSource, RollbackThrows
<1>6. Crash => Quiet
  BY <1>1 DEF Crash
<1>7. \A c \in Calls : FinishNext(c) \/ FinishRun(c) \/ AnswerLost(c) => Complete(c)
  BY DEF FinishNext, FinishRun, AnswerLost
<1> HIDE DEF Quiet
<1>8. \/ Quiet
      \/ \E i \in Intakes : GeneratePlan(i)
      \/ \E d \in DeploymentIds, p \in PlanIds : StartDeployment(d, p)
      \/ \E c \in Calls, d \in DeploymentIds : Restore(c, d)
      \/ \E c \in Calls : Claim(c) \/ Complete(c) \/ Fail(c)
  BY <1>2, <1>3, <1>4, <1>5, <1>6, <1>7, TargetsAssumption
     DEF Next, CallStep, UpdateStatus, SubmitFeedback, IntakeStatuses
<1>9. QED
  BY <1>8 DEF Quiet

(* The writes of a run leave alone what the insert wrote.                  *)
LEMMA WritesOneRow ==
  ASSUME TypeOK, CallsKnowRows, NEW c \in Calls,
         Claim(c) \/ Complete(c) \/ Fail(c)
  PROVE  LET d == call[c].dep IN
         /\ d \in Deployments
         /\ Deployments' = Deployments
         /\ UNCHANGED <<now, planColumns, fixed>>
         /\ status'[d] \in {"running", "success", "failed"}
         /\ status'[d] = "success" => Complete(c)
         /\ \A e \in DeploymentIds \ {d} : status'[e] = status[e]
         /\ Complete(c) => sites' = [sites EXCEPT ![d] = @ \cup {d}]
         /\ ~Complete(c) => sites' = sites
<1> DEFINE d == call[c].dep
<1>1. d \in Deployments /\ d \in DeploymentIds
  BY DEF CallsKnowRows, KnowsRows, Claim, Complete, Fail, Deployments
<1>2. \E x \in {"running", "success", "failed"} :
         /\ status' = [status EXCEPT ![d] = x]
         /\ x = "success" => Complete(c)
  BY DEF Claim, Complete, Fail
<1>3. /\ status'[d] \in {"running", "success", "failed"}
      /\ status'[d] = "success" => Complete(c)
      /\ \A e \in DeploymentIds \ {d} : status'[e] = status[e]
  BY <1>1, <1>2 DEF TypeOK
<1>4. Deployments' = Deployments
  <2> HIDE DEF d
  <2>1. \A e \in DeploymentIds : status'[e] # "none" <=> status[e] # "none"
    BY <1>1, <1>3 DEF Deployments
  <2>2. QED
    BY <2>1 DEF Deployments
<1>5. /\ UNCHANGED <<now, planColumns, fixed>>
      /\ Complete(c) => sites' = [sites EXCEPT ![d] = @ \cup {d}]
      /\ ~Complete(c) => sites' = sites
  BY DEF Claim, Complete, Fail
<1>6. QED
  BY <1>1, <1>3, <1>4, <1>5

LEMMA InsertAddsRow ==
  ASSUME TypeOK, IdsInOrder, NEW d \in DeploymentIds, NEW p, NEW i, NEW f, NEW named,
         InsertDeployment(d, p, i, f, named)
  PROVE  /\ AddsRow(d, p, i, f, named)
         /\ \A e \in Deployments :
              /\ plan'[e] = plan[e] /\ intake'[e] = intake[e]
              /\ from'[e] = from[e] /\ createdAt'[e] = createdAt[e]
<1>1. d \notin Deployments /\ \A e \in Deployments : e # d /\ e \in DeploymentIds
  BY DEF InsertDeployment, Deployments
<1>2. \A e \in DeploymentIds : status'[e] = IF e = d THEN "queued" ELSE status[e]
  BY DEF InsertDeployment, TypeOK
<1>3. Deployments' = Deployments \cup {d}
  BY <1>2 DEF Deployments
<1>4. \A e \in DeploymentIds : e < d => e \in Deployments
  BY DEF InsertDeployment, Deployments
<1>5. status'[d] = "queued" /\ \A e \in Deployments : status'[e] = status[e]
  BY <1>1, <1>2
<1>6. /\ plan'[d] = p /\ intake'[d] = i /\ from'[d] = f /\ sites'[d] = named
      /\ createdAt'[d] = now
      /\ \A e \in Deployments :
           /\ plan'[e] = plan[e] /\ intake'[e] = intake[e] /\ from'[e] = from[e]
           /\ createdAt'[e] = createdAt[e] /\ sites'[e] = sites[e]
  BY <1>1 DEF InsertDeployment, TypeOK
<1>7. QED
  BY <1>1, <1>3, <1>4, <1>5, <1>6 DEF AddsRow

LEMMA KeepsRows == IInv /\ [Next]_vars => RowsKept
<1> SUFFICES ASSUME IInv, [Next]_vars PROVE RowsKept
  OBVIOUS
<1> USE DEF IInv
<1>1. CASE UNCHANGED <<planColumns, columns>>
  BY <1>1 DEF RowsKept, planColumns, columns, fixed, Deployments, TypeOK
<1>2. ASSUME NEW i \in Intakes, GeneratePlan(i) PROVE RowsKept
  <2>1. plans <= plans' /\ \A p \in PlanIds : p <= plans => planOf'[p] = planOf[p]
    BY <1>2 DEF GeneratePlan, TypeOK, PlanIds
  <2>2. UNCHANGED columns
    BY <1>2 DEF GeneratePlan
  <2>3. QED
    BY <2>1, <2>2 DEF RowsKept, columns, fixed, Deployments
<1>3. ASSUME NEW d \in DeploymentIds, NEW p, NEW i, NEW f, NEW named,
             InsertDeployment(d, p, i, f, named), UNCHANGED planColumns
      PROVE  RowsKept
  <2>1. plans <= plans' /\ \A q \in PlanIds : q <= plans => planOf'[q] = planOf[q]
    BY <1>3 DEF planColumns, TypeOK
  <2>2. QED
    BY <1>3, <2>1, InsertAddsRow DEF RowsKept, AddsRow
<1>4. ASSUME NEW c \in Calls, Claim(c) \/ Complete(c) \/ Fail(c) PROVE RowsKept
  <2> DEFINE d == call[c].dep
  <2>1. plans <= plans' /\ \A q \in PlanIds : q <= plans => planOf'[q] = planOf[q]
    BY <1>4, WritesOneRow DEF planColumns, TypeOK
  <2>2. ASSUME NEW e \in Deployments
        PROVE  /\ e \in Deployments'
               /\ plan'[e] = plan[e] /\ intake'[e] = intake[e] /\ from'[e] = from[e]
               /\ createdAt'[e] = createdAt[e]
               /\ sites'[e] \in {sites[e], sites[e] \cup {e}}
               /\ status[e] # "queued" => status'[e] # "queued"
    <3>1. e \in DeploymentIds /\ d \in DeploymentIds
      BY <1>4, WritesOneRow DEF Deployments
    <3>2. /\ e \in Deployments'
          /\ plan'[e] = plan[e] /\ intake'[e] = intake[e] /\ from'[e] = from[e]
          /\ createdAt'[e] = createdAt[e]
      BY <1>4, WritesOneRow DEF fixed
    <3>3. sites'[e] \in {sites[e], sites[e] \cup {e}}
      BY <1>4, <3>1, WritesOneRow DEF TypeOK
    <3>4. status[e] # "queued" => status'[e] # "queued"
      BY <1>4, <3>1, WritesOneRow
    <3>5. QED
      BY <3>2, <3>3, <3>4
  <2>3. QED
    BY <2>1, <2>2 DEF RowsKept
<1>5. QED
  <2>1. \A d \in DeploymentIds, p \in PlanIds : StartDeployment(d, p) => RowsKept
    BY <1>3 DEF StartDeployment
  <2>2. \A c \in Calls, d \in DeploymentIds : Restore(c, d) => RowsKept
    BY <1>3 DEF Restore
  <2>3. QED
    BY <1>1, <1>2, <1>4, <2>1, <2>2, StepKinds

(* Where a new row comes from.                                             *)
Started(d) ==
  \E p \in PlanIds :
    p <= plans /\ AddsRow(d, p, planOf[p], 0, {}) /\ UNCHANGED planColumns

Restored(d) ==
  \E c \in Calls :
    LET s == call[c].source IN
    /\ call[c].step = "restore"
    /\ AddsRow(d, plan[s], intake[s], call[c].dep, call[c].sites)
    /\ UNCHANGED planColumns

LEMMA NewRows ==
  ASSUME IInv, [Next]_vars
  PROVE  \/ Deployments' = Deployments
         \/ \E d \in DeploymentIds : now' = now /\ (Started(d) \/ Restored(d))
<1> USE DEF IInv
<1>1. CASE UNCHANGED <<planColumns, columns>>
  BY <1>1 DEF columns, Deployments
<1>2. ASSUME NEW i \in Intakes, GeneratePlan(i) PROVE Deployments' = Deployments
  BY <1>2 DEF GeneratePlan, columns, Deployments
<1>3. ASSUME NEW d \in DeploymentIds, NEW p \in PlanIds, StartDeployment(d, p)
      PROVE  now' = now /\ Started(d)
  <2>1. AddsRow(d, p, planOf[p], 0, {})
    BY <1>3, InsertAddsRow DEF StartDeployment
  <2>2. QED
    BY <1>3, <2>1 DEF StartDeployment, Started
<1>4. ASSUME NEW c \in Calls, NEW d \in DeploymentIds, Restore(c, d)
      PROVE  now' = now /\ Restored(d)
  <2> DEFINE s == call[c].source
  <2>1. AddsRow(d, plan[s], intake[s], call[c].dep, call[c].sites)
    BY <1>4, InsertAddsRow DEF Restore
  <2>2. QED
    BY <1>4, <2>1 DEF Restore, Restored
<1>5. ASSUME NEW c \in Calls, Claim(c) \/ Complete(c) \/ Fail(c)
      PROVE  Deployments' = Deployments
  BY <1>5, WritesOneRow
<1>6. QED
  BY <1>1, <1>2, <1>3, <1>4, <1>5, StepKinds

(* A site that was built stays built, for the same intake and plan.        *)
LEMMA SitesStay ==
  ASSUME RowsKept, NEW s \in Deployments, HasSite(s)
  PROVE  s \in Deployments' /\ HasSite(s)'
  BY DEF RowsKept, HasSite

LEMMA IdsInOrderStep == IInv /\ [Next]_vars => IdsInOrder'
<1> SUFFICES ASSUME IInv, [Next]_vars PROVE IdsInOrder'
  OBVIOUS
<1>1. \A d, e \in DeploymentIds : e < d /\ d \in Deployments' => e \in Deployments'
  <2>1. \A d, e \in DeploymentIds : e < d /\ d \in Deployments => e \in Deployments
    BY DEF IInv, IdsInOrder, Deployments
  <2>2. \A x \in DeploymentIds : Started(x) \/ Restored(x) =>
          /\ Deployments' = Deployments \cup {x}
          /\ \A e \in DeploymentIds : e < x => e \in Deployments
    BY DEF Started, Restored, AddsRow
  <2>3. QED
    BY <2>1, <2>2, NewRows
<1>2. QED
  BY <1>1 DEF IdsInOrder, Deployments

LEMMA NotFromTheFutureStep == IInv /\ [Next]_vars => NotFromTheFuture'
<1> SUFFICES ASSUME IInv, [Next]_vars, NEW d \in Deployments'
             PROVE  createdAt'[d] <= now'
  BY DEF NotFromTheFuture
<1>1. now \in Nat /\ now' \in Nat /\ now <= now'
  <2>1. now <= now'
    BY StepKinds, WritesOneRow
       DEF IInv, TypeOK, GeneratePlan, StartDeployment, Restore
  <2>2. QED
    BY <2>1, TypeOKStep DEF IInv, TypeOK
<1>2. CASE d \in Deployments
  <2>1. createdAt'[d] = createdAt[d] /\ createdAt[d] <= now /\ createdAt[d] \in Nat
    BY <1>2, KeepsRows DEF RowsKept, IInv, NotFromTheFuture, TypeOK, Deployments
  <2>2. QED
    BY <1>1, <2>1
<1>3. CASE d \notin Deployments
  <2>1. now' = now /\ createdAt'[d] = now
    BY <1>3, NewRows DEF Started, Restored, AddsRow
  <2>2. QED
    BY <1>1, <2>1
<1>4. QED
  BY <1>2, <1>3

LEMMA SuccessHasSiteStep == IInv /\ [Next]_vars => SuccessHasSite'
<1> SUFFICES ASSUME IInv, [Next]_vars,
                    NEW d \in DeploymentIds, status'[d] = "success"
             PROVE  HasSite(d)'
  BY DEF SuccessHasSite
<1>1. d \in Deployments'
  BY DEF Deployments
<1>2. CASE status[d] = "success"
  <2>1. d \in Deployments /\ HasSite(d)
    BY <1>2 DEF IInv, SuccessHasSite, Deployments
  <2>2. QED
    BY <2>1, SitesStay, KeepsRows
<1>3. CASE status[d] # "success"
  <2>1. PICK c \in Calls : Claim(c) \/ Complete(c) \/ Fail(c)
    <3>1. status' # status
      BY <1>3
    <3>2. \A x, p \in Nat : ~StartDeployment(x, p) \/ status'[d] # "success"
      BY <1>3 DEF StartDeployment, InsertDeployment, IInv, TypeOK
    <3>3. \A c \in Calls, x \in Nat : ~Restore(c, x) \/ status'[d] # "success"
      BY <1>3 DEF Restore, InsertDeployment, IInv, TypeOK
    <3>4. QED
      BY <3>1, <3>2, <3>3, StepKinds
         DEF IInv, columns, GeneratePlan, DeploymentIds, PlanIds
  <2>2. call[c].dep = d /\ Complete(c)
    BY <1>3, <2>1, WritesOneRow DEF IInv
  <2>3. QED
    BY <2>1, <2>2, WritesOneRow DEF IInv, TypeOK, HasSite
<1>4. QED
  BY <1>2, <1>3

LEMMA BuildsOwnPlanStep == IInv /\ [Next]_vars => BuildsOwnPlan'
<1> SUFFICES ASSUME IInv, [Next]_vars, NEW d \in Deployments'
             PROVE  plan'[d] <= plans' /\ planOf'[plan'[d]] = intake'[d]
  BY DEF BuildsOwnPlan
<1> USE DEF IInv
<1>1. CASE d \in Deployments
  <2>1. /\ plan'[d] = plan[d] /\ intake'[d] = intake[d] /\ plan[d] \in PlanIds
        /\ plan[d] <= plans /\ planOf[plan[d]] = intake[d]
    BY <1>1, KeepsRows DEF RowsKept, BuildsOwnPlan, TypeOK, Deployments
  <2>2. plans <= plans' /\ planOf'[plan[d]] = planOf[plan[d]]
    BY <2>1, KeepsRows DEF RowsKept
  <2>3. plans \in Nat /\ plans' \in Nat /\ plan[d] \in Nat
    BY <2>1, TypeOKStep DEF TypeOK, PlanIds
  <2>4. QED
    BY <2>1, <2>2, <2>3
<1>2. CASE d \notin Deployments
  <2>1. Started(d) \/ Restored(d)
    BY <1>2, NewRows DEF Started, Restored, AddsRow
  <2>2. CASE Started(d)
    BY <2>2 DEF Started, AddsRow, planColumns
  <2>3. CASE Restored(d)
    <3>1. PICK c \in Calls :
            /\ call[c].step = "restore"
            /\ AddsRow(d, plan[call[c].source], intake[call[c].source],
                       call[c].dep, call[c].sites)
            /\ UNCHANGED planColumns
      BY <2>3 DEF Restored
    <3>2. call[c].source \in Deployments
      BY <3>1 DEF CallsKnowRows, KnowsRows
    <3>3. QED
      BY <3>1, <3>2 DEF AddsRow, BuildsOwnPlan, planColumns
  <2>4. QED
    BY <2>1, <2>2, <2>3
<1>3. QED
  BY <1>1, <1>2

LEMMA RestoredFromKnown ==
  ASSUME CallsKnowRows, NEW d \in DeploymentIds, Restored(d)
  PROVE  \E s, f \in Deployments :
           /\ s # f /\ intake[s] = intake[f] /\ HasSite(s)
           /\ plan'[d] = plan[s] /\ intake'[d] = intake[s] /\ from'[d] = f
           /\ \A t \in sites'[d] : t \in Deployments /\ HasSite(t) /\ SameSite(t, s)
<1>1. PICK c \in Calls :
        /\ call[c].step = "restore"
        /\ AddsRow(d, plan[call[c].source], intake[call[c].source],
                   call[c].dep, call[c].sites)
  BY DEF Restored
<1>2. KnowsRows(c)
  BY DEF CallsKnowRows
<1> DEFINE s == call[c].source
           f == call[c].dep
<1>3. /\ s \in Deployments /\ f \in Deployments
      /\ s # f /\ intake[s] = intake[f] /\ HasSite(s)
      /\ \A t \in call[c].sites : t \in Deployments /\ HasSite(t) /\ SameSite(t, s)
  BY <1>1, <1>2 DEF KnowsRows
<1>4. /\ plan'[d] = plan[s] /\ intake'[d] = intake[s] /\ from'[d] = f
      /\ sites'[d] = call[c].sites
  BY <1>1 DEF AddsRow
<1> HIDE DEF s, f
<1>5. QED
  BY <1>3, <1>4

LEMMA UrlsStep == IInv /\ [Next]_vars => UrlsNameOwnSites'
<1> SUFFICES ASSUME IInv, [Next]_vars, NEW d \in Deployments', NEW s \in sites'[d]
             PROVE  /\ s \in Deployments' /\ HasSite(s)'
                    /\ intake'[s] = intake'[d] /\ plan'[s] = plan'[d]
  BY DEF UrlsNameOwnSites
<1> USE DEF IInv
<1>1. RowsKept
  BY KeepsRows
<1>2. CASE d \in Deployments
  <2>1. CASE s \in sites[d]
    <3>1. s \in Deployments /\ HasSite(s) /\ intake[s] = intake[d] /\ plan[s] = plan[d]
      BY <1>2, <2>1 DEF UrlsNameOwnSites
    <3>2. QED
      BY <1>1, <1>2, <3>1, SitesStay DEF RowsKept
  <2>2. CASE s \notin sites[d]
    <3>1. s = d
      BY <1>1, <1>2, <2>2 DEF RowsKept
    <3>2. QED
      BY <3>1 DEF HasSite
  <2>3. QED
    BY <2>1, <2>2
<1>3. CASE d \notin Deployments
  <2>1. Started(d) \/ Restored(d)
    BY <1>3, NewRows DEF Started, Restored, AddsRow
  <2>2. ~Started(d)
    BY DEF Started, AddsRow
  <2>3. d \in DeploymentIds
    BY DEF Deployments
  <2>4. PICK r \in Deployments :
          /\ plan'[d] = plan[r] /\ intake'[d] = intake[r]
          /\ s \in Deployments /\ HasSite(s) /\ SameSite(s, r)
    BY <2>1, <2>2, <2>3, RestoredFromKnown
  <2>5. QED
    BY <1>1, <2>4, SitesStay DEF RowsKept, SameSite
<1>4. QED
  BY <1>2, <1>3

LEMMA RollbackStep == IInv /\ [Next]_vars => RollbackRestoresSite'
<1> DEFINE Goes(d, s) ==
      /\ s \in Deployments /\ intake[s] = intake[d]
      /\ s \notin {d, from[d]} /\ HasSite(s) /\ plan[s] = plan[d]
<1> SUFFICES ASSUME IInv, [Next]_vars, NEW d \in Deployments', from'[d] # 0
             PROVE  /\ from'[d] < d /\ intake'[from'[d]] = intake'[d]
                    /\ \E s : Goes(d, s)'
  BY DEF RollbackRestoresSite, DeploymentsOf
<1> USE DEF IInv
<1>1. RowsKept
  BY KeepsRows
<1>2. CASE d \in Deployments
  <2>1. /\ from'[d] = from[d] /\ intake'[d] = intake[d] /\ plan'[d] = plan[d]
    BY <1>1, <1>2 DEF RowsKept
  <2>2. from[d] < d /\ intake[from[d]] = intake[d] /\ from[d] \in Deployments
    <3>1. from[d] < d /\ intake[from[d]] = intake[d]
      BY <1>2, <2>1 DEF RollbackRestoresSite
    <3>2. from[d] \in DeploymentIds /\ d \in DeploymentIds /\ status[d] # "none"
      BY <1>2, <2>1 DEF TypeOK, OrNull, Deployments
    <3>3. QED
      BY <3>1, <3>2 DEF IdsInOrder, Deployments
  <2>3. PICK s : Goes(d, s)
    BY <1>2, <2>1 DEF RollbackRestoresSite, DeploymentsOf
  <2>4. Goes(d, s)'
    BY <1>1, <2>1, <2>3, SitesStay DEF RowsKept
  <2>5. QED
    BY <1>1, <2>1, <2>2, <2>4 DEF RowsKept
<1>3. CASE d \notin Deployments
  <2>1. Restored(d) /\ d \in DeploymentIds
    BY <1>3, NewRows DEF Started, Restored, AddsRow
  <2>2. PICK s, f \in Deployments :
          /\ s # f /\ intake[s] = intake[f] /\ HasSite(s)
          /\ plan'[d] = plan[s] /\ intake'[d] = intake[s] /\ from'[d] = f
    BY <2>1, RestoredFromKnown
  <2>3. f < d
    <3>1. f \in DeploymentIds /\ f # d /\ ~(d < f)
      BY <1>3 DEF Deployments, IdsInOrder
    <3>2. QED
      BY <2>1, <3>1 DEF DeploymentIds
  <2>4. /\ s \in Deployments' /\ HasSite(s)' /\ intake'[s] = intake[s]
        /\ plan'[s] = plan[s] /\ intake'[f] = intake[f]
    BY <1>1, <2>2, SitesStay DEF RowsKept
  <2>5. Goes(d, s)'
    BY <1>3, <2>2, <2>4
  <2>6. QED
    BY <2>2, <2>3, <2>4, <2>5
<1>4. QED
  BY <1>2, <1>3

-----------------------------------------------------------------------------
(* What one step can do to the slot of a call.                             *)
Picks(c) ==
  \E d \in Deployments :
    \/ call'[c] = At("claim", FALSE, d) \/ call'[c] = At("source", FALSE, d)
    \/ /\ call'[c] = At("claim", TRUE, d)
       /\ \A e \in Deployments : status[e] = "queued" => createdAt[d] <= createdAt[e]

MovesOn(c) ==
  /\ call[c].step \in {"claim", "finish", "mark"}
  /\ call'[c].dep = call[c].dep
  /\ call'[c].step \in {"finish", "mark", "fail"}
  /\ call'[c].step = "mark" => Complete(c)

LEMMA SlotStep ==
  ASSUME IInv, [Next]_vars, NEW c \in Calls
  PROVE  \/ call'[c] = call[c]
         \/ call'[c] = Idle
         \/ Picks(c) /\ UNCHANGED columns
         \/ MovesOn(c)
         \/ FindSource(c)
<1> DEFINE Does == \/ call'[c] = call[c] \/ call'[c] = Idle
                   \/ (Picks(c) /\ UNCHANGED columns) \/ MovesOn(c) \/ FindSource(c)
<1> SUFFICES Does
  OBVIOUS
<1>0. call \in [Calls -> CallAt]
  BY DEF IInv, TypeOK
<1>1. ASSUME Tick \/ UNCHANGED vars PROVE Does
  BY <1>1 DEF Tick, vars
<1>2. ASSUME NEW i \in Intakes, NEW s \in IntakeStatuses, SetIntakeStatus(i, s)
      PROVE  Does
  BY <1>2 DEF SetIntakeStatus
<1>3. ASSUME NEW i \in Intakes, GeneratePlan(i) PROVE Does
  BY <1>3 DEF GeneratePlan
<1>4. ASSUME NEW d \in DeploymentIds, NEW p \in PlanIds, StartDeployment(d, p)
      PROVE  Does
  BY <1>4 DEF StartDeployment
<1>5. ASSUME NEW x \in Calls, RunNext(x) PROVE Does
  <2>1. PICK d \in Oldest({e \in Deployments : status[e] = "queued"}) :
          call' = [call EXCEPT ![x] = At("claim", TRUE, d)]
    BY <1>5 DEF RunNext
  <2>2. /\ d \in Deployments /\ UNCHANGED columns
        /\ \A e \in Deployments : status[e] = "queued" => createdAt[d] <= createdAt[e]
    BY <1>5 DEF Oldest, RunNext
  <2>3. CASE x = c
    <3>1. call'[c] = At("claim", TRUE, d)
      BY <1>0, <2>1, <2>3
    <3>2. QED
      BY <2>2, <3>1 DEF Picks
  <2>4. QED
    BY <1>0, <2>1, <2>3
<1>6. ASSUME NEW x \in Calls, NEW d \in DeploymentIds, RunDeployment(x, d)
      PROVE  Does
  <2>1. call' = [call EXCEPT ![x] = At("claim", FALSE, d)] /\ d \in Deployments
    BY <1>6 DEF RunDeployment
  <2>2. CASE x = c
    BY <1>0, <1>6, <2>1, <2>2 DEF Picks, RunDeployment
  <2>3. QED
    BY <1>0, <2>1, <2>2
<1>7. ASSUME NEW x \in Calls, NEW i \in Intakes, Rollback(x, i) PROVE Does
  <2>1. PICK d \in Newest(DeploymentsOf(i)) :
          call' = [call EXCEPT ![x] = At("source", FALSE, d)]
    BY <1>7 DEF Rollback
  <2>2. d \in Deployments /\ UNCHANGED columns
    BY <1>7 DEF Newest, DeploymentsOf, Rollback
  <2>3. CASE x = c
    BY <1>0, <2>1, <2>2, <2>3 DEF Picks
  <2>4. QED
    BY <1>0, <2>1, <2>3
<1>8. ASSUME NEW x \in Calls, NEW step \in {"finish", "fail", "mark"}, Goto(x, step),
             call[x].step \in {"claim", "finish", "mark"},
             step = "mark" => Complete(x)
      PROVE  Does
  <2>1. CASE x = c
    <3>1. call'[c].step = step /\ call'[c].dep = call[c].dep
      BY <1>0, <1>8, <2>1 DEF Goto, CallAt
    <3>2. QED
      BY <1>8, <2>1, <3>1 DEF MovesOn
  <2>2. CASE x # c
    BY <1>0, <1>8, <2>2 DEF Goto
  <2>3. QED
    BY <2>1, <2>2
<1>9. ASSUME NEW x \in Calls, Return(x) PROVE Does
  BY <1>0, <1>9 DEF Return
<1>10. ASSUME NEW x \in Calls, FindSource(x) PROVE Does
  <2>1. x # c => call'[c] = call[c]
    BY <1>0, <1>10 DEF FindSource
  <2>2. QED
    BY <1>10, <2>1
<1>11. ASSUME Crash PROVE Does
  BY <1>11 DEF Crash
<1> HIDE DEF Does
<1>12. ASSUME NEW x \in Calls, Claim(x) \/ Throws(x) \/ FinishNext(x) \/ AnswerLost(x)
       PROVE  Does
  <2>1. \E step \in {"finish", "fail", "mark"} :
          Goto(x, step) /\ (step = "mark" => Complete(x))
    BY <1>12 DEF Claim, Throws, FinishNext, AnswerLost
  <2>2. call[x].step \in {"claim", "finish", "mark"}
    BY <1>12 DEF Claim, Throws, FinishNext, AnswerLost, Complete
  <2>3. QED
    BY <1>8, <2>1, <2>2
<1>13. ASSUME NEW x \in Calls,
              \/ FinishRun(x) \/ MarkDeployed(x) \/ Fail(x) \/ FailThrows(x)
              \/ FindsNoSource(x) \/ RollbackThrows(x)
              \/ \E d \in DeploymentIds : Restore(x, d)
       PROVE  Does
  BY <1>9, <1>13 DEF FinishRun, MarkDeployed, Fail, FailThrows, FindsNoSource,
                     RollbackThrows, Restore
<1>14. QED
  BY <1>1, <1>2, <1>3, <1>4, <1>5, <1>6, <1>7, <1>10, <1>11, <1>12, <1>13,
     TargetsAssumption
     DEF Next, CallStep, UpdateStatus, SubmitFeedback, IntakeStatuses

LEMMA CallsKnowRowsStep == IInv /\ [Next]_vars => CallsKnowRows'
<1> SUFFICES ASSUME IInv, [Next]_vars, NEW c \in Calls PROVE KnowsRows(c)'
  BY DEF CallsKnowRows
<1> USE DEF IInv
<1>1. RowsKept /\ KnowsRows(c)
  BY KeepsRows DEF CallsKnowRows
<1>2. CASE call'[c] = call[c]
  <2>1. PICK d, s, T : d = call[c].dep /\ s = call[c].source /\ T = call[c].sites
    OBVIOUS
  <2>2. call[c].step # "idle" => d \in Deployments'
    BY <1>1, <2>1 DEF KnowsRows, RowsKept
  <2>3. ASSUME call[c].step = "mark" PROVE HasSite(d)'
    <3>1. d \in Deployments /\ HasSite(d)
      BY <1>1, <2>1, <2>3 DEF KnowsRows
    <3>2. QED
      BY <1>1, <3>1, SitesStay
  <2>4. ASSUME call[c].step = "restore"
        PROVE  /\ s \in Deployments' \ {d} /\ intake'[s] = intake'[d] /\ HasSite(s)'
               /\ \A t \in T : t \in Deployments' /\ HasSite(t)' /\ SameSite(t, s)'
    <3>1. /\ s \in Deployments \ {d} /\ intake[s] = intake[d] /\ HasSite(s)
          /\ d \in Deployments
          /\ \A t \in T : t \in Deployments /\ HasSite(t) /\ SameSite(t, s)
      BY <1>1, <2>1, <2>4 DEF KnowsRows
    <3>2. /\ s \in Deployments' \ {d} /\ intake'[s] = intake'[d] /\ HasSite(s)'
      BY <1>1, <3>1, SitesStay DEF RowsKept
    <3>3. ASSUME NEW t \in T
          PROVE  t \in Deployments' /\ HasSite(t)' /\ SameSite(t, s)'
      BY <1>1, <3>1, SitesStay DEF RowsKept, SameSite
    <3>4. QED
      BY <3>2, <3>3
  <2>5. QED
    BY <1>2, <2>1, <2>2, <2>3, <2>4 DEF KnowsRows, HasSite, SameSite
<1>3. CASE call'[c] = Idle
  BY <1>3 DEF KnowsRows, Idle, At
<1>4. CASE Picks(c)
  BY <1>1, <1>4 DEF Picks, At, KnowsRows, RowsKept
<1>5. CASE MovesOn(c)
  <2>1. call'[c].dep \in Deployments'
    BY <1>1, <1>5 DEF MovesOn, KnowsRows, RowsKept
  <2>2. call'[c].step = "mark" => HasSite(call[c].dep)'
    <3>1. call[c].dep \in DeploymentIds
      BY DEF TypeOK, CallAt
    <3>2. QED
      BY <1>5, <3>1 DEF MovesOn, Complete, HasSite, TypeOK
  <2>3. QED
    BY <1>5, <2>1, <2>2 DEF MovesOn, KnowsRows
<1>6. CASE FindSource(c)
  <2>1. PICK s \in LastCompleted(Candidates(call[c].dep)) :
          call' = [call EXCEPT ![c].step = "restore", ![c].source = s,
                               ![c].sites = sites[s]]
    BY <1>6 DEF FindSource
  <2>2. /\ call'[c].step = "restore" /\ call'[c].source = s
        /\ call'[c].sites = sites[s] /\ call'[c].dep = call[c].dep
    BY <2>1 DEF TypeOK, CallAt
  <2>3. UNCHANGED columns
    BY <1>6 DEF FindSource
  <2>4. /\ call[c].dep \in Deployments
        /\ s \in Deployments \ {call[c].dep} /\ intake[s] = intake[call[c].dep]
        /\ HasSite(s)
    BY <1>1, <1>6 DEF LastCompleted, Candidates, DeploymentsOf, Deployments,
                      SuccessHasSite, KnowsRows, FindSource
  <2>5. \A t \in sites[s] : t \in Deployments /\ HasSite(t) /\ SameSite(t, s)
    BY <2>4 DEF UrlsNameOwnSites, SameSite
  <2>6. QED
    BY <2>2, <2>3, <2>4, <2>5
       DEF KnowsRows, columns, fixed, Deployments, HasSite, SameSite
<1>7. QED
  BY <1>2, <1>3, <1>4, <1>5, <1>6, SlotStep

LEMMA PickedIsOldestStep == IInv /\ [Next]_vars => PickedIsOldest'
<1> SUFFICES ASSUME IInv, [Next]_vars, NEW c \in Calls,
                    call'[c].step = "claim", call'[c].next,
                    NEW e \in Deployments', status'[e] = "queued",
                    NEW d, d = call'[c].dep
             PROVE  createdAt'[d] <= createdAt'[e]
  BY DEF PickedIsOldest
<1> USE DEF IInv
<1>1. CASE call'[c] = call[c]
  <2>1. d \in Deployments /\ createdAt'[d] = createdAt[d]
    BY <1>1, KeepsRows DEF CallsKnowRows, KnowsRows, RowsKept
  <2>2. CASE e \in Deployments
    <3>1. status[e] = "queued" /\ createdAt'[e] = createdAt[e]
      BY <2>2, KeepsRows DEF RowsKept
    <3>2. QED
      BY <1>1, <2>1, <2>2, <3>1 DEF PickedIsOldest
  <2>3. CASE e \notin Deployments
    <3>1. createdAt'[e] = now
      BY <2>3, NewRows DEF Started, Restored, AddsRow
    <3>2. QED
      BY <2>1, <3>1 DEF NotFromTheFuture
  <2>4. QED
    BY <2>2, <2>3
<1>2. CASE Picks(c) /\ UNCHANGED columns
  BY <1>2 DEF Picks, At, columns, fixed, Deployments
<1>3. call'[c] # Idle /\ ~MovesOn(c)
  BY DEF Idle, At, MovesOn
<1>4. ASSUME FindSource(c) PROVE FALSE
  <2>1. PICK s : call' = [call EXCEPT ![c].step = "restore", ![c].source = s,
                                      ![c].sites = sites[s]]
    BY <1>4 DEF FindSource
  <2>2. call'[c].step = "restore"
    BY <2>1 DEF TypeOK, CallAt
  <2>3. QED
    BY <2>2
<1>5. QED
  BY <1>1, <1>2, <1>3, <1>4, SlotStep

(* A running deployment keeps its holder while another call steps.         *)
LEMMA HeldByAnother ==
  ASSUME RunningIsHeld, NEW d \in Deployments, status[d] = "running",
         NEW x, ~Holds(x, d),
         \A c \in Calls \ {x} : call'[c] = call[c],
         d \in cutShort => d \in cutShort'
  PROVE  d \in cutShort' \/ \E c \in Calls : Holds(c, d)'
<1>1. CASE d \in cutShort
  BY <1>1
<1>2. CASE d \notin cutShort
  <2>1. PICK c \in Calls : Holds(c, d)
    BY <1>2 DEF RunningIsHeld
  <2>2. call'[c] = call[c]
    BY <2>1
  <2>3. QED
    BY <2>1, <2>2 DEF Holds
<1>3. QED
  BY <1>1, <1>2

LEMMA RunningIsHeldStep == IInv /\ [Next]_vars => RunningIsHeld'
<1> SUFFICES ASSUME IInv, [Next]_vars, NEW d \in Deployments', status'[d] = "running"
             PROVE  d \in cutShort' \/ \E c \in Calls : Holds(c, d)'
  BY DEF RunningIsHeld
<1> DEFINE Goal == d \in cutShort' \/ \E c \in Calls : Holds(c, d)'
           Own(x) == \A c \in Calls \ {x} : call'[c] = call[c]
<1> USE DEF IInv
<1>0. d \in DeploymentIds /\ call \in [Calls -> CallAt]
  BY DEF Deployments, TypeOK
(* Steps that leave the status column and the history alone.               *)
<1>1. ASSUME UNCHANGED <<status, cutShort>>, NEW x, Own(x), ~Holds(x, d) PROVE Goal
  <2>1. d \in Deployments /\ status[d] = "running"
    BY <1>1 DEF Deployments
  <2>2. QED
    BY <1>1, <2>1, HeldByAnother
<1>2. ASSUME UNCHANGED <<status, cutShort, call>> PROVE Goal
  <2>1. d \in Deployments /\ status[d] = "running"
    BY <1>2 DEF Deployments
  <2>2. QED
    BY <1>2, <2>1 DEF RunningIsHeld, Holds
<1>3. ASSUME \/ Tick \/ UNCHANGED vars
             \/ \E i \in Intakes : GeneratePlan(i)
             \/ \E i \in Intakes, s \in IntakeStatuses : SetIntakeStatus(i, s)
      PROVE  Goal
  <2>1. UNCHANGED <<status, cutShort, call>>
    BY <1>3 DEF Tick, vars, columns, GeneratePlan, SetIntakeStatus
  <2>2. QED
    BY <1>2, <2>1
<1>4. ASSUME NEW e \in DeploymentIds, NEW p \in PlanIds, StartDeployment(e, p)
      PROVE  Goal
  <2>1. d # e /\ status'[d] = status[d]
    BY <1>0, <1>4 DEF StartDeployment, InsertDeployment, TypeOK
  <2>2. d \in Deployments /\ status[d] = "running"
    BY <1>0, <2>1 DEF Deployments
  <2>3. call' = call /\ cutShort' = cutShort
    BY <1>4 DEF StartDeployment
  <2>4. QED
    BY <2>2, <2>3 DEF RunningIsHeld, Holds
<1>5. ASSUME NEW x \in Calls, NEW e \in DeploymentIds, Restore(x, e) PROVE Goal
  <2>1. d # e /\ status'[d] = status[d]
    BY <1>0, <1>5 DEF Restore, InsertDeployment, TypeOK
  <2>2. d \in Deployments /\ status[d] = "running"
    BY <1>0, <2>1 DEF Deployments
  <2>3. Own(x) /\ cutShort' = cutShort /\ ~Holds(x, d)
    BY <1>0, <1>5 DEF Restore, Return, Holds
  <2>4. QED
    BY <2>2, <2>3, HeldByAnother
<1>6. ASSUME NEW x \in Calls,
             \/ RunNext(x) \/ (\E e \in DeploymentIds : RunDeployment(x, e))
             \/ (\E i \in Intakes : Rollback(x, i)) \/ MarkDeployed(x)
             \/ FindSource(x) \/ FindsNoSource(x) \/ RollbackThrows(x)
      PROVE  Goal
  <2>1. UNCHANGED <<status, cutShort>>
    BY <1>6 DEF RunNext, RunDeployment, Rollback, MarkDeployed, FindSource,
                FindsNoSource, RollbackThrows, columns
  <2>2. Own(x)
    BY <1>0, <1>6 DEF RunNext, RunDeployment, Rollback, MarkDeployed, FindSource,
                      FindsNoSource, RollbackThrows, Return
  <2>3. ~Holds(x, d)
    BY <1>6 DEF RunNext, RunDeployment, Rollback, MarkDeployed, FindSource,
                FindsNoSource, RollbackThrows, Holds
  <2>4. QED
    BY <1>1, <2>1, <2>2, <2>3
(* The statements that write the status column.                            *)
<1>7. ASSUME NEW x \in Calls, Claim(x) PROVE Goal
  <2>1. CASE d = call[x].dep
    <3>1. call'[x].dep = d /\ call'[x].step \in {"finish", "fail"}
      BY <1>0, <1>7, <2>1 DEF Claim, Goto, CallAt
    <3>2. QED
      BY <3>1 DEF Holds
  <2>2. CASE d # call[x].dep
    <3>1. d \in Deployments /\ status[d] = "running"
      BY <1>0, <1>7, <2>2 DEF Claim, Deployments, TypeOK
    <3>2. Own(x) /\ ~Holds(x, d) /\ (d \in cutShort => d \in cutShort')
      BY <1>0, <1>7, <2>2 DEF Claim, Goto, Holds
    <3>3. QED
      BY <3>1, <3>2, HeldByAnother
  <2>3. QED
    BY <2>1, <2>2
<1>8. ASSUME NEW x \in Calls,
             FinishNext(x) \/ FinishRun(x) \/ AnswerLost(x) \/ Fail(x)
      PROVE  Goal
  <2>1. /\ \E s \in {"success", "failed"} :
             status' = [status EXCEPT ![call[x].dep] = s]
        /\ cutShort' = cutShort \ {call[x].dep}
    BY <1>8 DEF FinishNext, FinishRun, AnswerLost, Complete, Fail
  <2>2. d # call[x].dep /\ d \in Deployments /\ status[d] = "running"
    BY <1>0, <2>1 DEF Deployments, TypeOK
  <2>3. Own(x)
    BY <1>0, <1>8 DEF FinishNext, FinishRun, AnswerLost, Fail, Goto, Return
  <2>4. ~Holds(x, d)
    BY <2>2 DEF Holds
  <2>5. QED
    BY <2>1, <2>2, <2>3, <2>4, HeldByAnother
(* The ways a run is abandoned, and its way to the catch block.            *)
<1>9. ASSUME NEW x \in Calls, Throws(x) PROVE Goal
  <2>1. UNCHANGED <<status, cutShort>> /\ Own(x)
    BY <1>0, <1>9 DEF Throws, Goto, columns
  <2>2. CASE Holds(x, d)
    <3>1. call'[x].dep = d /\ call'[x].step = "fail"
      BY <1>0, <1>9, <2>2 DEF Throws, Goto, CallAt, Holds
    <3>2. QED
      BY <3>1 DEF Holds
  <2>3. QED
    BY <1>1, <2>1, <2>2
<1>10. ASSUME NEW x \in Calls, FailThrows(x) PROVE Goal
  <2>1. d \in Deployments /\ status[d] = "running"
    BY <1>0, <1>10 DEF FailThrows, columns, Deployments
  <2>2. Own(x) /\ (d \in cutShort => d \in cutShort')
    BY <1>0, <1>10 DEF FailThrows, Return
  <2>3. CASE Holds(x, d)
    BY <1>10, <2>1, <2>3 DEF FailThrows, StillRunning, Holds
  <2>4. QED
    BY <2>1, <2>2, <2>3, HeldByAnother
<1>11. ASSUME Crash PROVE Goal
  <2>1. d \in Deployments /\ status[d] = "running"
    BY <1>0, <1>11 DEF Crash, columns, Deployments
  <2>2. d \in cutShort \/ \E c \in Calls : Holds(c, d)
    BY <2>1 DEF RunningIsHeld
  <2>3. QED
    BY <1>0, <1>11, <2>1, <2>2 DEF Crash, StillRunning
<1> HIDE DEF Goal
<1>12. Goal
  BY <1>3, <1>4, <1>5, <1>6, <1>7, <1>8, <1>9, <1>10, <1>11, TargetsAssumption
     DEF Next, CallStep, UpdateStatus, SubmitFeedback, IntakeStatuses
<1>13. QED
  BY <1>12 DEF Goal

-----------------------------------------------------------------------------
LEMMA Invariance == Spec => []IInv
<1>1. IInv /\ [Next]_vars => IInv'
  BY TypeOKStep, IdsInOrderStep, NotFromTheFutureStep, SuccessHasSiteStep,
     CallsKnowRowsStep, PickedIsOldestStep, BuildsOwnPlanStep, UrlsStep,
     RollbackStep, RunningIsHeldStep
     DEF IInv
<1>2. QED
  BY <1>1, InitIInv, PTL DEF Spec

(* The columns and the calls' locals keep their types.                     *)
THEOREM TypeCorrect == Spec => []TypeOK
<1>1. IInv => TypeOK
  BY DEF IInv
<1>2. QED
  BY <1>1, Invariance, PTL

(* Every deployment builds a plan of its own intake, rollbacks included.   *)
THEOREM OwnPlan == Spec => []BuildsOwnPlan
<1>1. IInv => BuildsOwnPlan
  BY DEF IInv
<1>2. QED
  BY <1>1, Invariance, PTL

(* The URLs of every deployment name sites built for its intake from its   *)
(* plan, although a rollback copies them from a row it read earlier.       *)
THEOREM OwnSites == Spec => []UrlsNameOwnSites
<1>1. IInv => UrlsNameOwnSites
  BY DEF IInv
<1>2. QED
  BY <1>1, Invariance, PTL

(* Every rollback returns to the plan of another deployment that had a     *)
(* site, and leaves an earlier one of the same intake.                     *)
THEOREM RollbackSound == Spec => []RollbackRestoresSite
<1>1. IInv => RollbackRestoresSite
  BY DEF IInv
<1>2. QED
  BY <1>1, Invariance, PTL

(* No overlap of runs leaves a deployment "running" that no call settles,  *)
(* unless a crash or a throwing catch block abandoned it.                  *)
THEOREM RunsAreHeld == Spec => []RunningIsHeld
<1>1. IInv => RunningIsHeld
  BY DEF IInv
<1>2. QED
  BY <1>1, Invariance, PTL

(* runNext claims deployments in the order they were queued.               *)
THEOREM QueueInOrder == Spec => ClaimsInOrder
<1> DEFINE InOrder ==
      \A c \in Calls :
        Claim(c) /\ call[c].next =>
          \A e \in Deployments :
            status[e] = "queued" => createdAt[call[c].dep] <= createdAt[e]
<1>1. IInv => InOrder
  BY DEF IInv, PickedIsOldest, Claim
<1>2. IInv /\ [Next]_vars => [InOrder]_vars
  BY <1>1
<1>3. QED
  BY <1>2, Invariance, PTL DEF Spec, ClaimsInOrder

(* What runNext marks "deployed" has a site.                               *)
THEOREM MarksSites == Spec => MarksBuiltSites
<1> DEFINE Built ==
      \A c \in Calls :
        MarkDeployed(c) =>
          \E d \in DeploymentsOf(intake[call[c].dep]) : HasSite(d)
<1>1. IInv => Built
  <2> SUFFICES ASSUME IInv, NEW c \in Calls, MarkDeployed(c)
               PROVE  \E d \in DeploymentsOf(intake[call[c].dep]) : HasSite(d)
    OBVIOUS
  <2>1. call[c].dep \in Deployments /\ HasSite(call[c].dep)
    BY DEF IInv, CallsKnowRows, KnowsRows, MarkDeployed
  <2>2. QED
    BY <2>1 DEF DeploymentsOf
<1>2. IInv /\ [Next]_vars => [Built]_vars
  BY <1>1
<1>3. QED
  BY <1>2, Invariance, PTL DEF Spec, MarksBuiltSites
=============================================================================
