--------------------------- MODULE LaunchPipeline ---------------------------
(***************************************************************************)
(* The intake, build plan and deployment pipeline:                         *)
(* server/routers/_incoming_routers.ts (admin.intakes, admin.buildPlan,    *)
(* admin.deploy, intake.submitFeedback), server/db/index.ts and            *)
(* server/rollback.ts.                                                     *)
(*                                                                         *)
(* runNext, deploy.run and rollbackToLastSuccess are sequences of awaited  *)
(* statements without a transaction, a lock or a condition on the status   *)
(* they overwrite; each statement is an action. The remaining handlers     *)
(* read only what never changes (that a plan or an intake exists, which    *)
(* intake a plan is of; no row is ever deleted) and write in a single      *)
(* statement: each is one action. errorMessage and logs, which no          *)
(* statement reads, are left out.                                          *)
(***************************************************************************)
EXTENDS Naturals

CONSTANTS
  Intakes,         \* submitted intakes
  Calls,           \* concurrent executions of the three handlers above
  Targets,         \* bound: the statuses an administrator sets
  MaxPlan,         \* bound: build plans
  MaxDeployment,   \* bound: deployments
  MaxNow           \* bound: ticks of the clock

IntakeStatuses == {"new", "review", "needs_info", "ready_for_review",
                   "approved", "paid", "deployed"}

ASSUME IntakesAssumption == Intakes # {}
ASSUME TargetsAssumption == Targets \subseteq IntakeStatuses
ASSUME BoundsAssumption ==
  MaxPlan \in Nat \ {0} /\ MaxDeployment \in Nat \ {0} /\ MaxNow \in Nat

(* Auto-increment ids; 0 is NULL in a column that holds one.               *)
PlanIds       == 1 .. MaxPlan
DeploymentIds == 1 .. MaxDeployment
OrNull(ids)   == ids \cup {0}

VARIABLES
  now,
  intakeStatus,     \* intakes.status
  plans, planOf,    \* number of build_plans rows, build_plans.intakeId
  status, plan, intake, from, createdAt, completedAt,  \* deployments
  sites,            \* whose sites its siteId and URL columns have named
  call,             \* where each call is, and its locals
  cutShort          \* history: running deployments whose run was abandoned

planColumns == <<plans, planOf>>
fixed   == <<plan, intake, from, createdAt>>   \* written once, by the insert
columns == <<status, fixed, completedAt, sites>>
vars    == <<now, intakeStatus, planColumns, columns, call, cutShort>>

JobStatuses == {"none", "queued", "running", "success", "failed"}
Steps == {"idle", "claim", "finish", "mark", "fail", "source", "restore"}

(* next: the call is runNext. dep: the deployment at work, or rollback's   *)
(* currentDeployment; source, sites: what rollback read of lastSuccess.    *)
CallAt == [step : Steps, next : BOOLEAN, dep : DeploymentIds,
           source : DeploymentIds, sites : SUBSET DeploymentIds]

At(step, next, d) ==
  [step |-> step, next |-> next, dep |-> d, source |-> 1, sites |-> {}]

Idle == At("idle", FALSE, 1)

AnyIntake == CHOOSE i \in Intakes : TRUE

Init ==
  /\ now = 0
  /\ intakeStatus = [i \in Intakes |-> "new"]
  /\ plans = 0
  /\ planOf = [p \in PlanIds |-> AnyIntake]
  /\ status = [d \in DeploymentIds |-> "none"]
  /\ plan = [d \in DeploymentIds |-> 1]
  /\ intake = [d \in DeploymentIds |-> AnyIntake]
  /\ from = [d \in DeploymentIds |-> 0]
  /\ createdAt = [d \in DeploymentIds |-> 0]
  /\ completedAt = [d \in DeploymentIds |-> 0]
  /\ sites = [d \in DeploymentIds |-> {}]
  /\ call = [c \in Calls |-> Idle]
  /\ cutShort = {}

Tick ==
  /\ now < MaxNow
  /\ now' = now + 1
  /\ UNCHANGED <<intakeStatus, planColumns, columns, call, cutShort>>

Deployments == {d \in DeploymentIds : status[d] # "none"}
DeploymentsOf(i) == {d \in Deployments : intake[d] = i}

(* Timestamps have a resolution of one second: equal ones come back in any *)
(* order.                                                                  *)
Oldest(S) == {d \in S : \A e \in S : createdAt[d] <= createdAt[e]}
Newest(S) == {d \in S : \A e \in S : createdAt[e] <= createdAt[d]}
LastCompleted(S) == {d \in S : \A e \in S : completedAt[e] <= completedAt[d]}

-----------------------------------------------------------------------------
(* Single-statement handlers.                                              *)
SetIntakeStatus(i, s) ==
  /\ intakeStatus' = [intakeStatus EXCEPT ![i] = s]
  /\ UNCHANGED <<now, planColumns, columns, call, cutShort>>

(* isValidTransition is asked with the role "admin", for which every       *)
(* transition between known statuses is valid. bulkUpdateStatus does not   *)
(* ask; it runs the same statement once per id.                            *)
UpdateStatus(i, s) == SetIntakeStatus(i, s)

(* The public revision form: whatever the intake's status.                 *)
SubmitFeedback(i) == SetIntakeStatus(i, "needs_info")

GeneratePlan(i) ==
  /\ plans < MaxPlan
  /\ plans' = plans + 1
  /\ planOf' = [planOf EXCEPT ![plans + 1] = i]
  /\ UNCHANGED <<now, intakeStatus, columns, call, cutShort>>

(* createDeployment, or rollback's insert.                                 *)
InsertDeployment(d, p, i, f, named) ==
  /\ status[d] = "none"
  /\ \A e \in DeploymentIds : e < d => status[e] # "none"
  /\ status' = [status EXCEPT ![d] = "queued"]
  /\ plan' = [plan EXCEPT ![d] = p]
  /\ intake' = [intake EXCEPT ![d] = i]
  /\ from' = [from EXCEPT ![d] = f]
  /\ createdAt' = [createdAt EXCEPT ![d] = now]
  /\ sites' = [sites EXCEPT ![d] = named]
  /\ UNCHANGED completedAt

(* deploy.start: the plan has to exist, and names the intake.              *)
StartDeployment(d, p) ==
  /\ p <= plans
  /\ InsertDeployment(d, p, planOf[p], 0, {})
  /\ UNCHANGED <<now, intakeStatus, planColumns, call, cutShort>>

-----------------------------------------------------------------------------
Goto(c, step) == call' = [call EXCEPT ![c].step = step]
Return(c)     == call' = [call EXCEPT ![c] = Idle]

(* runNext: the oldest queued deployment, if there is one.                 *)
RunNext(c) ==
  /\ call[c].step = "idle"
  /\ \E d \in Oldest({e \in Deployments : status[e] = "queued"}) :
       call' = [call EXCEPT ![c] = At("claim", TRUE, d)]
  /\ UNCHANGED <<now, intakeStatus, planColumns, columns, cutShort>>

(* deploy.run: any deployment, whatever its status.                        *)
RunDeployment(c, d) ==
  /\ call[c].step = "idle"
  /\ d \in Deployments
  /\ call' = [call EXCEPT ![c] = At("claim", FALSE, d)]
  /\ UNCHANGED <<now, intakeStatus, planColumns, columns, cutShort>>

(* UPDATE ... SET status = 'running' WHERE id = ?, whatever the status is. *)
(* Then the build plan and the intake are read; neither can change, but if *)
(* one were missing the run would fail.                                    *)
PlanExists(d) == plan[d] <= plans

Claim(c) ==
  LET d == call[c].dep IN
  /\ call[c].step = "claim"
  /\ status' = [status EXCEPT ![d] = "running"]
  /\ cutShort' = cutShort \ {d}
  /\ Goto(c, IF PlanExists(d) THEN "finish" ELSE "fail")
  /\ UNCHANGED <<now, intakeStatus, planColumns, fixed, completedAt, sites>>

(* Success: runNext names its own site in productionUrl, deploy.run its    *)
(* own in siteId and previewUrl, and each leaves the other columns alone.  *)
Complete(c) ==
  LET d == call[c].dep IN
  /\ call[c].step = "finish"
  /\ status' = [status EXCEPT ![d] = "success"]
  /\ completedAt' = [completedAt EXCEPT ![d] = now]
  /\ sites' = [sites EXCEPT ![d] = @ \cup {d}]
  /\ cutShort' = cutShort \ {d}
  /\ UNCHANGED <<now, intakeStatus, planColumns, fixed>>

(* Mutant of FinishRun: the success is not recorded.                       *)
ForgetSuccess(c) ==
  /\ ~call[c].next /\ call[c].step = "finish"
  /\ Return(c)
  /\ UNCHANGED <<now, intakeStatus, planColumns, columns, cutShort>>

FinishNext(c) == call[c].next /\ Complete(c) /\ Goto(c, "mark")
FinishRun(c)  == ~call[c].next /\ Complete(c) /\ Return(c)

(* runNext's last statement. The email after it cannot throw.              *)
MarkDeployed(c) ==
  /\ call[c].step = "mark"
  /\ intakeStatus' = [intakeStatus EXCEPT ![intake[call[c].dep]] = "deployed"]
  /\ Return(c)
  /\ UNCHANGED <<now, planColumns, columns, cutShort>>

(* A statement of the try block throws, without effect or (in AnswerLost)  *)
(* after the success is recorded.                                          *)
Throws(c) ==
  /\ call[c].step \in {"claim", "finish", "mark"}
  /\ Goto(c, "fail")
  /\ UNCHANGED <<now, intakeStatus, planColumns, columns, cutShort>>

AnswerLost(c) == Complete(c) /\ Goto(c, "fail")

(* The catch block: UPDATE ... SET status = 'failed' WHERE id = ?.         *)
Fail(c) ==
  LET d == call[c].dep IN
  /\ call[c].step = "fail"
  /\ status' = [status EXCEPT ![d] = "failed"]
  /\ completedAt' = [completedAt EXCEPT ![d] = now]
  /\ cutShort' = cutShort \ {d}
  /\ Return(c)
  /\ UNCHANGED <<now, intakeStatus, planColumns, fixed, sites>>

(* The catch block's own statement throws: the deployment stays as it is.  *)
StillRunning(S) == {d \in S : status[d] = "running"}

FailThrows(c) ==
  /\ call[c].step = "fail"
  /\ cutShort' = cutShort \cup StillRunning({call[c].dep})
  /\ Return(c)
  /\ UNCHANGED <<now, intakeStatus, planColumns, columns>>

(* The server stops: every call is gone, and nothing that starts with it   *)
(* looks for what they were doing.                                         *)
Holds(c, d) == call[c].step \in {"finish", "fail"} /\ call[c].dep = d

Crash ==
  /\ cutShort' = cutShort \cup
       StillRunning({d \in DeploymentIds : \E c \in Calls : Holds(c, d)})
  /\ call' = [c \in Calls |-> Idle]
  /\ UNCHANGED <<now, intakeStatus, planColumns, columns>>

-----------------------------------------------------------------------------
(* rollbackToLastSuccess: the newest deployment of the intake is the one   *)
(* to leave, the last other one that succeeded the one to copy.            *)
Rollback(c, i) ==
  /\ call[c].step = "idle"
  /\ \E d \in Newest(DeploymentsOf(i)) :
       call' = [call EXCEPT ![c] = At("source", FALSE, d)]
  /\ UNCHANGED <<now, intakeStatus, planColumns, columns, cutShort>>

(* Mutant of Candidates: the current deployment is not excluded.           *)
CandidatesAndSelf(d) ==
  {s \in DeploymentsOf(intake[d]) : status[s] = "success"}

Candidates(d) ==
  {s \in DeploymentsOf(intake[d]) : status[s] = "success" /\ s # d}

FindSource(c) ==
  /\ call[c].step = "source"
  /\ \E s \in LastCompleted(Candidates(call[c].dep)) :
       call' = [call EXCEPT ![c].step = "restore", ![c].source = s,
                            ![c].sites = sites[s]]
  /\ UNCHANGED <<now, intakeStatus, planColumns, columns, cutShort>>

(* "No previous successful deployment found to rollback to"                *)
FindsNoSource(c) ==
  /\ call[c].step = "source"
  /\ Candidates(call[c].dep) = {}
  /\ Return(c)
  /\ UNCHANGED <<now, intakeStatus, planColumns, columns, cutShort>>

(* Mutant of Restore: the URLs of the deployment that was left are kept.   *)
RestoreKeepsUrls(c, d) ==
  LET s == call[c].source IN
  /\ call[c].step = "restore"
  /\ InsertDeployment(d, plan[s], intake[s], call[c].dep, sites[call[c].dep])
  /\ Return(c)
  /\ UNCHANGED <<now, intakeStatus, planColumns, cutShort>>

(* The deployment that was left gets an errorMessage and keeps its status. *)
(* The copy takes lastSuccess's plan, intake and URLs as they were read.   *)
Restore(c, d) ==
  LET s == call[c].source IN
  /\ call[c].step = "restore"
  /\ InsertDeployment(d, plan[s], intake[s], call[c].dep, call[c].sites)
  /\ Return(c)
  /\ UNCHANGED <<now, intakeStatus, planColumns, cutShort>>

(* Any statement of a rollback throws: it answers "Rollback failed".       *)
RollbackThrows(c) ==
  /\ call[c].step \in {"source", "restore"}
  /\ Return(c)
  /\ UNCHANGED <<now, intakeStatus, planColumns, columns, cutShort>>

-----------------------------------------------------------------------------
CallStep(c) ==
  \/ Claim(c) \/ FinishNext(c) \/ FinishRun(c) \/ MarkDeployed(c) \/ Fail(c)
  \/ FindSource(c) \/ FindsNoSource(c)
  \/ \E d \in DeploymentIds : Restore(c, d)

Next ==
  \/ Tick
  \/ \E i \in Intakes :
       \/ \E s \in Targets : UpdateStatus(i, s)
       \/ SubmitFeedback(i)
       \/ GeneratePlan(i)
  \/ \E d \in DeploymentIds, p \in PlanIds : StartDeployment(d, p)
  \/ \E c \in Calls :
       \/ RunNext(c)
       \/ \E d \in DeploymentIds : RunDeployment(c, d)
       \/ \E i \in Intakes : Rollback(c, i)
       \/ CallStep(c)
       \/ Throws(c) \/ AnswerLost(c) \/ FailThrows(c) \/ RollbackThrows(c)
  \/ Crash

Spec == Init /\ [][Next]_vars

(* The event loop goes on with every call. Nobody is obliged to make one,  *)
(* nothing obliges a statement to throw or the server to stop.             *)
Fairness == \A c \in Calls : WF_vars(CallStep(c))

FairSpec == Spec /\ Fairness

-----------------------------------------------------------------------------
TypeOK ==
  /\ now \in 0 .. MaxNow
  /\ intakeStatus \in [Intakes -> IntakeStatuses]
  /\ plans \in 0 .. MaxPlan
  /\ planOf \in [PlanIds -> Intakes]
  /\ status \in [DeploymentIds -> JobStatuses]
  /\ plan \in [DeploymentIds -> PlanIds]
  /\ intake \in [DeploymentIds -> Intakes]
  /\ from \in [DeploymentIds -> OrNull(DeploymentIds)]
  /\ createdAt \in [DeploymentIds -> 0 .. MaxNow]
  /\ completedAt \in [DeploymentIds -> 0 .. MaxNow]
  /\ sites \in [DeploymentIds -> SUBSET DeploymentIds]
  /\ call \in [Calls -> CallAt]
  /\ cutShort \subseteq DeploymentIds

(* A deployment builds a plan that exists and is its own intake's, through *)
(* any chain of rollbacks: no customer is given another one's site.        *)
BuildsOwnPlan ==
  \A d \in Deployments : plan[d] <= plans /\ planOf[plan[d]] = intake[d]

HasSite(s) == s \in sites[s]

(* The URLs of a deployment, its own or those a rollback copied, name a    *)
(* site that was built, for the same intake and from the same plan. A      *)
(* rollback reads them and inserts them later, while the deployment it     *)
(* reads may be run again.                                                 *)
UrlsNameOwnSites ==
  \A d \in Deployments : \A s \in sites[d] :
    s \in Deployments /\ HasSite(s) /\ intake[s] = intake[d] /\ plan[s] = plan[d]

(* A rollback goes back to something: it was made to leave an earlier      *)
(* deployment of the intake and builds again the plan of a different       *)
(* deployment that had a site, whatever ran between its statements.        *)
RollbackRestoresSite ==
  \A d \in Deployments :
    from[d] # 0 =>
      /\ from[d] < d
      /\ intake[from[d]] = intake[d]
      /\ \E s \in DeploymentsOf(intake[d]) :
           s \notin {d, from[d]} /\ HasSite(s) /\ plan[s] = plan[d]

(* A deployment stays "running" only while a call is running it or after a *)
(* call was cut short by a crash or by its catch block throwing: every     *)
(* other way through two overlapping runs settles it.                      *)
RunningIsHeld ==
  \A d \in Deployments :
    status[d] = "running" => d \in cutShort \/ \E c \in Calls : Holds(c, d)

(* What the pipeline itself marks "deployed" has a site.                   *)
MarksBuiltSites ==
  [][\A c \in Calls :
       MarkDeployed(c) =>
         \E d \in DeploymentsOf(intake[call[c].dep]) : HasSite(d)]_vars

(* The queue is first in, first out although runNext decides on a read it  *)
(* acts on later: when it claims a deployment, none that is still queued   *)
(* is older. Reruns and rollbacks never put an older one back.             *)
ClaimsInOrder ==
  [][\A c \in Calls :
       Claim(c) /\ call[c].next =>
         \A e \in Deployments :
           status[e] = "queued" => createdAt[call[c].dep] <= createdAt[e]]_vars

(* A run settles: it does not hang in "running" unless it was cut short.   *)
RunsSettle ==
  \A d \in DeploymentIds :
    status[d] = "running" ~> status[d] # "running" \/ d \in cutShort
=============================================================================
