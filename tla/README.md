# LaunchBase platform: TLA+ models, checks and proofs

LaunchBase turns a customer's intake form into a deployed web site and gives its
operators an agent console. It is one Express/tRPC server over MySQL (Drizzle).
Three facts about it shape every module here:

* Every handler is an `async` function whose statements are awaited one by one.
  Handlers of concurrent requests interleave between any two statements.
* The modelled code opens **no database transaction** and takes no lock. What
  protects data are unique indexes, conditions in the `WHERE` of an update, and
  checks made on rows that were read earlier.
* A process may stop between two statements. Nothing that runs at start-up
  looks for work that was cut short.

So a handler is modelled as one action per awaited statement. A handler that
reads only what cannot change and writes in a single statement is one action.

## Inventory

Paths are under `src/server/` unless they say otherwise.

| component | state it keeps | operations | talks to | what is hard | what makes it correct | module |
|---|---|---|---|---|---|---|
| Promo codes (`services/promoService.ts`) | `promo_codes`, `promo_redemptions` | `reservePromo` | called by `intake.submit` | count, look and insert are separate statements | never oversold, founders numbered 1..n, one seat per intake | `PromoReservation` |
| Tier-gated approvals (`services/approvalEngine.ts`, `routers/admin/pipelineApprovals.ts`) | `pipeline_approvals` | request, resolve, check gate | operators' router; no dispatcher calls the gate | two administrators at once, expiry racing decisions | decided once, by somebody else; gate allows what is approved and nothing else | `PipelineApprovals` |
| Agent run dispatch (`operatorOS.ts`, `swarmOpsChat.ts`, `agentInstances.ts`) | `vertex_profiles`, `agent_instances`, secrets, `agent_runs` | edit profiles, instances, secrets; takeoff, chat | health gate | four reads, then an insert | a run passes a gate that was open; secrets die with their instance | `AgentFleet` |
| Health monitor and freeze gate (`services/agentHealthMonitor.ts`) | `agent_runtime_status` | poll, persist, gate | agent runtime | select then insert, stale status | one row per vertex, gate reads the newest | `AgentFleet` |
| Launch pipeline (`_incoming_routers.ts`, `db/index.ts`, `rollback.ts`) | `intakes.status`, `build_plans`, `deployments` | status changes, generate, start, run, run next, roll back | mail | overlapping runs, failing statements, crashes, rollback of rollbacks | own plan, own URLs, runs settle, queue in order | `LaunchPipeline` |
| Intake submission, referrals, applications (`_incoming_routers.ts`) | `intakes`, `referrals`, `suite_applications` | submit, apply, approve and create | promo codes, mail | a read, then an update by id | one intake per application, one use per referral | `IntakeDesk` |
| Preview approvals (`_incoming_routers.ts`, `email.ts`) | `approvals`, `email_logs`, `intakes.previewToken` | approve plan, send and resend mail | launch pipeline | cooldown, plan versions, replaced links | what is approved is the newest plan; mailed links are current | `IntakeDesk` |
| Mobile API (`routers/mobile/index.ts`) | `mobile_sessions`, `mobile_conversations`, `agent_runs`, `agent_events` | create/revoke session, send, poll, new conversation | inference, freeze gate | stale active run, expiry racing revocation | revoked stays revoked | `MobileChat`, `AgentFleet` (packs, gate) |
| AI inference (`services/aiInference.ts`) | `agent_events`, usage log | one inference per message | model servers | several awaits between read and write | no message is met with silence, none answered twice | `MobileChat` |
| User memory, profile, preferences (`aiInference.ts`, `learningProfile.ts`) | `user_memory`, `user_learning_profiles`, `ai_preferences` | extract, remember, delete, clear, synthesize, set | inference | two upserts at once, a profile made while memories are cleared | what was answered stands; a profile forgets | `UserMemory` |
| Shadow learning (`services/shadowInference.ts`, `ollamaClient.ts`, `trainingCollector.ts`) | `shadow_responses`, health cache | two lanes, vote, export | local and cloud models | two lanes end in any order | a vote reaches every pair of its exchange | `ShadowTraining` |
| Accounts and jobs (`_core/index.ts`, `routers/admin/projects.ts`) | `users`, credentials, `projects`, `project_collaborators` | seed, login, create and list jobs | - | several servers seed at once; a seeding cut short | who signs in has a job; a started server has its accounts | `JobAccounts` |
| Parental guardian (`routers/mobile/parentalGuardian.ts`) | `pg_*` | pair, rules, requests, remote control, heartbeats | mobile sessions | look, then two inserts | one family per guardian; guardians are served | `ParentalGuardian` |
| Blueprint ingestion, queue, worker (`blueprints.ts`, `blueprintIngestion.ts`, `workers/pipelineWorker.ts`) | `blueprint_*`, queue jobs | upload, run, quote, jobs | agent stack | half-done ingestion, retries, a crash | a contract shows a whole parse; nothing stays in progress without cause | `BlueprintIngestion` |
| Takeoff and estimate chain, symbol packs (`estimateChain.ts`, `blueprintLegendResolver.ts`) | `blueprint_symbol_packs`, `estimate_chain_runs` | map, apply pack, save pack, estimate | blueprints | a mapping races an ingestion | one device type per class | `TakeoffEstimate` |
| Gap rules (`contracts/gap_detection_rules.ts`, `gapDetection.ts`) | none | analyse, quick check | blueprints, packs | reads of different moments | heeded advice clears the flag | `GapRules` |
| Contracts and handshake (`contracts/handshake.ts`, `verifyAgentContracts.ts`) | two caches of one process | verify, handshake, info | agents | files replaced under a running process | the process never contradicts itself | `ContractHandshake` |
| Feedback proposals (`routers/admin/feedback.ts`) | `agent_feedback`, proposals, swarms | swarm, review, apply, roll back | agents | status checks on stale rows, items shared by proposals | closed by a decision that stands | `FeedbackLoop` |
| Rate and cost limits (`security/rateLimit.ts`, `middleware/rateLimiter.ts`, `costTracker.ts`) | in-memory windows, Redis, usage table | check | every public handler | window edges, two commands, restarts | at most the limit per window | `RateWindows`; the daily limit in `MobileChat` |
| Audit log (`security/auditLog.ts`) | a buffer | enqueue, flush | database | several flushes at once, failing writes | kept once | `AuditBuffer` |
| Setup checklists (`services/checklistEngine.ts`) | none (a value) | complete, reset, lock, edit, recompute | intakes | steps that depend on each other | what a complete step needs is complete | `SetupChecklist` |
| Social posting (`_incoming_routers.ts`, `facebook-policy.ts`) | counts in memory | post, post by weather | Facebook | UTC dates, local hours, restarts | who is told a time can post then, or the day after | `SocialPosting` |
| Checkout and configuration (`stripe/*`) | `intelligence_layers` | checkouts, status, save and show configuration | Stripe | select, then insert or update | what was saved is shown | `Checkouts` |
| Marketing (`marketingAgents.ts`, `marketingSignals.ts`, `ingestors/`) | `marketing_*`, inbox | cycles, review, notes, ingest | models, the web | nothing claims a queued cycle; notes are read, then written | worked once, notes stay | `MarketingCycles` |
| Marketing scripts (`src/scripts/gcp/`) | BigQuery tables, a directory of intents | worker, publish, flush | Pub/Sub, the cloud | messages come again, scripts overlap and die | acknowledged is done, deferred is kept | `MarketingWorker`, `PublishQueue` |
| Boundary checks, client, other scripts | none of the above | - | - | - | - | not modelled |

`PROJECT.json` lists the same components with their sources, what is left out of
each, and every hazard at its line with the property that covers it.

## Conventions

* **Requests.** A request is issued once; a retry is another request. It names
  the rows it inserts, so no counter is needed and a row tells who made it.
  `call[r]` holds the statement it is about to run and the locals it has read.
  Any statement may fail, and a request whose process stopped stays where it was.
* **Overlap.** The code has few guards against two requests at the same time, so
  the strongest thing that holds is often "unless the two overlapped". `ended[r]`
  is a history variable, the requests that were over when `r` began; two
  requests overlap when neither is in the other's set. Such a property still
  rules out everything a failure, a retry or a sequence of requests could do.
* **History variables** (`ended`, `cut`, `opened`, `granted`, `mails`, `recent`,
  `retired`, `replaced`, `orderly`, `mapped`, `heeded`, `saved`, `crossed`,
  `told`, `refused`, `vote`, `informed`, `moved`, `outputs`, `enqueued`,
  `dropped`, `unanswered`, `margin`, `abandoned`, `late`, `lapsed`, `cutShort`) are marked as such where
  they are declared and read by no action's guard.
* **Composition.** Modules that share tables are one module or name each other's
  rows. Those that share none may be checked in one run: an MC module
  EXTENDS one, INSTANCEs the others, and `part` says whose turn a behaviour is.
  Each is explored on its own while the others stay where they began.

## Modules

### `FounderSeats`, `PromoReservation`

`FounderSeats` is the promise: a seat of a code is granted in one atomic step, to
an intake that has none, with the next free number, while one is left.
`PromoReservation` is the code. `pc[c]` is the statement call `c` is about to
run: `Lookup` (steps 1-3), `CountBelowLimit`/`CountAtLimit` (4), `FindExisting`
(5), `Insert`/`InsertDuplicate` (6-7, with the unique index `unique_founder`).
`StatementFails` is the catch block. The count is kept in `current[c]`: it may be
stale when the founder number is computed from it. `lapsed` records which
reservations are past their 24 hours; no statement of the program reads it.

The interesting fact is that the code is correct without a transaction: the
founder number makes the unique index refuse any insert based on a stale count.
`ActsAtomically` (in `MCDecisions`) is the refinement (`seats <- redemptions`),
model-checked and proved.

### `ApprovalLedger`, `PipelineApprovals`

`ApprovalLedger` is the durable store as its users see it. `PipelineApprovals`
is the engine: `RequestApproval` is one insert; `resolveApproval` is
`ResolveCall`, `ResolveRead` (the three refusals), `ResolveUpdate` or
`ResolveConflict` (the update conditional on `pending`); `checkApprovalGate` is
`GateCall` (tiers 0 and 1 need no statement), one of `GateFindsNone`,
`GateFindsStale`, `GateFindsFresh`, then `GateExpire` (an update by id alone) or
`GateDual`. Any statement may fail. The gate has no caller in the repository; it
is modelled as the exported function it is. No operation is mapped to tier 3
today (`approvalEngine.ts:91-99`), which the engine supports; the run uses one.

### `LaunchPipeline`, `LaunchPipelineProofs`

The tables are functions from auto-increment ids; `status[d] = "none"` is a row
that does not exist yet, and no row is ever deleted. `call[c]` holds the
statement and the locals of one execution of `runNext`, `deploy.run` or
`rollbackToLastSuccess`:

| code | actions |
|---|---|
| `updateStatus`, `bulkUpdateStatus`, `submitFeedback` | `UpdateStatus`, `SubmitFeedback` |
| `buildPlan.generate`, `deploy.start` | `GeneratePlan`, `StartDeployment` |
| `runNext` | `RunNext`, `Claim`, `FinishNext`, `MarkDeployed`; `Throws`/`AnswerLost`, then `Fail` or `FailThrows` |
| `deploy.run` (`runDeployment`) | `RunDeployment`, `Claim`, `FinishRun`; the same failures |
| `rollbackToLastSuccess` | `Rollback`, `FindSource` or `FindsNoSource`, `Restore`, `RollbackThrows` |
| the process stops | `Crash` |

`sites[d]` abstracts the columns `siteId`, `previewUrl` and `productionUrl` to
the set of deployments whose site they have named: each handler adds its own,
and a rollback copies what it *read* two statements earlier. `cutShort` records
the running deployments whose run was abandoned. Plan status, `errorMessage`,
logs, the preview token and mail are left out because no statement of the
pipeline reads them.

### `MobileChat`, `MobileChatProofs`

A client's session names the run it follows (`activeRunId`). `chat.send` reads
the session, makes a run if there is none, appends the message to `agent_events`
and starts an inference nobody waits for; the inference appends the reply to the
same table, where `poll` finds it.

| code | actions |
|---|---|
| `session.create`, 24 hours, `session.revoke` | `CreateSession`, `Lapse`, `Revoke` |
| `validateMobileToken` | `Validate`, `MarkExpired` |
| `chat.send` | `CreateRun`, `LinkRun`, `AppendMessage` |
| `conversation.new`, `voice.transcribe` | `ClearRun`, `AppendTranscript` |
| every other procedure behind the token | `Visit` |
| `runAiInference`, `checkRateLimit`, `callLLM`, `logUsage` | `Load`; `CheckAllows`, `CheckRefuses` or `CheckFailsOpen`; `ModelReturns`; `LogUsage`; `WriteReply`; `SaveState`; `EmitShadow`; `Throw`, then `ReportFailure` or `GiveUp` |
| a request fails; the process stops | `CallFails`; `Crash` |

A session is `lapsed` while its `expiresAt` is past and no request has noticed
it yet. All sessions belong to one user, within one day, because the daily limit
is per user and day. Rows are taken to become visible in the order of their ids.
An insert that fails may have been done (`AppendMessage`, `WriteReply` have both
outcomes). The transcript of a silent recording has no content, so the inference
does not count it as a message; a conversation whose oldest rows are all of this
kind gets no answer, one of the four ways `abandoned` records. The instances are
too small to meet it; the proof covers it. `agent_runs.stateJson` is left out:
it is written and never read back.

### `IntakeDesk`

What a customer and the office do to an intake: `Submit`, `ReadReferral`,
`UseReferral`, `FindCode`, `InsertCode` (referrals), `Apply`,
`InsertApplication`, `ReadApplication`, `ApproveInsert`, `LinkApplication`
(applications), `UpdateStatus`, `SetStatus`, `MarkPaid`, `Publish`, `PublishOwn`
(status and preview token), `ReadIntake`, `CheckCooldown`, `SendMail`,
`LogMail`, `Minute` (the preview mail and the cooldown of a minute that its log
row gives the next one), `InsertPlan`, `ReadPlan`, `InsertApproval` (approval of
a plan), `Clarify`, `Fails`. A token is named by the request that generated it.
`granted` collects what was given and to whom; `mails`, `recent`, `retired` and
`replaced` follow the links. Text, prices and mails nothing depends on are left
out, and so are action requests.

### `SetupChecklist`

The engine of `checklistEngine.ts` as operators (`Resolve`, `Cascade`, the
fields) and one action per exported operation. The engine maps a checklist to
the next one and keeps nothing; the model chains the operations as
`completeChecklist` and the parameter `previous` foresee. Today's handlers apply
one operation to a fresh checklist, which is the first step of a behaviour.

### `ContractHandshake`

`Deploy` replaces files on disk, `Start`, `Verify`, `FailVerification` and
`Exit` are the server's life, `Handshake` and `Info` its answers. The registry
and the hash of each schema file are cached when first needed, each on its own,
so a running process may know files of different deployments. A hash is the
content it stands for. `told` and `refused` record what this process has said.

### `GapRules`

The six rules as operators over the document's detections, legend, packs and
estimates; `Begin`, `Read`, `ReadPacks`, then `Analyze` or `QuickCheck` are the
query, and `Insert`, `Map`, `EditPack`, `Estimate` what others write meanwhile,
one step each. The reads of one query are issued together and end in any order.
Severities, counts and messages are left out.

### `Checkouts`

The checkouts (`CreateCheckout`, `CreateServiceCheckout`, `CreateTestCheckout`,
`CreateSmiCheckout`), `Pay`, the status queries, and the configuration
(`GetConfig`, `FindConfig`, `WriteConfig`), which selects a user's row and then
inserts or updates one. Stripe is external: without `STRIPE_SECRET_KEY` the
sessions are made up, with it a session of no amount is refused. The analytics
events are left out; no client writes `pricingSnapshot`.

### `BlueprintIngestion`

Uploads and deletions, `createDocument`, the pipeline run by hand, the one-click
quote, and the parse and detect jobs with their attempts, as sequences of
statements and agent calls on the same tables. A row names the attempt of the
request that inserted it. `outputs` records what the agent answered to each
parse. Geometry, text, labels and the files an agent generates are left out;
local storage is assumed. Nothing in the repository starts the worker; the queue
is modelled from what enqueues and what the worker would do.

### `TakeoffEstimate`

Symbol packs and their default, the mapping of one class, the application of a
pack, saving a mapping as a pack, `runEstimateChain` and the estimate job, on
the detections of one document; `Ingest`, a detection that appears, is a step of
the environment. Hours, materials and prices, and overrides that only change
them, are left out.

### `AgentFleet`

Profiles, instances, secrets; the health poll (`PollHealth` with the select that
follows it, `PersistStatus` with the insert or update); the gate with its fallback; takeoffs and
chats that pass it and insert a run; `vertical.activate` of the phone, which
asks no gate. `opened` records for which requests the gate as a whole was
open at some moment. `InsertRun` has no approval in its guard, as no dispatcher
asks for one. A takeoff that stops before it links its artifact is what the
plain `launch` does, so the run leaves that out.

### `FeedbackLoop`

Feedback by hand, the weekly swarm that turns open items into proposals, and
`review`, `apply`, `rollback`, each a read and writes by id. Several proposals
may share items, because items a swarm marked triaged are taken again.

### `MarketingCycles`

An administrator queues a cycle; it is worked on by that same request and by
whoever works off the queue, and stays queued until its last statement. A
research cycle leaves hypotheses, an execute cycle an inbox item. Reviews, notes
(a read, then a write) and ingestion are other requests. Left out: the order of
candidates, scores of filings, texts. A failure of a cycle taken from the queue
and one of its request are one action, `Throws`.

### `MarketingWorker`, `PublishQueue`

`MarketingWorker`: deliveries of a message to `scripts/gcp/worker/main.py`. A
message is delivered again until it is acknowledged, also while an earlier
delivery runs. Pub/Sub and BigQuery are external; each call of BigQuery may fail
before or after it took effect. `PublishQueue`: the scripts that copy the latest
pack and reports to the cloud, and leave an intent as a file in a directory when
they cannot. Every file operation and every copy is a step, any script may die
anywhere; the search for a duplicate is one step. A pack stands for pack and
day, reports for a version number. The PowerShell twins are not modelled.

### `SocialPosting`

The two posting handlers with the weather gate and the policy both ask, always
in mode `manual`. Time is UTC in hours; the count is by UTC date, in memory, and
lost by `Restart`; quiet hours and the time to retry are local, `Offset` hours
ahead. With an `Offset` from -1 to 6 midnight UTC falls into the server's quiet
hours and a local day's posts are of one date; elsewhere they are of two, and
what was posted in the evening may count against the morning after. So
`RetryIsAcceptable` excuses, at the time told, a date that had begun before the
refusal, and nothing but others' posts a day later. The policy's limit of 3 is
the constant `DailyLimit`. Daylight saving is left out. Connections are given: no code inserts
them. The Graph API is never reached (see findings).

### `JobAccounts`, `ParentalGuardian`

`JobAccounts`: servers that seed accounts while they start (several at once, and
cut short anywhere), `/auth/login` with the job it provides, change of password,
`/auth/create-job`, the list of jobs and an operator's status change. A slug's
six digits of time are `Stamps`. Token life, hashes and pages of a list are left
out; a suspended job is an archived one. `ParentalGuardian`: pairing, rules,
access requests, remote control and heartbeats, each a session check, mostly a
membership check, then the writes. What a rule says is left out; nothing here
applies them.

### `UserMemory`, `ShadowTraining`

`UserMemory`: one user's memories, in the order of `updatedAt`, the profile made
of them and preferences. A value is named by the call that wrote it. It begins
empty, or with a past memory whose profile is due. The memory tool and
`maybeUpdateProfile` are exported and called by nothing; they are modelled as
the functions they are. `ShadowTraining`: one run, both lanes of each exchange
with the health cache, what the client is shown, its vote, the examples an export
would make (which nothing calls). `events` keeps the names of the models that
replied and that were shown, and a vote names one of them: `Side` is the test of
`submitModelPreference` on that name, which takes the shadow that is paid for to
be the primary. A vote comes with or without its event's id, and without it marks
nothing. `VoteReachesPairs` therefore says which side is stored for every name,
and that it is the side chosen where the names tell the two apart. `SHADOW_DUAL_MODE`
is on, its default. Time counts in units of the longest health check.

### `RateWindows`, `AuditBuffer`

`RateWindows`: one bucket in one of three stores: a count with a reset time, a
list of times, or a key in Redis with a count and an expiry. A check in Redis
awaits up to three statements (`Incr`, `Expire`, `Ttl`), and the middleware lets
a request pass when any of them throws (`Throws`, `Uncounted`), whatever was
counted. `granted` is what was let through by its count since the store was last
empty: a restart of a store in memory empties it, and what passes because Redis
threw is not in it and has no bound. No file imports
`middleware/rateLimiter.ts`.

`AuditBuffer`: the buffer, flushes under way (each before or after its awaited
insert), and the writer of the comment above `registerAuditWriter`, which returns
at once when there is no database (`Take` then drops the batch; `connected` is
`_db` of `db/index.ts`). A write that fails may have taken effect. `written`
counts rows, `unanswered` those of failed writes. `Registers` is whether that
writer is registered (`TRUE` in the run) or none, as in the repository today.



## Runs

Nine runs expect TLC to finish with no error; `PROJECT.json` names for each of
their properties a plausible bug in the code that the same run catches. Three
expect TLC to refute a sentence that the repository says of itself (see
findings); their instances are those of the runs they are named after.

| run | instance | question |
|---|---|---|
| `decisions` | 2 codes with 2 and 1 seats, 2 intakes, 2 calls; 2 administrators, tiers 2 and 3, 2 records, 2 resolvers, 2 gates, TTL 0, 1 tick; 2 servers, 2 users of whom 1 is an administrator's, 2 passwords, 2 requests; 2 guests, a past family, a device | do racing reservations implement an atomic grant of seats; are decisions atomic and final, does the gate allow exactly what is approved; has who signs in a job, a started server its accounts, a guardian one family and service |
| `launch` | 2 intakes, 2 plans, 3 deployments, 2 calls, no tick | URLs, rollbacks and who holds a running deployment, under overlap, failure and crash |
| `launch_queue` | 1 intake, 1 plan, 2 deployments, 2 calls, 1 tick | do runs settle |
| `mobile` | 1 session, 2 requests of any kind, daily limit 1, history 50 | is every recorded message answered once or excused, and in the end |
| `desk` | 2 requests on an intake of a customer, 2 codes, 1 application; a checklist of 2 platforms; 2 contracts, 1 file version, 2 schemas; 3 detections, 2 packs, 2 writes; 3 requests for 1 user's configuration | what is granted, mailed, approved, completed, told, advised and shown |
| `documents` | 2 requests and 2 jobs of 2 tries on a document of 2 pages; 2 detections of a class, 2 types, a pack | does anything stay in progress without cause, is a shown contract whole, has a class one type |
| `agents` | 3 requests, 1 past profile and instance, 2 packs, 2 names; 3 requests on 1 item and 2 past proposals | gates, rows there is one of, secrets, and what closed feedback stands on |
| `outreach` | 3 requests, 1 past cycle and signal, batches of 1; 2 packs, 2 versions of reports, 3 scripts; 3 calls over 2 keys, a profile due every 2 facts; an exchange with its two lanes and votes | is a cycle worked on once, do notes stay, is a deferred pack kept; do answers stand, does a profile forget, does a vote reach every pair |
| `edge` | 36 hours five hours west of UTC, 2 pages, 2 requests, 1 post a day; 7 moments of 2 requests, windows of 3, limit 2, 3 stores, 2 checks at once; 3 entries, 3 flushes, 2 failing writes; 1 message delivered up to 3 times | what a process keeps in memory, and the marketing worker |
| `edge_reset` | as `edge` | "Resets tomorrow at 6:00 AM"? Refuted |
| `outreach_votes` | as `outreach` | "The preferred response becomes the training output"? Refuted |
| `decisions_login` | as `decisions` | "Guarantee at least one ACTIVE project"? Refuted |

Why the bounds are enough. Two concurrent calls are what each race here needs,
and three where the property excuses two requests that overlap (`agents`,
`outreach`, the configuration in `desk`): the third party of a race is a row.
The proofs below cover any number. The names of one set serve in several
components of a run (`Packs` are the keys of memories, `Resolvers` the requests
of accounts and families); no two of them are in one behaviour. Three deployments let
a rollback choose between two sources and be rolled back. In `launch` the clock
stands still, so all timestamps tie and every order in which the database may
return equal rows is explored, which covers every order a moving clock would
give; `launch_queue` moves it. The `VIEW` of `launch` leaves out
`intakes.status`, which no pipeline statement reads. `TTL = 0` makes an approval
stale after one tick. `edge` is five hours west, where the date changes at 19
o'clock: its 36 hours hold an evening that is of the next date, the quiet hours
and the morning that is refused again, and 1 post a day lets two requests reach
the limit, on one page or each on its own. Its 7 moments hold more than one
window and cleaning of each store, and 2 requests a moment exceed the limit
within a window. `Ops` of `agents` leaves out `launch`, whose behaviours are
those of a takeoff that stops before its last statement. `outreach` has no
hypotheses of earlier days: the cycles of the run make them. Default values of
absent rows and idle calls are fixed members of symmetric sets; nothing reads
them, so permuting them relates equivalent states.

Deadlock. The composed runs say `CHECK_DEADLOCK FALSE`: requests are issued once
and time is bounded, so a behaviour ends when all are over. The other runs check
for deadlock: in them a call returns to where the next one begins, or a user,
an operator or a clock can always go on.

Fairness. `launch_queue`: `WF_vars(CallStep(c))`, the event loop resumes a call
whose statement has been answered. Nothing is assumed of customers,
administrators, clocks, failures or crashes. A run that was `cutShort` never
settles, which is what the code does. `mobile`: `WF_vars(\E c : InferenceStep(c))`,
while some inference can go on, one does. An inference takes finitely many steps
and there are finitely many of them, so this is enough for each; a silent model
server is covered because `fetch` gives up by itself. All other properties are
safety properties and need no fairness.

## Findings

`PROJECT.json` lists the places where the code does not do what a comment, a
document or its own next line says, each with the definition of a module that
follows the code. The ones that matter most to a user:

* **Nothing enforces approvals or offline runtimes.** No dispatcher asks the
  approval gate (`approvalEngine.ts:10`), and a poll that gets no answer is
  recorded under the vertex "unknown", so the row the gate reads stays healthy
  (`agentHealthMonitor.ts:249`).
* **Posts are never published.** The handlers wait for the answer "PUBLISH", the
  policy says "POST" (`_incoming_routers.ts:2618`).
* **Audit entries are never written.** No file registers a writer
  (`auditLog.ts:123`), and the writer that the comment gives would lose what is
  flushed while there is no database (`auditLog.ts:128`).
* **Long conversations lose their newest messages**, because the window keeps
  the oldest rows of the run (`aiInference.ts:188`).
* **A second rollback restores what the first one left**, because nothing marks
  it (`rollback.ts:69`), and a 24-hour promo reservation never ends
  (`promoService.ts:81`).
* **Login answers 500 for a user whose only job is archived**
  (`_core/index.ts:345`; run `decisions_login`), and a ward's device that changes families stays in the
  first (`parentalGuardian.ts:516`).
* **Disconnecting a module disconnects every user** (`_incoming_routers.ts:2048`).
* **A client whose Redis key lost its expiry is refused for ever**
  (`rateLimiter.ts:129`).
* **A page at its limit may still be so when it "resets"**, because posts are
  counted by UTC date and the time told is local (`facebook-policy.ts:62`; run
  `edge_reset`).
* **A vote for the shadow that is paid for is stored as one for the primary**
  (`routers/mobile/index.ts:1807`; run `outreach_votes`), a vote without an event
  is stored nowhere (1806), and one for the response that was shown marks the
  other pair as well (1812).

## Proofs

TLAPS checks, for every value of the constants, 52 theorems in eight modules.

| module | theorems | invariant |
|---|---|---|
| `DecisionsProofs`, promo codes | types, `WithinLimit`, `FoundersContiguous`, `OnePerIntake`, `DuplicateOnlyWhenOvertaken`, the refinement of `FounderSeats` | a call's count is at most the present one and below the limit; one about to insert whose count is still exact has seen that its intake has no redemption. So an insert the index accepts had an exact count |
| `DecisionsProofs`, approvals | types, `SuccessMeansRecorded`, both gate properties, the refinement of `ApprovalLedger` | a resolver about to update has been checked against the requester, who never changes; a record a gate is about to expire is old and was approved; a decided record names a decider who is not the requester |
| `DecisionsProofs`, accounts and families | `SignedInHasJob`, `StartedHasSeeds`, `OneFamilyUnlessOverlapping`, `GuardianIsServed` | see below |
| `LaunchPipelineProofs` | types, `BuildsOwnPlan`, `UrlsNameOwnSites`, `RollbackRestoresSite`, `RunningIsHeld`, `MarksBuiltSites`, `ClaimsInOrder` | ids are handed out in order and grow with `createdAt`; a call's deployment exists; a claim made by `runNext` is not younger than anything queued; what a rollback has read is still true of its source |
| `MobileChatProofs` | types, `NoSilence`, `OneAnswerEach`, `OvershootIsBounded`, `LateRequestsRefused` | a run named by a request, a session or an inference exists; the request of a message has returned, that of an inference has its message in the inference's run; a reply comes after its inference has left the step that writes it; the session of a late request is still closed. Tables only grow |
| `EdgeProofs` | `RetryIsAcceptable`, `WindowsHold`, `KeptOnce`, `AckedIsDone` | see below |
| `OutreachProofs` | `WorkedOnceUnlessOverlapping`, `NotesLostOnlyToOverlap`, `DeferredIsKept`, `AnswersStand`, `ProfileForgetsCleared`, `VoteReachesPairs` | see below |
| `DeskProofs` | `OnceUnlessOverlapping`, `PreviewMailsSpaced`, `LinksAreCurrent`, `ApprovesNewestPlan`, `CompleteIsClosed`, `ToldIsWelcome`, `AdviceClears`, `ShownIsSaved` | see below |
| `AgentsProofs` | `RunsPassOpenGate`, `OneOfAKindUnlessOverlapping`, `SecretsDieWithInstance`, `ClosedByStandingDecision` | see below |
| `DocumentsProofs` | `InProgressHasCause`, `ContractIsWhole`, `OneTypePerClass` | see below |

Beside the properties that the runs check, the first three modules prove facts
that no run names: `WithinLimit` (never more redemptions than seats),
`FoundersContiguous`, `OnePerIntake`, `DuplicateOnlyWhenOvertaken`,
`SuccessMeansRecorded`, `BuildsOwnPlan`, `MarksBuiltSites`, `ClaimsInOrder`,
`OvershootIsBounded`, `LateRequestsRefused`.

A theorem about a component of a composed run is stated of `AllSpec`: each
component's invariant is shown to start, to survive the steps of its component
and to rest while the others move.

* `DecisionsProofs`. *Accounts:* a server at its n-th seed has behind it n - 1
  accounts with a password, whoever inserted them, and no step removes one
  (`SeedsSoFar`); so however often a seeding is cut short, one that comes to its
  end has them all. What a login has seen or inserted is an active job of its
  user until an operator changes a status (`LoginSound`). *Families:* whoever is
  past its look for a family overlaps everyone who paired the same user since
  (`PairsAlone`); a row is of a past family or of a pairing that returned
  (`MembersKnown`), and a user has one role in a family (`OneRoleEach`), so the
  check that takes any row of the user finds the guardian's.
* `EdgeProofs`. *Posting:* an answer is what the policy says at the time it was
  given, and a page's count of a date is that of requests allowed on that date or
  before all that is modelled; the arithmetic of hours and dates is a handful of
  lemmas. What is at its limit has a cause (`CauseOfLimit`): a request allowed
  on that date, which is one since the refusal or shows that the date had begun
  by then. The time told is six o'clock after the refusal's own hours, so the
  date a day later has not begun (`TomorrowOfRetry`, `NextDate`), in any zone.
  *Windows:* a store's count is at least what it let through since its window
  began and the checks it counted that may still be, and the window before it was
  small too; so any `Window` moments see at most twice the limit, or the limit
  where times are kept. A check that throws only takes its request out of that
  account (`FewerAdmitted`). A Redis count without an end has a check that is
  about to give it one, unless one was cut short.
  *Audit:* an entry is in the buffer, in one flush, written by a write that was
  answered, or gone for want of a database, never in two of these; its rows are
  one if it is written so, and one for each failed write that took effect
  (`RowsAccounted`). *Worker:* a run recorded as a success has its rows in, and a
  message is acknowledged by a delivery that recorded one.
* `OutreachProofs`. *Cycles:* requests that leave results of one cycle overlap,
  or one was cut short: a worker is still at the cycle, was cut short, or the
  cycle is over, and who is past reading a cycle meets all its workers that were
  not cut short.
  *Notes:* who is about to write notes has read all that were reported, or those
  it has not are lost to an overlap. *Queue:* what a script may still remove as a
  duplicate has an older intent in the queue unless its pack has been copied
  since, and a script removes its intent only once the pack is whole. *Memory:*
  while none but earlier calls may write a key, the row that a call found for it
  stays, and so does what the call then writes (`Remembered`); an extraction
  whose model has not answered may write nothing yet, which is why the property
  counts it as one that may write anything and the invariant does not. The last
  to set a field stays its setter, and preferences once inserted never go
  (`Preferred`). Of what was there before a clear nothing is in a row, in what a
  later call has read, or in a profile such a call made (`Cleared`). *Training:*
  once a response is shown both lanes are done for good (`ShownIsReady`) and the
  names in the exchange's events do not change, so the vote that follows marks
  every pair there will ever be with the side its name stands for
  (`InformedAreMarked`).
* `DeskProofs`. Desk: who was granted something had read that nobody was before,
  so two grants overlapped; a resend past its
  look at the log found no recent mail it had to know of; a resend mails no link
  that was replaced before it began; an approval names a plan that none of those
  it had to know of is newer than. Checklist: nothing depends
  on a step that depends on one that depends on another, so `Cascade`, a
  recursive function over sets of steps, ends after two rounds (the function that
  does two rounds satisfies its equation, and any that does agrees with it); what
  it resets is closed under dependence, and every operation leaves a list that is
  resolved. Handshake: what was told is what
  the caches still say, and claims that were refused still differ from it. Gaps:
  what has been mapped since it was inserted has a type, so a query that begins
  when all has been mapped reads no untyped row. Checkouts: a user whose saves
  never overlapped has at most one row, of what was saved last.
* `AgentsProofs`. *Gates:* a request that passes a gate that was open at no
  moment read its tables on both sides of somebody's write. Every writer writes
  one of the three tables once and is over, so with one other request either
  nothing has been written yet and what was read is of one moment (`Fresh`), or
  the one write is past (`Passed`) and the rest is read of one moment; in both
  cases the rest of the reads keeps the gate shut (`Shut`). Two others are the
  exception the property names. *One of a kind:* a poll that found no row knows
  that whoever inserted one since overlaps it; an activation has in its list of
  packs to clear every primary but those of requests it overlaps. *Secrets:*
  between its two statements a delete overlaps whoever set what it will leave.
  *Feedback:* what closed an item stands, or an excuse exists that lasts as long
  as the item stays closed (`Stands`, `Excused`): a decision already past its
  check is a rival, and a later one can only be a roll back, which stays
  unfinished until it reopens the items, because a proposal's items never change.
* `DocumentsProofs`. *In progress:* a document says so only while some request
  or job is between its first write to the document and its last, or was left
  there (`AtWork`); a step that ends such work either writes a status that is
  over or leaves the request marked as cut short, so the invariant survives any
  number of attempts. *Contracts:* a parse is known by its request and attempt,
  an attempt that goes back to the agent is a later one, so no two answers have
  one name (`OutputsOK`). An attempt past its answer has kept every page of it:
  each number is inserted or still to do, then each text is marked or still to
  do (`Keeps`), and only an attempt that is done with both shows its contract
  (`ContractsOK`). No statement deletes a page. *Classes:*
  every write of a type writes all detections of the class at once, and an
  inserted one has no type.

The assumptions are those named in the modules (`FleetAssumption`,
`LoopAssumption`, ...): sets that are not empty, names of different kinds that
are different, limits that are natural numbers. Where an action picks an element
(`ClearPrimary` takes one of the packs left), the proof uses nothing but that it
is one of them. `Pick` of `AgentFleet` gives ids rather than rows, and the
exception of `RunsPassOpenGate` is stated with two witnesses instead of a
cardinality; both are equivalent to what they replace and easier to reason about.

Only model-checked: `RunsSettle` and `MessagesSettle`, because liveness is beyond
the prover. Every other property of every run is the statement of a theorem.

## Not modelled

* Setup packets, module setup and connections, the post queue: no statement of
  the repository inserts their rows, or single statements write them.
* Lists and reports that only read: the operators' consoles, projects and runs,
  evaluation and monthly reviews; `verifyProjectAccess`, which nothing calls.
* `takeoffCalculator`: arithmetic no file imports.
* Attachments and speech recognition of the mobile API.
* Boundary checks (authentication, CSRF, input scanning, headers) and output
  (mail templates, notifications): no state of the modelled components depends
  on them. Stripe: the repository has no handler for its events.
* The React client, and scripts other than the marketing worker and the publish
  queue.

## Plan

* Proofs of what no run asks yet: that the columns of every component keep their
  types is part of the invariants above and not stated for each by itself; that
  `ResetsTomorrow` holds where midnight UTC lies in the quiet hours.
* Models of setup packets and of the post queue once a statement of the
  repository inserts their rows; of the audit writer and the dispatchers' gate
  once something registers and calls them.
