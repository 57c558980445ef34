----------------------------- MODULE MobileChat -----------------------------
(***************************************************************************)
(* server/routers/mobile/index.ts with services/aiInference.ts and         *)
(* services/costTracker.ts: a mobile client holds a session token, sends   *)
(* messages into the run its session follows, and polls that run for the   *)
(* reply, which an inference nobody waits for appends later.               *)
(*                                                                         *)
(* Requests and inferences are sequences of awaited statements without a   *)
(* transaction; each statement on modelled rows is an action. A request is *)
(* issued once (a retry is another request) and starts at most one run and *)
(* one inference, which bear its name. All sessions are of one user, whose *)
(* daily limit they share; the model is of one day.                        *)
(***************************************************************************)
EXTENDS Integers, Sequences, FiniteSets

CONSTANTS
  Sessions,    \* mobile_sessions rows
  Calls,       \* requests
  NoRun,       \* activeRunId is null
  Limit,       \* DAILY_MESSAGE_LIMIT
  MaxHistory   \* MAX_HISTORY

ASSUME CallsAssumption == IsFiniteSet(Calls) /\ NoRun \notin Calls /\ Sessions # {}
ASSUME LimitAssumption == Limit \in Nat \ {0} /\ MaxHistory \in Nat \ {0}

VARIABLES
  status, activeRun,  \* columns of a session; "lapsed" is status "active" of a
                      \* row whose expiresAt is past
  runs,       \* agent_runs rows, named by the request that inserted them
  events,     \* agent_events rows in the order of their ids
  call,       \* where each request is, and the activeRunId it has read
  inference,  \* where the inference of each request is, and its run
  used,       \* api_usage_log rows of the day
  unlogged,   \* inferences whose call of the model is not in that log yet
  margin,     \* history: the most calls unlogged together when a check allowed
              \* one of them, and one for each a failing check has let through
  abandoned   \* history: messages whose inference was given up without trace

session == <<status, activeRun>>
usage   == <<used, unlogged, margin>>
vars == <<session, runs, events, call, inference, usage, abandoned>>

Ops == {"send", "new", "transcribe", "visit", "revoke"}
CallSteps == {"none", "validate", "expire", "admitted", "link", "append",
              "revoke", "returned"}
CallAt == [op : Ops, step : CallSteps, session : Sessions,
           run : Calls \cup {NoRun}, late : BOOLEAN]

AnySession == CHOOSE s \in Sessions : TRUE
Idle(step) == [op |-> "visit", step |-> step, session |-> AnySession,
               run |-> NoRun, late |-> FALSE]

InferenceSteps == {"none", "load", "check", "model", "answer", "limit", "error",
                   "save", "shadow", "failed", "done"}
InferenceAt == [step : InferenceSteps, run : Calls \cup {NoRun}]

Replies  == {"answer", "limit", "error"}
Messages == {"user", "transcript", "answer", "limit", "shadow"}
\* "empty" is the transcript of a silent recording: a message without content
Event == [kind : Messages \cup {"empty", "error"}, run : Calls, of : Calls]

Init ==
  /\ status = [s \in Sessions |-> "none"]
  /\ activeRun = [s \in Sessions |-> NoRun]
  /\ runs = {}
  /\ events = <<>>
  /\ call = [c \in Calls |-> Idle("none")]
  /\ inference = [c \in Calls |-> [step |-> "none", run |-> NoRun]]
  /\ used = 0 /\ unlogged = {} /\ margin = 0
  /\ abandoned = {}

-----------------------------------------------------------------------------
(* Sessions.                                                               *)

(* session.create: the checks of secret, project, user and instance have   *)
(* passed; a new row and a random token.                                   *)
CreateSession(s) ==
  /\ status[s] = "none"
  /\ status' = [status EXCEPT ![s] = "active"]
  /\ UNCHANGED <<activeRun, runs, events, call, inference, usage, abandoned>>

(* 24 hours pass.                                                          *)
Lapse(s) ==
  /\ status[s] = "active"
  /\ status' = [status EXCEPT ![s] = "lapsed"]
  /\ UNCHANGED <<activeRun, runs, events, call, inference, usage, abandoned>>

Closed(s) == status[s] \in {"revoked", "expired"}

-----------------------------------------------------------------------------
(* Requests.                                                               *)
At(c, step)   == call[c].step = step
Goto(c, step) == call' = [call EXCEPT ![c].step = step]
Return(c)     == call' = [call EXCEPT ![c] = Idle("returned")]

Request(c, op, s) ==
  /\ At(c, "none") /\ status[s] # "none"
  /\ call' = [call EXCEPT ![c] =
       [op |-> op, step |-> IF op = "revoke" THEN "revoke" ELSE "validate",
        session |-> s, run |-> NoRun, late |-> Closed(s)]]
  /\ UNCHANGED <<session, runs, events, inference, usage, abandoned>>

(* "Session has been revoked": any status but active.                      *)
Refused(s) == status[s] \notin {"active", "lapsed"}

(* validateMobileToken reads the session; what it returns is this row,     *)
(* activeRunId included, however late it is used.                          *)
Validate(c) ==
  LET s == call[c].session IN
  /\ At(c, "validate")
  /\ \/ Refused(s) /\ Return(c)
     \/ ~Refused(s) /\ status[s] = "lapsed" /\ Goto(c, "expire")
     \/ /\ ~Refused(s) /\ status[s] # "lapsed"
        /\ call' = [call EXCEPT ![c].step = "admitted", ![c].run = activeRun[s]]
  /\ UNCHANGED <<session, runs, events, inference, usage, abandoned>>

(* The update of a lapsed session, whatever its status is by then.         *)
MarkExpired(c) ==
  /\ At(c, "expire")
  /\ status' = [status EXCEPT ![call[c].session] = "expired"]
  /\ Return(c)
  /\ UNCHANGED <<activeRun, runs, events, inference, usage, abandoned>>

(* A visit writes no row of this model: validate, poll, status, list,      *)
(* upload, feedback and the others. The statements that follow the reading *)
(* of the token (lastUsedAt, the limit per minute, and for chat.send the   *)
(* freeze gate) can only refuse, as CallFails does.                        *)
Visit(c) ==
  /\ At(c, "admitted") /\ call[c].op = "visit"
  /\ Return(c)
  /\ UNCHANGED <<session, runs, events, inference, usage, abandoned>>

(* session.revoke: no check of the status it overwrites.                   *)
Revoke(c) ==
  /\ At(c, "revoke")
  /\ status' = [status EXCEPT ![call[c].session] = "revoked"]
  /\ Return(c)
  /\ UNCHANGED <<activeRun, runs, events, inference, usage, abandoned>>

(* conversation.new.                                                       *)
ClearRun(c) ==
  /\ At(c, "admitted") /\ call[c].op = "new"
  /\ activeRun' = [activeRun EXCEPT ![call[c].session] = NoRun]
  /\ Return(c)
  /\ UNCHANGED <<status, runs, events, inference, usage, abandoned>>

(* chat.send with no run to continue: insert one, then link it.            *)
CreateRun(c) ==
  /\ At(c, "admitted") /\ call[c].op = "send" /\ call[c].run = NoRun
  /\ runs' = runs \cup {c}
  /\ call' = [call EXCEPT ![c].step = "link", ![c].run = c]
  /\ UNCHANGED <<session, events, inference, usage, abandoned>>

LinkRun(c) ==
  /\ At(c, "link")
  /\ activeRun' = [activeRun EXCEPT ![call[c].session] = call[c].run]
  /\ Goto(c, "append")
  /\ UNCHANGED <<status, runs, events, inference, usage, abandoned>>

Record(kind, run, c) ==
  events' = Append(events, [kind |-> kind, run |-> run, of |-> c])

ReadyToAppend(c) ==
  \/ At(c, "append")
  \/ At(c, "admitted") /\ call[c].op = "send" /\ call[c].run # NoRun

(* The user's message, and the inference nobody waits for. When the insert *)
(* is done but its answer lost, the request fails and starts no inference. *)
AppendMessage(c) ==
  /\ ReadyToAppend(c)
  /\ Record("user", call[c].run, c)
  /\ Return(c)
  /\ \/ /\ inference' = [inference EXCEPT ![c] = [step |-> "load", run |-> call[c].run]]
        /\ UNCHANGED abandoned
     \/ abandoned' = abandoned \cup {c} /\ UNCHANGED inference
  /\ UNCHANGED <<session, runs, usage>>

Transcripts == {"transcript", "empty"}

(* voice.transcribe appends to the run it read, and asks for no answer.    *)
AppendTranscript(c) ==
  /\ At(c, "admitted") /\ call[c].op = "transcribe"
  /\ IF call[c].run = NoRun THEN UNCHANGED events
     ELSE \E kind \in Transcripts : Record(kind, call[c].run, c)
  /\ Return(c)
  /\ UNCHANGED <<session, runs, inference, usage, abandoned>>

(* No database, a statement that fails, too many requests, a blocked agent.*)
CallFails(c) ==
  /\ call[c].step \notin {"none", "returned"}
  /\ Return(c)
  /\ UNCHANGED <<session, runs, events, inference, usage, abandoned>>

-----------------------------------------------------------------------------
(* runAiInference.                                                         *)
On(c, step)      == inference[c].step = step
Becomes(c, step) == inference' = [inference EXCEPT ![c].step = step]
UnderWay(c)      == inference[c].step \notin {"none", "done"}

History(run) == LET OfRun(e) == e.run = run IN SelectSeq(events, OfRun)

(* ORDER BY id ASC LIMIT 2 * MAX_HISTORY, the messages of it, and of these *)
(* the last MAX_HISTORY.                                                   *)
Context(run) ==
  LET h == History(run)
      IsMessage(e) == e.kind \in Messages
      m == SelectSeq(SubSeq(h, 1, IF Len(h) < 2 * MaxHistory THEN Len(h) ELSE 2 * MaxHistory),
                     IsMessage)
  IN  SubSeq(m, IF Len(m) > MaxHistory THEN Len(m) - MaxHistory + 1 ELSE 1, Len(m))

(* An inference that reads no message only leaves a warning in the log.    *)
Load(c) ==
  /\ On(c, "load")
  /\ IF Context(inference[c].run) = <<>>
     THEN Becomes(c, "done") /\ abandoned' = abandoned \cup {c}
     ELSE Becomes(c, "check") /\ UNCHANGED abandoned
  /\ UNCHANGED <<session, runs, events, call, usage>>

(* checkRateLimit; no await separates it from the call of the model.       *)
MayCall == used < Limit

CallsModel(c) == Becomes(c, "model") /\ unlogged' = unlogged \cup {c}

CheckAllows(c) ==
  /\ On(c, "check") /\ MayCall
  /\ CallsModel(c)
  /\ LET together == Cardinality(unlogged') IN
     margin' = IF together > margin THEN together ELSE margin
  /\ UNCHANGED <<session, runs, events, call, used, abandoned>>

(* Mutant of CheckRefuses: the refusal is not told to the user.            *)
CheckRefusesSilently(c) ==
  /\ On(c, "check") /\ ~MayCall
  /\ Becomes(c, "done")
  /\ UNCHANGED <<session, runs, events, call, usage, abandoned>>

CheckRefuses(c) ==
  /\ On(c, "check") /\ ~MayCall
  /\ Becomes(c, "limit")
  /\ UNCHANGED <<session, runs, events, call, usage, abandoned>>

(* checkRateLimit allows when it cannot count.                             *)
CheckFailsOpen(c) ==
  /\ On(c, "check")
  /\ CallsModel(c)
  /\ margin' = margin + 1
  /\ UNCHANGED <<session, runs, events, call, used, abandoned>>

(* callLLM returns, with an answer or without; logUsage is not awaited.    *)
ModelReturns(c) ==
  /\ On(c, "model")
  /\ Becomes(c, "answer") \/ Becomes(c, "error")
  /\ UNCHANGED <<session, runs, events, call, usage, abandoned>>

(* The row lands, or there is none: no usage in the answer, no database.   *)
LogUsage(c) ==
  /\ c \in unlogged /\ ~On(c, "model")
  /\ unlogged' = unlogged \ {c}
  /\ used' = used + 1 \/ UNCHANGED used
  /\ UNCHANGED <<session, runs, events, call, inference, margin, abandoned>>

(* Mutant of AfterReply: an answer that could not be saved is retried.     *)
RetriesReply(c) == IF On(c, "answer") THEN "check" ELSE "done"

AfterReply(c) == IF On(c, "answer") THEN "save" ELSE "done"

(* The insert of the reply; done but its answer lost, it throws.           *)
WriteReply(c) ==
  /\ inference[c].step \in Replies
  /\ Record(inference[c].step, inference[c].run, c)
  /\ Becomes(c, AfterReply(c)) \/ Becomes(c, "failed")
  /\ UNCHANGED <<session, runs, call, usage, abandoned>>

(* agent_runs.stateJson, which no code reads back; then the second opinion *)
(* of shadow inference, appended when the client asked to compare.         *)
SaveState(c) ==
  /\ On(c, "save")
  /\ Becomes(c, "shadow") \/ Becomes(c, "done")
  /\ UNCHANGED <<session, runs, events, call, usage, abandoned>>

EmitShadow(c) ==
  /\ On(c, "shadow")
  /\ Record("shadow", inference[c].run, c) \/ UNCHANGED events
  /\ Becomes(c, "done")
  /\ UNCHANGED <<session, runs, call, usage, abandoned>>

(* A statement throws: the catch clause is next.                           *)
Throw(c) ==
  /\ inference[c].step \in {"load", "check", "save"} \cup Replies
  /\ Becomes(c, "failed")
  /\ UNCHANGED <<session, runs, events, call, usage, abandoned>>

(* Mutant of ReportFailure: the catch clause only logs.                    *)
LogFailure(c) ==
  /\ On(c, "failed")
  /\ Becomes(c, "done")
  /\ UNCHANGED <<session, runs, events, call, usage, abandoned>>

ReportFailure(c) ==
  /\ On(c, "failed")
  /\ Record("error", inference[c].run, c)
  /\ Becomes(c, "done")
  /\ UNCHANGED <<session, runs, call, usage, abandoned>>

(* No database at the start, or the report itself fails: "best effort".    *)
GiveUp(c) ==
  /\ inference[c].step \in {"load", "failed"}
  /\ Becomes(c, "done")
  /\ abandoned' = abandoned \cup {c}
  /\ UNCHANGED <<session, runs, events, call, usage>>

-----------------------------------------------------------------------------
(* The process stops: requests, inferences and pending logs are gone.      *)
Crash ==
  /\ call' = [c \in Calls |-> IF At(c, "none") THEN call[c] ELSE Idle("returned")]
  /\ inference' = [c \in Calls |-> IF UnderWay(c) THEN [inference[c] EXCEPT !.step = "done"]
                                    ELSE inference[c]]
  /\ abandoned' = abandoned \cup {c \in Calls : UnderWay(c)}
  /\ unlogged' = {}
  /\ UNCHANGED <<session, runs, events, used, margin>>

CallStep(c) ==
  \/ Validate(c) \/ MarkExpired(c) \/ Visit(c) \/ Revoke(c) \/ ClearRun(c)
  \/ CreateRun(c) \/ LinkRun(c) \/ AppendMessage(c) \/ AppendTranscript(c)
  \/ CallFails(c)

InferenceStep(c) ==
  \/ Load(c) \/ CheckAllows(c) \/ CheckRefuses(c) \/ CheckFailsOpen(c)
  \/ ModelReturns(c) \/ WriteReply(c) \/ SaveState(c) \/ EmitShadow(c)
  \/ Throw(c) \/ ReportFailure(c) \/ GiveUp(c)

Next ==
  \/ \E s \in Sessions : CreateSession(s) \/ Lapse(s)
  \/ \E c \in Calls :
       \/ \E op \in Ops, s \in Sessions : Request(c, op, s)
       \/ CallStep(c) \/ InferenceStep(c) \/ LogUsage(c)
  \/ Crash

(* The event loop resumes an inference whose statement, or whose call of   *)
(* the model, has been answered; fetch gives up on a silent server.        *)
Fairness == WF_vars(\E c \in Calls : InferenceStep(c))

Spec == Init /\ [][Next]_vars /\ Fairness

-----------------------------------------------------------------------------
TypeOK ==
  /\ status \in [Sessions -> {"none", "active", "lapsed", "revoked", "expired"}]
  /\ activeRun \in [Sessions -> runs \cup {NoRun}]
  /\ runs \subseteq Calls
  /\ events \in Seq(Event)
  /\ call \in [Calls -> CallAt]
  /\ inference \in [Calls -> InferenceAt]
  /\ used \in Nat /\ margin \in Nat
  /\ unlogged \subseteq Calls
  /\ abandoned \subseteq Calls

Holds(i, kinds, c) == events[i].kind \in kinds /\ events[i].of = c

(* Event i is the user's message of request c; event j replies to it, in   *)
(* the run the message is in and after it.                                 *)
IsMessageOf(i, c) == Holds(i, {"user"}, c)
RepliesTo(j, i, c) == Holds(j, Replies, c) /\ i < j /\ events[j].run = events[i].run

Asked(c)    == \E i \in DOMAIN events : IsMessageOf(i, c)
Answered(c) == \E i, j \in DOMAIN events : IsMessageOf(i, c) /\ RepliesTo(j, i, c)

(* "Fire-and-forget AI inference - response comes via poll": whatever fails *)
(* in between, a message the server recorded is answered or excused in its *)
(* own run, is being worked on, or was given up: by a crash, after inserts *)
(* that failed twice, without a database, or for want of a message among   *)
(* the rows read. No other path of the inference ends in silence.          *)
NoSilence ==
  \A c \in Calls : Asked(c) => Answered(c) \/ UnderWay(c) \/ c \in abandoned

(* A message has one answer at most, or one refusal, or one error; an error *)
(* can also follow an answer whose saving failed, and never precedes one.  *)
OneAnswerEach ==
  \A c \in Calls : \A i, j \in DOMAIN events :
    /\ Holds(i, {"answer", "limit"}, c) /\ Holds(j, {"answer", "limit"}, c) => i = j
    /\ Holds(i, {"answer", "limit"}, c) /\ Holds(j, {"error"}, c) => i < j

(* "Enforces per-user daily rate limits": the check counts rows that are   *)
(* written after the calls they stand for. Counting what is not logged yet,*)
(* a user exceeds the limit by less than the calls that were ever in that  *)
(* state together, and by those that a failing check let through.          *)
OvershootIsBounded ==
  used + Cardinality(unlogged) <= (Limit - 1) + margin

(* A request that begins after its session was revoked, or was found       *)
(* expired, is refused, though revocation and expiry overwrite each other. *)
LateRequestsRefused ==
  \A c \in Calls :
    call[c].late /\ call[c].op # "revoke" => call[c].step \in {"validate", "returned"}

(* Every message is in the end answered, excused, or given up on.          *)
MessagesSettle ==
  \A c \in Calls : Asked(c) ~> (Answered(c) \/ c \in abandoned)
=============================================================================
