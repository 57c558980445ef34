-------------------------- MODULE MobileChatProofs --------------------------
(***************************************************************************)
(* The safety of the mobile chat for every set of sessions and requests,   *)
(* every daily limit and every length of history.                          *)
(***************************************************************************)
EXTENDS MobileChat, FiniteSetTheorems, TLAPS

(* A request links and appends to a run that has been inserted, and an     *)
(* inference knows its run.                                                *)
RunsKnown ==
  \A c \in Calls :
    /\ call[c].run \in runs \cup {NoRun}
    /\ call[c].step \in {"link", "append"} => call[c].run \in runs
    /\ ~On(c, "none") => inference[c].run \in Calls

(* The message of a request is recorded when the request returns, and an   *)
(* inference starts from a recorded message of its run.                    *)
MessagesReturned ==
  \A i \in DOMAIN events, c \in Calls : IsMessageOf(i, c) => At(c, "returned")

InferencesStarted ==
  \A c \in Calls : ~On(c, "none") =>
    /\ At(c, "returned")
    /\ \E i \in DOMAIN events : IsMessageOf(i, c) /\ events[i].run = inference[c].run

(* A reply is recorded once the inference is past the point of replying,   *)
(* and an inference is past that point only when it has replied.           *)
Past == {"save", "shadow", "failed", "done"}

RepliesArePast ==
  \A i \in DOMAIN events, c \in Calls : Holds(i, Replies, c) => inference[c].step \in Past

SavedAreAnswered ==
  \A c \in Calls : inference[c].step \in {"save", "shadow"} => Answered(c)

(* A late request waits to be refused by a session that stays closed.      *)
LateSeeClosed ==
  \A c \in Calls :
    call[c].late /\ call[c].op # "revoke"
      => At(c, "validate") /\ Closed(call[c].session)

IInv ==
  /\ TypeOK
  /\ RunsKnown
  /\ MessagesReturned
  /\ InferencesStarted
  /\ RepliesArePast
  /\ SavedAreAnswered
  /\ NoSilence
  /\ OneAnswerEach
  /\ OvershootIsBounded
  /\ LateSeeClosed

-----------------------------------------------------------------------------
LEMMA IdleTyped == \A step \in CallSteps : Idle(step) \in CallAt
  BY CallsAssumption DEF Idle, CallAt, Ops, AnySession

(* What an insert into agent_events does to the table.                     *)
LEMMA AppendGrows ==
  ASSUME events \in Seq(Event), NEW e \in Event, events' = Append(events, e)
  PROVE  /\ events' \in Seq(Event)
         /\ Len(events) \in Nat
         /\ DOMAIN events = 1 .. Len(events)
         /\ DOMAIN events' = 1 .. (Len(events) + 1)
         /\ \A i \in DOMAIN events : events'[i] = events[i]
         /\ events'[Len(events) + 1] = e
  OBVIOUS

(* The row each statement records is a row of agent_events.                *)
LEMMA MessageTyped ==
  ASSUME TypeOK, RunsKnown, NEW c \in Calls, ReadyToAppend(c)
  PROVE  [kind |-> "user", run |-> call[c].run, of |-> c] \in Event
  BY DEF TypeOK, RunsKnown, ReadyToAppend, Event, Messages, At

LEMMA InferenceRowTyped ==
  ASSUME TypeOK, RunsKnown, NEW c \in Calls, ~On(c, "none"),
         NEW kind \in Messages \cup {"error"}
  PROVE  [kind |-> kind, run |-> inference[c].run, of |-> c] \in Event
  BY DEF RunsKnown, Event

LEMMA CallKeepsType ==
  ASSUME TypeOK, RunsKnown, NEW c \in Calls, CallStep(c)
  PROVE  TypeOK'
<1> USE IdleTyped DEF At, Goto, Return, session, usage
<1>t. "returned" \in CallSteps /\ call[c] \in CallAt
  BY DEF CallSteps, TypeOK
<1>1. CASE Validate(c)
  <2>s. call[c].session \in Sessions
    BY <1>t DEF CallAt
  <2>1. activeRun[call[c].session] \in Calls \cup {NoRun}
    BY <2>s DEF TypeOK
  <2>2. call' \in [Calls -> CallAt]
    <3>1. CASE Return(c)
      BY <3>1, <1>t DEF TypeOK
    <3>2. CASE Goto(c, "expire")
      BY <3>2, <1>t DEF TypeOK, CallAt, CallSteps
    <3>3. CASE call' = [call EXCEPT ![c].step = "admitted",
                                    ![c].run = activeRun[call[c].session]]
      <4>1. call' = [call EXCEPT ![c] = [call[c] EXCEPT !.step = "admitted",
                                           !.run = activeRun[call[c].session]]]
        BY <3>3, <1>t DEF TypeOK, CallAt
      <4>2. [call[c] EXCEPT !.step = "admitted", !.run = activeRun[call[c].session]]
              \in CallAt
        BY <1>t, <2>1 DEF CallAt, CallSteps
      <4>3. QED
        BY <4>1, <4>2 DEF TypeOK
    <3>4. QED
      BY <1>1, <3>1, <3>2, <3>3 DEF Validate
  <2>3. QED
    BY <1>1, <2>2 DEF Validate, TypeOK
<1>2. CASE MarkExpired(c)
  BY <1>2, <1>t DEF MarkExpired, TypeOK
<1>3. CASE Visit(c)
  BY <1>3, <1>t DEF Visit, TypeOK
<1>4. CASE Revoke(c)
  BY <1>4, <1>t DEF Revoke, TypeOK
<1>5. CASE ClearRun(c)
  BY <1>5, <1>t DEF ClearRun, TypeOK
<1>6. CASE CreateRun(c)
  BY <1>6, <1>t, ZenonT(60) DEF CreateRun, TypeOK, CallAt, CallSteps
<1>7. CASE LinkRun(c)
  BY <1>7, <1>t DEF LinkRun, TypeOK, RunsKnown, CallAt, CallSteps
<1>8. CASE AppendMessage(c)
  <2>1. events' \in Seq(Event)
    BY <1>8, MessageTyped, AppendGrows DEF AppendMessage, Record, TypeOK
  <2>2. inference' \in [Calls -> InferenceAt]
    BY <1>8, <1>t DEF AppendMessage, TypeOK, InferenceAt, InferenceSteps, CallAt
  <2>3. QED
    BY <1>8, <1>t, <2>1, <2>2 DEF AppendMessage, TypeOK
<1>9. CASE AppendTranscript(c)
  <2>1. events' \in Seq(Event)
    <3>1. CASE call[c].run = NoRun
      BY <1>9, <3>1 DEF AppendTranscript, TypeOK
    <3>2. CASE call[c].run # NoRun
      <4>1. \A kind \in Transcripts : [kind |-> kind, run |-> call[c].run, of |-> c] \in Event
        BY <3>2, <1>t DEF CallAt, Event, Messages, Transcripts
      <4>2. QED
        BY <1>9, <3>2, <4>1, AppendGrows DEF AppendTranscript, Record, TypeOK
    <3>3. QED
      BY <3>1, <3>2
  <2>2. QED
    BY <1>9, <1>t, <2>1 DEF AppendTranscript, TypeOK
<1>10. CASE CallFails(c)
  BY <1>10, <1>t DEF CallFails, TypeOK
<1>11. QED
  BY <1>1, <1>2, <1>3, <1>4, <1>5, <1>6, <1>7, <1>8, <1>9, <1>10 DEF CallStep

LEMMA InferenceKeepsType ==
  ASSUME TypeOK, RunsKnown, NEW c \in Calls, InferenceStep(c)
  PROVE  TypeOK'
<1> USE DEF On, Becomes, session, usage
<1>t. inference[c] \in InferenceAt /\ IsFiniteSet(unlogged)
  BY CallsAssumption, FS_Subset DEF TypeOK
<1>a. ASSUME NEW step \in InferenceSteps
      PROVE  [inference EXCEPT ![c].step = step] \in [Calls -> InferenceAt]
  BY <1>t DEF TypeOK, InferenceAt
<1>1. CASE Load(c)
  BY <1>1, <1>a DEF Load, TypeOK, InferenceSteps
<1>2. CASE CheckAllows(c)
  <2>1. Cardinality(unlogged') \in Nat
    BY <1>2, <1>t, FS_AddElement, FS_CardinalityType DEF CheckAllows, CallsModel
  <2>2. QED
    BY <1>2, <1>a, <2>1 DEF CheckAllows, CallsModel, TypeOK, InferenceSteps
<1>3. CASE CheckRefuses(c)
  BY <1>3, <1>a DEF CheckRefuses, TypeOK, InferenceSteps
<1>4. CASE CheckFailsOpen(c)
  BY <1>4, <1>a DEF CheckFailsOpen, CallsModel, TypeOK, InferenceSteps
<1>5. CASE ModelReturns(c)
  BY <1>5, <1>a DEF ModelReturns, TypeOK, InferenceSteps
<1>6. CASE WriteReply(c)
  <2>1. events' \in Seq(Event)
    <3>1. inference[c].step \in Messages \cup {"error"} /\ ~On(c, "none")
      BY <1>6 DEF WriteReply, Replies, Messages
    <3>2. QED
      BY <1>6, <3>1, InferenceRowTyped, AppendGrows DEF WriteReply, Record, TypeOK
  <2>2. AfterReply(c) \in InferenceSteps /\ "failed" \in InferenceSteps
    BY DEF AfterReply, InferenceSteps
  <2>3. QED
    BY <1>6, <1>a, <2>1, <2>2 DEF WriteReply, TypeOK
<1>7. CASE SaveState(c)
  BY <1>7, <1>a DEF SaveState, TypeOK, InferenceSteps
<1>8. CASE EmitShadow(c)
  <2>1. events' \in Seq(Event)
    <3>1. ~On(c, "none") /\ "shadow" \in Messages \cup {"error"}
      BY <1>8 DEF EmitShadow, Messages
    <3>2. QED
      BY <1>8, <3>1, InferenceRowTyped, AppendGrows DEF EmitShadow, Record, TypeOK
  <2>2. QED
    BY <1>8, <1>a, <2>1 DEF EmitShadow, TypeOK, InferenceSteps
<1>9. CASE Throw(c)
  BY <1>9, <1>a DEF Throw, TypeOK, InferenceSteps
<1>10. CASE ReportFailure(c)
  <2>1. events' \in Seq(Event)
    <3>1. ~On(c, "none") /\ "error" \in Messages \cup {"error"}
      BY <1>10 DEF ReportFailure
    <3>2. QED
      BY <1>10, <3>1, InferenceRowTyped, AppendGrows DEF ReportFailure, Record, TypeOK
  <2>2. QED
    BY <1>10, <1>a, <2>1 DEF ReportFailure, TypeOK, InferenceSteps
<1>11. CASE GiveUp(c)
  BY <1>11, <1>a DEF GiveUp, TypeOK, InferenceSteps
<1>12. QED
  BY <1>1, <1>2, <1>3, <1>4, <1>5, <1>6, <1>7, <1>8, <1>9, <1>10, <1>11 DEF InferenceStep

LEMMA OthersKeepType ==
  ASSUME TypeOK, RunsKnown,
         \/ \E s \in Sessions : CreateSession(s) \/ Lapse(s)
         \/ \E c \in Calls : LogUsage(c) \/ \E op \in Ops, s \in Sessions : Request(c, op, s)
         \/ Crash
         \/ UNCHANGED vars
  PROVE  TypeOK'
<1> USE DEF session, usage
<1>1. CASE \E s \in Sessions : CreateSession(s) \/ Lapse(s)
  BY <1>1 DEF CreateSession, Lapse, TypeOK
<1>2. ASSUME NEW c \in Calls, LogUsage(c)
      PROVE  TypeOK'
  BY <1>2 DEF LogUsage, TypeOK
<1>3. ASSUME NEW c \in Calls, NEW op \in Ops, NEW s \in Sessions, Request(c, op, s)
      PROVE  TypeOK'
  <2>1. [op |-> op, step |-> IF op = "revoke" THEN "revoke" ELSE "validate",
         session |-> s, run |-> NoRun, late |-> Closed(s)] \in CallAt
    BY DEF CallAt, CallSteps, Closed
  <2>2. QED
    BY <1>3, <2>1 DEF Request, TypeOK
<1>4. CASE Crash
  <2>1. call' \in [Calls -> CallAt]
    BY <1>4, IdleTyped DEF Crash, TypeOK, CallSteps
  <2>2. inference' \in [Calls -> InferenceAt]
    BY <1>4 DEF Crash, TypeOK, InferenceAt, InferenceSteps
  <2>3. QED
    BY <1>4, <2>1, <2>2 DEF Crash, TypeOK
<1>5. CASE UNCHANGED vars
  BY <1>5 DEF vars, TypeOK
<1>6. QED
  BY <1>1, <1>2, <1>3, <1>4, <1>5

LEMMA NextKeepsType ==
  ASSUME TypeOK, RunsKnown, [Next]_vars
  PROVE  TypeOK'
  BY CallKeepsType, InferenceKeepsType, OthersKeepType DEF Next

-----------------------------------------------------------------------------
(* How a step moves one request or one inference.                          *)
LEMMA CallMoves ==
  ASSUME TypeOK, NEW c \in Calls, CallStep(c)
  PROVE  /\ ~At(c, "none") /\ ~At(c, "returned")
         /\ \A d \in Calls \ {c} : call'[d] = call[d]
         /\ call'[c] = Idle("returned") \/ call'[c].step \in {"expire", "admitted", "link", "append"}
         /\ ~AppendMessage(c) => inference' = inference /\ abandoned' = abandoned
         /\ UNCHANGED usage
<1>t. call[c] \in CallAt
  BY DEF TypeOK
<1> QED
  BY <1>t DEF TypeOK, CallAt, CallStep, Validate, MarkExpired, Visit, Revoke, ClearRun, CreateRun, LinkRun,
     AppendMessage, AppendTranscript, CallFails, At, Goto, Return, ReadyToAppend

LEMMA InferenceMoves ==
  ASSUME TypeOK, NEW c \in Calls, InferenceStep(c)
  PROVE  /\ UnderWay(c)
         /\ \A d \in Calls \ {c} : inference'[d] = inference[d]
         /\ inference'[c].run = inference[c].run
         /\ inference'[c].step # "none"
         /\ UNCHANGED <<session, runs, call>>
         /\ inference[c].step \in Past => inference'[c].step \in Past
         /\ ~GiveUp(c) /\ ~Load(c) => UNCHANGED abandoned
<1>t. inference[c] \in InferenceAt
  BY DEF TypeOK
<1> QED
  BY <1>t DEF TypeOK, InferenceAt, InferenceStep, Load, CheckAllows, CallsModel,
     CheckRefuses, CheckFailsOpen, ModelReturns, WriteReply, AfterReply, SaveState,
     EmitShadow, Throw, ReportFailure, GiveUp, On, Becomes, UnderWay, Past, Replies,
     Messages

(* Rows stay, and a step inserts at most one, after the others: the user's *)
(* message, a transcript, a shadow, or a reply of the inference.           *)
Row(kind, run, c) == [kind |-> kind, run |-> run, of |-> c]

Inserts(c, e) ==
  \/ AppendMessage(c) /\ e = Row("user", call[c].run, c)
  \/ AppendTranscript(c) /\ \E kind \in Transcripts : e = Row(kind, call[c].run, c)
  \/ EmitShadow(c) /\ e = Row("shadow", inference[c].run, c)
  \/ WriteReply(c) /\ e = Row(inference[c].step, inference[c].run, c)
  \/ ReportFailure(c) /\ e = Row("error", inference[c].run, c)

LEMMA RowsAppended ==
  ASSUME TypeOK, RunsKnown, [Next]_vars
  PROVE  \/ events' = events
         \/ \E c \in Calls, e \in Event : Inserts(c, e) /\ events' = Append(events, e)
<1> USE DEF Inserts, Row, Record
<1>1. ASSUME NEW c \in Calls, CallStep(c)
      PROVE  events' = events \/ \E e \in Event : Inserts(c, e) /\ events' = Append(events, e)
  <2>1. CASE AppendMessage(c)
    BY <2>1, MessageTyped DEF AppendMessage
  <2>2. CASE AppendTranscript(c)
    <3>1. \A kind \in Transcripts : call[c].run # NoRun => Row(kind, call[c].run, c) \in Event
      BY DEF TypeOK, CallAt, Event, Messages, Transcripts
    <3>2. QED
      BY <2>2, <3>1 DEF AppendTranscript
  <2>3. QED
    BY <1>1, <2>1, <2>2 DEF CallStep, Validate, MarkExpired, Visit, Revoke, ClearRun,
       CreateRun, LinkRun, CallFails
<1>2. ASSUME NEW c \in Calls, InferenceStep(c)
      PROVE  events' = events \/ \E e \in Event : Inserts(c, e) /\ events' = Append(events, e)
  <2>1. CASE WriteReply(c)
    <3>1. inference[c].step \in Messages \cup {"error"} /\ ~On(c, "none")
      BY <2>1 DEF WriteReply, Replies, Messages, On
    <3>2. QED
      BY <2>1, <3>1, InferenceRowTyped DEF WriteReply
  <2>2. CASE EmitShadow(c)
    <3>1. ~On(c, "none") /\ "shadow" \in Messages
      BY <2>2 DEF EmitShadow, On, Messages
    <3>2. QED
      BY <2>2, <3>1, InferenceRowTyped DEF EmitShadow
  <2>3. CASE ReportFailure(c)
    <3>1. ~On(c, "none")
      BY <2>3 DEF ReportFailure, On
    <3>2. QED
      BY <2>3, <3>1, InferenceRowTyped DEF ReportFailure
  <2>4. QED
    BY <1>2, <2>1, <2>2, <2>3 DEF InferenceStep, Load, CheckAllows, CheckRefuses,
       CheckFailsOpen, ModelReturns, SaveState, Throw, GiveUp
<1>3. ASSUME ~\E c \in Calls : CallStep(c) \/ InferenceStep(c)
      PROVE  events' = events
  BY <1>3 DEF Next, vars, CreateSession, Lapse, Request, LogUsage, Crash
<1>4. QED
  BY <1>1, <1>2, <1>3

LEMMA RowsKept ==
  ASSUME TypeOK, RunsKnown, [Next]_vars
  PROVE  /\ \A i \in DOMAIN events : i \in DOMAIN events' /\ events'[i] = events[i]
         /\ \A j \in DOMAIN events' : j \in DOMAIN events \/
              /\ \A i \in DOMAIN events : i < j
              /\ \E c \in Calls, e \in Event : Inserts(c, e) /\ events'[j] = e
<1>1. CASE events' = events
  BY <1>1
<1>2. CASE events' # events
  <2>1. PICK c \in Calls, e \in Event : Inserts(c, e) /\ events' = Append(events, e)
    BY <1>2, RowsAppended
  <2>2. /\ Len(events) \in Nat
        /\ DOMAIN events = 1 .. Len(events)
        /\ DOMAIN events' = 1 .. (Len(events) + 1)
        /\ \A i \in DOMAIN events : events'[i] = events[i]
        /\ events'[Len(events) + 1] = e
    BY <2>1, AppendGrows DEF TypeOK
  <2>3. ASSUME NEW j \in DOMAIN events', j \notin DOMAIN events
        PROVE  events'[j] = e /\ \A i \in DOMAIN events : i < j
    <3>1. j = Len(events) + 1
      BY <2>2, <2>3
    <3>2. QED
      BY <2>2, <3>1
  <2>4. \A i \in DOMAIN events : i \in DOMAIN events'
    BY <2>2
  <2>5. QED
    BY <2>1, <2>2, <2>3, <2>4
<1>3. QED
  BY <1>1, <1>2

LEMMA OneNewRow ==
  ASSUME TypeOK, RunsKnown, [Next]_vars,
         NEW i \in DOMAIN events', NEW j \in DOMAIN events',
         i \notin DOMAIN events, j \notin DOMAIN events
  PROVE  i = j
<1>1. PICK c \in Calls, e \in Event : events' = Append(events, e)
  BY RowsAppended
<1>2. /\ Len(events) \in Nat
      /\ DOMAIN events = 1 .. Len(events)
      /\ DOMAIN events' = 1 .. (Len(events) + 1)
  BY <1>1, AppendGrows DEF TypeOK
<1>3. QED
  BY <1>2

(* What has been asked or answered stays so.                               *)
LEMMA AnswersKept ==
  ASSUME TypeOK, RunsKnown, [Next]_vars, NEW c \in Calls
  PROVE  Answered(c) => Answered(c)'
<1> SUFFICES ASSUME Answered(c) PROVE Answered(c)'
  OBVIOUS
<1>1. PICK i \in DOMAIN events, j \in DOMAIN events : IsMessageOf(i, c) /\ RepliesTo(j, i, c)
  BY DEF Answered
<1>2. /\ i \in DOMAIN events' /\ events'[i] = events[i]
      /\ j \in DOMAIN events' /\ events'[j] = events[j]
  BY RowsKept
<1>3. QED
  BY <1>1, <1>2 DEF Answered, IsMessageOf, RepliesTo, Holds

-----------------------------------------------------------------------------
(* The steps that are neither of a request under way nor of an inference.  *)
Elsewhere ==
  \/ \E s \in Sessions : CreateSession(s) \/ Lapse(s)
  \/ \E c \in Calls : LogUsage(c)
  \/ UNCHANGED vars

LEMMA Steps ==
  ASSUME [Next]_vars
  PROVE  \/ \E c \in Calls : CallStep(c)
         \/ \E c \in Calls : InferenceStep(c)
         \/ \E c \in Calls, op \in Ops, s \in Sessions : Request(c, op, s)
         \/ Crash
         \/ Elsewhere
  BY DEF Next, Elsewhere

LEMMA ElsewhereKeeps ==
  ASSUME Elsewhere
  PROVE  UNCHANGED <<activeRun, runs, events, call, inference, abandoned>>
  BY DEF Elsewhere, CreateSession, Lapse, LogUsage, session, usage, vars

LEMMA KeepsRunsKnown ==
  ASSUME TypeOK, RunsKnown, [Next]_vars
  PROVE  RunsKnown'
<1> USE DEF On
<1>1. ASSUME NEW c \in Calls, CallStep(c)
      PROVE  RunsKnown'
  <2> USE DEF At, Goto, Return, session, Idle
  <2>t. call[c] \in CallAt /\ runs \subseteq Calls
    BY DEF TypeOK
  <2>1. runs \subseteq runs'
    BY <1>1 DEF CallStep, Validate, MarkExpired, Visit, Revoke, ClearRun, CreateRun,
       LinkRun, AppendMessage, AppendTranscript, CallFails
  <2>2. call'[c].run \in runs' \cup {NoRun}
        /\ (call'[c].step \in {"link", "append"} => call'[c].run \in runs')
    <3>1. CASE Validate(c)
      <4>1. activeRun[call[c].session] \in runs \cup {NoRun}
        BY <2>t DEF TypeOK, CallAt
      <4>2. QED
        BY <3>1, <4>1, <2>t DEF Validate, TypeOK, CallAt, RunsKnown
    <3>2. CASE CreateRun(c)
      BY <3>2, <2>t DEF CreateRun, TypeOK, CallAt
    <3>3. CASE LinkRun(c)
      BY <3>3, <2>t DEF LinkRun, TypeOK, CallAt, RunsKnown
    <3>4. CASE ~Validate(c) /\ ~CreateRun(c) /\ ~LinkRun(c)
      BY <1>1, <3>4, <2>t DEF CallStep, MarkExpired, Visit, Revoke, ClearRun,
         AppendMessage, AppendTranscript, CallFails, TypeOK
    <3>5. QED
      BY <3>1, <3>2, <3>3, <3>4
  <2>3. ASSUME NEW d \in Calls
        PROVE  inference'[d].step # "none" => inference'[d].run \in Calls
    <3>1. CASE AppendMessage(c)
      <4>1. call[c].run \in Calls
        BY <3>1, <2>t DEF AppendMessage, ReadyToAppend, RunsKnown, CallAt
      <4>2. QED
        BY <3>1, <4>1 DEF AppendMessage, TypeOK, RunsKnown
    <3>2. CASE ~AppendMessage(c)
      BY <1>1, <3>2, CallMoves DEF RunsKnown
    <3>3. QED
      BY <3>1, <3>2
  <2>4. \A d \in Calls \ {c} : call'[d] = call[d]
    BY <1>1, CallMoves
  <2>5. QED
    BY <2>1, <2>2, <2>3, <2>4 DEF RunsKnown
<1>2. ASSUME NEW c \in Calls, InferenceStep(c)
      PROVE  RunsKnown'
  BY <1>2, InferenceMoves DEF RunsKnown, UnderWay
<1>3. ASSUME NEW c \in Calls, NEW op \in Ops, NEW s \in Sessions, Request(c, op, s)
      PROVE  RunsKnown'
  BY <1>3 DEF Request, RunsKnown, TypeOK, session
<1>4. CASE Crash
  BY <1>4 DEF Crash, RunsKnown, TypeOK, Idle, UnderWay, session, InferenceAt
<1>5. CASE Elsewhere
  BY <1>5, ElsewhereKeeps DEF RunsKnown
<1>6. QED
  BY <1>1, <1>2, <1>3, <1>4, <1>5, Steps

(* A request that has returned stays so.                                   *)
LEMMA ReturnedStays ==
  ASSUME TypeOK, [Next]_vars, NEW c \in Calls, At(c, "returned")
  PROVE  At(c, "returned")'
<1> USE DEF At
<1>1. ASSUME NEW d \in Calls, CallStep(d)
      PROVE  At(c, "returned")'
  BY <1>1, CallMoves
<1>2. ASSUME NEW d \in Calls, InferenceStep(d)
      PROVE  At(c, "returned")'
  BY <1>2, InferenceMoves
<1>3. ASSUME NEW d \in Calls, NEW op \in Ops, NEW s \in Sessions, Request(d, op, s)
      PROVE  At(c, "returned")'
  BY <1>3 DEF Request, TypeOK
<1>4. CASE Crash
  BY <1>4 DEF Crash, Idle
<1>5. CASE Elsewhere
  BY <1>5, ElsewhereKeeps
<1>6. QED
  BY <1>1, <1>2, <1>3, <1>4, <1>5, Steps

LEMMA KeepsMessagesReturned ==
  ASSUME TypeOK, RunsKnown, MessagesReturned, [Next]_vars
  PROVE  MessagesReturned'
<1> SUFFICES ASSUME NEW j \in DOMAIN events', NEW c \in Calls,
                    events'[j].kind = "user", events'[j].of = c
             PROVE  At(c, "returned")'
  BY DEF MessagesReturned, IsMessageOf, Holds
<1>1. CASE j \in DOMAIN events
  <2>1. IsMessageOf(j, c)
    BY <1>1, RowsKept DEF IsMessageOf, Holds
  <2>2. QED
    BY <1>1, <2>1, ReturnedStays DEF MessagesReturned
<1>2. CASE j \notin DOMAIN events
  <2>1. PICK d \in Calls, e \in Event : Inserts(d, e) /\ events'[j] = e
    BY <1>2, RowsKept
  <2>2. d = c /\ AppendMessage(c)
    BY <2>1 DEF Inserts, Row, Transcripts, WriteReply, Replies
  <2>3. QED
    BY <2>2 DEF AppendMessage, Return, TypeOK, At, Idle
<1>3. QED
  BY <1>1, <1>2

(* The request whose message is being recorded has no inference yet.       *)
LEMMA NotStartedBefore ==
  ASSUME InferencesStarted, RepliesArePast, NEW c \in Calls, AppendMessage(c)
  PROVE  On(c, "none") /\ \A i \in DOMAIN events : ~Holds(i, Replies, c)
<1>1. ~At(c, "returned")
  BY DEF AppendMessage, ReadyToAppend, At
<1>2. On(c, "none")
  BY <1>1 DEF InferencesStarted
<1>3. QED
  BY <1>2 DEF RepliesArePast, On, Past

LEMMA KeepsInferencesStarted ==
  ASSUME TypeOK, RunsKnown, InferencesStarted, [Next]_vars
  PROVE  InferencesStarted'
<1> SUFFICES ASSUME NEW c \in Calls, inference'[c].step # "none"
             PROVE  /\ At(c, "returned")'
                    /\ \E i \in DOMAIN events' :
                         /\ events'[i].kind = "user" /\ events'[i].of = c
                         /\ events'[i].run = inference'[c].run
  BY DEF InferencesStarted, IsMessageOf, Holds, On
<1>1. CASE AppendMessage(c) /\ On(c, "none")
  <2>1. inference' = [inference EXCEPT ![c] = [step |-> "load", run |-> call[c].run]]
    BY <1>1 DEF AppendMessage, On
  <2>2. inference'[c].run = call[c].run
    BY <2>1 DEF TypeOK
  <2>3. Row("user", call[c].run, c) \in Event
    BY <1>1, MessageTyped DEF Row, AppendMessage
  <2>4. events' = Append(events, Row("user", call[c].run, c))
    BY <1>1 DEF AppendMessage, Record, Row
  <2>5. Len(events) + 1 \in DOMAIN events' /\ events'[Len(events) + 1] = Row("user", call[c].run, c)
    BY <2>3, <2>4, AppendGrows DEF TypeOK
  <2>6. At(c, "returned")'
    BY <1>1 DEF AppendMessage, Return, TypeOK, At, Idle
  <2>7. QED
    BY <2>2, <2>5, <2>6 DEF Row
<1>2. CASE ~On(c, "none")
  <2>1. At(c, "returned")
    BY <1>2 DEF InferencesStarted
  <2>2. PICK i \in DOMAIN events : IsMessageOf(i, c) /\ events[i].run = inference[c].run
    BY <1>2 DEF InferencesStarted
  <2>3. i \in DOMAIN events' /\ events'[i] = events[i]
    BY RowsKept
  <2>4. inference'[c].run = inference[c].run
    <3>1. ASSUME NEW d \in Calls, CallStep(d)
          PROVE  inference'[c].run = inference[c].run
      <4>1. d # c
        BY <2>1, <3>1, CallMoves
      <4>2. QED
        BY <3>1, <4>1, CallMoves DEF AppendMessage, TypeOK
    <3>2. ASSUME NEW d \in Calls, InferenceStep(d)
          PROVE  inference'[c].run = inference[c].run
      BY <3>2, InferenceMoves
    <3>3. CASE Crash
      BY <3>3 DEF Crash, TypeOK, InferenceAt
    <3>4. ASSUME NEW d \in Calls, NEW op \in Ops, NEW s \in Sessions, Request(d, op, s)
          PROVE  inference'[c].run = inference[c].run
      BY <3>4 DEF Request
    <3>5. QED
      BY <3>1, <3>2, <3>3, <3>4, Steps, ElsewhereKeeps
  <2>5. QED
    BY <2>1, <2>2, <2>3, <2>4, ReturnedStays DEF IsMessageOf, Holds
<1>3. CASE On(c, "none") /\ ~AppendMessage(c)
  <2>1. ASSUME NEW d \in Calls, CallStep(d)
        PROVE  inference'[c].step = "none"
    <3>1. CASE d = c
      BY <1>3, <2>1, <3>1, CallMoves DEF On
    <3>2. CASE d # c
      BY <1>3, <2>1, <3>2, CallMoves DEF On, AppendMessage, TypeOK
    <3>3. QED
      BY <3>1, <3>2
  <2>2. ASSUME NEW d \in Calls, InferenceStep(d)
        PROVE  inference'[c].step = "none"
    BY <1>3, <2>2, InferenceMoves DEF On, UnderWay
  <2>3. CASE Crash
    BY <1>3, <2>3 DEF Crash, On, UnderWay
  <2>4. ASSUME NEW d \in Calls, NEW op \in Ops, NEW s \in Sessions, Request(d, op, s)
        PROVE  inference'[c].step = "none"
    BY <1>3, <2>4 DEF Request, On
  <2>5. QED
    BY <1>3, <2>1, <2>2, <2>3, <2>4, Steps, ElsewhereKeeps DEF On
<1>4. QED
  BY <1>1, <1>2, <1>3

(* Past the point of replying there is no way back.                        *)
LEMMA PastStays ==
  ASSUME TypeOK, InferencesStarted, RepliesArePast, [Next]_vars,
         NEW c \in Calls, inference[c].step \in Past
  PROVE  inference'[c].step \in Past
<1>1. ASSUME NEW d \in Calls, CallStep(d)
      PROVE  inference'[c].step \in Past
  <2>1. d = c => ~AppendMessage(d)
    BY NotStartedBefore DEF On, Past
  <2>2. QED
    BY <1>1, <2>1, CallMoves DEF AppendMessage, TypeOK
<1>2. ASSUME NEW d \in Calls, InferenceStep(d)
      PROVE  inference'[c].step \in Past
  BY <1>2, InferenceMoves
<1>3. ASSUME NEW d \in Calls, NEW op \in Ops, NEW s \in Sessions, Request(d, op, s)
      PROVE  inference'[c].step \in Past
  BY <1>3 DEF Request
<1>4. CASE Crash
  BY <1>4 DEF Crash, UnderWay, Past, TypeOK, InferenceAt
<1>5. QED
  BY <1>1, <1>2, <1>3, <1>4, Steps, ElsewhereKeeps

(* A recorded reply leaves its inference past that point.                  *)
LEMMA ReplyingIsPast ==
  ASSUME TypeOK, NEW c \in Calls, WriteReply(c) \/ ReportFailure(c)
  PROVE  inference'[c].step \in Past
  BY DEF WriteReply, ReportFailure, AfterReply, Becomes, Past, TypeOK, InferenceAt, On

LEMMA KeepsRepliesArePast ==
  ASSUME TypeOK, RunsKnown, InferencesStarted, RepliesArePast, [Next]_vars
  PROVE  RepliesArePast'
<1> SUFFICES ASSUME NEW j \in DOMAIN events', NEW c \in Calls,
                    events'[j].kind \in Replies, events'[j].of = c
             PROVE  inference'[c].step \in Past
  BY DEF RepliesArePast, Holds
<1>1. CASE j \in DOMAIN events
  <2>1. Holds(j, Replies, c)
    BY <1>1, RowsKept DEF Holds
  <2>2. QED
    BY <1>1, <2>1, PastStays DEF RepliesArePast
<1>2. CASE j \notin DOMAIN events
  <2>1. PICK d \in Calls, e \in Event : Inserts(d, e) /\ events'[j] = e
    BY <1>2, RowsKept
  <2>2. d = c /\ (WriteReply(c) \/ ReportFailure(c))
    BY <2>1 DEF Inserts, Row, Transcripts, Replies
  <2>3. QED
    BY <2>2, ReplyingIsPast
<1>3. QED
  BY <1>1, <1>2

(* Recording a reply answers the message: it comes after it, in its run.   *)
LEMMA ReplyAnswers ==
  ASSUME TypeOK, RunsKnown, InferencesStarted, [Next]_vars, NEW c \in Calls,
         WriteReply(c) \/ ReportFailure(c)
  PROVE  Answered(c)'
<1>1. PICK kind \in Replies : /\ events' = Append(events, Row(kind, inference[c].run, c))
                              /\ ~On(c, "none")
  BY DEF WriteReply, ReportFailure, Record, Row, Replies, On
<1>2. kind \in Messages \cup {"error"}
  BY <1>1 DEF Replies, Messages
<1>3. Row(kind, inference[c].run, c) \in Event
  BY <1>1, <1>2, InferenceRowTyped DEF Row
<1>4. PICK i \in DOMAIN events : IsMessageOf(i, c) /\ events[i].run = inference[c].run
  BY <1>1 DEF InferencesStarted
<1>5. /\ i \in DOMAIN events' /\ events'[i] = events[i] /\ i < Len(events) + 1
      /\ Len(events) + 1 \in DOMAIN events'
      /\ events'[Len(events) + 1] = Row(kind, inference[c].run, c)
  BY <1>1, <1>3, AppendGrows DEF TypeOK
<1>6. QED
  BY <1>1, <1>4, <1>5 DEF Answered, IsMessageOf, RepliesTo, Holds, Row

LEMMA KeepsSavedAreAnswered ==
  ASSUME TypeOK, RunsKnown, InferencesStarted, RepliesArePast, SavedAreAnswered, [Next]_vars
  PROVE  SavedAreAnswered'
<1> SUFFICES ASSUME NEW c \in Calls, inference'[c].step \in {"save", "shadow"}
             PROVE  Answered(c)'
  BY DEF SavedAreAnswered
<1>1. CASE inference[c].step \in {"save", "shadow"}
  BY <1>1, AnswersKept DEF SavedAreAnswered
<1>2. CASE inference[c].step \notin {"save", "shadow"}
  <2>1. WriteReply(c)
    <3>1. ASSUME NEW d \in Calls, CallStep(d)
          PROVE  FALSE
      BY <1>2, <3>1, CallMoves DEF AppendMessage, TypeOK
    <3>2. ASSUME NEW d \in Calls, InferenceStep(d)
          PROVE  WriteReply(c)
      <4>1. d = c
        BY <1>2, <3>2, InferenceMoves
      <4>2. QED
        BY <1>2, <3>2, <4>1 DEF InferenceStep, Load, CheckAllows, CallsModel, CheckRefuses,
           CheckFailsOpen, ModelReturns, SaveState, EmitShadow, Throw, ReportFailure,
           GiveUp, Becomes, On, TypeOK, InferenceAt
    <3>3. ASSUME NEW d \in Calls, NEW op \in Ops, NEW s \in Sessions, Request(d, op, s)
          PROVE  FALSE
      BY <1>2, <3>3 DEF Request
    <3>4. CASE Crash
      BY <1>2, <3>4 DEF Crash, UnderWay, TypeOK, InferenceAt
    <3>5. QED
      BY <1>2, <3>1, <3>2, <3>3, <3>4, Steps, ElsewhereKeeps
  <2>2. QED
    BY <2>1, ReplyAnswers
<1>3. QED
  BY <1>1, <1>2

LEMMA KeepsNoSilence ==
  ASSUME TypeOK, RunsKnown, InferencesStarted, RepliesArePast, SavedAreAnswered,
         NoSilence, [Next]_vars
  PROVE  NoSilence'
<1> SUFFICES ASSUME NEW c \in Calls, Asked(c)', ~Answered(c)'
             PROVE  UnderWay(c)' \/ c \in abandoned'
  BY DEF NoSilence
<1>n. ~Answered(c)
  BY AnswersKept
<1>1. CASE AppendMessage(c)
  BY <1>1 DEF AppendMessage, UnderWay, TypeOK
<1>2. CASE ~AppendMessage(c)
  <2>1. Asked(c)
    <3>1. PICK j \in DOMAIN events' : events'[j].kind = "user" /\ events'[j].of = c
      BY DEF Asked, IsMessageOf, Holds
    <3>2. CASE j \in DOMAIN events
      BY <3>1, <3>2, RowsKept DEF Asked, IsMessageOf, Holds
    <3>3. CASE j \notin DOMAIN events
      <4>1. PICK d \in Calls, e \in Event : Inserts(d, e) /\ events'[j] = e
        BY <3>3, RowsKept
      <4>2. QED
        BY <1>2, <3>1, <4>1 DEF Inserts, Row, Transcripts, WriteReply, Replies
    <3>4. QED
      BY <3>2, <3>3
  <2>2. UnderWay(c) \/ c \in abandoned
    BY <2>1, <1>n DEF NoSilence
  <2>3. inference[c].step \notin {"save", "shadow"}
    BY <1>n DEF SavedAreAnswered
  <2>4. ASSUME NEW d \in Calls, CallStep(d)
        PROVE  UnderWay(c)' \/ c \in abandoned'
    <3>1. CASE AppendMessage(d)
      BY <1>2, <2>2, <3>1 DEF AppendMessage, UnderWay, TypeOK
    <3>2. CASE ~AppendMessage(d)
      BY <2>2, <2>4, <3>2, CallMoves DEF UnderWay
    <3>3. QED
      BY <3>1, <3>2
  <2>5. ASSUME NEW d \in Calls, InferenceStep(d)
        PROVE  UnderWay(c)' \/ c \in abandoned'
    <3>1. abandoned \subseteq abandoned'
      BY <2>5, InferenceMoves DEF GiveUp, Load
    <3>2. CASE d # c
      BY <2>2, <2>5, <3>1, <3>2, InferenceMoves DEF UnderWay
    <3>3. CASE d = c
      <4>1. ~WriteReply(c) /\ ~ReportFailure(c)
        BY ReplyAnswers
      <4>2. QED
        BY <2>3, <2>5, <3>3, <4>1 DEF InferenceStep, Load, CheckAllows, CallsModel,
           CheckRefuses, CheckFailsOpen, ModelReturns, SaveState, EmitShadow, Throw,
           GiveUp, Becomes, On, UnderWay, TypeOK, InferenceAt
    <3>4. QED
      BY <3>2, <3>3
  <2>6. ASSUME NEW d \in Calls, NEW op \in Ops, NEW s \in Sessions, Request(d, op, s)
        PROVE  UnderWay(c)' \/ c \in abandoned'
    BY <2>2, <2>6 DEF Request, UnderWay
  <2>7. CASE Crash
    BY <2>2, <2>7 DEF Crash, UnderWay
  <2>8. CASE Elsewhere
    BY <2>2, <2>8, ElsewhereKeeps DEF UnderWay
  <2>9. QED
    BY <2>4, <2>5, <2>6, <2>7, <2>8, Steps
<1>3. QED
  BY <1>1, <1>2

(* An answer is recorded only when there is no reply at all yet, and goes  *)
(* after every row; so does an error, whatever there is already.           *)
LEMMA KeepsOneAnswerEach ==
  ASSUME TypeOK, RunsKnown, InferencesStarted, RepliesArePast, OneAnswerEach, [Next]_vars
  PROVE  OneAnswerEach'
<1> DEFINE Final(k) == k \in {"answer", "limit"}
<1>1. ASSUME NEW j \in DOMAIN events', j \notin DOMAIN events, NEW c \in Calls,
             events'[j].of = c, Final(events'[j].kind)
      PROVE  \A i \in DOMAIN events' :
               i # j => ~(events'[i].kind \in Replies /\ events'[i].of = c)
  <2>1. PICK d \in Calls, e \in Event : Inserts(d, e) /\ events'[j] = e
    BY <1>1, RowsKept
  <2>2. WriteReply(c)
    BY <1>1, <2>1 DEF Inserts, Row, Transcripts
  <2>3. inference[c].step \notin Past
    BY <2>2 DEF WriteReply, Replies, Past
  <2>4. ASSUME NEW i \in DOMAIN events
        PROVE  ~(events'[i].kind \in Replies /\ events'[i].of = c)
    BY <2>3, <2>4, RowsKept DEF RepliesArePast, Holds
  <2>5. ASSUME NEW i \in DOMAIN events', i \notin DOMAIN events
        PROVE  i = j
    BY <1>1, <2>5, OneNewRow
  <2>6. QED
    BY <2>4, <2>5
<1>2. ASSUME NEW c \in Calls, NEW i \in DOMAIN events', NEW j \in DOMAIN events',
             Final(events'[i].kind), events'[i].of = c, events'[j].of = c
      PROVE  /\ Final(events'[j].kind) => i = j
             /\ events'[j].kind = "error" => i < j
  <2>1. CASE i \in DOMAIN events /\ j \in DOMAIN events
    BY <1>2, <2>1, RowsKept DEF OneAnswerEach, Holds
  <2>2. CASE i \notin DOMAIN events
    BY <1>1, <1>2, <2>2 DEF Replies
  <2>3. CASE i \in DOMAIN events /\ j \notin DOMAIN events
    <3>1. i < j
      BY <2>3, RowsKept
    <3>2. ~Final(events'[j].kind)
      BY <1>1, <1>2, <2>3, <3>1 DEF Replies
    <3>3. QED
      BY <3>1, <3>2
  <2>4. QED
    BY <2>1, <2>2, <2>3
<1>3. QED
  BY <1>2 DEF OneAnswerEach, Holds

-----------------------------------------------------------------------------
LEMMA KeepsOvershoot ==
  ASSUME TypeOK, OvershootIsBounded, [Next]_vars
  PROVE  OvershootIsBounded'
<1> DEFINE n == Cardinality(unlogged)
<1>t. /\ IsFiniteSet(unlogged) /\ n \in Nat
      /\ used \in Nat /\ margin \in Nat /\ Limit \in Nat \ {0}
  BY CallsAssumption, LimitAssumption, FS_Subset, FS_CardinalityType DEF TypeOK
<1>u. used + n <= (Limit - 1) + margin
  BY DEF OvershootIsBounded
<1>1. ASSUME NEW c \in Calls, CheckAllows(c)
      PROVE  OvershootIsBounded'
  <2>1. Cardinality(unlogged') \in Nat
    BY <1>1, <1>t, FS_AddElement, FS_CardinalityType DEF CheckAllows, CallsModel
  <2>2. Cardinality(unlogged') <= margin' /\ margin' \in Nat
    BY <1>1, <1>t, <2>1 DEF CheckAllows
  <2>3. used' = used /\ used <= Limit - 1
    BY <1>1, <1>t DEF CheckAllows, MayCall
  <2>4. QED
    BY <1>t, <2>1, <2>2, <2>3 DEF OvershootIsBounded
<1>2. ASSUME NEW c \in Calls, CheckFailsOpen(c)
      PROVE  OvershootIsBounded'
  <2>1. Cardinality(unlogged') \in Nat /\ Cardinality(unlogged') <= n + 1
    <3>1. unlogged' = unlogged \cup {c}
      BY <1>2 DEF CheckFailsOpen, CallsModel
    <3>2. Cardinality(unlogged \cup {c}) = IF c \in unlogged THEN n ELSE n + 1
      BY <1>t, FS_AddElement
    <3>3. QED
      BY <1>t, <3>1, <3>2
  <2>2. used' = used /\ margin' = margin + 1
    BY <1>2 DEF CheckFailsOpen
  <2>3. QED
    BY <1>t, <1>u, <2>1, <2>2 DEF OvershootIsBounded
<1>3. ASSUME NEW c \in Calls, LogUsage(c)
      PROVE  OvershootIsBounded'
  <2>1. Cardinality(unlogged') = n - 1
    BY <1>3, <1>t, FS_RemoveElement DEF LogUsage
  <2>2. margin' = margin /\ (used' = used + 1 \/ used' = used)
    BY <1>3 DEF LogUsage
  <2>3. QED
    BY <1>t, <1>u, <2>1, <2>2 DEF OvershootIsBounded
<1>4. CASE Crash
  <2>1. Cardinality(unlogged') = 0 /\ used' = used /\ margin' = margin
    BY <1>4, FS_EmptySet DEF Crash
  <2>2. QED
    BY <1>t, <1>u, <2>1 DEF OvershootIsBounded
<1>5. CASE UNCHANGED usage
  BY <1>u, <1>5 DEF OvershootIsBounded, usage
<1>6. QED
  <2>1. ASSUME NEW c \in Calls, InferenceStep(c), ~CheckAllows(c), ~CheckFailsOpen(c)
        PROVE  UNCHANGED usage
    BY <2>1 DEF InferenceStep, Load, CheckRefuses, ModelReturns, WriteReply, SaveState,
       EmitShadow, Throw, ReportFailure, GiveUp
  <2>2. ASSUME NEW c \in Calls, NEW op \in Ops, NEW s \in Sessions, Request(c, op, s)
        PROVE  UNCHANGED usage
    BY <2>2 DEF Request
  <2>3. ASSUME NEW c \in Calls, CallStep(c)
        PROVE  UNCHANGED usage
    BY <2>3, CallMoves
  <2>4. ASSUME NEW s \in Sessions, CreateSession(s) \/ Lapse(s)
        PROVE  UNCHANGED usage
    BY <2>4 DEF CreateSession, Lapse
  <2>5. UNCHANGED vars => UNCHANGED usage
    BY DEF vars
  <2>6. QED
    BY <1>1, <1>2, <1>3, <1>4, <1>5, <2>1, <2>2, <2>3, <2>4, <2>5 DEF Next

(* A session that is closed is never open again.                           *)
LEMMA ClosedStays ==
  ASSUME TypeOK, [Next]_vars, NEW s \in Sessions, Closed(s)
  PROVE  Closed(s)'
<1> USE DEF Closed, session
<1>1. ASSUME NEW c \in Calls, CallStep(c)
      PROVE  Closed(s)'
  BY <1>1 DEF CallStep, Validate, MarkExpired, Visit, Revoke, ClearRun, CreateRun,
     LinkRun, AppendMessage, AppendTranscript, CallFails, TypeOK
<1>2. ASSUME NEW c \in Calls, InferenceStep(c)
      PROVE  Closed(s)'
  BY <1>2, InferenceMoves
<1>3. ASSUME ~\E c \in Calls : CallStep(c) \/ InferenceStep(c)
      PROVE  Closed(s)'
  BY <1>3 DEF Next, vars, CreateSession, Lapse, Request, LogUsage, Crash, TypeOK
<1>4. QED
  BY <1>1, <1>2, <1>3

LEMMA KeepsLateSeeClosed ==
  ASSUME TypeOK, LateSeeClosed, [Next]_vars
  PROVE  LateSeeClosed'
<1> SUFFICES ASSUME NEW c \in Calls, call'[c].late, call'[c].op # "revoke"
             PROVE  call'[c].step = "validate" /\ status'[call'[c].session] \in {"revoked", "expired"}
  BY DEF LateSeeClosed, At, Closed
<1>t. call[c] \in CallAt
  BY DEF TypeOK
<1>1. CASE call'[c] = call[c]
  <2>1. At(c, "validate") /\ Closed(call[c].session) /\ call[c].session \in Sessions
    BY <1>1, <1>t DEF LateSeeClosed, CallAt
  <2>2. status'[call[c].session] \in {"revoked", "expired"}
    BY <2>1, ClosedStays DEF Closed
  <2>3. QED
    BY <1>1, <2>1, <2>2 DEF At, Closed
<1>2. ASSUME NEW op \in Ops, NEW s \in Sessions, Request(c, op, s)
      PROVE  call'[c].step = "validate" /\ status'[call'[c].session] \in {"revoked", "expired"}
  BY <1>2 DEF Request, TypeOK, Closed, session
<1>3. CASE CallStep(c)
  <2>1. call'[c] # Idle("returned")
    BY DEF Idle
  <2>2. call[c].late /\ call[c].op # "revoke"
    BY <1>3, <1>t, <2>1 DEF CallStep, Validate, MarkExpired, Visit, Revoke, ClearRun,
       CreateRun, LinkRun, AppendMessage, AppendTranscript, CallFails, Goto, Return,
       TypeOK, CallAt
  <2>3. At(c, "validate") /\ Refused(call[c].session)
    BY <2>2 DEF LateSeeClosed, Closed, Refused
  <2>4. call' = [call EXCEPT ![c] = Idle("returned")]
    BY <1>3, <2>3 DEF CallStep, Validate, MarkExpired, Visit, Revoke, ClearRun, CreateRun,
       LinkRun, AppendMessage, ReadyToAppend, AppendTranscript, CallFails, Return, At
  <2>5. QED
    BY <2>1, <2>4 DEF TypeOK
<1>4. CASE Crash
  BY <1>1, <1>4 DEF Crash, Idle
<1>5. QED
  <2>1. ASSUME NEW d \in Calls \ {c}, CallStep(d)
        PROVE  call'[c] = call[c]
    BY <2>1, CallMoves
  <2>2. ASSUME NEW d \in Calls, InferenceStep(d)
        PROVE  call'[c] = call[c]
    BY <2>2, InferenceMoves
  <2>3. ASSUME NEW d \in Calls \ {c}, NEW op \in Ops, NEW s \in Sessions, Request(d, op, s)
        PROVE  call'[c] = call[c]
    BY <2>3 DEF Request
  <2>4. QED
    BY <1>1, <1>2, <1>3, <1>4, <2>1, <2>2, <2>3, Steps, ElsewhereKeeps

-----------------------------------------------------------------------------
LEMMA Initially == Init => IInv
<1> SUFFICES ASSUME Init PROVE IInv
  OBVIOUS
<1>1. Cardinality({}) = 0
  BY FS_EmptySet
<1>2. TypeOK
  BY CallsAssumption, IdleTyped DEF Init, TypeOK, CallSteps, InferenceAt, InferenceSteps
<1>3. OvershootIsBounded
  BY <1>1, LimitAssumption DEF Init, OvershootIsBounded
<1>4. QED
  BY <1>2, <1>3 DEF Init, IInv, RunsKnown, MessagesReturned, InferencesStarted,
     RepliesArePast, SavedAreAnswered, NoSilence, OneAnswerEach, LateSeeClosed, Idle,
     Asked, On

LEMMA Inductive == IInv /\ [Next]_vars => IInv'
  BY NextKeepsType, KeepsRunsKnown, KeepsMessagesReturned, KeepsInferencesStarted,
     KeepsRepliesArePast, KeepsSavedAreAnswered, KeepsNoSilence, KeepsOneAnswerEach,
     KeepsOvershoot, KeepsLateSeeClosed DEF IInv

LEMMA Invariance == Spec => []IInv
  BY Initially, Inductive, PTL DEF Spec

(* Every state of the module is of its type.                               *)
THEOREM TypeCorrect == Spec => []TypeOK
<1>1. IInv => TypeOK
  BY DEF IInv
<1>2. QED
  BY <1>1, Invariance, PTL

(* Whatever fails, and whenever the process stops, a recorded message is   *)
(* answered, worked on, or given up: by a crash, after a second failure,   *)
(* without a database, or when the rows read hold no message.              *)
THEOREM NeverSilent == Spec => []NoSilence
<1>1. IInv => NoSilence
  BY DEF IInv
<1>2. QED
  BY <1>1, Invariance, PTL

(* No interleaving and no failed statement answers a message twice.        *)
THEOREM NeverTwice == Spec => []OneAnswerEach
<1>1. IInv => OneAnswerEach
  BY DEF IInv
<1>2. QED
  BY <1>1, Invariance, PTL

(* The daily limit is exceeded by no more than what was unlogged together. *)
THEOREM LimitedSpending == Spec => []OvershootIsBounded
<1>1. IInv => OvershootIsBounded
  BY DEF IInv
<1>2. QED
  BY <1>1, Invariance, PTL

(* A request that begins on a closed session does nothing.                 *)
THEOREM RevokedIsRefused == Spec => []LateRequestsRefused
<1>1. IInv => LateRequestsRefused
  BY DEF IInv, LateSeeClosed, LateRequestsRefused, At
<1>2. QED
  BY <1>1, Invariance, PTL
=============================================================================
