---------------------------- MODULE DocumentsProofs ----------------------------
(***************************************************************************)
(* The safety of the components of MCDocuments for every set of requests,  *)
(* jobs and documents, any number of pages and of attempts: why a document *)
(* is in progress, what a contract is shown over, what a class of symbols  *)
(* is counted as.                                                          *)
(***************************************************************************)
EXTENDS MCDocuments, TLAPS

-----------------------------------------------------------------------------
(* Requests and what a step of one changes of the others: nothing.         *)
Attempts == Names \X Nat
Fields   == {"op", "step", "on", "try", "todo", "texts", "read"}
NoOwn    == {"create", "delete"}

Before == {"begin", "load", "agent", "row"}
After  == {"detect", "running", "detections", "complete", "fail"} \cup Over
Parsing == {"pages", "text", "legend", "parsed"}
Steps  == Before \cup After \cup Parsing \cup {"none", "document", "row gone"}

CallOK(c) ==
  /\ DOMAIN c = Fields
  /\ c.op \in Ops /\ c.step \in Steps /\ c.try \in Nat
  /\ c.step # "none" /\ c.op \notin NoOwn => c.on \in Names

CallsOK == DOMAIN call = Requests /\ \A r \in Requests : CallOK(call[r])

(* The steps that a kind of request can be at.                             *)
Placed(c) ==
  /\ c.step = "load" => c.op = "pipeline"
  /\ c.step = "detect" => c.op \in {"pipeline", "detectJob"}
  /\ c.step = "agent" => c.op \in {"pipeline", "parseJob", "quote"}
  /\ c.step = "document" => c.op = "quote"
  /\ c.step \in {"text", "legend"} => c.op \in {"pipeline", "parseJob", "ingest", "addPages"}
  /\ c.step \in {"pages", "parsed"} =>
       c.op \in {"pipeline", "parseJob", "ingest", "addPages", "quote"}
  /\ c.step \in {"running", "detections"} => c.op \in {"pipeline", "detectJob"}
  /\ c.step = "complete" => c.op \in {"pipeline", "detectJob", "addDetections"}
  /\ c.step = "fail" => c.op \in {"pipeline", "parseJob", "quote"}
  /\ c.step = "row" => c.op \in {"upload", "quote"}
  /\ c.step = "row gone" => c.op = "delete"

AllPlaced == \A r \in Requests : Placed(call[r])

Moves(r) ==
  /\ DOMAIN call' = Requests /\ \A q \in Requests : q # r => call'[q] = call[q]
  /\ CallOK(call'[r]) /\ Placed(call'[r]) /\ call'[r].step # "none"
  /\ call[r].step # "none" => call'[r].op = call[r].op /\ call'[r].on = call[r].on

LEMMA NoCallOK == DOMAIN NoCall = Fields /\ CallOK(NoCall) /\ Placed(NoCall)
  BY DEF NoCall, Fields, CallOK, Ops, Jobs, Steps, Placed, NoOwn

LEMMA GotoFacts ==
  ASSUME CallsOK, NEW r \in Requests, NEW s \in Steps \ {"none"}, Goto(r, s)
  PROVE  /\ DOMAIN call' = Requests /\ \A q \in Requests : q # r => call'[q] = call[q]
         /\ DOMAIN call'[r] = Fields /\ call'[r].try \in Nat
         /\ call'[r].op = call[r].op /\ call'[r].on = call[r].on /\ call'[r].step = s
         /\ s \notin Over => call'[r] = [call[r] EXCEPT !.step = s] /\ call'[r].try = call[r].try
                             /\ call'[r].todo = call[r].todo /\ call'[r].texts = call[r].texts
<1> DEFINE c == IF s \notin Over THEN [call[r] EXCEPT !.step = s]
                ELSE [NoCall EXCEPT !.op = call[r].op, !.on = call[r].on, !.step = s]
<1>1. call' = [call EXCEPT ![r] = c] /\ DOMAIN call = Requests /\ DOMAIN call[r] = Fields
      /\ call[r].try \in Nat
  BY DEF Goto, CallsOK, CallOK
<1>2. CASE s \notin Over
  BY <1>1, <1>2 DEF Fields
<1>3. CASE s \in Over
  BY <1>1, <1>3 DEF Fields, NoCall
<1>4. QED
  BY <1>2, <1>3

(* A request goes on to one of the steps it can be at.                     *)
LEMMA GoesOn ==
  ASSUME CallsOK, AllPlaced, NEW r \in Requests, call[r].step # "none",
         NEW s \in Steps \ {"none"}, Goto(r, s),
         Placed([op |-> call[r].op, step |-> s])
  PROVE  Moves(r)
<1>1. CallOK(call[r])
  BY DEF CallsOK
<1>2. /\ DOMAIN call' = Requests /\ \A q \in Requests : q # r => call'[q] = call[q]
      /\ DOMAIN call'[r] = Fields /\ call'[r].try \in Nat
      /\ call'[r].op = call[r].op /\ call'[r].on = call[r].on /\ call'[r].step = s
  BY GotoFacts
<1>3. CallOK(call'[r])
  BY <1>1, <1>2 DEF CallOK
<1>4. Placed(call'[r])
  BY <1>2 DEF Placed
<1>5. QED
  BY <1>2, <1>3, <1>4 DEF Moves

LEMMA BeginMoves ==
  ASSUME CallsOK, AllPlaced, NEW r \in Requests, Begin(r)
  PROVE  Moves(r)
<1>1. PICK op \in Ops : \E on \in Targets(r, op) :
        call' = [call EXCEPT ![r].op = op, ![r].on = on, ![r].step = "begin"]
  BY DEF Begin
<1>2. PICK on \in Targets(r, op) :
        call' = [call EXCEPT ![r].op = op, ![r].on = on, ![r].step = "begin"]
  BY <1>1
<1>3. op \notin NoOwn => on \in Names
  BY DEF Targets, NoOwn, Names, Ops, Jobs
<1>4. /\ DOMAIN call' = Requests /\ \A q \in Requests : q # r => call'[q] = call[q]
      /\ DOMAIN call'[r] = Fields /\ call'[r].op = op /\ call'[r].on = on
      /\ call'[r].step = "begin" /\ call'[r].try = call[r].try
  BY <1>2 DEF CallsOK, CallOK, Fields
<1>5. QED
  BY <1>3, <1>4 DEF Begin, Moves, CallsOK, CallOK, Placed, Steps, Before, NoOwn

LEMMA GiveUpMoves ==
  ASSUME CallsOK, AllPlaced, NEW r \in Requests, call[r].step # "none",
         NEW how \in Over, GiveUp(r, how)
  PROVE  /\ Moves(r)
         /\ \/ call'[r].step = how
            \/ /\ call'[r].step = "begin" /\ call[r].op \in Jobs
               /\ call'[r].try = call[r].try + 1
<1>1. CASE Goto(r, how)
  <2>1. how \in Steps \ {"none"} /\ Placed([op |-> call[r].op, step |-> how])
    BY DEF Over, Steps, After, Placed
  <2>2. QED
    BY <1>1, <2>1, GoesOn, GotoFacts
<1>2. CASE ~ Goto(r, how)
  <2> DEFINE c == [NoCall EXCEPT !.op = call[r].op, !.on = call[r].on, !.step = "begin",
                                 !.try = call[r].try + 1]
  <2>1. call' = [call EXCEPT ![r] = c] /\ call[r].op \in Jobs
    BY <1>2 DEF GiveUp
  <2>2. /\ DOMAIN c = Fields /\ c.op = call[r].op /\ c.on = call[r].on /\ c.step = "begin"
        /\ c.try = call[r].try + 1
    BY NoCallOK DEF NoCall, Fields
  <2> HIDE DEF c
  <2>3. call'[r] = c /\ DOMAIN call' = Requests /\ \A q \in Requests : q # r => call'[q] = call[q]
    BY <2>1 DEF CallsOK
  <2>4. /\ DOMAIN call'[r] = Fields /\ call'[r].op = call[r].op /\ call'[r].on = call[r].on
        /\ call'[r].step = "begin" /\ call'[r].try = call[r].try + 1
    BY <2>2, <2>3
  <2>5. CallOK(call'[r])
    <3>1. CallOK(call[r])
      BY DEF CallsOK
    <3>2. call'[r].try \in Nat
      BY <2>4, <3>1 DEF CallOK
    <3>3. call'[r].step \in Steps
      BY <2>4 DEF Steps, Before
    <3>4. QED
      BY <2>4, <3>1, <3>2, <3>3 DEF CallOK
  <2>6. Placed(call'[r])
    BY <2>4 DEF Placed
  <2>7. QED
    BY <2>1, <2>3, <2>4, <2>5, <2>6 DEF Moves
<1>3. QED
  BY <1>1, <1>2

-----------------------------------------------------------------------------
(* A request that has to write a status before it returns, or was cut      *)
(* short: the pipeline owes none while it detects, for it has written that *)
(* the document is parsed.                                                 *)
AtWork(r, d) ==
  /\ call[r].on = d /\ call[r].op \in {"pipeline", "quote", "parseJob", "detectJob"}
  /\ call[r].step \notin {"none", "returned"}
  /\ ~ (call[r].op = "pipeline" /\ call[r].step = "detect")

WorkKnown == \A d \in Names : doc[d].status \in InProgress => \E r \in Requests : AtWork(r, d)

DocsOK ==
  /\ DOMAIN doc = Names
  /\ \A d \in Names : DOMAIN doc[d] = {"status", "artifact", "contract"}

(* What a step of r does to the documents, as far as work is concerned.    *)
WorkFacts(r) ==
  /\ Moves(r) /\ DocsOK'
  /\ \A d \in Names : doc'[d].status \in InProgress =>
       \/ AtWork(r, d)'
       \/ doc[d].status \in InProgress /\ ~ AtWork(r, d)

LEMMA WorkKeeps ==
  ASSUME WorkKnown, NEW r \in Requests, WorkFacts(r)
  PROVE  WorkKnown'
<1> SUFFICES ASSUME NEW d \in Names, doc'[d].status \in InProgress
             PROVE  \E q \in Requests : AtWork(q, d)'
  BY DEF WorkKnown
<1>1. CASE AtWork(r, d)'
  BY <1>1
<1>2. CASE ~ AtWork(r, d)'
  <2>1. doc[d].status \in InProgress /\ ~ AtWork(r, d)
    BY <1>2 DEF WorkFacts
  <2>2. PICK q \in Requests : AtWork(q, d)
    BY <2>1 DEF WorkKnown
  <2>3. call'[q] = call[q]
    BY <2>1, <2>2 DEF WorkFacts, Moves
  <2>4. QED
    BY <2>2, <2>3 DEF AtWork
<1>3. QED
  BY <1>1, <1>2

LEMMA SetStatusFacts ==
  ASSUME DocsOK, NEW d \in Names, NEW s, s # "none", SetStatus(d, s)
  PROVE  /\ DocsOK' /\ \A e \in Names : doc'[e].contract = doc[e].contract
         /\ \A e \in Names : e # d => doc'[e] = doc[e]
         /\ doc'[d].status \in InProgress => s \in InProgress
  BY DEF SetStatus, Exists, DocsOK, InProgress

(* Where a request may go from a step, and with which attempt.             *)
Tried(r) ==
  \/ call'[r].step \in Over
  \/ call[r].step = "none" /\ call'[r].step = "begin"
  \/ call[r].op \in Jobs /\ call'[r].step = "begin" /\ call'[r].try = call[r].try + 1
  \/ /\ call'[r].try = call[r].try
     /\ call'[r].step \in Before => call[r].step \in Before

Ends(r) ==
  /\ call[r].step \notin Over
  /\ call[r].op = "pipeline" /\ call[r].step \in After => call'[r].step \in After

(* Steps that leave documents, pages and answers alone.                    *)
QuietFacts(r) ==
  /\ WorkFacts(r) /\ Tried(r) /\ Ends(r)
  /\ doc' = doc /\ pages' = pages /\ outputs' = outputs
  /\ call'[r].step \in Parsing =>
       call[r].step = "legend" /\ call'[r].step = "parsed" /\ call'[r].try = call[r].try

LEMMA Quiet ==
  ASSUME CallsOK, AllPlaced, DocsOK, NEW r \in Requests, Moves(r), Tried(r), Ends(r),
         doc' = doc, pages' = pages, outputs' = outputs, call'[r].step # "detect",
         call'[r].step = "returned" =>
           call[r].op \notin {"quote", "parseJob", "detectJob"} /\
           (call[r].op = "pipeline" => call[r].step = "detect"),
         call'[r].step \in Parsing =>
           call[r].step = "legend" /\ call'[r].step = "parsed" /\ call'[r].try = call[r].try
  PROVE  QuietFacts(r)
  BY DEF QuietFacts, WorkFacts, DocsOK, AtWork, Moves

LEMMA BeginQuiet ==
  ASSUME CallsOK, AllPlaced, DocsOK, NEW r \in Requests, Begin(r)
  PROVE  QuietFacts(r)
<1>1. Moves(r)
  BY BeginMoves
<1>2. call[r].step = "none" /\ call'[r].step = "begin"
  BY DEF Begin, CallsOK, CallOK, Fields
<1>3. QED
  BY <1>1, <1>2, Quiet DEF Begin, rows, Tried, Ends, After, Over, Parsing

LEMMA GoToQuiet ==
  ASSUME CallsOK, AllPlaced, DocsOK, NEW r \in Requests,
         NEW s \in Steps \ ({"none", "detect"} \cup Parsing), Goto(r, s),
         Placed([op |-> call[r].op, step |-> s]), call[r].step \notin Over \cup {"none"},
         call[r].op = "pipeline" /\ call[r].step \in After => s \in After,
         s \in Before => call[r].step \in Before,
         s = "returned" =>
           call[r].op \notin {"quote", "parseJob", "detectJob"} /\
           (call[r].op = "pipeline" => call[r].step = "detect"),
         doc' = doc, pages' = pages, outputs' = outputs
  PROVE  QuietFacts(r)
<1>1. Moves(r)
  BY GoesOn
<1>2. call'[r].step = s /\ (s \notin Over => call'[r].try = call[r].try)
  BY GotoFacts
<1>3. Tried(r) /\ Ends(r)
  BY <1>2 DEF Tried, Ends
<1>4. QED
  BY <1>1, <1>2, <1>3, Quiet

LEMMA GiveUpQuiet ==
  ASSUME CallsOK, AllPlaced, DocsOK, NEW r \in Requests, Live(r),
         NEW how \in {"threw", "crashed"}, GiveUp(r, how),
         doc' = doc, pages' = pages, outputs' = outputs
  PROVE  QuietFacts(r)
<1>1. how \in Over /\ call[r].step \notin Over \cup {"none"}
  BY DEF Over, Live
<1>2. Moves(r)
  BY <1>1, GiveUpMoves
<1>3. \/ call'[r].step = how
      \/ /\ call'[r].step = "begin" /\ call[r].op \in Jobs
         /\ call'[r].try = call[r].try + 1
  BY <1>1, GiveUpMoves
<1>4. Tried(r) /\ Ends(r)
  BY <1>1, <1>3 DEF Tried, Ends, Jobs, After
<1>5. QED
  BY <1>2, <1>3, <1>4, Quiet DEF Parsing

LEMMA FailuresQuiet ==
  ASSUME CallsOK, AllPlaced, DocsOK, NEW r \in Requests, Throws(r) \/ Crash(r)
  PROVE  QuietFacts(r)
<1> USE DEF rows
<1>1. CASE Goto(r, "fail") /\ call[r].op = "pipeline" /\ Throws(r)
  BY <1>1, GoToQuiet DEF Throws, Live, Steps, After, Before, Parsing, Over, Placed
<1>2. CASE Goto(r, "crashed") /\ Crash(r)
  BY <1>2, GoToQuiet DEF Crash, Live, Steps, After, Before, Parsing, Over, Placed
<1>3. CASE GiveUp(r, "threw") /\ Throws(r)
  BY <1>3, GiveUpQuiet DEF Throws
<1>4. QED
  BY <1>1, <1>2, <1>3 DEF Throws, Crash

(* A request goes on with its fields edited.                               *)
DetectSteps == {"running", "detections", "complete"}

Edited(r, c) ==
  /\ DOMAIN c = Fields /\ c.op = call[r].op /\ c.on = call[r].on /\ c.try = call[r].try
  /\ call' = [call EXCEPT ![r] = c]

LEMMA EditFacts ==
  ASSUME CallsOK, AllPlaced, NEW r \in Requests, call[r].step # "none",
         NEW c, Edited(r, c), c.step \in Steps \ {"none"}, Placed(c)
  PROVE  Moves(r) /\ call'[r] = c
<1>1. CallOK(call[r]) /\ DOMAIN call = Requests
  BY DEF CallsOK
<1>2. call'[r] = c /\ DOMAIN call' = Requests /\ \A q \in Requests : q # r => call'[q] = call[q]
  BY <1>1 DEF Edited
<1>3. CallOK(c)
  BY <1>1 DEF CallOK, Edited
<1>4. QED
  BY <1>2, <1>3 DEF Moves, Edited

TakesUp(r, todo, s) == call' = [call EXCEPT ![r].todo = todo, ![r].step = s]

LEMMA TodoEdited ==
  ASSUME CallsOK, NEW r \in Requests, NEW s, NEW todo, TakesUp(r, todo, s)
  PROVE  \E c : Edited(r, c) /\ c.step = s /\ c.todo = todo /\ c.texts = call[r].texts
<1> DEFINE c == [[call[r] EXCEPT !.todo = todo] EXCEPT !.step = s]
<1>1. DOMAIN call = Requests /\ DOMAIN call[r] = Fields
  BY DEF CallsOK, CallOK
<1>2. call' = [call EXCEPT ![r] = c]
  BY <1>1 DEF TakesUp
<1>3. /\ DOMAIN c = Fields /\ c.op = call[r].op /\ c.on = call[r].on /\ c.try = call[r].try
      /\ c.step = s /\ c.todo = todo /\ c.texts = call[r].texts
  BY <1>1 DEF Fields
<1> HIDE DEF c
<1>4. QED
  BY <1>2, <1>3 DEF Edited

TakesParse(r, parse, s) ==
  call' = [call EXCEPT ![r].todo = parse.numbers, ![r].texts = parse.texts, ![r].step = s]

LEMMA ParseEdited ==
  ASSUME CallsOK, NEW r \in Requests, NEW s, NEW parse, TakesParse(r, parse, s)
  PROVE  \E c : Edited(r, c) /\ c.step = s /\ c.todo = parse.numbers /\ c.texts = parse.texts
<1> DEFINE c == [[[call[r] EXCEPT !.todo = parse.numbers] EXCEPT !.texts = parse.texts]
                   EXCEPT !.step = s]
<1>1. DOMAIN call = Requests /\ DOMAIN call[r] = Fields
  BY DEF CallsOK, CallOK
<1>2. call' = [call EXCEPT ![r] = c]
  BY <1>1 DEF TakesParse
<1>3. /\ DOMAIN c = Fields /\ c.op = call[r].op /\ c.on = call[r].on /\ c.try = call[r].try
      /\ c.step = s /\ c.todo = parse.numbers /\ c.texts = parse.texts
  BY <1>1 DEF Fields
<1> HIDE DEF c
<1>4. QED
  BY <1>2, <1>3 DEF Edited

LEMMA EditQuiet ==
  ASSUME CallsOK, AllPlaced, DocsOK, NEW r \in Requests, call[r].step \notin Over \cup {"none"},
         NEW c, Edited(r, c), c.step \in DetectSteps, Placed(c),
         doc' = doc, pages' = pages, outputs' = outputs
  PROVE  QuietFacts(r)
<1>1. c.step \in Steps \ {"none"} /\ c.step \notin Before /\ c.step \in After
      /\ c.step \notin Parsing /\ c.step \notin {"none", "detect", "returned"}
  BY DEF DetectSteps, Steps, Before, After, Parsing, Over
<1>2. Moves(r) /\ call'[r].step = c.step /\ call'[r].try = call[r].try
  BY <1>1, EditFacts DEF Edited
<1>3. Tried(r) /\ Ends(r)
  BY <1>1, <1>2 DEF Tried, Ends
<1>4. QED
  BY <1>1, <1>2, <1>3, Quiet

LEMMA DetectEditQuiet ==
  ASSUME CallsOK, AllPlaced, DocsOK, NEW r \in Requests,
         call[r].step \in {"detect", "detections"}, call[r].op \in {"pipeline", "detectJob"},
         NEW s \in DetectSteps, NEW todo, TakesUp(r, todo, s),
         doc' = doc, pages' = pages, outputs' = outputs
  PROVE  QuietFacts(r)
<1>1. PICK c : Edited(r, c) /\ c.step = s
  BY TodoEdited
<1>2. Placed(c)
  <2>1. s = "running" \/ s = "detections" \/ s = "complete"
    BY DEF DetectSteps
  <2>2. c.op = call[r].op /\ c.step = s
    BY <1>1 DEF Edited
  <2>3. QED
    BY <2>1, <2>2 DEF Placed
<1>3. call[r].step \notin Over \cup {"none"}
  BY DEF Over
<1>4. QED
  BY <1>1, <1>2, <1>3, EditQuiet

LEMMA FilesQuiet ==
  ASSUME CallsOK, AllPlaced, DocsOK, NEW r \in Requests,
         \/ StoreFile(r) \/ InsertArtifact(r) \/ DeleteFile(r) \/ DeleteArtifact(r)
         \/ LoadFile(r) \/ RefuseOutput(r)
  PROVE  QuietFacts(r)
<1> USE DEF Steps, After, Before, Parsing, Over, Placed
<1>0. Placed(call[r])
  BY ONLY AllPlaced, r \in Requests DEF AllPlaced
<1>1. CASE StoreFile(r)
  BY <1>1, GoToQuiet DEF StoreFile, At
<1>2. CASE InsertArtifact(r)
  <2>1. CASE call[r].op = "quote"
    BY <1>2, <2>1, GoToQuiet DEF InsertArtifact
  <2>2. CASE call[r].op # "quote"
    BY <1>0, <1>2, <2>2, GoToQuiet DEF InsertArtifact
  <2>3. QED
    BY <2>1, <2>2
<1>3. CASE DeleteFile(r)
  BY <1>3, GoToQuiet DEF DeleteFile, At
<1>4. CASE DeleteArtifact(r)
  BY <1>0, <1>4, GoToQuiet DEF DeleteArtifact
<1>5. CASE LoadFile(r)
  <2>1. CASE Goto(r, "agent")
    BY <1>0, <1>5, <2>1, GoToQuiet DEF LoadFile, rows
  <2>2. CASE Goto(r, "fail")
    BY <1>0, <1>5, <2>2, GoToQuiet DEF LoadFile, rows
  <2>3. QED
    BY <1>5, <2>1, <2>2 DEF LoadFile
<1>6. CASE RefuseOutput(r)
  BY <1>6, GoToQuiet DEF RefuseOutput, At, rows
<1>7. QED
  BY <1>1, <1>2, <1>3, <1>4, <1>5, <1>6

LEMMA LegendQuiet ==
  ASSUME CallsOK, AllPlaced, DocsOK, NEW r \in Requests, InsertLegend(r)
  PROVE  QuietFacts(r)
<1>0. Placed(call[r])
  BY DEF AllPlaced
<1>1. CASE At(r, {"addLegend"}, "begin")
  <2>1. Goto(r, "returned")
    BY <1>1 DEF InsertLegend, At
  <2>2. QED
    BY <1>1, <2>1, GoToQuiet DEF InsertLegend, At, Steps, After, Before, Parsing, Over, Placed
<1>2. CASE call[r].step = "legend"
  <2>1. call[r].op \in {"pipeline", "parseJob", "ingest", "addPages"} /\ Goto(r, "parsed")
    BY <1>0, <1>2 DEF InsertLegend, Placed
  <2>2. Placed([op |-> call[r].op, step |-> "parsed"]) /\ "parsed" \in Steps \ {"none"}
    BY <2>1 DEF Placed, Steps, Parsing
  <2>3. Moves(r) /\ call'[r].step = "parsed" /\ call'[r].try = call[r].try
    BY <1>2, <2>1, <2>2, GoesOn, GotoFacts DEF Over
  <2>4. Tried(r) /\ Ends(r)
    BY <1>2, <2>3 DEF Tried, Ends, Before, After, Over
  <2>5. QED
    BY <1>2, <2>3, <2>4, Quiet DEF InsertLegend
<1>3. QED
  BY <1>1, <1>2 DEF InsertLegend

LEMMA FindsQuiet ==
  ASSUME CallsOK, AllPlaced, DocsOK, NEW r \in Requests, PipelineDetect(r) \/ JobDetect(r)
  PROVE  QuietFacts(r)
<1> USE DEF Steps, After, Before, Parsing, Over, Placed
<1>1. call[r].step = "detect" /\ call[r].op \in {"pipeline", "detectJob"}
      /\ doc' = doc /\ pages' = pages /\ outputs' = outputs
  BY DEF PipelineDetect, JobDetect, At, Finds, rows
<1>2. ASSUME Goto(r, "fail") \/ Goto(r, "returned"), PipelineDetect(r)
      PROVE  QuietFacts(r)
  BY <1>1, <1>2, GoToQuiet DEF PipelineDetect, At
<1>3. ASSUME Goto(r, "complete"), JobDetect(r)
      PROVE  QuietFacts(r)
  BY <1>1, <1>3, GoToQuiet DEF JobDetect, At
<1>4. ASSUME NEW todo, NEW s \in {"running", "detections"},
             s = "running" => PipelineDetect(r), s = "detections" => JobDetect(r),
             TakesUp(r, todo, s)
      PROVE  QuietFacts(r)
  BY <1>1, <1>4, DetectEditQuiet DEF DetectSteps, PipelineDetect, JobDetect, At
<1>5. CASE PipelineDetect(r)
  BY <1>2, <1>4, <1>5 DEF PipelineDetect, Finds, CheckPages, TakesUp
<1>6. CASE JobDetect(r)
  BY <1>3, <1>4, <1>6 DEF JobDetect, Finds, TakesUp
<1>7. QED
  BY <1>5, <1>6

LEMMA DetectsQuiet ==
  ASSUME CallsOK, AllPlaced, DocsOK, NEW r \in Requests,
         ReadPages(r) \/ InsertDetections(r) \/ AddDetections(r)
  PROVE  QuietFacts(r)
<1> USE DEF Steps, After, Before, Parsing, Over, Placed
<1>0. Placed(call[r])
  BY ONLY AllPlaced, r \in Requests DEF AllPlaced
<1>1. CASE ReadPages(r)
  <2> DEFINE read == PagesOf(call[r].on)
             c == [[call[r] EXCEPT !.step = "running"] EXCEPT !.read = read]
  <2> HIDE DEF read
  <2>1. DOMAIN call = Requests /\ DOMAIN call[r] = Fields
    BY DEF CallsOK, CallOK
  <2>2. call' = [call EXCEPT ![r] = c]
    BY <1>1, <2>1 DEF ReadPages, read
  <2>3. /\ DOMAIN c = Fields /\ c.op = call[r].op /\ c.on = call[r].on /\ c.try = call[r].try
        /\ c.step = "running"
    BY <2>1 DEF Fields
  <2> HIDE DEF c
  <2>4. Edited(r, c) /\ c.step \in DetectSteps
    BY <2>2, <2>3 DEF Edited, DetectSteps
  <2>5. call[r].op = "detectJob" /\ call[r].step = "begin"
        /\ doc' = doc /\ pages' = pages /\ outputs' = outputs
    BY <1>1 DEF ReadPages, At, rows
  <2>6. Placed(c)
    BY <2>3, <2>5
  <2>7. QED
    BY <2>4, <2>5, <2>6, EditQuiet
<1>2. CASE InsertDetections(r)
  <2> DEFINE todo == Done(r)
             s == IF todo = {} THEN "complete" ELSE "detections"
  <2>1. /\ TakesUp(r, todo, s) /\ call[r].step = "detections"
        /\ doc' = doc /\ pages' = pages /\ outputs' = outputs
    BY <1>2 DEF InsertDetections, TakesUp
  <2>2. s \in DetectSteps /\ call[r].op \in {"pipeline", "detectJob"}
    BY <1>0, <2>1 DEF DetectSteps
  <2> HIDE DEF todo, s
  <2>3. QED
    BY <2>1, <2>2, DetectEditQuiet
<1>3. CASE AddDetections(r)
  BY <1>3, GoToQuiet DEF AddDetections, At
<1>4. QED
  BY <1>1, <1>2, <1>3

LEMMA AddTextMoves ==
  ASSUME CallsOK, AllPlaced, DocsOK, NEW r \in Requests, AddTextBlocks(r)
  PROVE  /\ WorkFacts(r) /\ Tried(r) /\ Ends(r)
         /\ call[r].op = "addText" /\ call'[r].step = "returned"
<1>1. /\ call[r].op = "addText" /\ call[r].step = "begin" /\ Goto(r, "returned") /\ doc' = doc
  BY DEF AddTextBlocks, At
<1>2. Moves(r) /\ call'[r].step = "returned"
  BY <1>1, GoesOn, GotoFacts DEF Steps, After, Over, Placed
<1>3. Tried(r) /\ Ends(r)
  BY <1>1, <1>2 DEF Tried, Ends, Over
<1>4. QED
  BY <1>1, <1>2, <1>3 DEF WorkFacts, DocsOK, AtWork

-----------------------------------------------------------------------------
(* Statuses: r leaves pages, answers and contracts alone.                  *)
LeavesAlone(r) ==
  /\ WorkFacts(r) /\ Tried(r) /\ Ends(r)
  /\ pages' = pages /\ outputs' = outputs
  /\ \A d \in Names : doc'[d].contract = doc[d].contract
  /\ call'[r].step \in Parsing =>
       call[r].step = "legend" /\ call'[r].step = "parsed" /\ call'[r].try = call[r].try

LEMMA QuietLeaves ==
  ASSUME NEW r, QuietFacts(r)
  PROVE  LeavesAlone(r)
  BY DEF QuietFacts, LeavesAlone

LEMMA StatusLeaves ==
  ASSUME CallsOK, DocsOK, NEW r \in Requests, call[r].step # "none", call[r].op \notin NoOwn,
         NEW s, s # "none", SetStatus(call[r].on, s), Moves(r), Tried(r), Ends(r),
         pages' = pages, outputs' = outputs, call'[r].step \notin Parsing,
         s \in InProgress => /\ call[r].op \in {"pipeline", "quote", "parseJob", "detectJob"}
                             /\ call'[r].step # "returned"
                             /\ call[r].op = "pipeline" => call'[r].step # "detect"
  PROVE  LeavesAlone(r)
<1>1. PICK d \in Names : d = call[r].on
  BY DEF CallsOK, CallOK
<1>2. call'[r].op = call[r].op /\ call'[r].on = d /\ call'[r].step # "none"
  BY <1>1 DEF Moves
<1>3. /\ DocsOK' /\ \A e \in Names : doc'[e].contract = doc[e].contract
      /\ \A e \in Names : e # d => doc'[e] = doc[e]
      /\ doc'[d].status \in InProgress => s \in InProgress
  BY <1>1, SetStatusFacts
<1>4. ASSUME NEW e \in Names, doc'[e].status \in InProgress
      PROVE  AtWork(r, e)' \/ (doc[e].status \in InProgress /\ ~ AtWork(r, e))
  <2>1. CASE e = d
    BY <1>2, <1>3, <1>4, <2>1 DEF AtWork
  <2>2. CASE e # d
    BY <1>1, <1>3, <1>4, <2>2 DEF AtWork
  <2>3. QED
    BY <2>1, <2>2
<1>5. QED
  BY <1>3, <1>4 DEF LeavesAlone, WorkFacts

LEMMA MarksLeave ==
  ASSUME CallsOK, AllPlaced, DocsOK, NEW r \in Requests, MarkFailed(r)
  PROVE  LeavesAlone(r)
<1>1. /\ call[r].step = "fail" /\ call[r].op \in {"pipeline", "parseJob", "quote"}
      /\ SetStatus(call[r].on, "failed") /\ pages' = pages /\ outputs' = outputs
  BY DEF MarkFailed, AllPlaced, Placed
<1>2. /\ Moves(r)
      /\ \/ call'[r].step \in Over
         \/ /\ call'[r].step = "begin" /\ call[r].op \in Jobs
            /\ call'[r].try = call[r].try + 1
  <2>1. CASE Goto(r, "returned")
    BY <1>1, <2>1, GoesOn, GotoFacts DEF Steps, After, Over, Placed
  <2>2. CASE GiveUp(r, "threw")
    BY <1>1, <2>2, GiveUpMoves DEF Over
  <2>3. QED
    BY <2>1, <2>2 DEF MarkFailed
<1>3. Tried(r) /\ Ends(r) /\ call'[r].step \notin Parsing
  BY <1>1, <1>2 DEF Tried, Ends, Over, After, Jobs, Parsing
<1>4. "failed" \notin InProgress /\ call[r].op \notin NoOwn /\ call[r].step # "none"
  BY <1>1 DEF InProgress, NoOwn
<1>5. QED
  BY <1>1, <1>2, <1>3, <1>4, StatusLeaves

(* The other three write a status and go on.                               *)
LEMMA GoToLeaves ==
  ASSUME CallsOK, AllPlaced, DocsOK, NEW r \in Requests, call[r].step \notin Over \cup {"none"},
         call[r].op \in {"pipeline", "parseJob", "detectJob", "addDetections"},
         NEW s \in {"parsing", "detection_running", "detection_complete"},
         NEW to \in {"load", "agent", "detections", "detect", "fail", "returned"},
         SetStatus(call[r].on, s), Goto(r, to), pages' = pages, outputs' = outputs,
         Placed([op |-> call[r].op, step |-> to]),
         to \in {"load", "agent"} => call[r].step = "begin",
         s # "detection_complete" =>
           to # "returned" /\ call[r].op # "addDetections" /\ (call[r].op = "pipeline" => to # "detect")
  PROVE  LeavesAlone(r)
<1>1. to \in Steps \ {"none"} /\ to \notin Parsing /\ (to \in Before => to \in {"load", "agent"})
      /\ (to \notin Before => to \in After)
  BY DEF Steps, Before, After, Over, Parsing
<1>2. Moves(r)
  BY <1>1, GoesOn
<1>3. call'[r].step = to /\ (to \notin Over => call'[r].try = call[r].try)
  BY <1>1, GotoFacts
<1>4. Tried(r) /\ Ends(r)
  BY <1>1, <1>3 DEF Tried, Ends, Before, After, Over
<1>5. s # "none" /\ (s \in InProgress => s # "detection_complete") /\ call[r].op \notin NoOwn
  BY DEF InProgress, NoOwn
<1>6. QED
  BY <1>1, <1>2, <1>3, <1>4, <1>5, StatusLeaves

LEMMA WritesLeave ==
  ASSUME CallsOK, AllPlaced, DocsOK, NEW r \in Requests,
         MarkParsing(r) \/ WriteRunning(r) \/ WriteComplete(r)
  PROVE  LeavesAlone(r)
<1> USE DEF Placed, Over
<1>0. Placed(call[r])
  BY ONLY AllPlaced, r \in Requests DEF AllPlaced
<1>1. CASE MarkParsing(r)
  <2>1. CASE call[r].op = "pipeline"
    BY <1>1, <2>1, GoToLeaves DEF MarkParsing, At
  <2>2. CASE call[r].op = "parseJob"
    BY <1>1, <2>2, GoToLeaves DEF MarkParsing, At
  <2>3. QED
    BY <1>1, <2>1, <2>2 DEF MarkParsing, At
<1>2. CASE WriteRunning(r)
  <2>1. CASE call[r].op = "pipeline"
    BY <1>2, <2>1, GoToLeaves DEF WriteRunning
  <2>2. CASE call[r].op = "detectJob"
    BY <1>2, <2>2, GoToLeaves DEF WriteRunning
  <2>3. QED
    BY <1>0, <1>2, <2>1, <2>2 DEF WriteRunning
<1>3. CASE WriteComplete(r)
  <2>1. CASE Goto(r, "fail") /\ call[r].op = "pipeline"
    BY <1>3, <2>1, GoToLeaves DEF WriteComplete
  <2>2. CASE Goto(r, "returned")
    BY <1>0, <1>3, <2>2, GoToLeaves DEF WriteComplete
  <2>3. QED
    BY <1>3, <2>1, <2>2 DEF WriteComplete, CheckPages
<1>4. QED
  BY <1>1, <1>2, <1>3

-----------------------------------------------------------------------------
(* Contracts. A page is of the document its request is on; an answer is    *)
(* that of an attempt that has been made; a contract is of a request that  *)
(* has written it, and no request that does is before that.                *)
Stored(d, n, k) == \E p \in pages : p.doc = d /\ p.number = n /\ p.by = k
Marked(d, n, k) == \E p \in pages : p.doc = d /\ p.number = n /\ p.by = k /\ p.text

OwnDocument == \A r \in Requests : call[r].op = "quote" /\ call[r].step # "none" => call[r].on = r

PageFields == {"doc", "number", "by", "text"}

PagesOK ==
  \A p \in pages :
    /\ DOMAIN p = PageFields /\ p.by \in Attempts
    /\ p.by[1] \in Requests => call[p.by[1]].step # "none" /\ p.doc = call[p.by[1]].on

OutputsOK ==
  \A o \in outputs :
    /\ o.by \in Attempts
    /\ o.by[1] \in Requests =>
         /\ call[o.by[1]].step # "none"
         /\ \/ call[o.by[1]].step \in Over
            \/ /\ o.by[2] <= call[o.by[1]].try
               /\ call[o.by[1]].step \in Before => o.by[2] < call[o.by[1]].try

HasWritten(r) ==
  /\ call[r].step # "none"
  /\ \/ call[r].op = "quote"
     \/ call[r].op = "pipeline" /\ call[r].step \in After
     \/ call[r].op \in {"parseJob", "ingest"} /\ call[r].step = "returned"

ContractsOK ==
  \A d \in Names : \A k \in Attempts :
    doc[d].contract = k /\ k[1] \in Requests => HasWritten(k[1])

(* How much of what r was answered is stored: at its pages all that it has *)
(* not still to do, then all, then all marked.                             *)
Kept(r, o) ==
  LET d == call[r].on IN
  /\ call[r].step = "pages" =>
       /\ \A n \in o.numbers : n \in call[r].todo \/ Stored(d, n, Key(r))
       /\ o.texts => call[r].texts
  /\ call[r].step \in {"text", "legend", "parsed"} => \A n \in o.numbers : Stored(d, n, Key(r))
  /\ call[r].step = "text" =>
       \A n \in o.numbers : o.texts => n \in call[r].todo \/ Marked(d, n, Key(r))
  /\ call[r].step \in {"legend", "parsed"} =>
       \A n \in o.numbers : o.texts => Marked(d, n, Key(r))

Keeps(r) == call[r].op \in {"pipeline", "parseJob", "ingest"} =>
  \A o \in outputs : o.by = Key(r) => Kept(r, o)

KeepsOK == \A r \in Requests : Keeps(r)

ContractInv == PagesOK /\ OutputsOK /\ ContractsOK /\ KeepsOK /\ ContractIsWhole

(* Pages are only added or marked.                                         *)
PagesGrow ==
  \A p \in pages : \E q \in pages' :
    q.doc = p.doc /\ q.number = p.number /\ q.by = p.by /\ (p.text => q.text)

LEMMA StoredGrows ==
  ASSUME PagesGrow
  PROVE  /\ \A d, n, k : Stored(d, n, k) => Stored(d, n, k)'
         /\ \A d, n, k : Marked(d, n, k) => Marked(d, n, k)'
  BY DEF PagesGrow, Stored, Marked

LEMMA SamePages ==
  ASSUME pages' = pages
  PROVE  PagesGrow
  BY DEF PagesGrow

(* Of the other requests.                                                  *)
LEMMA OthersKeep ==
  ASSUME KeepsOK, NEW r \in Requests, Moves(r), PagesGrow, Keeps(r)',
         \A o \in outputs' : o \in outputs \/ o.by = Key(r)
  PROVE  KeepsOK'
<1> SUFFICES ASSUME NEW q \in Requests, q # r, call'[q].op \in {"pipeline", "parseJob", "ingest"},
                    NEW o \in outputs', o.by = Key(q)'
             PROVE  Kept(q, o)'
  BY DEF KeepsOK, Keeps
<1>1. call'[q] = call[q]
  BY DEF Moves
<1>2. Key(q)' = Key(q) /\ Key(q) # Key(r)
  BY <1>1 DEF Key
<1>3. o \in outputs /\ Kept(q, o)
  BY <1>1, <1>2 DEF KeepsOK, Keeps
<1>4. QED
  BY <1>1, <1>2, <1>3, StoredGrows DEF Kept

LEMMA PagesKeepOwners ==
  ASSUME PagesOK, NEW r \in Requests, Moves(r),
         \A p \in pages' : \/ \E q \in pages : /\ DOMAIN p = DOMAIN q /\ p.by = q.by /\ p.doc = q.doc
                           \/ DOMAIN p = PageFields /\ p.by = Key(r) /\ p.doc = call[r].on,
         CallsOK, call[r].step # "none"
  PROVE  PagesOK'
<1> SUFFICES ASSUME NEW p \in pages'
             PROVE  /\ DOMAIN p = PageFields /\ p.by \in Attempts
                    /\ p.by[1] \in Requests => call'[p.by[1]].step # "none" /\ p.doc = call'[p.by[1]].on
  BY DEF PagesOK
<1>1. CASE \E q \in pages : DOMAIN p = DOMAIN q /\ p.by = q.by /\ p.doc = q.doc
  BY <1>1 DEF PagesOK, Moves
<1>2. CASE DOMAIN p = PageFields /\ p.by = Key(r) /\ p.doc = call[r].on
  BY <1>2 DEF Moves, Key, Attempts, Names, CallsOK, CallOK
<1>3. QED
  BY <1>1, <1>2

LEMMA OutputsStay ==
  ASSUME CallsOK, OutputsOK, NEW r \in Requests, Moves(r), Tried(r), Ends(r), outputs' = outputs
  PROVE  OutputsOK'
<1> SUFFICES ASSUME NEW o \in outputs, o.by[1] = r
             PROVE  \/ call'[r].step \in Over
                    \/ /\ o.by[2] <= call'[r].try
                       /\ call'[r].step \in Before => o.by[2] < call'[r].try
  BY DEF OutputsOK, Moves
<1>1. /\ call[r].step # "none" /\ o.by[2] <= call[r].try /\ o.by[2] \in Nat /\ call[r].try \in Nat
      /\ call[r].step \in Before => o.by[2] < call[r].try
  BY DEF OutputsOK, Ends, CallsOK, CallOK, Attempts
<1>2. QED
  BY <1>1 DEF Tried

LEMMA ContractsStay ==
  ASSUME ContractsOK, NEW r \in Requests, Moves(r), Ends(r),
         \A d \in Names : doc'[d].contract = doc[d].contract
  PROVE  ContractsOK'
<1> SUFFICES ASSUME NEW d \in Names, NEW k \in Attempts, doc[d].contract = k, k[1] \in Requests
             PROVE  HasWritten(k[1])'
  BY DEF ContractsOK
<1>1. HasWritten(k[1])
  BY DEF ContractsOK
<1>2. CASE k[1] = r
  BY <1>1, <1>2 DEF HasWritten, Moves, Ends, Over
<1>3. CASE k[1] # r
  BY <1>1, <1>3 DEF HasWritten, Moves
<1>4. QED
  BY <1>2, <1>3

LEMMA WholeStays ==
  ASSUME OutputsOK, ContractIsWhole, NEW r \in Requests, Moves(r), PagesGrow, outputs' = outputs,
         \A d \in Names : doc'[d].contract = doc[d].contract
  PROVE  ContractIsWhole'
<1> SUFFICES ASSUME NEW d \in Names, NEW o \in outputs, o.by = doc[d].contract,
                    o.by[1] \in Requests => call'[o.by[1]].op # "quote", NEW n \in o.numbers
             PROVE  \E p \in pages' :
                        p.doc = d /\ p.number = n /\ p.by = o.by /\ (o.texts => p.text)
  BY DEF ContractIsWhole
<1>1. o.by[1] \in Requests => call[o.by[1]].op # "quote"
  BY DEF OutputsOK, Moves
<1>2. PICK p \in pages : p.doc = d /\ p.number = n /\ p.by = o.by /\ (o.texts => p.text)
  BY <1>1 DEF ContractIsWhole
<1>3. QED
  BY <1>2 DEF PagesGrow

LEMMA LeavesAloneKeeps ==
  ASSUME CallsOK, ContractInv, NEW r \in Requests, LeavesAlone(r),
         call[r].step = "none" => pages' = pages
  PROVE  ContractInv'
<1> USE DEF ContractInv, LeavesAlone, WorkFacts
<1>1. PagesGrow
  BY SamePages
<1>2. PagesOK'
  BY DEF PagesOK, Moves
<1>3. OutputsOK'
  BY OutputsStay
<1>4. ContractsOK'
  BY ContractsStay
<1>5. ContractIsWhole'
  BY <1>1, WholeStays
<1>6. Keeps(r)'
  <2> SUFFICES ASSUME call'[r].op \in {"pipeline", "parseJob", "ingest"}, call'[r].step \in Parsing,
                      NEW o \in outputs, o.by = Key(r)'
               PROVE  Kept(r, o)'
    BY DEF Keeps, Kept, Parsing
  <2>1. /\ call[r].step = "legend" /\ call'[r].step = "parsed" /\ Key(r)' = Key(r)
        /\ call'[r].op = call[r].op /\ call'[r].on = call[r].on
    BY DEF Moves, Key
  <2>2. Kept(r, o)
    BY <2>1 DEF KeepsOK, Keeps
  <2>3. QED
    BY <1>1, <2>1, <2>2, StoredGrows DEF Kept
<1>7. KeepsOK'
  BY <1>1, <1>6, OthersKeep
<1>8. QED
  BY <1>2, <1>3, <1>4, <1>5, <1>7

(* A page is marked.                                                       *)
LEMMA MarkGrows ==
  ASSUME PagesOK, NEW r \in Requests, Moves(r), NEW p \in pages,
         pages' = (pages \ {p}) \cup {[p EXCEPT !.text = TRUE]}
  PROVE  PagesGrow /\ PagesOK' /\ Marked(p.doc, p.number, p.by)'
<1> DEFINE m == [p EXCEPT !.text = TRUE]
<1>1. /\ DOMAIN p = PageFields
      /\ DOMAIN m = PageFields /\ m.doc = p.doc /\ m.number = p.number /\ m.by = p.by /\ m.text
  BY DEF PagesOK, PageFields
<1> HIDE DEF m
<1>2. pages' = (pages \ {p}) \cup {m}
  BY DEF m
<1>3. PagesGrow
  BY <1>1, <1>2 DEF PagesGrow
<1>4. PagesOK'
  <2> SUFFICES ASSUME NEW q \in pages'
               PROVE  /\ DOMAIN q = PageFields /\ q.by \in Attempts
                      /\ q.by[1] \in Requests => call'[q.by[1]].step # "none" /\ q.doc = call'[q.by[1]].on
    BY DEF PagesOK
  <2>1. PICK q0 \in pages : q.by = q0.by /\ q.doc = q0.doc /\ DOMAIN q = PageFields
    BY <1>1, <1>2 DEF PagesOK
  <2>2. QED
    BY <2>1 DEF PagesOK, Moves
<1>5. QED
  BY <1>1, <1>2, <1>3, <1>4 DEF Marked

LEMMA AddTextKeeps ==
  ASSUME CallsOK, AllPlaced, DocsOK, ContractInv, NEW r \in Requests, AddTextBlocks(r)
  PROVE  WorkFacts(r) /\ ContractInv'
<1>1. WorkFacts(r) /\ Tried(r) /\ Ends(r) /\ call[r].op = "addText" /\ call[r].step = "begin"
      /\ Moves(r) /\ call'[r].op = "addText" /\ doc' = doc /\ outputs' = outputs
  BY AddTextMoves DEF WorkFacts, Moves, AddTextBlocks, At
<1>2. PICK p \in pages : pages' = (pages \ {p}) \cup {[p EXCEPT !.text = TRUE]}
  BY DEF AddTextBlocks
<1>3. PagesGrow /\ PagesOK'
  BY <1>1, <1>2, MarkGrows DEF ContractInv
<1>4. OutputsOK' /\ ContractsOK' /\ ContractIsWhole'
  BY <1>1, <1>3, OutputsStay, ContractsStay, WholeStays DEF ContractInv
<1>5. Keeps(r)'
  BY <1>1 DEF Keeps
<1>6. KeepsOK'
  BY <1>1, <1>3, <1>5, OthersKeep DEF ContractInv
<1>7. QED
  BY <1>1, <1>3, <1>4, <1>6 DEF ContractInv

(* Inserted documents: none carries a contract but the quote's.            *)
LEMMA CreateKeeps ==
  ASSUME CallsOK, AllPlaced, DocsOK, ContractInv, NEW r \in Requests, CreateDocument(r)
  PROVE  WorkFacts(r) /\ ContractInv'
<1>1. /\ call[r].op = "create" /\ call[r].step = "begin" /\ Goto(r, "returned")
      /\ pages' = pages /\ outputs' = outputs
  BY DEF CreateDocument, At
<1>2. Moves(r) /\ call'[r].op = "create" /\ call'[r].step = "returned"
  BY <1>1, GoesOn, GotoFacts DEF Steps, After, Over, Placed
<1>3. Tried(r) /\ Ends(r) /\ r \in Names
  BY <1>1, <1>2 DEF Tried, Ends, Over, Names
<1>4. /\ DocsOK' /\ \A d \in Names : d # r => doc'[d] = doc[d]
      /\ doc'[r].status = "uploaded" /\ doc'[r].contract = Nothing
  BY <1>3 DEF CreateDocument, DocsOK
<1>5. WorkFacts(r)
  BY <1>1, <1>2, <1>4 DEF WorkFacts, AtWork, InProgress
<1>6. Nothing \notin Attempts
  BY RequestsAssumption DEF Attempts, Names
<1>7. PagesGrow /\ PagesOK' /\ OutputsOK'
  <2>1. PagesGrow
    BY <1>1, SamePages
  <2>2. PagesOK'
    BY <1>1, <1>2 DEF ContractInv, PagesOK, Moves
  <2>3. OutputsOK'
    BY <1>1, <1>2, <1>3, OutputsStay DEF ContractInv
  <2>4. QED
    BY <2>1, <2>2, <2>3
<1>8. ContractsOK'
  <2> SUFFICES ASSUME NEW d \in Names, NEW k \in Attempts, doc'[d].contract = k, k[1] \in Requests
               PROVE  HasWritten(k[1])'
    BY DEF ContractsOK
  <2>1. d # r /\ HasWritten(k[1])
    BY <1>4, <1>6 DEF ContractInv, ContractsOK
  <2>2. QED
    BY <1>1, <1>2, <2>1 DEF HasWritten, Moves
<1>9. ContractIsWhole'
  <2> SUFFICES ASSUME NEW d \in Names, NEW o \in outputs, o.by = doc'[d].contract,
                      o.by[1] \in Requests => call'[o.by[1]].op # "quote", NEW n \in o.numbers
               PROVE  \E p \in pages :
                        p.doc = d /\ p.number = n /\ p.by = o.by /\ (o.texts => p.text)
    BY <1>1 DEF ContractIsWhole
  <2>1. d # r
    BY <1>4, <1>6 DEF ContractInv, OutputsOK
  <2>2. o.by[1] \in Requests => call[o.by[1]].op # "quote"
    BY <1>2 DEF ContractInv, OutputsOK, Moves
  <2>3. QED
    BY <1>4, <2>1, <2>2 DEF ContractInv, ContractIsWhole
<1>10. Keeps(r)'
  BY <1>2 DEF Keeps
<1>11. KeepsOK'
  BY <1>1, <1>2, <1>7, <1>10, OthersKeep DEF ContractInv
<1>12. QED
  BY <1>5, <1>7, <1>8, <1>9, <1>11 DEF ContractInv

LEMMA QuoteDocumentKeeps ==
  ASSUME CallsOK, AllPlaced, OwnDocument, DocsOK, ContractInv, NEW r \in Requests,
         InsertQuoteDocument(r)
  PROVE  WorkFacts(r) /\ ContractInv'
<1>1. /\ call[r].op = "quote" /\ call[r].step = "document" /\ Goto(r, "pages")
      /\ pages' = pages /\ outputs' = outputs /\ call[r].on = r
  BY DEF InsertQuoteDocument, At, OwnDocument
<1>2. Moves(r) /\ call'[r].op = "quote" /\ call'[r].step = "pages" /\ call'[r].on = r
      /\ call'[r].try = call[r].try
  <2>1. /\ "pages" \in Steps \ {"none"} /\ "pages" \notin Over
        /\ Placed([op |-> call[r].op, step |-> "pages"])
    BY <1>1 DEF Steps, After, Parsing, Over, Placed
  <2>2. QED
    BY <1>1, <2>1, GoesOn, GotoFacts
<1>3. Tried(r) /\ Ends(r) /\ r \in Names
  BY <1>1, <1>2 DEF Tried, Ends, Over, Names, Before
<1>4. /\ DocsOK' /\ \A d \in Names : d # r => doc'[d] = doc[d]
      /\ doc'[r].contract = Key(r)
  BY <1>3 DEF InsertQuoteDocument, DocsOK
<1>5. WorkFacts(r)
  BY <1>1, <1>2, <1>4 DEF WorkFacts, AtWork
<1>6. Key(r)[1] = r
  BY DEF Key
<1>7. PagesGrow /\ PagesOK' /\ OutputsOK'
  <2>1. PagesGrow
    BY <1>1, SamePages
  <2>2. PagesOK'
    BY <1>1, <1>2 DEF ContractInv, PagesOK, Moves
  <2>3. OutputsOK'
    BY <1>1, <1>2, <1>3, OutputsStay DEF ContractInv
  <2>4. QED
    BY <2>1, <2>2, <2>3
<1>8. ContractsOK'
  <2> SUFFICES ASSUME NEW d \in Names, NEW k \in Attempts, doc'[d].contract = k, k[1] \in Requests
               PROVE  HasWritten(k[1])'
    BY DEF ContractsOK
  <2>1. CASE k[1] = r
    BY <1>2, <2>1 DEF HasWritten
  <2>2. CASE k[1] # r
    BY <1>2, <1>4, <1>6, <2>2 DEF ContractInv, ContractsOK, HasWritten, Moves
  <2>3. QED
    BY <2>1, <2>2
<1>9. ContractIsWhole'
  <2> SUFFICES ASSUME NEW d \in Names, NEW o \in outputs, o.by = doc'[d].contract,
                      o.by[1] \in Requests => call'[o.by[1]].op # "quote", NEW n \in o.numbers
               PROVE  \E p \in pages :
                        p.doc = d /\ p.number = n /\ p.by = o.by /\ (o.texts => p.text)
    BY <1>1 DEF ContractIsWhole
  <2>1. d # r
    BY <1>2, <1>4, <1>6
  <2>2. o.by[1] \in Requests => call[o.by[1]].op # "quote"
    BY <1>2 DEF ContractInv, OutputsOK, Moves
  <2>3. QED
    BY <1>4, <2>1, <2>2 DEF ContractInv, ContractIsWhole
<1>10. Keeps(r)'
  BY <1>2 DEF Keeps
<1>11. KeepsOK'
  BY <1>1, <1>2, <1>7, <1>10, OthersKeep DEF ContractInv
<1>12. QED
  BY <1>5, <1>7, <1>8, <1>9, <1>11 DEF ContractInv

-----------------------------------------------------------------------------
(* The answer to a parse.                                                  *)
LEMMA AnswerKeeps ==
  ASSUME CallsOK, AllPlaced, DocsOK, ContractInv, NEW r \in Requests,
         call[r].step \in {"agent", "begin"},
         call[r].op \in {"pipeline", "parseJob", "ingest", "addPages", "quote"},
         NEW parse, NEW s, NEW texts, texts => parse.texts,
         s \in {"pages", "legend", "parsed", "document"}, s = "document" <=> call[r].op = "quote",
         s # "pages" /\ s # "document" => parse.numbers = {},
         TakesParse(r, parse, s),
         outputs' = outputs \cup {[by |-> Key(r), numbers |-> parse.numbers, texts |-> texts]},
         UNCHANGED rows, s = "legend" => call[r].op # "addPages"
  PROVE  WorkFacts(r) /\ ContractInv'
<1>1. PICK c : Edited(r, c) /\ c.step = s /\ c.todo = parse.numbers /\ c.texts = parse.texts
  BY ParseEdited
<1>2. Placed(c)
  BY <1>1 DEF Placed, Edited
<1>3. Moves(r) /\ call'[r] = c
  <2>1. c.step \in Steps \ {"none"}
    BY <1>1 DEF Steps, Parsing
  <2>2. QED
    BY <1>1, <1>2, <2>1, EditFacts
<1>4. /\ call'[r].step = s /\ call'[r].todo = parse.numbers /\ call'[r].texts = parse.texts
      /\ call'[r].op = call[r].op /\ call'[r].on = call[r].on /\ call'[r].try = call[r].try
      /\ call[r].try \in Nat /\ Key(r)' = Key(r) /\ call[r].step # "none" /\ r \in Names
  BY <1>1, <1>3 DEF Edited, Key, CallsOK, CallOK, Names
<1>5. doc' = doc /\ pages' = pages /\ s \notin Before /\ s \notin Over
  BY DEF rows, Before, Over
<1>6. WorkFacts(r)
  BY <1>3, <1>4, <1>5 DEF WorkFacts, DocsOK, AtWork
<1>7. call[r].step \in Before /\ call[r].step \notin Over /\ call[r].step \notin After
  BY DEF Before, Over, After
<1>8. ~ HasWritten(r) \/ call[r].op = "quote"
  BY <1>7 DEF HasWritten
<1>9. Key(r) \in Attempts /\ Key(r)[1] = r /\ Key(r)[2] = call[r].try
  BY <1>4 DEF Key, Attempts
<1>10. PagesGrow /\ PagesOK'
  BY <1>3, <1>5, SamePages DEF ContractInv, PagesOK, Moves
<1>11. OutputsOK'
  <2> SUFFICES ASSUME NEW o \in outputs'
               PROVE  /\ o.by \in Attempts
                      /\ o.by[1] \in Requests =>
                           /\ call'[o.by[1]].step # "none"
                           /\ \/ call'[o.by[1]].step \in Over
                              \/ /\ o.by[2] <= call'[o.by[1]].try
                                 /\ call'[o.by[1]].step \in Before => o.by[2] < call'[o.by[1]].try
    BY DEF OutputsOK
  <2>1. CASE o \in outputs
    <3>1. CASE o.by[1] = r
      BY <1>4, <1>5, <1>7, <2>1, <3>1 DEF ContractInv, OutputsOK
    <3>2. CASE o.by[1] # r
      BY <1>3, <2>1, <3>2 DEF ContractInv, OutputsOK, Moves
    <3>3. QED
      BY <3>1, <3>2
  <2>2. CASE o.by = Key(r)
    BY <1>4, <1>5, <1>9, <2>2
  <2>3. QED
    BY <2>1, <2>2
<1>12. ContractsOK'
  <2> SUFFICES ASSUME NEW d \in Names, NEW k \in Attempts, doc[d].contract = k, k[1] \in Requests
               PROVE  HasWritten(k[1])'
    BY <1>5 DEF ContractsOK
  <2>1. HasWritten(k[1])
    BY DEF ContractInv, ContractsOK
  <2>2. QED
    BY <1>3, <1>4, <1>8, <2>1 DEF HasWritten, Moves
<1>13. ContractIsWhole'
  <2> SUFFICES ASSUME NEW d \in Names, NEW o \in outputs', o.by = doc[d].contract,
                      o.by[1] \in Requests => call'[o.by[1]].op # "quote", NEW n \in o.numbers
               PROVE  \E p \in pages :
                        p.doc = d /\ p.number = n /\ p.by = o.by /\ (o.texts => p.text)
    BY <1>5 DEF ContractIsWhole
  <2>1. CASE o \in outputs
    BY <1>3, <2>1 DEF ContractInv, OutputsOK, ContractIsWhole, Moves
  <2>2. CASE o.by = Key(r)
    BY <1>4, <1>8, <1>9, <2>2 DEF ContractInv, ContractsOK
  <2>3. QED
    BY <2>1, <2>2
<1>14. Keeps(r)'
  <2> SUFFICES ASSUME NEW o \in outputs', o.by = Key(r), call[r].op # "quote"
               PROVE  Kept(r, o)'
    BY <1>4 DEF Keeps
  <2>1. o \notin outputs
    BY <1>4, <1>7, <1>9 DEF ContractInv, OutputsOK
  <2>2. o.numbers = parse.numbers /\ o.texts = texts
    BY <2>1
  <2>3. QED
    BY <1>4, <2>2 DEF Kept
<1>15. KeepsOK'
  BY <1>3, <1>10, <1>14, OthersKeep DEF ContractInv
<1>16. QED
  BY <1>6, <1>10, <1>11, <1>12, <1>13, <1>15 DEF ContractInv

LEMMA ParsesKeep ==
  ASSUME CallsOK, AllPlaced, DocsOK, ContractInv, NEW r \in Requests,
         PipelineParse(r) \/ JobParse(r) \/ IngestParse(r) \/ AddPages(r)
  PROVE  WorkFacts(r) /\ ContractInv'
<1>1. /\ call[r].step \in {"agent", "begin"} /\ Takes(r)
      /\ call[r].op \in {"pipeline", "parseJob", "ingest", "addPages"}
  BY DEF PipelineParse, JobParse, IngestParse, AddPages, At
<1>2. PICK parse \in Parses : Answered(r, parse,
        IF parse.numbers = {} THEN AfterPages(r, FALSE) ELSE "pages")
  BY <1>1 DEF Takes
<1> DEFINE s == IF parse.numbers = {} THEN AfterPages(r, FALSE) ELSE "pages"
           texts == parse.texts /\ call[r].op \notin {"addPages", "quote"}
<1>3. /\ TakesParse(r, parse, s) /\ (texts => parse.texts)
      /\ outputs' = outputs \cup {[by |-> Key(r), numbers |-> parse.numbers, texts |-> texts]}
  BY <1>2 DEF Answered, TakesParse
<1>4. /\ s \in {"pages", "legend", "parsed"} /\ (s # "pages" => parse.numbers = {})
      /\ s = "legend" => call[r].op # "addPages"
  BY DEF AfterPages
<1>5. UNCHANGED rows
  BY <1>1 DEF Takes
<1> HIDE DEF s, texts
<1>6. QED
  BY <1>1, <1>3, <1>4, <1>5, AnswerKeeps

LEMMA QuoteParseKeeps ==
  ASSUME CallsOK, AllPlaced, DocsOK, ContractInv, NEW r \in Requests, QuoteParse(r)
  PROVE  WorkFacts(r) /\ ContractInv'
<1>1. call[r].step = "agent" /\ call[r].op = "quote" /\ UNCHANGED rows
  BY DEF QuoteParse, At
<1>2. PICK parse \in Parses : Answered(r, parse, "document")
  BY DEF QuoteParse
<1> DEFINE texts == parse.texts /\ call[r].op \notin {"addPages", "quote"}
<1>3. /\ TakesParse(r, parse, "document") /\ (texts => parse.texts)
      /\ outputs' = outputs \cup {[by |-> Key(r), numbers |-> parse.numbers, texts |-> texts]}
  BY <1>2 DEF Answered, TakesParse
<1> HIDE DEF texts
<1>4. QED
  BY <1>1, <1>3, AnswerKeeps

-----------------------------------------------------------------------------
(* Pages are stored and marked.                                            *)
LEMMA PagesStepKeeps ==
  ASSUME CallsOK, DocsOK, ContractInv, NEW r \in Requests, Moves(r), call[r].step \in Parsing,
         call'[r].step \in Parsing \cup {"fail"}, call'[r].try = call[r].try,
         PagesGrow, PagesOK', doc' = doc, outputs' = outputs, Keeps(r)'
  PROVE  WorkFacts(r) /\ ContractInv'
<1>1. Tried(r) /\ Ends(r) /\ call[r].step # "none"
      /\ call'[r].step \notin {"none", "returned", "detect"}
  BY DEF Tried, Ends, Parsing, Before, After, Over
<1>2. WorkFacts(r)
  BY <1>1 DEF WorkFacts, DocsOK, AtWork, Moves
<1>3. OutputsOK' /\ ContractsOK' /\ ContractIsWhole'
  BY <1>1, OutputsStay, ContractsStay, WholeStays DEF ContractInv
<1>4. KeepsOK'
  BY OthersKeep DEF ContractInv
<1>5. QED
  BY <1>2, <1>3, <1>4 DEF ContractInv

LEMMA QuotePagesKeep ==
  ASSUME CallsOK, AllPlaced, OwnDocument, DocsOK, ContractInv, NEW r \in Requests,
         InsertQuotePages(r)
  PROVE  WorkFacts(r) /\ ContractInv'
<1>1. /\ call[r].op = "quote" /\ call[r].step = "pages" /\ call[r].on = r
      /\ doc' = doc /\ outputs' = outputs
      /\ pages' = pages \cup {PageOf(r, n, Key(r), FALSE) : n \in call[r].todo}
  BY DEF InsertQuotePages, At, OwnDocument
<1>2. PICK s \in {"fail", "parsed"} : Goto(r, s)
  BY DEF InsertQuotePages, AfterQuotePages
<1>3. s \in Steps \ {"none"} /\ Placed([op |-> call[r].op, step |-> s]) /\ s \notin Over
      /\ s \in Parsing \cup {"fail"}
  BY <1>1 DEF Steps, After, Parsing, Placed, Over
<1>4. Moves(r) /\ call'[r].step = s /\ call'[r].try = call[r].try /\ call'[r].op = "quote"
  BY <1>1, <1>2, <1>3, GoesOn, GotoFacts
<1>5. PagesGrow
  BY <1>1 DEF PagesGrow
<1>6. PagesOK'
  <2>1. \A n : /\ DOMAIN PageOf(r, n, Key(r), FALSE) = PageFields
               /\ PageOf(r, n, Key(r), FALSE).by = Key(r)
               /\ PageOf(r, n, Key(r), FALSE).doc = r
    BY DEF PageOf, PageFields
  <2>2. QED
    BY <1>1, <1>4, <2>1, PagesKeepOwners DEF ContractInv
<1>7. Keeps(r)'
  BY <1>4 DEF Keeps
<1>8. QED
  BY <1>1, <1>3, <1>4, <1>5, <1>6, <1>7, PagesStepKeeps DEF Parsing

StepTaken(r, s, todo) == call' = [call EXCEPT ![r].step = s, ![r].todo = todo]
Worked(r, todo)       == call' = [call EXCEPT ![r].todo = todo]

LEMMA WorkEdited ==
  ASSUME CallsOK, NEW r \in Requests, NEW s, NEW todo,
         \/ StepTaken(r, s, todo)
         \/ Worked(r, todo) /\ s = call[r].step
  PROVE  \E c : Edited(r, c) /\ c.step = s /\ c.todo = todo /\ c.texts = call[r].texts
<1>1. DOMAIN call = Requests /\ DOMAIN call[r] = Fields
  BY DEF CallsOK, CallOK
<1>2. CASE StepTaken(r, s, todo)
  <2> DEFINE c == [[call[r] EXCEPT !.step = s] EXCEPT !.todo = todo]
  <2>1. call' = [call EXCEPT ![r] = c]
    BY <1>1, <1>2 DEF StepTaken
  <2>2. /\ DOMAIN c = Fields /\ c.op = call[r].op /\ c.on = call[r].on /\ c.try = call[r].try
        /\ c.step = s /\ c.todo = todo /\ c.texts = call[r].texts
    BY <1>1 DEF Fields
  <2> HIDE DEF c
  <2>3. QED
    BY <2>1, <2>2 DEF Edited
<1>3. CASE Worked(r, todo) /\ s = call[r].step
  <2> DEFINE c == [call[r] EXCEPT !.todo = todo]
  <2>1. call' = [call EXCEPT ![r] = c]
    BY <1>1, <1>3 DEF Worked
  <2>2. /\ DOMAIN c = Fields /\ c.op = call[r].op /\ c.on = call[r].on /\ c.try = call[r].try
        /\ c.step = s /\ c.todo = todo /\ c.texts = call[r].texts
    BY <1>1, <1>3 DEF Fields
  <2> HIDE DEF c
  <2>3. QED
    BY <2>1, <2>2 DEF Edited
<1>4. QED
  BY <1>2, <1>3

LEMMA InsertPageKeeps ==
  ASSUME CallsOK, AllPlaced, DocsOK, ContractInv, NEW r \in Requests, InsertPage(r)
  PROVE  WorkFacts(r) /\ ContractInv'
<1> DEFINE next == AfterPages(r, call[r].texts)
           s == IF Done(r) # {} THEN "pages" ELSE next
           todo == IF Done(r) # {} THEN Done(r)
                   ELSE IF next = "text" THEN {p.number : p \in MyPages(r)} \cup call[r].todo ELSE {}
           page == PageOf(call[r].on, First(call[r].todo), Key(r), FALSE)
<1>1. /\ call[r].step = "pages" /\ call[r].op \in {"pipeline", "parseJob", "ingest", "addPages"}
      /\ doc' = doc /\ outputs' = outputs /\ pages' = pages \cup {page}
  BY DEF InsertPage, AllPlaced, Placed
<1>2. StepTaken(r, s, todo) \/ (Worked(r, todo) /\ s = call[r].step)
  BY DEF InsertPage, StepTaken, Worked
<1>3. /\ s \in {"pages", "text", "legend", "parsed"}
      /\ call[r].op # "addPages" /\ s # "pages" => s = IF call[r].texts THEN "text" ELSE "legend"
      /\ call[r].op = "addPages" => s \in {"pages", "parsed"}
  BY DEF AfterPages
<1>4. s = "text" => todo = {p.number : p \in MyPages(r)} \cup call[r].todo
  BY DEF AfterPages
<1>5. /\ s = "pages" => todo = call[r].todo \ {First(call[r].todo)}
      /\ s # "pages" => call[r].todo \subseteq {First(call[r].todo)}
  BY <1>3 DEF Done, AfterPages
<1>6. /\ DOMAIN page = PageFields /\ page.by = Key(r) /\ page.doc = call[r].on
      /\ page.number = First(call[r].todo)
  BY DEF PageOf, PageFields
<1> HIDE DEF s, todo, page, next
<1>7. PICK c : Edited(r, c) /\ c.step = s /\ c.todo = todo /\ c.texts = call[r].texts
  BY <1>2, WorkEdited
<1>8. Placed(c)
  BY <1>1, <1>3, <1>7 DEF Placed, Edited
<1>9. Moves(r) /\ call'[r] = c
  <2>1. c.step \in Steps \ {"none"}
    BY <1>3, <1>7 DEF Steps, Parsing
  <2>2. QED
    BY <1>1, <1>7, <1>8, <2>1, EditFacts
<1>10. /\ call'[r].step = s /\ call'[r].todo = todo /\ call'[r].texts = call[r].texts
       /\ call'[r].op = call[r].op /\ call'[r].on = call[r].on /\ call'[r].try = call[r].try
       /\ Key(r)' = Key(r)
  BY <1>7, <1>9 DEF Edited, Key
<1>15. PICK d, k, m : d = call[r].on /\ k = Key(r) /\ m = First(call[r].todo)
  OBVIOUS
<1>11. PagesGrow /\ Stored(d, m, k)'
  BY <1>1, <1>6, <1>15 DEF PagesGrow, Stored
<1>12. PagesOK'
  BY <1>1, <1>6, <1>9, PagesKeepOwners DEF ContractInv
<1>13. Keeps(r)'
  <2> SUFFICES ASSUME call[r].op \in {"pipeline", "parseJob", "ingest"},
                      NEW o \in outputs, o.by = Key(r)
               PROVE  Kept(r, o)'
    BY <1>1, <1>10 DEF Keeps
  <2>1. /\ \A n \in o.numbers : n \in call[r].todo \/ Stored(d, n, k)
        /\ o.texts => call[r].texts
    BY <1>1, <1>15 DEF ContractInv, KeepsOK, Keeps, Kept
  <2>2. \A n : Stored(d, n, k) => Stored(d, n, k)'
    BY <1>11, StoredGrows
  <2>3. CASE s = "pages"
    <3>1. \A n \in o.numbers : n \in todo \/ Stored(d, n, k)'
      BY <1>5, <1>11, <1>15, <2>1, <2>2, <2>3
    <3>2. QED
      BY <1>10, <1>15, <2>1, <2>3, <3>1 DEF Kept
  <2>4. CASE s # "pages"
    <3>1. \A n \in o.numbers : Stored(d, n, k)'
      BY <1>5, <1>11, <1>15, <2>1, <2>2, <2>4
    <3>2. s = "text" => \A n \in o.numbers : n \in todo
      BY <1>4, <1>15, <2>1 DEF Stored, MyPages
    <3>3. s # "text" => ~ o.texts
      BY <1>3, <2>1, <2>4
    <3>4. QED
      BY <1>10, <1>15, <2>4, <3>1, <3>2, <3>3 DEF Kept
  <2>5. QED
    BY <2>3, <2>4
<1>14. QED
  BY <1>1, <1>3, <1>9, <1>10, <1>11, <1>12, <1>13, PagesStepKeeps DEF Parsing

LEMMA MarkTextKeeps ==
  ASSUME CallsOK, AllPlaced, DocsOK, ContractInv, NEW r \in Requests, MarkText(r)
  PROVE  WorkFacts(r) /\ ContractInv'
<1> DEFINE todo == Done(r)
           s == IF todo = {} THEN "legend" ELSE "text"
<1>1. /\ call[r].step = "text" /\ call[r].op \in {"pipeline", "parseJob", "ingest", "addPages"}
      /\ doc' = doc /\ outputs' = outputs /\ TakesUp(r, todo, s)
  BY DEF MarkText, AllPlaced, Placed, TakesUp
<1>2. PICK p \in MyPages(r) : /\ p.number = First(call[r].todo)
                              /\ pages' = (pages \ {p}) \cup {[p EXCEPT !.text = TRUE]}
  BY DEF MarkText
<1>3. s \in {"legend", "text"} /\ todo = call[r].todo \ {First(call[r].todo)}
      /\ (s = "legend" => call[r].todo \subseteq {First(call[r].todo)})
  BY DEF Done
<1> HIDE DEF s, todo
<1>4. PICK c : Edited(r, c) /\ c.step = s /\ c.todo = todo /\ c.texts = call[r].texts
  BY <1>1, TodoEdited
<1>5. Placed(c)
  BY <1>1, <1>3, <1>4 DEF Placed, Edited
<1>6. Moves(r) /\ call'[r] = c
  <2>1. c.step \in Steps \ {"none"}
    BY <1>3, <1>4 DEF Steps, Parsing
  <2>2. QED
    BY <1>1, <1>4, <1>5, <2>1, EditFacts
<1>7. /\ call'[r].step = s /\ call'[r].todo = todo
      /\ call'[r].op = call[r].op /\ call'[r].on = call[r].on /\ call'[r].try = call[r].try
      /\ Key(r)' = Key(r) /\ Key(r)[1] = r
  BY <1>4, <1>6 DEF Edited, Key
<1>8. p \in pages /\ p.by = Key(r) /\ p.doc = call[r].on
  BY <1>7 DEF MyPages, ContractInv, PagesOK
<1>12. PICK d, k, m : d = call[r].on /\ k = Key(r) /\ m = First(call[r].todo)
  OBVIOUS
<1>9. PagesGrow /\ PagesOK' /\ Marked(d, m, k)'
  <2>1. PagesOK
    BY DEF ContractInv
  <2>2. PagesGrow /\ PagesOK' /\ Marked(p.doc, p.number, p.by)'
    BY <1>2, <1>6, <1>8, <2>1, MarkGrows
  <2>3. p.doc = d /\ p.number = m /\ p.by = k
    BY <1>2, <1>8, <1>12
  <2>4. QED
    BY <2>2, <2>3
<1>10. Keeps(r)'
  <2> SUFFICES ASSUME call[r].op \in {"pipeline", "parseJob", "ingest"},
                      NEW o \in outputs, o.by = Key(r)
               PROVE  Kept(r, o)'
    BY <1>1, <1>7 DEF Keeps
  <2>1. \A n \in o.numbers : /\ Stored(d, n, k)
                             /\ o.texts => n \in call[r].todo \/ Marked(d, n, k)
    BY <1>1, <1>12 DEF ContractInv, KeepsOK, Keeps, Kept
  <2>2. \A n : /\ Stored(d, n, k) => Stored(d, n, k)'
               /\ Marked(d, n, k) => Marked(d, n, k)'
    BY <1>9, StoredGrows
  <2>3. \A n \in o.numbers : Stored(d, n, k)'
    BY <2>1, <2>2
  <2>4. \A n \in o.numbers : o.texts => Marked(d, n, k)' \/ (s = "text" /\ n \in todo)
    BY <1>3, <1>9, <1>12, <2>1, <2>2
  <2>5. QED
    BY <1>3, <1>7, <1>12, <2>3, <2>4 DEF Kept
<1>11. QED
  BY <1>1, <1>3, <1>6, <1>7, <1>9, <1>10, PagesStepKeeps DEF Parsing

-----------------------------------------------------------------------------
(* The document is parsed.                                                 *)
LEMMA WriteParsedKeeps ==
  ASSUME CallsOK, AllPlaced, DocsOK, ContractInv, NEW r \in Requests, WriteParsed(r)
  PROVE  WorkFacts(r) /\ ContractInv'
<1>1. PICK d \in Names : d = call[r].on
  BY DEF CallsOK, CallOK, WriteParsed, NoOwn, AllPlaced, Placed
<1>2. /\ call[r].step = "parsed" /\ pages' = pages /\ outputs' = outputs
      /\ call[r].op \in {"pipeline", "parseJob", "ingest", "addPages", "quote"}
  BY DEF WriteParsed, AllPlaced, Placed
<1>3. PICK k : k = ContractOf(r)
  OBVIOUS
<1>4. /\ DocsOK' /\ \A e \in Names : e # d => doc'[e] = doc[e]
      /\ doc'[d].status = "parsed" /\ doc'[d].contract = k
  BY <1>1, <1>3 DEF WriteParsed, DocsOK
<1>5. k = IF call[r].op \in {"addPages", "quote"} THEN doc[d].contract ELSE Key(r)
  BY <1>1, <1>3 DEF ContractOf
<1>6. PICK s : s = IF call[r].op = "pipeline" THEN "detect" ELSE "returned"
  OBVIOUS
<1>7. Goto(r, s) /\ s \in Steps \ {"none"} /\ Placed([op |-> call[r].op, step |-> s])
  BY <1>6 DEF WriteParsed, Steps, After, Over, Placed
<1>8. /\ Moves(r) /\ call'[r].step = s /\ call'[r].op = call[r].op /\ call'[r].on = d
      /\ s \notin Over => call'[r].try = call[r].try
  BY <1>1, <1>2, <1>7, GoesOn, GotoFacts
<1>9. Tried(r) /\ Ends(r)
  BY <1>2, <1>6, <1>8 DEF Tried, Ends, Before, After, Over
<1>10. WorkFacts(r)
  BY <1>1, <1>4, <1>8 DEF WorkFacts, AtWork, InProgress
<1>11. PagesGrow /\ PagesOK' /\ OutputsOK'
  BY <1>2, <1>8, <1>9, SamePages, OutputsStay DEF ContractInv, PagesOK, Moves
<1>12. ~ HasWritten(r) \/ call[r].op = "quote"
  BY <1>2 DEF HasWritten, After, Over
<1>13. call[r].op \in {"pipeline", "parseJob", "ingest"} => HasWritten(r)'
  BY <1>6, <1>8 DEF HasWritten, After, Moves
<1>14. \A j \in Requests : HasWritten(j) => HasWritten(j)'
  BY <1>2, <1>8, <1>12 DEF HasWritten, Moves
<1>15. Key(r)[1] = r
  BY DEF Key
<1>16. ContractsOK'
  <2> SUFFICES ASSUME NEW e \in Names, NEW j \in Attempts, doc'[e].contract = j, j[1] \in Requests
               PROVE  HasWritten(j[1])'
    BY DEF ContractsOK
  <2>1. CASE doc[e].contract = j
    BY <1>14, <2>1 DEF ContractInv, ContractsOK
  <2>2. CASE doc[e].contract # j
    BY <1>2, <1>4, <1>5, <1>13, <1>15, <2>2
  <2>3. QED
    BY <2>1, <2>2
<1>17. ContractIsWhole'
  <2> SUFFICES ASSUME NEW e \in Names, NEW o \in outputs, o.by = doc'[e].contract,
                      o.by[1] \in Requests => call'[o.by[1]].op # "quote", NEW n \in o.numbers
               PROVE  \E p \in pages :
                        p.doc = e /\ p.number = n /\ p.by = o.by /\ (o.texts => p.text)
    BY <1>2 DEF ContractIsWhole
  <2>1. CASE o.by = doc[e].contract
    BY <1>8, <2>1 DEF ContractInv, OutputsOK, ContractIsWhole, Moves
  <2>2. CASE o.by # doc[e].contract
    <3>1. e = d /\ o.by = Key(r) /\ call[r].op \in {"pipeline", "parseJob", "ingest"}
      BY <1>2, <1>4, <1>5, <2>2
    <3>2. Kept(r, o)
      BY <3>1 DEF ContractInv, KeepsOK, Keeps
    <3>3. Stored(d, n, Key(r)) /\ (o.texts => Marked(d, n, Key(r)))
      BY <1>1, <1>2, <3>2 DEF Kept
    <3>4. QED
      BY <3>1, <3>3 DEF Stored, Marked
  <2>3. QED
    BY <2>1, <2>2
<1>18. Keeps(r)'
  BY <1>6, <1>8 DEF Keeps, Kept
<1>19. KeepsOK'
  BY <1>2, <1>8, <1>11, <1>18, OthersKeep DEF ContractInv
<1>20. QED
  BY <1>10, <1>11, <1>16, <1>17, <1>19 DEF ContractInv

-----------------------------------------------------------------------------
(* What holds of the documents in every state.                             *)
Ingested ==
  /\ CallsOK /\ AllPlaced /\ OwnDocument /\ DocsOK /\ WorkKnown /\ ContractInv

LEMMA MovesKeep ==
  ASSUME CallsOK, AllPlaced, OwnDocument, NEW r \in Requests, Moves(r),
         call[r].step = "none" => Begin(r)
  PROVE  CallsOK' /\ AllPlaced' /\ OwnDocument'
<1>1. CallsOK' /\ AllPlaced'
  BY DEF CallsOK, AllPlaced, Moves
<1>2. OwnDocument'
  <2> SUFFICES ASSUME NEW q \in Requests, call'[q].op = "quote", call'[q].step # "none"
               PROVE  call'[q].on = q
    BY DEF OwnDocument
  <2>1. CASE q # r \/ call[r].step # "none"
    BY <2>1 DEF OwnDocument, Moves
  <2>2. CASE q = r /\ call[r].step = "none"
    <3>1. PICK op \in Ops : \E on \in Targets(r, op) :
            call' = [call EXCEPT ![r].op = op, ![r].on = on, ![r].step = "begin"]
      BY <2>2 DEF Begin
    <3>2. PICK on \in Targets(r, op) :
            call' = [call EXCEPT ![r].op = op, ![r].on = on, ![r].step = "begin"]
      BY <3>1
    <3>3. call'[r].op = op /\ call'[r].on = on
      BY <3>2 DEF CallsOK, CallOK, Fields
    <3>4. QED
      BY <2>2, <3>3 DEF Targets
  <2>3. QED
    BY <2>1, <2>2
<1>3. QED
  BY <1>1, <1>2

LEMMA OnlyBeginBegins ==
  ASSUME NEW r, Step(r), call[r].step = "none"
  PROVE  Begin(r)
<1>1. ~ (Throws(r) \/ Crash(r) \/ MarkFailed(r))
  BY DEF Throws, Crash, MarkFailed, Live
<1>2. ~ (\/ StoreFile(r) \/ InsertArtifact(r) \/ CreateDocument(r) \/ InsertQuoteDocument(r)
         \/ InsertQuotePages(r) \/ DeleteFile(r) \/ DeleteArtifact(r) \/ MarkParsing(r)
         \/ LoadFile(r))
  BY DEF StoreFile, InsertArtifact, CreateDocument, InsertQuoteDocument, InsertQuotePages,
         DeleteFile, DeleteArtifact, MarkParsing, LoadFile, At
<1>3. ~ (\/ PipelineParse(r) \/ JobParse(r) \/ IngestParse(r) \/ AddPages(r)
         \/ RefuseOutput(r) \/ QuoteParse(r) \/ InsertPage(r) \/ MarkText(r)
         \/ InsertLegend(r) \/ WriteParsed(r) \/ AddTextBlocks(r))
  BY DEF PipelineParse, JobParse, IngestParse, AddPages, RefuseOutput, QuoteParse, InsertPage,
         MarkText, InsertLegend, WriteParsed, AddTextBlocks, At
<1>4. ~ (\/ ReadPages(r) \/ WriteRunning(r) \/ PipelineDetect(r) \/ JobDetect(r)
         \/ InsertDetections(r) \/ AddDetections(r) \/ WriteComplete(r))
  BY DEF ReadPages, WriteRunning, PipelineDetect, JobDetect, InsertDetections, AddDetections,
         WriteComplete, At
<1>5. QED
  BY <1>1, <1>2, <1>3, <1>4 DEF Step

LEMMA StepKeeps ==
  ASSUME Ingested, NEW r \in Requests, Step(r)
  PROVE  Ingested'
<1>1. CallsOK /\ AllPlaced /\ OwnDocument /\ DocsOK /\ WorkKnown /\ ContractInv
  BY DEF Ingested
<1>2. WorkFacts(r) /\ ContractInv'
  <2>1. CASE \/ Begin(r) \/ Throws(r) \/ Crash(r) \/ StoreFile(r) \/ InsertArtifact(r)
             \/ DeleteFile(r) \/ DeleteArtifact(r) \/ LoadFile(r) \/ RefuseOutput(r)
             \/ InsertLegend(r) \/ PipelineDetect(r) \/ JobDetect(r)
             \/ ReadPages(r) \/ InsertDetections(r) \/ AddDetections(r)
    <3>1. QuietFacts(r)
      BY <1>1, <2>1, BeginQuiet, FailuresQuiet, FilesQuiet, LegendQuiet, FindsQuiet, DetectsQuiet
    <3>2. WorkFacts(r) /\ LeavesAlone(r) /\ pages' = pages
      BY <3>1, QuietLeaves DEF QuietFacts
    <3>3. QED
      BY <1>1, <3>2, LeavesAloneKeeps
  <2>2. CASE MarkFailed(r) \/ MarkParsing(r) \/ WriteRunning(r) \/ WriteComplete(r)
    <3>1. LeavesAlone(r)
      BY <1>1, <2>2, MarksLeave, WritesLeave
    <3>2. WorkFacts(r) /\ pages' = pages
      BY <3>1 DEF LeavesAlone
    <3>3. QED
      BY <1>1, <3>1, <3>2, LeavesAloneKeeps
  <2>3. CASE \/ CreateDocument(r) \/ InsertQuoteDocument(r) \/ InsertQuotePages(r)
    BY <1>1, <2>3, CreateKeeps, QuoteDocumentKeeps, QuotePagesKeep
  <2>4. CASE \/ PipelineParse(r) \/ JobParse(r) \/ IngestParse(r) \/ AddPages(r) \/ QuoteParse(r)
    BY <1>1, <2>4, ParsesKeep, QuoteParseKeeps
  <2>5. CASE \/ InsertPage(r) \/ MarkText(r) \/ WriteParsed(r) \/ AddTextBlocks(r)
    BY <1>1, <2>5, InsertPageKeeps, MarkTextKeeps, WriteParsedKeeps, AddTextKeeps
  <2>6. QED
    BY <2>1, <2>2, <2>3, <2>4, <2>5 DEF Step
<1>3. Moves(r) /\ DocsOK'
  BY <1>2 DEF WorkFacts
<1>4. CallsOK' /\ AllPlaced' /\ OwnDocument'
  BY <1>1, <1>3, MovesKeep, OnlyBeginBegins
<1>5. WorkKnown'
  BY <1>1, <1>2, WorkKeeps
<1>6. QED
  BY <1>2, <1>3, <1>4, <1>5 DEF Ingested

LEMMA PagesOfParsed ==
  ASSUME NEW D, NEW P, NEW R, R = {PageOf(x, y, <<x, 1>>, TRUE) : x \in D, y \in P}
  PROVE  \A p : p \in R <=> \E x \in D : \E y \in P : p = PageOf(x, y, <<x, 1>>, TRUE)
  BY DEF PageOf

LEMMA InitIngested ==
  ASSUME Init
  PROVE  Ingested
<1>1. call = [r \in Requests |-> NoCall]
  BY DEF Init
<1>2. \A r \in Requests : call[r] = NoCall /\ NoCall.step = "none" /\ NoCall.op = "upload"
  BY <1>1 DEF NoCall
<1>3. CallsOK /\ AllPlaced /\ OwnDocument
  BY <1>1, <1>2, NoCallOK DEF CallsOK, AllPlaced, OwnDocument
<1>4. \A d \in Documents : d \notin Requests /\ d \in Names /\ <<d, 1>> \in Attempts /\ <<d, 1>>[1] = d
  BY RequestsAssumption DEF Names, Attempts
<1>5. /\ DOMAIN doc = Names
      /\ \A d \in Documents : doc[d] = [status |-> "parsed", artifact |-> d, contract |-> <<d, 1>>]
      /\ \A d \in Requests : doc[d] = NoDoc
  BY <1>4 DEF Init, Names
<1>6. DocsOK
  BY <1>5 DEF DocsOK, NoDoc, Names
<1>7. WorkKnown
  BY <1>5 DEF WorkKnown, NoDoc, Names, InProgress
<1>8. PagesOK
  BY <1>4 DEF Init, PagesOK, PageOf, PageFields
<1>9. OutputsOK
  BY <1>4 DEF Init, OutputsOK
<1>10. ContractsOK
  <2> SUFFICES ASSUME NEW d \in Names, NEW k \in Attempts, doc[d].contract = k, k[1] \in Requests
               PROVE  FALSE
    BY DEF ContractsOK
  <2>1. d \in Requests
    BY <1>4, <1>5 DEF Names
  <2>2. QED
    BY <1>5, <2>1, RequestsAssumption DEF NoDoc, Attempts, Names
<1>11. KeepsOK
  BY <1>2 DEF KeepsOK, Keeps
<1>12. ContractIsWhole
  <2> SUFFICES ASSUME NEW d \in Names, NEW o \in outputs, o.by = doc[d].contract,
                      NEW n \in o.numbers
               PROVE  \E p \in pages :
                        p.doc = d /\ p.number = n /\ p.by = o.by /\ (o.texts => p.text)
    BY DEF ContractIsWhole
  <2>1. PICK e \in Documents : o = [by |-> <<e, 1>>, numbers |-> PageNumbers, texts |-> TRUE]
    BY DEF Init
  <2>2. d = e
    BY <1>4, <1>5, <2>1, RequestsAssumption DEF NoDoc, Attempts, Names
  <2>3. d \in Documents /\ n \in PageNumbers
    BY <2>1, <2>2
  <2>4. pages = {PageOf(x, y, <<x, 1>>, TRUE) : x \in Documents, y \in PageNumbers}
    BY DEF Init
  <2>5. \A p : p \in pages <=>
          \E x \in Documents : \E y \in PageNumbers : p = PageOf(x, y, <<x, 1>>, TRUE)
    BY <2>4, PagesOfParsed
  <2>6. PICK p : p = PageOf(d, n, <<d, 1>>, TRUE)
    OBVIOUS
  <2>7. p \in pages
    BY <2>3, <2>5, <2>6
  <2>8. QED
    BY <2>1, <2>2, <2>6, <2>7 DEF PageOf
<1>13. QED
  BY <1>3, <1>6, <1>7, <1>8, <1>9, <1>10, <1>11, <1>12 DEF Ingested, ContractInv

LEMMA StutterIngested ==
  ASSUME Ingested, UNCHANGED vars
  PROVE  Ingested'
<1>1. /\ call' = call /\ doc' = doc /\ pages' = pages /\ outputs' = outputs
  BY DEF vars, rows
<1>2. CallsOK' /\ AllPlaced' /\ OwnDocument' /\ DocsOK' /\ WorkKnown'
  BY <1>1 DEF Ingested, CallsOK, AllPlaced, OwnDocument, DocsOK, WorkKnown, AtWork
<1>3. PagesOK' /\ OutputsOK' /\ ContractsOK' /\ ContractIsWhole'
  BY <1>1 DEF Ingested, ContractInv, PagesOK, OutputsOK, ContractsOK, HasWritten, ContractIsWhole
<1>4. KeepsOK'
  <2>1. \A d, n, k : Stored(d, n, k)' = Stored(d, n, k) /\ Marked(d, n, k)' = Marked(d, n, k)
    BY <1>1 DEF Stored, Marked
  <2>2. \A r \in Requests : Keeps(r)
    BY DEF Ingested, ContractInv, KeepsOK
  <2>3. ASSUME NEW r \in Requests, call'[r].op \in {"pipeline", "parseJob", "ingest"},
               NEW o \in outputs', o.by = Key(r)'
        PROVE  Kept(r, o)'
    <3>1. Key(r)' = Key(r)
      BY <1>1 DEF Key
    <3>2. Kept(r, o)
      BY <1>1, <2>2, <2>3, <3>1 DEF Keeps
    <3>3. QED
      BY <1>1, <2>1, <3>1, <3>2 DEF Kept
  <2>4. QED
    BY <2>3 DEF KeepsOK, Keeps
<1>5. QED
  BY <1>2, <1>3, <1>4 DEF Ingested, ContractInv

LEMMA AllIngested == AllSpec => []Ingested
<1>1. AllInit => Ingested
  BY InitIngested DEF AllInit
<1>2. Ingested /\ [AllNext]_allVars => Ingested'
  BY StepKeeps, StutterIngested DEF AllNext, allVars, Next
<1>3. QED
  BY <1>1, <1>2, PTL DEF AllSpec

(* A document that says parsing or detection_running has a request or job  *)
(* at work on it, or one whose work was cut short, of however many that    *)
(* overlap on it.                                                          *)
THEOREM InProgressHasCauseAlways == AllSpec => []InProgressHasCause
<1>1. Ingested => InProgressHasCause
  BY DEF Ingested, WorkKnown, AtWork, InProgressHasCause
<1>2. QED
  BY <1>1, AllIngested, PTL

(* A contract is shown only over the whole parse that carried it, unless a *)
(* one-click quote made it, for any number of pages, of requests on the    *)
(* document and of attempts.                                               *)
THEOREM ContractIsWholeAlways == AllSpec => []ContractIsWhole
<1>1. Ingested => ContractIsWhole
  BY DEF Ingested, ContractInv
<1>2. QED
  BY <1>1, AllIngested, PTL

-----------------------------------------------------------------------------
(* Estimates: one statement maps all detections of a class.                *)
DetectionFields == {"status", "class", "type", "confidence"}

Typed ==
  /\ DOMAIN detection = Detections
  /\ \A x \in Detections : detection[x].status # "none" => DOMAIN detection[x] = DetectionFields
  /\ Estimate!OneTypePerClass

LEMMA MapAllTyped ==
  ASSUME Typed, NEW c, NEW type, Estimate!MapAll(c, type)
  PROVE  Typed'
<1> DEFINE m(x) == [detection[x] EXCEPT !.type = type, !.status = "mapped"]
<1>1. /\ DOMAIN detection' = Detections
      /\ \A x \in Detections :
           detection'[x] = IF x \in Estimate!OfClass(c) THEN m(x) ELSE detection[x]
  BY DEF Estimate!MapAll, Estimate!MayMap
<1>2. \A x \in Estimate!OfClass(c) :
        /\ x \in Detections /\ detection[x].status # "none" /\ DOMAIN m(x) = DetectionFields
        /\ m(x).status = "mapped" /\ m(x).class = detection[x].class /\ m(x).class = c
        /\ m(x).type = type
  BY DEF Estimate!OfClass, Estimate!Stored, Typed, DetectionFields
<1> HIDE DEF m
<1>3. \A x \in Detections : detection'[x].status # "none" =>
        /\ DOMAIN detection'[x] = DetectionFields /\ detection[x].status # "none"
        /\ detection'[x].class = detection[x].class
        /\ IF detection[x].class = c THEN detection'[x].type = type
             ELSE detection'[x].type = detection[x].type
  BY <1>1, <1>2 DEF Typed, Estimate!OfClass, Estimate!Stored
<1>4. Estimate!OneTypePerClass'
  BY <1>3 DEF Typed, Estimate!OneTypePerClass, Estimate!Stored
<1>5. QED
  BY <1>1, <1>3, <1>4 DEF Typed

LEMMA IngestTyped ==
  ASSUME Typed, Estimate!Ingest
  PROVE  Typed'
<1>1. PICK x \in Detections \ Estimate!Stored, c \in Classes, k \in {1000} :
        detection' = [detection EXCEPT ![x] =
          [status |-> "raw", class |-> c, type |-> Nothing, confidence |-> k]]
  BY DEF Estimate!Ingest
<1>2. /\ DOMAIN detection' = Detections
      /\ \A y \in Detections : y # x => detection'[y] = detection[y]
      /\ DOMAIN detection'[x] = DetectionFields /\ detection'[x].type = Nothing
  BY <1>1 DEF Typed, DetectionFields
<1>3. QED
  BY <1>2 DEF Typed, Estimate!OneTypePerClass, Estimate!Stored

LEMMA EstimateTyped ==
  ASSUME Typed, Estimate!Next
  PROVE  Typed'
<1>1. CASE Estimate!Ingest
  BY <1>1, IngestTyped
<1>2. ASSUME NEW r \in JobNames, Estimate!Step(r)
      PROVE  Typed'
  <2>1. CASE Estimate!MapClass(r)
    BY <2>1, MapAllTyped DEF Estimate!MapClass
  <2>2. CASE Estimate!ApplyNext(r)
    BY <2>2, MapAllTyped DEF Estimate!ApplyNext
  <2>3. CASE ~ (Estimate!MapClass(r) \/ Estimate!ApplyNext(r))
    <3>1. detection' = detection
      BY <1>2, <2>3 DEF Estimate!Step, Estimate!Begin, Estimate!Throws, Estimate!StartPack,
         Estimate!ClearDefault, Estimate!WritePack, Estimate!DeletePack, Estimate!SaveAs,
         Estimate!ReadPack, Estimate!MapLegend, Estimate!ReadForEstimate,
         Estimate!ReadDetections, Estimate!InsertRun, Estimate!CompleteRun,
         Estimate!RefuseEstimate, Estimate!AgentOutput
    <3>2. QED
      BY <3>1 DEF Typed, Estimate!OneTypePerClass, Estimate!Stored
  <2>4. QED
    BY <2>1, <2>2, <2>3
<1>3. QED
  BY <1>1, <1>2 DEF Estimate!Next

(* The typed detections of a class have one type, however mappings, packs  *)
(* and ingestion interleave and fail.                                      *)
THEOREM OneTypePerClassAlways == AllSpec => []OneTypePerClass
<1> DEFINE I == part = "estimate" => Typed
<1>1. AllInit => I
  BY DEF AllInit, Estimate!Init, Typed, Estimate!OneTypePerClass, Estimate!Stored
<1>2. I /\ [AllNext]_allVars => I'
  <2> SUFFICES ASSUME I, [AllNext]_allVars, part' = "estimate"
               PROVE  Typed'
    OBVIOUS
  <2>1. CASE UNCHANGED allVars
    BY <2>1 DEF allVars, Typed, Estimate!OneTypePerClass, Estimate!Stored
  <2>2. CASE AllNext
    BY <2>2, EstimateTyped DEF AllNext
  <2>3. QED
    BY <2>1, <2>2
<1>3. I => OneTypePerClass
  BY DEF Typed, OneTypePerClass
<1>4. QED
  BY <1>1, <1>2, <1>3, PTL DEF AllSpec
==============================================================================
