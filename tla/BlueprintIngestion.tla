------------------------- MODULE BlueprintIngestion -------------------------
(***************************************************************************)
(* Blueprint files become documents with pages and detections:             *)
(* server/routers/admin/blueprints.ts stores the files and runs the        *)
(* one-click quote, blueprintIngestion.ts the pipeline and the manual      *)
(* additions, workers/pipelineWorker.ts the same two steps as queue jobs.  *)
(*                                                                         *)
(* A request or job is a sequence of awaited statements and agent calls    *)
(* without a transaction; every statement on modelled rows is an action.   *)
(* Each is issued once and names the rows it inserts; a job is attempted   *)
(* up to Tries times, always from its start. Geometry, text, labels and    *)
(* the files the agent generates are left out; local storage is assumed.   *)
(***************************************************************************)
EXTENDS Integers, FiniteSets

CONSTANTS
  Requests,     \* requests and jobs
  Documents,    \* documents parsed on earlier days, each with its file
  MaxPages,     \* pages a file may have
  Tries,        \* attempts of a job
  Nothing       \* null

ASSUME RequestsAssumption ==
  /\ Requests \cap Documents = {} /\ Nothing \notin Requests \cup Documents
  /\ Nothing \notin (Requests \cup Documents) \X Nat
  /\ MaxPages \in Nat /\ Tries \in Nat \ {0}

PageNumbers == 1..MaxPages
Names == Requests \cup Documents
Jobs  == {"parseJob", "detectJob"}
Ops   == Jobs \cup {"upload", "quote", "create", "pipeline", "ingest",
                    "addPages", "addText", "addDetections", "addLegend", "delete"}
InProgress == {"parsing", "detection_running"}
Over       == {"returned", "threw", "crashed"}

VARIABLES
  files, artifacts,  \* stored files and agent_artifacts rows, by uploader
  doc,         \* blueprint_documents: status, artifactId, and the parse
               \* whose contract the row carries
  pages,       \* blueprint_pages: document, number, textExtracted, and by
               \* which attempt of which request it was inserted
  detections,  \* blueprint_detections_raw: document and page, likewise
  legend,      \* documents with blueprint_legend_entries
  call,        \* where each request is, and what it has read
  outputs      \* history: what the agent answered to each parse

rows == <<files, artifacts, doc, pages, detections, legend>>
vars == <<rows, call, outputs>>

NoDoc  == [status |-> "none", artifact |-> Nothing, contract |-> Nothing]
NoCall == [op |-> "upload", step |-> "none", on |-> Nothing, try |-> 1,
           todo |-> {}, texts |-> FALSE, read |-> {}]

Key(r) == <<r, call[r].try>>
PageOf(d, n, key, text) == [doc |-> d, number |-> n, by |-> key, text |-> text]
MyPages(r) == {p \in pages : p.by = Key(r)}   \* pageIdMap
First(S)  == CHOOSE n \in S : \A m \in S : n <= m
Exists(d) == doc[d].status # "none"

Init ==
  /\ files = Documents /\ artifacts = Documents
  /\ doc = [d \in Names |-> IF d \in Requests THEN NoDoc
       ELSE [status |-> "parsed", artifact |-> d, contract |-> <<d, 1>>]]
  /\ pages = {PageOf(d, n, <<d, 1>>, TRUE) : d \in Documents, n \in PageNumbers}
  /\ outputs = {[by |-> <<d, 1>>, numbers |-> PageNumbers, texts |-> TRUE] :
                 d \in Documents}
  /\ detections = {} /\ legend = {}
  /\ call = [r \in Requests |-> NoCall]

-----------------------------------------------------------------------------
(* Requests, jobs and their failures.                                      *)
At(r, ops, step) == call[r].op \in ops /\ call[r].step = step
Goto(r, step)    == call' = [call EXCEPT ![r] =
  IF step \notin Over THEN [@ EXCEPT !.step = step]
    ELSE [NoCall EXCEPT !.op = call[r].op, !.on = call[r].on, !.step = step]]
Live(r)          == call[r].step \notin Over \cup {"none"}

(* A request names a document, an artifact or, for those that insert one,  *)
(* itself; addDetections and addLegend do not ask whether it exists.       *)
Targets(r, op) ==
  CASE op \in {"upload", "quote"} -> {r}
    [] op = "create" -> artifacts \cup {Nothing}
    [] op = "delete" -> artifacts
    [] OTHER         -> {d \in Names : Exists(d)}

Begin(r) ==
  /\ call[r].step = "none"
  /\ \E op \in Ops : \E on \in Targets(r, op) :
       call' = [call EXCEPT ![r].op = op, ![r].on = on, ![r].step = "begin"]
  /\ UNCHANGED <<rows, outputs>>

(* The queue attempts a job again from its start; all else is over.        *)
GiveUp(r, how) ==
  IF call[r].op \in Jobs /\ call[r].try < Tries
    THEN call' = [call EXCEPT ![r] = [NoCall EXCEPT !.op = call[r].op,
           !.on = call[r].on, !.step = "begin", !.try = call[r].try + 1]]
    ELSE Goto(r, how)

(* A statement throws, an agent call fails or times out, or a check        *)
(* refuses. runPipeline's catch marks the document, except for TRPCErrors, *)
(* which is what every failure of an agent call becomes.                   *)
Caught == {"load", "pages", "text", "legend", "parsed", "running",
           "detections", "complete"}

Throws(r) ==
  /\ Live(r)
  /\ IF call[r].op = "pipeline" /\ call[r].step \in Caught
       THEN Goto(r, "fail") ELSE GiveUp(r, "threw")
  /\ UNCHANGED <<rows, outputs>>

(* A crash under any other request is as its throw.                        *)
Crash(r) ==
  /\ Live(r) /\ call[r].op = "pipeline" /\ Goto(r, "crashed")
  /\ UNCHANGED <<rows, outputs>>

SetStatus(d, status) ==
  doc' = IF Exists(d) THEN [doc EXCEPT ![d].status = status] ELSE doc

(* markFailed, and the worker's own update before it throws.               *)
MarkFailed(r) ==
  /\ call[r].step = "fail"
  /\ SetStatus(call[r].on, "failed")
  /\ IF call[r].op = "quote" THEN Goto(r, "returned") ELSE GiveUp(r, "threw")
  /\ UNCHANGED <<files, artifacts, pages, detections, legend, outputs>>

-----------------------------------------------------------------------------
(* Files and documents.                                                    *)

(* upload, and the start of the quote: the file, then its artifact row.    *)
StoreFile(r) ==
  /\ At(r, {"upload", "quote"}, "begin")
  /\ files' = files \cup {r} /\ Goto(r, "row")
  /\ UNCHANGED <<artifacts, doc, pages, detections, legend, outputs>>

InsertArtifact(r) ==
  /\ call[r].step = "row"
  /\ artifacts' = artifacts \cup {r}
  /\ Goto(r, IF call[r].op = "quote" THEN "agent" ELSE "returned")
  /\ UNCHANGED <<files, doc, pages, detections, legend, outputs>>

CreateDocument(r) ==
  /\ At(r, {"create"}, "begin")
  /\ doc' = [doc EXCEPT ![r] = [status |-> "uploaded", artifact |-> call[r].on,
                                contract |-> Nothing]]
  /\ Goto(r, "returned")
  /\ UNCHANGED <<files, artifacts, pages, detections, legend, outputs>>

(* The quote's document is inserted after parse, takeoff and exports, with *)
(* the contract of the parse, and its pages by one statement; both its     *)
(* last updates answer.                                                    *)
InsertQuoteDocument(r) ==
  /\ At(r, {"quote"}, "document")
  /\ doc' = [doc EXCEPT ![r] = [status |-> "parsing", artifact |-> r,
                                contract |-> Key(r)]]
  /\ Goto(r, "pages")
  /\ UNCHANGED <<files, artifacts, pages, detections, legend, outputs>>

(* Mutant of AfterQuotePages: nothing to persist, nothing to do.           *)
QuoteWithoutPagesIsDone(r) == IF call[r].todo = {} THEN {"returned"} ELSE {"parsed"}

(* What the agent says it counted decides when there are no pages.         *)
AfterQuotePages(r) == IF call[r].todo = {} THEN {"fail", "parsed"} ELSE {"parsed"}

InsertQuotePages(r) ==
  /\ At(r, {"quote"}, "pages")
  /\ pages' = pages \cup {PageOf(r, n, Key(r), FALSE) : n \in call[r].todo}
  /\ \E step \in AfterQuotePages(r) : Goto(r, step)
  /\ UNCHANGED <<files, artifacts, doc, detections, legend, outputs>>

(* The file goes first. Documents keep the artifactId of the deleted row.  *)
DeleteFile(r) ==
  /\ At(r, {"delete"}, "begin") /\ call[r].on \in artifacts
  /\ files' = files \ {call[r].on} /\ Goto(r, "row gone")
  /\ UNCHANGED <<artifacts, doc, pages, detections, legend, outputs>>

DeleteArtifact(r) ==
  /\ call[r].step = "row gone"
  /\ artifacts' = artifacts \ {call[r].on} /\ Goto(r, "returned")
  /\ UNCHANGED <<files, doc, pages, detections, legend, outputs>>

-----------------------------------------------------------------------------
(* Parsing: runPipeline, the parse job, ingestParseOutput and addPages.    *)

(* The document's artifact must be there; then the status is written.      *)
MarkParsing(r) ==
  /\ At(r, {"pipeline", "parseJob"}, "begin")
  /\ doc[call[r].on].artifact \in artifacts
  /\ SetStatus(call[r].on, "parsing")
  /\ Goto(r, IF call[r].op = "pipeline" THEN "load" ELSE "agent")
  /\ UNCHANGED <<files, artifacts, pages, detections, legend, outputs>>

LoadFile(r) ==
  /\ call[r].step = "load"
  /\ Goto(r, IF doc[call[r].on].artifact \in files THEN "agent" ELSE "fail")
  /\ UNCHANGED <<rows, outputs>>

(* Mutant of AfterPages: the contract is written before the text.          *)
ContractFirst(r, texts) == "parsed"

(* What follows the last page.                                             *)
AfterPages(r, texts) ==
  CASE call[r].op = "addPages" -> "parsed"
    [] call[r].op # "addPages" /\ texts -> "text"
    [] OTHER -> "legend"

(* A parse has some of the first pages, as normalizeAgentParseOutput       *)
(* numbers them, with text blocks or without.                              *)
Parses == {[numbers |-> 1..n, texts |-> texts /\ n > 0] : n \in 0..MaxPages, texts \in BOOLEAN}

Answered(r, parse, step) ==
  /\ outputs' = outputs \cup {[by |-> Key(r), numbers |-> parse.numbers,
       texts |-> parse.texts /\ call[r].op \notin {"addPages", "quote"}]}
  /\ call' = [call EXCEPT ![r].todo = parse.numbers, ![r].texts = parse.texts,
                          ![r].step = step]

Takes(r) ==
  /\ \E parse \in Parses : Answered(r, parse,
       IF parse.numbers = {} THEN AfterPages(r, FALSE) ELSE "pages")
  /\ UNCHANGED rows

(* What the agent answers to the pipeline and to the job, or the caller of *)
(* ingest and addPages hands in.                                           *)
PipelineParse(r) == At(r, {"pipeline"}, "agent") /\ Takes(r)
JobParse(r)      == At(r, {"parseJob"}, "agent") /\ Takes(r)
IngestParse(r)   == At(r, {"ingest"}, "begin") /\ Exists(call[r].on) /\ Takes(r)
AddPages(r)      == At(r, {"addPages"}, "begin") /\ Exists(call[r].on) /\ Takes(r)

(* The schema or its hash refuses what the agent answers, and the document *)
(* is marked.                                                              *)
RefuseOutput(r) ==
  /\ At(r, {"pipeline", "parseJob"}, "agent")
  /\ Goto(r, "fail")
  /\ UNCHANGED <<rows, outputs>>

(* The quote hands the file over in chunks and takes whatever comes back.  *)
QuoteParse(r) ==
  /\ At(r, {"quote"}, "agent")
  /\ \E parse \in Parses : Answered(r, parse, "document")
  /\ UNCHANGED rows

Done(r) == call[r].todo \ {First(call[r].todo)}

InsertPage(r) ==
  LET next == AfterPages(r, call[r].texts) IN
  /\ call[r].step = "pages" /\ call[r].op # "quote"
  /\ pages' = pages \cup {PageOf(call[r].on, First(call[r].todo), Key(r), FALSE)}
  /\ call' = IF Done(r) # {} THEN [call EXCEPT ![r].todo = Done(r)]
             ELSE [call EXCEPT ![r].step = next, ![r].todo =
                     IF next = "text" THEN {p.number : p \in MyPages(r)} \cup call[r].todo ELSE {}]
  /\ UNCHANGED <<files, artifacts, doc, detections, legend, outputs>>

(* The text blocks, then textExtracted, page by page.                      *)
MarkText(r) ==
  /\ call[r].step = "text"
  /\ \E p \in MyPages(r) :
       /\ p.number = First(call[r].todo)
       /\ pages' = (pages \ {p}) \cup {[p EXCEPT !.text = TRUE]}
  /\ call' = [call EXCEPT ![r].todo = Done(r),
                          ![r].step = IF Done(r) = {} THEN "legend" ELSE "text"]
  /\ UNCHANGED <<files, artifacts, doc, detections, legend, outputs>>

InsertLegend(r) ==
  /\ call[r].step = "legend" \/ At(r, {"addLegend"}, "begin")
  /\ \/ legend' = legend \cup {call[r].on}
     \/ UNCHANGED legend
  /\ Goto(r, IF call[r].op = "addLegend" THEN "returned" ELSE "parsed")
  /\ UNCHANGED <<files, artifacts, doc, pages, detections, outputs>>

(* addPages leaves the contract alone, the quote has written its own.      *)
ContractOf(r) == IF call[r].op \in {"addPages", "quote"}
                   THEN doc[call[r].on].contract ELSE Key(r)

WriteParsed(r) ==
  /\ call[r].step = "parsed"
  /\ doc' = [doc EXCEPT ![call[r].on] =
               [@ EXCEPT !.status = "parsed", !.contract = ContractOf(r)]]
  /\ Goto(r, IF call[r].op = "pipeline" THEN "detect" ELSE "returned")
  /\ UNCHANGED <<files, artifacts, pages, detections, legend, outputs>>

(* addTextBlocks marks any page.                                           *)
AddTextBlocks(r) ==
  /\ At(r, {"addText"}, "begin")
  /\ \E p \in pages : pages' = (pages \ {p}) \cup {[p EXCEPT !.text = TRUE]}
  /\ Goto(r, "returned")
  /\ UNCHANGED <<files, artifacts, doc, detections, legend, outputs>>

-----------------------------------------------------------------------------
(* Detection: the rest of runPipeline, the detect job, addDetections.      *)

PagesOf(d) == {p \in pages : p.doc = d}

(* The job reads the document's pages, of whichever parse; there must be   *)
(* some.                                                                   *)
ReadPages(r) ==
  /\ At(r, {"detectJob"}, "begin") /\ PagesOf(call[r].on) # {}
  /\ call' = [call EXCEPT ![r].step = "running", ![r].read = PagesOf(call[r].on)]
  /\ UNCHANGED <<rows, outputs>>

(* The page of number n: the one the pipeline stored, or any one the job   *)
(* read (the select has no order). Other numbers have page 0.              *)
PageId(p) == <<p.doc, p.number, p.by>>

PageIds(r, n) ==
  LET known    == IF call[r].op = "detectJob" THEN call[r].read ELSE MyPages(r)
      numbered == {PageId(p) : p \in {q \in known : q.number = n}}
  IN IF numbered = {} THEN {Nothing} ELSE numbered

(* The status is written when the pipeline has found something, and by the *)
(* job before it asks.                                                     *)
WriteRunning(r) ==
  /\ call[r].step = "running"
  /\ SetStatus(call[r].on, "detection_running")
  /\ Goto(r, IF call[r].op = "pipeline" THEN "detections" ELSE "detect")
  /\ UNCHANGED <<files, artifacts, pages, detections, legend, outputs>>

(* runPipeline ends with a look at the pages it has stored.                *)
CheckPages(r) == IF MyPages(r) = {} THEN "fail" ELSE "returned"

(* The agent's answer: nothing, detections on its pages, or on a page      *)
(* unknown here. The pipeline marks a malformed one, the job throws.       *)
Finds(r, none, some) ==
  /\ \E found \in {{}, {0}, PageNumbers} :
       IF found = {} THEN Goto(r, none)
       ELSE call' = [call EXCEPT ![r].todo = found, ![r].step = some]
  /\ UNCHANGED <<rows, outputs>>

PipelineDetect(r) ==
  /\ At(r, {"pipeline"}, "detect")
  /\ \/ Finds(r, CheckPages(r), "running")
     \/ Goto(r, "fail") /\ UNCHANGED <<rows, outputs>>

JobDetect(r) == At(r, {"detectJob"}, "detect") /\ Finds(r, "complete", "detections")

InsertDetections(r) ==
  /\ call[r].step = "detections"
  /\ \E page \in PageIds(r, First(call[r].todo)) : detections' = detections
       \cup {[doc |-> call[r].on, by |-> Key(r), page |-> page]}
  /\ call' = [call EXCEPT ![r].todo = Done(r),
       ![r].step = IF Done(r) = {} THEN "complete" ELSE "detections"]
  /\ UNCHANGED <<files, artifacts, doc, pages, legend, outputs>>

(* addDetections: any page, any document.                                  *)
AddDetections(r) ==
  /\ At(r, {"addDetections"}, "begin")
  /\ \E p \in pages : detections' = detections \cup
       {[doc |-> call[r].on, by |-> Key(r), page |-> PageId(p)]}
  /\ Goto(r, "complete")
  /\ UNCHANGED <<files, artifacts, doc, pages, legend, outputs>>

WriteComplete(r) ==
  /\ call[r].step = "complete"
  /\ SetStatus(call[r].on, "detection_complete")
  /\ Goto(r, IF call[r].op = "pipeline" THEN CheckPages(r) ELSE "returned")
  /\ UNCHANGED <<files, artifacts, pages, detections, legend, outputs>>

-----------------------------------------------------------------------------
Step(r) ==
  \/ Begin(r) \/ Throws(r) \/ Crash(r) \/ MarkFailed(r)
  \/ StoreFile(r) \/ InsertArtifact(r) \/ CreateDocument(r)
  \/ InsertQuoteDocument(r) \/ InsertQuotePages(r)
  \/ DeleteFile(r) \/ DeleteArtifact(r)
  \/ MarkParsing(r) \/ LoadFile(r)
  \/ PipelineParse(r) \/ JobParse(r) \/ IngestParse(r) \/ AddPages(r)
  \/ RefuseOutput(r) \/ QuoteParse(r)
  \/ InsertPage(r) \/ MarkText(r) \/ InsertLegend(r) \/ WriteParsed(r)
  \/ AddTextBlocks(r) \/ ReadPages(r) \/ WriteRunning(r)
  \/ PipelineDetect(r) \/ JobDetect(r)
  \/ InsertDetections(r) \/ AddDetections(r) \/ WriteComplete(r)

Next == \E r \in Requests : Step(r)
Spec == Init /\ [][Next]_vars

-----------------------------------------------------------------------------
(* A document that says parsing or detection_running has a request or job  *)
(* at work on it, or one whose work was cut short: whatever the overlaps,  *)
(* no request that reaches its end leaves it so.                           *)
InProgressHasCause ==
  \A d \in Names : doc[d].status \in InProgress =>
    \E r \in Requests :
      /\ call[r].on = d /\ call[r].step \notin {"none", "returned"}
      /\ call[r].op \in {"pipeline", "quote", "parseJob", "detectJob"}

(* A contract is shown only over a whole parse: every page of the output   *)
(* that carried it is stored, and marked if there was text, whatever was   *)
(* cut short, retried or run at the same time. (One-click documents carry  *)
(* theirs from their insert.)                                              *)
ContractIsWhole ==
  \A d \in Names : \A o \in outputs :
    o.by = doc[d].contract /\ (o.by[1] \in Requests => call[o.by[1]].op # "quote") =>
      \A n \in o.numbers : \E p \in pages :
        p.doc = d /\ p.number = n /\ p.by = o.by /\ (o.texts => p.text)
=============================================================================
