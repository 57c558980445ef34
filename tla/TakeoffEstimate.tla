--------------------------- MODULE TakeoffEstimate ---------------------------
(***************************************************************************)
(* From the detections of one blueprint document to its takeoff:           *)
(* server/routers/admin/blueprintLegendResolver.ts keeps symbol packs and  *)
(* maps detected classes to device types, estimateChain.ts turns mapped    *)
(* detections into line items with a confidence, and the estimate job of   *)
(* workers/pipelineWorker.ts lets the agent do it.                         *)
(*                                                                         *)
(* Every awaited statement is an action; there are no transactions.        *)
(* Hours, materials and prices, and the overrides that only change them,   *)
(* are left out.                                                           *)
(***************************************************************************)
EXTENDS Integers, FiniteSets

CONSTANTS
  Requests,     \* requests and jobs; packs and runs bear their names
  Packs,        \* symbol packs of earlier days
  Detections,   \* rows the pipeline inserts
  Classes,      \* raw classes of the detector
  Types,        \* canonical device types
  Tasks,        \* those the task library has a task for
  Confidences,  \* of the detector, in thousandths
  Tries,        \* attempts of a job
  Nothing       \* null

EstimateAssumption ==
  /\ Requests \cap Packs = {} /\ Nothing \notin Requests \cup Packs \cup Types
  /\ Tasks \subseteq Types /\ Confidences \subseteq 0..1000
  /\ Tries \in Nat \ {0}

Maps == [Classes -> Types \cup {Nothing}]   \* rawClass to canonicalType
Over == {"returned", "threw"}

VARIABLES
  detection,  \* blueprint_detections_raw of the document
  legend,     \* canonicalType of its legend entries, by rawLabel
  pack,       \* blueprint_symbol_packs
  run,        \* estimate_chain_runs
  call,       \* where each request is, and what it has read
  ended       \* history: for each request those over before it began

vars == <<detection, legend, pack, run, call, ended>>

NoPack == [exists |-> FALSE, maps |-> [c \in Classes |-> Nothing], default |-> FALSE]
NoRun  == [status |-> "none", items |-> {}, unmapped |-> {}, flagged |-> FALSE]
NoCall == [op |-> "job", step |-> "none", on |-> Nothing, try |-> 1,
           default |-> FALSE, maps |-> [c \in Classes |-> Nothing],
           todo |-> {}, read |-> {}]

Init ==
  /\ detection = [x \in Detections |-> [status |-> "none"]]
  /\ legend = [c \in Classes |-> Nothing]
  /\ \E maps \in Maps, p \in Packs :
       pack = [q \in Requests \cup Packs |->
         IF q \in Packs THEN [exists |-> TRUE, maps |-> maps, default |-> q = p]
         ELSE NoPack]
  /\ run = [r \in Requests |-> NoRun]
  /\ call = [r \in Requests |-> NoCall] /\ ended = [r \in Requests |-> {}]

-----------------------------------------------------------------------------
At(r, ops, step) == call[r].op \in ops /\ call[r].step = step
Goto(r, step) == call' = [call EXCEPT ![r] =
  IF step \notin Over THEN [@ EXCEPT !.step = step]
    ELSE [NoCall EXCEPT !.op = call[r].op, !.on = call[r].on, !.step = step]]

Stored       == {x \in Detections : detection[x].status # "none"}
OfClass(c)   == {x \in Stored : detection[x].class = c}
Existing     == {p \in DOMAIN pack : pack[p].exists}

Targets(r, op) ==
  CASE op \in {"createPack", "saveAs"} -> {r}
    [] op \in {"updatePack", "deletePack", "applyPack", "estimate"} -> Existing
    [] op = "mapClass" -> Types
    [] op = "job"      -> {q \in Requests : run[q].status # "none"}
    [] OTHER           -> {Nothing}

Ops == {"createPack", "saveAs", "updatePack", "deletePack", "applyPack",
        "estimate", "mapClass", "job"}

(* What the input of a request says: the new mapping of a pack, and        *)
(* whether it becomes the default; the class to map.                       *)
Begin(r) ==
  /\ call[r].step = "none"
  /\ \E op \in Ops : \E on \in Targets(r, op), default \in BOOLEAN,
        maps \in Maps, class \in Classes :
       /\ op \notin {"createPack", "saveAs", "updatePack"} => ~default
       /\ op \notin {"createPack", "updatePack"} => maps = NoCall.maps
       /\ op # "mapClass" => class = CHOOSE c \in Classes : TRUE
       /\ call' = [call EXCEPT ![r] = [NoCall EXCEPT !.op = op, !.on = on,
            !.step = "begin", !.default = default, !.maps = maps,
            !.todo = IF op = "mapClass" THEN {class} ELSE {}]]
  /\ ended' = [ended EXCEPT ![r] = {q \in Requests : call[q].step \in Over}]
  /\ UNCHANGED <<detection, legend, pack, run>>

(* A statement throws, the agent fails or the process dies; the queue      *)
(* attempts its job again.                                                 *)
GiveUp(r) ==
  IF call[r].op = "job" /\ call[r].try < Tries
    THEN call' = [call EXCEPT ![r] = [NoCall EXCEPT !.op = "job",
           !.on = call[r].on, !.step = "begin", !.try = call[r].try + 1]]
    ELSE Goto(r, "threw")

Throws(r) ==
  /\ call[r].step \notin Over \cup {"none"}
  /\ GiveUp(r)
  /\ UNCHANGED <<detection, legend, pack, run, ended>>

(* The pipeline of BlueprintIngestion stores a detection, at any time.     *)
Ingest ==
  /\ \E x \in Detections \ Stored, c \in Classes, k \in Confidences :
       detection' = [detection EXCEPT ![x] =
         [status |-> "raw", class |-> c, type |-> Nothing, confidence |-> k]]
  /\ UNCHANGED <<legend, pack, run, call, ended>>

-----------------------------------------------------------------------------
(* Symbol packs.                                                           *)

AfterBegin(r) == IF call[r].default THEN "clear" ELSE "write"

StartPack(r) ==
  /\ At(r, {"createPack", "updatePack"}, "begin")
  /\ Goto(r, AfterBegin(r))
  /\ UNCHANGED <<detection, legend, pack, run, ended>>

ClearDefault(r) ==
  /\ call[r].step = "clear"
  /\ pack' = [p \in DOMAIN pack |-> [pack[p] EXCEPT !.default = FALSE]]
  /\ Goto(r, "write")
  /\ UNCHANGED <<detection, legend, run, ended>>

(* An insert, or the update of a pack if it still exists; an update gives  *)
(* a new mapping or none, and may leave isDefault as it is.                *)
WritePack(r) ==
  /\ call[r].step = "write"
  /\ IF call[r].op = "updatePack"
       THEN \E newMaps \in BOOLEAN, newDefault \in {TRUE, call[r].default} :
         pack' = IF ~pack[call[r].on].exists THEN pack
           ELSE [pack EXCEPT
             ![call[r].on].maps = IF newMaps THEN call[r].maps ELSE @,
             ![call[r].on].default = IF newDefault THEN call[r].default ELSE @]
       ELSE pack' = [pack EXCEPT ![r] =
              [exists |-> TRUE, maps |-> call[r].maps, default |-> call[r].default]]
  /\ Goto(r, "returned")
  /\ UNCHANGED <<detection, legend, run, ended>>

DeletePack(r) ==
  /\ At(r, {"deletePack"}, "begin")
  /\ pack' = [pack EXCEPT ![call[r].on] = NoPack]
  /\ Goto(r, "returned")
  /\ UNCHANGED <<detection, legend, run, ended>>

(* saveAsSymbolPack: the classes and types of the mapped detections; at    *)
(* least one is needed.                                                    *)
MappedClasses == {c \in Classes : \E x \in OfClass(c) : detection[x].status = "mapped"}

SaveAs(r) ==
  /\ At(r, {"saveAs"}, "begin") /\ MappedClasses # {}
  /\ call' = [call EXCEPT ![r].step = AfterBegin(r), ![r].maps =
       [c \in Classes |-> IF c \notin MappedClasses THEN Nothing
          ELSE detection[CHOOSE x \in OfClass(c) : detection[x].status = "mapped"].type]]
  /\ UNCHANGED <<detection, legend, pack, run, ended>>

-----------------------------------------------------------------------------
(* Mapping.                                                                *)

(* Mutant of MayMap: only detections not mapped yet.                       *)
IsRaw(x) == detection[x].status = "raw"

MayMap(x) == TRUE

(* One statement maps all detections of a class, whatever their status.    *)
MapAll(c, type) ==
  detection' = [x \in Detections |-> IF x \in OfClass(c) /\ MayMap(x)
    THEN [detection[x] EXCEPT !.type = type, !.status = "mapped"] ELSE detection[x]]

MapClass(r) ==
  LET c == CHOOSE d \in call[r].todo : TRUE IN
  /\ At(r, {"mapClass"}, "begin")
  /\ MapAll(c, call[r].on) /\ Goto(r, "legend")
  /\ UNCHANGED <<legend, pack, run, ended>>

(* applySymbolPack reads the pack, which must map something, then maps one *)
(* class after the other.                                                  *)
ReadPack(r) ==
  LET maps == pack[call[r].on].maps
      todo == {c \in Classes : maps[c] # Nothing}
  IN
  /\ At(r, {"applyPack"}, "begin") /\ pack[call[r].on].exists /\ todo # {}
  /\ call' = [call EXCEPT ![r].step = "map", ![r].maps = maps, ![r].todo = todo]
  /\ UNCHANGED <<detection, legend, pack, run, ended>>

ApplyNext(r) ==
  /\ call[r].step = "map"
  /\ \E c \in call[r].todo :
       /\ MapAll(c, call[r].maps[c])
       /\ call' = [call EXCEPT ![r].step = "legend", ![r].read = {c}]
  /\ UNCHANGED <<legend, pack, run, ended>>

(* The legend entries of the class just mapped.                            *)
MapLegend(r) ==
  /\ call[r].step = "legend"
  /\ IF call[r].op = "mapClass"
       THEN /\ legend' = [c \in Classes |->
                 IF c \in call[r].todo THEN call[r].on ELSE legend[c]]
            /\ Goto(r, "returned")
       ELSE /\ legend' = [c \in Classes |->
                 IF c \in call[r].read THEN call[r].maps[c] ELSE legend[c]]
            /\ IF call[r].todo = call[r].read THEN Goto(r, "returned")
                 ELSE call' = [call EXCEPT ![r].step = "map", ![r].todo = @ \ call[r].read]
  /\ UNCHANGED <<detection, pack, run, ended>>

-----------------------------------------------------------------------------
(* Estimates.                                                              *)

(* runEstimateChain and the job read the pack, then the detections.        *)
ReadForEstimate(r) ==
  /\ At(r, {"estimate"}, "begin") /\ pack[call[r].on].exists
  /\ call' = [call EXCEPT ![r].step = "detections", ![r].maps = pack[call[r].on].maps]
  /\ UNCHANGED <<detection, legend, pack, run, ended>>

Counted(x) == detection[x].status \in {"mapped", "verified"}

ReadDetections(r) ==
  /\ call[r].step = "detections" \/ At(r, {"job"}, "begin")
  /\ call' = [call EXCEPT
       ![r].step = IF call[r].op = "job" THEN "agent" ELSE "insert",
       ![r].read = {[x |-> x, is |-> detection[x]] : x \in {y \in Stored : Counted(y)}}]
  /\ UNCHANGED <<detection, legend, pack, run, ended>>

InsertRun(r) ==
  /\ call[r].step = "insert"
  /\ run' = [run EXCEPT ![r].status = "running"]
  /\ Goto(r, "complete")
  /\ UNCHANGED <<detection, legend, pack, ended>>

(* computeConfidence, in hundredths: 0.95 or 0.6 for the mapping, 0.98 for *)
(* a standard task; 0.6 of the whole is the limit of a low one.            *)
MappingFactor(status) == IF status = "verified" THEN 95 ELSE 60

IsLow(k, status) == k * MappingFactor(status) * 98 < 6000000

(* One line item for each detection whose type, its own or else its        *)
(* pack's, has a task; more than a fifth of them low is flagged.           *)
TypeOf(r, d) == IF d.is.type # Nothing THEN d.is.type ELSE call[r].maps[d.is.class]

Output(r) ==
  LET items == {d \in call[r].read : TypeOf(r, d) \in Tasks}
      low   == {d \in items : IsLow(d.is.confidence, d.is.status)}
  IN [status   |-> "completed",
      items    |-> {<<d.x, TypeOf(r, d)>> : d \in items},
      unmapped |-> {d.is.class : d \in {e \in call[r].read : TypeOf(r, e) = Nothing}},
      flagged  |-> 5 * Cardinality(low) > Cardinality(items)]

CompleteRun(r) ==
  /\ call[r].step = "complete"
  /\ run' = [run EXCEPT ![r] = Output(r)]
  /\ Goto(r, "returned")
  /\ UNCHANGED <<detection, legend, pack, ended>>

(* What the agent answers to a job is validated, not compared with what it *)
(* was asked: the run fails and the job throws, or it is stored as it      *)
(* comes.                                                                  *)
RefuseEstimate(r) ==
  /\ call[r].step = "agent"
  /\ run' = [run EXCEPT ![call[r].on].status = "failed"]
  /\ GiveUp(r)
  /\ UNCHANGED <<detection, legend, pack, ended>>

AgentOutput(r) ==
  /\ call[r].step = "agent"
  /\ \E flagged \in BOOLEAN : run' = [run EXCEPT ![call[r].on] =
       [status |-> "completed", items |-> {}, unmapped |-> {}, flagged |-> flagged]]
  /\ Goto(r, "returned")
  /\ UNCHANGED <<detection, legend, pack, ended>>

-----------------------------------------------------------------------------
Step(r) ==
  \/ Begin(r) \/ Throws(r)
  \/ StartPack(r) \/ ClearDefault(r) \/ WritePack(r) \/ DeletePack(r) \/ SaveAs(r)
  \/ MapClass(r) \/ ReadPack(r) \/ ApplyNext(r) \/ MapLegend(r)
  \/ ReadForEstimate(r) \/ ReadDetections(r) \/ InsertRun(r) \/ CompleteRun(r)
  \/ RefuseEstimate(r) \/ AgentOutput(r)

Next == Ingest \/ \E r \in Requests : Step(r)
Spec == Init /\ [][Next]_vars

-----------------------------------------------------------------------------
(* However mappings, packs and ingestion interleave and fail, the typed    *)
(* detections of a class have one type: a takeoff never counts one symbol  *)
(* as two devices, and a saved pack maps each class once.                  *)
OneTypePerClass ==
  \A x, y \in Stored : detection[x].class = detection[y].class =>
    \/ detection[x].type = detection[y].type
    \/ Nothing \in {detection[x].type, detection[y].type}
=============================================================================
