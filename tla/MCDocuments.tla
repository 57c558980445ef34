----------------------------- MODULE MCDocuments -----------------------------
(* The instances of BlueprintIngestion and TakeoffEstimate for TLC. What   *)
(* the first writes the second only reads, and it begins with whatever     *)
(* detections may be there: each is explored while the other stays where   *)
(* it began.                                                               *)
EXTENDS BlueprintIngestion, TLC

CONSTANTS
  JobNames, Packs, Detections, Classes, Types, Tasks

VARIABLES
  part,  \* the component this behaviour is of
  detection, mapping, pack, run, job, ended

Estimate == INSTANCE TakeoffEstimate WITH
  Requests <- JobNames, Confidences <- {1000}, legend <- mapping, call <- job

ASSUME DocumentsAssumption ==
  Estimate!EstimateAssumption

AllInit ==
  \/ /\ part = "ingestion" /\ Init
     /\ detection = Nothing /\ mapping = Nothing /\ pack = Nothing
     /\ run = Nothing /\ job = Nothing /\ ended = Nothing
  \/ /\ part = "estimate" /\ Estimate!Init /\ Init

AllNext ==
  \/ /\ part = "ingestion" /\ Next
     /\ UNCHANGED <<part, detection, mapping, pack, run, job, ended>>
  \/ /\ part = "estimate" /\ Estimate!Next
     /\ UNCHANGED <<part, vars>>

allVars ==
  <<part, vars, detection, mapping, pack, run, job, ended>>

AllSpec == AllInit /\ [][AllNext]_allVars

Symmetry ==
  Permutations(Requests) \cup Permutations(JobNames) \cup Permutations(Detections)

(* The typed detections of a class have one type.                          *)
OneTypePerClass == part = "estimate" => Estimate!OneTypePerClass
==============================================================================
