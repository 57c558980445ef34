----------------------------- MODULE MCOutreach ------------------------------
(* The instances of MarketingCycles and PublishQueue, and of UserMemory    *)
(* and ShadowTraining, for TLC. They share no table: a behaviour of all is *)
(* one of each, interleaved, and each is explored while the others stay    *)
(* where they began. The names of one set serve in several components.     *)
EXTENDS MarketingCycles, TLC

CONSTANTS
  Packs, MaxReports,            \* of PublishQueue
  MaxFacts, Newest, Former        \* of UserMemory

VARIABLES
  part,  \* the component this behaviour is of
  local, queue, written, cloud, run,
  memory, preference, profile, job, earlier,
  events, stage, lane, pairs, cache, clock, vote, informed

Publishing == INSTANCE PublishQueue WITH
  Runs <- Requests

Memory == INSTANCE UserMemory WITH
  Calls <- Requests, Keys <- Packs, Interval <- 2, Fields <- Signals,
  Past <- Former, call <- job, ended <- earlier

Training == INSTANCE ShadowTraining WITH
  Exchanges <- Signals, Period <- 2, MaxTime <- 5, mode <- stage

ASSUME OutreachAssumption ==
  Publishing!QueueAssumption /\ Memory!MemoryAssumption /\ Training!TrainingAssumption

publishVars  == <<local, queue, written, cloud, run>>
memoryVars   == <<memory, preference, profile, job, earlier>>
trainingVars == <<events, stage, lane, pairs, cache, clock, vote, informed>>
allVars      == <<part, vars, publishVars, memoryVars, trainingVars>>

NoPublishing ==
  /\ local = Nothing /\ queue = Nothing /\ written = Nothing
  /\ cloud = Nothing /\ run = Nothing

NoMemory ==
  /\ memory = Nothing /\ preference = Nothing /\ profile = Nothing
  /\ job = Nothing /\ earlier = Nothing

NoTraining ==
  /\ events = Nothing /\ stage = Nothing /\ lane = Nothing
  /\ pairs = Nothing /\ cache = Nothing /\ clock = Nothing
  /\ vote = Nothing /\ informed = Nothing

AllInit ==
  /\ Init
  /\ \/ part = "cycles" /\ NoPublishing /\ NoMemory /\ NoTraining
     \/ part = "publishing" /\ Publishing!Init /\ NoMemory /\ NoTraining
     \/ part = "memory" /\ Memory!Init /\ NoPublishing /\ NoTraining
     \/ part = "training" /\ Training!Init /\ NoPublishing /\ NoMemory
  /\ part # "cycles" => \A c \in Cycles : cycle[c] = "research"

AllNext ==
  \/ part = "cycles" /\ Next /\ UNCHANGED <<part, publishVars, memoryVars, trainingVars>>
  \/ part = "publishing" /\ Publishing!Next /\ UNCHANGED <<part, vars, memoryVars, trainingVars>>
  \/ part = "memory" /\ Memory!Next /\ UNCHANGED <<part, vars, publishVars, trainingVars>>
  \/ part = "training" /\ Training!Next /\ UNCHANGED <<part, vars, publishVars, memoryVars>>

AllSpec == AllInit /\ [][AllNext]_allVars

NewestRead == [prompt |-> 2, recall |-> 1, list |-> 1, profile |-> 2]

Symmetry == Permutations(Requests) \cup Permutations(Packs)

(* What a publish deferred is queued or copied.                            *)
DeferredIsKept == part = "publishing" => Publishing!DeferredIsKept

(* What a call about the memories or the preferences answered stands until *)
(* another that writes or removes the same overlaps or follows.            *)
AnswersStand == part = "memory" => Memory!AnswersStand

(* A profile begun after the memories were cleared rests on none of them.  *)
ProfileForgetsCleared == part = "memory" => Memory!ProfileForgetsCleared

(* A vote on two shown responses marks every pair of its exchange with the *)
(* side its model's name stands for.                                       *)
VoteReachesPairs == part = "training" => Training!VoteReachesPairs

(* The preferred response becomes the training output.                     *)
PreferredIsOutput == part = "training" => Training!PreferredIsOutput
==============================================================================
