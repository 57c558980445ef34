------------------------------ MODULE MCAgents -------------------------------
(* The instances of AgentFleet and FeedbackLoop for TLC. The two share no  *)
(* table: a behaviour of both is one of each, interleaved, and each is     *)
(* explored while the other stays where it began.                          *)
EXTENDS AgentFleet, TLC

CONSTANTS
  Items, Past, Clusters

VARIABLES
  part,  \* the component this behaviour is of
  item, proposal, swarm, decision, over

Feedback == INSTANCE FeedbackLoop WITH
  call <- decision, ended <- over

ASSUME AgentsAssumption ==
  Feedback!LoopAssumption

AllInit ==
  \/ /\ part = "fleet" /\ Init
     /\ item = Nothing /\ proposal = Nothing /\ swarm = Nothing
     /\ decision = Nothing /\ over = Nothing
  \/ /\ part = "feedback" /\ Feedback!Init /\ Init /\ status = {} /\ Frozen \notin {profile[p] : p \in Profiles}

AllNext ==
  \/ /\ part = "fleet" /\ Next
     /\ UNCHANGED <<part, item, proposal, swarm, decision, over>>
  \/ /\ part = "feedback" /\ Feedback!Next
     /\ UNCHANGED <<part, vars>>

allVars ==
  <<part, vars, item, proposal, swarm, decision, over>>

AllSpec == AllInit /\ [][AllNext]_allVars

Symmetry ==
  Permutations(Requests) \cup Permutations(Packs) \cup Permutations(Past)

(* Closed feedback is explained by the proposal that closed it.            *)
ClosedByStandingDecision == part = "feedback" => Feedback!ClosedByStandingDecision
==============================================================================
