------------------------------- MODULE AgentsProofs -------------------------------
(***************************************************************************)
(* The safety of the components of MCAgents for every set of requests,     *)
(* profiles, instances, packs, items and clusters: which runs get past the *)
(* gates, what there is one of, what a deleted instance leaves behind, and *)
(* which decision a closed piece of feedback stands on.                    *)
(***************************************************************************)
EXTENDS MCAgents, TLAPS

-----------------------------------------------------------------------------
(* Agents, gates and runs.                                                 *)

OnInstance == Dispatches \cup {"updateInstance", "deleteInstance", "setSecret", "deleteSecret"}
OnProfile  == {"createInstance", "renameProfile", "deleteProfile"}
GateSteps  == {"profile", "gate", "fallback"}
Steps      == Over \cup GateSteps \cup
  {"none", "begin", "insert", "second", "set", "persist", "link", "clear", "find", "update", "choose"}

Someone == Requests \cup {Nothing}
Reads   == Someone \cup ProfileIds \cup Names \cup {<<>>} \cup {<<i>> : i \in Someone}
CallTypes ==
  [op : Ops \cup {"launch"}, step : Steps, on : InstanceIds \cup ProfileIds \cup Packs \cup {Nothing},
   read : Reads, answer : Polls \cup {<<>>}, todo : SUBSET Packs]

(* What a request works on, and what its steps have read.                  *)
Placed(r) ==
  LET c == call[r] IN
  /\ c.step # "none" /\ c.op \in OnInstance => c.on \in InstanceIds
  /\ c.step # "none" /\ c.op \in OnProfile => c.on \in ProfileIds
  /\ c.step # "none" /\ c.op = "activate" => c.on \in Packs
  /\ c.step \in GateSteps => c.op = "chat"
  /\ c.step = "profile" => c.read \in ProfileIds
  /\ c.step = "persist" => c.answer \in Polls

FleetTypeOK ==
  /\ status \subseteq [id : Someone, vertex : Names \cup {"unknown"},
                       status : {"healthy", "warning", "blocked"}]
  /\ profile \in [ProfileIds -> Names \cup {Nothing}]
  /\ instance \in [InstanceIds -> [status : {"none", "active", "paused", "deleted"},
                                   vertexId : ProfileIds \cup {Nothing}, by : Someone]]
  /\ secret \in [InstanceIds -> [id : Someone, by : Someone]]
  /\ runs \subseteq Requests
  /\ vertical \in [Packs -> [exists : BOOLEAN, primary : BOOLEAN, by : Someone]]
  /\ call \in [Requests -> CallTypes]
  /\ ended \in [Requests -> SUBSET Requests]
  /\ opened \subseteq Requests
  /\ \A r \in Requests : Placed(r)

EndedAreOver == \A r \in Requests : \A q \in ended[r] : call[q].step \in Over

LEMMA FleetNames ==
  /\ Nothing \notin Requests /\ Nothing \notin ProfileIds /\ Nothing \notin InstanceIds
  /\ Nothing \notin Names /\ "unknown" \notin Names /\ Frozen \in Names
  /\ Requests \subseteq InstanceIds /\ Requests \subseteq ProfileIds
  BY FleetAssumption DEF ProfileIds, InstanceIds

LEMMA NoCallTyped ==
  /\ NoCall \in CallTypes /\ NoCall.step = "none" /\ NoCall.op = "launch"
  /\ NoCall.todo = {} /\ NoCall.on = Nothing
  BY DEF CallTypes, NoCall, Steps, Reads, Someone

LEMMA PollsTyped ==
  ASSUME NEW answer \in Polls
  PROVE  answer[1] \in Names \cup {"unknown"} /\ answer[2] \in {"healthy", "warning", "blocked"}
  BY DEF Polls, Verdict, Handshakes

(* What every step has in common. A request that is over takes none, and   *)
(* keeps what it was about.                                                *)
Moves(r) ==
  /\ call[r].step \notin Over /\ call'[r].step # "none"
  /\ \A q \in Requests \ {r} : call'[q] = call[q] /\ ended'[q] = ended[q]
  /\ \/ call[r].step = "none" /\ call'[r].step = "begin"
        /\ ended'[r] = {q \in Requests : call[q].step \in Over}
     \/ /\ call[r].step # "none" /\ call'[r].step # "begin" /\ ended'[r] = ended[r]
        /\ call'[r].op = call[r].op /\ call'[r].on = call[r].on

LEMMA FleetGoto ==
  ASSUME FleetTypeOK, NEW r \in Requests, NEW step \in Steps \ {"none", "begin"},
         call[r].step \notin Over \cup {"none"}, Goto(r, step), UNCHANGED ended
  PROVE  /\ call' \in [Requests -> CallTypes] /\ Moves(r) /\ call'[r].step = step
         /\ step \notin Over => /\ call'[r].read = call[r].read /\ call'[r].answer = call[r].answer
                                /\ call'[r].todo = call[r].todo
         /\ ended' \in [Requests -> SUBSET Requests]
         /\ step \notin GateSteps \cup {"persist"} /\ Placed(r) => Placed(r)'
<1> DEFINE c == IF step \notin Over THEN [call[r] EXCEPT !.step = step]
                  ELSE [NoCall EXCEPT !.op = call[r].op, !.on = call[r].on, !.step = step]
<1>1. /\ c \in CallTypes /\ c.step = step /\ c.op = call[r].op /\ c.on = call[r].on
      /\ step \notin Over => c.read = call[r].read /\ c.answer = call[r].answer /\ c.todo = call[r].todo
  <2>1. call[r] \in CallTypes
    BY DEF FleetTypeOK
  <2>2. QED
    BY <2>1, NoCallTyped DEF CallTypes
<1>2. call' = [call EXCEPT ![r] = c]
  BY DEF Goto
<1> HIDE DEF c
<1>3. call' \in [Requests -> CallTypes] /\ call'[r] = c /\ \A q \in Requests \ {r} : call'[q] = call[q]
  BY <1>1, <1>2 DEF FleetTypeOK
<1>4. Moves(r)
  BY <1>1, <1>3 DEF Moves, Over
<1>5. step \notin GateSteps \cup {"persist"} /\ Placed(r) => Placed(r)'
  BY <1>1, <1>3 DEF Placed, GateSteps, FleetTypeOK
<1>6. QED
  BY <1>1, <1>3, <1>4, <1>5 DEF FleetTypeOK

LEMMA OthersPlaced ==
  ASSUME FleetTypeOK, NEW r \in Requests, Moves(r), Placed(r)'
  PROVE  \A q \in Requests : Placed(q)'
  BY DEF Moves, Placed, FleetTypeOK

LEMMA FleetMoves ==
  ASSUME FleetTypeOK, NEW r \in Requests, Step(r)
  PROVE  Moves(r) /\ call' \in [Requests -> CallTypes] /\ ended' \in [Requests -> SUBSET Requests]
         /\ Placed(r)'
<1> USE FleetNames
<1>0. /\ call \in [Requests -> CallTypes] /\ ended \in [Requests -> SUBSET Requests] /\ Placed(r)
      /\ call[r] \in CallTypes
  BY DEF FleetTypeOK
<1>1. CASE Begin(r)
  <2>1. PICK op \in Ops : \E on \in Targets(op) :
          call' = [call EXCEPT ![r].op = op, ![r].on = on, ![r].step = "begin"]
    BY <1>1 DEF Begin
  <2>2. PICK on \in Targets(op) :
          call' = [call EXCEPT ![r].op = op, ![r].on = on, ![r].step = "begin"]
    BY <2>1
  <2>3. /\ op \in OnInstance => on \in InstanceIds
        /\ op \in OnProfile => on \in ProfileIds
        /\ op = "activate" => on \in Packs
        /\ on \in InstanceIds \cup ProfileIds \cup Packs \cup {Nothing}
    BY DEF Targets, OnInstance, OnProfile, Dispatches
  <2> DEFINE c == [call[r] EXCEPT !.op = op, !.on = on, !.step = "begin"]
  <2>4. /\ c \in CallTypes /\ c.op = op /\ c.on = on /\ c.step = "begin"
    BY <1>0, <2>3 DEF CallTypes, Steps
  <2>5. call' = [call EXCEPT ![r] = c]
    BY <1>0, <2>2 DEF CallTypes
  <2> HIDE DEF c
  <2>6. call' \in [Requests -> CallTypes] /\ call'[r] = c /\ \A q \in Requests \ {r} : call'[q] = call[q]
    BY <1>0, <2>4, <2>5
  <2>7. /\ call[r].step = "none" /\ ended' = [ended EXCEPT ![r] = {q \in Requests : call[q].step \in Over}]
    BY <1>1 DEF Begin
  <2>8. Moves(r) /\ ended' \in [Requests -> SUBSET Requests]
    BY <1>0, <2>4, <2>6, <2>7 DEF Moves, Over
  <2>9. Placed(r)'
    BY <2>3, <2>4, <2>6 DEF Placed, GateSteps
  <2>10. QED
    BY <2>6, <2>8, <2>9
<1> DEFINE Goes == \E step \in Steps \ ({"none", "begin", "persist"} \cup GateSteps) :
                     Goto(r, step) /\ UNCHANGED ended
<1>2. ASSUME Goes, call[r].step \notin Over \cup {"none"}
      PROVE  Moves(r) /\ call' \in [Requests -> CallTypes] /\ ended' \in [Requests -> SUBSET Requests]
             /\ Placed(r)'
  BY <1>0, <1>2, FleetGoto
<1>3. CASE Throws(r)
  BY <1>2, <1>3 DEF Throws, Live, Over, Steps, GateSteps
<1>4. CASE CreateProfile(r) \/ RenameProfile(r) \/ DeleteProfile(r)
  BY <1>2, <1>4 DEF CreateProfile, RenameProfile, DeleteProfile, At, Over, Steps, GateSteps
<1>5. CASE CheckVertex(r) \/ InsertInstance(r) \/ UpdateInstance(r)
  BY <1>2, <1>5 DEF CheckVertex, InsertInstance, UpdateInstance, At, Over, Steps, GateSteps
<1>6. CASE DeleteInstance(r)
  BY <1>2, <1>6 DEF DeleteInstance, Live, Over, Steps, GateSteps
<1>7. CASE SetSecret(r) \/ DeleteSecret(r)
  BY <1>2, <1>7 DEF SetSecret, DeleteSecret, At, Over, Steps, GateSteps
<1>8. CASE PersistStatus(r)
  BY <1>2, <1>8 DEF PersistStatus, At, Over, Steps, GateSteps
<1>9. CASE FindInstance(r) \/ InsertRun(r) \/ LinkArtifact(r)
  BY <1>2, <1>9 DEF FindInstance, InsertRun, LinkArtifact, At, Over, Steps, GateSteps
<1>10. CASE GateStatus(r)
  <2>1. /\ call[r].op = "chat" /\ call[r].step = "gate" /\ UNCHANGED ended
        /\ Goto(r, "fallback") \/ Goto(r, "insert")
    BY <1>10 DEF GateStatus, At
  <2>2. CASE Goto(r, "insert")
    BY <1>2, <2>1, <2>2 DEF Over, Steps, GateSteps
  <2>3. CASE Goto(r, "fallback")
    <3>1. Moves(r) /\ call' \in [Requests -> CallTypes] /\ ended' \in [Requests -> SUBSET Requests]
          /\ call'[r].step = "fallback"
      BY <2>1, <2>3, FleetGoto DEF Over, Steps, GateSteps
    <3>2. Placed(r)'
      BY <1>0, <2>1, <3>1 DEF Placed, Moves, GateSteps
    <3>3. QED
      BY <3>1, <3>2
  <2>4. QED
    BY <2>1, <2>2, <2>3
<1>11. CASE GateFallback(r)
  BY <1>2, <1>11 DEF GateFallback, At, Over, Steps, GateSteps
<1>12. CASE FindSelection(r) \/ SetPrimary(r)
  BY <1>2, <1>12 DEF FindSelection, SetPrimary, At, Over, Steps, GateSteps
(* The other steps write what they read.                                   *)
<1> DEFINE Keeps == \E c \in CallTypes :
      /\ call' = [call EXCEPT ![r] = c] /\ UNCHANGED ended
      /\ c.op = call[r].op /\ c.on = call[r].on /\ c.step \notin {"none", "begin"}
      /\ c.step \in GateSteps => c.op = "chat"
      /\ c.step = "profile" => c.read \in ProfileIds
      /\ c.step = "persist" => c.answer \in Polls
<1>13. ASSUME Keeps, call[r].step \notin Over \cup {"none"}
       PROVE  Moves(r) /\ call' \in [Requests -> CallTypes] /\ ended' \in [Requests -> SUBSET Requests]
              /\ Placed(r)'
  <2>1. PICK c \in CallTypes :
      /\ call' = [call EXCEPT ![r] = c] /\ UNCHANGED ended
      /\ c.op = call[r].op /\ c.on = call[r].on /\ c.step \notin {"none", "begin"}
      /\ c.step \in GateSteps => c.op = "chat"
      /\ c.step = "profile" => c.read \in ProfileIds
      /\ c.step = "persist" => c.answer \in Polls
    BY <1>13
  <2>2. call' \in [Requests -> CallTypes] /\ call'[r] = c /\ \A q \in Requests \ {r} : call'[q] = call[q]
    BY <1>0, <2>1
  <2>3. QED
    BY <1>0, <1>13, <2>1, <2>2 DEF Moves, Placed
<1>14. CASE FindSecret(r)
  <2> DEFINE c == [call[r] EXCEPT !.step = "set", !.read = secret[call[r].on].id]
  <2>1. call[r].on \in InstanceIds /\ secret[call[r].on].id \in Someone
    BY <1>0, <1>14 DEF FindSecret, At, Placed, OnInstance, FleetTypeOK
  <2>2. /\ c \in CallTypes /\ c.op = call[r].op /\ c.on = call[r].on /\ c.step = "set"
    BY <1>0, <2>1 DEF CallTypes, Steps, Reads
  <2>3. call' = [call EXCEPT ![r] = c] /\ UNCHANGED ended
    BY <1>0, <1>14 DEF FindSecret, CallTypes
  <2> HIDE DEF c
  <2>4. Keeps
    BY <2>2, <2>3 DEF GateSteps
  <2>5. QED
    BY <1>13, <1>14, <2>4 DEF FindSecret, At, Over
<1>15. CASE PollHealth(r)
  <2>1. PICK answer \in Polls : \E found \in Pick(RowsOf(answer[1])) :
       call' = [call EXCEPT ![r].step = "persist", ![r].answer = answer, ![r].read = found]
    BY <1>15 DEF PollHealth
  <2>2. PICK found \in Pick(RowsOf(answer[1])) :
       call' = [call EXCEPT ![r].step = "persist", ![r].answer = answer, ![r].read = found]
    BY <2>1
  <2>3. found \in Reads
    BY DEF Pick, RowsOf, Reads, FleetTypeOK
  <2> DEFINE c == [call[r] EXCEPT !.step = "persist", !.answer = answer, !.read = found]
  <2>4. /\ c \in CallTypes /\ c.op = call[r].op /\ c.on = call[r].on /\ c.step = "persist"
        /\ c.answer = answer
    BY <1>0, <2>3 DEF CallTypes, Steps
  <2>5. call' = [call EXCEPT ![r] = c] /\ UNCHANGED ended
    BY <1>0, <1>15, <2>2 DEF PollHealth, CallTypes
  <2> HIDE DEF c
  <2>6. Keeps
    BY <2>4, <2>5 DEF GateSteps
  <2>7. QED
    BY <1>13, <1>15, <2>6 DEF PollHealth, At, Over
<1>16. CASE GateInstance(r)
  <2> DEFINE v == instance[call[r].on].vertexId
             s == IF v = Nothing THEN "insert" ELSE "profile"
             c == [call[r] EXCEPT !.read = v, !.step = s]
  <2>1. call[r].on \in InstanceIds /\ v \in ProfileIds \cup {Nothing} /\ call[r].op = "chat"
    BY <1>0, <1>16 DEF GateInstance, At, Placed, OnInstance, Dispatches, FleetTypeOK
  <2>2. /\ c \in CallTypes /\ c.op = call[r].op /\ c.on = call[r].on /\ c.step = s /\ c.read = v
    BY <1>0, <2>1, ZenonT(60) DEF CallTypes, Steps, Reads, GateSteps, Someone
  <2>3. call' = [call EXCEPT ![r] = c] /\ UNCHANGED ended
    BY <1>0, <1>16 DEF GateInstance, CallTypes
  <2>4. v # Nothing => v \in ProfileIds
    BY <2>1
  <2> HIDE DEF c, v
  <2>5. Keeps
    BY <2>1, <2>2, <2>3, <2>4 DEF GateSteps
  <2>6. QED
    BY <1>13, <1>16, <2>5 DEF GateInstance, At, Over
<1>17. CASE GateProfile(r)
  <2> DEFINE v == profile[call[r].read]
             s == IF v = Nothing THEN "insert" ELSE "gate"
             c == [call[r] EXCEPT !.read = v, !.step = s]
  <2>1. call[r].read \in ProfileIds /\ v \in Names \cup {Nothing} /\ call[r].op = "chat"
    BY <1>0, <1>17 DEF GateProfile, At, Placed, FleetTypeOK
  <2>2. /\ c \in CallTypes /\ c.op = call[r].op /\ c.on = call[r].on /\ c.step = s
    BY <1>0, <2>1, ZenonT(60) DEF CallTypes, Steps, Reads, GateSteps, Someone
  <2>3. call' = [call EXCEPT ![r] = c] /\ UNCHANGED ended
    BY <1>0, <1>17 DEF GateProfile, CallTypes
  <2> HIDE DEF c, v
  <2>5. Keeps
    BY <2>1, <2>2, <2>3 DEF GateSteps
  <2>6. QED
    BY <1>13, <1>17, <2>5 DEF GateProfile, At, Over
<1>18. CASE FindPrimaries(r)
  <2> DEFINE t == Primaries(r)
             s == IF t = {} THEN "find" ELSE "clear"
             c == [call[r] EXCEPT !.todo = t, !.step = s]
  <2>1. t \in SUBSET Packs
    BY DEF Primaries
  <2>2. /\ c \in CallTypes /\ c.op = call[r].op /\ c.on = call[r].on /\ c.step = s
    BY <1>0, <2>1, ZenonT(60) DEF CallTypes, Steps
  <2>3. call' = [call EXCEPT ![r] = c] /\ UNCHANGED ended
    BY <1>0, <1>18 DEF FindPrimaries, CallTypes
  <2> HIDE DEF c, t
  <2>5. Keeps
    BY <2>2, <2>3 DEF GateSteps
  <2>6. QED
    BY <1>13, <1>18, <2>5 DEF FindPrimaries, At, Over
<1>19. CASE ClearPrimary(r)
  <2> DEFINE k == CHOOSE x \in call[r].todo : TRUE
             s == IF call[r].todo = {k} THEN "find" ELSE "clear"
             c == [call[r] EXCEPT !.todo = @ \ {k}, !.step = s]
  <2>2. /\ c \in CallTypes /\ c.op = call[r].op /\ c.on = call[r].on /\ c.step = s
    BY <1>0 DEF CallTypes, Steps
  <2>1. /\ call' = [call EXCEPT ![r].todo = @ \ {k},
                               ![r].step = IF call[r].todo = {k} THEN "find" ELSE "clear"]
        /\ UNCHANGED ended
    BY <1>19 DEF ClearPrimary
  <2> HIDE DEF k
  <2>3. call' = [call EXCEPT ![r] = c] /\ UNCHANGED ended
    BY <1>0, <2>1 DEF CallTypes
  <2> HIDE DEF c
  <2>5. Keeps
    BY <2>2, <2>3 DEF GateSteps
  <2>6. QED
    BY <1>13, <1>19, <2>5 DEF ClearPrimary, At, Over
<1>20. QED
  BY <1>1, <1>3, <1>4, <1>5, <1>6, <1>7, <1>8, <1>9, <1>10, <1>11, <1>12, <1>14, <1>15,
     <1>16, <1>17, <1>18, <1>19 DEF Step

LEMMA FleetKeepsType ==
  ASSUME FleetTypeOK, NEW r \in Requests, Step(r)
  PROVE  FleetTypeOK'
<1> USE FleetNames
<1>0. /\ Moves(r) /\ call' \in [Requests -> CallTypes] /\ ended' \in [Requests -> SUBSET Requests]
      /\ \A q \in Requests : Placed(q)'
  BY FleetMoves, OthersPlaced
<1>1. /\ call[r] \in CallTypes /\ Placed(r)
      /\ status \subseteq [id : Someone, vertex : Names \cup {"unknown"},
                           status : {"healthy", "warning", "blocked"}]
      /\ profile \in [ProfileIds -> Names \cup {Nothing}]
      /\ instance \in [InstanceIds -> [status : {"none", "active", "paused", "deleted"},
                                       vertexId : ProfileIds \cup {Nothing}, by : Someone]]
      /\ secret \in [InstanceIds -> [id : Someone, by : Someone]]
      /\ runs \subseteq Requests /\ opened \subseteq Requests
      /\ vertical \in [Packs -> [exists : BOOLEAN, primary : BOOLEAN, by : Someone]]
  BY DEF FleetTypeOK
<1>2. opened' \subseteq Requests
  <2>1. Track
    BY DEF Step, Begin, Throws, CreateProfile, RenameProfile, DeleteProfile, CheckVertex,
       InsertInstance, UpdateInstance, DeleteInstance, FindSecret, SetSecret, DeleteSecret,
       PollHealth, PersistStatus, FindInstance, InsertRun, LinkArtifact, GateInstance,
       GateProfile, GateStatus, GateFallback, FindPrimaries, ClearPrimary, FindSelection, SetPrimary
  <2>2. QED
    BY <1>1, <2>1 DEF Track, Waiting
<1>3. /\ profile' \in [ProfileIds -> Names \cup {Nothing}]
  <2>1. CASE UNCHANGED profile
    BY <1>1, <2>1
  <2>2. CASE CreateProfile(r) \/ RenameProfile(r) \/ DeleteProfile(r)
    BY <1>1, <2>2 DEF CreateProfile, RenameProfile, DeleteProfile
  <2>3. QED
    BY <2>1, <2>2 DEF Step, rows, Begin, Throws, CheckVertex,
       InsertInstance, UpdateInstance, DeleteInstance, FindSecret, SetSecret, DeleteSecret,
       PollHealth, PersistStatus, FindInstance, InsertRun, LinkArtifact, GateInstance,
       GateProfile, GateStatus, GateFallback, FindPrimaries, ClearPrimary, FindSelection, SetPrimary
<1>4. instance' \in [InstanceIds -> [status : {"none", "active", "paused", "deleted"},
                                     vertexId : ProfileIds \cup {Nothing}, by : Someone]]
  <2>1. CASE UNCHANGED instance
    BY <1>1, <2>1
  <2>2. CASE InsertInstance(r)
    <3>1. call[r].on \in ProfileIds
      BY <1>1, <2>2 DEF InsertInstance, At, Placed, OnProfile
    <3>2. QED
      BY <1>1, <2>2, <3>1 DEF InsertInstance, Someone
  <2>3. CASE UpdateInstance(r)
    <3> DEFINE i == call[r].on
    <3>1. i \in InstanceIds
      BY <1>1, <2>3 DEF UpdateInstance, At, Placed, OnInstance
    <3>2. PICK s \in {"active", "paused"}, p \in {instance[i].vertexId, Nothing}
              \cup {q \in ProfileIds : profile[q] # Nothing} :
            instance' = IF ~Here(i) THEN instance
              ELSE [instance EXCEPT ![i].status = s, ![i].vertexId = p]
      BY <2>3 DEF UpdateInstance
    <3>3. p \in ProfileIds \cup {Nothing} /\ instance[i] \in [status : {"none", "active", "paused", "deleted"},
                                     vertexId : ProfileIds \cup {Nothing}, by : Someone]
      BY <1>1, <3>1
    <3> DEFINE c == [instance[i] EXCEPT !.status = s, !.vertexId = p]
    <3>4. c \in [status : {"none", "active", "paused", "deleted"},
                 vertexId : ProfileIds \cup {Nothing}, by : Someone]
      BY <3>3
    <3>5. instance' = instance \/ instance' = [instance EXCEPT ![i] = c]
      BY <1>1, <3>1, <3>2
    <3> HIDE DEF c, i
    <3>6. QED
      BY <1>1, <3>1, <3>4, <3>5
  <2>4. CASE DeleteInstance(r)
    BY <1>1, <2>4 DEF DeleteInstance, Placed, OnInstance, Live, Someone
  <2>5. QED
    BY <2>1, <2>2, <2>3, <2>4 DEF Step, rows, Begin, Throws, CreateProfile, RenameProfile,
       DeleteProfile, CheckVertex, FindSecret, SetSecret, DeleteSecret,
       PollHealth, PersistStatus, FindInstance, InsertRun, LinkArtifact, GateInstance,
       GateProfile, GateStatus, GateFallback, FindPrimaries, ClearPrimary, FindSelection, SetPrimary
<1>5. secret' \in [InstanceIds -> [id : Someone, by : Someone]]
  <2>1. CASE UNCHANGED secret
    BY <1>1, <2>1
  <2>2. CASE DeleteInstance(r) \/ DeleteSecret(r)
    BY <1>1, <2>2 DEF DeleteInstance, DeleteSecret, NoSecret, Someone
  <2>3. CASE SetSecret(r)
    <3>1. call[r].on \in InstanceIds
      BY <1>1, <2>3 DEF SetSecret, At, Placed, OnInstance
    <3>2. QED
      BY <1>1, <2>3, <3>1 DEF SetSecret, Someone
  <2>4. QED
    BY <2>1, <2>2, <2>3 DEF Step, rows, Begin, Throws, CreateProfile, RenameProfile, DeleteProfile,
       CheckVertex, InsertInstance, UpdateInstance, FindSecret,
       PollHealth, PersistStatus, FindInstance, InsertRun, LinkArtifact, GateInstance,
       GateProfile, GateStatus, GateFallback, FindPrimaries, ClearPrimary, FindSelection, SetPrimary
<1>6. status' \subseteq [id : Someone, vertex : Names \cup {"unknown"},
                         status : {"healthy", "warning", "blocked"}]
  <2>1. CASE UNCHANGED status
    BY <1>1, <2>1
  <2>2. CASE PersistStatus(r)
    <3> DEFINE v == call[r].answer[1]
               s == call[r].answer[2]
    <3>1. v \in Names \cup {"unknown"} /\ s \in {"healthy", "warning", "blocked"}
      BY <1>1, <2>2, PollsTyped DEF PersistStatus, At, Placed
    <3>2. status' = (IF call[r].read = <<>> THEN status \cup {[id |-> r, vertex |-> v, status |-> s]}
                     ELSE {IF t.id = call[r].read[1] THEN [id |-> t.id, vertex |-> v, status |-> s] ELSE t
                            : t \in status})
      BY <2>2 DEF PersistStatus
    <3> HIDE DEF v, s
    <3>3. QED
      BY <1>1, <3>1, <3>2 DEF Someone
  <2>3. QED
    BY <2>1, <2>2 DEF Step, rows, Begin, Throws, CreateProfile, RenameProfile, DeleteProfile, CheckVertex,
       InsertInstance, UpdateInstance, DeleteInstance, FindSecret, SetSecret, DeleteSecret,
       PollHealth, FindInstance, InsertRun, LinkArtifact, GateInstance,
       GateProfile, GateStatus, GateFallback, FindPrimaries, ClearPrimary, FindSelection, SetPrimary
<1>7. vertical' \in [Packs -> [exists : BOOLEAN, primary : BOOLEAN, by : Someone]]
  <2>1. CASE UNCHANGED vertical
    BY <1>1, <2>1
  <2>2. CASE ClearPrimary(r)
    <3> DEFINE k == CHOOSE x \in call[r].todo : TRUE
    <3>1. vertical' = [vertical EXCEPT ![k].primary = FALSE]
      BY <2>2 DEF ClearPrimary
    <3> HIDE DEF k
    <3>2. QED
      BY <1>1, <3>1
  <2>3. CASE SetPrimary(r)
    BY <1>1, <2>3 DEF SetPrimary, Someone
  <2>4. QED
    BY <2>1, <2>2, <2>3 DEF Step, rows, Begin, Throws, CreateProfile, RenameProfile, DeleteProfile, CheckVertex,
       InsertInstance, UpdateInstance, DeleteInstance, FindSecret, SetSecret, DeleteSecret,
       PollHealth, PersistStatus, FindInstance, InsertRun, LinkArtifact, GateInstance,
       GateProfile, GateStatus, GateFallback, FindPrimaries, FindSelection
<1>8. runs' \subseteq Requests
  BY <1>1 DEF Step, rows, Begin, Throws, CreateProfile, RenameProfile, DeleteProfile, CheckVertex,
       InsertInstance, UpdateInstance, DeleteInstance, FindSecret, SetSecret, DeleteSecret,
       PollHealth, PersistStatus, FindInstance, InsertRun, LinkArtifact, GateInstance,
       GateProfile, GateStatus, GateFallback, FindPrimaries, ClearPrimary, FindSelection, SetPrimary
<1>9. QED
  BY <1>0, <1>2, <1>3, <1>4, <1>5, <1>6, <1>7, <1>8 DEF FleetTypeOK

(* Requests that overlap stay so; a request at work overlaps all others    *)
(* that are.                                                               *)
LEMMA OverlapStays ==
  ASSUME FleetTypeOK, NEW r \in Requests, Moves(r),
         NEW p \in Requests, NEW q \in Requests, Overlap(p, q), call[q].step # "none"
  PROVE  Overlap(p, q)' /\ call'[q].step # "none"
  BY DEF Overlap, Moves

AtWork(r) == call[r].step \notin Over \cup {"none"}

LEMMA AtWorkOverlap ==
  ASSUME EndedAreOver, NEW p \in Requests, NEW q \in Requests, p # q, AtWork(p), AtWork(q)
  PROVE  Overlap(p, q)
  BY DEF EndedAreOver, Overlap, AtWork

LEMMA EndedStayOver ==
  ASSUME FleetTypeOK, EndedAreOver, NEW r \in Requests, Moves(r)
  PROVE  EndedAreOver'
<1> SUFFICES ASSUME NEW q \in Requests, NEW p \in ended'[q] PROVE call'[p].step \in Over
  BY DEF EndedAreOver
<1>1. CASE p \in ended[q]
  <2>1. p \in Requests /\ call[p].step \in Over
    BY <1>1 DEF EndedAreOver, FleetTypeOK
  <2>2. QED
    BY <2>1 DEF Moves
<1>2. CASE p \notin ended[q]
  <2>1. q = r /\ p \in Requests /\ call[p].step \in Over
    BY <1>2 DEF Moves
  <2>2. QED
    BY <2>1 DEF Moves, Over
<1>3. QED
  BY <1>1, <1>2

-----------------------------------------------------------------------------
(* The gates. Where a request waits at a gate that has been open at no     *)
(* moment of it, what it goes on to read keeps the gate shut, unless two   *)
(* others overlap it: every writer changes one of the tables the gate      *)
(* reads once, so with a single one all reads are those of one moment.     *)
Closed(name) == name # Nothing /\ (name = Frozen \/ ~HasLeave(name))

Shut(r) ==
  LET c == call[r] IN
  /\ c.step = "profile"  => Closed(profile[c.read])
  /\ c.step = "gate"     => Closed(c.read)
  /\ c.step = "fallback" => c.read = Frozen \/ ~ \E s \in status : s.status = "healthy"
  /\ c.step # "insert"

Fresh(r) ==
  LET c == call[r] IN
  /\ c.step = "profile"  => instance[c.on].vertexId = c.read
  /\ c.step = "gate"     => NameOf(c.on) = c.read
  /\ c.step = "fallback" => NameOf(c.on) = c.read /\ RowsOf(c.read) = {}

Two(r) == \E p, q \in Requests : p # q /\ Overlap(p, r) /\ Overlap(q, r)
Passed(r) == \E p \in Requests : Overlap(p, r) /\ call[p].step = "returned"

Barred(r) ==
  r \in Waiting /\ r \notin opened /\ call[r].step # "link" =>
    Two(r) \/ (Shut(r) /\ (Fresh(r) \/ Passed(r)))

OpenIsOpened == \A r \in Waiting : Open(r) => r \in opened

GateInv == FleetTypeOK /\ EndedAreOver /\ OpenIsOpened /\ (\A r \in Requests : Barred(r))
           /\ RunsPassOpenGate /\ (\A r \in runs : call[r].step # "none")

LEMMA EveryStepTracks ==
  ASSUME NEW r \in Requests, Step(r)
  PROVE  Track
  BY DEF Step, Begin, Throws, CreateProfile, RenameProfile, DeleteProfile, CheckVertex,
     InsertInstance, UpdateInstance, DeleteInstance, FindSecret, SetSecret, DeleteSecret,
     PollHealth, PersistStatus, FindInstance, InsertRun, LinkArtifact, GateInstance,
     GateProfile, GateStatus, GateFallback, FindPrimaries, ClearPrimary, FindSelection, SetPrimary

LEMMA Tracked ==
  ASSUME FleetTypeOK, Track
  PROVE  /\ OpenIsOpened'
         /\ \A q \in opened : q \in Waiting' \/ q \in runs' => q \in opened'
  BY DEF Track, OpenIsOpened, Waiting

(* A step writes runs if it inserts one, and one of the tables of a gate,  *)
(* or none, and then it is over.                                           *)
WritesGate(r) ==
  /\ AtWork(r) /\ call'[r].step = "returned"
  /\ \/ UNCHANGED <<profile, status>>
     \/ UNCHANGED <<instance, status>>
     \/ UNCHANGED <<instance, profile>> /\ PersistStatus(r)

LEMMA GateWriters ==
  ASSUME FleetTypeOK, NEW r \in Requests, Step(r)
  PROVE  UNCHANGED <<instance, profile, status>> \/ WritesGate(r)
<1>0. call[r] \in CallTypes /\ call \in [Requests -> CallTypes]
  BY DEF FleetTypeOK
<1>1. CASE CreateProfile(r) \/ RenameProfile(r) \/ DeleteProfile(r)
  <2>1. Goto(r, "returned") /\ AtWork(r) /\ UNCHANGED <<instance, status, ended>>
    BY <1>1 DEF CreateProfile, RenameProfile, DeleteProfile, At, AtWork, Over
  <2>2. call'[r].step = "returned"
    BY <2>1, FleetGoto DEF AtWork, Steps, Over
  <2>3. QED
    BY <2>1, <2>2 DEF WritesGate
<1>2. CASE InsertInstance(r) \/ UpdateInstance(r)
  <2>1. Goto(r, "returned") /\ AtWork(r) /\ UNCHANGED <<profile, status, ended>>
    BY <1>2 DEF InsertInstance, UpdateInstance, At, AtWork, Over
  <2>2. call'[r].step = "returned"
    BY <2>1, FleetGoto DEF AtWork, Steps, Over
  <2>3. QED
    BY <2>1, <2>2 DEF WritesGate
<1>3. CASE DeleteInstance(r)
  <2>1. CASE call[r].step = "begin"
    BY <1>3, <2>1 DEF DeleteInstance, Deletes
  <2>2. CASE call[r].step # "begin"
    <3>1. Goto(r, "returned") /\ AtWork(r) /\ UNCHANGED <<profile, status, ended>>
      BY <1>3, <2>2 DEF DeleteInstance, Live, AtWork
    <3>2. call'[r].step = "returned"
      BY <3>1, FleetGoto DEF AtWork, Steps, Over
    <3>3. QED
      BY <3>1, <3>2 DEF WritesGate
  <2>3. QED
    BY <2>1, <2>2
<1>4. CASE PersistStatus(r)
  <2>1. Goto(r, "returned") /\ AtWork(r) /\ UNCHANGED <<instance, profile, ended>>
    BY <1>4 DEF PersistStatus, At, AtWork, Over
  <2>2. call'[r].step = "returned"
    BY <2>1, FleetGoto DEF AtWork, Steps, Over
  <2>3. QED
    BY <1>4, <2>1, <2>2 DEF WritesGate
<1>5. QED
  BY <1>1, <1>2, <1>3, <1>4 DEF Step, rows, Begin, Throws, CheckVertex,
     FindSecret, SetSecret, DeleteSecret,
     PollHealth, FindInstance, InsertRun, LinkArtifact, GateInstance,
     GateProfile, GateStatus, GateFallback, FindPrimaries, ClearPrimary, FindSelection, SetPrimary

LEMMA TwoStays ==
  ASSUME FleetTypeOK, NEW r \in Requests, Moves(r), NEW q \in Requests, Two(q), call[q].step # "none"
  PROVE  Two(q)'
  BY OverlapStays DEF Two

LEMMA PassedStays ==
  ASSUME FleetTypeOK, NEW r \in Requests, Moves(r), NEW q \in Requests, Passed(q), call[q].step # "none"
  PROVE  Passed(q)'
<1>1. PICK p \in Requests : Overlap(p, q) /\ call[p].step = "returned"
  BY DEF Passed
<1>2. p # r /\ Overlap(p, q)'
  BY <1>1, OverlapStays DEF Moves, Over
<1>3. QED
  BY <1>1, <1>2 DEF Passed, Moves

(* Another's step that writes nothing a gate reads.                        *)
LEMMA OthersLeaveBarred ==
  ASSUME GateInv, NEW r \in Requests, Step(r), NEW q \in Requests, q # r,
         UNCHANGED <<instance, profile, status>>
  PROVE  Barred(q)'
<1> SUFFICES ASSUME (q \in Waiting /\ q \notin opened /\ call[q].step # "link")'
             PROVE  Two(q)' \/ (Shut(q)' /\ (Fresh(q)' \/ Passed(q)'))
  BY DEF Barred
<1>1. Moves(r) /\ Track /\ FleetTypeOK
  BY FleetMoves, EveryStepTracks DEF GateInv
<1>2. call'[q] = call[q]
  BY <1>1 DEF Moves
<1>3. q \in Waiting /\ call[q].step # "link" /\ call[q].step # "none"
  BY <1>2 DEF Waiting, Live
<1>4. q \notin opened
  BY <1>1, Tracked
<1>5. Two(q) \/ (Shut(q) /\ (Fresh(q) \/ Passed(q)))
  BY <1>3, <1>4 DEF GateInv, Barred
<1>6. Shut(q) => Shut(q)'
  BY <1>2 DEF Shut, Closed, HasLeave, RowsOf, Passes
<1>7. Fresh(q) => Fresh(q)'
  BY <1>2 DEF Fresh, NameOf, RowsOf
<1>8. QED
  BY <1>1, <1>3, <1>5, <1>6, <1>7, TwoStays, PassedStays

(* A poll that is recorded while nothing read so far is healthy leaves no  *)
(* healthy row but one of a vertex whose row is then found.                *)
LEMMA PersistedRows ==
  ASSUME FleetTypeOK, NEW r \in Requests, PersistStatus(r), NEW s \in status'
  PROVE  s \in status \/ (s.vertex = call[r].answer[1] /\ s.status = call[r].answer[2])
  BY DEF PersistStatus

LEMMA OthersWriteBarred ==
  ASSUME GateInv, NEW r \in Requests, Step(r), NEW q \in Requests, q # r, WritesGate(r)
  PROVE  Barred(q)'
<1> SUFFICES ASSUME (q \in Waiting /\ q \notin opened /\ call[q].step # "link")'
             PROVE  Two(q)' \/ (Shut(q)' /\ (Fresh(q)' \/ Passed(q)'))
  BY DEF Barred
<1>1. Moves(r) /\ Track /\ FleetTypeOK /\ EndedAreOver
  BY FleetMoves, EveryStepTracks DEF GateInv
<1>2. call'[q] = call[q]
  BY <1>1 DEF Moves
<1>3. q \in Waiting /\ call[q].step # "link" /\ call[q].step # "none" /\ AtWork(q)
  BY <1>2 DEF Waiting, Live, AtWork
<1>4. q \notin opened
  BY <1>1, Tracked
<1>5. Two(q) \/ (Shut(q) /\ (Fresh(q) \/ Passed(q)))
  BY <1>3, <1>4 DEF GateInv, Barred
<1>6. Overlap(r, q)
  BY <1>1, <1>3, AtWorkOverlap DEF WritesGate
<1>7. Passed(q)'
  BY <1>1, <1>3, <1>6, OverlapStays DEF WritesGate, Passed
<1>8. ~Open(q)'
  BY <1>1, Tracked DEF OpenIsOpened
<1>9. Passed(q) => Two(q)
  BY <1>6 DEF Passed, Two, WritesGate, AtWork, Over
<1>10. SUFFICES ASSUME Shut(q), Fresh(q) PROVE Shut(q)'
  BY <1>1, <1>3, <1>5, <1>7, <1>9, TwoStays
<1>11. call[q].step \in GateSteps => call[q].op = "chat"
  BY <1>1 DEF FleetTypeOK, Placed
<1>12. call[q].step # "insert"
  BY <1>10 DEF Shut
<1>13. CASE call[q].step \notin GateSteps
  BY <1>2, <1>12, <1>13 DEF Shut, GateSteps
<1>14. CASE call[q].step \in GateSteps
  <2>1. call'[q].op = "chat" /\ call[q].step = call'[q].step /\ call'[q].read = call[q].read
    BY <1>2, <1>11, <1>14
  <2>0. PICK name : name = NameOf(call[q].on)'
    OBVIOUS
  <2>2. name # Nothing /\ (name = Frozen \/ ~HasLeave(name)')
    BY <1>2, <1>8, <2>0, <2>1 DEF Open, NameOf, HasLeave, RowsOf
  <2>3. CASE UNCHANGED <<profile, status>>
    BY <1>2, <1>10, <2>3 DEF Shut, Closed, HasLeave, RowsOf
  <2>4. CASE UNCHANGED <<instance, status>>
    <3>1. CASE call[q].step = "profile"
      <4>1. call[q].read \in ProfileIds /\ instance'[call[q].on].vertexId = call[q].read
        BY <1>1, <1>10, <2>4, <3>1 DEF Fresh, FleetTypeOK, Placed
      <4>2. name = profile'[call[q].read]
        BY <1>2, <2>0, <4>1, FleetNames DEF NameOf
      <4>3. QED
        BY <1>2, <2>1, <2>2, <3>1, <4>2 DEF Shut, Closed, HasLeave, RowsOf
    <3>2. CASE call[q].step # "profile"
      BY <1>2, <1>10, <2>4, <3>2 DEF Shut, Closed, HasLeave, RowsOf
    <3>3. QED
      BY <3>1, <3>2
  <2>5. CASE UNCHANGED <<instance, profile>> /\ PersistStatus(r)
    <3>0. name = NameOf(call[q].on)
      BY <1>2, <2>0, <2>5 DEF NameOf
    <3>1. CASE call[q].step = "profile"
      <4>1. call[q].read \in ProfileIds /\ instance[call[q].on].vertexId = call[q].read
        BY <1>1, <1>10, <3>1 DEF Fresh, FleetTypeOK, Placed
      <4>2. name = profile'[call'[q].read]
        BY <1>2, <2>5, <3>0, <2>0, <4>1, FleetNames DEF NameOf
      <4>3. QED
        BY <1>2, <2>1, <2>2, <3>1, <4>2 DEF Shut, Closed, HasLeave, RowsOf
    <3>2. CASE call[q].step = "gate"
      <4>1. name = call'[q].read
        BY <1>2, <1>10, <3>0, <3>2 DEF Fresh
      <4>2. QED
        BY <1>2, <2>1, <2>2, <3>2, <4>1 DEF Shut, Closed, HasLeave, RowsOf
    <3>3. CASE call[q].step = "fallback"
      <4>0. PICK n : n = call[q].read
        OBVIOUS
      <4>1. name = n /\ RowsOf(n) = {}
        BY <1>10, <3>0, <3>3, <4>0 DEF Fresh
      <4>2. n = Frozen \/ ~ \E s \in status : s.status = "healthy"
        BY <1>10, <3>3, <4>0 DEF Shut
      <4>3. n = Frozen \/ ~HasLeave(n)'
        BY <2>2, <4>1
      <4>4. ASSUME n # Frozen, NEW s \in status', s.status = "healthy" PROVE FALSE
        <5>1. s.vertex = call[r].answer[1] /\ s.status = call[r].answer[2]
          BY <1>1, <2>5, <4>2, <4>4, PersistedRows
        <5>2. ~(\E t \in status' : t.vertex = n /\ Passes(t))
              /\ ~({t \in status' : t.vertex = n} = {} /\ \E t \in status' : t.status = "healthy")
          BY <4>3, <4>4 DEF HasLeave, RowsOf, Passes
        <5>3. PICK t \in status' : t.vertex = n
          BY <4>4, <5>2
        <5>4. t.vertex = call[r].answer[1] /\ t.status = call[r].answer[2]
          BY <1>1, <2>5, <4>1, <5>3, PersistedRows DEF RowsOf
        <5>5. Passes(t)
          BY <4>4, <5>1, <5>4 DEF Passes
        <5>6. QED
          BY <5>2, <5>3, <5>5
      <4>5. QED
        BY <1>2, <3>3, <4>0, <4>4 DEF Shut
    <3>4. QED
      BY <1>14, <3>1, <3>2, <3>3 DEF GateSteps
  <2>6. QED
    BY <2>3, <2>4, <2>5 DEF WritesGate
<1>15. QED
  BY <1>13, <1>14

(* A request's own steps. Where it goes on although the gate is closed, it *)
(* has read a table before another's write.                                *)
LEMMA OwnStepBarred ==
  ASSUME GateInv, NEW r \in Requests, Step(r)
  PROVE  Barred(r)'
<1> SUFFICES ASSUME (r \in Waiting /\ r \notin opened /\ call[r].step # "link")'
             PROVE  Two(r)' \/ (Shut(r)' /\ (Fresh(r)' \/ Passed(r)'))
  BY DEF Barred
<1>1. Moves(r) /\ Track /\ FleetTypeOK /\ Placed(r) /\ call[r] \in CallTypes
      /\ call \in [Requests -> CallTypes]
  BY FleetMoves, EveryStepTracks DEF GateInv, FleetTypeOK
<1>2. call'[r].op \in Dispatches /\ call'[r].step \notin Over
  BY DEF Waiting, Live
<1>3. CASE Begin(r)
  <2>1. call'[r].step = "begin"
    BY <1>1, <1>3 DEF Begin, Moves
  <2>2. QED
    BY <2>1 DEF Shut, Fresh
<1>4. CASE call[r].step # "none"
  <2>1. /\ call'[r].op = call[r].op /\ call'[r].on = call[r].on /\ r \in Waiting
    BY <1>1, <1>2, <1>4 DEF Moves, Waiting, Live
  <2>2. r \notin opened
    BY <1>1, Tracked
  <2>3. ~Open(r)
    BY <2>1, <2>2 DEF GateInv, OpenIsOpened
  <2>4. call[r].step # "link" => Two(r) \/ (Shut(r) /\ (Fresh(r) \/ Passed(r)))
    BY <2>1, <2>2 DEF GateInv, Barred
  <2>5. call[r].step # "link" => (Shut(r) /\ (Fresh(r) \/ Passed(r))) \/ Two(r)'
    BY <1>1, <1>4, <2>4, TwoStays
  <2>6. Passed(r) => Passed(r)'
    BY <1>1, <1>4, PassedStays
  <2>7. CASE FindInstance(r)
    BY <2>3, <2>7 DEF FindInstance, Open
  <2>8. CASE InsertRun(r) \/ LinkArtifact(r) \/ Throws(r)
    <3>1. PICK step \in Over \cup {"link"} : Goto(r, step) /\ UNCHANGED ended
      BY <2>8 DEF InsertRun, LinkArtifact, Throws, Over
    <3>2. call'[r].step = step
      BY <1>1, <1>4, <3>1, FleetGoto DEF Moves, Steps, Over
    <3>3. QED
      BY <1>2, <3>1, <3>2
  <2>9. CASE GateInstance(r)
    <3> DEFINE v == instance[call[r].on].vertexId
               s == IF v = Nothing THEN "insert" ELSE "profile"
    <3>1. call'[r].read = v /\ call'[r].step = s /\ call[r].op = "chat" /\ UNCHANGED <<instance, profile, status>>
      BY <1>1, <2>9 DEF GateInstance, At, CallTypes, rows
    <3>2. v # Nothing /\ Closed(profile[v])
      BY <2>3, <3>1 DEF Open, Closed, NameOf
    <3>3. call'[r].step = "profile"
      BY <3>1, <3>2
    <3>4. Shut(r)'
      BY <3>1, <3>2, <3>3 DEF Shut, Closed, HasLeave, RowsOf
    <3>5. Fresh(r)'
      BY <2>1, <3>1, <3>3 DEF Fresh
    <3>6. QED
      BY <3>4, <3>5
  <2>10. CASE GateProfile(r)
    <3> DEFINE v == profile[call[r].read]
               s == IF v = Nothing THEN "insert" ELSE "gate"
    <3>1. call'[r].read = v /\ call'[r].step = s /\ call[r].step = "profile"
          /\ UNCHANGED <<instance, profile, status>>
      BY <1>1, <2>10 DEF GateProfile, At, CallTypes, rows
    <3>2. SUFFICES ASSUME Shut(r), Fresh(r) \/ Passed(r) PROVE Shut(r)' /\ (Fresh(r)' \/ Passed(r)')
      BY <2>5, <3>1
    <3>3. Closed(v) /\ v # Nothing
      BY <3>1, <3>2 DEF Shut, Closed
    <3>4. call'[r].step = "gate"
      BY <3>1, <3>3
    <3>5. Shut(r)'
      BY <3>1, <3>3, <3>4 DEF Shut, Closed, HasLeave, RowsOf
    <3>6. Fresh(r) => Fresh(r)'
      <4>1. call[r].read # Nothing
        BY <1>1, <3>1, FleetNames DEF Placed
      <4>2. QED
        BY <2>1, <3>1, <3>4, <4>1 DEF Fresh, NameOf
    <3>7. QED
      BY <2>6, <3>2, <3>5, <3>6
  <2>11. CASE GateStatus(r)
    <3>1. call[r].step = "gate" /\ UNCHANGED <<instance, profile, status>> /\ UNCHANGED ended
      BY <2>11 DEF GateStatus, At, rows
    <3>2. SUFFICES ASSUME Shut(r), Fresh(r) \/ Passed(r) PROVE Shut(r)' /\ (Fresh(r)' \/ Passed(r)')
      BY <2>5, <3>1
    <3>3. Closed(call[r].read)
      BY <3>1, <3>2 DEF Shut
    <3>4. RowsOf(call[r].read) = {} /\ Goto(r, "fallback")
      BY <2>11, <3>3 DEF GateStatus, MayRun, Closed, HasLeave, IsFrozen
    <3>5. call'[r].step = "fallback" /\ call'[r].read = call[r].read
      BY <1>1, <1>4, <3>1, <3>4, FleetGoto DEF Steps, Over, GateSteps
    <3>6. Shut(r)'
      BY <3>1, <3>3, <3>4, <3>5 DEF Shut, Closed, HasLeave
    <3>7. Fresh(r) => Fresh(r)'
      BY <2>1, <3>1, <3>4, <3>5 DEF Fresh, NameOf, RowsOf
    <3>8. QED
      BY <2>6, <3>2, <3>6, <3>7
  <2>12. CASE GateFallback(r)
    <3>1. call[r].step = "fallback"
      BY <2>12 DEF GateFallback, At
    <3>2. ~Shut(r)
      BY <2>12, <3>1 DEF GateFallback, Shut, Fallback, IsFrozen
    <3>3. QED
      BY <2>5, <3>1, <3>2
  <2>13. CASE Begin(r)
    BY <1>4, <2>13 DEF Begin
  <2>14. QED
    BY <1>2, <2>1, <2>7, <2>8, <2>9, <2>10, <2>11, <2>12, <2>13 DEF Step, CreateProfile, RenameProfile,
     DeleteProfile, CheckVertex,
     InsertInstance, UpdateInstance, DeleteInstance, FindSecret, SetSecret, DeleteSecret,
     PollHealth, PersistStatus, FindPrimaries, ClearPrimary, FindSelection, SetPrimary, At, Dispatches
<1>5. QED
  BY <1>3, <1>4 DEF Step, Throws, Live, CreateProfile, RenameProfile,
     DeleteProfile, CheckVertex,
     InsertInstance, UpdateInstance, DeleteInstance, FindSecret, SetSecret, DeleteSecret,
     PollHealth, PersistStatus, FindInstance, InsertRun, LinkArtifact, GateInstance,
     GateProfile, GateStatus, GateFallback, FindPrimaries, ClearPrimary, FindSelection, SetPrimary, At

LEMMA RunsKeep ==
  ASSUME GateInv, NEW r \in Requests, Step(r)
  PROVE  RunsPassOpenGate' /\ \A q \in runs' : call'[q].step # "none"
<1>1. Moves(r) /\ Track /\ FleetTypeOK
  BY FleetMoves, EveryStepTracks DEF GateInv
<1>2. runs' = runs \/ (InsertRun(r) /\ runs' = runs \cup {r})
  BY DEF Step, rows, Begin, Throws, CreateProfile, RenameProfile, DeleteProfile, CheckVertex,
     InsertInstance, UpdateInstance, DeleteInstance, FindSecret, SetSecret, DeleteSecret,
     PollHealth, PersistStatus, FindInstance, InsertRun, LinkArtifact, GateInstance,
     GateProfile, GateStatus, GateFallback, FindPrimaries, ClearPrimary, FindSelection, SetPrimary
<1>3. \A q \in runs' : call'[q].step # "none"
  BY <1>1, <1>2 DEF GateInv, Moves, FleetTypeOK
<1>4. ASSUME NEW q \in runs' PROVE q \in opened' \/ Two(q)'
  <2>1. CASE q \in runs
    <3>1. q \in Requests /\ call[q].step # "none" /\ (q \in opened \/ Two(q))
      BY <2>1 DEF GateInv, RunsPassOpenGate, Two, FleetTypeOK
    <3>2. QED
      BY <1>1, <1>4, <3>1, Tracked, TwoStays
  <2>2. CASE InsertRun(r) /\ q = r
    <3>1. r \in Waiting /\ call[r].step = "insert"
      BY <2>2 DEF InsertRun, Waiting, Live, Over
    <3>2. r \in opened \/ Two(r)
      BY <3>1 DEF GateInv, Barred, Shut
    <3>3. QED
      BY <1>1, <1>4, <2>2, <3>1, <3>2, Tracked, TwoStays
  <2>3. QED
    BY <1>2, <1>4, <2>1, <2>2
<1>5. QED
  BY <1>3, <1>4 DEF RunsPassOpenGate, Two

LEMMA GateInductive == GateInv /\ Next => GateInv'
<1> SUFFICES ASSUME GateInv, NEW r \in Requests, Step(r) PROVE GateInv'
  BY DEF Next
<1>1. FleetTypeOK /\ EndedAreOver /\ Moves(r) /\ Track
  BY FleetMoves, EveryStepTracks DEF GateInv
<1>2. FleetTypeOK' /\ EndedAreOver' /\ OpenIsOpened'
  BY <1>1, FleetKeepsType, EndedStayOver, Tracked
<1>3. \A q \in Requests : Barred(q)'
  BY <1>1, GateWriters, OwnStepBarred, OthersLeaveBarred, OthersWriteBarred
<1>4. QED
  BY <1>2, <1>3, RunsKeep DEF GateInv

-----------------------------------------------------------------------------
(* Steps that are only reached from those before them.                     *)
ChooseSteps == {"clear", "find", "update", "choose"}

Arrives(r) ==
  /\ call'[r].step = "persist" => PollHealth(r)
  /\ call'[r].step \in ChooseSteps => FindPrimaries(r) \/ ClearPrimary(r) \/ FindSelection(r)
  /\ call'[r].step = "second" => DeleteInstance(r) /\ call[r].step = "begin"
  /\ call'[r].step = "returned" /\ call'[r].op = "activate" => SetPrimary(r)

LEMMA Arrivals ==
  ASSUME FleetTypeOK, NEW r \in Requests, Step(r)
  PROVE  Arrives(r)
<1>0. call[r] \in CallTypes /\ call \in [Requests -> CallTypes] /\ Placed(r) /\ Moves(r)
  BY FleetMoves DEF FleetTypeOK
<1> DEFINE Other == call'[r].step \notin ChooseSteps \cup {"persist", "second"}
                    /\ (call'[r].step = "returned" => call[r].op # "activate")
<1>a. Other => Arrives(r)
  BY <1>0 DEF Moves, Arrives
<1>1. CASE Begin(r)
  BY <1>0, <1>a, <1>1 DEF Begin, Moves, ChooseSteps
<1> DEFINE Goes == \E step \in {"threw", "insert", "link", "fallback", "returned"} :
             Goto(r, step) /\ UNCHANGED ended /\ (step = "returned" => call[r].op # "activate")
<1>2. ASSUME call[r].step \notin Over \cup {"none"}, Goes
      PROVE  Other
  <2>1. PICK step \in {"threw", "insert", "link", "fallback", "returned"} :
             Goto(r, step) /\ UNCHANGED ended /\ (step = "returned" => call[r].op # "activate")
    BY <1>2
  <2>2. call'[r].step = step
    BY <1>2, <2>1, FleetGoto DEF Steps, Over, GateSteps
  <2>3. QED
    BY <2>1, <2>2 DEF ChooseSteps
<1>3. CASE Throws(r)
  BY <1>a, <1>2, <1>3 DEF Throws, Live
<1>4. CASE CreateProfile(r) \/ RenameProfile(r) \/ DeleteProfile(r) \/ CheckVertex(r)
           \/ InsertInstance(r) \/ UpdateInstance(r) \/ SetSecret(r) \/ DeleteSecret(r)
           \/ PersistStatus(r) \/ FindInstance(r) \/ LinkArtifact(r) \/ GateFallback(r)
  BY <1>a, <1>2, <1>4 DEF CreateProfile, RenameProfile, DeleteProfile, CheckVertex, InsertInstance,
     UpdateInstance, SetSecret, DeleteSecret, PersistStatus, FindInstance, LinkArtifact,
     GateFallback, At, Over
<1>5. CASE InsertRun(r)
  BY <1>a, <1>2, <1>5 DEF InsertRun, Over, Dispatches
<1>6. CASE GateStatus(r)
  BY <1>a, <1>2, <1>6 DEF GateStatus, At, Over
<1>7. CASE GateInstance(r) \/ GateProfile(r) \/ FindSecret(r)
  <2>1. call'[r].step \in {"insert", "profile", "gate", "set"}
    BY <1>0, <1>7 DEF GateInstance, GateProfile, FindSecret, CallTypes
  <2>2. QED
    BY <1>a, <2>1, <1>7 DEF ChooseSteps, GateInstance, GateProfile, FindSecret, At
<1>8. CASE DeleteInstance(r) /\ call[r].step # "begin"
  BY <1>a, <1>2, <1>8 DEF DeleteInstance, Live
<1>9. CASE DeleteInstance(r) /\ call[r].step = "begin"
  <2>1. call'[r].step = "second"
    BY <1>9, FleetGoto DEF DeleteInstance, Live, Steps, Over, GateSteps
  <2>2. QED
    BY <1>9, <2>1 DEF ChooseSteps, Arrives
<1>10. CASE PollHealth(r)
  <2>1. call'[r].step = "persist"
    BY <1>0, <1>10 DEF PollHealth, CallTypes
  <2>2. QED
    BY <1>10, <2>1 DEF ChooseSteps, Arrives
<1>11. CASE FindPrimaries(r) \/ ClearPrimary(r)
  <2>1. call'[r].step \in {"find", "clear"}
    BY <1>0, <1>11 DEF FindPrimaries, ClearPrimary, CallTypes
  <2>2. QED
    BY <1>11, <2>1 DEF ChooseSteps, Arrives
<1>12. CASE FindSelection(r)
  <2>1. PICK step \in {"update", "choose"} : Goto(r, step) /\ UNCHANGED ended /\ call[r].step = "find"
    BY <1>12 DEF FindSelection, At
  <2>2. call'[r].step = step
    BY <2>1, FleetGoto DEF Steps, Over, GateSteps
  <2>3. QED
    BY <1>12, <2>1, <2>2 DEF ChooseSteps, Arrives
<1>13. CASE SetPrimary(r)
  <2>1. Goto(r, "returned") /\ UNCHANGED ended /\ call[r].step \in {"update", "choose"}
    BY <1>13 DEF SetPrimary
  <2>2. call'[r].step = "returned"
    BY <2>1, FleetGoto DEF Steps, Over, GateSteps
  <2>3. QED
    BY <1>13, <2>2 DEF ChooseSteps, Arrives
<1>14. QED
  BY <1>1, <1>3, <1>4, <1>5, <1>6, <1>7, <1>8, <1>9, <1>10, <1>11, <1>12, <1>13 DEF Step

-----------------------------------------------------------------------------
(* Status rows: one poll inserts one row, and only if it found none of its *)
(* vertex.                                                                 *)
RowsKnown ==
  /\ \A s \in status : s.id # Nothing => call[s.id].step = "returned"
  /\ \A s, t \in status : s.id = t.id => s = t

PollKnows(r) ==
  call[r].step = "persist" =>
    \/ /\ call[r].read = <<>>
       /\ \A s \in status : s.vertex = call[r].answer[1] => s.id # Nothing /\ Overlap(s.id, r)
    \/ \E s \in status : call[r].read = <<s.id>> /\ s.vertex = call[r].answer[1]

OneRowEach ==
  \A s, t \in status : s # t /\ s.vertex = t.vertex =>
    s.id # Nothing /\ t.id # Nothing /\ Overlap(s.id, t.id)

StatusInv == RowsKnown /\ (\A r \in Requests : PollKnows(r)) /\ OneRowEach

LEMMA StatusKeeps ==
  ASSUME FleetTypeOK, EndedAreOver, StatusInv, NEW r \in Requests, Step(r)
  PROVE  StatusInv'
<1>1. Moves(r) /\ call[r] \in CallTypes /\ call \in [Requests -> CallTypes]
      /\ \A s \in status : s.id \in Someone
  BY FleetMoves DEF FleetTypeOK
<1>2. \A s \in status : s.id # Nothing => s.id \in Requests /\ s.id # r /\ call'[s.id] = call[s.id]
  BY <1>1 DEF StatusInv, RowsKnown, Moves, Someone, Over
<1>3. \A p, q \in Requests : Overlap(p, q) /\ call[q].step # "none" => Overlap(p, q)'
  BY <1>1, OverlapStays
<1>4. CASE UNCHANGED status
  <2>1. RowsKnown' /\ OneRowEach'
    BY <1>2, <1>3, <1>4 DEF StatusInv, RowsKnown, OneRowEach
  <2>2. ASSUME NEW q \in Requests, q # r PROVE PollKnows(q)'
    <3>1. call'[q] = call[q]
      BY <1>1, <2>2 DEF Moves
    <3>2. QED
      BY <1>2, <1>3, <1>4, <3>1 DEF StatusInv, PollKnows
  <2>3. PollKnows(r)'
    <3>1. SUFFICES ASSUME PollHealth(r) PROVE PollKnows(r)'
      BY Arrivals DEF Arrives, PollKnows
    <3>2. PICK answer \in Polls : \E found \in Pick(RowsOf(answer[1])) :
         call' = [call EXCEPT ![r].step = "persist", ![r].answer = answer, ![r].read = found]
      BY <3>1 DEF PollHealth
    <3>3. PICK found \in Pick(RowsOf(answer[1])) :
         call' = [call EXCEPT ![r].step = "persist", ![r].answer = answer, ![r].read = found]
      BY <3>2
    <3>4. call'[r].answer = answer /\ call'[r].read = found
      BY <1>1, <3>3 DEF CallTypes
    <3>5. CASE RowsOf(answer[1]) = {} /\ found = <<>>
      BY <1>4, <3>4, <3>5 DEF PollKnows, RowsOf
    <3>6. CASE \E s \in RowsOf(answer[1]) : found = <<s.id>>
      <4>1. PICK s \in status : s.vertex = answer[1] /\ found = <<s.id>>
        BY <3>6 DEF RowsOf
      <4>2. QED
        BY <1>4, <3>4, <4>1 DEF PollKnows
    <3>7. QED
      BY <3>5, <3>6 DEF Pick
  <2>4. QED
    BY <2>1, <2>2, <2>3 DEF StatusInv
<1>5. CASE PersistStatus(r)
  <2> DEFINE v == call[r].answer[1]
             new(id) == [id |-> id, vertex |-> v, status |-> call[r].answer[2]]
  <2>1. AtWork(r) /\ call[r].step = "persist" /\ Goto(r, "returned") /\ UNCHANGED ended
    BY <1>5 DEF PersistStatus, At, AtWork, Over
  <2>2. call'[r].step = "returned" /\ PollKnows(r)
    BY <2>1, FleetGoto DEF AtWork, Steps, Over, StatusInv
  <2>3. CASE call[r].read = <<>>
    <3>1. status' = status \cup {new(r)}
      BY <1>5, <2>3 DEF PersistStatus
    <3>2. \A s \in status : s.vertex = v => s.id \in Requests /\ Overlap(s.id, r) /\ Overlap(r, s.id)
      BY <1>2, <2>1, <2>2, <2>3 DEF PollKnows, Overlap, AtWork
    <3> DEFINE n == new(r)
    <3>3. n.id = r /\ n.vertex = v /\ r # Nothing
      BY FleetNames
    <3>8. status' = status \cup {n}
      BY <3>1
    <3> HIDE DEF n
    <3>4. RowsKnown'
      BY <1>2, <2>2, <3>8, <3>3 DEF StatusInv, RowsKnown
    <3>5. OneRowEach'
      <4>1. SUFFICES ASSUME NEW s \in status', NEW t \in status', s # t, s.vertex = t.vertex
                     PROVE  s.id # Nothing /\ t.id # Nothing /\ Overlap(s.id, t.id)'
        BY DEF OneRowEach
      <4>2. CASE s \in status /\ t \in status
        BY <1>2, <1>3, <4>1, <4>2 DEF StatusInv, OneRowEach, RowsKnown
      <4>3. CASE s = n /\ t \in status
        <5>1. t.id \in Requests /\ Overlap(t.id, r) /\ Overlap(r, t.id) /\ t.id # Nothing
          BY <3>2, <3>3, <4>1, <4>3, FleetNames
        <5>2. PICK p \in Requests : p = t.id
          BY <5>1
        <5>3. Overlap(p, r)' /\ Overlap(r, p)'
          <6>1. call[r].step # "none" /\ call[p].step # "none"
            BY <2>1, <5>1, <5>2 DEF AtWork, Overlap
          <6>2. Overlap(p, r) /\ Overlap(r, p)
            BY <5>1, <5>2
          <6>3. QED
            BY <1>3, <6>1, <6>2
        <5>4. QED
          BY <3>3, <4>1, <4>3, <5>1, <5>2, <5>3
      <4>4. CASE t = n /\ s \in status
        <5>1. s.id \in Requests /\ Overlap(s.id, r) /\ Overlap(r, s.id) /\ s.id # Nothing
          BY <3>2, <3>3, <4>1, <4>4, FleetNames
        <5>2. PICK p \in Requests : p = s.id
          BY <5>1
        <5>3. Overlap(p, r)' /\ Overlap(r, p)'
          <6>1. call[r].step # "none" /\ call[p].step # "none"
            BY <2>1, <5>1, <5>2 DEF AtWork, Overlap
          <6>2. Overlap(p, r) /\ Overlap(r, p)
            BY <5>1, <5>2
          <6>3. QED
            BY <1>3, <6>1, <6>2
        <5>4. QED
          BY <3>3, <4>1, <4>4, <5>1, <5>2, <5>3
      <4>5. QED
        BY <3>8, <4>1, <4>2, <4>3, <4>4
    <3>6. ASSUME NEW q \in Requests PROVE PollKnows(q)'
      <4>1. CASE q = r
        BY <2>2, <4>1 DEF PollKnows
      <4>2. CASE q # r
        <5>1. call'[q] = call[q]
          BY <1>1, <4>2 DEF Moves
        <5>2. SUFFICES ASSUME call[q].step = "persist" PROVE PollKnows(q)'
          BY <5>1 DEF PollKnows
        <5>3. Overlap(r, q)'
          BY <1>3, <2>1, <4>2, <5>2, AtWorkOverlap DEF AtWork, Over
        <5>4. CASE call[q].read = <<>>
          <6>1. \A s \in status : s.vertex = call[q].answer[1] => s.id \in Requests /\ Overlap(s.id, q)
            BY <1>2, <5>2, <5>4, SMTT(60) DEF StatusInv, PollKnows
          <6>2. \A s \in status' : s.vertex = call'[q].answer[1] => s.id # Nothing /\ Overlap(s.id, q)'
            <7> SUFFICES ASSUME NEW s \in status', s.vertex = call[q].answer[1]
                         PROVE  s.id # Nothing /\ Overlap(s.id, q)'
              BY <5>1
            <7>1. CASE s = n
              BY <3>3, <5>3, <7>1
            <7>2. CASE s \in status
              <8>1. s.id \in Requests /\ Overlap(s.id, q)
                BY <6>1, <7>2
              <8>2. PICK p \in Requests : p = s.id
                BY <8>1
              <8>3. Overlap(p, q)'
                BY <1>3, <5>2, <8>1, <8>2
              <8>4. QED
                BY <8>2, <8>3, FleetNames
            <7>3. QED
              BY <3>8, <7>1, <7>2
          <6>3. QED
            BY <5>1, <5>4, <6>2 DEF PollKnows
        <5>5. CASE \E s \in status : call[q].read = <<s.id>> /\ s.vertex = call[q].answer[1]
          BY <3>8, <5>1, <5>5 DEF PollKnows
        <5>6. QED
          BY <5>2, <5>4, <5>5 DEF StatusInv, PollKnows
      <4>3. QED
        BY <4>1, <4>2
    <3>7. QED
      BY <3>4, <3>5, <3>6 DEF StatusInv
  <2>4. CASE \E s \in status : call[r].read = <<s.id>> /\ s.vertex = v
    <3>0. PICK s0 \in status : call[r].read = <<s0.id>> /\ s0.vertex = v
      BY <2>4
    <3> DEFINE i == s0.id
    <3>1. /\ call[r].read = <<i>> /\ i \in Someone
          /\ \A s \in status : s.id = i => s.vertex = v
      BY <1>1, <3>0 DEF StatusInv, RowsKnown
    <3> HIDE DEF i
    <3> DEFINE f(s) == IF s.id = i THEN new(s.id) ELSE s
    <3>2. status' = {f(s) : s \in status}
      BY <1>5, <3>1 DEF PersistStatus
    <3>3. \A s \in status : f(s).id = s.id /\ f(s).vertex = s.vertex
      BY <3>1
    <3> HIDE DEF f, new
    <3>4. \A t \in status' : \E s \in status : t = f(s)
      BY <3>2
    <3>5. RowsKnown'
      BY <1>2, <3>3, <3>4 DEF StatusInv, RowsKnown
    <3>6. OneRowEach'
      <4>1. SUFFICES ASSUME NEW s \in status', NEW t \in status', s # t, s.vertex = t.vertex
                     PROVE  s.id # Nothing /\ t.id # Nothing /\ Overlap(s.id, t.id)'
        BY DEF OneRowEach
      <4>2. PICK x \in status : s = f(x)
        BY <3>4
      <4>3. PICK y \in status : t = f(y)
        BY <3>4
      <4>4. x # y /\ x.vertex = y.vertex /\ x.id = s.id /\ y.id = t.id
        BY <3>3, <4>1, <4>2, <4>3
      <4>5. x.id # Nothing /\ y.id # Nothing /\ Overlap(x.id, y.id) /\ call[y.id].step = "returned"
        BY <4>4 DEF StatusInv, OneRowEach, RowsKnown
      <4>6. QED
        BY <1>2, <1>3, <4>4, <4>5
    <3>7. ASSUME NEW q \in Requests PROVE PollKnows(q)'
      <4>1. CASE q = r
        BY <2>2, <4>1 DEF PollKnows
      <4>2. CASE q # r
        <5>1. call'[q] = call[q]
          BY <1>1, <4>2 DEF Moves
        <5>2. SUFFICES ASSUME call[q].step = "persist" PROVE PollKnows(q)'
          BY <5>1 DEF PollKnows
        <5>3. CASE call[q].read = <<>>
          <6>1. \A s \in status : s.vertex = call[q].answer[1] => s.id # Nothing /\ Overlap(s.id, q)
            BY <5>2, <5>3 DEF StatusInv, PollKnows
          <6>2. \A s \in status' : s.vertex = call'[q].answer[1] => s.id # Nothing /\ Overlap(s.id, q)'
            BY <1>2, <1>3, <3>3, <3>4, <5>1, <5>2, <6>1
          <6>3. QED
            BY <5>1, <5>3, <6>2 DEF PollKnows
        <5>4. CASE \E s \in status : call[q].read = <<s.id>> /\ s.vertex = call[q].answer[1]
          <6>1. PICK s \in status : call[q].read = <<s.id>> /\ s.vertex = call[q].answer[1]
            BY <5>4
          <6>2. f(s) \in status'
            BY <3>2
          <6>3. QED
            BY <3>3, <5>1, <6>1, <6>2 DEF PollKnows
        <5>5. QED
          BY <5>2, <5>3, <5>4 DEF StatusInv, PollKnows
      <4>3. QED
        BY <4>1, <4>2
    <3>8. QED
      BY <3>5, <3>6, <3>7 DEF StatusInv
  <2>5. QED
    BY <2>1, <2>2, <2>3, <2>4 DEF PollKnows
<1>6. QED
  BY <1>4, <1>5 DEF Step, rows, Begin, Throws, CreateProfile, RenameProfile, DeleteProfile, CheckVertex,
     InsertInstance, UpdateInstance, DeleteInstance, FindSecret, SetSecret, DeleteSecret,
     PollHealth, FindInstance, InsertRun, LinkArtifact, GateInstance,
     GateProfile, GateStatus, GateFallback, FindPrimaries, ClearPrimary, FindSelection, SetPrimary

-----------------------------------------------------------------------------
(* Packs: an activation clears the primaries it found, so those left are   *)
(* of activations it overlaps.                                             *)
PacksKnown ==
  \A k \in Packs : vertical[k].primary =>
    vertical[k].by \in Requests /\ call[vertical[k].by].step = "returned"

Chooser(r) ==
  call[r].step \in ChooseSteps =>
    /\ call[r].op = "activate" /\ call[r].on \in Packs
    /\ (call[r].step = "clear") <=> (call[r].todo # {})
    /\ \A k \in Packs : vertical[k].primary /\ k \notin call[r].todo => vertical[k].by \notin ended[r]

OnePack ==
  \A j, k \in Packs : j # k /\ vertical[j].primary /\ vertical[k].primary =>
    Overlap(vertical[j].by, vertical[k].by)

Activating(r, steps) == call[r].op = "activate" /\ call[r].step \in steps

Chosen ==
  \/ \E k \in Packs : vertical[k].primary
  \/ \E r \in Requests : Activating(r, ChooseSteps \cup {"threw"})
  \/ \A r \in Requests : ~Activating(r, {"returned"})

PackInv == PacksKnown /\ (\A r \in Requests : Chooser(r)) /\ OnePack /\ Chosen

LEMMA OthersChoose ==
  ASSUME FleetTypeOK, EndedAreOver, PackInv, NEW r \in Requests, Step(r), NEW q \in Requests, q # r,
         \A k \in Packs : vertical'[k].primary =>
           vertical'[k].by = r \/ (vertical[k].primary /\ vertical'[k].by = vertical[k].by)
  PROVE  Chooser(q)'
<1>1. call'[q] = call[q] /\ ended'[q] = ended[q] /\ r \notin ended[q]
  BY FleetMoves DEF Moves, EndedAreOver
<1>2. QED
  BY <1>1 DEF PackInv, Chooser

LEMMA ChooserMoves ==
  ASSUME FleetTypeOK, PackInv, NEW r \in Requests, Step(r), call[r].step \in ChooseSteps
  PROVE  SetPrimary(r) \/ call'[r].step \in ChooseSteps \cup {"threw"}
<1>1. call[r] \in CallTypes /\ call \in [Requests -> CallTypes] /\ call[r].op = "activate"
  BY DEF FleetTypeOK, PackInv, Chooser
<1>2. CASE Throws(r)
  BY <1>2, FleetGoto DEF Throws, Live, Steps, Over
<1>3. CASE ClearPrimary(r)
  BY <1>1, <1>3 DEF ClearPrimary, ChooseSteps, CallTypes
<1>4. CASE FindSelection(r)
  <2>1. PICK step \in {"update", "choose"} : Goto(r, step) /\ UNCHANGED ended
    BY <1>4 DEF FindSelection
  <2>2. QED
    BY <1>4, <2>1, FleetGoto DEF Steps, Over, GateSteps, ChooseSteps, FindSelection, At
<1>5. Throws(r) \/ ClearPrimary(r) \/ FindSelection(r) \/ SetPrimary(r)
  BY <1>1 DEF Step, Begin, CreateProfile, RenameProfile, DeleteProfile, CheckVertex,
     InsertInstance, UpdateInstance, DeleteInstance, FindSecret, SetSecret, DeleteSecret,
     PollHealth, PersistStatus, FindInstance, InsertRun, LinkArtifact, GateInstance,
     GateProfile, GateStatus, GateFallback, FindPrimaries, At, ChooseSteps, Dispatches
<1>6. QED
  BY <1>2, <1>3, <1>4, <1>5

LEMMA PacksKeep ==
  ASSUME FleetTypeOK, EndedAreOver, PackInv, NEW r \in Requests, Step(r)
  PROVE  PackInv'
<1>1. /\ Moves(r) /\ Placed(r) /\ call[r] \in CallTypes /\ call \in [Requests -> CallTypes]
      /\ vertical \in [Packs -> [exists : BOOLEAN, primary : BOOLEAN, by : Someone]]
  BY FleetMoves DEF FleetTypeOK
<1>2. \A k \in Packs : vertical[k].primary =>
        vertical[k].by \in Requests \ {r} /\ call'[vertical[k].by] = call[vertical[k].by]
  BY <1>1 DEF PackInv, PacksKnown, Moves, Over
<1>3. \A p, q \in Requests : Overlap(p, q) /\ call[q].step # "none" => Overlap(p, q)'
  BY <1>1, OverlapStays
<1>4. CASE SetPrimary(r)
  <2> DEFINE n == call[r].on
  <2>1. /\ call[r].op = "activate" /\ call[r].step \in {"update", "choose"}
        /\ Goto(r, "returned") /\ UNCHANGED ended /\ n \in Packs /\ AtWork(r)
    BY <1>1, <1>4 DEF SetPrimary, Placed, AtWork, Over
  <2>2. call'[r].step = "returned"
    BY <2>1, FleetGoto DEF AtWork, Steps, Over
  <2>3. /\ vertical'[n].primary /\ vertical'[n].by = r
        /\ \A k \in Packs \ {n} : vertical'[k] = vertical[k]
    BY <1>1, <1>4, <2>1 DEF SetPrimary
  <2> HIDE DEF n
  <2>4. PacksKnown'
    BY <1>2, <2>2, <2>3 DEF PackInv, PacksKnown
  <2>5. \A q \in Requests : Chooser(q)'
    <3>1. Chooser(r)'
      BY <2>2 DEF Chooser, ChooseSteps
    <3>2. QED
      BY <2>3, <3>1, OthersChoose
  <2>6. \A k \in Packs \ {n} : vertical[k].primary =>
          Overlap(vertical[k].by, r) /\ Overlap(r, vertical[k].by)
    <3>1. Chooser(r) /\ call[r].todo = {}
      BY <2>1 DEF PackInv, Chooser, ChooseSteps
    <3>2. SUFFICES ASSUME NEW k \in Packs \ {n}, vertical[k].primary
                   PROVE  Overlap(vertical[k].by, r) /\ Overlap(r, vertical[k].by)
      OBVIOUS
    <3>3. PICK p \in Requests : p = vertical[k].by
      BY <1>2, <3>2
    <3>4. p # r /\ call[p].step = "returned" /\ p \notin ended[r]
      BY <1>2, <2>1, <3>1, <3>2, <3>3 DEF PackInv, PacksKnown, Chooser, ChooseSteps
    <3>5. r \notin ended[p]
      BY <2>1 DEF EndedAreOver, AtWork
    <3>6. Overlap(p, r) /\ Overlap(r, p)
      BY <2>1, <3>4, <3>5 DEF Overlap, AtWork
    <3>7. QED
      BY <3>3, <3>6
  <2>7. OnePack'
    <3>1. SUFFICES ASSUME NEW j \in Packs, NEW k \in Packs, j # k, vertical'[j].primary, vertical'[k].primary
                   PROVE  Overlap(vertical[j].by, vertical[k].by)'
      BY DEF OnePack
    <3>2. PICK p : p = vertical'[j].by
      OBVIOUS
    <3>3. PICK q : q = vertical'[k].by
      OBVIOUS
    <3>4. p \in Requests /\ q \in Requests /\ Overlap(p, q) /\ call[q].step # "none"
      <4>1. CASE j # n /\ k # n
        <5>1. vertical'[j] = vertical[j] /\ vertical'[k] = vertical[k]
          BY <2>3, <4>1
        <5>2. QED
          BY <1>2, <3>1, <3>2, <3>3, <5>1 DEF PackInv, PacksKnown, OnePack
      <4>2. CASE j = n
        <5>1. p = r /\ vertical'[k] = vertical[k] /\ k \in Packs \ {n}
          BY <2>3, <3>1, <3>2, <4>2
        <5>2. QED
          BY <1>2, <2>6, <3>1, <3>3, <5>1 DEF PackInv, PacksKnown
      <4>3. CASE k = n
        <5>1. q = r /\ vertical'[j] = vertical[j] /\ j \in Packs \ {n}
          BY <2>3, <3>1, <3>3, <4>3
        <5>2. QED
          BY <1>2, <2>1, <2>6, <3>1, <3>2, <5>1 DEF AtWork
      <4>4. QED
        BY <4>1, <4>2, <4>3
    <3>5. Overlap(p, q)'
      BY <1>3, <3>4
    <3>6. QED
      BY <3>2, <3>3, <3>5
  <2>8. Chosen'
    BY <2>1, <2>3 DEF Chosen, n
  <2>9. QED
    BY <2>4, <2>5, <2>7, <2>8 DEF PackInv
<1>5. ASSUME ~SetPrimary(r), \A k \in Packs : vertical'[k].primary =>
               vertical[k].primary /\ vertical'[k].by = vertical[k].by
      PROVE  PacksKnown' /\ (\A q \in Requests \ {r} : Chooser(q)') /\ OnePack'
  <2>1. PacksKnown'
    BY <1>2, <1>5 DEF PackInv, PacksKnown
  <2>2. \A q \in Requests \ {r} : Chooser(q)'
    BY <1>5, OthersChoose
  <2>3. OnePack'
    <3>1. SUFFICES ASSUME NEW j \in Packs, NEW k \in Packs, j # k, vertical'[j].primary, vertical'[k].primary
                   PROVE  Overlap(vertical[j].by, vertical[k].by)'
      BY DEF OnePack
    <3>2. PICK p : p = vertical[j].by
      OBVIOUS
    <3>3. PICK q : q = vertical[k].by
      OBVIOUS
    <3>4. p \in Requests /\ q \in Requests /\ Overlap(p, q) /\ call[q].step # "none"
      BY <1>2, <1>5, <3>1, <3>2, <3>3 DEF PackInv, PacksKnown, OnePack
    <3>5. Overlap(p, q)' /\ p = vertical'[j].by /\ q = vertical'[k].by
      BY <1>3, <1>5, <3>1, <3>2, <3>3, <3>4
    <3>6. QED
      BY <3>5
  <2>4. QED
    BY <2>1, <2>2, <2>3
<1>6. CASE ClearPrimary(r)
  <2> DEFINE n == CHOOSE x \in call[r].todo : TRUE
  <2>0. Chooser(r) /\ call[r].step = "clear" /\ call[r].op = "activate"
    BY <1>6 DEF PackInv, ClearPrimary, At
  <2>1. n \in call[r].todo
    BY <2>0 DEF Chooser, ChooseSteps
  <2>2. /\ vertical' = [vertical EXCEPT ![n].primary = FALSE] /\ UNCHANGED ended
        /\ call' = [call EXCEPT ![r].todo = @ \ {n},
                                ![r].step = IF call[r].todo = {n} THEN "find" ELSE "clear"]
    BY <1>6 DEF ClearPrimary
  <2> HIDE DEF n
  <2>3. n \in Packs
    BY <1>1, <2>1 DEF CallTypes
  <2>4. /\ \A k \in Packs : vertical'[k].by = vertical[k].by
                            /\ (vertical'[k].primary <=> (k # n /\ vertical[k].primary))
    BY <1>1, <2>2, <2>3
  <2>5. /\ call'[r].todo = call[r].todo \ {n} /\ call'[r].op = "activate" /\ call'[r].on = call[r].on
        /\ call'[r].step = IF call[r].todo = {n} THEN "find" ELSE "clear"
    BY <1>1, <2>0, <2>2 DEF CallTypes
  <2>6. Chooser(r)'
    <3> DEFINE t == call[r].todo
    <3>1. /\ (t = {n}) <=> (t \ {n} = {})
      BY <2>1
    <3>2. \A k \in Packs : vertical[k].primary /\ k \notin t => vertical[k].by \notin ended[r]
      BY <2>0 DEF Chooser, ChooseSteps
    <3>3. \A k \in Packs : vertical'[k].primary /\ k \notin t \ {n} => vertical'[k].by \notin ended[r]
      BY <2>4, <3>2
    <3>4. call[r].on \in Packs
      BY <2>0 DEF Chooser, ChooseSteps
    <3> HIDE DEF t
    <3>5. call'[r].todo = t \ {n} /\ call'[r].step = IF t = {n} THEN "find" ELSE "clear"
      BY <2>5 DEF t
    <3>6. (call'[r].step = "clear") <=> (call'[r].todo # {})
      BY <3>1, <3>5
    <3>7. QED
      BY <2>2, <2>5, <3>3, <3>4, <3>5, <3>6 DEF Chooser
  <2>7. Chosen'
    BY <2>5 DEF Chosen, Activating, ChooseSteps
  <2>8. ~SetPrimary(r)
    BY <2>0 DEF SetPrimary
  <2>9. QED
    BY <1>5, <2>4, <2>6, <2>7, <2>8 DEF PackInv
<1>7. CASE UNCHANGED vertical /\ ~SetPrimary(r) /\ ~ClearPrimary(r)
  <2>1. Chooser(r)'
    <3>1. SUFFICES ASSUME call'[r].step \in ChooseSteps PROVE Chooser(r)'
      BY DEF Chooser
    <3>2. CASE FindPrimaries(r)
      <4> DEFINE t == Primaries(r)
      <4>1. /\ call' = [call EXCEPT ![r].todo = t, ![r].step = IF t = {} THEN "find" ELSE "clear"]
            /\ call[r].op = "activate" /\ call[r].step = "begin"
        BY <3>2 DEF FindPrimaries, At
      <4>2. \A k \in Packs : vertical[k].primary => k \in t
        BY DEF Primaries
      <4> HIDE DEF t
      <4>3. /\ call'[r].todo = t /\ call'[r].op = "activate" /\ call'[r].on = call[r].on
            /\ call'[r].step = IF t = {} THEN "find" ELSE "clear"
        BY <1>1, <4>1 DEF CallTypes
      <4>4. call[r].on \in Packs
        BY <1>1, <4>1 DEF Placed
      <4>5. QED
        BY <1>7, <4>2, <4>3, <4>4 DEF Chooser
    <3>3. CASE FindSelection(r)
      <4>1. PICK step \in {"update", "choose"} : /\ Goto(r, step) /\ UNCHANGED ended
                                                 /\ call[r].step = "find" /\ call[r].op = "activate"
        BY <3>3 DEF FindSelection, At
      <4>2. call'[r].step = step /\ call'[r].todo = call[r].todo
        BY <4>1, FleetGoto DEF Steps, Over, GateSteps
      <4>3. call'[r].op = call[r].op /\ call'[r].on = call[r].on
        BY <1>1, <4>1 DEF Moves
      <4>4. Chooser(r)
        BY DEF PackInv
      <4>5. QED
        BY <1>7, <4>1, <4>2, <4>3, <4>4 DEF Chooser, ChooseSteps
    <3>4. QED
      BY <1>7, <3>1, <3>2, <3>3, Arrivals DEF Arrives
  <2>2. Chosen'
    <3>1. CASE \E k \in Packs : vertical[k].primary
      BY <1>7, <3>1 DEF Chosen
    <3>2. CASE \E q \in Requests : Activating(q, ChooseSteps \cup {"threw"})
      <4>1. PICK q \in Requests : Activating(q, ChooseSteps \cup {"threw"})
        BY <3>2
      <4>2. CASE q # r
        BY <1>1, <4>1, <4>2 DEF Moves, Activating, Chosen
      <4>3. CASE q = r
        <5>1. call[r].step \in ChooseSteps /\ call'[r].op = "activate"
          BY <1>1, <4>1, <4>3 DEF Moves, Activating, Over, ChooseSteps
        <5>2. call'[r].step \in ChooseSteps \cup {"threw"}
          BY <1>7, <5>1, ChooserMoves
        <5>3. QED
          BY <5>1, <5>2 DEF Chosen, Activating
      <4>4. QED
        BY <4>2, <4>3
    <3>3. CASE \A q \in Requests : ~Activating(q, {"returned"})
      <4>1. ~(call'[r].step = "returned" /\ call'[r].op = "activate")
        BY <1>7, Arrivals DEF Arrives
      <4>2. QED
        BY <1>1, <3>3, <4>1 DEF Moves, Activating, Chosen
    <3>4. QED
      BY <3>1, <3>2, <3>3 DEF PackInv, Chosen
  <2>3. QED
    BY <1>5, <1>7, <2>1, <2>2 DEF PackInv
<1>8. SetPrimary(r) \/ ClearPrimary(r) \/ UNCHANGED vertical
  BY DEF Step, rows, Begin, Throws, CreateProfile, RenameProfile, DeleteProfile, CheckVertex,
     InsertInstance, UpdateInstance, DeleteInstance, FindSecret, SetSecret, DeleteSecret,
     PollHealth, PersistStatus, FindInstance, InsertRun, LinkArtifact, GateInstance,
     GateProfile, GateStatus, GateFallback, FindPrimaries, FindSelection
<1>9. QED
  BY <1>4, <1>6, <1>7, <1>8

-----------------------------------------------------------------------------
(* Secrets: between its two statements a delete overlaps whoever has set   *)
(* the secret it will leave.                                               *)
SecretsKnown ==
  \A i \in InstanceIds : secret[i].id # Nothing => secret[i].by \in Requests

Deleting(r) ==
  call[r].op = "deleteInstance" /\ AtWork(r) /\ call[r].step # "begin" =>
    /\ call[r].on \in InstanceIds
    /\ secret[call[r].on].id # Nothing => secret[call[r].on].by \notin ended[r]

DeletedKnown ==
  \A i \in InstanceIds : instance[i].status = "deleted" =>
    instance[i].by \in Requests /\ call[instance[i].by].step = "returned"

SecretInv == SecretsKnown /\ (\A r \in Requests : Deleting(r)) /\ DeletedKnown /\ SecretsDieWithInstance

LEMMA DeletesInOrder ==
  ASSUME NEW r \in Requests, DeleteInstance(r)
  PROVE  LET i == call[r].on IN
         \/ /\ call[r].step = "begin" /\ Goto(r, "second") /\ UNCHANGED <<instance, ended>>
            /\ secret' = [secret EXCEPT ![i] = NoSecret]
         \/ /\ call[r].step \notin Over \cup {"begin", "none"} /\ Goto(r, "returned")
            /\ UNCHANGED <<secret, ended>>
            /\ instance' = IF ~Here(i) THEN instance ELSE
                 [instance EXCEPT ![i] = [status |-> "deleted", vertexId |-> Nothing, by |-> r]]
<1>1. CASE call[r].step = "begin"
  BY <1>1 DEF DeleteInstance, Deletes
<1>2. CASE call[r].step # "begin"
  BY <1>2 DEF DeleteInstance, Deletes, Live
<1>3. QED
  BY <1>1, <1>2

(* Whatever a step does to a secret, it removes it, leaves it or makes it  *)
(* its own.                                                                *)
LEMMA SecretMoves ==
  ASSUME FleetTypeOK, NEW r \in Requests, Step(r), NEW i \in InstanceIds, secret'[i].id # Nothing
  PROVE  \/ secret'[i].by = r
         \/ secret[i].id # Nothing /\ secret'[i].by = secret[i].by
<1>1. secret \in [InstanceIds -> [id : Someone, by : Someone]] /\ Placed(r)
  BY DEF FleetTypeOK
<1>2. CASE UNCHANGED secret
  BY <1>2
<1>3. CASE DeleteInstance(r) \/ DeleteSecret(r)
  <2>1. PICK j : secret' = [secret EXCEPT ![j] = NoSecret] \/ secret' = secret
    BY <1>3, DeletesInOrder DEF DeleteSecret
  <2>2. QED
    BY <1>1, <2>1 DEF NoSecret
<1>4. CASE SetSecret(r)
  <2>1. PICK j : j = call[r].on
    OBVIOUS
  <2>2. \/ secret' = [secret EXCEPT ![j] = [id |-> r, by |-> r]]
        \/ secret' = [secret EXCEPT ![j].by = r] /\ secret[j].id = call[r].read /\ call[r].read # Nothing
        \/ secret' = secret
    BY <1>4, <2>1 DEF SetSecret
  <2>3. QED
    BY <1>1, <2>2
<1>5. QED
  BY <1>2, <1>3, <1>4 DEF Step, rows, Begin, Throws, CreateProfile, RenameProfile, DeleteProfile,
     CheckVertex, InsertInstance, UpdateInstance, FindSecret,
     PollHealth, PersistStatus, FindInstance, InsertRun, LinkArtifact, GateInstance,
     GateProfile, GateStatus, GateFallback, FindPrimaries, ClearPrimary, FindSelection, SetPrimary

(* An instance was deleted before, or is by the second statement of r.     *)
LEMMA DeletedMoves ==
  ASSUME FleetTypeOK, NEW r \in Requests, Step(r), NEW i \in InstanceIds, instance'[i].status = "deleted"
  PROVE  \/ instance[i].status = "deleted" /\ instance'[i].by = instance[i].by
         \/ /\ DeleteInstance(r) /\ call[r].step # "begin" /\ call[r].on = i
            /\ instance'[i].by = r /\ UNCHANGED secret /\ call'[r].step = "returned"
<1>1. /\ instance \in [InstanceIds -> [status : {"none", "active", "paused", "deleted"},
                                       vertexId : ProfileIds \cup {Nothing}, by : Someone]]
      /\ Placed(r) /\ Requests \subseteq InstanceIds
  BY FleetNames DEF FleetTypeOK
<1>2. CASE UNCHANGED instance
  BY <1>2
<1>3. CASE InsertInstance(r)
  BY <1>1, <1>3 DEF InsertInstance
<1>4. CASE UpdateInstance(r)
  <2>1. PICK j : j = call[r].on
    OBVIOUS
  <2>2. PICK s \in {"active", "paused"}, p \in {instance[j].vertexId, Nothing}
            \cup {q \in ProfileIds : profile[q] # Nothing} :
          instance' = IF ~Here(j) THEN instance
            ELSE [instance EXCEPT ![j].status = s, ![j].vertexId = p]
    BY <1>4, <2>1 DEF UpdateInstance
  <2>3. QED
    BY <1>1, <2>2
<1>5. CASE DeleteInstance(r)
  <2>1. PICK j : j = call[r].on
    OBVIOUS
  <2>2. SUFFICES ASSUME call[r].step \notin Over \cup {"begin", "none"}, Goto(r, "returned"),
            UNCHANGED <<secret, ended>>,
            instance' = IF ~Here(j) THEN instance ELSE
                 [instance EXCEPT ![j] = [status |-> "deleted", vertexId |-> Nothing, by |-> r]]
                 PROVE  \/ instance[i].status = "deleted" /\ instance'[i].by = instance[i].by
                        \/ call[r].step # "begin" /\ i = j /\ instance'[i].by = r /\ call'[r].step = "returned"
    BY <1>2, <1>5, <2>1, DeletesInOrder
  <2>3. call[r].step # "begin" /\ call'[r].step = "returned"
    BY <2>2, FleetGoto DEF Steps, Over, GateSteps
  <2>4. QED
    BY <1>1, <2>2, <2>3
<1>6. QED
  BY <1>2, <1>3, <1>4, <1>5 DEF Step, rows, Begin, Throws, CreateProfile, RenameProfile, DeleteProfile,
     CheckVertex, FindSecret, SetSecret, DeleteSecret,
     PollHealth, PersistStatus, FindInstance, InsertRun, LinkArtifact, GateInstance,
     GateProfile, GateStatus, GateFallback, FindPrimaries, ClearPrimary, FindSelection, SetPrimary

LEMMA SecretsKeep ==
  ASSUME FleetTypeOK, EndedAreOver, SecretInv, NEW r \in Requests, Step(r)
  PROVE  SecretInv'
<1>1. Moves(r) /\ Placed(r) /\ call[r] \in CallTypes
  BY FleetMoves DEF FleetTypeOK
<1>2. \A q \in Requests : r \notin ended[q]
  BY <1>1 DEF EndedAreOver, Moves
<1>3. SecretsKnown'
  BY SecretMoves DEF SecretInv, SecretsKnown
<1>4. DeletedKnown'
  <2>1. SUFFICES ASSUME NEW i \in InstanceIds, instance'[i].status = "deleted"
                 PROVE  instance'[i].by \in Requests /\ call'[instance'[i].by].step = "returned"
    BY DEF DeletedKnown
  <2>2. PICK d : d = instance'[i].by
    OBVIOUS
  <2>3. CASE d = r /\ call'[r].step = "returned"
    BY <2>2, <2>3
  <2>4. CASE instance[i].status = "deleted" /\ d = instance[i].by
    <3>1. d \in Requests /\ call[d].step = "returned"
      BY <2>4 DEF SecretInv, DeletedKnown
    <3>2. QED
      BY <1>1, <2>2, <3>1 DEF Moves, Over
  <2>5. QED
    BY <2>1, <2>2, <2>3, <2>4, DeletedMoves
<1>5. ASSUME NEW q \in Requests PROVE Deleting(q)'
  <2>1. SUFFICES ASSUME call'[q].op = "deleteInstance", AtWork(q)', call'[q].step # "begin"
                 PROVE  /\ call'[q].on \in InstanceIds
                        /\ secret'[call'[q].on].id # Nothing => secret'[call'[q].on].by \notin ended'[q]
    BY DEF Deleting
  <2>2. CASE q # r
    <3>1. call'[q] = call[q] /\ ended'[q] = ended[q]
      BY <1>1, <2>2 DEF Moves
    <3>2. PICK i : i = call[q].on
      OBVIOUS
    <3>3. i \in InstanceIds /\ (secret[i].id # Nothing => secret[i].by \notin ended[q])
      BY <2>1, <3>1, <3>2 DEF SecretInv, Deleting, AtWork
    <3>4. secret'[i].id # Nothing => secret'[i].by \notin ended[q]
      BY <1>2, <3>3, SecretMoves
    <3>5. QED
      BY <3>1, <3>2, <3>3, <3>4
  <2>3. CASE q = r
    <3>1. call[r].op = "deleteInstance" /\ AtWork(r) /\ call'[r].on = call[r].on
      BY <1>1, <2>1, <2>3 DEF Moves, AtWork
    <3>2. Throws(r) \/ DeleteInstance(r)
      BY <3>1 DEF Step, Begin, CreateProfile, RenameProfile, DeleteProfile, CheckVertex,
         InsertInstance, UpdateInstance, FindSecret, SetSecret, DeleteSecret,
         PollHealth, PersistStatus, FindInstance, InsertRun, LinkArtifact, GateInstance,
         GateProfile, GateStatus, GateFallback, FindPrimaries, ClearPrimary, FindSelection, SetPrimary,
         At, AtWork, Dispatches
    <3>3. ASSUME NEW step \in Over, Goto(r, step), UNCHANGED ended PROVE FALSE
      <4>1. call'[r].step = step
        BY <3>1, <3>3, FleetGoto DEF AtWork, Steps, Over
      <4>2. QED
        BY <2>1, <2>3, <3>3, <4>1 DEF AtWork
    <3>4. call[r].on \in InstanceIds /\ secret' = [secret EXCEPT ![call[r].on] = NoSecret]
      <4>1. call[r].on \in InstanceIds
        BY <1>1, <3>1 DEF Placed, AtWork, OnInstance
      <4>2. QED
        BY <3>2, <3>3, <4>1, DeletesInOrder DEF Throws, Over
    <3>5. PICK i \in InstanceIds : i = call[r].on
      BY <3>4
    <3>6. secret'[i].id = Nothing
      BY <3>4, <3>5 DEF FleetTypeOK, NoSecret
    <3>7. QED
      BY <2>3, <3>1, <3>5, <3>6
  <2>4. QED
    BY <2>2, <2>3
<1>6. SecretsDieWithInstance'
  <2>1. SUFFICES ASSUME NEW i \in InstanceIds, instance'[i].status = "deleted", secret'[i].id # Nothing
                 PROVE  secret'[i].by \notin ended'[instance'[i].by]
    BY DEF SecretsDieWithInstance
  <2>2. PICK d : d = instance'[i].by
    OBVIOUS
  <2>3. CASE instance[i].status = "deleted" /\ d = instance[i].by
    <3>1. d \in Requests /\ call[d].step = "returned"
      BY <2>3 DEF SecretInv, DeletedKnown
    <3>2. ended'[d] = ended[d] /\ r \notin ended[d]
      BY <1>1, <1>2, <3>1 DEF Moves, Over
    <3>3. secret[i].id # Nothing => secret[i].by \notin ended[d]
      BY <2>3 DEF SecretInv, SecretsDieWithInstance
    <3>4. QED
      BY <2>1, <2>2, <3>2, <3>3, SecretMoves
  <2>4. CASE DeleteInstance(r) /\ call[r].step # "begin" /\ call[r].on = i /\ d = r /\ UNCHANGED secret
    <3>1. call[r].op = "deleteInstance" /\ AtWork(r) /\ ended'[r] = ended[r]
      BY <1>1, <2>4 DEF DeleteInstance, Live, AtWork, Moves
    <3>2. QED
      BY <2>1, <2>2, <2>4, <3>1 DEF SecretInv, Deleting
  <2>5. QED
    BY <2>1, <2>2, <2>3, <2>4, DeletedMoves
<1>7. QED
  BY <1>3, <1>4, <1>5, <1>6 DEF SecretInv

-----------------------------------------------------------------------------
(* The fleet as a whole.                                                   *)
FleetInv == GateInv /\ StatusInv /\ PackInv /\ SecretInv

LEMMA FleetStarts ==
  ASSUME Init
  PROVE  FleetInv
<1> USE FleetNames
<1>1. /\ call = [r \in Requests |-> NoCall] /\ ended = [r \in Requests |-> {}] /\ opened = {} /\ runs = {}
      /\ secret = [i \in InstanceIds |-> NoSecret] /\ vertical = [k \in Packs |-> NotChosen]
      /\ status \in {{}, {[id |-> Nothing, vertex |-> Frozen, status |-> "healthy"]}}
  BY DEF Init
<1>2. \A r \in Requests : call[r].step = "none" /\ ended[r] = {}
  BY <1>1, NoCallTyped
<1>3. /\ instance \in [InstanceIds -> [status : {"none", "active", "paused", "deleted"},
                                       vertexId : ProfileIds \cup {Nothing}, by : Someone]]
      /\ profile \in [ProfileIds -> Names \cup {Nothing}]
      /\ \A i \in InstanceIds : instance[i].status # "deleted"
  <2>1. PICK name \in Names, p \in Profiles :
       /\ profile = [q \in ProfileIds |-> IF q \in Profiles THEN name ELSE Nothing]
       /\ instance = [i \in InstanceIds |-> IF i \in Instances
            THEN [status |-> "active", vertexId |-> p, by |-> Nothing] ELSE NoInstance]
    BY DEF Init
  <2>2. p \in ProfileIds
    BY DEF ProfileIds
  <2>3. QED
    BY <2>1, <2>2 DEF NoInstance, Someone
<1>4. FleetTypeOK
  <2>1. \A r \in Requests : Placed(r)
    BY <1>2 DEF Placed, GateSteps
  <2>2. call \in [Requests -> CallTypes] /\ secret \in [InstanceIds -> [id : Someone, by : Someone]]
        /\ vertical \in [Packs -> [exists : BOOLEAN, primary : BOOLEAN, by : Someone]]
    BY <1>1, NoCallTyped DEF NoSecret, NotChosen, Someone
  <2>3. status \subseteq [id : Someone, vertex : Names \cup {"unknown"},
                          status : {"healthy", "warning", "blocked"}]
    BY <1>1 DEF Someone
  <2>4. QED
    BY <1>1, <1>3, <2>1, <2>2, <2>3 DEF FleetTypeOK
<1>5. Waiting = {}
  BY <1>2 DEF Waiting, Live
<1>6. GateInv
  BY <1>1, <1>2, <1>4, <1>5 DEF GateInv, EndedAreOver, OpenIsOpened, Barred, RunsPassOpenGate
<1>7. StatusInv
  BY <1>1, <1>2 DEF StatusInv, RowsKnown, PollKnows, OneRowEach
<1>8. PackInv
  <2>1. \A k \in Packs : ~vertical[k].primary
    BY <1>1 DEF NotChosen
  <2>2. QED
    BY <1>2, <2>1 DEF PackInv, PacksKnown, Chooser, ChooseSteps, OnePack, Chosen, Activating
<1>9. SecretInv
  <2>1. \A i \in InstanceIds : secret[i].id = Nothing
    BY <1>1 DEF NoSecret
  <2>2. QED
    BY <1>2, <1>3, <2>1 DEF SecretInv, SecretsKnown, Deleting, AtWork, DeletedKnown, SecretsDieWithInstance
<1>10. QED
  BY <1>6, <1>7, <1>8, <1>9 DEF FleetInv

LEMMA FleetRests ==
  ASSUME FleetInv, UNCHANGED vars
  PROVE  FleetInv'
<1>1. UNCHANGED <<status, profile, instance, secret, runs, vertical, call, ended, opened>>
  BY DEF vars, rows
<1>2. \A p, q : Overlap(p, q)' <=> Overlap(p, q)
  BY <1>1 DEF Overlap
<1>3. GateInv'
  <2>1. FleetTypeOK' /\ EndedAreOver'
    BY <1>1 DEF FleetInv, GateInv, FleetTypeOK, EndedAreOver, Placed
  <2>2. Waiting' = Waiting /\ \A r : Open(r)' <=> Open(r)
    BY <1>1 DEF Waiting, Live, Open, NameOf, HasLeave, RowsOf, Passes
  <2>3. OpenIsOpened' /\ RunsPassOpenGate' /\ \A r \in runs' : call'[r].step # "none"
    BY <1>1, <1>2, <2>2 DEF FleetInv, GateInv, OpenIsOpened, RunsPassOpenGate
  <2>4. \A r \in Requests : Barred(r)'
    <3>1. \A r : /\ Two(r)' <=> Two(r)
                 /\ Passed(r)' <=> Passed(r)
      BY <1>1, <1>2 DEF Two, Passed
    <3>2. \A r : /\ Shut(r)' <=> Shut(r)
                 /\ Fresh(r)' <=> Fresh(r)
      BY <1>1 DEF Shut, Fresh, Closed, HasLeave, RowsOf, Passes, NameOf
    <3>3. QED
      BY <1>1, <2>2, <3>1, <3>2 DEF FleetInv, GateInv, Barred
  <2>5. QED
    BY <2>1, <2>3, <2>4 DEF GateInv
<1>4. StatusInv'
  BY <1>1, <1>2 DEF FleetInv, StatusInv, RowsKnown, PollKnows, OneRowEach
<1>5. PackInv'
  BY <1>1, <1>2 DEF FleetInv, PackInv, PacksKnown, Chooser, OnePack, Chosen, Activating
<1>6. SecretInv'
  BY <1>1 DEF FleetInv, SecretInv, SecretsKnown, Deleting, AtWork, DeletedKnown, SecretsDieWithInstance
<1>7. QED
  BY <1>3, <1>4, <1>5, <1>6 DEF FleetInv

LEMMA FleetSteps ==
  ASSUME FleetInv, Next
  PROVE  FleetInv'
<1>1. GateInv'
  BY GateInductive DEF FleetInv
<1>2. PICK r \in Requests : Step(r)
  BY DEF Next
<1>3. QED
  BY <1>1, <1>2, StatusKeeps, PacksKeep, SecretsKeep DEF FleetInv, GateInv

(* The fleet's invariant holds throughout a behaviour of either part.      *)
LEMMA FleetAlways == AllSpec => []FleetInv
<1>1. AllInit => FleetInv
  BY FleetStarts DEF AllInit
<1>2. FleetInv /\ [AllNext]_allVars => FleetInv'
  BY FleetSteps, FleetRests DEF AllNext, allVars
<1>3. QED
  BY <1>1, <1>2, PTL DEF AllSpec

(* What the gates promise of the runs of phones and administrators         *)
(* (enforceMobileFreezeGate, operatorOS.agentRuns.create), whatever the    *)
(* number of requests, instances, profiles and names.                      *)
THEOREM RunsAlwaysPass == AllSpec => []RunsPassOpenGate
<1>1. FleetInv => RunsPassOpenGate
  BY DEF FleetInv, GateInv
<1>2. QED
  BY <1>1, FleetAlways, PTL

(* One status row per vertex and one primary pack, though nothing but the  *)
(* reads before the writes (persistHealthStatus, activate) sees to it.     *)
THEOREM OneOfAKindAlways == AllSpec => []OneOfAKindUnlessOverlapping
<1>1. FleetInv => OneOfAKindUnlessOverlapping
  <2> SUFFICES ASSUME FleetInv PROVE OneOfAKindUnlessOverlapping
    OBVIOUS
  <2>1. \A s, t \in status : s # t /\ s.vertex = t.vertex => Overlap(s.id, t.id)
    BY DEF FleetInv, StatusInv, OneRowEach
  <2>2. \A j, k \in Packs : j # k /\ vertical[j].primary /\ vertical[k].primary =>
          Overlap(vertical[j].by, vertical[k].by)
    BY DEF FleetInv, PackInv, OnePack
  <2> DEFINE activations == {r \in Requests : call[r].op = "activate" /\ call[r].step # "none"}
  <2>3. ASSUME activations # {}, \A r \in activations : call[r].step = "returned"
        PROVE  \E k \in Packs : vertical[k].primary
    <3>1. PICK r \in Requests : call[r].op = "activate" /\ call[r].step = "returned"
      BY <2>3
    <3>2. \A q \in Requests : call[q].op = "activate" => call[q].step \in {"none", "returned"}
      BY <2>3
    <3>3. QED
      BY <3>1, <3>2 DEF FleetInv, PackInv, Chosen, Activating, ChooseSteps
  <2>4. QED
    BY <2>1, <2>2, <2>3 DEF OneOfAKindUnlessOverlapping
<1>2. QED
  BY <1>1, FleetAlways, PTL

(* What agentInstances.delete leaves behind.                               *)
THEOREM SecretsAlwaysDie == AllSpec => []SecretsDieWithInstance
<1>1. FleetInv => SecretsDieWithInstance
  BY DEF FleetInv, SecretInv
<1>2. QED
  BY <1>1, FleetAlways, PTL

-----------------------------------------------------------------------------
(* Feedback and proposals.                                                 *)
FeedbackOps   == Feedback!Decisions \cup {"create", "updateStatus", "swarm"}
FeedbackSteps == Over \cup {"none", "begin", "run", "propose", "triage", "complete", "decide", "items"}
Verdicts      == {"approved", "rejected", "applied", "rolled_back"}

DecisionTypes ==
  [op : FeedbackOps, step : FeedbackSteps, on : Feedback!Proposals \cup Feedback!AllItems \cup {Nothing},
   decision : Verdicts \cup {"none"}, read : SUBSET Feedback!AllItems]

ItemTypes     == [status : Feedback!Statuses \cup {"none"}, cluster : Clusters \cup {Nothing}, by : Someone]
ProposalTypes == [status : Verdicts \cup {"none", "proposed"}, items : SUBSET Feedback!AllItems]

LoopTypeOK ==
  /\ item \in [Feedback!AllItems -> ItemTypes]
  /\ proposal \in [Feedback!Proposals -> ProposalTypes]
  /\ decision \in [Requests -> DecisionTypes]
  /\ over \in [Requests -> SUBSET Requests]

LoopMoves(r) ==
  /\ decision[r].step \notin Over /\ decision'[r].step # "none"
  /\ \A q \in Requests \ {r} : decision'[q] = decision[q] /\ over'[q] = over[q]
  /\ \/ /\ decision[r].step = "none" /\ decision'[r].step = "begin"
        /\ over'[r] = {q \in Requests : decision[q].step \in Over}
     \/ /\ decision[r].step # "none" /\ decision'[r].step # "begin" /\ over'[r] = over[r]
        /\ decision'[r].op = decision[r].op /\ decision'[r].on = decision[r].on

(* What a request decides on, and what it has decided.                     *)
Deciding(r) ==
  LET c == decision[r] IN
  /\ c.step = "none" => c.op = "create"
  /\ c.step # "none" /\ c.op \in Feedback!Decisions =>
       c.on \in Feedback!Proposals /\ proposal[c.on].status # "none"
  /\ c.step \in {"decide", "items"} => c.op \in Feedback!Decisions /\ c.decision \in Feedback!Outcomes(c.op)
  /\ c.step = "items" => c.decision # "approved"

LEMMA NoDecisionTyped ==
  Feedback!NoCall \in DecisionTypes /\ Feedback!NoCall.step = "none" /\ Feedback!NoCall.op = "create"
  BY DEF DecisionTypes, Feedback!NoCall, FeedbackOps, FeedbackSteps

LEMMA LoopGoto ==
  ASSUME LoopTypeOK, NEW r \in Requests, NEW step \in FeedbackSteps \ {"none", "begin"},
         decision[r].step \notin Over \cup {"none"}, Feedback!Goto(r, step), UNCHANGED over
  PROVE  /\ decision' \in [Requests -> DecisionTypes] /\ LoopMoves(r) /\ decision'[r].step = step
         /\ step \notin Over => decision'[r].decision = decision[r].decision
         /\ over' \in [Requests -> SUBSET Requests]
<1> DEFINE c == IF step \notin Over THEN [decision[r] EXCEPT !.step = step]
                  ELSE [Feedback!NoCall EXCEPT !.op = decision[r].op, !.on = decision[r].on, !.step = step]
<1>1. /\ c \in DecisionTypes /\ c.step = step /\ c.op = decision[r].op /\ c.on = decision[r].on
      /\ step \notin Over => c.decision = decision[r].decision
  <2>1. decision[r] \in DecisionTypes
    BY DEF LoopTypeOK
  <2>2. QED
    BY <2>1, NoDecisionTyped DEF DecisionTypes
<1>2. decision' = [decision EXCEPT ![r] = c]
  BY DEF Feedback!Goto, Feedback!Over, Over
<1> HIDE DEF c
<1>3. decision' \in [Requests -> DecisionTypes] /\ decision'[r] = c
      /\ \A q \in Requests \ {r} : decision'[q] = decision[q]
  BY <1>1, <1>2 DEF LoopTypeOK
<1>4. LoopMoves(r)
  BY <1>1, <1>3 DEF LoopMoves, Over
<1>5. QED
  BY <1>1, <1>3, <1>4 DEF LoopTypeOK

(* A step moves its request; a decision returns by its last statement.     *)
LEMMA LoopStepMoves ==
  ASSUME LoopTypeOK, NEW r \in Requests, Feedback!Step(r)
  PROVE  /\ LoopMoves(r) /\ decision' \in [Requests -> DecisionTypes] /\ over' \in [Requests -> SUBSET Requests]
         /\ decision'[r].step \in {"decide", "items"} => Feedback!ReadProposal(r) \/ Feedback!Decide(r)
         /\ decision[r].step = "propose" => decision'[r].step \in {"triage", "threw"}
<1>0. /\ decision \in [Requests -> DecisionTypes] /\ over \in [Requests -> SUBSET Requests]
      /\ decision[r] \in DecisionTypes
  BY DEF LoopTypeOK
<1>1. CASE Feedback!Begin(r)
  <2>1. PICK op \in FeedbackOps : \E on \in Feedback!Targets(op) :
          decision' = [decision EXCEPT ![r].op = op, ![r].on = on, ![r].step = "begin"]
    BY <1>1 DEF Feedback!Begin, FeedbackOps
  <2>2. PICK on \in Feedback!Targets(op) :
          decision' = [decision EXCEPT ![r].op = op, ![r].on = on, ![r].step = "begin"]
    BY <2>1
  <2>3. on \in Feedback!Proposals \cup Feedback!AllItems \cup {Nothing}
    BY DEF Feedback!Targets, Feedback!Made, Feedback!Here
  <2> DEFINE c == [decision[r] EXCEPT !.op = op, !.on = on, !.step = "begin"]
  <2>4. /\ c \in DecisionTypes /\ c.step = "begin"
    BY <1>0, <2>3 DEF DecisionTypes, FeedbackSteps
  <2>5. decision' = [decision EXCEPT ![r] = c]
    BY <1>0, <2>2 DEF DecisionTypes
  <2> HIDE DEF c
  <2>6. /\ decision' \in [Requests -> DecisionTypes] /\ decision'[r] = c
        /\ \A q \in Requests \ {r} : decision'[q] = decision[q]
    BY <1>0, <2>4, <2>5
  <2>7. /\ decision[r].step = "none"
        /\ over' = [over EXCEPT ![r] = {q \in Requests : decision[q].step \in Over}]
    BY <1>1 DEF Feedback!Begin, Feedback!Over, Over
  <2>8. LoopMoves(r) /\ over' \in [Requests -> SUBSET Requests]
    BY <1>0, <2>4, <2>6, <2>7 DEF LoopMoves, Over
  <2>9. QED
    BY <2>4, <2>6, <2>7, <2>8
<1> DEFINE Goes == \E step \in FeedbackSteps \ {"none", "begin", "decide"} :
             /\ Feedback!Goto(r, step) /\ UNCHANGED over
             /\ step = "items" => Feedback!Decide(r)
             /\ decision[r].step = "propose" => step \in {"triage", "threw"}
<1>2. ASSUME Goes, decision[r].step \notin Over \cup {"none"}
      PROVE  /\ LoopMoves(r) /\ decision' \in [Requests -> DecisionTypes] /\ over' \in [Requests -> SUBSET Requests]
             /\ decision'[r].step \in {"decide", "items"} => Feedback!ReadProposal(r) \/ Feedback!Decide(r)
             /\ decision[r].step = "propose" => decision'[r].step \in {"triage", "threw"}
  <2>1. PICK step \in FeedbackSteps \ {"none", "begin", "decide"} :
             /\ Feedback!Goto(r, step) /\ UNCHANGED over
             /\ step = "items" => Feedback!Decide(r)
             /\ decision[r].step = "propose" => step \in {"triage", "threw"}
    BY <1>2
  <2>2. QED
    BY <1>2, <2>1, LoopGoto
<1>3. CASE Feedback!Throws(r)
  BY <1>2, <1>3 DEF Feedback!Throws, Feedback!Over, Over, FeedbackSteps
<1>4. CASE Feedback!Create(r) \/ Feedback!UpdateStatus(r)
  BY <1>2, <1>4 DEF Feedback!Create, Feedback!UpdateStatus, Feedback!At, Over, FeedbackSteps
<1>5. CASE Feedback!InsertRun(r) \/ Feedback!Propose(r) \/ Feedback!Triage(r) \/ Feedback!CompleteRun(r)
  BY <1>2, <1>5 DEF Feedback!InsertRun, Feedback!Propose, Feedback!Triage, Feedback!CompleteRun,
     Feedback!At, Over, FeedbackSteps
<1>6. CASE Feedback!Decide(r) \/ Feedback!UpdateItems(r)
  BY <1>2, <1>6 DEF Feedback!Decide, Feedback!UpdateItems, Over, FeedbackSteps
<1>7. CASE Feedback!Gather(r)
  <2>1. PICK scope \in Feedback!Scopes :
       LET found == {i \in Feedback!Here : item[i].status \in scope} IN
       IF found = {} THEN Feedback!Goto(r, "returned")
         ELSE decision' = [decision EXCEPT ![r].step = "run", ![r].read = found]
    BY <1>7 DEF Feedback!Gather
  <2> DEFINE found == {i \in Feedback!Here : item[i].status \in scope}
  <2>2. decision[r].step = "begin" /\ UNCHANGED over
    BY <1>7 DEF Feedback!Gather, Feedback!At
  <2>3. CASE Feedback!Goto(r, "returned")
    BY <1>2, <2>2, <2>3 DEF Over, FeedbackSteps
  <2>4. CASE decision' = [decision EXCEPT ![r].step = "run", ![r].read = found]
    <3> DEFINE c == [decision[r] EXCEPT !.step = "run", !.read = found]
    <3>1. c \in DecisionTypes /\ c.step = "run" /\ c.op = decision[r].op /\ c.on = decision[r].on
      <4>1. found \in SUBSET Feedback!AllItems
        BY DEF Feedback!Here
      <4> HIDE DEF found
      <4>2. QED
        BY <1>0, <4>1 DEF DecisionTypes, FeedbackSteps
    <3>2. decision' = [decision EXCEPT ![r] = c]
      BY <1>0, <2>4 DEF DecisionTypes
    <3> HIDE DEF c
    <3>3. decision' \in [Requests -> DecisionTypes] /\ decision'[r] = c
          /\ \A q \in Requests \ {r} : decision'[q] = decision[q]
      BY <1>0, <3>1, <3>2
    <3>4. QED
      BY <1>0, <2>2, <3>1, <3>3 DEF LoopMoves, Over
  <2>5. QED
    BY <2>1, <2>3, <2>4
<1>8. CASE Feedback!ReadProposal(r)
  <2>1. PICK v \in Feedback!Outcomes(decision[r].op) :
       decision' = [decision EXCEPT ![r].step = "decide", ![r].decision = v]
    BY <1>8 DEF Feedback!ReadProposal
  <2>2. decision[r].op \in Feedback!Decisions /\ decision[r].step = "begin" /\ UNCHANGED over
    BY <1>8 DEF Feedback!ReadProposal
  <2>3. v \in Verdicts
    BY <2>2 DEF Feedback!Outcomes, Feedback!Decisions, Verdicts
  <2> DEFINE c == [decision[r] EXCEPT !.step = "decide", !.decision = v]
  <2>4. c \in DecisionTypes /\ c.step = "decide" /\ c.op = decision[r].op /\ c.on = decision[r].on
    BY <1>0, <2>3 DEF DecisionTypes, FeedbackSteps
  <2>5. decision' = [decision EXCEPT ![r] = c]
    BY <1>0, <2>1 DEF DecisionTypes
  <2> HIDE DEF c
  <2>6. decision' \in [Requests -> DecisionTypes] /\ decision'[r] = c
        /\ \A q \in Requests \ {r} : decision'[q] = decision[q]
    BY <1>0, <2>4, <2>5
  <2>7. QED
    BY <1>0, <1>8, <2>2, <2>4, <2>6 DEF LoopMoves, Over
<1>9. QED
  BY <1>1, <1>3, <1>4, <1>5, <1>6, <1>7, <1>8 DEF Feedback!Step

(* What becomes of a proposal once made: its items stay, and only a        *)
(* decision on it changes its status.                                      *)
ProposalsMade ==
  \A p \in Feedback!Proposals : proposal[p].status # "none" =>
    p[1] \in Past \/ decision[p[1]].step \in {"triage", "complete"} \cup Over

LEMMA ProposalMoves ==
  ASSUME LoopTypeOK, ProposalsMade, \A q \in Requests : Deciding(q), NEW r \in Requests, Feedback!Step(r),
         NEW p \in Feedback!Proposals, proposal[p].status # "none"
  PROVE  /\ proposal'[p].items = proposal[p].items /\ proposal'[p].status # "none"
         /\ \/ proposal'[p].status = proposal[p].status
            \/ Feedback!Decide(r) /\ decision[r].on = p /\ proposal'[p].status = decision[r].decision
<1>1. CASE UNCHANGED proposal
  BY <1>1
<1>2. CASE Feedback!Propose(r)
  <2>1. p[1] # r
    BY <1>2, AgentsAssumption DEF ProposalsMade, Feedback!Propose, Feedback!At, Over, Feedback!LoopAssumption
  <2>2. QED
    BY <1>2, <2>1 DEF Feedback!Propose
<1>3. CASE Feedback!Decide(r)
  <2>1. decision[r].decision # "none"
    BY <1>3 DEF Feedback!Decide, Deciding, Feedback!Outcomes, Feedback!Decisions
  <2>2. PICK n : n = decision[r].on
    OBVIOUS
  <2>3. proposal' = [proposal EXCEPT ![n].status = decision[r].decision]
    BY <1>3, <2>2 DEF Feedback!Decide
  <2>4. QED
    BY <1>3, <2>1, <2>2, <2>3 DEF LoopTypeOK, ProposalTypes
<1>4. QED
  BY <1>1, <1>2, <1>3 DEF Feedback!Step, Feedback!Begin, Feedback!Throws, Feedback!Create,
     Feedback!UpdateStatus, Feedback!Gather, Feedback!InsertRun, Feedback!Triage,
     Feedback!CompleteRun, Feedback!ReadProposal, Feedback!UpdateItems

LEMMA ProposalsTyped ==
  ASSUME LoopTypeOK, ProposalsMade, \A q \in Requests : Deciding(q), NEW r \in Requests, Feedback!Step(r)
  PROVE  proposal' \in [Feedback!Proposals -> ProposalTypes] /\ ProposalsMade'
<1>0. LoopMoves(r) /\ decision[r] \in DecisionTypes
  BY LoopStepMoves DEF LoopTypeOK
<1>1. ASSUME NEW p \in Feedback!Proposals, proposal[p].status # "none"
      PROVE  p[1] \in Past \/ decision'[p[1]].step \in {"triage", "complete"} \cup Over
  <2>1. SUFFICES ASSUME p[1] \notin Past PROVE decision'[p[1]].step \in {"triage", "complete"} \cup Over
    OBVIOUS
  <2>2. p[1] \in Requests /\ decision[p[1]].step \in {"triage", "complete"} \cup Over
    BY <1>1, <2>1 DEF Feedback!Proposals, ProposalsMade
  <2>3. CASE p[1] # r
    BY <1>0, <2>2, <2>3 DEF LoopMoves
  <2>4. CASE p[1] = r
    <3>1. decision[r].step \in {"triage", "complete"}
      BY <1>0, <2>2, <2>4 DEF LoopMoves
    <3>2. \E step \in {"complete"} \cup Over : Feedback!Goto(r, step) /\ UNCHANGED over
      BY <3>1 DEF Feedback!Step, Feedback!Begin, Feedback!Throws, Feedback!Create,
         Feedback!UpdateStatus, Feedback!Gather, Feedback!InsertRun, Feedback!Propose, Feedback!Triage,
         Feedback!CompleteRun, Feedback!ReadProposal, Feedback!Decide, Feedback!UpdateItems, Feedback!At, Over
    <3>3. QED
      BY <2>4, <3>1, <3>2, LoopGoto DEF FeedbackSteps, Over
  <2>5. QED
    BY <2>3, <2>4
<1>2. CASE UNCHANGED proposal
  BY <1>1, <1>2 DEF LoopTypeOK, ProposalsMade
<1>3. CASE Feedback!Decide(r)
  <2>1. /\ decision[r].decision \in Verdicts /\ decision[r].on \in Feedback!Proposals
        /\ proposal[decision[r].on].status # "none"
    BY <1>0, <1>3 DEF Feedback!Decide, Deciding, DecisionTypes, Feedback!Outcomes, Feedback!Decisions
  <2>2. PICK n : n = decision[r].on
    OBVIOUS
  <2>3. PICK v : v = decision[r].decision
    OBVIOUS
  <2>4. proposal' = [proposal EXCEPT ![n].status = v]
    BY <1>3, <2>2, <2>3 DEF Feedback!Decide
  <2>5. \A p \in Feedback!Proposals : proposal'[p].status # "none" => proposal[p].status # "none"
    BY <2>1, <2>2, <2>4 DEF LoopTypeOK
  <2>6. proposal' \in [Feedback!Proposals -> ProposalTypes]
    BY <2>1, <2>2, <2>3, <2>4 DEF LoopTypeOK, ProposalTypes
  <2>7. QED
    BY <1>1, <2>5, <2>6 DEF ProposalsMade
<1>4. CASE Feedback!Propose(r)
  <2>1. Feedback!Goto(r, "triage") /\ UNCHANGED over /\ decision[r].step = "propose"
    BY <1>4 DEF Feedback!Propose, Feedback!At
  <2>2. decision'[r].step = "triage"
    BY <2>1, LoopGoto DEF FeedbackSteps, Over
  <2>3. proposal' = [p \in Feedback!Proposals |->
          IF p[1] = r /\ Feedback!Clustered(r, p[2]) # {}
            THEN [status |-> "proposed", items |-> Feedback!Clustered(r, p[2])] ELSE proposal[p]]
    BY <1>4 DEF Feedback!Propose
  <2>4. \A c : Feedback!Clustered(r, c) \in SUBSET Feedback!AllItems
    BY <1>0 DEF Feedback!Clustered, DecisionTypes
  <2>5. proposal' \in [Feedback!Proposals -> ProposalTypes]
    BY <2>3, <2>4 DEF LoopTypeOK, ProposalTypes
  <2>6. ProposalsMade'
    BY <1>1, <2>2, <2>3 DEF ProposalsMade
  <2>7. QED
    BY <2>5, <2>6
<1>5. QED
  BY <1>2, <1>3, <1>4 DEF Feedback!Step, Feedback!Begin, Feedback!Throws, Feedback!Create,
     Feedback!UpdateStatus, Feedback!Gather, Feedback!InsertRun, Feedback!Triage,
     Feedback!CompleteRun, Feedback!ReadProposal, Feedback!UpdateItems

(* Whoever changes an item signs it; a decision changes the items of its   *)
(* proposal, all of them, and is over.                                     *)
LEMMA ItemMoves ==
  ASSUME LoopTypeOK, NEW r \in Requests, Deciding(r), Feedback!Step(r), NEW i \in Feedback!AllItems
  PROVE  /\ item'[i] \in ItemTypes
         /\ \/ item'[i] = item[i] /\ ~(Feedback!UpdateItems(r) /\ i \in proposal[decision[r].on].items)
            \/ item'[i].by = r /\ decision[r].op \notin Feedback!Decisions /\ decision[r].step # "none"
            \/ /\ Feedback!UpdateItems(r) /\ i \in proposal[decision[r].on].items
               /\ item'[i].by = r /\ item'[i].status = Feedback!StatusAfter(decision[r].decision)
               /\ decision'[r].step = "returned"
<1>0. item \in [Feedback!AllItems -> ItemTypes] /\ item[i] \in ItemTypes
  BY DEF LoopTypeOK
<1>1. ASSUME NEW is, NEW s \in Feedback!Statuses, Feedback!SetItems(is, s, r)
      PROVE  /\ item'[i] \in ItemTypes
             /\ i \in is => item'[i].by = r /\ item'[i].status = s
             /\ i \notin is => item'[i] = item[i]
  <2>1. item'[i] = IF i \in is THEN [item[i] EXCEPT !.status = s, !.by = r] ELSE item[i]
    BY <1>1 DEF Feedback!SetItems
  <2>2. QED
    BY <1>0, <2>1 DEF ItemTypes, Someone
<1>2. CASE UNCHANGED item /\ ~Feedback!UpdateItems(r)
  BY <1>0, <1>2
<1>3. CASE Feedback!Create(r)
  <2>1. PICK c \in Clusters : item' = [item EXCEPT ![r] = [status |-> "open", cluster |-> c, by |-> r]]
    BY <1>3 DEF Feedback!Create
  <2>2. decision[r].op \notin Feedback!Decisions /\ decision[r].step # "none" /\ ~Feedback!UpdateItems(r)
    BY <1>3 DEF Feedback!Create, Feedback!At, Feedback!Decisions, Feedback!UpdateItems
  <2>3. QED
    BY <1>0, <2>1, <2>2 DEF ItemTypes, Someone, Feedback!Statuses, Feedback!Open
<1>4. CASE Feedback!UpdateStatus(r)
  <2>1. decision[r].op \notin Feedback!Decisions /\ decision[r].step # "none" /\ ~Feedback!UpdateItems(r)
    BY <1>4 DEF Feedback!UpdateStatus, Feedback!At, Feedback!Decisions, Feedback!UpdateItems
  <2>2. \E s \in Feedback!Statuses : Feedback!SetItems({decision[r].on}, s, r)
    BY <1>4 DEF Feedback!UpdateStatus
  <2>3. QED
    BY <1>1, <2>1, <2>2
<1>5. CASE Feedback!Triage(r)
  <2>1. decision[r].op \notin Feedback!Decisions /\ decision[r].step # "none" /\ ~Feedback!UpdateItems(r)
    BY <1>5 DEF Feedback!Triage, Feedback!At, Feedback!Decisions, Feedback!UpdateItems
  <2>2. Feedback!SetItems({j \in decision[r].read : item[j].status = "open"}, "triaged", r)
    BY <1>5 DEF Feedback!Triage
  <2>3. "triaged" \in Feedback!Statuses
    BY DEF Feedback!Statuses, Feedback!Open
  <2>4. QED
    BY <1>1, <2>1, <2>2, <2>3
<1>6. CASE Feedback!UpdateItems(r) /\ decision[r].decision \in {"rejected", "applied", "rolled_back"}
  <2>1. Feedback!StatusAfter(decision[r].decision) \in Feedback!Statuses
    BY <1>6 DEF Feedback!StatusAfter, Feedback!Statuses, Feedback!Open, Feedback!Closed
  <2>2. Feedback!SetItems(proposal[decision[r].on].items, Feedback!StatusAfter(decision[r].decision), r)
        /\ Feedback!Goto(r, "returned") /\ decision[r].step = "items" /\ UNCHANGED over
    BY <1>6 DEF Feedback!UpdateItems
  <2>3. decision'[r].step = "returned"
    BY <2>2, LoopGoto DEF FeedbackSteps, Over
  <2>4. QED
    BY <1>1, <1>6, <2>1, <2>2, <2>3
<1>7. QED
  <2>1. Feedback!UpdateItems(r) => decision[r].decision \in {"rejected", "applied", "rolled_back"}
    BY DEF Feedback!UpdateItems, Deciding, Feedback!Outcomes, Feedback!Decisions
  <2>2. Feedback!UpdateItems(r) \/ Feedback!Create(r) \/ Feedback!UpdateStatus(r) \/ Feedback!Triage(r)
        \/ UNCHANGED item
    BY DEF Feedback!Step, Feedback!Begin, Feedback!Throws, Feedback!Gather, Feedback!InsertRun,
       Feedback!Propose, Feedback!CompleteRun, Feedback!ReadProposal, Feedback!Decide
  <2>3. QED
    BY <1>2, <1>3, <1>4, <1>5, <1>6, <2>1, <2>2

LEMMA DecideMoves ==
  ASSUME LoopTypeOK, NEW r \in Requests, Feedback!Decide(r)
  PROVE  \/ decision[r].decision = "approved" /\ decision'[r].step = "returned"
         \/ /\ decision[r].decision # "approved" /\ decision'[r].step = "items"
            /\ decision'[r].decision = decision[r].decision
<1>1. PICK step \in {"returned", "items"} : /\ Feedback!Goto(r, step) /\ UNCHANGED over
                                            /\ (step = "returned") <=> (decision[r].decision = "approved")
  BY DEF Feedback!Decide
<1>2. decision[r].step = "decide"
  BY DEF Feedback!Decide
<1>3. QED
  BY <1>1, <1>2, LoopGoto DEF FeedbackSteps, Over

LEMMA ReadMoves ==
  ASSUME LoopTypeOK, NEW r \in Requests, Feedback!ReadProposal(r)
  PROVE  /\ decision'[r].step = "decide" /\ decision'[r].op = decision[r].op
         /\ decision'[r].on = decision[r].on
         /\ decision[r].op \in Feedback!Decisions /\ decision[r].step = "begin"
         /\ decision'[r].decision \in Feedback!Outcomes(decision[r].op)
         /\ Feedback!Allows(decision[r].op, proposal[decision[r].on].status)
<1>1. PICK v \in Feedback!Outcomes(decision[r].op) :
       decision' = [decision EXCEPT ![r].step = "decide", ![r].decision = v]
  BY DEF Feedback!ReadProposal
<1>2. decision \in [Requests -> DecisionTypes] /\ decision[r] \in DecisionTypes
  BY DEF LoopTypeOK
<1>3. decision'[r].step = "decide" /\ decision'[r].op = decision[r].op
      /\ decision'[r].on = decision[r].on /\ decision'[r].decision = v
  BY <1>1, <1>2 DEF DecisionTypes
<1>4. QED
  BY <1>3 DEF Feedback!ReadProposal

LEMMA DecidingStays ==
  ASSUME LoopTypeOK, ProposalsMade, \A q \in Requests : Deciding(q), NEW r \in Requests, Feedback!Step(r),
         NEW q \in Requests
  PROVE  Deciding(q)'
<1>1. LoopMoves(r) /\ Deciding(q) /\ decision \in [Requests -> DecisionTypes]
  BY LoopStepMoves DEF LoopTypeOK
<1>2. \A p \in Feedback!Proposals : proposal[p].status # "none" => proposal'[p].status # "none"
  BY ProposalMoves
<1>3. CASE q # r
  BY <1>1, <1>2, <1>3 DEF LoopMoves, Deciding
<1>4. CASE q = r
  <2>1. decision'[r].op \in Feedback!Decisions =>
          decision'[r].on \in Feedback!Proposals /\ proposal'[decision'[r].on].status # "none"
    <3>1. CASE decision[r].step # "none"
      BY <1>1, <1>2, <1>4, <3>1 DEF LoopMoves, Deciding
    <3>2. CASE decision[r].step = "none"
      <4>1. Feedback!Begin(r)
        <5>1. decision[r].op = "create"
          BY <1>1, <1>4, <3>2 DEF Deciding
        <5>2. QED
          BY <3>2, <5>1 DEF Feedback!Step, Feedback!Throws, Feedback!Create, Feedback!UpdateStatus,
             Feedback!Gather, Feedback!InsertRun, Feedback!Propose, Feedback!Triage, Feedback!CompleteRun,
             Feedback!ReadProposal, Feedback!Decide, Feedback!UpdateItems, Feedback!At
      <4>2. PICK op \in FeedbackOps : \E on \in Feedback!Targets(op) :
              decision' = [decision EXCEPT ![r].op = op, ![r].on = on, ![r].step = "begin"]
        BY <4>1 DEF Feedback!Begin, FeedbackOps
      <4>3. PICK on \in Feedback!Targets(op) :
              decision' = [decision EXCEPT ![r].op = op, ![r].on = on, ![r].step = "begin"]
        BY <4>2
      <4>4. decision'[r].op = op /\ decision'[r].on = on
        BY <1>1, <4>3 DEF DecisionTypes
      <4>5. op \in Feedback!Decisions => on \in Feedback!Proposals /\ proposal[on].status # "none"
        BY DEF Feedback!Targets, Feedback!Made, Feedback!Decisions
      <4>6. QED
        BY <1>2, <4>4, <4>5
    <3>3. QED
      BY <3>1, <3>2
  <2>2. decision'[r].step \in {"decide", "items"} =>
          /\ decision'[r].op \in Feedback!Decisions
          /\ decision'[r].decision \in Feedback!Outcomes(decision'[r].op)
          /\ decision'[r].step = "items" => decision'[r].decision # "approved"
    <3>1. CASE Feedback!ReadProposal(r)
      BY <3>1, ReadMoves
    <3>2. CASE Feedback!Decide(r)
      <4>1. decision'[r].op = decision[r].op /\ decision[r].step = "decide"
        BY <1>1, <3>2 DEF LoopMoves, Feedback!Decide
      <4>2. QED
        BY <1>1, <1>4, <3>2, <4>1, DecideMoves DEF Deciding
    <3>3. QED
      BY <3>1, <3>2, LoopStepMoves
  <2>3. QED
    BY <1>1, <1>4, <2>1, <2>2 DEF Deciding, LoopMoves
<1>5. QED
  BY <1>3, <1>4

(* What excuses a decision that no longer stands, and what stands.         *)
LoopEndedAreOver == \A r \in Requests : \A q \in over[r] : decision[q].step \in Over

ItemsKnown ==
  \A i \in Feedback!AllItems : item[i].by \in Requests => decision[item[i].by].step # "none"

Excused(r) ==
  \/ Feedback!Rivals(r) # {}
  \/ \E q \in Requests : /\ decision[q].op = "rollback" /\ decision[q].on = decision[r].on
                         /\ decision[q].step # "returned"

ClosedBy(i, r) ==
  item[i].by = r /\ item[i].status \in Feedback!Closed /\ decision[r].op \in Feedback!Decisions

Decided(r) ==
  decision[r].step = "items" =>
    proposal[decision[r].on].status = decision[r].decision \/ Feedback!Rivals(r) # {}

Stands(i, r) ==
  ClosedBy(i, r) =>
    /\ decision[r].step = "returned" /\ i \in proposal[decision[r].on].items
    /\ \/ proposal[decision[r].on].status = IF item[i].status = "resolved" THEN "applied" ELSE "rejected"
       \/ Excused(r)
    /\ \A q \in Requests : decision[q].step = "decide" /\ decision[q].on = decision[r].on => Excused(r)

LoopInv ==
  /\ LoopTypeOK /\ LoopEndedAreOver /\ ProposalsMade /\ ItemsKnown
  /\ \A r \in Requests : Deciding(r) /\ Decided(r)
  /\ \A i \in Feedback!AllItems : \A r \in Requests : Stands(i, r)

LEMMA LoopOverlapStays ==
  ASSUME LoopTypeOK, NEW r \in Requests, LoopMoves(r), NEW p \in Requests, NEW q \in Requests,
         Feedback!Overlap(p, q), decision[q].step # "none"
  PROVE  Feedback!Overlap(p, q)'
  BY DEF Feedback!Overlap, LoopMoves

LEMMA LoopLiveOverlap ==
  ASSUME LoopEndedAreOver, NEW p \in Requests, NEW q \in Requests, p # q,
         decision[p].step \notin Over \cup {"none"}, decision[q].step \notin Over \/ q \notin over[p]
  PROVE  Feedback!Overlap(p, q)
  BY DEF LoopEndedAreOver, Feedback!Overlap

LEMMA LoopEndedStay ==
  ASSUME LoopTypeOK, LoopEndedAreOver, NEW r \in Requests, LoopMoves(r)
  PROVE  LoopEndedAreOver'
<1> SUFFICES ASSUME NEW q \in Requests, NEW p \in over'[q] PROVE decision'[p].step \in Over
  BY DEF LoopEndedAreOver
<1>1. CASE p \in over[q]
  <2>1. p \in Requests /\ decision[p].step \in Over
    BY <1>1 DEF LoopEndedAreOver, LoopTypeOK
  <2>2. QED
    BY <2>1 DEF LoopMoves
<1>2. CASE p \notin over[q]
  <2>1. q = r /\ p \in Requests /\ decision[p].step \in Over
    BY <1>2 DEF LoopMoves
  <2>2. QED
    BY <2>1 DEF LoopMoves, Over
<1>3. QED
  BY <1>1, <1>2

LEMMA RivalsStay ==
  ASSUME LoopTypeOK, NEW r \in Requests, LoopMoves(r), NEW q \in Requests,
         decision[q].step # "none", Feedback!Rivals(q) # {}
  PROVE  Feedback!Rivals(q)' # {}
<1>1. PICK p \in Requests : /\ Feedback!Overlap(p, q) /\ decision[p].on = decision[q].on
                            /\ decision[p].op \in Feedback!Decisions
  BY DEF Feedback!Rivals
<1>2. Feedback!Overlap(p, q)'
  BY <1>1, LoopOverlapStays
<1>3. decision[p].step # "none"
  BY <1>1 DEF Feedback!Overlap
<1>4. \A x \in {p, q} : decision'[x].on = decision[x].on /\ decision'[x].op = decision[x].op
  BY <1>3 DEF LoopMoves
<1>5. QED
  BY <1>1, <1>2, <1>4 DEF Feedback!Rivals

(* While an item stays closed by r, what excuses it stays.                 *)
LEMMA ExcuseStays ==
  ASSUME LoopInv, NEW r \in Requests, Feedback!Step(r), NEW i \in Feedback!AllItems, NEW q \in Requests,
         ClosedBy(i, q), q # r, item'[i] = item[i], Excused(q),
         ~(Feedback!UpdateItems(r) /\ i \in proposal[decision[r].on].items)
  PROVE  Excused(q)'
<1>1. LoopMoves(r) /\ LoopTypeOK /\ decision[q].step = "returned" /\ Deciding(r)
      /\ i \in proposal[decision[q].on].items
  BY LoopStepMoves DEF LoopInv, Stands
<1>2. CASE Feedback!Rivals(q) # {}
  BY <1>1, <1>2, RivalsStay DEF Excused
<1>3. CASE \E p \in Requests : /\ decision[p].op = "rollback" /\ decision[p].on = decision[q].on
                               /\ decision[p].step # "returned"
  <2>1. PICK p \in Requests : /\ decision[p].op = "rollback" /\ decision[p].on = decision[q].on
                              /\ decision[p].step # "returned"
    BY <1>3
  <2>2. Deciding(p)
    BY DEF LoopInv
  <2>3. decision[p].step # "none" /\ decision'[q] = decision[q]
    BY <1>1, <2>1, <2>2 DEF Deciding, LoopMoves
  <2>4. decision'[p].op = "rollback" /\ decision'[p].on = decision'[q].on
    BY <1>1, <2>1, <2>3 DEF LoopMoves
  <2>5. CASE p # r
    BY <1>1, <2>1, <2>4, <2>5 DEF LoopMoves, Excused
  <2>6. CASE p = r
    <3>1. ~Feedback!UpdateItems(r)
      BY <1>1, <2>1, <2>6
    <3>2. decision'[r].step # "returned"
      <4>1. CASE Feedback!Throws(r)
        <5>1. Feedback!Goto(r, "threw") /\ UNCHANGED over /\ decision[r].step \notin Over \cup {"none"}
          BY <4>1 DEF Feedback!Throws, Feedback!Over, Over
        <5>2. QED
          BY <1>1, <5>1, LoopGoto DEF FeedbackSteps, Over
      <4>2. CASE Feedback!ReadProposal(r)
        BY <1>1, <4>2, ReadMoves
      <4>3. CASE Feedback!Decide(r)
        <5>1. decision[r].decision # "approved"
          BY <1>1, <2>1, <2>6, <4>3 DEF Feedback!Decide, Deciding, Feedback!Outcomes
        <5>2. QED
          BY <1>1, <4>3, <5>1, DecideMoves
      <4>4. QED
        BY <1>1, <2>1, <2>3, <2>6, <3>1, <4>1, <4>2, <4>3 DEF Feedback!Step, Feedback!Begin,
           Feedback!Create, Feedback!UpdateStatus, Feedback!Gather, Feedback!InsertRun,
           Feedback!Propose, Feedback!Triage, Feedback!CompleteRun, Feedback!At
    <3>3. QED
      BY <2>4, <2>6, <3>2 DEF Excused
  <2>7. QED
    BY <2>5, <2>6
<1>4. QED
  BY <1>2, <1>3 DEF Excused

(* A step of another leaves what stands, or the decision was overlapped.   *)
LEMMA StandsStays ==
  ASSUME LoopInv, NEW r \in Requests, Feedback!Step(r), NEW i \in Feedback!AllItems, NEW q \in Requests,
         ClosedBy(i, q), q # r, item'[i] = item[i],
         ~(Feedback!UpdateItems(r) /\ i \in proposal[decision[r].on].items)
  PROVE  Stands(i, q)'
<1> DEFINE n == decision[q].on
           Right == IF item[i].status = "resolved" THEN "applied" ELSE "rejected"
<1>1. /\ LoopMoves(r) /\ LoopTypeOK /\ ProposalsMade /\ Deciding(r) /\ Deciding(q)
      /\ decision[q].step = "returned" /\ i \in proposal[n].items
      /\ proposal[n].status = Right \/ Excused(q)
      /\ \A p \in Requests : decision[p].step = "decide" /\ decision[p].on = n => Excused(q)
  BY LoopStepMoves DEF LoopInv, Stands
<1>2. decision'[q] = decision[q] /\ n \in Feedback!Proposals /\ proposal[n].status # "none"
  BY <1>1 DEF LoopMoves, Deciding, ClosedBy
<1>3. proposal'[n].items = proposal[n].items
      /\ (proposal'[n].status = proposal[n].status \/ (Feedback!Decide(r) /\ decision[r].on = n))
  BY <1>1, <1>2, ProposalMoves DEF LoopInv
<1>4. Excused(q) => Excused(q)'
  BY ExcuseStays
<1> HIDE DEF n, Right
<1>5. proposal'[n].status = Right \/ Excused(q)'
  BY <1>1, <1>3, <1>4 DEF Feedback!Decide
<1>6. ASSUME NEW p \in Requests, decision'[p].step = "decide", decision'[p].on = n
      PROVE  Excused(q)'
  <2>1. CASE decision[p].step = "decide" /\ decision[p].on = n
    BY <1>1, <1>4, <2>1
  <2>2. CASE p = r /\ Feedback!ReadProposal(r)
    <3>1. SUFFICES ASSUME proposal[n].status = Right PROVE Excused(q)'
      BY <1>1, <1>4
    <3>2. /\ Feedback!Allows(decision[r].op, proposal[n].status) /\ decision[r].op \in Feedback!Decisions
          /\ decision'[r].op = decision[r].op
      BY <1>1, <1>6, <2>2, ReadMoves
    <3>3. decision[r].op = "rollback"
      BY <3>1, <3>2 DEF Right, Feedback!Allows, Feedback!Decisions
    <3>4. QED
      BY <1>2, <1>6, <2>2, <3>2, <3>3 DEF Excused, n
  <2>3. QED
    <3>1. CASE p # r
      BY <1>1, <1>6, <2>1, <3>1 DEF LoopMoves
    <3>2. CASE p = r
      <4>1. CASE Feedback!Decide(r)
        BY <1>1, <1>6, <3>2, <4>1, DecideMoves
      <4>2. QED
        BY <1>1, <1>6, <2>2, <3>2, <4>1, LoopStepMoves
    <3>3. QED
      BY <3>1, <3>2
<1>7. QED
  BY <1>1, <1>2, <1>3, <1>5, <1>6 DEF Stands, n, Right

LEMMA LoopSteps ==
  ASSUME LoopInv, Feedback!Next
  PROVE  LoopInv'
<1>0. PICK r \in Requests : Feedback!Step(r)
  BY DEF Feedback!Next
<1>1. /\ LoopMoves(r) /\ LoopTypeOK /\ ProposalsMade /\ LoopEndedAreOver
      /\ \A q \in Requests : Deciding(q) /\ Decided(q)
  BY <1>0, LoopStepMoves DEF LoopInv
<1>2. LoopTypeOK'
  <2>1. item' \in [Feedback!AllItems -> ItemTypes]
    <3>1. \A i \in Feedback!AllItems : item'[i] \in ItemTypes
      BY <1>0, <1>1, ItemMoves
    <3>2. item' = [i \in Feedback!AllItems |-> item'[i]]
      <4>1. CASE item' = item
        BY <1>1, <4>1 DEF LoopTypeOK
      <4>2. CASE Feedback!Create(r)
        BY <1>1, <4>2 DEF Feedback!Create, LoopTypeOK
      <4>3. ASSUME NEW is, NEW s, Feedback!SetItems(is, s, r)
            PROVE  item' = [i \in Feedback!AllItems |-> item'[i]]
        BY <4>3 DEF Feedback!SetItems
      <4>4. CASE Feedback!UpdateStatus(r) \/ Feedback!Triage(r) \/ Feedback!UpdateItems(r)
        BY <4>3, <4>4 DEF Feedback!UpdateStatus, Feedback!Triage, Feedback!UpdateItems
      <4>5. QED
        BY <1>0, <4>1, <4>2, <4>4 DEF Feedback!Step, Feedback!Begin, Feedback!Throws,
           Feedback!Gather, Feedback!InsertRun, Feedback!Propose,
           Feedback!CompleteRun, Feedback!ReadProposal, Feedback!Decide
    <3>3. QED
      BY <3>1, <3>2
  <2>2. QED
    BY <1>0, <1>1, <2>1, LoopStepMoves, ProposalsTyped DEF LoopTypeOK
<1>3. LoopEndedAreOver' /\ ProposalsMade' /\ \A q \in Requests : Deciding(q)'
  BY <1>0, <1>1, LoopEndedStay, ProposalsTyped, DecidingStays
<1>4. ItemsKnown'
  <2>1. SUFFICES ASSUME NEW i \in Feedback!AllItems, item'[i].by \in Requests
                 PROVE  decision'[item'[i].by].step # "none"
    BY DEF ItemsKnown
  <2>2. PICK q \in Requests : q = item'[i].by
    BY <2>1
  <2>3. decision'[r].step # "none"
    BY <1>1 DEF LoopMoves
  <2>4. CASE item'[i] = item[i]
    <3>1. decision[q].step # "none"
      BY <2>2, <2>4 DEF LoopInv, ItemsKnown
    <3>2. QED
      BY <1>1, <2>2, <3>1 DEF LoopMoves
  <2>5. CASE item'[i].by = r
    BY <2>3, <2>5
  <2>6. QED
    BY <1>0, <1>1, <2>4, <2>5, ItemMoves
<1>5. ASSUME NEW q \in Requests PROVE Decided(q)'
  <2>1. SUFFICES ASSUME decision'[q].step = "items"
                 PROVE  proposal'[decision'[q].on].status = decision'[q].decision
                        \/ Feedback!Rivals(q)' # {}
    BY DEF Decided
  <2>2. CASE q = r
    <3>1. Feedback!Decide(r)
      BY <1>0, <1>1, <2>1, <2>2, LoopStepMoves, ReadMoves
    <3>2. decision'[r].decision = decision[r].decision /\ decision'[r].on = decision[r].on
          /\ decision[r].on \in Feedback!Proposals
      BY <1>1, <2>1, <2>2, <3>1, DecideMoves DEF LoopMoves, Feedback!Decide, Deciding
    <3>3. PICK n : n = decision[r].on
      OBVIOUS
    <3>4. proposal' = [proposal EXCEPT ![n].status = decision[r].decision]
      BY <3>1, <3>3 DEF Feedback!Decide
    <3>5. QED
      BY <1>1, <2>2, <3>2, <3>3, <3>4 DEF LoopTypeOK, ProposalTypes
  <2>3. CASE q # r
    <3>1. decision'[q] = decision[q] /\ decision[q].step = "items"
      BY <1>1, <2>1, <2>3 DEF LoopMoves
    <3>2. PICK n \in Feedback!Proposals : n = decision[q].on /\ proposal[n].status # "none"
      BY <1>1, <3>1 DEF Deciding
    <3>3. CASE Feedback!Rivals(q) # {}
      BY <1>1, <3>1, <3>3, RivalsStay
    <3>4. CASE Feedback!Decide(r) /\ decision[r].on = n
      <4>1. decision[r].step = "decide" /\ decision[r].op \in Feedback!Decisions
        BY <1>1, <3>4 DEF Feedback!Decide, Deciding
      <4>2. Feedback!Overlap(r, q)
        BY <1>1, <2>3, <3>1, <4>1, LoopLiveOverlap DEF Over
      <4>3. Feedback!Rivals(q) # {}
        BY <3>2, <3>4, <4>1, <4>2 DEF Feedback!Rivals
      <4>4. QED
        BY <3>3, <4>3
    <3>5. CASE proposal[n].status = decision[q].decision /\ proposal'[n].status = proposal[n].status
      BY <3>1, <3>2, <3>5
    <3>6. QED
      BY <1>0, <1>1, <3>1, <3>2, <3>3, <3>4, <3>5, ProposalMoves DEF Decided
  <2>4. QED
    BY <2>2, <2>3
<1>6. ASSUME NEW i \in Feedback!AllItems, NEW q \in Requests PROVE Stands(i, q)'
  <2>1. SUFFICES ASSUME ClosedBy(i, q)' PROVE Stands(i, q)'
    BY DEF Stands
  <2>2. CASE item'[i] = item[i] /\ ~(Feedback!UpdateItems(r) /\ i \in proposal[decision[r].on].items)
    <3>1. decision[q].step # "none"
      BY <2>1, <2>2 DEF ClosedBy, LoopInv, ItemsKnown
    <3>2. ClosedBy(i, q)
      BY <1>1, <2>1, <2>2, <3>1 DEF ClosedBy, LoopMoves
    <3>3. decision[q].step = "returned"
      BY <3>2 DEF LoopInv, Stands
    <3>4. q # r
      BY <1>1, <3>3 DEF LoopMoves, Over
    <3>5. QED
      BY <1>0, <2>2, <3>2, <3>4, StandsStays
  <2>3. CASE item'[i].by = r /\ decision[r].op \notin Feedback!Decisions /\ decision[r].step # "none"
    <3>1. decision'[r].op = decision[r].op
      BY <1>1, <2>3 DEF LoopMoves
    <3>2. QED
      BY <2>1, <2>3, <3>1 DEF ClosedBy
  <2>4. CASE /\ Feedback!UpdateItems(r) /\ i \in proposal[decision[r].on].items
             /\ item'[i].by = r /\ item'[i].status = Feedback!StatusAfter(decision[r].decision)
             /\ decision'[r].step = "returned"
    <3>1. /\ q = r /\ decision[r].step = "items" /\ UNCHANGED proposal
          /\ decision'[r].on = decision[r].on
      BY <1>1, <2>1, <2>4 DEF ClosedBy, Feedback!UpdateItems, LoopMoves
    <3>2. decision[r].decision = IF item'[i].status = "resolved" THEN "applied" ELSE "rejected"
      <4>1. decision[r].decision \in {"rejected", "applied", "rolled_back"}
        BY <1>1, <3>1 DEF Deciding, Feedback!Outcomes, Feedback!Decisions
      <4>2. item'[i].status \in {"resolved", "wont_fix"}
        BY <2>1 DEF ClosedBy, Feedback!Closed
      <4>3. QED
        BY <2>4, <4>1, <4>2 DEF Feedback!StatusAfter
    <3>3. Feedback!Rivals(r) # {} => Excused(r)'
      BY <1>1, <3>1, RivalsStay DEF Excused
    <3>4. proposal'[decision'[r].on].status = (IF item'[i].status = "resolved" THEN "applied" ELSE "rejected")
          \/ Excused(r)'
      BY <1>1, <3>1, <3>2, <3>3 DEF Decided
    <3>5. ASSUME NEW p \in Requests, decision'[p].step = "decide", decision'[p].on = decision'[r].on
          PROVE  Excused(r)'
      <4>1. p # r /\ decision'[p] = decision[p] /\ decision[p].op \in Feedback!Decisions
        BY <1>1, <2>4, <3>5 DEF LoopMoves, Deciding
      <4>2. Feedback!Overlap(p, r)
        BY <1>1, <3>1, <3>5, <4>1, LoopLiveOverlap DEF Over
      <4>3. Feedback!Rivals(r) # {}
        BY <3>1, <3>5, <4>1, <4>2 DEF Feedback!Rivals
      <4>4. QED
        BY <3>3, <4>3
    <3>6. QED
      BY <2>4, <3>1, <3>4, <3>5 DEF Stands
  <2>5. QED
    BY <1>0, <1>1, <2>2, <2>3, <2>4, ItemMoves
<1>7. QED
  BY <1>2, <1>3, <1>4, <1>5, <1>6 DEF LoopInv

LEMMA LoopStarts ==
  ASSUME Feedback!Init
  PROVE  LoopInv
<1>0. /\ decision = [r \in Requests |-> Feedback!NoCall] /\ over = [r \in Requests |-> {}]
  BY DEF Feedback!Init
<1>1. PICK cluster \in [Items -> Clusters], st \in [Past \X Clusters -> {"proposed", "approved", "applied"}] :
       /\ proposal = [p \in Feedback!Proposals |-> IF p[1] \in Past
            THEN [status |-> st[p], items |-> {i \in Items : cluster[i] = p[2]}]
            ELSE Feedback!NoProposal]
       /\ item = [i \in Feedback!AllItems |-> IF i \in Items
            THEN [cluster |-> cluster[i], by |-> Nothing, status |->
                    IF \E s \in Past : st[s, cluster[i]] = "applied"
                      THEN "resolved" ELSE "triaged"]
            ELSE Feedback!NoItem]
  BY DEF Feedback!Init
<1>2. \A r \in Requests : decision[r].step = "none" /\ decision[r].op = "create" /\ over[r] = {}
  BY <1>0, NoDecisionTyped
<1>3. LoopTypeOK
  <2>1. \A p \in Feedback!Proposals : p[1] \in Past => p \in Past \X Clusters
    BY DEF Feedback!Proposals
  <2>2. proposal \in [Feedback!Proposals -> ProposalTypes]
    BY <1>1, <2>1 DEF ProposalTypes, Feedback!NoProposal, Feedback!AllItems, Verdicts
  <2>3. item \in [Feedback!AllItems -> ItemTypes]
    BY <1>1 DEF ItemTypes, Feedback!NoItem, Feedback!Statuses, Feedback!Open, Feedback!Closed, Someone
  <2>4. QED
    BY <1>0, <2>2, <2>3, NoDecisionTyped DEF LoopTypeOK
<1>4. ProposalsMade
  BY <1>1 DEF ProposalsMade, Feedback!NoProposal
<1>5. \A i \in Feedback!AllItems : item[i].by = Nothing
  BY <1>1 DEF Feedback!NoItem
<1>6. ItemsKnown /\ \A i \in Feedback!AllItems : \A r \in Requests : Stands(i, r)
  BY <1>5, FleetNames DEF ItemsKnown, Stands, ClosedBy
<1>7. \A r \in Requests : Deciding(r) /\ Decided(r)
  BY <1>2 DEF Deciding, Decided
<1>8. LoopEndedAreOver
  BY <1>2 DEF LoopEndedAreOver
<1>9. QED
  BY <1>3, <1>4, <1>6, <1>7, <1>8 DEF LoopInv

LEMMA LoopRests ==
  ASSUME LoopInv, UNCHANGED <<item, proposal, swarm, decision, over>>
  PROVE  LoopInv'
<1>1. \A q : Feedback!Rivals(q)' = Feedback!Rivals(q)
  BY DEF Feedback!Rivals, Feedback!Overlap
<1>2. LoopTypeOK' /\ LoopEndedAreOver' /\ ProposalsMade' /\ ItemsKnown'
  BY DEF LoopInv, LoopTypeOK, LoopEndedAreOver, ProposalsMade, ItemsKnown
<1>3. \A r \in Requests : Deciding(r)' /\ Decided(r)'
  BY <1>1 DEF LoopInv, Deciding, Decided
<1>4. \A i \in Feedback!AllItems : \A r \in Requests : Stands(i, r)'
  BY <1>1 DEF LoopInv, Stands, ClosedBy, Excused
<1>5. QED
  BY <1>2, <1>3, <1>4 DEF LoopInv

LEMMA LoopAlways == AllSpec => [](part = "feedback" => LoopInv)
<1>1. AllInit => (part = "feedback" => LoopInv)
  BY LoopStarts DEF AllInit
<1>2. (part = "feedback" => LoopInv) /\ [AllNext]_allVars => (part = "feedback" => LoopInv)'
  BY LoopSteps, LoopRests DEF AllNext, allVars
<1>3. QED
  BY <1>1, <1>2, PTL DEF AllSpec

(* What review, applyChange and rollback (feedback.ts) leave behind,       *)
(* however many swarms and proposals there are and however they interleave.*)
THEOREM ClosedByStandingAlways == AllSpec => []ClosedByStandingDecision
<1>1. (part = "feedback" => LoopInv) => ClosedByStandingDecision
  <2>1. SUFFICES ASSUME LoopInv PROVE Feedback!ClosedByStandingDecision
    BY DEF ClosedByStandingDecision
  <2>2. SUFFICES ASSUME NEW i \in Feedback!AllItems, NEW r, r = item[i].by,
                        item[i].status \in Feedback!Closed, r # Nothing, decision[r].op \in Feedback!Decisions
                 PROVE  \/ proposal[decision[r].on].status =
                             IF item[i].status = "resolved" THEN "applied" ELSE "rejected"
                        \/ Feedback!Rivals(r) # {}
                        \/ \E q \in Requests : /\ decision[q].op = "rollback"
                                               /\ decision[q].on = decision[r].on
                                               /\ decision[q].step # "returned"
    BY DEF Feedback!ClosedByStandingDecision, Feedback!Here
  <2>3. r \in Requests
    BY <2>1, <2>2 DEF LoopInv, LoopTypeOK, ItemTypes, Someone
  <2>4. Stands(i, r) /\ ClosedBy(i, r)
    BY <2>1, <2>2, <2>3 DEF LoopInv, ClosedBy
  <2>5. QED
    BY <2>4 DEF Stands, Excused
<1>2. QED
  BY <1>1, LoopAlways, PTL
=============================================================================
