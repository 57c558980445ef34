------------------------------ MODULE AgentFleet ------------------------------
(***************************************************************************)
(* The agents and who may use them: vertex profiles, agent instances and   *)
(* their secrets (server/routers/admin/agentInstances.ts), the persisted   *)
(* health of the agent runtime and the gate that reads it                  *)
(* (services/agentHealthMonitor.ts), the runs that administrators          *)
(* (operatorOS.ts, swarmOpsChat.ts) and phones (mobile/index.ts) start,    *)
(* and the vertical pack a phone's user has active.                        *)
(*                                                                         *)
(* Every awaited statement is an action. There is one project, one user of *)
(* the phone and one secret key. A run is inserted as running and is only  *)
(* a record here: MobileChat models what it does.                          *)
(***************************************************************************)
EXTENDS Integers

CONSTANTS
  Requests,   \* requests and polls; what they insert bears their names
  Ops,        \* the handlers they call
  Profiles, Instances, Packs,  \* vertex profiles, instances and packs of earlier days
  Names,      \* names of profiles and of the runtime's vertices
  Frozen,     \* the vertex of the freeze registry
  Nothing     \* null

ASSUME FleetAssumption ==
  /\ Frozen \in Names /\ Profiles # {}
  /\ Requests \cap (Profiles \cup Instances) = {}
  /\ ({"unknown", Nothing} \cap (Requests \cup Profiles \cup Instances \cup Names)) = {}

ProfileIds  == Profiles \cup Requests
InstanceIds == Instances \cup Requests
Over        == {"returned", "threw"}
Dispatches  == {"launch", "takeoff", "chat"}

VARIABLES
  status,    \* agent_runtime_status: id, vertex, status
  profile,   \* names of vertex_profiles
  instance,  \* agent_instances: status, vertexId, and who deleted it
  secret,    \* agent_instance_secrets, and who set it last
  runs,      \* agent_runs, by the request that inserted them
  linked,    \* runId of the blueprint's artifact
  vertical,  \* user_verticals: isPrimary, and who made it so
  call,      \* where each request is, and what it has read
  ended,     \* history: for each request those over before it began
  opened     \* history: requests for which the gate was open at some moment

rows == <<status, profile, instance, secret, runs, linked, vertical>>
vars == <<rows, call, ended, opened>>

NoCall     == [op |-> "launch", step |-> "none", on |-> Nothing,
               read |-> Nothing, answer |-> <<>>, todo |-> {}]
NoSecret   == [id |-> Nothing, by |-> Nothing]
NoInstance == [status |-> "none", vertexId |-> Nothing, by |-> Nothing]
NotChosen  == [exists |-> FALSE, primary |-> FALSE, by |-> Nothing]

Init ==
  /\ status \in {{}, {[id |-> Nothing, vertex |-> Frozen, status |-> "healthy"]}}
  /\ \E name \in Names, p \in Profiles :
       /\ profile = [q \in ProfileIds |-> IF q \in Profiles THEN name ELSE Nothing]
       /\ instance = [i \in InstanceIds |-> IF i \in Instances
            THEN [status |-> "active", vertexId |-> p, by |-> Nothing] ELSE NoInstance]
  /\ secret = [i \in InstanceIds |-> NoSecret]
  /\ runs = {} /\ linked = Nothing
  /\ vertical = [k \in Packs |-> NotChosen]
  /\ call = [r \in Requests |-> NoCall]
  /\ ended = [r \in Requests |-> {}] /\ opened = {}

-----------------------------------------------------------------------------
(* Requests.                                                               *)
At(r, op, step) == call[r].op = op /\ call[r].step = step
Goto(r, step) == call' = [call EXCEPT ![r] =
  IF step \notin Over THEN [@ EXCEPT !.step = step]
    ELSE [NoCall EXCEPT !.op = call[r].op, !.on = call[r].on, !.step = step]]
Live(r) == call[r].step \notin Over \cup {"none"}

Here(i) == instance[i].status \notin {"none", "deleted"}

RowsOf(vertex) == {s \in status : s.vertex = vertex}

Passes(s) == s.status \in {"healthy", "warning"}

(* The gate of a request as of now: for a phone, an instance without a     *)
(* name, or one whose name is not frozen and has the runtime's leave; for  *)
(* an administrator, an active instance.                                   *)
NameOf(i) == IF instance[i].vertexId = Nothing THEN Nothing ELSE profile[instance[i].vertexId]

HasLeave(name) ==
  \/ \E s \in RowsOf(name) : Passes(s)
  \/ RowsOf(name) = {} /\ \E s \in status : s.status = "healthy"

Open(r) ==
  LET name == NameOf(call[r].on) IN
  CASE call[r].op = "chat" -> name = Nothing \/ (name # Frozen /\ HasLeave(name))
    [] OTHER -> instance[call[r].on].status = "active"

Waiting == {r \in Requests : Live(r) /\ call[r].op \in Dispatches}

Track == opened' = (opened \cap (Waiting' \cup runs')) \cup {r \in Waiting' : Open(r)'}

(* An instance, a profile or a pack; a phone's session outlives its        *)
(* instance, and setSecret does not ask for it.                            *)
Targets(op) ==
  CASE op \in Dispatches \cup {"updateInstance", "deleteInstance", "setSecret",
                               "deleteSecret"} -> {i \in InstanceIds : instance[i].status # "none"}
    [] op \in {"createInstance", "renameProfile", "deleteProfile"} ->
         {p \in ProfileIds : profile[p] # Nothing}
    [] op = "activate" -> Packs
    [] OTHER -> {Nothing}

Begin(r) ==
  /\ call[r].step = "none"
  /\ \E op \in Ops : \E on \in Targets(op) :
       call' = [call EXCEPT ![r].op = op, ![r].on = on, ![r].step = "begin"]
  /\ ended' = [ended EXCEPT ![r] = {q \in Requests : call[q].step \in Over}]
  /\ UNCHANGED rows /\ Track

(* A check refuses, a statement throws or the process dies; before its     *)
(* first statement a request has done nothing and may as well wait.        *)
Throws(r) ==
  /\ Live(r) /\ call[r].step # "begin" /\ Goto(r, "threw")
  /\ UNCHANGED <<rows, ended>> /\ Track

-----------------------------------------------------------------------------
(* Vertex profiles, instances and secrets.                                 *)
CreateProfile(r) ==
  /\ At(r, "createProfile", "begin")
  /\ \E name \in Names : profile' = [profile EXCEPT ![r] = name]
  /\ Goto(r, "returned")
  /\ UNCHANGED <<status, instance, secret, runs, linked, vertical, ended>> /\ Track

RenameProfile(r) ==
  /\ At(r, "renameProfile", "begin")
  /\ \E name \in Names : profile' =
       IF profile[call[r].on] = Nothing THEN profile
         ELSE [profile EXCEPT ![call[r].on] = name]
  /\ Goto(r, "returned")
  /\ UNCHANGED <<status, instance, secret, runs, linked, vertical, ended>> /\ Track

(* Nobody asks whether instances use it.                                   *)
DeleteProfile(r) ==
  /\ At(r, "deleteProfile", "begin")
  /\ profile' = [profile EXCEPT ![call[r].on] = Nothing]
  /\ Goto(r, "returned")
  /\ UNCHANGED <<status, instance, secret, runs, linked, vertical, ended>> /\ Track

CheckVertex(r) ==
  /\ At(r, "createInstance", "begin") /\ profile[call[r].on] # Nothing
  /\ Goto(r, "insert")
  /\ UNCHANGED <<rows, ended>> /\ Track

InsertInstance(r) ==
  /\ At(r, "createInstance", "insert")
  /\ instance' = [instance EXCEPT ![r] =
       [status |-> "active", vertexId |-> call[r].on, by |-> Nothing]]
  /\ Goto(r, "returned")
  /\ UNCHANGED <<status, profile, secret, runs, linked, vertical, ended>> /\ Track

(* Any status and any vertexId; Nothing stands for one of no profile.      *)
UpdateInstance(r) ==
  LET i == call[r].on IN
  /\ At(r, "updateInstance", "begin")
  /\ \E s \in {"active", "paused"}, p \in {instance[i].vertexId, Nothing}
          \cup {q \in ProfileIds : profile[q] # Nothing} :
       instance' = IF ~Here(i) THEN instance
         ELSE [instance EXCEPT ![i].status = s, ![i].vertexId = p]
  /\ Goto(r, "returned")
  /\ UNCHANGED <<status, profile, secret, runs, linked, vertical, ended>> /\ Track

(* Mutant of Deletes: the instance goes first.                             *)
DeletesRowFirst == <<"instance", "secrets">>

(* delete: two statements.                                                 *)
Deletes == <<"secrets", "instance">>

DeleteInstance(r) ==
  LET i == call[r].on
      n == IF call[r].step = "begin" THEN 1 ELSE 2
  IN
  /\ call[r].op = "deleteInstance" /\ Live(r)
  /\ \/ /\ Deletes[n] = "secrets"
        /\ secret' = [secret EXCEPT ![i] = NoSecret] /\ UNCHANGED instance
     \/ /\ Deletes[n] = "instance"
        /\ instance' = IF ~Here(i) THEN instance ELSE
             [instance EXCEPT ![i] = [status |-> "deleted", vertexId |-> Nothing, by |-> r]]
        /\ UNCHANGED secret
  /\ Goto(r, IF n = 1 THEN "second" ELSE "returned")
  /\ UNCHANGED <<status, profile, runs, linked, vertical, ended>> /\ Track

FindSecret(r) ==
  /\ At(r, "setSecret", "begin")
  /\ call' = [call EXCEPT ![r].step = "set", ![r].read = secret[call[r].on].id]
  /\ UNCHANGED <<rows, ended>> /\ Track

(* An update by id, or an insert that the unique index refuses if there is *)
(* one by now.                                                             *)
SetSecret(r) ==
  LET i == call[r].on IN
  /\ At(r, "setSecret", "set")
  /\ call[r].read = Nothing => secret[i].id = Nothing
  /\ secret' = IF call[r].read = Nothing THEN [secret EXCEPT ![i] = [id |-> r, by |-> r]]
               ELSE IF secret[i].id = call[r].read THEN [secret EXCEPT ![i].by = r]
               ELSE secret
  /\ Goto(r, "returned")
  /\ UNCHANGED <<status, profile, instance, runs, linked, vertical, ended>> /\ Track

DeleteSecret(r) ==
  /\ At(r, "deleteSecret", "begin")
  /\ secret' = [secret EXCEPT ![call[r].on] = NoSecret]
  /\ Goto(r, "returned")
  /\ UNCHANGED <<status, profile, instance, runs, linked, vertical, ended>> /\ Track

-----------------------------------------------------------------------------
(* The health monitor.                                                     *)

(* The agent's contracts against the registry: as claimed there, one       *)
(* unknown, missing or different, or the registry cannot be read.          *)
Handshakes == {"ok", "mismatch", "error"}

(* Offline and mismatch are one here: both block.                          *)
Verdict(handshake, report) ==
  CASE handshake = "mismatch" \/ report = "error" -> "blocked"
    [] {handshake, report} \cap {"mismatch", "error"} = {} /\ report = "ok" -> "healthy"
    [] OTHER -> "warning"

(* A poll that gets no answer, or one it cannot read, is of the vertex     *)
(* "unknown"; any other is of the vertex the agent names.                  *)
Polls == ({"unknown"} \X {"blocked", "warning"}) \cup
  (Names \X {Verdict(h, report) : h \in Handshakes, report \in {"ok", "degraded", "error"}})

(* The id of a row of the vertex, any one (the select has no order), or    *)
(* none.                                                                   *)
Pick(rs) == IF rs = {} THEN {<<>>} ELSE {<<s.id>> : s \in rs}

PollHealth(r) ==
  /\ At(r, "check", "begin")
  /\ \E answer \in Polls : \E found \in Pick(RowsOf(answer[1])) :
       call' = [call EXCEPT ![r].step = "persist", ![r].answer = answer, ![r].read = found]
  /\ UNCHANGED <<rows, ended>> /\ Track

PersistStatus(r) ==
  LET new(id) == [id |-> id, vertex |-> call[r].answer[1], status |-> call[r].answer[2]] IN
  /\ At(r, "check", "persist")
  /\ status' = IF call[r].read = <<>> THEN status \cup {new(r)}
               ELSE {IF s.id = call[r].read[1] THEN new(s.id) ELSE s : s \in status}
  /\ Goto(r, "returned")
  /\ UNCHANGED <<profile, instance, secret, runs, linked, vertical, ended>> /\ Track

-----------------------------------------------------------------------------
(* Starting runs.                                                          *)
FindInstance(r) ==
  /\ call[r].op \in {"launch", "takeoff"} /\ call[r].step = "begin"
  /\ instance[call[r].on].status = "active"
  /\ Goto(r, "insert")
  /\ UNCHANGED <<rows, ended>> /\ Track

InsertRun(r) ==
  /\ call[r].op \in Dispatches /\ call[r].step = "insert"
  /\ runs' = runs \cup {r}
  /\ Goto(r, IF call[r].op = "takeoff" THEN "link" ELSE "returned")
  /\ UNCHANGED <<status, profile, instance, secret, linked, vertical, ended>> /\ Track

LinkArtifact(r) ==
  /\ At(r, "takeoff", "link")
  /\ linked' = r /\ Goto(r, "returned")
  /\ UNCHANGED <<status, profile, instance, secret, runs, vertical, ended>> /\ Track

(* enforceMobileFreezeGate: the instance, its profile's name, the status   *)
(* row of that name or, if there is none, any healthy one. Whether the     *)
(* instance is active is not asked, and without a name nothing is.         *)
GateInstance(r) ==
  /\ At(r, "chat", "begin")
  /\ call' = [call EXCEPT ![r].read = instance[call[r].on].vertexId,
       ![r].step = IF instance[call[r].on].vertexId = Nothing THEN "insert" ELSE "profile"]
  /\ UNCHANGED <<rows, ended>> /\ Track

GateProfile(r) ==
  /\ At(r, "chat", "profile")
  /\ call' = [call EXCEPT ![r].read = profile[call[r].read],
       ![r].step = IF profile[call[r].read] = Nothing THEN "insert" ELSE "gate"]
  /\ UNCHANGED <<rows, ended>> /\ Track

Fallback(s) == s.status = "healthy"

(* Mutant of IsFrozen: the registry is asked about another name.           *)
IsOther(name) == FALSE

IsFrozen(name) == name = Frozen

(* What getExecutionGate allows, and the freeze.                           *)
MayRun(name, s) == Passes(s) /\ ~IsFrozen(name)

GateStatus(r) ==
  /\ At(r, "chat", "gate")
  /\ \/ RowsOf(call[r].read) = {} /\ Goto(r, "fallback")
     \/ (\E row \in RowsOf(call[r].read) : MayRun(call[r].read, row)) /\ Goto(r, "insert")
  /\ UNCHANGED <<rows, ended>> /\ Track

GateFallback(r) ==
  /\ At(r, "chat", "fallback") /\ ~IsFrozen(call[r].read)
  /\ \E row \in status : Fallback(row)
  /\ Goto(r, "insert")
  /\ UNCHANGED <<rows, ended>> /\ Track

-----------------------------------------------------------------------------
(* The active vertical pack.                                               *)

(* Mutant of Primaries: only the chosen pack is looked for.                *)
PrimariesChosen(r) == {k \in {call[r].on} : vertical[k].primary}

Primaries(r) == {k \in Packs : vertical[k].primary}

FindPrimaries(r) ==
  /\ At(r, "activate", "begin")
  /\ call' = [call EXCEPT ![r].todo = Primaries(r),
                          ![r].step = IF Primaries(r) = {} THEN "find" ELSE "clear"]
  /\ UNCHANGED <<rows, ended>> /\ Track

ClearPrimary(r) ==
  LET k == CHOOSE x \in call[r].todo : TRUE IN
  /\ At(r, "activate", "clear")
  /\ vertical' = [vertical EXCEPT ![k].primary = FALSE]
  /\ call' = [call EXCEPT ![r].todo = @ \ {k},
                          ![r].step = IF call[r].todo = {k} THEN "find" ELSE "clear"]
  /\ UNCHANGED <<status, profile, instance, secret, runs, linked, ended>> /\ Track

FindSelection(r) ==
  /\ At(r, "activate", "find")
  /\ Goto(r, IF vertical[call[r].on].exists THEN "update" ELSE "choose")
  /\ UNCHANGED <<rows, ended>> /\ Track

(* The insert fails if there is a row of the pack by now.                  *)
SetPrimary(r) ==
  /\ call[r].op = "activate" /\ call[r].step \in {"update", "choose"}
  /\ call[r].step = "choose" => ~vertical[call[r].on].exists
  /\ vertical' = [vertical EXCEPT ![call[r].on] = [exists |-> TRUE, primary |-> TRUE, by |-> r]]
  /\ Goto(r, "returned")
  /\ UNCHANGED <<status, profile, instance, secret, runs, linked, ended>> /\ Track

-----------------------------------------------------------------------------
Step(r) ==
  \/ Begin(r) \/ Throws(r)
  \/ CreateProfile(r) \/ RenameProfile(r) \/ DeleteProfile(r)
  \/ CheckVertex(r) \/ InsertInstance(r) \/ UpdateInstance(r) \/ DeleteInstance(r)
  \/ FindSecret(r) \/ SetSecret(r) \/ DeleteSecret(r)
  \/ PollHealth(r) \/ PersistStatus(r)
  \/ FindInstance(r) \/ InsertRun(r) \/ LinkArtifact(r)
  \/ GateInstance(r) \/ GateProfile(r) \/ GateStatus(r) \/ GateFallback(r)
  \/ FindPrimaries(r) \/ ClearPrimary(r) \/ FindSelection(r) \/ SetPrimary(r)

Next == \E r \in Requests : Step(r)
Spec == Init /\ [][Next]_vars

-----------------------------------------------------------------------------
Overlap(q, r) == q # r /\ q \notin ended[r] /\ r \notin ended[q] /\ call[q].step # "none"

(* The gates of phones and administrators are up to four reads and an      *)
(* insert. A run started for which the gate as a whole was open at no      *)
(* moment of the request takes two other requests at the same time: one    *)
(* change of an instance, a profile or the runtime's health cannot slip a  *)
(* run through.                                                            *)
RunsPassOpenGate ==
  \A r \in runs : \/ r \in opened
                  \/ \E p, q \in Requests : p # q /\ Overlap(p, r) /\ Overlap(q, r)

(* One status row per vertex and one primary pack of the user, unless the  *)
(* two that wrote them overlapped; and once activations are all over and   *)
(* none threw, there is a primary.                                         *)
OneOfAKindUnlessOverlapping ==
  /\ \A s, t \in status : s # t /\ s.vertex = t.vertex => Overlap(s.id, t.id)
  /\ \A j, k \in Packs : j # k /\ vertical[j].primary /\ vertical[k].primary =>
       Overlap(vertical[j].by, vertical[k].by)
  /\ LET activations == {r \in Requests : call[r].op = "activate" /\ call[r].step # "none"} IN
     activations # {} /\ (\A r \in activations : call[r].step = "returned") =>
       \E k \in Packs : vertical[k].primary

(* The secrets of a deleted instance are gone with it, whatever failed,    *)
(* but for those of a request that was not over when the delete began.     *)
SecretsDieWithInstance ==
  \A i \in InstanceIds : instance[i].status = "deleted" /\ secret[i].id # Nothing =>
    secret[i].by \notin ended[instance[i].by]
=============================================================================
