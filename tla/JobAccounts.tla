------------------------------ MODULE JobAccounts ------------------------------
(***************************************************************************)
(* Accounts and jobs of the mobile app: the seeding of accounts while a    *)
(* server starts, /auth/login with the job it provides, the change of a    *)
(* password, /auth/create-job (server/_core/index.ts), the list of jobs    *)
(* (routers/admin/projects.ts), and an operator's change of a job's status *)
(* (routers/admin/operatorOS.ts).                                          *)
(*                                                                         *)
(* Every statement is an action. A token is good for as long as a request  *)
(* may want it; hashes, names and descriptions are left out, and so is the *)
(* page of a list. A suspended job is, to all of these, an archived one.   *)
(***************************************************************************)
EXTENDS Integers, FiniteSets, Sequences

CONSTANTS
  Requests,      \* requests, each issued once; what it inserts bears its name
  Servers,       \* processes of one database
  Users,         \* e-mail addresses
  Seeds,         \* the sequence of the accounts a server seeds
  SeedPassword, Passwords,
  AdminEmails,   \* ADMIN_EMAILS; empty, it makes everybody an administrator
  Stamps,        \* the last six digits of the clock
  Nothing        \* null

AccountAssumption ==
  /\ Seeds \in Seq(Users) /\ Len(Seeds) > 0 /\ SeedPassword \in Passwords
  /\ AdminEmails \subseteq Users /\ Nothing \notin Passwords \cup {"user", "admin"}

Seeded == {Seeds[i] : i \in DOMAIN Seeds}
Over   == {"returned", "refused", "duplicate", "threw"}
Ops    == {"login", "changePassword", "createJob", "list"}

VARIABLES
  user,          \* users.role, Nothing where there is no row
  credential,    \* mobile_user_credentials: the password, or Nothing
  project,       \* projects, by the request that inserted it
  collaborator,  \* project_collaborators
  profile,       \* the rows of vertex_profiles named ibew-134-default
  agent,         \* the projects with an agent instance
  server,        \* how far each server's start has come
  token,         \* users a token was issued to
  call,          \* where each request is, and what it has read
  ended,         \* history: for each request those over before it began
  moved          \* history: requests begun before the last change of a status

tables == <<user, credential, project, collaborator, profile, agent>>
vars == <<tables, server, token, call, ended, moved>>

NoProject == [owner |-> Nothing, slug |-> Nothing, status |-> "none"]
NoCall == [op |-> "none", user |-> Nothing, server |-> Nothing, given |-> Nothing,
           new |-> Nothing, role |-> Nothing, seen |-> {}, step |-> "none"]
Down == [step |-> "down", seed |-> 0]

Init ==
  /\ user \in [Users -> {Nothing, "user", "admin"}]
  /\ credential = [u \in Users |-> Nothing]
  /\ project = [r \in Requests |-> NoProject] /\ collaborator = {}
  /\ profile = {} /\ agent = {} /\ server = [s \in Servers |-> Down]
  /\ token = {} /\ call = [r \in Requests |-> NoCall]
  /\ ended = [r \in Requests |-> {}] /\ moved = {}

-----------------------------------------------------------------------------
(* The start of a server: ensureMobileAuthBootstrap, then listen. Whatever *)
(* throws ends the process. The promise is kept, so later calls are no-ops.*)
Boot(s, step) == server' = [server EXCEPT ![s].step = step]
At(s, step) == server[s].step = step
Seed(s) == Seeds[server[s].seed]

Start(s) ==
  /\ At(s, "down")
  /\ server' = [server EXCEPT ![s] = [step |-> "user", seed |-> 1]]
  /\ UNCHANGED <<tables, token, call, ended, moved>>

FindSeedUser(s) ==
  /\ At(s, "user")
  /\ Boot(s, IF user[Seed(s)] = Nothing THEN "insertUser" ELSE "credential")
  /\ UNCHANGED <<tables, token, call, ended, moved>>

(* users.openId is unique, and made from the address.                      *)
InsertSeedUser(s) ==
  /\ At(s, "insertUser")
  /\ IF user[Seed(s)] # Nothing
     THEN server' = [server EXCEPT ![s] = Down] /\ UNCHANGED user
     ELSE Boot(s, "credential") /\ user' = [user EXCEPT ![Seed(s)] = "admin"]
  /\ UNCHANGED <<credential, project, collaborator, profile, agent, token, call, ended, moved>>

(* Mutant of Lacks: the credential is taken to follow the user.            *)
LacksNothing(u) == FALSE

Lacks(u) == credential[u] = Nothing

NextSeed(s) ==
  server' = [server EXCEPT ![s] = IF @.seed = Len(Seeds) THEN [step |-> "up", seed |-> 0]
                                  ELSE [step |-> "user", seed |-> @.seed + 1]]

FindCredential(s) ==
  /\ At(s, "credential")
  /\ IF Lacks(Seed(s)) THEN Boot(s, "insertCredential") ELSE NextSeed(s)
  /\ UNCHANGED <<tables, token, call, ended, moved>>

(* muc_user_unique_idx.                                                    *)
InsertCredential(s) ==
  /\ At(s, "insertCredential")
  /\ IF Lacks(Seed(s))
     THEN NextSeed(s) /\ credential' = [credential EXCEPT ![Seed(s)] = SeedPassword]
     ELSE server' = [server EXCEPT ![s] = Down] /\ UNCHANGED credential
  /\ UNCHANGED <<user, project, collaborator, profile, agent, token, call, ended, moved>>

(* A process ends in the middle of anything.                               *)
Crash(s) ==
  /\ ~ At(s, "down")
  /\ server' = [server EXCEPT ![s] = Down]
  /\ call' = [r \in Requests |-> IF call[r].server = s /\ call[r].step \notin Over
                                 THEN [call[r] EXCEPT !.step = "threw"] ELSE call[r]]
  /\ UNCHANGED <<tables, token, ended, moved>>

-----------------------------------------------------------------------------
Is(r, op, step) == call[r].op = op /\ call[r].step = step
Goto(r, step) == call' = [call EXCEPT ![r].step = step]

FirstStep == [login |-> "user", changePassword |-> "credential",
              createJob |-> "project", list |-> "owned"]

(* All but a login come with a token.                                      *)
Begin(r) ==
  /\ call[r].step = "none"
  /\ \E op \in Ops, s \in Servers, u \in Users, given, new \in Passwords :
       /\ At(s, "up") /\ (op # "login" => u \in token)
       /\ op \in {"createJob", "list"} => given = SeedPassword
       /\ op # "changePassword" => new = SeedPassword
       /\ call' = [call EXCEPT ![r] = [NoCall EXCEPT
            !.op = op, !.user = u, !.server = s, !.given = given, !.new = new,
            !.step = FirstStep[op]]]
  /\ ended' = [ended EXCEPT ![r] = {q \in Requests : call[q].step \in Over}]
  /\ UNCHANGED <<tables, server, token, moved>>

(* A statement fails; the handler answers with an error.                   *)
Throws(r) ==
  /\ call[r].step \notin Over \cup {"none"}
  /\ Goto(r, "threw")
  /\ UNCHANGED <<tables, server, token, ended, moved>>

FindUser(r) ==
  /\ Is(r, "login", "user")
  /\ IF user[call[r].user] = Nothing THEN Goto(r, "refused")
     ELSE call' = [call EXCEPT ![r].role = user[call[r].user], ![r].step = "credential"]
  /\ UNCHANGED <<tables, server, token, ended, moved>>

Verify(r) ==
  /\ call[r].step = "credential"
  /\ Goto(r, IF credential[call[r].user] # call[r].given THEN "refused"
             ELSE IF call[r].op = "login" THEN "role" ELSE "write")
  /\ UNCHANGED <<tables, server, token, ended, moved>>

WritePassword(r) ==
  /\ Is(r, "changePassword", "write")
  /\ credential' = [credential EXCEPT ![call[r].user] = call[r].new]
  /\ Goto(r, "returned")
  /\ UNCHANGED <<user, project, collaborator, profile, agent, server, token, ended, moved>>

(* The seeded addresses are administrators whatever ADMIN_EMAILS says.     *)
UserRole(u, role) ==
  IF AdminEmails = {} \/ u \in AdminEmails \cup Seeded THEN "admin" ELSE role

SetRole(r) ==
  LET role == UserRole(call[r].user, call[r].role) IN
  /\ Is(r, "login", "role")
  /\ user' = IF role = call[r].role THEN user ELSE [user EXCEPT ![call[r].user] = role]
  /\ Goto(r, "owned")
  /\ UNCHANGED <<credential, project, collaborator, profile, agent, server, token, ended, moved>>

-----------------------------------------------------------------------------
(* Jobs. A login asks for active ones, a list for all.                     *)
(* Mutant of Counts: a login is content with any job.                      *)
CountsAny(op, p) == project[p].status # "none"

Counts(op, p) == project[p].status \in IF op = "login" THEN {"active"} ELSE {"active", "archived"}

Owned(op, u) == {p \in Requests : project[p].owner = u /\ Counts(op, p)}
Shared(op, u) == {p \in Requests : [project |-> p, user |-> u] \in collaborator /\ Counts(op, p)}

FindOwned(r) ==
  /\ call[r].step = "owned"
  /\ call' = [call EXCEPT ![r].seen = Owned(call[r].op, call[r].user), ![r].step = "shared"]
  /\ UNCHANGED <<tables, server, token, ended, moved>>

(* The end of a list, and of a login that has found a job.                 *)
FindShared(r) ==
  LET c == call[r]
      seen == c.seen \cup Shared(c.op, c.user) IN
  /\ c.step = "shared"
  /\ IF c.op = "login" /\ seen = {} THEN Goto(r, "project") /\ UNCHANGED token
     ELSE /\ call' = [call EXCEPT ![r].seen = seen, ![r].step = "returned"]
          /\ token' = IF c.op = "login" THEN token \cup {c.user} ELSE token
  /\ UNCHANGED <<tables, server, ended, moved>>

(* projects_slug_idx is unique. A login's job has one slug for each user,  *)
(* another job's ends in a stamp, which comes round every 1000 seconds.    *)
InsertProject(r) ==
  LET u == call[r].user IN
  /\ call[r].op \in {"login", "createJob"} /\ call[r].step = "project"
  /\ \E slug \in IF call[r].op = "login" THEN {<<u>>} ELSE {<<u, t>> : t \in Stamps} :
       IF \E p \in Requests : project[p].slug = slug THEN Goto(r, "duplicate") /\ UNCHANGED project
       ELSE /\ project' = [project EXCEPT ![r] = [owner |-> u, slug |-> slug, status |-> "active"]]
            /\ Goto(r, "collaborator")
  /\ UNCHANGED <<user, credential, collaborator, profile, agent, server, token, ended, moved>>

InsertCollaborator(r) ==
  /\ call[r].step = "collaborator"
  /\ collaborator' = collaborator \cup {[project |-> r, user |-> call[r].user]}
  /\ Goto(r, "profile")
  /\ UNCHANGED <<user, credential, project, profile, agent, server, token, ended, moved>>

HasProfile == profile # {}

FindProfile(r) ==
  /\ call[r].step = "profile"
  /\ Goto(r, IF HasProfile THEN "agent" ELSE "insertProfile")
  /\ UNCHANGED <<tables, server, token, ended, moved>>

(* The name of a profile is not unique.                                    *)
InsertProfile(r) ==
  /\ call[r].step = "insertProfile"
  /\ profile' = profile \cup {r}
  /\ Goto(r, "agent")
  /\ UNCHANGED <<user, credential, project, collaborator, agent, server, token, ended, moved>>

Equip(r) == agent \cup {r}

InsertAgent(r) ==
  /\ call[r].step = "agent"
  /\ agent' = Equip(r)
  /\ Goto(r, "returned")
  /\ token' = IF call[r].op = "login" THEN token \cup {call[r].user} ELSE token
  /\ UNCHANGED <<user, credential, project, collaborator, profile, server, ended, moved>>

(* operatorOS.updateProjectStatus.                                         *)
SetStatus(p) ==
  /\ project[p].status # "none"
  /\ \E status \in {"active", "archived"} \ {project[p].status} :
       project' = [project EXCEPT ![p].status = status]
  /\ moved' = {r \in Requests : call[r].step # "none"}
  /\ UNCHANGED <<user, credential, collaborator, profile, agent, server, token, call, ended>>

Next ==
  \/ \E s \in Servers : Start(s) \/ FindSeedUser(s) \/ InsertSeedUser(s) \/ FindCredential(s)
                        \/ InsertCredential(s) \/ Crash(s)
  \/ \E r \in Requests :
       \/ Begin(r) \/ Throws(r) \/ FindUser(r) \/ Verify(r) \/ WritePassword(r) \/ SetRole(r)
       \/ FindOwned(r) \/ FindShared(r) \/ InsertProject(r) \/ InsertCollaborator(r)
       \/ FindProfile(r) \/ InsertProfile(r) \/ InsertAgent(r) \/ SetStatus(r)

Spec == Init /\ [][Next]_vars

-----------------------------------------------------------------------------
Overlapping(q, r) == q \notin ended[r] /\ r \notin ended[q]

(* "Guarantee at least one ACTIVE project visible in Jobs" (_core/index.ts:*)
(* 322): a login that finds no active job is refused the job it inserts    *)
(* only where another one, at the same time, inserts it.                   *)
LoginProvidesJob ==
  \A r \in Requests : Is(r, "login", "duplicate") =>
    \E q \in Requests \ {r} : call[q].step # "none" /\ Overlapping(q, r)

(* Whoever has signed in has an active job, unless an operator has changed *)
(* the status of a job meanwhile (the promise above the reads of login).   *)
SignedInHasJob ==
  \A r \in Requests \ moved :
    Is(r, "login", "returned") =>
      \E p \in Requests :
        /\ project[p].status = "active"
        /\ \/ project[p].owner = call[r].user
           \/ [project |-> p, user |-> call[r].user] \in collaborator

(* A server that listens has all its accounts, with a password, however    *)
(* often it or another was interrupted while it seeded them.               *)
StartedHasSeeds ==
  \A s \in Servers, u \in Seeded : At(s, "up") => user[u] # Nothing /\ credential[u] # Nothing
=============================================================================
