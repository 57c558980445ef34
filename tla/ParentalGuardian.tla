---------------------------- MODULE ParentalGuardian ----------------------------
(***************************************************************************)
(* Families in the Parental Guardian app: pairing, rules (policies and     *)
(* schedules), a ward's access requests and what its guardian decides,     *)
(* remote control, heartbeats (server/routers/mobile/parentalGuardian.ts). *)
(*                                                                         *)
(* Every procedure reads the session, most then the caller's membership,   *)
(* and every statement is an action. A member row is never deleted. The    *)
(* contents of rules are left out, and so are the pairing code, which no   *)
(* statement stores or compares, and expiresAt, which none here reads.     *)
(***************************************************************************)
EXTENDS Integers, FiniteSets

CONSTANTS
  Requests,   \* requests, each issued once; what it inserts bears its name
  Users,
  Past,       \* families of earlier days
  Devices,
  Nothing     \* null

GuardianAssumption ==
  /\ Requests \cap Past = {} /\ Nothing \notin Requests \cup Past \cup Users

Families == Past \cup Requests
RuleOf(f) == <<"rule", f>>       \* a rule, and an access request, of an
AskOf(f)  == <<"ask", f>>        \* earlier day
Rows     == {RuleOf(f) : f \in Past} \cup {AskOf(f) : f \in Past} \cup Requests
Roles    == {"guardian", "ward"}
Over     == {"returned", "refused", "threw"}

(* The procedures for guardians alone, and for every member.               *)
Managing == {"insertRule", "updateRule", "deleteRule", "resolve", "control"}
Members  == Managing \cup {"ask", "list", "show"}
Ops      == Members \cup {"createPairing", "redeem", "ping", "logActivity"}

VARIABLES
  session,  \* mobile_sessions.status, one session for each user
  family,   \* pg_families
  member,   \* pg_family_members: who is what in which family
  row,      \* pg_policies and pg_schedules, pg_approval_requests, pg_activity_log
  beat,     \* pg_device_heartbeats: the family of each device
  call,     \* where each request is, and what it has read
  ended     \* history: for each request those over before it began

vars == <<session, family, member, row, beat, call, ended>>

NoRow  == [table |-> "none", family |-> Nothing, status |-> "none", by |-> Nothing]
NoCall == [op |-> "none", user |-> Nothing, family |-> Nothing, on |-> Nothing,
           device |-> Nothing, step |-> "none", page |-> 0, total |-> 0]

(* A family whose making was cut short has no member.                      *)
Init ==
  /\ session = [u \in Users |-> "active"] /\ family = Past
  /\ \E guardian \in [Past -> Users \cup {Nothing}] :
       /\ member = {[family |-> f, user |-> guardian[f], role |-> "guardian"] :
                      f \in {f \in Past : guardian[f] # Nothing}}
       /\ row = [x \in Rows |-> IF x \in Requests \/ guardian[x[2]] = Nothing THEN NoRow
            ELSE [table |-> x[1], family |-> x[2], by |-> Nothing,
                  status |-> IF x[1] = "ask" THEN "pending" ELSE "active"]]
  /\ beat \in [Devices -> Past \cup {Nothing}]
  /\ call = [r \in Requests |-> NoCall] /\ ended = [r \in Requests |-> {}]

-----------------------------------------------------------------------------
At(r, op, step) == call[r].op = op /\ call[r].step = step
Goto(r, step) == call' = [call EXCEPT ![r].step = step]

Targets(op) ==
  CASE op \in {"updateRule", "deleteRule"} -> {x \in Rows : row[x].table = "rule"}
    [] op = "resolve"                      -> {x \in Rows : row[x].table = "ask"}
    [] OTHER                               -> {Nothing}

Begin(r) ==
  /\ call[r].step = "none"
  /\ \E op \in Ops, u \in Users, f \in family, d \in Devices : \E on \in Targets(op) :
       call' = [call EXCEPT ![r] = [NoCall EXCEPT
         !.op = op, !.user = u, !.on = on, !.step = "validate",
         !.family = IF op \in {"createPairing", "redeem"} THEN Nothing ELSE f,
         !.device = IF op = "ping" THEN d ELSE Nothing]]
  /\ ended' = [ended EXCEPT ![r] = {q \in Requests : call[q].step \in Over}]
  /\ UNCHANGED <<session, family, member, row, beat>>

Throws(r) ==
  /\ call[r].step \notin Over \cup {"none"}
  /\ Goto(r, "threw")
  /\ UNCHANGED <<session, family, member, row, beat, ended>>

Revoke(u) ==
  /\ session[u] = "active"
  /\ session' = [session EXCEPT ![u] = "revoked"]
  /\ UNCHANGED <<family, member, row, beat, call, ended>>

(* validateMobileToken.                                                    *)
Validate(r) ==
  /\ call[r].step = "validate"
  /\ Goto(r, IF session[call[r].user] # "active" THEN "refused"
             ELSE IF call[r].op \in Members THEN "role" ELSE "work")
  /\ UNCHANGED <<session, family, member, row, beat, ended>>

(* requireFamilyMember: some row of the caller in the family; most         *)
(* procedures then ask for a guardian.                                     *)
MayManage(op, role) == op \in Managing => role = "guardian"

RequireMember(r) ==
  /\ call[r].step = "role"
  /\ LET own == {m \in member : m.user = call[r].user /\ m.family = call[r].family} IN
     \/ own = {} /\ Goto(r, "refused")
     \/ \E m \in own : Goto(r, IF MayManage(call[r].op, m.role) THEN "work" ELSE "refused")
  /\ UNCHANGED <<session, family, member, row, beat, ended>>

-----------------------------------------------------------------------------
(* Pairing.                                                                *)
(* Mutant of GuardianRows: the wrong role is looked for.                   *)
WardRows(u) == {m \in member : m.user = u /\ m.role = "ward"}

GuardianRows(u) == {m \in member : m.user = u /\ m.role = "guardian"}

(* A guardian keeps the family it has.                                     *)
FindFamily(r) ==
  /\ At(r, "createPairing", "work")
  /\ IF GuardianRows(call[r].user) # {} THEN Goto(r, "returned") ELSE Goto(r, "family")
  /\ UNCHANGED <<session, family, member, row, beat, ended>>

InsertFamily(r) ==
  /\ At(r, "createPairing", "family")
  /\ family' = family \cup {r}
  /\ Goto(r, "member")
  /\ UNCHANGED <<session, member, row, beat, ended>>

InsertGuardian(r) ==
  /\ At(r, "createPairing", "member")
  /\ member' = member \cup {[family |-> r, user |-> call[r].user, role |-> "guardian"]}
  /\ Goto(r, "returned")
  /\ UNCHANGED <<session, family, row, beat, ended>>

(* Any guardian's family will do: the code is not looked up.               *)
FindGuardian(r) ==
  /\ At(r, "redeem", "work")
  /\ LET guardians == {m \in member : m.role = "guardian"} IN
     \/ guardians = {} /\ Goto(r, "refused")
     \/ \E m \in guardians :
          call' = [call EXCEPT ![r].family = m.family, ![r].step = "join"]
  /\ UNCHANGED <<session, family, member, row, beat, ended>>

(* Mutant of Joined: no unique index.                                      *)
JoinedTwice(f, u) == FALSE

(* The unique index pgfm_family_user_idx: one role for a user in a family. *)
Joined(f, u) == \E m \in member : m.family = f /\ m.user = u

Join(r) ==
  /\ At(r, "redeem", "join")
  /\ IF Joined(call[r].family, call[r].user)
       THEN Goto(r, "threw") /\ UNCHANGED member
       ELSE /\ member' = member \cup
                 {[family |-> call[r].family, user |-> call[r].user, role |-> "ward"]}
            /\ Goto(r, "returned")
  /\ UNCHANGED <<session, family, row, beat, ended>>

-----------------------------------------------------------------------------
(* The rows of a family.                                                   *)
InsertedAs(op) ==
  CASE op = "insertRule"  -> [table |-> "rule",     status |-> {"active", "inactive"}]
    [] op = "ask"         -> [table |-> "ask",      status |-> {"pending"}]
    [] op = "control"     -> [table |-> "control",  status |-> {"logged"}]
    [] op = "logActivity" -> [table |-> "activity", status |-> {"logged"}]

Insert(r) ==
  /\ call[r].op \in {"insertRule", "ask", "control", "logActivity"} /\ call[r].step = "work"
  /\ \E status \in InsertedAs(call[r].op).status : row' = [row EXCEPT ![r] =
       [table |-> InsertedAs(call[r].op).table, family |-> call[r].family,
        status |-> status, by |-> r]]
  /\ Goto(r, "returned")
  /\ UNCHANGED <<session, family, member, beat, ended>>

(* An id of another family matches no row, and the caller is told that the *)
(* write was done all the same.                                            *)
Matches(r) == {call[r].on} \cap {x \in Rows : row[x].family = call[r].family}

(* A decision stands whatever the request's status is: the last one wins.  *)
StatusesOf(op) == IF op = "resolve" THEN {"approved", "denied"} ELSE {"active", "inactive"}

Update(r) ==
  /\ call[r].op \in {"updateRule", "resolve"} /\ call[r].step = "work"
  /\ \E status \in StatusesOf(call[r].op) : row' = [x \in Rows |->
       IF x \in Matches(r) THEN [row[x] EXCEPT !.status = status, !.by = r] ELSE row[x]]
  /\ Goto(r, "returned")
  /\ UNCHANGED <<session, family, member, beat, ended>>

Delete(r) ==
  /\ At(r, "deleteRule", "work")
  /\ row' = [x \in Rows |-> IF x \in Matches(r) THEN NoRow ELSE row[x]]
  /\ Goto(r, "returned")
  /\ UNCHANGED <<session, family, member, beat, ended>>

(* A page of the pending requests, then their number. A page holds 50.     *)
Pending(f) == {x \in Rows : row[x].table = "ask" /\ row[x].family = f /\ row[x].status = "pending"}

ReadPage(r) ==
  /\ At(r, "list", "work")
  /\ call' = [call EXCEPT ![r].page = Cardinality(Pending(call[r].family)), ![r].step = "count"]
  /\ UNCHANGED <<session, family, member, row, beat, ended>>

CountAll(r) ==
  /\ At(r, "list", "count")
  /\ call' = [call EXCEPT ![r].total = Cardinality(Pending(call[r].family)), ![r].step = "returned"]
  /\ UNCHANGED <<session, family, member, row, beat, ended>>

-----------------------------------------------------------------------------
(* The upsert writes the family on insert only.                            *)
Ping(r) ==
  /\ At(r, "ping", "work")
  /\ beat' = [beat EXCEPT ![call[r].device] = IF @ = Nothing THEN call[r].family ELSE @]
  /\ Goto(r, "returned")
  /\ UNCHANGED <<session, family, member, row, ended>>

Listed(f) == {d \in Devices : beat[d] = f}

(* heartbeatStatus, getActivePolicies, listSchedules.                      *)
Show(r) ==
  /\ At(r, "show", "work")
  /\ Goto(r, "returned")
  /\ UNCHANGED <<session, family, member, row, beat, ended>>

-----------------------------------------------------------------------------
Step(r) ==
  \/ Begin(r) \/ Throws(r) \/ Validate(r) \/ RequireMember(r)
  \/ FindFamily(r) \/ InsertFamily(r) \/ InsertGuardian(r) \/ FindGuardian(r) \/ Join(r)
  \/ Insert(r) \/ Update(r) \/ Delete(r) \/ ReadPage(r) \/ CountAll(r)
  \/ Ping(r) \/ Show(r)

Next == (\E r \in Requests : Step(r)) \/ (\E u \in Users : Revoke(u))
Spec == Init /\ [][Next]_vars

-----------------------------------------------------------------------------
Overlap(q, r) == q # r /\ q \notin ended[r] /\ r \notin ended[q] /\ call[q].step # "none"

(* A user guards one family: createPairingSession looks before it inserts  *)
(* two rows in two statements, so only two calls at the same time give a   *)
(* user two families, and a call that was cut short none.                  *)
OneFamilyUnlessOverlapping ==
  \A m, n \in member : m.role = "guardian" /\ n.role = "guardian" /\ m.user = n.user =>
    \/ m.family = n.family
    \/ {m.family, n.family} \subseteq Past
    \/ m.family \in Requests /\ n.family \in Requests /\ Overlap(m.family, n.family)

(* A guardian is never refused for lack of a role, although the check      *)
(* takes any row of the user in the family and a guardian may redeem its   *)
(* own code.                                                               *)
GuardianIsServed ==
  \A r \in Requests : /\ call[r].step = "refused" /\ call[r].op \in Members
                      /\ session[call[r].user] = "active"
                      /\ call[r].family \in Past \cup ended[r]
    => [family |-> call[r].family, user |-> call[r].user, role |-> "guardian"] \notin member
=============================================================================
