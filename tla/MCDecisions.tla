----------------------------- MODULE MCDecisions -----------------------------
(* The places where racing requests are decided by rows read before,       *)
(* without a transaction: PipelineApprovals, PromoReservation, JobAccounts *)
(* and ParentalGuardian. None reads what another writes, but for users     *)
(* that the last only names; each is explored while the others stay where  *)
(* they began.                                                             *)
(*                                                                         *)
(* Two administrators, a subject whose operation has tier 2 and one that   *)
(* needs dual approval, two records, an approval that lives one tick; a    *)
(* code with two seats and a code with one, two intakes competing for them *)
(* in two concurrent calls; two servers that seed two accounts, and two    *)
(* requests; two guests and a family of an earlier day.                    *)
EXTENDS PipelineApprovals, TLC

CONSTANTS
  Codes, Intakes, Calls, MaxRedemptions,   \* of PromoReservation
  Requests, Servers, Addresses, Seeds, SeedPassword, Passwords, AdminEmails,
  Stamps, Nothing,                         \* of JobAccounts
  Guests, Past, Devices,                   \* of ParentalGuardian
  dispatch, dual, alice, bob, founders, launch, u1, u2

VARIABLES
  part,  \* the component this behaviour is of
  row, redemptions, lapsed, pc, code, intake, current,
  user, credential, project, collaborator, profile, agent, server, token,
  call, ended, moved,
  session, family, member, record, beat, request, over

Promo == INSTANCE PromoReservation

Accounts == INSTANCE JobAccounts WITH Users <- Addresses

Family == INSTANCE ParentalGuardian WITH
  Users <- Guests, row <- record, call <- request, ended <- over

ASSUME DecisionsAssumption ==
  Promo!PromoAssumption /\ Accounts!AccountAssumption /\ Family!GuardianAssumption

MCSubjects == {dispatch, dual}
MCTier     == (dispatch :> 2) @@ (dual :> 3)
MCUsers    == {alice, bob}
MCCodes    == {founders, launch}
MCMaxRedemptions == (founders :> 2) @@ (launch :> 1)
MCSeeds    == <<u1, u2>>

(* The names of one set serve in several components.                       *)
Symmetry == Permutations(MCUsers) \cup Permutations(Resolvers)
              \cup Permutations(Gates)

seatVars   == <<row, redemptions, lapsed, pc, code, intake, current>>
jobVars    == <<user, credential, project, collaborator, profile, agent, server,
                token, call, ended, moved>>
familyVars == <<session, family, member, record, beat, request, over>>
allVars    == <<part, vars, seatVars, jobVars, familyVars>>

NoJobs ==
  /\ user = Nothing /\ credential = Nothing /\ project = Nothing
  /\ collaborator = Nothing /\ profile = Nothing /\ agent = Nothing
  /\ server = Nothing /\ token = Nothing /\ call = Nothing
  /\ ended = Nothing /\ moved = Nothing

NoFamilies ==
  /\ session = Nothing /\ family = Nothing /\ member = Nothing
  /\ record = Nothing /\ beat = Nothing /\ request = Nothing /\ over = Nothing

AllInit ==
  /\ Init /\ Promo!Init
  /\ \/ part = "approvals" /\ NoJobs /\ NoFamilies
     \/ part = "promo" /\ NoJobs /\ NoFamilies
     \/ part = "jobs" /\ Accounts!Init /\ NoFamilies
     \/ part = "family" /\ Family!Init /\ NoJobs
  /\ part # "promo" => row = [k \in Codes |-> "active"]

AllNext ==
  \/ part = "approvals" /\ Next /\ UNCHANGED <<part, seatVars, jobVars, familyVars>>
  \/ part = "promo" /\ Promo!Next /\ UNCHANGED <<part, vars, jobVars, familyVars>>
  \/ part = "jobs" /\ Accounts!Next /\ UNCHANGED <<part, vars, seatVars, familyVars>>
  \/ part = "family" /\ Family!Next /\ UNCHANGED <<part, vars, seatVars, jobVars>>

AllSpec == AllInit /\ [][AllNext]_allVars

(* The whole of reservePromo is as if it ran atomically at its insert:     *)
(* racing calls grant the seats of a code one by one, none twice.          *)
Seats == INSTANCE FounderSeats WITH seats <- redemptions

ActsAtomically == Seats!Spec

(* Whoever has signed in has an active job unless an operator interfered.  *)
SignedInHasJob == part = "jobs" => Accounts!SignedInHasJob

(* A server that listens has all its accounts, with a password.            *)
StartedHasSeeds == part = "jobs" => Accounts!StartedHasSeeds

(* A login provides the active job it guarantees, or another one does.     *)
LoginProvidesJob == part = "jobs" => Accounts!LoginProvidesJob

(* A user guards one family unless two pairings overlap.                   *)
OneFamilyUnlessOverlapping == part = "family" => Family!OneFamilyUnlessOverlapping

(* A guardian is never refused for lack of its role.                       *)
GuardianIsServed == part = "family" => Family!GuardianIsServed
=============================================================================
