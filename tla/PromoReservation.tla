-------------------------- MODULE PromoReservation --------------------------
(***************************************************************************)
(* server/services/promoService.ts: reservePromo, called by                *)
(* intake.submit for every intake that names a promo code.                 *)
(*                                                                         *)
(* There is no transaction: a call runs four awaited statements (look the  *)
(* code up, count its redemptions, look for one of this intake, insert),   *)
(* and other calls run between any two of them. Each statement is an       *)
(* action. The only thing the database adds is the unique index            *)
(* unique_founder on (promoCodeId, founderNumber).                         *)
(***************************************************************************)
EXTENDS Naturals, FiniteSets

CONSTANTS Codes,            \* texts a customer may type as a promo code
          Intakes,          \* intakes
          Calls,            \* concurrent executions of reservePromo
          MaxRedemptions    \* promoCodes.maxRedemptions of each code

PromoAssumption ==
  /\ Codes # {} /\ Intakes # {}
  /\ MaxRedemptions \in [Codes -> Nat]

VARIABLES
  row,          \* what the promo_codes row of each text looks like now
  redemptions,  \* promo_redemptions: [code, intake, founder]
  lapsed,       \* the redemptions whose 24-hour expiresAt has passed
  pc,           \* the statement each call is about to run
  code, intake, \* opts.promoCode and opts.intakeId of each call
  current       \* currentRedemptions, the count each call has read

vars == <<row, redemptions, lapsed, pc, code, intake, current>>

table == <<row, redemptions, lapsed>>
local == <<code, intake, current>>

RowStates == {"absent", "inactive", "active", "expired"}
Steps     == {"idle", "count", "existing", "insert"}
Redemption == [code : Codes, intake : Intakes, founder : Nat]

RedemptionsOf(k) == {r \in redemptions : r.code = k}
Taken(k)         == Cardinality(RedemptionsOf(k))

(* A call's locals before it starts and after it has returned.             *)
AnyCode   == CHOOSE k \in Codes : TRUE
AnyIntake == CHOOSE i \in Intakes : TRUE

Init ==
  /\ row \in [Codes -> RowStates]
  /\ redemptions = {}
  /\ lapsed = {}
  /\ pc = [c \in Calls |-> "idle"]
  /\ code = [c \in Calls |-> AnyCode]
  /\ intake = [c \in Calls |-> AnyIntake]
  /\ current = [c \in Calls |-> 0]

Goto(c, step) == pc' = [pc EXCEPT ![c] = step]

(* Whatever it answers, a call that returns leaves nothing but its insert. *)
Return(c) ==
  /\ Goto(c, "idle")
  /\ code' = [code EXCEPT ![c] = AnyCode]
  /\ intake' = [intake EXCEPT ![c] = AnyIntake]
  /\ current' = [current EXCEPT ![c] = 0]

-----------------------------------------------------------------------------
(* Steps 1 to 3: one select; absence, active and expiresAt are judged on   *)
(* the row it returned, without another await.                             *)
Lookup(c, k, i) ==
  /\ pc[c] = "idle"
  /\ row[k] = "active"
  /\ code' = [code EXCEPT ![c] = k]
  /\ intake' = [intake EXCEPT ![c] = i]
  /\ Goto(c, "count")
  /\ UNCHANGED <<table, current>>

LookupRefuses(c, k) ==
  /\ pc[c] = "idle"
  /\ row[k] # "active"
  /\ UNCHANGED vars

(* Step 4: every redemption of the code counts, whatever its status and    *)
(* however old it is.                                                      *)
Redeemed(k) == Taken(k)

(* Mutant of CountBelowLimit: the limit is off by one.                     *)
CountUpToLimit(c) ==
  /\ pc[c] = "count"
  /\ Redeemed(code[c]) <= MaxRedemptions[code[c]]
  /\ current' = [current EXCEPT ![c] = Redeemed(code[c])]
  /\ Goto(c, "existing")
  /\ UNCHANGED <<table, code, intake>>

CountBelowLimit(c) ==
  /\ pc[c] = "count"
  /\ Redeemed(code[c]) < MaxRedemptions[code[c]]
  /\ current' = [current EXCEPT ![c] = Redeemed(code[c])]
  /\ Goto(c, "existing")
  /\ UNCHANGED <<table, code, intake>>

(* "This promo code has reached its maximum redemptions"                   *)
CountAtLimit(c) ==
  /\ pc[c] = "count"
  /\ Redeemed(code[c]) >= MaxRedemptions[code[c]]
  /\ Return(c)
  /\ UNCHANGED table

(* Step 5: does this intake hold a redemption of this code already?        *)
HasRedemption(k, i) == \E r \in redemptions : r.code = k /\ r.intake = i

FindExisting(c) ==
  /\ pc[c] = "existing"
  /\ \/ HasRedemption(code[c], intake[c]) /\ Return(c)
     \/ /\ ~HasRedemption(code[c], intake[c])
        /\ Goto(c, "insert")
        /\ UNCHANGED local
  /\ UNCHANGED table

(* Step 6, and the unique index unique_founder.                            *)
FounderNumber(c) == current[c] + 1

IndexRejects(k, n) == \E r \in redemptions : r.code = k /\ r.founder = n

(* Step 7: the insert commits (the customer is told so, or the answer of   *)
(* the database is lost and the catch block reports a failure).            *)
Insert(c) ==
  /\ pc[c] = "insert"
  /\ ~IndexRejects(code[c], FounderNumber(c))
  /\ redemptions' = redemptions \cup
       {[code |-> code[c], intake |-> intake[c], founder |-> FounderNumber(c)]}
  /\ Return(c)
  /\ UNCHANGED <<row, lapsed>>

(* The index refuses the insert: the catch block's "Duplicate" case, which *)
(* answers "This promo code has already been applied".                     *)
InsertDuplicate(c) ==
  /\ pc[c] = "insert"
  /\ IndexRejects(code[c], FounderNumber(c))
  /\ Return(c)
  /\ UNCHANGED table

(* A statement fails without effect: the catch block's last case.          *)
StatementFails(c) ==
  /\ pc[c] # "idle"
  /\ Return(c)
  /\ UNCHANGED table

-----------------------------------------------------------------------------
(* Time passes: a code reaches promoCodes.expiresAt, a redemption reaches  *)
(* its own. Nothing in the program reacts to the latter.                   *)
CodeExpires(k) ==
  /\ row[k] = "active"
  /\ row' = [row EXCEPT ![k] = "expired"]
  /\ UNCHANGED <<redemptions, lapsed, pc, local>>

ReservationLapses(r) ==
  /\ r \notin lapsed
  /\ lapsed' = lapsed \cup {r}
  /\ UNCHANGED <<row, redemptions, pc, local>>

CallStep(c) ==
  \/ CountBelowLimit(c) \/ CountAtLimit(c)
  \/ FindExisting(c)
  \/ Insert(c) \/ InsertDuplicate(c)

Next ==
  \/ \E c \in Calls :
       \/ \E k \in Codes, i \in Intakes : Lookup(c, k, i)
       \/ \E k \in Codes : LookupRefuses(c, k)
       \/ CallStep(c)
       \/ StatementFails(c)
  \/ \E k \in Codes : CodeExpires(k)
  \/ \E r \in redemptions : ReservationLapses(r)

Spec == Init /\ [][Next]_vars

-----------------------------------------------------------------------------
TypeOK ==
  /\ row \in [Codes -> RowStates]
  /\ redemptions \subseteq Redemption
  /\ lapsed \subseteq redemptions
  /\ pc \in [Calls -> Steps]
  /\ code \in [Calls -> Codes]
  /\ intake \in [Calls -> Intakes]
  /\ current \in [Calls -> Nat]

(* However many calls pass the check of step 4 on the same count, a code   *)
(* never has more redemptions than promoCodes.maxRedemptions.              *)
WithinLimit == \A k \in Codes : Taken(k) <= MaxRedemptions[k]

(* Founder numbers are the customers' "founder #n": those of a code are    *)
(* exactly 1..n, with no gap and no number given out twice, even though    *)
(* each is computed from a count that may be stale.                        *)
FoundersContiguous ==
  \A k \in Codes :
    {r.founder : r \in RedemptionsOf(k)} = 1 .. Taken(k)

(* Step 5's promise under races: no intake ever holds two redemptions of   *)
(* one code, although nothing in the schema says (code, intake) is unique. *)
OnePerIntake ==
  \A r, s \in redemptions : r.code = s.code /\ r.intake = s.intake => r = s

(* A call is told "already been applied" by the duplicate-key branch only  *)
(* when it has been overtaken: the code has been redeemed since it         *)
(* counted.                                                                *)
DuplicateOnlyWhenOvertaken ==
  [][\A c \in Calls :
       InsertDuplicate(c) => Taken(code[c]) > current[c]]_vars
=============================================================================
