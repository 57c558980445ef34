----------------------------- MODULE SetupChecklist -----------------------------
(***************************************************************************)
(* The setup checklist of an intake: thirteen steps that depend on each    *)
(* other and the fields to fill in (server/services/checklistEngine.ts).   *)
(*                                                                         *)
(* The engine maps a checklist to the next one and keeps nothing. Here its *)
(* caller keeps the checklist between calls, as the parameter `previous`   *)
(* foresees and completeChecklist does; the handlers of today's server     *)
(* apply one operation to a fresh checklist, which is the first step of a  *)
(* behavior. Labels, dates and actors are left out, and of the fields      *)
(* there are one made from the business name and those of the services.    *)
(***************************************************************************)
EXTENDS Integers, FiniteSets

CONSTANTS
  Platforms,  \* of the program's three, those looked at
  Names,      \* business names
  Services,   \* services an intake may list
  Edits,      \* values typed in by hand
  Null

ASSUME ChecklistAssumption ==
  /\ Platforms \subseteq {"google", "meta", "quickbooks"}
  /\ Names \cap Edits = {} /\ Null \notin Names \cup Edits \cup Services

AllSteps ==
  [google |-> {"google_verify", "google_info", "google_photos", "google_services", "google_review"},
   meta |-> {"meta_page", "meta_branding", "meta_connect", "meta_first_post"},
   quickbooks |-> {"quickbooks_signup", "quickbooks_items", "quickbooks_bank", "quickbooks_connect"}]

Steps == UNION {AllSteps[p] : p \in Platforms}

DependsOn == [s \in Steps |->
  CASE s \in {"google_verify", "meta_page", "quickbooks_signup"} -> {}
    [] s = "google_info"                                        -> {"google_verify"}
    [] s \in AllSteps.google \ {"google_verify", "google_info"}  -> {"google_info"}
    [] s = "meta_first_post"                                    -> {"meta_connect"}
    [] s \in {"meta_branding", "meta_connect"}                  -> {"meta_page"}
    [] OTHER                                                    -> {"quickbooks_signup"}]

Behind[s \in Steps] == DependsOn[s] \cup UNION {Behind[t] : t \in DependsOn[s]}
Name  == "google_businessName"
Keys  == {Name} \cup Services
None  == [there |-> FALSE, value |-> Null, locked |-> FALSE]

VARIABLES
  business,   \* the intake's businessName and services
  status,     \* the checklist's steps
  field,      \* its fields
  orderly     \* history: no step was completed before its time, or reset
              \* alone with a complete one behind it

vars == <<business, status, field, orderly>>

-----------------------------------------------------------------------------
(* resolveBlockedSteps: one pass over the steps that are not complete.     *)
Complete(st) == {s \in Steps : st[s] = "complete"}

Resolve(st) == [s \in Steps |->
  IF st[s] = "complete" \/ DependsOn[s] = {} THEN st[s]
  ELSE IF DependsOn[s] \subseteq Complete(st) THEN "pending" ELSE "blocked"]

(* computeChecklist without a previous checklist.                          *)
FreshField(b, k) ==
  CASE k = Name         -> [there |-> TRUE, value |-> b.name, locked |-> FALSE]
    [] k \in b.services -> [there |-> TRUE, value |-> k, locked |-> FALSE]
    [] OTHER            -> None

(* With one, a field it had and still has keeps value and lock, whether or *)
(* not it is locked.                                                       *)
Kept(prev, fresh) == IF prev.there /\ fresh.there THEN prev ELSE fresh

Businesses == [name : Names, services : SUBSET Services]

Init ==
  /\ business \in Businesses
  /\ status = Resolve([s \in Steps |-> "pending"])
  /\ field = [k \in Keys |-> FreshField(business, k)]
  /\ orderly = TRUE

(* The intake has changed and the checklist is computed anew.              *)
Recompute ==
  /\ business' \in Businesses
  /\ status' = Resolve(status)
  /\ field' = [k \in Keys |-> Kept(field[k], FreshField(business', k))]
  /\ UNCHANGED orderly

(* A blocked step can be completed as well.                                *)
CompleteStep(s) ==
  /\ status' = Resolve([status EXCEPT ![s] = "complete"])
  /\ orderly' = (orderly /\ status[s] # "blocked")
  /\ UNCHANGED <<business, field>>

-----------------------------------------------------------------------------
(* Mutant of Cascade: one round only.                                      *)
CascadeOnce == [s \in Steps |-> {s} \cup {t \in Steps : s \in DependsOn[t]}]

(* Steps are added as long as one depends on what is there.                *)
Cascade == [s \in Steps |->
  LET grow[reset \in SUBSET Steps] ==
        LET more == reset \cup {t \in Steps : DependsOn[t] \cap reset # {}}
        IN IF more = reset THEN reset ELSE grow[more]
  IN grow[{s}]]

ResetStep(s, cascade) ==
  LET reset == IF cascade THEN Cascade[s] ELSE {s} IN
  /\ status' = Resolve([t \in Steps |-> IF t \in reset THEN "pending" ELSE status[t]])
  /\ orderly' = (orderly /\ (cascade \/ ~\E t \in Complete(status) : s \in Behind[t]))
  /\ UNCHANGED <<business, field>>

(* A key the checklist lacks gets a field without a value.                 *)
LockField(k) ==
  /\ field' = [field EXCEPT ![k].there = TRUE, ![k].locked = TRUE]
  /\ UNCHANGED <<business, status, orderly>>

MayUpdate(k) == ~field[k].locked

(* Throws when the field is locked; locks it otherwise.                    *)
UpdateField(k, v) ==
  /\ MayUpdate(k)
  /\ field' = [field EXCEPT ![k] = [there |-> TRUE, value |-> v, locked |-> TRUE]]
  /\ UNCHANGED <<business, status, orderly>>

-----------------------------------------------------------------------------
Next ==
  \/ Recompute
  \/ \E s \in Steps : CompleteStep(s) \/ \E cascade \in BOOLEAN : ResetStep(s, cascade)
  \/ \E k \in Keys : LockField(k) \/ \E v \in Edits : UpdateField(k, v)

Spec == Init /\ [][Next]_vars

-----------------------------------------------------------------------------
(* As long as steps are completed in turn and reset with what depends on   *)
(* them, everything behind a complete step is complete, at any distance.   *)
CompleteIsClosed ==
  orderly => \A s \in Complete(status) : Behind[s] \subseteq Complete(status)
=============================================================================
