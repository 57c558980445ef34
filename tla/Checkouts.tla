------------------------------ MODULE Checkouts ------------------------------
(***************************************************************************)
(* Paying and what is paid for: the checkouts of an intake                 *)
(* (server/stripe/checkout.ts), the subscription to Social Media           *)
(* Intelligence (server/stripe/intelligenceCheckout.ts), its configuration *)
(* in intelligence_layers and the summary of an intake's services.         *)
(*                                                                         *)
(* Stripe is external: without STRIPE_SECRET_KEY the sessions are made up, *)
(* with it a session of no amount is refused. Names, mails, links and the  *)
(* analytics events, which no step reads, are left out.                    *)
(***************************************************************************)
EXTENDS Integers, FiniteSetsExt

CONSTANTS
  Calls, Users, Intakes,
  Settings,  \* configurations users save: [cadence, layers]
  Payloads,  \* rawPayload of intakes: [selections, snapshot]
  Nothing    \* null

CheckoutAssumption ==
  /\ Settings \subseteq [cadence : {"low", "medium", "high"},
                         layers : SUBSET {"sports", "community", "trends"}]
  /\ Nothing \notin Calls \cup {"saved", "threw"}

VARIABLES
  keyed,         \* STRIPE_SECRET_KEY is set
  intake,        \* payloads of the intakes there are
  session,       \* checkout sessions, by the call that created them
  subscription,  \* sessions whose subscription was paid for
  config,        \* rows of intelligence_layers, by the call that inserted them
  call,          \* requests under way or answered
  saved,         \* history: what each user last wrote, or the default
  crossed        \* history: users two of whose saves overlapped

stripe == <<keyed, session, subscription>>
history == <<saved, crossed>>
vars == <<stripe, intake, config, call, history>>

NoCall == [op |-> "none"]

(* The default shown is not what saving it would cost.                     *)
Default == [choice |-> [cadence |-> "medium", layers |-> {"sports"}], cents |-> 12900]

Init ==
  /\ keyed \in BOOLEAN
  /\ intake \in UNION {[ids -> Payloads] : ids \in SUBSET Intakes}
  /\ session = [c \in {} |-> Nothing] /\ subscription = {}
  /\ config = [c \in {} |-> Nothing]
  /\ call = [c \in Calls |-> NoCall]
  /\ saved = [u \in Users |-> Default] /\ crossed = {}

-----------------------------------------------------------------------------
Answer(c, op, answer) ==
  /\ call[c] = NoCall
  /\ call' = [call EXCEPT ![c] = [op |-> op, answer |-> answer]]

Opened(c, kind, user) ==
  session' = [x \in {c} \cup DOMAIN session |->
                IF x = c THEN [kind |-> kind, user |-> user, paid |-> FALSE] ELSE session[x]]

(* createSetupCheckoutSession and createServiceCheckoutSession: no caller  *)
(* passes an amount.                                                       *)
Checkout(c, kind) ==
  IF keyed THEN Answer(c, kind, "threw") /\ UNCHANGED stripe
  ELSE Answer(c, kind, c) /\ Opened(c, kind, Nothing) /\ UNCHANGED <<keyed, subscription>>

(* The rate limit of public forms may refuse.                              *)
CreateCheckout(c) ==
  /\ Checkout(c, "setup") \/ (Answer(c, "setup", "threw") /\ UNCHANGED stripe)
  /\ UNCHANGED <<intake, config, history>>

(* From an intake, or, the legacy one, for whatever intake is named. The   *)
(* selections and the promo code are passed on and not read.               *)
CreateServiceCheckout(c) ==
  /\ \/ Checkout(c, "service")
     \/ \E i \in Intakes \ DOMAIN intake : Answer(c, "service", "threw") /\ UNCHANGED stripe
  /\ UNCHANGED <<intake, config, history>>

(* The intake stays when its checkout fails.                               *)
CreateTestCheckout(c) ==
  /\ Checkout(c, "service")
  /\ \E i \in Intakes \ DOMAIN intake, p \in Payloads :
       /\ p.selections = Nothing
       /\ intake' = [x \in {i} \cup DOMAIN intake |-> IF x = i THEN p ELSE intake[x]]
  /\ UNCHANGED <<config, history>>

(* createCheckout of the module: 4900 a month whatever is configured. The  *)
(* session may be made and its answer lost.                                *)
CreateSmiCheckout(c) ==
  \E u \in Users :
    /\ \/ Answer(c, "smi", c) /\ Opened(c, "smi", u)
       \/ keyed /\ Answer(c, "smi", "threw") /\ (Opened(c, "smi", u) \/ UNCHANGED session)
    /\ UNCHANGED <<keyed, subscription, intake, config, history>>

(* External: the user pays at Stripe. Two sessions may both be paid for.   *)
Pay(c) ==
  /\ keyed /\ c \in DOMAIN session /\ ~session[c].paid
  /\ session' = [session EXCEPT ![c].paid = TRUE]
  /\ subscription' = subscription \cup {c}
  /\ UNCHANGED <<keyed, intake, config, call, history>>

(* getCheckoutSession: only setup sessions have the prefix asked for.      *)
PaymentStatus(s) ==
  IF keyed THEN (IF session[s].paid THEN "paid" ELSE "unpaid")
  ELSE IF session[s].kind = "setup" THEN "paid" ELSE "unknown"

(* The intake answered is metadata.intake_id, which no session has.        *)
GetSession(c) ==
  /\ \E s \in DOMAIN session :
       Answer(c, "session", PaymentStatus(s)) \/ (keyed /\ Answer(c, "session", "unknown"))
  /\ UNCHANGED <<stripe, intake, config, history>>

(* No metadata of a session is of its subscription, and the search is for  *)
(* subscriptions' metadata. A user's id is no subscription to cancel.      *)
GetSubscriptionStatus(c) ==
  Answer(c, "status", "inactive") /\ UNCHANGED <<stripe, intake, config, history>>

CancelSubscription(c) ==
  Answer(c, "cancel", ~keyed) /\ UNCHANGED <<stripe, intake, config, history>>

-----------------------------------------------------------------------------
(* buildServiceSummary, with prices in cents and quantities multiplied.    *)
Total(selections, field) ==
  MapThenSumSet(LAMBDA s : s[field], {s \in selections : s.selected})

Totals(p) ==
  IF Nothing \in {p.selections, p.snapshot} THEN [setup |-> 0, monthly |-> 0]
  ELSE [setup   |-> IF p.snapshot.setup # Nothing THEN p.snapshot.setup
                    ELSE Max({0, Total(p.selections, "setup") - p.snapshot.discount}),
        monthly |-> IF p.snapshot.monthly # Nothing THEN p.snapshot.monthly
                    ELSE Total(p.selections, "monthly")]

(* It throws for an intake that is not there.                              *)
GetServiceSummary(c) ==
  /\ \E i \in Intakes :
       Answer(c, "summary", IF i \in DOMAIN intake THEN Totals(intake[i]) ELSE Nothing)
  /\ UNCHANGED <<stripe, intake, config, history>>

-----------------------------------------------------------------------------
Cents(choice) ==
  [low |-> 7900, medium |-> 12900, high |-> 19900][choice.cadence]
  + MapThenSumSet(LAMBDA l : [sports |-> 2900, community |-> 3900, trends |-> 4900][l],
                  choice.layers)

Priced(choice) == [choice |-> choice, cents |-> Cents(choice)]

RowsOf(u) == {r \in DOMAIN config : config[r].user = u}

(* select ... limit 1: any of the user's rows.                             *)
Found(u) == IF RowsOf(u) = {} THEN {Nothing} ELSE RowsOf(u)

GetConfig(c) ==
  /\ call[c] = NoCall
  /\ \E u \in Users : \E r \in Found(u) : call' = [call EXCEPT ![c] =
       [op |-> "config", user |-> u, due |-> saved[u],
        answer |-> IF r = Nothing THEN Default ELSE config[r].set]]
  /\ UNCHANGED <<stripe, intake, config, history>>

Saving(u) ==
  {c \in Calls : call[c].op = "save" /\ call[c].user = u /\ call[c].answer = Nothing}

(* saveConfig: the row is looked for ...                                   *)
FindConfig(c) ==
  /\ call[c] = NoCall
  /\ \E u \in Users, choice \in Settings : \E r \in Found(u) :
       /\ call' = [call EXCEPT ![c] = [op |-> "save", user |-> u, choice |-> choice,
                                       row |-> r, answer |-> Nothing]]
       /\ crossed' = crossed \cup (IF Saving(u) = {} THEN {} ELSE {u})
  /\ UNCHANGED <<stripe, intake, config, saved>>

(* Mutant of Written: an update leaves the price.                          *)
WrittenWithoutPrice(row, u, choice) ==
  [user |-> u, set |-> [Priced(choice) EXCEPT !.cents =
     IF row \in DOMAIN config THEN config[row].set.cents ELSE @]]

Written(row, u, choice) == [user |-> u, set |-> Priced(choice)]

(* ... and updated by its id or inserted.                                  *)
WriteConfig(c) ==
  \E u \in Users :
    /\ c \in Saving(u)
    /\ LET s   == call[c]
           row == IF s.row = Nothing THEN c ELSE s.row
       IN  /\ config' = [r \in {row} \cup DOMAIN config |->
                           IF r = row THEN Written(row, u, s.choice) ELSE config[r]]
           /\ saved' = [saved EXCEPT ![u] = Priced(s.choice)]
    /\ \E answer \in {"saved", "threw"} : call' = [call EXCEPT ![c].answer = answer]
    /\ UNCHANGED <<stripe, intake, crossed>>

(* A statement of a save fails.                                            *)
Throws(c) ==
  /\ \E u \in Users : c \in Saving(u)
  /\ call' = [call EXCEPT ![c].answer = "threw"]
  /\ UNCHANGED <<stripe, intake, config, history>>

Next ==
  \E c \in Calls :
    \/ CreateCheckout(c) \/ CreateServiceCheckout(c) \/ CreateTestCheckout(c)
    \/ CreateSmiCheckout(c) \/ Pay(c) \/ GetSession(c) \/ GetSubscriptionStatus(c)
    \/ CancelSubscription(c) \/ GetServiceSummary(c) \/ GetConfig(c)
    \/ FindConfig(c) \/ WriteConfig(c) \/ Throws(c)

Spec == Init /\ [][Next]_vars

-----------------------------------------------------------------------------
(* A user is shown the configuration, and the price, that was last written *)
(* for it, or the default one before any was, unless two of its saves      *)
(* overlapped: then there may be two rows.                                 *)
ShownIsSaved ==
  \A c \in Calls : call[c].op = "config" =>
    call[c].user \in crossed \/ call[c].answer = call[c].due
=============================================================================
