----------------------------- MODULE DeskProofs -----------------------------
(***************************************************************************)
(* The safety of the components of MCDesk for every set of requests,       *)
(* customers, codes, contracts, detections, packs and settings: what the   *)
(* front desk grants, mails and approves, when a checklist is complete,    *)
(* what a handshake tells, what gap rules advise, what a customer is shown.*)
(***************************************************************************)
EXTENDS MCDesk, TLAPS

-----------------------------------------------------------------------------
(* The front desk: what is granted, mailed, linked and approved.           *)

Ids == Desk!Intakes

DeskCalls ==
  [op   : Desk!Ops,
   step : {"none", "begin", "write", "use", "insert", "plan", "publish", "application", "link",
           "cooldown", "mail", "log", "returned"},
   on   : Ids \cup {Nothing}, ref : Ids \cup Codes \cup Applications \cup {Nothing}]

RowsTyped ==
  /\ intake \in [Ids -> [status : Desk!Statuses \cup {"none"}, token : Ids \cup {Nothing}]]
  /\ referral \in [Codes -> [referrer : Ids \cup {Nothing}, status : {"none", "pending", "used"},
                             referee : Ids \cup {Nothing}, paid : BOOLEAN]]
  /\ linked \in [Applications \cup Calls -> Calls \cup {Nothing, "none"}]
  /\ \A q \in plans : q.id \in Ids

CallsTyped ==
  /\ call \in [Calls -> DeskCalls] /\ ended \in [Calls -> SUBSET Calls]
  /\ \A c \in Calls : ended[c] \subseteq {d \in Calls : call[d].step = "returned"}

OnIntakes == {"updateStatus", "bulkUpdateStatus", "feedback", "resend"}

(* What the steps of a request are about.                                  *)
Placed(c) ==
  /\ call[c].step \in {"write", "use"} => call[c].op = "submit" /\ call[c].ref \in Codes
  /\ Desk!At(c, "submit", "begin") => call[c].ref \in Codes \cup {Nothing}
  /\ Desk!At(c, "createCode", "insert") => call[c].ref \in Codes
  /\ call[c].op = "approve" /\ call[c].step # "none" => call[c].ref \in Applications \cup Calls
  /\ call[c].step = "begin" /\ call[c].op \in OnIntakes => call[c].on \in Ids
  /\ call[c].step = "publish" => call[c].op \in {"apply", "approve"}

DeskTypeOK == RowsTyped /\ CallsTyped /\ \A c \in Calls : Placed(c)

(* What a grant leaves behind, and what a request that has read nothing of *)
(* it is about to grant.                                                   *)
Effect(kind, key) ==
  \/ kind = "discount" /\ key \in Codes /\ referral[key].status = "used"
  \/ kind = "code" /\ \E k \in Codes : referral[k].referrer = key /\ referral[k].status # "none"
  \/ kind = "intake" /\ key \in Applications \cup Calls /\ linked[key] # Nothing

Claiming(c, kind, key) ==
  \/ kind = "discount" /\ Desk!At(c, "submit", "use") /\ key = call[c].ref
  \/ kind = "code" /\ Desk!At(c, "createCode", "insert") /\ key = call[c].on
  \/ /\ kind = "intake" /\ call[c].op = "approve" /\ key = call[c].ref
     /\ call[c].step \in {"insert", "plan", "publish", "link"}

GrantsInv ==
  /\ \A g \in granted : g.call \in Calls /\ call[g.call].step # "none" /\ Effect(g.kind, g.key)
  /\ \A c \in Calls : \A g \in granted : Claiming(c, g.kind, g.key) => g.call \notin ended[c]
  /\ Desk!OnceUnlessOverlapping

(* A logged mail counts while it is recent; a resend past its look at the  *)
(* log found no such mail of its intake that it had to know of.            *)
MailsInv ==
  /\ recent \subseteq Calls /\ \A c \in recent : call[c].step \in {"log", "returned"}
  /\ logged \subseteq Calls /\ \A c \in logged : call[c].step = "returned"
  /\ recent \cap logged \subseteq fresh
  /\ \A d \in Calls : call[d].op = "resend" /\ (d \in recent \/ call[d].step = "mail") =>
       \A c \in recent \cap ended[d] \cap logged : call[c].on # call[d].on

(* Requests of which a token may bear the name.                            *)
Publishers ==
  {c \in Calls : call[c].step \in {"application", "link", "mail", "log", "returned"}}

LinksInv ==
  /\ retired \subseteq Publishers \cup Customers
  /\ \A i \in Ids : intake[i].token \in Publishers \cup Customers \cup {Nothing}
  /\ \A i \in Ids : intake[i].token \notin retired
  /\ \A i, j \in Ids : intake[i].token = intake[j].token => i = j \/ intake[i].token = Nothing
  /\ replaced \in [Calls -> SUBSET retired]
  /\ \A c \in Calls : c \notin replaced[c]
  /\ \A c \in Calls : call[c].op = "resend" /\ call[c].step \in {"cooldown", "mail"} =>
       call[c].ref \notin replaced[c]
  /\ \A m \in mails : m.call \in Calls /\ call[m.call].step \in {"log", "returned"}
  /\ Desk!LinksAreCurrent

(* Of intake i plan id is the newest there is and none of the old is newer. *)
Newest(all, old, i, id) ==
  \E p \in all : /\ p.intake = i /\ p.id = id
                 /\ \A q \in all : q.intake = i /\ q.id \in old => q.second <= p.second

PlansInv ==
  /\ \A a \in approvals :
       a.by \in Calls /\ call[a.by].step # "none" /\ Newest(plans, ended[a.by], a.intake, a.plan)
  /\ \A c \in Calls : Desk!At(c, "logApproval", "insert") =>
       Newest(plans, ended[c], call[c].on, call[c].ref)

DeskInv == DeskTypeOK /\ GrantsInv /\ MailsInv /\ LinksInv /\ PlansInv

LEMMA DeskNames ==
  /\ Calls \cap Customers = {} /\ Ids = Calls \cup Customers
  /\ Nothing \notin Ids \cup Codes \cup Applications
  BY DeskAssumption DEF Desk!NamesAssumption, Ids, Desk!Intakes

(* One request goes on, and the others stay where they are.                *)
Moves(c) ==
  /\ call[c].step # "returned" /\ call'[c].step # "none"
  /\ CallsTyped' /\ Placed(c)'
  /\ \A d \in Calls : d # c => call'[d] = call[d] /\ ended'[d] = ended[d]
  /\ \A d \in Calls : c \notin ended'[d]
  /\ \/ call[c].step = "none" /\ call'[c].step = "begin"
     \/ /\ call[c].step # "none" /\ call'[c].op = call[c].op /\ call'[c].on = call[c].on
        /\ ended'[c] = ended[c] /\ call'[c].step # "begin"

LEMMA GoesOn ==
  ASSUME DeskTypeOK, NEW c \in Calls, NEW x \in DeskCalls, call' = [call EXCEPT ![c] = x],
         ended' = ended, call[c].step \notin {"none", "returned"}, x.step \notin {"none", "begin"},
         x.op = call[c].op, x.on = call[c].on,
         x.step \in {"write", "use"} => x.op = "submit" /\ x.ref \in Codes,
         x.op = "createCode" /\ x.step = "insert" => x.ref \in Codes,
         x.op = "approve" => x.ref \in Applications \cup Calls,
         x.step = "publish" => x.op \in {"apply", "approve"}
  PROVE  Moves(c) /\ call'[c] = x
<1>1. /\ call' \in [Calls -> DeskCalls] /\ call'[c] = x
      /\ \A d \in Calls : d # c => call'[d] = call[d]
  BY DEF DeskTypeOK, CallsTyped
<1>2. CallsTyped'
  BY <1>1 DEF DeskTypeOK, CallsTyped
<1>3. \A d \in Calls : c \notin ended'[d]
  BY DEF DeskTypeOK, CallsTyped
<1>4. Placed(c)'
  BY <1>1 DEF Placed, Desk!At
<1>5. QED
  BY <1>1, <1>2, <1>3, <1>4 DEF Moves

LEMMA GoesTo ==
  ASSUME DeskTypeOK, NEW c \in Calls, NEW step, Desk!Goto(c, step), ended' = ended,
         step \in {"write", "use", "insert", "plan", "publish", "application", "link",
                   "cooldown", "mail", "log", "returned"},
         call[c].step \notin {"none", "returned"},
         step \in {"write", "use"} => call[c].op = "submit" /\ call[c].ref \in Codes,
         call[c].op = "createCode" /\ step = "insert" => call[c].ref \in Codes,
         step = "publish" => call[c].op \in {"apply", "approve"}
  PROVE  /\ Moves(c) /\ call'[c].step = step /\ call'[c].op = call[c].op
         /\ call'[c].on = call[c].on /\ call'[c].ref = call[c].ref
<1> DEFINE x == [call[c] EXCEPT !.step = step]
<1>1. call[c] \in DeskCalls /\ Placed(c)
  BY DEF DeskTypeOK, CallsTyped
<1>2. /\ x \in DeskCalls /\ x.step = step /\ x.op = call[c].op /\ x.on = call[c].on
      /\ x.ref = call[c].ref
  BY <1>1 DEF DeskCalls
<1>3. call' = [call EXCEPT ![c] = x]
  BY DEF Desk!Goto
<1>4. call[c].op = "approve" => call[c].ref \in Applications \cup Calls
  BY <1>1 DEF Placed
<1> HIDE DEF x
<1>5. Moves(c) /\ call'[c] = x
  BY <1>2, <1>3, <1>4, GoesOn, ZenonT(60)
<1>6. QED
  BY <1>2, <1>5

LEMMA GrantsKeep ==
  ASSUME DeskInv, NEW c \in Calls, Moves(c),
         \A kind, key : Effect(kind, key) => Effect(kind, key)',
         \A kind, key : Claiming(c, kind, key)' => Claiming(c, kind, key) \/ ~Effect(kind, key),
         granted' = granted
  PROVE  GrantsInv'
<1> USE DEF DeskInv, GrantsInv
<1>1. \A g \in granted' : g.call \in Calls /\ call'[g.call].step # "none" /\ Effect(g.kind, g.key)'
  BY DEF Moves
<1>2. ASSUME NEW d \in Calls, NEW g \in granted', Claiming(d, g.kind, g.key)'
      PROVE  g.call \notin ended'[d]
  <2>1. CASE d = c
    <3>1. Claiming(c, g.kind, g.key)
      BY <1>2, <2>1
    <3>2. call[c].step # "none"
      BY <3>1 DEF Claiming, Desk!At
    <3>3. QED
      BY <2>1, <3>1, <3>2 DEF Moves
  <2>2. CASE d # c
    <3>1. call'[d] = call[d] /\ ended'[d] = ended[d]
      BY <2>2 DEF Moves
    <3>2. Claiming(d, g.kind, g.key)
      BY <1>2, <3>1 DEF Claiming, Desk!At
    <3>3. QED
      BY <3>1, <3>2
  <2>3. QED
    BY <2>1, <2>2
<1>3. Desk!OnceUnlessOverlapping'
  BY DEF Desk!OnceUnlessOverlapping, Moves
<1>4. QED
  BY <1>1, <1>2, <1>3

LEMMA GrantGiven ==
  ASSUME DeskInv, NEW c \in Calls, Moves(c), NEW kind, NEW key, Desk!Grant(kind, key, c),
         Claiming(c, kind, key), Effect(kind, key)',
         \A k, x : Effect(k, x) => Effect(k, x)',
         \A k, x : Claiming(c, k, x)' => Claiming(c, k, x)
  PROVE  GrantsInv'
<1> DEFINE new == [kind |-> kind, key |-> key, call |-> c]
<1> USE DEF DeskInv, GrantsInv
<1>1. granted' = granted \cup {new} /\ new.call = c /\ new.kind = kind /\ new.key = key
  BY DEF Desk!Grant
<1>2. call[c].step # "none"
  BY DEF Claiming, Desk!At
<1>3. \A g \in granted : g.kind = kind /\ g.key = key => g.call \notin ended'[c]
  BY <1>2 DEF Moves
<1> HIDE DEF new
<1>4. \A g \in granted' : g.call \in Calls /\ call'[g.call].step # "none" /\ Effect(g.kind, g.key)'
  BY <1>1 DEF Moves
<1>5. ASSUME NEW d \in Calls, NEW g \in granted', Claiming(d, g.kind, g.key)'
      PROVE  g.call \notin ended'[d]
  <2>1. CASE g = new
    BY <1>1, <2>1 DEF Moves
  <2>2. CASE g \in granted /\ d = c
    BY <1>2, <1>5, <2>2 DEF Moves
  <2>3. CASE g \in granted /\ d # c
    <3>1. call'[d] = call[d] /\ ended'[d] = ended[d]
      BY <2>3 DEF Moves
    <3>2. Claiming(d, g.kind, g.key)
      BY <1>5, <3>1 DEF Claiming, Desk!At
    <3>3. QED
      BY <2>3, <3>1, <3>2
  <2>4. QED
    BY <1>1, <2>1, <2>2, <2>3
<1>6. Desk!OnceUnlessOverlapping'
  <2> SUFFICES ASSUME NEW g \in granted', NEW h \in granted', g.kind = h.kind, g.key = h.key,
                      g.call # h.call
               PROVE  h.call \notin ended'[g.call]
    BY DEF Desk!OnceUnlessOverlapping
  <2>1. CASE h = new
    BY <1>1, <1>4, <2>1 DEF Moves
  <2>2. CASE g = new /\ h \in granted
    BY <1>1, <1>3, <2>2
  <2>3. CASE g \in granted /\ h \in granted
    <3>1. ended'[g.call] = ended[g.call]
      BY <1>2, <2>3 DEF Moves
    <3>2. QED
      BY <2>3, <3>1 DEF Desk!OnceUnlessOverlapping
  <2>4. QED
    BY <1>1, <2>1, <2>2, <2>3
<1>7. QED
  BY <1>4, <1>5, <1>6

LEMMA MailsKeep ==
  ASSUME DeskInv, NEW c \in Calls, Moves(c), UNCHANGED <<recent, logged, fresh>>,
         call[c].step # "log", call[c].op = "resend" => call'[c].step # "mail"
  PROVE  MailsInv'
<1> USE DEF DeskInv, MailsInv
<1>1. c \notin recent \cup logged
  BY DEF Moves
<1>2. ASSUME NEW d \in Calls, call'[d].op = "resend", d \in recent \/ call'[d].step = "mail",
             NEW e \in recent \cap ended'[d] \cap logged
      PROVE  call'[e].on # call'[d].on
  <2>1. e # c /\ call'[e] = call[e]
    BY <1>1 DEF Moves
  <2>2. CASE d = c
    BY <1>1, <1>2, <2>2 DEF Moves
  <2>3. CASE d # c
    BY <1>2, <2>1, <2>3 DEF Moves
  <2>4. QED
    BY <2>2, <2>3
<1>3. QED
  BY <1>1, <1>2 DEF Moves

LEMMA LinksKeep ==
  ASSUME DeskInv, NEW c \in Calls, Moves(c), UNCHANGED <<retired, mails>>,
         \A i \in Ids : intake'[i].token = intake[i].token,
         replaced' \in [Calls -> SUBSET retired],
         \A d \in Calls : d # c \/ call[c].step # "none" => replaced'[d] = replaced[d],
         c \in Publishers => c \in Publishers',
         call[c].step = "log" => call'[c].step = "returned",
         call[c].op = "resend" /\ call'[c].step \in {"cooldown", "mail"} =>
           call'[c].ref \notin replaced[c]
  PROVE  LinksInv'
<1> USE DEF DeskInv, LinksInv
<1>1. Publishers \subseteq Publishers'
  BY DEF Publishers, Moves
<1>2. /\ retired' \subseteq Publishers' \cup Customers
      /\ \A i \in Ids : intake'[i].token \in Publishers' \cup Customers \cup {Nothing}
      /\ \A i \in Ids : intake'[i].token \notin retired'
      /\ \A i, j \in Ids : intake'[i].token = intake'[j].token => i = j \/ intake'[i].token = Nothing
  BY <1>1
<1>3. \A d \in Calls : d \notin replaced'[d]
  <2>1. call[c].step = "none" => c \notin retired
    BY DeskNames DEF Publishers
  <2>2. QED
    BY <2>1
<1>4. \A d \in Calls : call'[d].op = "resend" /\ call'[d].step \in {"cooldown", "mail"} =>
        call'[d].ref \notin replaced'[d]
  BY DEF Moves
<1>5. \A m \in mails' : m.call \in Calls /\ call'[m.call].step \in {"log", "returned"}
                       /\ m.token \notin replaced'[m.call]
  BY DEF Moves, Desk!LinksAreCurrent
<1>6. QED
  BY <1>2, <1>3, <1>4, <1>5 DEF Desk!LinksAreCurrent

LEMMA NewestStays ==
  ASSUME NEW all, NEW more, NEW old, NEW i, NEW id, all \subseteq more,
         \A q \in more \ all : q.id \notin old, Newest(all, old, i, id)
  PROVE  Newest(more, old, i, id)
  BY DEF Newest

LEMMA PlansKeep ==
  ASSUME DeskInv, NEW c \in Calls, Moves(c), UNCHANGED approvals, plans \subseteq plans',
         \A q \in plans' \ plans : q.id = c,
         Desk!At(c, "logApproval", "insert")' =>
           Newest(plans, ended[c], call'[c].on, call'[c].ref)
  PROVE  PlansInv'
<1> USE DEF DeskInv, PlansInv
<1>1. \A d \in Calls : \A q \in plans' \ plans : q.id \notin ended'[d]
  BY DEF Moves
<1>2. ASSUME NEW a \in approvals
      PROVE  Newest(plans', ended'[a.by], a.intake, a.plan)
  <2>1. a.by \in Calls /\ ended'[a.by] = ended[a.by]
    BY DEF Moves
  <2>2. QED
    BY <1>1, <2>1, NewestStays
<1>3. ASSUME NEW d \in Calls, Desk!At(d, "logApproval", "insert")'
      PROVE  Newest(plans', ended'[d], call'[d].on, call'[d].ref)
  <2>1. ended'[d] = ended[d] /\ Newest(plans, ended[d], call'[d].on, call'[d].ref)
    BY <1>3 DEF Moves, Desk!At
  <2>2. QED
    BY <1>1, <2>1, NewestStays
<1>4. \A a \in approvals : a.by \in Calls /\ call'[a.by].step # "none"
  BY DEF Moves
<1>5. QED
  BY <1>2, <1>3, <1>4

LEMMA EffectsStay ==
  ASSUME \A k \in Codes : /\ referral[k].status = "used" => referral'[k].status = "used"
                          /\ referral[k].status # "none" => referral'[k].status # "none" /\
                                                            referral'[k].referrer = referral[k].referrer,
         \A a \in Applications \cup Calls : linked[a] # Nothing => linked'[a] # Nothing
  PROVE  \A kind, key : Effect(kind, key) => Effect(kind, key)'
  BY DEF Effect

LEMMA TypesKeep ==
  ASSUME DeskInv, NEW c \in Calls, Moves(c), RowsTyped'
  PROVE  DeskTypeOK'
<1>1. \A d \in Calls : Placed(d)'
  BY DEF DeskInv, DeskTypeOK, Moves, Placed, Desk!At
<1>2. QED
  BY <1>1 DEF Moves, DeskTypeOK

(* A request that grants, sends, publishes and approves nothing.           *)
LEMMA Proceeds ==
  ASSUME DeskInv, NEW c \in Calls, Moves(c), RowsTyped',
         UNCHANGED <<granted, mails, recent, retired, logged, fresh, approvals>>,
         \A kind, key : Effect(kind, key) => Effect(kind, key)',
         \A kind, key : Claiming(c, kind, key)' => Claiming(c, kind, key) \/ ~Effect(kind, key),
         call[c].step # "log", call[c].op = "resend" => call'[c].step # "mail",
         \A i \in Ids : intake'[i].token = intake[i].token,
         replaced' \in [Calls -> SUBSET retired],
         \A d \in Calls : d # c \/ call[c].step # "none" => replaced'[d] = replaced[d],
         c \in Publishers => c \in Publishers',
         call[c].op = "resend" /\ call'[c].step \in {"cooldown", "mail"} =>
           call'[c].ref \notin replaced[c],
         plans \subseteq plans', \A q \in plans' \ plans : q.id = c,
         Desk!At(c, "logApproval", "insert")' =>
           Newest(plans, ended[c], call'[c].on, call'[c].ref)
  PROVE  DeskInv'
<1>1. DeskTypeOK'
  BY TypesKeep
<1>2. GrantsInv'
  BY GrantsKeep
<1>3. MailsInv'
  BY MailsKeep
<1>4. LinksInv'
  BY LinksKeep
<1>5. PlansInv'
  BY PlansKeep
<1>6. QED
  BY <1>1, <1>2, <1>3, <1>4, <1>5 DEF DeskInv

LEMMA BeginKeeps ==
  ASSUME DeskInv, NEW c \in Calls, Desk!Begin(c)
  PROVE  DeskInv'
<1> USE DEF Desk!Begin, Desk!rows
<1>1. PICK op \in Desk!Ops : \E t \in Desk!Targets(c, op) :
        call' = [call EXCEPT ![c] = [op |-> op, step |-> "begin", on |-> t[1], ref |-> t[2]]]
  OBVIOUS
<1>2. PICK t \in Desk!Targets(c, op) :
        call' = [call EXCEPT ![c] = [op |-> op, step |-> "begin", on |-> t[1], ref |-> t[2]]]
  BY <1>1
<1> DEFINE x == [op |-> op, step |-> "begin", on |-> t[1], ref |-> t[2]]
<1>3. DOMAIN linked = Applications \cup Calls
  BY DEF DeskInv, DeskTypeOK, RowsTyped
<1>4. /\ t[1] \in Ids \cup {Nothing} /\ t[2] \in Ids \cup Codes \cup Applications \cup {Nothing}
      /\ op = "submit" => t[2] \in Codes \cup {Nothing}
      /\ op = "approve" => t[2] \in Applications \cup Calls
      /\ op \in OnIntakes => t[1] \in Ids
  BY <1>3, DeskNames DEF Desk!Targets, Desk!Ops, Ids, OnIntakes
<1>5. x \in DeskCalls /\ x.step = "begin" /\ x.op = op /\ x.on = t[1] /\ x.ref = t[2]
  BY <1>4 DEF DeskCalls
<1> HIDE DEF x
<1>6. /\ call' \in [Calls -> DeskCalls] /\ call'[c] = x
      /\ \A d \in Calls : d # c => call'[d] = call[d]
  BY <1>2, <1>5 DEF DeskInv, DeskTypeOK, CallsTyped, x
<1>7. /\ ended' \in [Calls -> SUBSET Calls]
      /\ \A d \in Calls : d # c => ended'[d] = ended[d]
      /\ ended'[c] = {d \in Calls : call[d].step = "returned"}
  BY DEF DeskInv, DeskTypeOK, CallsTyped
<1>8. CallsTyped' /\ \A d \in Calls : c \notin ended'[d]
  BY <1>6, <1>7 DEF DeskInv, DeskTypeOK, CallsTyped
<1>9. Placed(c)'
  BY <1>4, <1>5, <1>6 DEF Placed, Desk!At
<1>10. Moves(c)
  BY <1>5, <1>6, <1>7, <1>8, <1>9 DEF Moves
<1>11. RowsTyped'
  BY DEF DeskInv, DeskTypeOK, RowsTyped
<1>12. \A kind, key : ~Claiming(c, kind, key)'
  BY <1>5, <1>6 DEF Claiming, Desk!At
<1>13. /\ replaced' \in [Calls -> SUBSET retired]
       /\ \A d \in Calls : d # c \/ call[c].step # "none" => replaced'[d] = replaced[d]
  BY DEF DeskInv, LinksInv
<1>14. c \notin Publishers /\ ~Desk!At(c, "logApproval", "insert")'
  BY <1>5, <1>6 DEF Publishers, Desk!At
<1>15. \A kind, key : Effect(kind, key) => Effect(kind, key)'
  BY DEF Effect
<1>16. QED
  BY <1>5, <1>6, <1>10, <1>11, <1>12, <1>13, <1>14, <1>15, Proceeds

(* A step of a request that began writes at most intakes' statuses,        *)
(* referrals, applications, plans and questions.                           *)
LEMMA Writes ==
  ASSUME DeskInv, NEW c \in Calls, Moves(c), call[c].step \notin {"none", "log"}, RowsTyped',
         UNCHANGED <<Desk!history, logged, fresh, approvals>>,
         \A kind, key : Effect(kind, key) => Effect(kind, key)',
         \A kind, key : Claiming(c, kind, key)' => Claiming(c, kind, key) \/ ~Effect(kind, key),
         call[c].op = "resend" => call'[c].step # "mail",
         \A i \in Ids : intake'[i].token = intake[i].token,
         c \in Publishers => c \in Publishers',
         call[c].op = "resend" /\ call'[c].step \in {"cooldown", "mail"} =>
           call'[c].ref \notin replaced[c],
         plans \subseteq plans', \A q \in plans' \ plans : q.id = c,
         Desk!At(c, "logApproval", "insert")' =>
           Newest(plans, ended[c], call'[c].on, call'[c].ref)
  PROVE  DeskInv'
<1>1. replaced' \in [Calls -> SUBSET retired] /\ UNCHANGED <<granted, mails, recent, retired, replaced>>
  BY DEF Desk!history, DeskInv, LinksInv
<1>2. QED
  BY <1>1, Proceeds

LEMMA Looks ==
  ASSUME DeskInv, NEW c \in Calls, Moves(c), call[c].step \notin {"none", "log"},
         UNCHANGED <<Desk!rows, Desk!history>>,
         \A kind, key : Claiming(c, kind, key)' => Claiming(c, kind, key) \/ ~Effect(kind, key),
         call[c].op = "resend" => call'[c].step # "mail",
         c \in Publishers => c \in Publishers',
         call[c].op = "resend" /\ call'[c].step \in {"cooldown", "mail"} =>
           call'[c].ref \notin replaced[c],
         Desk!At(c, "logApproval", "insert")' =>
           Newest(plans, ended[c], call'[c].on, call'[c].ref)
  PROVE  DeskInv'
<1>1. UNCHANGED <<intake, referral, linked, plans, approvals, logged, fresh>>
  BY DEF Desk!rows
<1>2. RowsTyped' /\ \A kind, key : Effect(kind, key) => Effect(kind, key)'
  BY <1>1 DEF DeskInv, DeskTypeOK, RowsTyped, Effect
<1>3. QED
  BY <1>1, <1>2, Writes

LEMMA ReturnsClaimNothing ==
  ASSUME NEW c \in Calls, call'[c].step \in {"returned", "write", "cooldown", "mail", "application"}
  PROVE  \A kind, key : ~Claiming(c, kind, key)'
  BY DEF Claiming, Desk!At

LEMMA FailsKeeps ==
  ASSUME DeskInv, NEW c \in Calls, Desk!Fails(c)
  PROVE  DeskInv'
<1> USE DEF Desk!Fails, Desk!Return, DeskInv
<1>1. Moves(c) /\ call'[c].step = "returned"
  BY GoesTo DEF Desk!history
<1>2. QED
  BY <1>1, Looks, ReturnsClaimNothing DEF Publishers, Desk!At

LEMMA SubmitKeeps ==
  ASSUME DeskInv, NEW c \in Calls, Desk!Submit(c)
  PROVE  DeskInv'
<1> USE DEF Desk!Submit, Desk!Return, DeskInv, Desk!At
<1>1. ended' = ended /\ (call[c].ref # Nothing => call[c].ref \in Codes)
  BY DEF Desk!history, DeskTypeOK, Placed
<1>2. Moves(c) /\ call'[c].step \in {"write", "returned"} /\ call'[c].op = "submit"
  BY <1>1, GoesTo
<1>3. RowsTyped' /\ \A i \in Ids : intake'[i].token = intake[i].token
  BY DeskNames DEF DeskTypeOK, RowsTyped, Desk!InsertIntake, Desk!Statuses
<1>4. \A kind, key : Effect(kind, key) => Effect(kind, key)'
  BY DEF Effect
<1>5. QED
  BY <1>2, <1>3, <1>4, Writes, ReturnsClaimNothing DEF Publishers

LEMMA ReadReferralKeeps ==
  ASSUME DeskInv, NEW c \in Calls, Desk!ReadReferral(c)
  PROVE  DeskInv'
<1> USE DEF Desk!ReadReferral, Desk!Return, DeskInv, Desk!At
<1>1. ended' = ended /\ call[c].ref \in Codes
  BY DEF Desk!history, DeskTypeOK, Placed
<1>2. CASE Desk!Redeemable(call[c].ref)
  <2>1. /\ Moves(c) /\ call'[c].step = "use" /\ call'[c].op = "submit"
        /\ call'[c].ref = call[c].ref
    BY <1>1, <1>2, GoesTo
  <2>2. \A kind, key : Claiming(c, kind, key)' => ~Effect(kind, key)
    BY <1>2, <2>1 DEF Claiming, Effect, Desk!Redeemable
  <2>3. QED
    BY <2>1, <2>2, Looks DEF Publishers
<1>3. CASE ~Desk!Redeemable(call[c].ref)
  <2>1. Moves(c) /\ call'[c].step = "returned"
    BY <1>1, <1>3, GoesTo
  <2>2. QED
    BY <2>1, Looks, ReturnsClaimNothing DEF Publishers
<1>4. QED
  BY <1>2, <1>3

LEMMA UseReferralKeeps ==
  ASSUME DeskInv, NEW c \in Calls, Desk!UseReferral(c)
  PROVE  DeskInv'
<1> USE DEF Desk!UseReferral, Desk!Return, Desk!At, DeskInv
<1>1. /\ call[c].ref \in Codes /\ Moves(c) /\ call'[c].step = "returned"
      /\ call'[c].op = call[c].op
  BY GoesTo DEF DeskTypeOK, Placed
<1>2. /\ RowsTyped'
      /\ \A k \in Codes : /\ referral'[k].referrer = referral[k].referrer
                           /\ referral'[k].status = IF k = call[c].ref THEN "used" ELSE referral[k].status
  BY <1>1, DeskNames DEF DeskTypeOK, RowsTyped
<1>3. \A kind, key : Effect(kind, key) => Effect(kind, key)'
  <2>1. linked' = linked
    OBVIOUS
  <2>2. QED
    BY ONLY <1>2, <2>1, EffectsStay
<1>4. GrantsInv'
  <2>1. PICK key \in Codes : key = call[c].ref
    BY <1>1
  <2>2. Effect("discount", key)' /\ Claiming(c, "discount", key)
    BY <1>2, <2>1 DEF Effect, Claiming
  <2>3. Desk!Grant("discount", key, c)
    BY <2>1
  <2>4. QED
    BY <1>1, <1>3, <2>2, <2>3, GrantGiven, ReturnsClaimNothing
<1>5. MailsInv' /\ DeskTypeOK'
  BY <1>1, <1>2, MailsKeep, TypesKeep
<1>6. LinksInv'
  BY <1>1, LinksKeep DEF LinksInv, Publishers
<1>7. PlansInv'
  BY <1>1, PlansKeep
<1>8. QED
  BY <1>4, <1>5, <1>6, <1>7

LEMMA FindCodeKeeps ==
  ASSUME DeskInv, NEW c \in Calls, Desk!FindCode(c)
  PROVE  DeskInv'
<1> USE DEF Desk!FindCode, Desk!Return, Desk!At, DeskInv
<1>1. CASE Desk!OwnCodes(call[c].on) # {} /\ Desk!Return(c)
  <2>1. Moves(c) /\ call'[c].step = "returned"
    BY <1>1, GoesTo DEF Desk!history
  <2>2. QED
    BY <2>1, Looks, ReturnsClaimNothing DEF Publishers
<1>2. CASE Desk!OwnCodes(call[c].on) = {}
  <2>1. PICK k \in Codes : call' = [call EXCEPT ![c].step = "insert", ![c].ref = k]
    BY <1>2
  <2> DEFINE x == [call[c] EXCEPT !.step = "insert", !.ref = k]
  <2>2. /\ x \in DeskCalls /\ x.step = "insert" /\ x.op = "createCode" /\ x.on = call[c].on
        /\ x.ref = k
    BY ZenonT(60) DEF DeskTypeOK, CallsTyped, DeskCalls
  <2>3. call' = [call EXCEPT ![c] = x]
    BY <2>1
  <2> HIDE DEF x
  <2>4. Moves(c) /\ call'[c] = x
    BY <2>2, <2>3, GoesOn, ZenonT(60) DEF Desk!history
  <2>5. \A kind, key : Claiming(c, kind, key)' => ~Effect(kind, key)
    BY <1>2, <2>2, <2>4 DEF Claiming, Effect, Desk!OwnCodes
  <2>6. QED
    BY <2>2, <2>4, <2>5, Looks DEF Publishers
<1>3. QED
  BY <1>1, <1>2

LEMMA InsertCodeKeeps ==
  ASSUME DeskInv, NEW c \in Calls, Desk!InsertCode(c)
  PROVE  DeskInv'
<1> USE DEF Desk!InsertCode, Desk!Return, Desk!At, DeskInv
<1>1. /\ call[c].ref \in Codes /\ Moves(c) /\ call'[c].step = "returned" /\ call[c] \in DeskCalls
      /\ call'[c].op = call[c].op
  BY GoesTo DEF DeskTypeOK, Placed, CallsTyped
<1>2. PICK key \in Ids \cup {Nothing}, k \in Codes : key = call[c].on /\ k = call[c].ref
  BY <1>1 DEF DeskCalls
<1>3. /\ RowsTyped'
      /\ \A j \in Codes : j # k => referral'[j] = referral[j]
      /\ referral'[k].referrer = key /\ referral'[k].status = "pending"
      /\ referral[k].status = "none"
  <2> DEFINE new == [Desk!NoCode EXCEPT !.referrer = key, !.status = "pending"]
  <2>1. /\ new.referrer = key /\ new.status = "pending"
        /\ new \in [referrer : Ids \cup {Nothing}, status : {"none", "pending", "used"},
                   referee : Ids \cup {Nothing}, paid : BOOLEAN]
    BY DEF Desk!NoCode
  <2>2. referral' = [referral EXCEPT ![k] = new] /\ referral[k].status = "none"
    BY <1>2
  <2> HIDE DEF new
  <2>3. referral \in [Codes -> [referrer : Ids \cup {Nothing}, status : {"none", "pending", "used"},
                                referee : Ids \cup {Nothing}, paid : BOOLEAN]]
    BY DEF DeskTypeOK, RowsTyped
  <2>4. /\ referral' \in [Codes -> [referrer : Ids \cup {Nothing}, status : {"none", "pending", "used"},
                                    referee : Ids \cup {Nothing}, paid : BOOLEAN]]
        /\ referral'[k] = new /\ \A j \in Codes : j # k => referral'[j] = referral[j]
    BY ONLY <2>1, <2>2, <2>3
  <2>5. RowsTyped'
    BY <2>4 DEF DeskTypeOK, RowsTyped
  <2>6. QED
    BY ONLY <2>1, <2>2, <2>4, <2>5
<1>4. \A kind, x : Effect(kind, x) => Effect(kind, x)'
  <2>1. linked' = linked
    OBVIOUS
  <2>2. QED
    BY ONLY <1>3, <2>1, EffectsStay
<1>5. GrantsInv'
  <2>1. Effect("code", key)' /\ Claiming(c, "code", key)
    BY <1>2, <1>3 DEF Effect, Claiming
  <2>2. Desk!Grant("code", key, c)
    BY <1>2
  <2>3. QED
    BY <1>1, <1>4, <2>1, <2>2, GrantGiven, ReturnsClaimNothing
<1>6. MailsInv' /\ DeskTypeOK'
  BY <1>1, <1>3, MailsKeep, TypesKeep
<1>7. LinksInv'
  BY <1>1, LinksKeep DEF LinksInv, Publishers
<1>8. PlansInv'
  BY <1>1, PlansKeep
<1>9. QED
  BY <1>5, <1>6, <1>7, <1>8

LEMMA MarkPaidKeeps ==
  ASSUME DeskInv, NEW c \in Calls, Desk!MarkPaid(c)
  PROVE  DeskInv'
<1> USE DEF Desk!MarkPaid, Desk!Return, Desk!At, DeskInv
<1>1. Moves(c) /\ call'[c].step = "returned"
  BY GoesTo DEF Desk!history
<1>2. /\ RowsTyped'
      /\ \A k \in Codes : /\ referral'[k].referrer = referral[k].referrer
                           /\ referral'[k].status = referral[k].status
  BY ZenonT(60) DEF DeskTypeOK, RowsTyped
<1>3. \A kind, key : Effect(kind, key) => Effect(kind, key)'
  <2>1. linked' = linked
    OBVIOUS
  <2>2. QED
    BY ONLY <1>2, <2>1, EffectsStay
<1>4. QED
  BY <1>1, <1>2, <1>3, Writes, ReturnsClaimNothing DEF Publishers

(* A link for intake i: its old token retires, and the new one is of a     *)
(* request of which none bore the name.                                    *)
LEMMA PublishKeepsLinks ==
  ASSUME DeskInv, NEW c \in Calls, NEW i \in Ids, Moves(c), Desk!Publish(c, i),
         call[c].step \in {"begin", "publish"}, call'[c].op # "resend", c \in Publishers',
         UNCHANGED mails
  PROVE  LinksInv' /\ intake' \in [Ids -> [status : Desk!Statuses \cup {"none"}, token : Ids \cup {Nothing}]]
<1> USE DEF DeskInv, LinksInv
<1> DEFINE old == {intake[i].token} \ {Nothing}
<1>1. c \notin Publishers /\ c \notin Customers \cup {Nothing} /\ c \in Ids
  BY DeskNames DEF Publishers
<1>2. /\ intake \in [Ids -> [status : Desk!Statuses \cup {"none"}, token : Ids \cup {Nothing}]]
      /\ intake' = [intake EXCEPT ![i] = [status |-> "ready_for_review", token |-> c]]
  BY DEF Desk!Publish, DeskTypeOK, RowsTyped
<1>3. intake' \in [Ids -> [status : Desk!Statuses \cup {"none"}, token : Ids \cup {Nothing}]]
  BY <1>1, <1>2 DEF Desk!Statuses
<1>4. intake'[i].token = c /\ \A j \in Ids : j # i => intake'[j] = intake[j]
  BY <1>2
<1>5. /\ retired' = retired \cup old
      /\ replaced' = [replaced EXCEPT ![c] = @ \cup old]
  BY DEF Desk!Publish
<1>6. Publishers \subseteq Publishers'
  BY DEF Publishers, Moves
<1>7. old \subseteq Publishers \cup Customers /\ c \notin retired \cup old
  BY <1>1
<1>8. \A j \in Ids : j # i => intake[j].token \notin old
  OBVIOUS
<1> HIDE DEF old
<1>9. /\ retired' \subseteq Publishers' \cup Customers
      /\ \A j \in Ids : intake'[j].token \in Publishers' \cup Customers \cup {Nothing}
      /\ \A j \in Ids : intake'[j].token \notin retired'
  BY <1>4, <1>5, <1>6, <1>7, <1>8
<1>10. \A j, k \in Ids : intake'[j].token = intake'[k].token => j = k \/ intake'[j].token = Nothing
  BY <1>1, <1>4
<1>11. /\ replaced' \in [Calls -> SUBSET retired'] /\ replaced'[c] = replaced[c] \cup old
       /\ \A d \in Calls : d # c => replaced'[d] = replaced[d]
  BY <1>5
<1>12. \A d \in Calls : d \notin replaced'[d]
  BY <1>7, <1>11
<1>13. \A d \in Calls : call'[d].op = "resend" /\ call'[d].step \in {"cooldown", "mail"} =>
         call'[d].ref \notin replaced'[d]
  BY <1>11 DEF Moves
<1>14. \A m \in mails' : m.call \in Calls /\ call'[m.call].step \in {"log", "returned"}
                        /\ m.token \notin replaced'[m.call]
  BY <1>11 DEF Moves, Desk!LinksAreCurrent
<1>15. QED
  BY <1>3, <1>9, <1>10, <1>11, <1>12, <1>13, <1>14 DEF Desk!LinksAreCurrent

LEMMA PublishKeeps ==
  ASSUME DeskInv, NEW c \in Calls, NEW i \in Ids, Moves(c), Desk!Publish(c, i),
         call[c].step \in {"begin", "publish"}, call'[c].op # "resend", c \in Publishers',
         call[c].op = call'[c].op,
         UNCHANGED <<referral, linked, plans, approvals, logged, fresh, granted, mails, recent>>,
         \A kind, key : Claiming(c, kind, key)' => Claiming(c, kind, key),
         call'[c].step # "insert"
  PROVE  DeskInv'
<1> USE DEF DeskInv
<1>1. LinksInv' /\ intake' \in [Ids -> [status : Desk!Statuses \cup {"none"}, token : Ids \cup {Nothing}]]
  BY PublishKeepsLinks
<1>2. RowsTyped'
  BY <1>1 DEF DeskTypeOK, RowsTyped
<1>3. \A kind, key : Effect(kind, key) => Effect(kind, key)'
  BY DEF Effect
<1>4. GrantsInv'
  BY <1>3, GrantsKeep
<1>5. MailsInv' /\ DeskTypeOK'
  BY <1>2, MailsKeep, TypesKeep
<1>6. PlansInv'
  BY PlansKeep DEF Desk!At
<1>7. QED
  BY <1>1, <1>4, <1>5, <1>6

LEMMA PublishOwnKeeps ==
  ASSUME DeskInv, NEW c \in Calls, Desk!PublishOwn(c)
  PROVE  DeskInv'
<1> USE DEF Desk!PublishOwn
<1>0. call[c].op \in {"apply", "approve"}
  BY DEF DeskInv, DeskTypeOK, Placed
<1>1. /\ Moves(c) /\ call'[c].op = call[c].op /\ call'[c].ref = call[c].ref
      /\ call'[c].step \in {"application", "link"}
      /\ call[c].op = "apply" => call'[c].step = "application"
  BY <1>0, GoesTo DEF DeskInv
<1>2. \A kind, key : Claiming(c, kind, key)' => Claiming(c, kind, key)
  BY <1>1 DEF Claiming, Desk!At
<1>3. c \in Ids /\ c \in Publishers'
  BY <1>1, DeskNames DEF Publishers
<1>4. QED
  BY <1>0, <1>1, <1>2, <1>3, PublishKeeps

LEMMA ApplyKeeps ==
  ASSUME DeskInv, NEW c \in Calls, Desk!Apply(c)
  PROVE  DeskInv'
<1> USE DEF Desk!Apply, Desk!Return, DeskInv, Desk!At
<1>1. Moves(c) /\ call'[c].step = "publish" /\ call'[c].op = "apply"
  BY GoesTo DEF Desk!history
<1>2. RowsTyped' /\ \A i \in Ids : intake'[i].token = intake[i].token
  BY DeskNames DEF DeskTypeOK, RowsTyped, Desk!InsertIntake, Desk!Statuses
<1>3. /\ \A kind, key : Effect(kind, key) => Effect(kind, key)'
      /\ \A kind, key : ~Claiming(c, kind, key)'
  BY <1>1 DEF Effect, Claiming
<1>4. QED
  BY <1>1, <1>2, <1>3, Writes DEF Publishers

LEMMA InsertApplicationKeeps ==
  ASSUME DeskInv, NEW c \in Calls, Desk!InsertApplication(c)
  PROVE  DeskInv'
<1> USE DEF Desk!InsertApplication, Desk!Return, DeskInv, Desk!At
<1>1. Moves(c) /\ call'[c].step = "mail" /\ call'[c].op = "apply"
  BY GoesTo DEF Desk!history
<1>2. RowsTyped'
  BY DEF DeskTypeOK, RowsTyped
<1>3. \A a \in Applications \cup Calls : linked[a] # Nothing => linked'[a] # Nothing
  BY DeskNames DEF DeskTypeOK, RowsTyped
<1>4. \A kind, key : Effect(kind, key) => Effect(kind, key)'
  <2>1. referral' = referral
    OBVIOUS
  <2>2. QED
    BY ONLY <1>3, <2>1, EffectsStay
<1>5. QED
  BY <1>1, <1>2, <1>4, Writes, ReturnsClaimNothing DEF Publishers

LEMMA ReadApplicationKeeps ==
  ASSUME DeskInv, NEW c \in Calls, Desk!ReadApplication(c)
  PROVE  DeskInv'
<1> USE DEF Desk!ReadApplication, Desk!Return, DeskInv, Desk!At
<1>1. CASE Desk!Return(c)
  <2>1. Moves(c) /\ call'[c].step = "returned"
    BY <1>1, GoesTo DEF Desk!history
  <2>2. QED
    BY <2>1, Looks, ReturnsClaimNothing DEF Publishers
<1>2. CASE Desk!MayApprove(call[c].ref) /\ Desk!Goto(c, "insert")
  <2>1. /\ Moves(c) /\ call'[c].step = "insert" /\ call'[c].op = "approve"
        /\ call'[c].ref = call[c].ref
    BY <1>2, GoesTo DEF Desk!history
  <2>2. \A kind, key : Claiming(c, kind, key)' => ~Effect(kind, key)
    BY <1>2, <2>1 DEF Claiming, Effect, Desk!MayApprove
  <2>3. QED
    BY <2>1, <2>2, Looks DEF Publishers
<1>3. QED
  BY <1>1, <1>2

LEMMA ApproveInsertKeeps ==
  ASSUME DeskInv, NEW c \in Calls, Desk!ApproveInsert(c)
  PROVE  DeskInv'
<1> USE DEF Desk!ApproveInsert, Desk!Return, DeskInv, Desk!At
<1>1. PICK step \in {"plan", "link"} : Desk!Goto(c, step)
  OBVIOUS
<1>2. /\ Moves(c) /\ call'[c].step = step /\ call'[c].op = "approve"
      /\ call'[c].ref = call[c].ref
  BY <1>1, GoesTo DEF Desk!history
<1>3. RowsTyped' /\ \A i \in Ids : intake'[i].token = intake[i].token
  BY DeskNames DEF DeskTypeOK, RowsTyped, Desk!InsertIntake, Desk!Statuses
<1>4. /\ \A kind, key : Effect(kind, key) => Effect(kind, key)'
      /\ \A kind, key : Claiming(c, kind, key)' => Claiming(c, kind, key)
  BY <1>2 DEF Effect, Claiming
<1>5. QED
  BY <1>2, <1>3, <1>4, Writes DEF Publishers

LEMMA LinkApplicationKeeps ==
  ASSUME DeskInv, NEW c \in Calls, Desk!LinkApplication(c)
  PROVE  DeskInv'
<1> USE DEF Desk!LinkApplication, Desk!Return, Desk!At, DeskInv
<1>1. PICK step \in {"returned", "mail"} : Desk!Goto(c, step)
  OBVIOUS
<1>2. /\ call[c].ref \in Applications \cup Calls /\ Moves(c) /\ call'[c].step = step
      /\ call'[c].op = call[c].op
  BY <1>1, GoesTo DEF DeskTypeOK, Placed
<1>3. PICK key \in Applications \cup Calls : key = call[c].ref
  BY <1>2
<1>4. /\ RowsTyped' /\ linked'[key] # Nothing
      /\ \A a \in Applications \cup Calls : linked[a] # Nothing => linked'[a] # Nothing
  BY <1>3, DeskNames DEF DeskTypeOK, RowsTyped
<1>5. \A kind, x : Effect(kind, x) => Effect(kind, x)'
  <2>1. referral' = referral
    OBVIOUS
  <2>2. QED
    BY ONLY <1>4, <2>1, EffectsStay
<1>6. GrantsInv'
  <2>1. Effect("intake", key)' /\ Claiming(c, "intake", key)
    BY <1>3, <1>4 DEF Effect, Claiming
  <2>2. Desk!Grant("intake", key, c)
    BY <1>3
  <2>3. QED
    BY <1>2, <1>5, <2>1, <2>2, GrantGiven, ReturnsClaimNothing
<1>7. MailsInv' /\ DeskTypeOK'
  BY <1>2, <1>4, MailsKeep, TypesKeep
<1>8. LinksInv'
  BY <1>2, LinksKeep DEF LinksInv, Publishers
<1>9. PlansInv'
  BY <1>2, PlansKeep
<1>10. QED
  BY <1>6, <1>7, <1>8, <1>9

LEMMA UpdateStatusKeeps ==
  ASSUME DeskInv, NEW c \in Calls, Desk!UpdateStatus(c)
  PROVE  DeskInv'
<1> USE DEF Desk!UpdateStatus, Desk!Return, DeskInv, Desk!At
<1>1. PICK i \in Ids : i = call[c].on
  BY DEF DeskTypeOK, Placed, OnIntakes
<1>2. CASE Desk!Publish(c, i) /\ Desk!Goto(c, "mail")
  <2>1. Moves(c) /\ call'[c].step = "mail" /\ call'[c].op = "updateStatus"
    BY <1>2, GoesTo
  <2>2. /\ \A kind, key : Claiming(c, kind, key)' => Claiming(c, kind, key)
        /\ c \in Publishers'
    BY <2>1, ReturnsClaimNothing DEF Publishers
  <2>3. QED
    BY <1>2, <2>1, <2>2, PublishKeeps
<1>3. CASE /\ \E s \in Desk!Statuses \ {"ready_for_review"} :
                intake' = [intake EXCEPT ![call[c].on].status = s]
           /\ Desk!Return(c) /\ UNCHANGED <<retired, replaced>>
  <2>1. Moves(c) /\ call'[c].step = "returned"
    BY <1>3, GoesTo
  <2>2. PICK s \in Desk!Statuses : intake' = [intake EXCEPT ![i].status = s]
    BY <1>1, <1>3
  <2>3. RowsTyped' /\ \A j \in Ids : intake'[j].token = intake[j].token
    BY <2>2 DEF DeskTypeOK, RowsTyped
  <2>4. \A kind, key : Effect(kind, key) => Effect(kind, key)'
    BY DEF Effect
  <2>5. UNCHANGED Desk!history
    BY <1>3 DEF Desk!history
  <2>6. QED
    BY <2>1, <2>3, <2>4, <2>5, Writes, ReturnsClaimNothing DEF Publishers
<1>4. QED
  BY <1>1, <1>2, <1>3

LEMMA SetStatusKeeps ==
  ASSUME DeskInv, NEW c \in Calls, Desk!SetStatus(c)
  PROVE  DeskInv'
<1> USE DEF Desk!SetStatus, Desk!Return, DeskInv, Desk!At
<1>1. Moves(c) /\ call'[c].step = "returned"
  BY GoesTo DEF Desk!history
<1>2. PICK s \in Desk!Statuses : intake' = [intake EXCEPT ![call[c].on].status = s]
  BY DEF Desk!Statuses
<1>3. RowsTyped' /\ \A j \in Ids : intake'[j].token = intake[j].token
  <2>1. PICK i \in Ids : i = call[c].on
    BY DEF DeskTypeOK, Placed, OnIntakes
  <2>2. QED
    BY <1>2, <2>1 DEF DeskTypeOK, RowsTyped
<1>4. \A kind, key : Effect(kind, key) => Effect(kind, key)'
  BY DEF Effect
<1>5. QED
  BY <1>1, <1>3, <1>4, Writes, ReturnsClaimNothing DEF Publishers

LEMMA ReadIntakeKeeps ==
  ASSUME DeskInv, NEW c \in Calls, Desk!ReadIntake(c)
  PROVE  DeskInv'
<1> USE DEF Desk!ReadIntake, Desk!Return, DeskInv, Desk!At
<1> DEFINE i == intake[call[c].on]
<1>1. CASE ~Desk!MayResend(i)
  <2>1. Moves(c) /\ call'[c].step = "returned"
    BY <1>1, GoesTo DEF Desk!history
  <2>2. QED
    BY <2>1, Looks, ReturnsClaimNothing DEF Publishers
<1>2. CASE Desk!MayResend(i)
  <2>1. call[c] \in DeskCalls /\ call[c].on \in Ids
    BY DEF DeskTypeOK, CallsTyped, Placed, OnIntakes
  <2> DEFINE x == [call[c] EXCEPT !.step = "cooldown", !.ref = i.token]
  <2>2. i.token \in Ids /\ i.token \notin retired
    BY <1>2, <2>1 DEF DeskTypeOK, RowsTyped, LinksInv, Desk!MayResend
  <2>3. /\ x \in DeskCalls /\ x.step = "cooldown" /\ x.op = "resend" /\ x.on = call[c].on
        /\ x.ref = i.token
    BY <2>1, <2>2 DEF DeskCalls
  <2>4. call' = [call EXCEPT ![c] = x]
    BY <1>2
  <2> HIDE DEF x
  <2>5. Moves(c) /\ call'[c] = x
    BY <2>3, <2>4, GoesOn DEF Desk!history
  <2>6. call'[c].ref \notin replaced[c]
    BY <2>2, <2>3, <2>5 DEF LinksInv
  <2>7. QED
    BY <2>3, <2>5, <2>6, Looks, ReturnsClaimNothing DEF Publishers
<1>3. QED
  BY <1>1, <1>2

LEMMA CheckCooldownKeeps ==
  ASSUME DeskInv, NEW c \in Calls, Desk!CheckCooldown(c)
  PROVE  DeskInv'
<1> USE DEF Desk!CheckCooldown, Desk!Return, DeskInv, Desk!At
<1>1. CASE Desk!CoolingDown(call[c].on)
  <2>1. Moves(c) /\ call'[c].step = "returned"
    BY <1>1, GoesTo DEF Desk!history
  <2>2. QED
    BY <2>1, Looks, ReturnsClaimNothing DEF Publishers
<1>2. CASE ~Desk!CoolingDown(call[c].on)
  <2>1. /\ Moves(c) /\ call'[c].step = "mail" /\ call'[c].op = "resend"
        /\ call'[c].on = call[c].on /\ call'[c].ref = call[c].ref
    BY <1>2, GoesTo DEF Desk!history
  <2>2. UNCHANGED <<intake, referral, linked, plans, approvals, logged, fresh, granted, mails,
                    recent, retired, replaced>>
    BY DEF Desk!rows, Desk!history
  <2>3. RowsTyped' /\ \A kind, key : Effect(kind, key) => Effect(kind, key)'
    BY <2>2 DEF DeskTypeOK, RowsTyped, Effect
  <2>4. DeskTypeOK' /\ GrantsInv'
    BY <2>1, <2>2, <2>3, TypesKeep, GrantsKeep, ReturnsClaimNothing
  <2>5. \A e \in recent \cap logged : call[e].on # call[c].on
    BY <1>2 DEF Desk!CoolingDown, MailsInv
  <2>6. MailsInv'
    BY <2>1, <2>2, <2>5 DEF MailsInv, Moves
  <2>7. LinksInv'
    BY <2>1, <2>2, LinksKeep DEF LinksInv, Publishers
  <2>8. PlansInv'
    BY <2>1, <2>2, PlansKeep
  <2>9. QED
    BY <2>4, <2>6, <2>7, <2>8
<1>3. QED
  BY <1>1, <1>2

LEMMA SendMailKeeps ==
  ASSUME DeskInv, NEW c \in Calls, Desk!SendMail(c)
  PROVE  DeskInv'
<1> USE DEF Desk!SendMail, DeskInv, Desk!At
<1>1. Moves(c) /\ call'[c].step = "log" /\ call'[c].op = call[c].op /\ call'[c].on = call[c].on
  BY GoesTo
<1>2. UNCHANGED <<intake, referral, linked, plans, approvals, logged, fresh, granted, retired, replaced>>
  BY DEF Desk!rows
<1>3. RowsTyped' /\ \A kind, key : Effect(kind, key) => Effect(kind, key)'
  BY <1>2 DEF DeskTypeOK, RowsTyped, Effect
<1>4. \A kind, key : ~Claiming(c, kind, key)'
  BY <1>1 DEF Claiming
<1>5. DeskTypeOK' /\ GrantsInv'
  BY <1>1, <1>2, <1>3, <1>4, TypesKeep, GrantsKeep
<1>6. MailsInv'
  <2>1. c \notin logged /\ recent' = recent \cup {c}
    BY DEF MailsInv
  <2>2. ASSUME NEW d \in Calls, call'[d].op = "resend", d \in recent' \/ call'[d].step = "mail",
               NEW e \in recent' \cap ended'[d] \cap logged
        PROVE  call'[e].on # call'[d].on
    <3>1. e # c /\ call'[e] = call[e] /\ e \in recent \cap ended[d] \cap logged
      BY <1>1, <2>1, <2>2 DEF Moves, MailsInv
    <3>2. call[d].op = "resend" /\ (d \in recent \/ call[d].step = "mail") /\ call'[d].on = call[d].on
      BY <1>1, <2>1, <2>2 DEF Moves
    <3>3. QED
      BY <3>1, <3>2 DEF MailsInv
  <2>3. QED
    BY <1>1, <1>2, <2>1, <2>2 DEF MailsInv, Moves
<1>7. LinksInv'
  <2> DEFINE m == [call |-> c, intake |-> call[c].on, token |-> Desk!LinkFor(c)]
  <2>1. mails' = mails \cup {m} /\ m.call = c /\ m.token \notin replaced[c]
    BY DEF Desk!LinkFor, LinksInv
  <2> HIDE DEF m
  <2>2. Publishers \subseteq Publishers'
    BY <1>1 DEF Publishers, Moves
  <2>3. /\ retired' \subseteq Publishers' \cup Customers
        /\ \A i \in Ids : intake'[i].token \in Publishers' \cup Customers \cup {Nothing}
        /\ \A i \in Ids : intake'[i].token \notin retired'
        /\ \A i, j \in Ids : intake'[i].token = intake'[j].token => i = j \/ intake'[i].token = Nothing
        /\ replaced' \in [Calls -> SUBSET retired']
        /\ \A d \in Calls : d \notin replaced'[d]
    BY <1>2, <2>2 DEF LinksInv
  <2>4. \A d \in Calls : call'[d].op = "resend" /\ call'[d].step \in {"cooldown", "mail"} =>
          call'[d].ref \notin replaced'[d]
    BY <1>1, <1>2 DEF LinksInv, Moves
  <2>5. \A n \in mails' : n.call \in Calls /\ call'[n.call].step \in {"log", "returned"}
                         /\ n.token \notin replaced'[n.call]
    BY <1>1, <1>2, <2>1 DEF LinksInv, Moves, Desk!LinksAreCurrent
  <2>6. QED
    BY <2>3, <2>4, <2>5 DEF LinksInv, Desk!LinksAreCurrent
<1>8. PlansInv'
  BY <1>1, <1>2, PlansKeep
<1>9. QED
  BY <1>5, <1>6, <1>7, <1>8

LEMMA LogMailKeeps ==
  ASSUME DeskInv, NEW c \in Calls, Desk!LogMail(c)
  PROVE  DeskInv'
<1> USE DEF Desk!LogMail, Desk!Return, DeskInv, Desk!At
<1>1. UNCHANGED <<intake, referral, linked, plans, approvals, ended, granted, mails, recent, retired,
                  replaced>>
  BY DEF Desk!history
<1>2. Moves(c) /\ call'[c].step = "returned" /\ call'[c].op = call[c].op /\ call'[c].on = call[c].on
  BY <1>1, GoesTo
<1>3. RowsTyped' /\ \A kind, key : Effect(kind, key) => Effect(kind, key)'
  BY <1>1 DEF DeskTypeOK, RowsTyped, Effect
<1>4. DeskTypeOK' /\ GrantsInv'
  BY <1>1, <1>2, <1>3, TypesKeep, GrantsKeep, ReturnsClaimNothing
<1>5. MailsInv'
  <2>1. /\ logged' \subseteq logged \cup {c} /\ recent \cap logged' \subseteq fresh'
        /\ \A d \in Calls : c \notin ended'[d] /\ ended'[d] = ended[d] /\ call'[d].on = call[d].on
    BY <1>1, <1>2 DEF MailsInv, Moves
  <2>2. /\ \A d \in recent : call'[d].step \in {"log", "returned"}
        /\ \A d \in logged' : call'[d].step = "returned"
    BY <1>2, <2>1 DEF MailsInv, Moves
  <2>3. QED
    BY <1>1, <1>2, <2>1, <2>2 DEF MailsInv, Moves
<1>6. LinksInv'
  BY <1>1, <1>2, LinksKeep DEF LinksInv, Publishers
<1>7. PlansInv'
  BY <1>1, <1>2, PlansKeep
<1>8. QED
  BY <1>4, <1>5, <1>6, <1>7

LEMMA MinuteKeeps ==
  ASSUME DeskInv, NEW c \in Calls, Desk!Minute(c)
  PROVE  DeskInv'
<1> USE DEF Desk!Minute, DeskInv
<1>1. DeskTypeOK'
  BY DEF DeskTypeOK, RowsTyped, CallsTyped, Placed, Desk!At
<1>2. GrantsInv'
  BY DEF GrantsInv, Claiming, Effect, Desk!At, Desk!OnceUnlessOverlapping
<1>3. MailsInv'
  BY DEF MailsInv
<1>4. LinksInv'
  BY DEF LinksInv, Publishers, Desk!LinksAreCurrent
<1>5. PlansInv'
  BY DEF PlansInv, Desk!At
<1>6. QED
  BY <1>1, <1>2, <1>3, <1>4, <1>5

LEMMA InsertPlanKeeps ==
  ASSUME DeskInv, NEW c \in Calls, Desk!InsertPlan(c)
  PROVE  DeskInv'
<1> USE DEF Desk!InsertPlan, DeskInv, Desk!At
<1>1. PICK step \in {"publish", "returned"} :
        Desk!Goto(c, step) /\ (step = "publish" => call[c].op = "approve")
  OBVIOUS
<1>2. /\ Moves(c) /\ call'[c].step = step /\ call'[c].op = call[c].op
      /\ call'[c].ref = call[c].ref
  BY <1>1, GoesTo DEF Desk!history
<1>3. PICK s : plans' = plans \cup {[id |-> c, intake |-> call[c].on, second |-> s]}
  OBVIOUS
<1>4. plans \subseteq plans' /\ \A q \in plans' \ plans : q.id = c
  BY <1>3
<1>5. RowsTyped'
  BY <1>4, DeskNames DEF DeskTypeOK, RowsTyped
<1>6. /\ \A kind, key : Effect(kind, key) => Effect(kind, key)'
      /\ \A kind, key : Claiming(c, kind, key)' => Claiming(c, kind, key)
  BY <1>1, <1>2 DEF Effect, Claiming
<1>7. QED
  BY <1>2, <1>4, <1>5, <1>6, Writes DEF Publishers

LEMMA ReadPlanKeeps ==
  ASSUME DeskInv, NEW c \in Calls, Desk!ReadPlan(c)
  PROVE  DeskInv'
<1> USE DEF Desk!ReadPlan, Desk!Return, DeskInv, Desk!At
<1>1. CASE Desk!Return(c)
  <2>1. Moves(c) /\ call'[c].step = "returned"
    BY <1>1, GoesTo DEF Desk!history
  <2>2. QED
    BY <2>1, Looks, ReturnsClaimNothing DEF Publishers
<1>2. CASE \E p \in {p \in Desk!PlansOf(call[c].on) : Desk!IsNewest(p)} :
             call' = [call EXCEPT ![c].step = "insert", ![c].ref = p.id]
  <2>1. PICK p \in Desk!PlansOf(call[c].on) :
          Desk!IsNewest(p) /\ call' = [call EXCEPT ![c].step = "insert", ![c].ref = p.id]
    BY <1>2
  <2>2. p \in plans /\ p.intake = call[c].on /\ p.id \in Ids
    BY DEF Desk!PlansOf, DeskTypeOK, RowsTyped
  <2> DEFINE x == [call[c] EXCEPT !.step = "insert", !.ref = p.id]
  <2>3. /\ x \in DeskCalls /\ x.step = "insert" /\ x.op = "logApproval" /\ x.on = call[c].on
        /\ x.ref = p.id
    BY <2>2 DEF DeskTypeOK, CallsTyped, DeskCalls
  <2>4. call' = [call EXCEPT ![c] = x]
    BY <2>1
  <2> HIDE DEF x
  <2>5. Moves(c) /\ call'[c] = x
    BY <2>3, <2>4, GoesOn DEF Desk!history
  <2>6. Newest(plans, ended[c], call[c].on, p.id)
    BY <2>1, <2>2 DEF Newest, Desk!IsNewest, Desk!PlansOf
  <2>7. \A kind, key : ~Claiming(c, kind, key)'
    BY <2>3, <2>5 DEF Claiming
  <2>8. QED
    BY <2>3, <2>5, <2>6, <2>7, Looks DEF Publishers
<1>3. QED
  BY <1>1, <1>2

LEMMA InsertApprovalKeeps ==
  ASSUME DeskInv, NEW c \in Calls, Desk!InsertApproval(c)
  PROVE  DeskInv'
<1> USE DEF Desk!InsertApproval, Desk!Return, DeskInv, Desk!At
<1>1. UNCHANGED <<intake, referral, linked, plans, logged, fresh, ended, granted, mails, recent,
                  retired, replaced>>
  BY DEF Desk!history
<1>2. Moves(c) /\ call'[c].step = "returned" /\ call'[c].op = call[c].op
  BY <1>1, GoesTo
<1>3. RowsTyped' /\ \A kind, key : Effect(kind, key) => Effect(kind, key)'
  BY <1>1 DEF DeskTypeOK, RowsTyped, Effect
<1>4. DeskTypeOK' /\ GrantsInv' /\ MailsInv'
  BY <1>1, <1>2, <1>3, TypesKeep, GrantsKeep, MailsKeep, ReturnsClaimNothing
<1>5. LinksInv'
  BY <1>1, <1>2, LinksKeep DEF LinksInv, Publishers
<1>6. PlansInv'
  <2> DEFINE a == [by |-> c, intake |-> call[c].on, plan |-> call[c].ref]
  <2>1. /\ approvals' = approvals \cup {a} /\ a.by = c
        /\ Newest(plans, ended[c], a.intake, a.plan)
    BY DEF PlansInv
  <2> HIDE DEF a
  <2>2. \A b \in approvals' : b.by \in Calls /\ call'[b.by].step # "none"
                            /\ Newest(plans, ended[b.by], b.intake, b.plan)
    BY <1>2, <2>1 DEF PlansInv, Moves
  <2>3. \A d \in Calls : call'[d].op = "logApproval" /\ call'[d].step = "insert" =>
          Newest(plans, ended[d], call'[d].on, call'[d].ref)
    BY <1>2 DEF PlansInv, Moves
  <2>4. QED
    BY <1>1, <2>2, <2>3 DEF PlansInv
<1>7. QED
  BY <1>4, <1>5, <1>6

LEMMA ClarifyKeeps ==
  ASSUME DeskInv, NEW c \in Calls, Desk!Clarify(c)
  PROVE  DeskInv'
<1> USE DEF Desk!Clarify, Desk!Return, DeskInv, Desk!At
<1>1. Moves(c) /\ call'[c].step = "returned"
  BY GoesTo DEF Desk!history
<1>2. RowsTyped' /\ \A kind, key : Effect(kind, key) => Effect(kind, key)'
  BY DEF DeskTypeOK, RowsTyped, Effect
<1>3. QED
  BY <1>1, <1>2, Writes, ReturnsClaimNothing DEF Publishers

LEMMA DeskInitially == Desk!Init => DeskInv
<1> SUFFICES ASSUME Desk!Init PROVE DeskInv
  OBVIOUS
<1> USE DEF Desk!Init
<1>1. PICK linkless \in SUBSET Customers :
        intake = [i \in Desk!Intakes |-> IF i \notin Customers THEN Desk!NoIntake
          ELSE [status |-> "ready_for_review", token |-> IF i \in linkless THEN Nothing ELSE i]]
  OBVIOUS
<1>2. PICK k \in Codes, i \in Customers :
        referral = [x \in Codes |-> IF x # k THEN Desk!NoCode
          ELSE [Desk!NoCode EXCEPT !.referrer = i, !.status = "pending"]]
  OBVIOUS
<1>3. /\ call = [c \in Calls |-> Desk!NoCall] /\ ended = [c \in Calls |-> {}]
      /\ \A c \in Calls : call[c].step = "none" /\ call[c].op = "submit"
  BY DEF Desk!NoCall
<1>4. /\ intake \in [Ids -> [status : Desk!Statuses \cup {"none"}, token : Ids \cup {Nothing}]]
      /\ \A j \in Ids : intake[j].token = Nothing \/ (j \in Customers /\ intake[j].token = j)
  BY <1>1, DeskNames DEF Desk!NoIntake, Desk!Statuses, Ids
<1>5. referral \in [Codes -> [referrer : Ids \cup {Nothing}, status : {"none", "pending", "used"},
                             referee : Ids \cup {Nothing}, paid : BOOLEAN]]
  BY <1>2, DeskNames DEF Desk!NoCode
<1>6. RowsTyped
  BY <1>4, <1>5, DeskNames DEF RowsTyped
<1>7. CallsTyped /\ \A c \in Calls : Placed(c)
  BY <1>3 DEF CallsTyped, Placed, Desk!At, DeskCalls, Desk!NoCall, Desk!Ops
<1>8. GrantsInv /\ MailsInv
  BY <1>3 DEF GrantsInv, MailsInv, Desk!OnceUnlessOverlapping
<1>9. LinksInv
  <2>1. retired = {} /\ mails = {} /\ replaced = [c \in Calls |-> {}]
    OBVIOUS
  <2>2. \A a, b \in Ids : intake[a].token = intake[b].token => a = b \/ intake[a].token = Nothing
    BY ONLY <1>4
  <2>3. \A a \in Ids : intake[a].token \in Customers \cup {Nothing}
    BY ONLY <1>4
  <2>4. QED
    BY ONLY <1>3, <2>1, <2>2, <2>3 DEF LinksInv, Desk!LinksAreCurrent
<1>10. PlansInv
  BY <1>3 DEF PlansInv, Desk!At
<1>11. QED
  BY <1>6, <1>7, <1>8, <1>9, <1>10 DEF DeskInv, DeskTypeOK

LEMMA DeskInductive == DeskInv /\ Desk!Next => DeskInv'
<1> SUFFICES ASSUME DeskInv, NEW c \in Calls, Desk!Step(c) PROVE DeskInv'
  BY DEF Desk!Next
<1> QED
  BY BeginKeeps, FailsKeeps, SubmitKeeps, ReadReferralKeeps, UseReferralKeeps, FindCodeKeeps,
     InsertCodeKeeps, MarkPaidKeeps, ApplyKeeps, PublishOwnKeeps, InsertApplicationKeeps,
     ReadApplicationKeeps, ApproveInsertKeeps, LinkApplicationKeeps, UpdateStatusKeeps,
     SetStatusKeeps, ReadIntakeKeeps, CheckCooldownKeeps, SendMailKeeps, LogMailKeeps, MinuteKeeps,
     InsertPlanKeeps, ReadPlanKeeps, InsertApprovalKeeps, ClarifyKeeps DEF Desk!Step

LEMMA DeskAlways == AllSpec => [](part = "desk" => DeskInv)
<1>1. AllInit => (part = "desk" => DeskInv)
  BY DeskInitially DEF AllInit
<1>2. (part = "desk" => DeskInv) /\ [AllNext]_allVars => (part = "desk" => DeskInv)'
  <2> SUFFICES ASSUME part = "desk" => DeskInv, [AllNext]_allVars, part' = "desk"
               PROVE  DeskInv'
    OBVIOUS
  <2>1. CASE part = "desk" /\ Desk!Next
    BY <2>1, DeskInductive
  <2>2. CASE part = "desk" /\ UNCHANGED <<intake, referral, linked, plans, approvals, logged, fresh,
                                          call, ended, granted, mails, recent, retired, replaced>>
    <3>1. DeskTypeOK'
      BY <2>2 DEF DeskInv, DeskTypeOK, RowsTyped, CallsTyped, Placed, Desk!At
    <3>2. GrantsInv'
      BY <2>2 DEF DeskInv, GrantsInv, Claiming, Effect, Desk!At, Desk!OnceUnlessOverlapping
    <3>3. MailsInv'
      BY <2>2 DEF DeskInv, MailsInv
    <3>4. LinksInv'
      BY <2>2 DEF DeskInv, LinksInv, Publishers, Desk!LinksAreCurrent
    <3>5. PlansInv'
      BY <2>2 DEF DeskInv, PlansInv, Desk!At
    <3>6. QED
      BY <3>1, <3>2, <3>3, <3>4, <3>5 DEF DeskInv
  <2>3. QED
    BY <2>1, <2>2 DEF AllNext, allVars
<1>3. QED
  BY <1>1, <1>2, PTL DEF AllSpec

(* However requests fail, a code gives its discount, a customer gets a     *)
(* code and an application becomes an intake once, but for requests that   *)
(* overlap.                                                                *)
THEOREM GrantedOnce == AllSpec => []OnceUnlessOverlapping
<1>1. (part = "desk" => DeskInv) => OnceUnlessOverlapping
  BY DEF DeskInv, GrantsInv, OnceUnlessOverlapping
<1>2. QED
  BY <1>1, DeskAlways, PTL

(* A resend within a minute of a mail it had to know of sends nothing.     *)
THEOREM ResendsWait == AllSpec => []PreviewMailsSpaced
<1>1. (part = "desk" => DeskInv) => PreviewMailsSpaced
  BY DEF DeskInv, MailsInv, PreviewMailsSpaced, Desk!PreviewMailsSpaced
<1>2. QED
  BY <1>1, DeskAlways, PTL

(* No mail carries a link replaced before its request or by it.            *)
THEOREM LinksStayCurrent == AllSpec => []LinksAreCurrent
<1>1. (part = "desk" => DeskInv) => LinksAreCurrent
  BY DEF DeskInv, LinksInv, LinksAreCurrent
<1>2. QED
  BY <1>1, DeskAlways, PTL

(* An approval names the newest plan its request could read.               *)
THEOREM NewestIsApproved == AllSpec => []ApprovesNewestPlan
<1>1. (part = "desk" => DeskInv) => ApprovesNewestPlan
  BY DEF DeskInv, PlansInv, Newest, ApprovesNewestPlan, Desk!ApprovesNewestPlan, Desk!PlansOf
<1>2. QED
  BY <1>1, DeskAlways, PTL

-----------------------------------------------------------------------------
(* The checklist: what is complete and what it depends on.                 *)

(* Dependencies are steps of the same platform, and three deep at most.    *)
LEMMA Dependencies ==
  ASSUME NEW s \in Steps
  PROVE  /\ DependsOn[s] \subseteq Steps
         /\ \A t \in DependsOn[s] : \A u \in DependsOn[t] : DependsOn[u] = {}
<1> USE DEF AllSteps
<1>1. /\ AllSteps.google \subseteq Steps \/ "google" \notin Platforms
      /\ AllSteps.meta \subseteq Steps \/ "meta" \notin Platforms
      /\ AllSteps.quickbooks \subseteq Steps \/ "quickbooks" \notin Platforms
  BY ChecklistAssumption DEF Steps
<1>2. PICK p \in Platforms : s \in AllSteps[p]
  BY DEF Steps
<1>3. CASE p = "google"
  <2>1. s \in AllSteps.google /\ AllSteps.google \subseteq Steps
    BY <1>1, <1>2, <1>3
  <2>2. /\ DependsOn["google_verify"] = {} /\ DependsOn["google_info"] = {"google_verify"}
        /\ DependsOn["google_photos"] = {"google_info"}
        /\ DependsOn["google_services"] = {"google_info"}
        /\ DependsOn["google_review"] = {"google_info"}
    BY <2>1 DEF DependsOn
  <2>3. QED
    BY <2>1, <2>2
<1>4. CASE p = "meta"
  <2>1. s \in AllSteps.meta /\ AllSteps.meta \subseteq Steps
    BY <1>1, <1>2, <1>4
  <2>2. /\ DependsOn["meta_page"] = {} /\ DependsOn["meta_branding"] = {"meta_page"}
        /\ DependsOn["meta_connect"] = {"meta_page"}
        /\ DependsOn["meta_first_post"] = {"meta_connect"}
    BY <2>1 DEF DependsOn
  <2>3. QED
    BY <2>1, <2>2
<1>5. CASE p = "quickbooks"
  <2>1. s \in AllSteps.quickbooks /\ AllSteps.quickbooks \subseteq Steps
    BY <1>1, <1>2, <1>5
  <2>2. /\ DependsOn["quickbooks_signup"] = {}
        /\ DependsOn["quickbooks_items"] = {"quickbooks_signup"}
        /\ DependsOn["quickbooks_bank"] = {"quickbooks_signup"}
        /\ DependsOn["quickbooks_connect"] = {"quickbooks_signup"}
    BY <2>1 DEF DependsOn
  <2>3. QED
    BY <2>1, <2>2
<1>6. QED
  BY <1>2, <1>3, <1>4, <1>5, ChecklistAssumption

(* What is behind a step, without recursion.                               *)
Ancestors(s) == DependsOn[s] \cup UNION {DependsOn[t] : t \in DependsOn[s]}

LEMMA BehindIsAncestors ==
  ASSUME NEW s \in Steps
  PROVE  Behind[s] = DependsOn[s] \cup UNION {Behind[t] : t \in DependsOn[s]}
<1> DEFINE f == [t \in Steps |-> Ancestors(t)]
           Is(g) == g = [t \in Steps |-> DependsOn[t] \cup UNION {g[u] : u \in DependsOn[t]}]
<1>1. ASSUME NEW t \in Steps
      PROVE  Ancestors(t) = DependsOn[t] \cup UNION {f[u] : u \in DependsOn[t]}
  <2>1. \A u \in DependsOn[t] : f[u] = DependsOn[u]
    <3>1. ASSUME NEW u \in DependsOn[t] PROVE f[u] = DependsOn[u]
      <4>1. u \in Steps /\ \A v \in DependsOn[u] : DependsOn[v] = {}
        BY Dependencies
      <4>2. QED
        BY <4>1 DEF Ancestors
    <3>2. QED
      BY <3>1
  <2>2. QED
    BY <2>1 DEF Ancestors
<1>2. Is(f)
  BY <1>1
<1>3. Behind = CHOOSE g : Is(g)
  BY DEF Behind
<1> HIDE DEF f, Is
<1>4. Is(Behind)
  BY <1>2, <1>3
<1>5. QED
  BY <1>4 DEF Is

(* One round of the cascade, and what it comes to: two rounds are enough.  *)
More(reset) == reset \cup {t \in Steps : DependsOn[t] \cap reset # {}}

LEMMA TwoRounds ==
  ASSUME NEW reset \in SUBSET Steps
  PROVE  /\ More(reset) \in SUBSET Steps /\ More(More(reset)) \in SUBSET Steps
         /\ More(More(More(reset))) = More(More(reset))
<1>1. More(reset) \in SUBSET Steps /\ More(More(reset)) \in SUBSET Steps
  BY DEF More
<1>2. ASSUME NEW t \in Steps, NEW a \in DependsOn[t], a \in More(More(reset))
      PROVE  a \in More(reset)
  <2>1. CASE a \in Steps /\ DependsOn[a] \cap More(reset) # {}
    <3>1. PICK b \in DependsOn[a] : b \in More(reset)
      BY <2>1
    <3>2. DependsOn[b] = {} /\ b \in Steps
      BY <1>2, <2>1, Dependencies
    <3>3. b \in reset
      BY <3>1, <3>2 DEF More
    <3>4. QED
      BY <2>1, <3>1, <3>3 DEF More
  <2>2. CASE a \in More(reset)
    BY <2>2
  <2>3. QED
    BY <1>2, <2>1, <2>2 DEF More
<1>3. More(More(More(reset))) \subseteq More(More(reset))
  <2>1. ASSUME NEW t \in Steps, DependsOn[t] \cap More(More(reset)) # {}
        PROVE  t \in More(More(reset))
    <3>1. PICK a \in DependsOn[t] : a \in More(More(reset))
      BY <2>1
    <3>2. a \in More(reset)
      BY <1>2, <3>1
    <3>3. QED
      BY <3>1, <3>2 DEF More
  <2>2. QED
    BY <2>1 DEF More
<1>4. QED
  BY <1>1, <1>3 DEF More

LEMMA CascadeIsTwoRounds ==
  ASSUME NEW s \in Steps
  PROVE  Cascade[s] = More(More({s}))
<1> DEFINE Is(g) == g = [reset \in SUBSET Steps |->
             IF More(reset) = reset THEN reset ELSE g[More(reset)]]
           f == [reset \in SUBSET Steps |-> More(More(reset))]
<1>1. ASSUME NEW reset \in SUBSET Steps
      PROVE  f[reset] = IF More(reset) = reset THEN reset ELSE f[More(reset)]
  BY TwoRounds
<1>2. Is(f)
  <2> DEFINE h == [reset \in SUBSET Steps |-> IF More(reset) = reset THEN reset ELSE f[More(reset)]]
  <2>1. f = h
    <3>1. \A reset \in SUBSET Steps : f[reset] = h[reset]
      BY <1>1
    <3>2. QED
      BY <3>1
  <2>2. QED
    BY <2>1
<1> DEFINE grow == CHOOSE g : Is(g)
<1>3. Cascade[s] = grow[{s}]
  BY DEF Cascade, More
<1> HIDE DEF f
<1>4. Is(grow)
  <2> HIDE DEF Is
  <2>1. QED
    BY <1>2
<1> HIDE DEF grow
<1>5. \A reset \in SUBSET Steps :
        grow[reset] = IF More(reset) = reset THEN reset ELSE grow[More(reset)]
  BY <1>4
<1>6. grow[{s}] = More(More({s}))
  <2>1. {s} \in SUBSET Steps
    OBVIOUS
  <2>2. /\ More({s}) \in SUBSET Steps /\ More(More({s})) \in SUBSET Steps
        /\ More(More(More({s}))) = More(More({s}))
    BY <2>1, TwoRounds
  <2>3. grow[More(More({s}))] = More(More({s}))
    BY <1>5, <2>2
  <2>4. grow[More({s})] = More(More({s}))
    BY <1>5, <2>2, <2>3
  <2>5. QED
    BY <1>5, <2>1, <2>4
<1>7. QED
  BY <1>3, <1>6

(* Whatever depends on what is reset is reset.                             *)
LEMMA CascadeIsClosed ==
  ASSUME NEW s \in Steps, NEW t \in Steps, DependsOn[t] \cap Cascade[s] # {}
  PROVE  t \in Cascade[s]
<1>1. {s} \in SUBSET Steps
  OBVIOUS
<1>2. More(Cascade[s]) = Cascade[s]
  BY <1>1, CascadeIsTwoRounds, TwoRounds
<1>3. QED
  BY <1>2 DEF More

-----------------------------------------------------------------------------
ListTypeOK ==
  /\ business \in Businesses
  /\ status \in [Steps -> {"pending", "blocked", "complete"}]
  /\ field \in [Keys -> [there : BOOLEAN, value : Names \cup Services \cup Edits \cup {Null},
                         locked : BOOLEAN]]
  /\ orderly \in BOOLEAN

(* Every operation leaves a checklist that is resolved, and as long as it  *)
(* is used in order, what a complete step depends on is complete.          *)
ListInv ==
  /\ ListTypeOK
  /\ Resolve(status) = status
  /\ orderly => \A s \in Complete(status) : DependsOn[s] \subseteq Complete(status)

LEMMA Resolved ==
  ASSUME NEW st \in [Steps -> {"pending", "blocked", "complete"}]
  PROVE  /\ Resolve(st) \in [Steps -> {"pending", "blocked", "complete"}]
         /\ Complete(Resolve(st)) = Complete(st)
         /\ Resolve(Resolve(st)) = Resolve(st)
<1>1. \A s \in Steps : Resolve(st)[s] \in {"pending", "blocked", "complete"}
                        /\ (Resolve(st)[s] = "complete" <=> st[s] = "complete")
  BY DEF Resolve
<1>2. Complete(Resolve(st)) = Complete(st)
  BY <1>1 DEF Complete
<1>3. Resolve(st) \in [Steps -> {"pending", "blocked", "complete"}]
  BY <1>1 DEF Resolve
<1>4. Resolve(Resolve(st)) = Resolve(st)
  BY <1>1, <1>2 DEF Resolve
<1>5. QED
  BY <1>2, <1>3, <1>4

LEMMA FieldsTyped ==
  ASSUME NEW b \in Businesses, NEW k \in Keys
  PROVE  FreshField(b, k) \in [there : BOOLEAN, value : Names \cup Services \cup Edits \cup {Null},
                               locked : BOOLEAN]
<1>1. b.name \in Names /\ b.services \subseteq Services
  BY DEF Businesses
<1>2. QED
  BY <1>1 DEF FreshField, None

LEMMA ListInitially == Init => ListInv
<1> SUFFICES ASSUME Init PROVE ListInv
  OBVIOUS
<1> DEFINE all == [s \in Steps |-> "pending"]
<1>1. all \in [Steps -> {"pending", "blocked", "complete"}] /\ Complete(all) = {}
  BY DEF Complete
<1>2. status = Resolve(all)
  BY DEF Init
<1> HIDE DEF all
<1>3. /\ status \in [Steps -> {"pending", "blocked", "complete"}]
      /\ Complete(status) = {} /\ Resolve(status) = status
  BY <1>1, <1>2, Resolved
<1>4. field \in [Keys -> [there : BOOLEAN, value : Names \cup Services \cup Edits \cup {Null},
                         locked : BOOLEAN]]
  BY FieldsTyped DEF Init
<1>5. QED
  BY <1>3, <1>4 DEF Init, ListInv, ListTypeOK

(* What steps do to the checklist: a new one is resolved.                  *)
LEMMA NewStatus ==
  ASSUME ListInv, NEW st \in [Steps -> {"pending", "blocked", "complete"}], status' = Resolve(st),
         UNCHANGED <<business, field>>, orderly' \in BOOLEAN,
         orderly' => \A s \in Complete(st) : DependsOn[s] \subseteq Complete(st)
  PROVE  ListInv'
  BY Resolved DEF ListInv, ListTypeOK

LEMMA ListInductive == ListInv /\ Next => ListInv'
<1> SUFFICES ASSUME ListInv, Next PROVE ListInv'
  OBVIOUS
<1>1. CASE Recompute
  <2>1. /\ business' \in Businesses /\ status' = status /\ orderly' = orderly
        /\ field' = [k \in Keys |-> Kept(field[k], FreshField(business', k))]
    BY <1>1 DEF Recompute, ListInv
  <2>2. field' \in [Keys -> [there : BOOLEAN, value : Names \cup Services \cup Edits \cup {Null},
                            locked : BOOLEAN]]
    BY <2>1, FieldsTyped DEF Kept, ListInv, ListTypeOK
  <2>3. QED
    BY <2>1, <2>2 DEF ListInv, ListTypeOK
<1>2. ASSUME NEW s \in Steps, CompleteStep(s)
      PROVE  ListInv'
  <2> DEFINE st == [status EXCEPT ![s] = "complete"]
  <2>1. /\ st \in [Steps -> {"pending", "blocked", "complete"}]
        /\ Complete(st) = Complete(status) \cup {s}
    BY DEF ListInv, ListTypeOK, Complete
  <2>2. status' = Resolve(st) /\ UNCHANGED <<business, field>> /\ orderly' \in BOOLEAN
        /\ (orderly' => orderly /\ status[s] # "blocked")
    BY <1>2 DEF CompleteStep, ListInv, ListTypeOK
  <2> HIDE DEF st
  <2>3. ASSUME orderly' PROVE DependsOn[s] \subseteq Complete(status)
    <3>1. status[s] = Resolve(status)[s] /\ status[s] # "blocked" /\ orderly
      BY <2>2, <2>3 DEF ListInv
    <3>2. status[s] = "complete" \/ DependsOn[s] = {} \/ DependsOn[s] \subseteq Complete(status)
      BY <3>1 DEF Resolve
    <3>3. QED
      BY <3>1, <3>2 DEF ListInv, Complete
  <2>4. QED
    BY <2>1, <2>2, <2>3, NewStatus DEF ListInv
<1>3. ASSUME NEW s \in Steps, NEW cascade \in BOOLEAN, ResetStep(s, cascade)
      PROVE  ListInv'
  <2> DEFINE reset == IF cascade THEN Cascade[s] ELSE {s}
             st == [t \in Steps |-> IF t \in reset THEN "pending" ELSE status[t]]
  <2>1. /\ st \in [Steps -> {"pending", "blocked", "complete"}]
        /\ Complete(st) = Complete(status) \ reset
    BY DEF ListInv, ListTypeOK, Complete
  <2>2. status' = Resolve(st) /\ UNCHANGED <<business, field>> /\ orderly' \in BOOLEAN
        /\ (orderly' => orderly /\ (cascade \/ \A t \in Complete(status) : s \notin Behind[t]))
    BY <1>3 DEF ResetStep, ListInv, ListTypeOK
  <2>3. ASSUME orderly', NEW t \in Complete(status) \ reset
        PROVE  DependsOn[t] \cap reset = {}
    <3>1. t \in Steps
      BY DEF Complete
    <3>2. CASE cascade
      BY <2>3, <3>1, <3>2, CascadeIsClosed
    <3>3. CASE ~cascade
      <4>1. DependsOn[t] \subseteq Behind[t]
        BY <3>1, BehindIsAncestors
      <4>2. QED
        BY <2>2, <2>3, <3>3, <4>1
    <3>4. QED
      BY <3>2, <3>3
  <2> HIDE DEF st, reset
  <2>4. QED
    BY <2>1, <2>2, <2>3, NewStatus DEF ListInv
<1>4. ASSUME NEW k \in Keys, LockField(k) \/ \E v \in Edits : UpdateField(k, v)
      PROVE  ListInv'
  <2>1. UNCHANGED <<business, status, orderly>>
    BY <1>4 DEF LockField, UpdateField
  <2>2. field' \in [Keys -> [there : BOOLEAN, value : Names \cup Services \cup Edits \cup {Null},
                            locked : BOOLEAN]]
    <3>1. CASE LockField(k)
      BY <3>1 DEF LockField, ListInv, ListTypeOK
    <3>2. ASSUME NEW v \in Edits, UpdateField(k, v)
          PROVE  field' \in [Keys -> [there : BOOLEAN,
                   value : Names \cup Services \cup Edits \cup {Null}, locked : BOOLEAN]]
      BY <3>2 DEF UpdateField, ListInv, ListTypeOK
    <3>3. QED
      BY <1>4, <3>1, <3>2
  <2>3. QED
    BY <2>1, <2>2 DEF ListInv, ListTypeOK
<1>5. QED
  BY <1>1, <1>2, <1>3, <1>4 DEF Next

LEMMA ListAlways == AllSpec => []ListInv
<1>1. AllInit => ListInv
  BY ListInitially DEF AllInit
<1>2. ListInv /\ [AllNext]_allVars => ListInv'
  <2> SUFFICES ASSUME ListInv, [AllNext]_allVars PROVE ListInv'
    OBVIOUS
  <2>1. CASE Next
    BY <2>1, ListInductive
  <2>2. CASE UNCHANGED vars
    BY <2>2 DEF vars, ListInv, ListTypeOK
  <2>3. QED
    BY <2>1, <2>2 DEF AllNext, allVars
<1>3. QED
  BY <1>1, <1>2, PTL DEF AllSpec

(* As long as a checklist is used in order, everything behind a complete   *)
(* step is complete.                                                       *)
THEOREM CompleteStaysClosed == AllSpec => []CompleteIsClosed
<1>1. ListInv => CompleteIsClosed
  <2> SUFFICES ASSUME ListInv, orderly, NEW s \in Complete(status)
               PROVE  Behind[s] \subseteq Complete(status)
    BY DEF CompleteIsClosed
  <2>1. \A t \in Complete(status) : t \in Steps /\ DependsOn[t] \subseteq Complete(status)
    BY DEF ListInv, Complete
  <2>2. Behind[s] = DependsOn[s] \cup UNION {Behind[t] : t \in DependsOn[s]}
    BY <2>1, BehindIsAncestors
  <2>3. ASSUME NEW t \in DependsOn[s] PROVE Behind[t] \subseteq Complete(status)
    <3>1. t \in Complete(status) /\ t \in Steps
      BY <2>1
    <3>2. Behind[t] = DependsOn[t] \cup UNION {Behind[u] : u \in DependsOn[t]}
      BY <3>1, BehindIsAncestors
    <3>3. ASSUME NEW u \in DependsOn[t] PROVE Behind[u] = {}
      <4>1. u \in Steps /\ DependsOn[u] = {}
        BY <2>1, <2>3, <3>1, Dependencies
      <4>2. QED
        BY <4>1, BehindIsAncestors
    <3>4. QED
      BY <2>1, <3>1, <3>2, <3>3
  <2>4. QED
    BY <2>1, <2>2, <2>3
<1>2. QED
  BY <1>1, ListAlways, PTL

-----------------------------------------------------------------------------
(* The handshake: what the server tells and what it refuses.               *)

ShakeTypeOK ==
  /\ registered \in Handshake!Registries
  /\ files \in [Contracts -> Schemas \cup {Nothing}]
  /\ registry \in Handshake!Registries \cup {Nothing}
  /\ hashes \in [Contracts -> Schemas \cup {Nothing}]

(* What was told is what the caches still say.                             *)
Cached == [c \in DOMAIN registry |-> <<registry[c].version, hashes[c]>>]

ToldIsCached ==
  told # {} => /\ registry # Nothing /\ told = {Cached}
               /\ \A c \in DOMAIN registry : hashes[c] # Nothing

(* The claims refused last still differ from what is cached.               *)
Differs(claims, reg, hash) ==
  \/ \E c \in DOMAIN reg : reg[c].locked /\ c \notin DOMAIN claims
  \/ \E c \in DOMAIN claims :
       \/ c \notin DOMAIN reg
       \/ claims[c][1] # reg[c].version
       \/ reg[c].locked /\ hash[c] # Nothing /\ claims[c][2] # hash[c]

RefusedDiffers ==
  refused # Nothing => registry # Nothing /\ Differs(refused, registry, hashes)

ShakeInv == ShakeTypeOK /\ ToldIsCached /\ RefusedDiffers

LEMMA RegistryTyped ==
  ASSUME NEW r \in Handshake!Registries
  PROVE  /\ DOMAIN r \subseteq Contracts /\ r # Nothing
         /\ \A c \in DOMAIN r : r[c].version \in Versions /\ r[c].locked \in BOOLEAN
<1>1. PICK names \in SUBSET Contracts : r \in [names -> Handshake!Entries]
  BY DEF Handshake!Registries
<1>2. r # Nothing
  BY DeskAssumption DEF Handshake!HandshakeAssumption
<1>3. QED
  BY <1>1, <1>2 DEF Handshake!Entries

(* What is cached once stays cached, and whatever was computed is cached.  *)
CachesGrow ==
  /\ ShakeTypeOK' /\ registry' # Nothing
  /\ registry # Nothing => registry' = registry
  /\ \A c \in Contracts : hashes[c] # Nothing => hashes'[c] = hashes[c]

LEMMA LoadGrows ==
  ASSUME ShakeTypeOK, UNCHANGED <<registered, files>>, registry' = Handshake!LoadedRegistry,
         \/ UNCHANGED hashes
         \/ \E names \in SUBSET Contracts :
              hashes' = [c \in Contracts |-> IF c \in names THEN Handshake!HashOf(c) ELSE hashes[c]]
  PROVE  CachesGrow
<1>1. registry' \in Handshake!Registries /\ registry' # Nothing
  BY RegistryTyped DEF ShakeTypeOK, Handshake!LoadedRegistry
<1>2. hashes' \in [Contracts -> Schemas \cup {Nothing}]
  BY DEF ShakeTypeOK, Handshake!HashOf
<1>3. \A c \in Contracts : hashes[c] # Nothing => hashes'[c] = hashes[c]
  BY DEF Handshake!HashOf
<1>4. QED
  BY <1>1, <1>2, <1>3 DEF CachesGrow, ShakeTypeOK, Handshake!LoadedRegistry

(* What grows keeps what was told, and what differs.                       *)
LEMMA GrowthKeeps ==
  ASSUME ShakeInv, CachesGrow
  PROVE  /\ told # {} => told = {Cached'} /\ \A c \in DOMAIN registry' : hashes'[c] # Nothing
         /\ refused # Nothing => Differs(refused, registry', hashes')
<1>1. ASSUME told # {}
      PROVE  told = {Cached'} /\ \A c \in DOMAIN registry' : hashes'[c] # Nothing
  <2>1. registry' = registry /\ DOMAIN registry \subseteq Contracts
    BY <1>1, RegistryTyped DEF ShakeInv, ShakeTypeOK, ToldIsCached, CachesGrow
  <2>2. \A c \in DOMAIN registry : hashes[c] # Nothing /\ hashes'[c] = hashes[c]
    BY <1>1, <2>1 DEF ShakeInv, ToldIsCached, CachesGrow
  <2>3. Cached' = Cached
    BY <2>1, <2>2 DEF Cached
  <2>4. QED
    BY <1>1, <2>1, <2>2, <2>3 DEF ShakeInv, ToldIsCached
<1>2. ASSUME refused # Nothing
      PROVE  Differs(refused, registry', hashes')
  <2>1. registry' = registry /\ registry # Nothing /\ Differs(refused, registry, hashes)
    BY <1>2 DEF ShakeInv, RefusedDiffers, CachesGrow
  <2>2. DOMAIN registry \subseteq Contracts
    BY <2>1, RegistryTyped DEF ShakeInv, ShakeTypeOK
  <2>3. QED
    BY <2>1, <2>2 DEF Differs, CachesGrow
<1>3. QED
  BY <1>1, <1>2

LEMMA ToldDiffers ==
  ASSUME registry \in Handshake!Registries, refused # Nothing,
         Differs(refused, registry, hashes), \A c \in DOMAIN registry : hashes[c] # Nothing
  PROVE  refused # Cached
  BY DEF Differs, Cached

LEMMA ToldIsCachedNow ==
  ASSUME ShakeInv, CachesGrow, Handshake!Computes(DOMAIN Handshake!LoadedRegistry),
         registry' = Handshake!LoadedRegistry
  PROVE  /\ Handshake!AllInfo = Cached'
         /\ \A c \in DOMAIN registry' : hashes'[c] # Nothing
<1>1. DOMAIN registry' \subseteq Contracts
  BY RegistryTyped DEF CachesGrow, ShakeTypeOK
<1>2. \A c \in DOMAIN registry' : hashes'[c] = Handshake!HashOf(c) /\ hashes'[c] # Nothing
  BY <1>1 DEF Handshake!Computes
<1>3. QED
  BY <1>2 DEF Cached, Handshake!AllInfo

LEMMA ShakeInitially == Handshake!Init => ShakeInv
  BY DEF Handshake!Init, ShakeInv, ShakeTypeOK, ToldIsCached, RefusedDiffers, Handshake!NoHashes

LEMMA ShakeInductive == ShakeInv /\ Handshake!Next => ShakeInv'
<1> SUFFICES ASSUME ShakeInv, Handshake!Next PROVE ShakeInv'
  OBVIOUS
<1> USE DEF Handshake!cache, Handshake!disk
<1>1. CASE Handshake!Deploy
  <2>1. ShakeTypeOK'
    BY <1>1 DEF Handshake!Deploy, ShakeInv, ShakeTypeOK
  <2>2. ToldIsCached' /\ RefusedDiffers'
    BY <1>1 DEF Handshake!Deploy, ShakeInv, ToldIsCached, RefusedDiffers, Cached
  <2>3. QED
    BY <2>1, <2>2 DEF ShakeInv
<1>2. CASE Handshake!Start
  BY <1>2 DEF Handshake!Start, ShakeInv, ShakeTypeOK, ToldIsCached, RefusedDiffers, Cached
<1>3. CASE Handshake!Exit
  BY <1>3 DEF Handshake!Exit, Handshake!Gone, Handshake!NoHashes,
     ShakeInv, ShakeTypeOK, ToldIsCached, RefusedDiffers
<1>4. CASE Handshake!Verify
  <2>1. CachesGrow
    <3>1. DOMAIN Handshake!LoadedRegistry \subseteq Contracts
      BY RegistryTyped DEF ShakeInv, ShakeTypeOK, Handshake!LoadedRegistry
    <3>2. QED
      BY <1>4, <3>1, LoadGrows DEF Handshake!Verify, Handshake!Computes, ShakeInv
  <2>2. Handshake!AllInfo = Cached' /\ \A c \in DOMAIN registry' : hashes'[c] # Nothing
    BY <1>4, <2>1, ToldIsCachedNow DEF Handshake!Verify
  <2>3. refused' = refused /\ (told' = told \/ told' = told \cup {Cached'})
    BY <1>4, <2>2 DEF Handshake!Verify
  <2>4. QED
    BY <2>1, <2>2, <2>3, GrowthKeeps DEF ShakeInv, ToldIsCached, RefusedDiffers, CachesGrow
<1>5. CASE Handshake!FailVerification
  <2>1. CASE UNCHANGED <<registry, hashes>>
    BY <1>5, <2>1 DEF Handshake!FailVerification, ShakeInv, ShakeTypeOK, ToldIsCached, RefusedDiffers,
       Cached
  <2>2. CASE ~UNCHANGED <<registry, hashes>>
    <3>1. CachesGrow
      <4>1. DOMAIN Handshake!LoadedRegistry \subseteq Contracts
        BY RegistryTyped DEF ShakeInv, ShakeTypeOK, Handshake!LoadedRegistry
      <4>2. \E names \in SUBSET Contracts :
              hashes' = [c \in Contracts |-> IF c \in names THEN Handshake!HashOf(c) ELSE hashes[c]]
        BY <1>5, <2>2, <4>1 DEF Handshake!FailVerification, Handshake!Computes, Handshake!FailsComputing
      <4>3. QED
        BY <1>5, <2>2, <4>2, LoadGrows DEF Handshake!FailVerification, ShakeInv
    <3>2. QED
      BY <1>5, <3>1, GrowthKeeps DEF Handshake!FailVerification, ShakeInv, ToldIsCached, RefusedDiffers,
         CachesGrow
  <2>3. QED
    BY <2>1, <2>2
<1>6. CASE Handshake!Handshake
  <2>1. PICK claims \in Handshake!Claims :
          \/ /\ Handshake!Computes(Handshake!Locked \cap DOMAIN claims)
             /\ refused' = IF Handshake!Welcome(claims) THEN refused ELSE claims
          \/ /\ Handshake!FailsComputing(Handshake!Locked \cap DOMAIN claims) /\ UNCHANGED refused
    BY <1>6 DEF Handshake!Handshake
  <2>2. Handshake!Locked \subseteq Contracts
    BY RegistryTyped DEF ShakeInv, ShakeTypeOK, Handshake!LoadedRegistry, Handshake!Locked
  <2>3. \E names \in SUBSET Contracts :
          hashes' = [c \in Contracts |-> IF c \in names THEN Handshake!HashOf(c) ELSE hashes[c]]
    BY <2>1, <2>2 DEF Handshake!Computes, Handshake!FailsComputing
  <2>4. CachesGrow /\ told' = told /\ registry' = Handshake!LoadedRegistry
    BY <1>6, <2>3, LoadGrows DEF Handshake!Handshake, ShakeInv
  <2>5. CASE UNCHANGED refused
    BY <2>4, <2>5, GrowthKeeps DEF ShakeInv, ToldIsCached, RefusedDiffers, CachesGrow
  <2>6. CASE /\ Handshake!Computes(Handshake!Locked \cap DOMAIN claims)
             /\ ~Handshake!Welcome(claims) /\ refused' = claims
    <3>1. \A c \in Handshake!Locked \cap DOMAIN claims :
            hashes'[c] = Handshake!HashOf(c) /\ hashes'[c] # Nothing
      BY <2>2, <2>6 DEF Handshake!Computes
    <3>2. \A c \in DOMAIN registry' : registry'[c].locked <=> c \in Handshake!Locked
      BY <2>4 DEF Handshake!Locked
    <3>3. Differs(claims, registry', hashes')
      BY <2>4, <2>6, <3>1, <3>2 DEF Handshake!Welcome, Differs, Handshake!Locked
    <3>4. QED
      BY <2>4, <2>6, <3>3, GrowthKeeps DEF ShakeInv, ToldIsCached, RefusedDiffers, CachesGrow
  <2>7. QED
    BY <2>1, <2>5, <2>6
<1>7. CASE Handshake!Info
  <2>1. registry' = Handshake!LoadedRegistry /\ refused' = refused
        /\ UNCHANGED <<registered, files>>
    BY <1>7 DEF Handshake!Info
  <2>2. DOMAIN Handshake!LoadedRegistry \subseteq Contracts
    BY RegistryTyped DEF ShakeInv, ShakeTypeOK, Handshake!LoadedRegistry
  <2>3. \E names \in SUBSET Contracts :
          hashes' = [c \in Contracts |-> IF c \in names THEN Handshake!HashOf(c) ELSE hashes[c]]
    BY <1>7, <2>2 DEF Handshake!Info, Handshake!Computes, Handshake!FailsComputing
  <2>4. CachesGrow
    BY <2>1, <2>3, LoadGrows DEF ShakeInv
  <2>5. CASE told' = told
    BY <2>1, <2>4, <2>5, GrowthKeeps DEF ShakeInv, ToldIsCached, RefusedDiffers, CachesGrow
  <2>6. CASE /\ Handshake!Computes(DOMAIN Handshake!LoadedRegistry)
             /\ told' = told \cup {Handshake!AllInfo}
    <3>1. Handshake!AllInfo = Cached' /\ \A c \in DOMAIN registry' : hashes'[c] # Nothing
      BY <2>1, <2>4, <2>6, ToldIsCachedNow
    <3>2. QED
      BY <2>1, <2>4, <2>6, <3>1, GrowthKeeps DEF ShakeInv, ToldIsCached, RefusedDiffers, CachesGrow
  <2>7. QED
    BY <1>7, <2>5, <2>6 DEF Handshake!Info
<1>8. QED
  BY <1>1, <1>2, <1>3, <1>4, <1>5, <1>6, <1>7 DEF Handshake!Next

LEMMA ShakeAlways == AllSpec => [](part = "handshake" => ShakeInv)
<1>1. AllInit => (part = "handshake" => ShakeInv)
  BY ShakeInitially DEF AllInit
<1>2. (part = "handshake" => ShakeInv) /\ [AllNext]_allVars => (part = "handshake" => ShakeInv)'
  <2> SUFFICES ASSUME part = "handshake" => ShakeInv, [AllNext]_allVars, part' = "handshake"
               PROVE  ShakeInv'
    OBVIOUS
  <2>1. CASE part = "handshake" /\ Handshake!Next
    BY <2>1, ShakeInductive
  <2>2. CASE part = "handshake" /\ UNCHANGED <<registered, files, registry, hashes, told, refused>>
    BY <2>2 DEF ShakeInv, ShakeTypeOK, ToldIsCached, RefusedDiffers, Cached
  <2>3. QED
    BY <2>1, <2>2 DEF AllNext, allVars
<1>3. QED
  BY <1>1, <1>2, PTL DEF AllSpec

(* The process never refuses the claims it told an agent or verified at    *)
(* its start, whichever files are replaced and read meanwhile.             *)
THEOREM NeverContradictsItself == AllSpec => []ToldIsWelcome
<1>1. (part = "handshake" => ShakeInv) => ToldIsWelcome
  <2> SUFFICES ASSUME part = "handshake", ShakeInv PROVE refused \notin told
    BY DEF ToldIsWelcome, Handshake!ToldIsWelcome
  <2> SUFFICES ASSUME refused \in told PROVE FALSE
    OBVIOUS
  <2>1. /\ registry \in Handshake!Registries /\ refused = Cached
        /\ \A c \in DOMAIN registry : hashes[c] # Nothing
    BY DEF ShakeInv, ShakeTypeOK, ToldIsCached
  <2>2. refused = Nothing
    BY <2>1, ToldDiffers DEF ShakeInv, RefusedDiffers
  <2>3. Cached \in Handshake!Claims
    <3>1. DOMAIN registry \in SUBSET Contracts
      BY <2>1, RegistryTyped
    <3>2. Cached \in [DOMAIN registry -> Versions \X Schemas]
      BY <2>1, <3>1, RegistryTyped DEF Cached, ShakeInv, ShakeTypeOK
    <3>3. QED
      BY <3>1, <3>2 DEF Handshake!Claims
  <2>4. QED
    BY <2>1, <2>2, <2>3, DeskAssumption DEF Handshake!HandshakeAssumption
<1>2. QED
  BY <1>1, ShakeAlways, PTL

-----------------------------------------------------------------------------
(* The gap rules: what is mapped and what is advised.                      *)

Rows == Types \cup {"untyped", Nothing}

Asking == {"analyze", "quickCheck"}

Labels == {"LEGEND_HAS_UNMAPPED", "DETECTIONS_UNMAPPED", "has_gaps"}

GapsTypeOK ==
  /\ type \in [Detections -> Rows] /\ label \in [Classes -> Rows]
  /\ mapped \subseteq Classes \X Gaps!Kinds /\ heeded \in BOOLEAN
  /\ DOMAIN query = {"op", "pack", "type", "label", "maps", "packs", "flags"}
  /\ query.op \in Asking => query.flags = {}

NoneUntyped(rows) == \A x \in DOMAIN rows : rows[x] # "untyped"

(* What has been mapped since it was inserted has a type.                  *)
MappedIsTyped ==
  \A c \in Classes :
    /\ <<c, "detections">> \in mapped => \A x \in Detections : ClassOf[x] = c => type[x] # "untyped"
    /\ <<c, "entries">> \in mapped => label[c] # "untyped"

(* When all had been mapped before the query, it reads no untyped row and  *)
(* never answers that there is one.                                        *)
HeededIsTyped ==
  heeded => /\ NoneUntyped(type) /\ NoneUntyped(label)
            /\ query.op \in Asking /\ query.type # Nothing =>
                 \A x \in Detections : query.type[x] # "untyped"
            /\ query.op \in Asking /\ query.label # Nothing =>
                 \A c \in Classes : query.label[c] # "untyped"
            /\ query.flags \cap Labels = {}

GapsInv == GapsTypeOK /\ MappedIsTyped /\ HeededIsTyped

LEMMA GapNames ==
  /\ Nothing \notin Types /\ "untyped" \notin Types /\ Nothing # "untyped"
  /\ ClassOf \in [Detections -> Classes] /\ Gaps!Untyped = "untyped"
  BY DeskAssumption DEF Gaps!GapAssumption, Gaps!Untyped

LEMMA GapsInitially == Gaps!Init => GapsInv
<1> SUFFICES ASSUME Gaps!Init PROVE GapsInv
  OBVIOUS
<1>1. PICK typeOf \in [Classes -> Types \cup {"untyped"}], found \in SUBSET Detections :
        /\ type = [x \in Detections |-> IF x \in found THEN typeOf[ClassOf[x]] ELSE Nothing]
        /\ label = typeOf
        /\ mapped = {c \in Classes : typeOf[c] # "untyped"} \X Gaps!Kinds
  BY GapNames DEF Gaps!Init
<1>2. heeded = FALSE /\ query = Gaps!NoQuery
  BY DEF Gaps!Init
<1>3. GapsTypeOK
  BY <1>1, <1>2, GapNames DEF GapsTypeOK, Rows, Gaps!NoQuery, Asking, Gaps!Kinds
<1>4. MappedIsTyped
  BY <1>1, GapNames DEF MappedIsTyped
<1>5. QED
  BY <1>2, <1>3, <1>4 DEF GapsInv, HeededIsTyped

LEMMA AllMappedIsTyped ==
  ASSUME GapsTypeOK, MappedIsTyped, mapped = Classes \X Gaps!Kinds
  PROVE  NoneUntyped(type) /\ NoneUntyped(label)
<1>1. \A c \in Classes : <<c, "detections">> \in mapped /\ <<c, "entries">> \in mapped
  BY DEF Gaps!Kinds
<1>2. \A x \in Detections : type[x] # "untyped"
  BY <1>1, GapNames DEF MappedIsTyped
<1>3. QED
  BY <1>1, <1>2 DEF MappedIsTyped, NoneUntyped, GapsTypeOK

(* Rows without an untyped one give no flag of unmapped ones.              *)
LEMMA TypedGivesNoFlag ==
  ASSUME \A x \in Detections : query.type[x] # "untyped",
         \A c \in Classes : query.label[c] # "untyped",
         NEW clustered
  PROVE  Gaps!Flags(query, clustered) \cap Labels = {} /\ ~Gaps!QuickGaps(query)
<1>1. Gaps!LegendUnmapped(query.label, query.maps) = {}
  BY GapNames DEF Gaps!LegendUnmapped
<1>2. Gaps!Unmapped(query.type, query.maps) = {}
  BY GapNames DEF Gaps!Unmapped, Gaps!Found
<1>3. Gaps!Flags(query, clustered) \subseteq
        {"FLOOR_IMBALANCE", "HEAD_END_MISSING", "LOW_CONFIDENCE_CLUSTER", "SYMBOL_PACK_DRIFT"}
  BY <1>1, <1>2 DEF Gaps!Flags
<1>4. ~Gaps!QuickGaps(query)
  BY GapNames DEF Gaps!QuickGaps, Gaps!Found
<1>5. QED
  BY <1>3, <1>4 DEF Labels

LEMMA GapsInductive == GapsInv /\ Gaps!Next => GapsInv'
<1> SUFFICES ASSUME GapsInv, Gaps!Next PROVE GapsInv'
  OBVIOUS
<1> USE GapNames DEF Gaps!document, Gaps!history, GapsInv
<1>1. CASE Gaps!Insert
  <2>1. heeded' = FALSE /\ query' = query
    BY <1>1 DEF Gaps!Insert, Gaps!Write
  <2>2. GapsTypeOK' /\ MappedIsTyped'
    <3>1. ASSUME NEW x \in Detections, type[x] = Nothing, type' = [type EXCEPT ![x] = "untyped"],
                 mapped' = mapped \ {<<ClassOf[x], "detections">>}, label' = label
          PROVE  GapsTypeOK' /\ MappedIsTyped'
      BY <2>1, <3>1 DEF GapsTypeOK, MappedIsTyped, Rows
    <3>2. ASSUME NEW c \in Classes, label' = [label EXCEPT ![c] = "untyped"],
                 mapped' = mapped \ {<<c, "entries">>}, type' = type
          PROVE  GapsTypeOK' /\ MappedIsTyped'
      BY <2>1, <3>2 DEF GapsTypeOK, MappedIsTyped, Rows
    <3>3. QED
      BY <1>1, <3>1, <3>2 DEF Gaps!Insert
  <2>3. QED
    BY <2>1, <2>2 DEF HeededIsTyped
<1>2. CASE Gaps!Map
  <2>1. heeded' = heeded /\ query' = query
    BY <1>2 DEF Gaps!Map, Gaps!Write
  <2>2. ASSUME NEW c \in Classes, NEW t \in Types, label' = label,
               type' = [x \in Detections |-> IF ClassOf[x] = c /\ type[x] # Nothing THEN t ELSE type[x]],
               mapped' = mapped \cup {<<c, "detections">>}
        PROVE  GapsInv'
    <3>1. GapsTypeOK'
      BY <2>1, <2>2 DEF GapsTypeOK, Rows, Gaps!Kinds
    <3>2. MappedIsTyped'
      BY <2>2 DEF GapsTypeOK, MappedIsTyped, Rows
    <3>3. HeededIsTyped'
      BY <2>1, <2>2 DEF GapsTypeOK, HeededIsTyped, NoneUntyped, Rows
    <3>4. QED
      BY <3>1, <3>2, <3>3
  <2>3. ASSUME NEW c \in Classes, NEW t \in Types, type' = type,
               label' = [label EXCEPT ![c] = IF @ = Nothing THEN @ ELSE t],
               mapped' = mapped \cup {<<c, "entries">>}
        PROVE  GapsInv'
    <3>1. GapsTypeOK'
      BY <2>1, <2>3 DEF GapsTypeOK, Rows, Gaps!Kinds
    <3>2. MappedIsTyped'
      BY <2>3 DEF GapsTypeOK, MappedIsTyped, Rows
    <3>3. HeededIsTyped'
      BY <2>1, <2>3 DEF GapsTypeOK, HeededIsTyped, NoneUntyped, Rows
    <3>4. QED
      BY <3>1, <3>2, <3>3
  <2>4. QED
    BY <1>2, <2>2, <2>3 DEF Gaps!Map
<1>3. CASE Gaps!EditPack \/ Gaps!Estimate
  BY <1>3 DEF Gaps!EditPack, Gaps!Estimate, Gaps!Write, GapsTypeOK, MappedIsTyped, HeededIsTyped
<1>4. CASE Gaps!Begin
  <2>1. /\ type' = type /\ label' = label /\ mapped' = mapped
        /\ query'.type = Nothing /\ query'.label = Nothing /\ query'.flags = {}
        /\ DOMAIN query' = {"op", "pack", "type", "label", "maps", "packs", "flags"}
    BY <1>4 DEF Gaps!Begin, Gaps!NoQuery
  <2>2. heeded' = (mapped = Classes \X Gaps!Kinds)
    BY <1>4 DEF Gaps!Begin
  <2>3. GapsTypeOK' /\ MappedIsTyped'
    BY <2>1, <2>2 DEF GapsTypeOK, MappedIsTyped
  <2>4. HeededIsTyped'
    BY <2>1, <2>2, AllMappedIsTyped DEF HeededIsTyped, NoneUntyped
  <2>5. QED
    BY <2>3, <2>4
<1>5. CASE Gaps!Read
  <2>1. UNCHANGED <<type, label, mapped, heeded>>
    BY <1>5 DEF Gaps!Read
  <2>2. /\ query'.op = query.op /\ query'.flags = query.flags
        /\ query'.type \in {query.type, type} /\ query'.label \in {query.label, label}
        /\ DOMAIN query' = DOMAIN query
    BY <1>5 DEF Gaps!Read, GapsTypeOK
  <2>3. GapsTypeOK' /\ MappedIsTyped'
    BY <2>1, <2>2 DEF GapsTypeOK, MappedIsTyped
  <2>4. HeededIsTyped'
    BY <2>1, <2>2 DEF HeededIsTyped, NoneUntyped, GapsTypeOK
  <2>5. QED
    BY <2>3, <2>4
<1>6. CASE Gaps!ReadPacks
  <2>1. UNCHANGED <<type, label, mapped, heeded>>
    BY <1>6 DEF Gaps!ReadPacks
  <2>2. CASE query' = [Gaps!NoQuery EXCEPT !.op = "threw"]
    BY <2>1, <2>2 DEF GapsTypeOK, MappedIsTyped, HeededIsTyped, NoneUntyped, Gaps!NoQuery, Asking
  <2>3. CASE \E packs : query' = [query EXCEPT !.packs = packs]
    <3>1. /\ query'.op = query.op /\ query'.flags = query.flags
          /\ query'.type = query.type /\ query'.label = query.label
          /\ DOMAIN query' = DOMAIN query
      BY <2>3 DEF GapsTypeOK
    <3>2. QED
      BY <2>1, <3>1 DEF GapsTypeOK, MappedIsTyped, HeededIsTyped, NoneUntyped
  <2>4. QED
    BY <1>6, <2>2, <2>3 DEF Gaps!ReadPacks
<1>7. CASE Gaps!Analyze
  <2>1. UNCHANGED <<type, label, mapped, heeded>> /\ query.op = "analyze"
        /\ query.type # Nothing /\ query.label # Nothing
    BY <1>7 DEF Gaps!Analyze, Gaps!HasRead
  <2>2. PICK clustered : query' = [Gaps!NoQuery EXCEPT !.op = "answered",
                                     !.flags = Gaps!Flags(query, clustered)]
    BY <1>7 DEF Gaps!Analyze
  <2>3. query'.op = "answered" /\ query'.flags = Gaps!Flags(query, clustered)
        /\ DOMAIN query' = {"op", "pack", "type", "label", "maps", "packs", "flags"}
    BY <2>2 DEF Gaps!NoQuery
  <2>4. heeded => query'.flags \cap Labels = {}
    BY <2>1, <2>3, TypedGivesNoFlag DEF HeededIsTyped, Asking
  <2>5. QED
    BY <2>1, <2>3, <2>4 DEF GapsTypeOK, MappedIsTyped, HeededIsTyped, NoneUntyped, Asking
<1>8. CASE Gaps!QuickCheck
  <2>1. UNCHANGED <<type, label, mapped, heeded>> /\ query.op = "quickCheck"
        /\ query.type # Nothing /\ query.label # Nothing
    BY <1>8 DEF Gaps!QuickCheck, Gaps!HasRead
  <2>2. /\ query'.op = "answered"
        /\ query'.flags = IF Gaps!QuickGaps(query) THEN {"has_gaps"} ELSE {}
        /\ DOMAIN query' = {"op", "pack", "type", "label", "maps", "packs", "flags"}
    BY <1>8 DEF Gaps!QuickCheck, Gaps!NoQuery
  <2>3. heeded => query'.flags \cap Labels = {}
    BY <2>1, <2>2, TypedGivesNoFlag DEF HeededIsTyped, Asking
  <2>4. QED
    BY <2>1, <2>2, <2>3 DEF GapsTypeOK, MappedIsTyped, HeededIsTyped, NoneUntyped, Asking
<1>9. QED
  BY <1>1, <1>2, <1>3, <1>4, <1>5, <1>6, <1>7, <1>8 DEF Gaps!Next

LEMMA GapsAlways == AllSpec => [](part = "gaps" => GapsInv)
<1>1. AllInit => (part = "gaps" => GapsInv)
  BY GapsInitially DEF AllInit
<1>2. (part = "gaps" => GapsInv) /\ [AllNext]_allVars => (part = "gaps" => GapsInv)'
  <2> SUFFICES ASSUME part = "gaps" => GapsInv, [AllNext]_allVars, part' = "gaps"
               PROVE  GapsInv'
    OBVIOUS
  <2>1. CASE part = "gaps" /\ Gaps!Next
    BY <2>1, GapsInductive
  <2>2. CASE part = "gaps" /\ UNCHANGED <<type, label, mapped, heeded, query>>
    BY <2>2 DEF GapsInv, GapsTypeOK, MappedIsTyped, HeededIsTyped, NoneUntyped
  <2>3. QED
    BY <2>1, <2>2 DEF AllNext, allVars
<1>3. QED
  BY <1>1, <1>2, PTL DEF AllSpec

(* Whoever maps all rows and inserts none is not told of unmapped ones,    *)
(* whatever happens to types and packs while an analysis reads them.       *)
THEOREM MappingHelps == AllSpec => []AdviceClears
<1>1. (part = "gaps" => GapsInv) => AdviceClears
  BY DEF GapsInv, HeededIsTyped, Labels, AdviceClears, Gaps!AdviceClears
<1>2. QED
  BY <1>1, GapsAlways, PTL

-----------------------------------------------------------------------------
(* Configurations: what is saved and what is shown.                        *)

Shown == {Paying!Default} \cup {Paying!Priced(s) : s \in Settings}

(* Of requests only those on a configuration matter here.                  *)
SaveTypes ==
  [op : {"save"}, user : Users, choice : Settings, row : Requests \cup {Nothing},
   answer : {Nothing, "saved", "threw"}]

ShowTypes == [op : {"config"}, user : Users, due : Shown, answer : Shown]

PayTypeOK ==
  /\ DOMAIN request = Requests
  /\ \A c \in Requests : /\ request[c].op = "save" => request[c] \in SaveTypes
                         /\ request[c].op = "config" => request[c] \in ShowTypes
  /\ DOMAIN config \subseteq Requests
  /\ \A r \in DOMAIN config : config[r].user \in Users /\ config[r].set \in Shown
  /\ saved \in [Users -> Shown] /\ overlapped \subseteq Users

(* A row bears the name of a save that is over.                            *)
RowsAreOfOver ==
  \A r \in DOMAIN config : request[r].op = "save" /\ request[r].answer # Nothing

(* A save under way holds a row of its user, or found none.                *)
SavesHoldRows ==
  \A u \in Users : \A c \in Paying!Saving(u) :
    /\ request[c].row # Nothing => request[c].row \in Paying!RowsOf(u)
    /\ u \notin overlapped => Paying!Saving(u) = {c}
                              /\ (request[c].row = Nothing => Paying!RowsOf(u) = {})

(* A user whose saves never overlapped has one row, of what was saved.     *)
RowIsSaved ==
  \A u \in Users : u \notin overlapped =>
    IF Paying!RowsOf(u) = {} THEN saved[u] = Paying!Default
    ELSE \A r, q \in Paying!RowsOf(u) : r = q /\ config[r].set = saved[u]

ShownWasSaved ==
  \A c \in Requests : request[c].op = "config" =>
    request[c].user \in overlapped \/ request[c].answer = request[c].due

PayInv == PayTypeOK /\ RowsAreOfOver /\ SavesHoldRows /\ RowIsSaved /\ ShownWasSaved

LEMMA PayNames == Nothing \notin Requests \cup {"saved", "threw"}
  BY DeskAssumption DEF Paying!CheckoutAssumption

LEMMA PayInitially == Paying!Init => PayInv
<1> SUFFICES ASSUME Paying!Init PROVE PayInv
  OBVIOUS
<1>1. /\ DOMAIN config = {} /\ saved = [u \in Users |-> Paying!Default] /\ overlapped = {}
      /\ request = [c \in Requests |-> Paying!NoCall]
  BY DEF Paying!Init
<1>2. \A c \in Requests : request[c].op = "none"
  BY <1>1 DEF Paying!NoCall
<1>3. \A u \in Users : Paying!Saving(u) = {} /\ Paying!RowsOf(u) = {}
  BY <1>1, <1>2 DEF Paying!Saving, Paying!RowsOf
<1>4. QED
  BY <1>1, <1>2, <1>3 DEF PayInv, PayTypeOK, RowsAreOfOver, SavesHoldRows, RowIsSaved, ShownWasSaved,
     Shown

(* Whatever else a request does, it touches no configuration.              *)
LEMMA OtherRequests ==
  ASSUME PayInv, NEW c \in Requests, request[c] = Paying!NoCall, NEW x,
         x.op \notin {"save", "config"}, request' = [request EXCEPT ![c] = x],
         UNCHANGED <<config, saved, overlapped>>
  PROVE  PayInv'
<1>1. /\ DOMAIN request' = Requests /\ request'[c].op \notin {"save", "config"}
      /\ request[c].op = "none"
      /\ \A d \in Requests : d # c => request'[d] = request[d]
  BY DEF PayInv, PayTypeOK, Paying!NoCall
<1>2. \A u \in Users : Paying!Saving(u)' = Paying!Saving(u) /\ c \notin Paying!Saving(u)
  BY <1>1 DEF Paying!Saving
<1>3. \A u \in Users : Paying!RowsOf(u)' = Paying!RowsOf(u)
  BY DEF Paying!RowsOf
<1>4. PayTypeOK' /\ RowsAreOfOver' /\ ShownWasSaved'
  BY <1>1 DEF PayInv, PayTypeOK, RowsAreOfOver, ShownWasSaved
<1>5. SavesHoldRows'
  BY <1>1, <1>2, <1>3 DEF PayInv, SavesHoldRows, Paying!Saving
<1>6. RowIsSaved'
  BY <1>3 DEF PayInv, RowIsSaved
<1>7. QED
  BY <1>4, <1>5, <1>6 DEF PayInv

LEMMA Answers ==
  ASSUME PayInv, NEW c \in Requests, NEW op, NEW answer, op \notin {"save", "config"},
         Paying!Answer(c, op, answer), UNCHANGED <<config, saved, overlapped>>
  PROVE  PayInv'
  BY OtherRequests DEF Paying!Answer

LEMMA ShowKeeps ==
  ASSUME PayInv, NEW c \in Requests, Paying!GetConfig(c)
  PROVE  PayInv'
<1>1. PICK u \in Users : \E r \in Paying!Found(u) : request' = [request EXCEPT ![c] =
        [op |-> "config", user |-> u, due |-> saved[u],
         answer |-> IF r = Nothing THEN Paying!Default ELSE config[r].set]]
  BY DEF Paying!GetConfig
<1>2. PICK r \in Paying!Found(u) : request' = [request EXCEPT ![c] =
        [op |-> "config", user |-> u, due |-> saved[u],
         answer |-> IF r = Nothing THEN Paying!Default ELSE config[r].set]]
  BY <1>1
<1> DEFINE x == [op |-> "config", user |-> u, due |-> saved[u],
                 answer |-> IF r = Nothing THEN Paying!Default ELSE config[r].set]
<1>3. /\ request[c].op = "none" /\ UNCHANGED <<config, saved, overlapped>>
  BY DEF Paying!GetConfig, Paying!history, Paying!NoCall
<1>4. x \in ShowTypes /\ x.op = "config" /\ (u \in overlapped \/ x.answer = x.due) /\ x.user = u
  <2>1. CASE Paying!RowsOf(u) = {}
    BY <2>1, PayNames DEF PayInv, PayTypeOK, RowIsSaved, Paying!Found, ShowTypes, Shown
  <2>2. CASE Paying!RowsOf(u) # {}
    <3>1. r \in Paying!RowsOf(u) /\ r \in DOMAIN config /\ r # Nothing
      BY <2>2, PayNames DEF Paying!Found, Paying!RowsOf, PayInv, PayTypeOK
    <3>2. QED
      BY <2>2, <3>1 DEF PayInv, PayTypeOK, RowIsSaved, ShowTypes, Shown
  <2>3. QED
    BY <2>1, <2>2
<1> HIDE DEF x
<1>5. /\ DOMAIN request' = Requests /\ request'[c] = x
      /\ \A d \in Requests : d # c => request'[d] = request[d]
  BY <1>2 DEF PayInv, PayTypeOK, x
<1>6. \A v \in Users : Paying!Saving(v)' = Paying!Saving(v) /\ c \notin Paying!Saving(v)
  BY <1>3, <1>4, <1>5 DEF Paying!Saving
<1>7. \A v \in Users : Paying!RowsOf(v)' = Paying!RowsOf(v)
  BY <1>3 DEF Paying!RowsOf
<1>8. PayTypeOK' /\ RowsAreOfOver' /\ ShownWasSaved'
  BY <1>3, <1>4, <1>5 DEF PayInv, PayTypeOK, RowsAreOfOver, ShownWasSaved
<1>9. SavesHoldRows'
  BY <1>3, <1>5, <1>6, <1>7 DEF PayInv, SavesHoldRows, Paying!Saving
<1>10. RowIsSaved'
  BY <1>3, <1>7 DEF PayInv, RowIsSaved
<1>11. QED
  BY <1>8, <1>9, <1>10 DEF PayInv

LEMMA FindKeeps ==
  ASSUME PayInv, NEW c \in Requests, Paying!FindConfig(c)
  PROVE  PayInv'
<1>1. PICK u \in Users, choice \in Settings : \E r \in Paying!Found(u) :
        /\ request' = [request EXCEPT ![c] = [op |-> "save", user |-> u, choice |-> choice,
                                              row |-> r, answer |-> Nothing]]
        /\ overlapped' = overlapped \cup (IF Paying!Saving(u) = {} THEN {} ELSE {u})
  BY DEF Paying!FindConfig
<1>2. PICK r \in Paying!Found(u) :
        /\ request' = [request EXCEPT ![c] = [op |-> "save", user |-> u, choice |-> choice,
                                              row |-> r, answer |-> Nothing]]
        /\ overlapped' = overlapped \cup (IF Paying!Saving(u) = {} THEN {} ELSE {u})
  BY <1>1
<1> DEFINE x == [op |-> "save", user |-> u, choice |-> choice, row |-> r, answer |-> Nothing]
<1>3. request[c].op = "none" /\ UNCHANGED <<config, saved>>
  BY DEF Paying!FindConfig, Paying!NoCall
<1>4. /\ r = Nothing => Paying!RowsOf(u) = {}
      /\ r # Nothing => r \in Paying!RowsOf(u) /\ r \in Requests
  BY PayNames DEF Paying!Found, Paying!RowsOf, PayInv, PayTypeOK
<1>5. x \in SaveTypes /\ x.op = "save" /\ x.user = u /\ x.answer = Nothing /\ x.row = r
  BY <1>4 DEF SaveTypes
<1> HIDE DEF x
<1>6. /\ DOMAIN request' = Requests /\ request'[c] = x
      /\ \A d \in Requests : d # c => request'[d] = request[d]
  BY <1>2 DEF PayInv, PayTypeOK, x
<1>7. /\ Paying!Saving(u)' = Paying!Saving(u) \cup {c}
      /\ \A v \in Users : /\ v # u => Paying!Saving(v)' = Paying!Saving(v)
                          /\ c \notin Paying!Saving(v)
  BY <1>3, <1>5, <1>6 DEF Paying!Saving
<1>8. \A v \in Users : Paying!RowsOf(v)' = Paying!RowsOf(v)
  BY <1>3 DEF Paying!RowsOf
<1>9. PayTypeOK' /\ RowsAreOfOver' /\ ShownWasSaved'
  BY <1>2, <1>3, <1>5, <1>6 DEF PayInv, PayTypeOK, RowsAreOfOver, ShownWasSaved
<1>10. SavesHoldRows'
  <2>1. ASSUME NEW v \in Users, NEW d \in Paying!Saving(v)'
        PROVE  /\ request'[d].row # Nothing => request'[d].row \in Paying!RowsOf(v)
               /\ v \notin overlapped' => Paying!Saving(v)' = {d}
                                         /\ (request'[d].row = Nothing => Paying!RowsOf(v) = {})
    <3>1. CASE d = c
      <4>1. v = u
        BY <2>1, <3>1, <1>7
      <4>2. QED
        BY <1>2, <1>4, <1>5, <1>6, <1>7, <3>1, <4>1
    <3>2. CASE d # c
      <4>1. d \in Paying!Saving(v) /\ request'[d] = request[d]
        BY <2>1, <3>2, <1>6, <1>7 DEF Paying!Saving
      <4>2. v = u => v \in overlapped'
        BY <1>2, <4>1
      <4>3. QED
        BY <1>2, <1>7, <4>1, <4>2 DEF PayInv, SavesHoldRows
    <3>3. QED
      BY <3>1, <3>2
  <2>2. QED
    BY <2>1, <1>8 DEF SavesHoldRows
<1>11. RowIsSaved'
  BY <1>2, <1>3, <1>8 DEF PayInv, RowIsSaved
<1>12. QED
  BY <1>9, <1>10, <1>11 DEF PayInv

(* A save that is over, with its answer.                                   *)
LEMMA SaveEnds ==
  ASSUME PayInv, NEW u \in Users, NEW c \in Paying!Saving(u), NEW answer \in {"saved", "threw"},
         request' = [request EXCEPT ![c].answer = answer]
  PROVE  /\ DOMAIN request' = Requests
         /\ request'[c] \in SaveTypes /\ request'[c].op = "save" /\ request'[c].answer # Nothing
         /\ \A d \in Requests : d # c => request'[d] = request[d]
         /\ Paying!Saving(u)' = Paying!Saving(u) \ {c}
         /\ \A v \in Users : v # u => Paying!Saving(v)' = Paying!Saving(v)
<1> DEFINE x == [request[c] EXCEPT !.answer = answer]
<1>1. c \in Requests /\ request[c] \in SaveTypes /\ request[c].user = u
  BY DEF Paying!Saving, PayInv, PayTypeOK
<1>2. x \in SaveTypes /\ x.op = "save" /\ x.answer = answer /\ x.user = u
  BY <1>1 DEF SaveTypes
<1>3. request' = [request EXCEPT ![c] = x]
  BY <1>1
<1> HIDE DEF x
<1>4. /\ DOMAIN request' = Requests /\ request'[c] = x
      /\ \A d \in Requests : d # c => request'[d] = request[d]
  BY <1>1, <1>3 DEF PayInv, PayTypeOK
<1>5. QED
  BY <1>1, <1>2, <1>4, PayNames DEF Paying!Saving

LEMMA ThrowKeeps ==
  ASSUME PayInv, NEW c \in Requests, Paying!Throws(c)
  PROVE  PayInv'
<1>1. PICK u \in Users : c \in Paying!Saving(u)
  BY DEF Paying!Throws
<1>2. request' = [request EXCEPT ![c].answer = "threw"] /\ UNCHANGED <<config, saved, overlapped>>
  BY DEF Paying!Throws, Paying!history
<1>3. /\ DOMAIN request' = Requests
      /\ request'[c] \in SaveTypes /\ request'[c].op = "save" /\ request'[c].answer # Nothing
      /\ \A d \in Requests : d # c => request'[d] = request[d]
      /\ Paying!Saving(u)' = Paying!Saving(u) \ {c}
      /\ \A v \in Users : v # u => Paying!Saving(v)' = Paying!Saving(v)
  BY <1>1, <1>2, SaveEnds
<1>4. \A v \in Users : Paying!RowsOf(v)' = Paying!RowsOf(v)
  BY <1>2 DEF Paying!RowsOf
<1>5. PayTypeOK' /\ RowsAreOfOver' /\ ShownWasSaved'
  BY <1>2, <1>3 DEF PayInv, PayTypeOK, RowsAreOfOver, ShownWasSaved
<1>6. SavesHoldRows'
  BY <1>1, <1>2, <1>3, <1>4 DEF PayInv, SavesHoldRows, Paying!Saving
<1>7. RowIsSaved'
  BY <1>2, <1>4 DEF PayInv, RowIsSaved
<1>8. QED
  BY <1>5, <1>6, <1>7 DEF PayInv

LEMMA WriteKeeps ==
  ASSUME PayInv, NEW c \in Requests, Paying!WriteConfig(c)
  PROVE  PayInv'
<1>1. PICK u \in Users :
        /\ c \in Paying!Saving(u)
        /\ LET s   == request[c]
               row == IF s.row = Nothing THEN c ELSE s.row
           IN  /\ config' = [r \in {row} \cup DOMAIN config |->
                       IF r = row THEN Paying!Written(row, u, s.choice) ELSE config[r]]
               /\ saved' = [saved EXCEPT ![u] = Paying!Priced(s.choice)]
        /\ \E answer \in {"saved", "threw"} : request' = [request EXCEPT ![c].answer = answer]
        /\ overlapped' = overlapped
  BY DEF Paying!WriteConfig
<1> DEFINE row == IF request[c].row = Nothing THEN c ELSE request[c].row
           set == Paying!Priced(request[c].choice)
<1>2. /\ config' = [r \in {row} \cup DOMAIN config |->
                      IF r = row THEN [user |-> u, set |-> set] ELSE config[r]]
      /\ saved' = [saved EXCEPT ![u] = set] /\ overlapped' = overlapped
  BY <1>1 DEF Paying!Written
<1>3. /\ DOMAIN request' = Requests
      /\ request'[c] \in SaveTypes /\ request'[c].op = "save" /\ request'[c].answer # Nothing
      /\ \A d \in Requests : d # c => request'[d] = request[d]
      /\ Paying!Saving(u)' = Paying!Saving(u) \ {c}
      /\ \A v \in Users : v # u => Paying!Saving(v)' = Paying!Saving(v)
  BY <1>1, SaveEnds
<1>4. /\ request[c] \in SaveTypes /\ request[c].op = "save" /\ request[c].answer = Nothing
      /\ set \in Shown /\ c \notin DOMAIN config
  BY <1>1 DEF Paying!Saving, PayInv, PayTypeOK, SaveTypes, Shown, RowsAreOfOver
<1>5. /\ row \in Requests
      /\ request[c].row # Nothing => row \in Paying!RowsOf(u)
      /\ u \notin overlapped => Paying!RowsOf(u) \subseteq {row}
  <2>1. CASE request[c].row = Nothing
    BY <1>1, <2>1 DEF PayInv, SavesHoldRows
  <2>2. CASE request[c].row # Nothing
    <3>1. row \in Paying!RowsOf(u)
      BY <1>1, <2>2 DEF PayInv, SavesHoldRows
    <3>2. QED
      BY <2>2, <3>1 DEF PayInv, PayTypeOK, RowIsSaved, Paying!RowsOf
  <2>3. QED
    BY <2>1, <2>2
<1> HIDE DEF row, set
<1>6. /\ DOMAIN config' = {row} \cup DOMAIN config
      /\ config'[row].user = u /\ config'[row].set = set
      /\ \A r \in DOMAIN config : r # row => config'[r] = config[r]
      /\ row \in DOMAIN config => config[row].user = u
  <2>1. row = c \/ row \in Paying!RowsOf(u)
    BY <1>5 DEF row
  <2>2. QED
    BY <1>2, <1>4, <2>1 DEF Paying!RowsOf
<1>7. /\ Paying!RowsOf(u)' = Paying!RowsOf(u) \cup {row}
      /\ \A v \in Users : v # u => Paying!RowsOf(v)' = Paying!RowsOf(v)
  BY <1>6 DEF Paying!RowsOf
<1>8. PayTypeOK'
  BY <1>2, <1>3, <1>4, <1>5, <1>6 DEF PayInv, PayTypeOK
<1>9. RowsAreOfOver'
  <2>1. row = c \/ row \in DOMAIN config
    BY <1>5 DEF row, Paying!RowsOf
  <2>2. QED
    BY <1>3, <1>6, <2>1 DEF PayInv, PayTypeOK, RowsAreOfOver
<1>10. ShownWasSaved'
  BY <1>2, <1>3 DEF PayInv, ShownWasSaved
<1>11. SavesHoldRows'
  <2>1. ASSUME NEW v \in Users, NEW d \in Paying!Saving(v)'
        PROVE  /\ request'[d].row # Nothing => request'[d].row \in Paying!RowsOf(v)'
               /\ v \notin overlapped' =>
                    Paying!Saving(v)' = {d} /\ (request'[d].row = Nothing => Paying!RowsOf(v)' = {})
    <3>1. d \in Paying!Saving(v) /\ d # c
      BY <1>1, <1>3, <2>1 DEF Paying!Saving
    <3>2. request'[d] = request[d]
      BY <1>3, <3>1 DEF Paying!Saving
    <3>3. CASE v = u
      <4>1. u \in overlapped
        BY <1>1, <3>1, <3>3 DEF PayInv, SavesHoldRows
      <4>2. QED
        BY <1>2, <1>7, <3>1, <3>2, <3>3, <4>1 DEF PayInv, SavesHoldRows
    <3>4. CASE v # u
      BY <1>2, <1>3, <1>7, <3>1, <3>2, <3>4 DEF PayInv, SavesHoldRows
    <3>5. QED
      BY <3>3, <3>4
  <2>2. QED
    BY <2>1 DEF SavesHoldRows
<1>12. RowIsSaved'
  <2>1. ASSUME NEW v \in Users, v \notin overlapped
        PROVE  IF Paying!RowsOf(v)' = {} THEN saved'[v] = Paying!Default
               ELSE \A r, q \in Paying!RowsOf(v)' : r = q /\ config'[r].set = saved'[v]
    <3>1. CASE v = u
      BY <1>2, <1>5, <1>6, <1>7, <2>1, <3>1 DEF PayInv, PayTypeOK
    <3>2. CASE v # u
      <4>1. Paying!RowsOf(v)' = Paying!RowsOf(v) /\ saved'[v] = saved[v]
        BY <1>2, <1>7, <3>2 DEF PayInv, PayTypeOK
      <4>2. \A r \in Paying!RowsOf(v) : r # row /\ config'[r] = config[r]
        BY <1>6, <3>2 DEF Paying!RowsOf
      <4>3. QED
        BY <2>1, <4>1, <4>2 DEF PayInv, RowIsSaved
    <3>3. QED
      BY <3>1, <3>2
  <2>2. QED
    BY <1>2, <2>1 DEF RowIsSaved
<1>13. QED
  BY <1>8, <1>9, <1>10, <1>11, <1>12 DEF PayInv

LEMMA PayInductive == PayInv /\ Paying!Next => PayInv'
<1> SUFFICES ASSUME PayInv, Paying!Next PROVE PayInv'
  OBVIOUS
<1>1. PICK c \in Requests :
        \/ Paying!CreateCheckout(c) \/ Paying!CreateServiceCheckout(c)
        \/ Paying!CreateTestCheckout(c) \/ Paying!CreateSmiCheckout(c) \/ Paying!Pay(c)
        \/ Paying!GetSession(c) \/ Paying!GetSubscriptionStatus(c)
        \/ Paying!CancelSubscription(c) \/ Paying!GetServiceSummary(c) \/ Paying!GetConfig(c)
        \/ Paying!FindConfig(c) \/ Paying!WriteConfig(c) \/ Paying!Throws(c)
  BY DEF Paying!Next
<1> USE DEF Paying!stripe, Paying!history
<1>2. CASE Paying!CreateCheckout(c)
  BY <1>2, Answers DEF Paying!CreateCheckout, Paying!Checkout
<1>3. CASE Paying!CreateServiceCheckout(c)
  BY <1>3, Answers DEF Paying!CreateServiceCheckout, Paying!Checkout
<1>4. CASE Paying!CreateTestCheckout(c)
  BY <1>4, Answers DEF Paying!CreateTestCheckout, Paying!Checkout
<1>5. CASE Paying!CreateSmiCheckout(c)
  BY <1>5, Answers DEF Paying!CreateSmiCheckout
<1>6. CASE Paying!Pay(c)
  BY <1>6 DEF Paying!Pay, PayInv, PayTypeOK, RowsAreOfOver, SavesHoldRows, RowIsSaved, ShownWasSaved,
     Paying!Saving, Paying!RowsOf
<1>7. CASE Paying!GetSession(c)
  BY <1>7, Answers DEF Paying!GetSession
<1>8. CASE Paying!GetSubscriptionStatus(c)
  BY <1>8, Answers DEF Paying!GetSubscriptionStatus
<1>9. CASE Paying!CancelSubscription(c)
  BY <1>9, Answers DEF Paying!CancelSubscription
<1>10. CASE Paying!GetServiceSummary(c)
  BY <1>10, Answers DEF Paying!GetServiceSummary
<1>11. QED
  BY <1>1, <1>2, <1>3, <1>4, <1>5, <1>6, <1>7, <1>8, <1>9, <1>10, ShowKeeps, FindKeeps, WriteKeeps,
     ThrowKeeps

LEMMA PayAlways == AllSpec => [](part = "checkouts" => PayInv)
<1>1. AllInit => (part = "checkouts" => PayInv)
  BY PayInitially DEF AllInit
<1>2. (part = "checkouts" => PayInv) /\ [AllNext]_allVars => (part = "checkouts" => PayInv)'
  <2> SUFFICES ASSUME part = "checkouts" => PayInv, [AllNext]_allVars, part' = "checkouts"
               PROVE  PayInv'
    OBVIOUS
  <2>1. CASE part = "checkouts" /\ Paying!Next
    BY <2>1, PayInductive
  <2>2. CASE part = "checkouts" /\ UNCHANGED <<request, config, saved, overlapped>>
    BY <2>2 DEF PayInv, PayTypeOK, RowsAreOfOver, SavesHoldRows, RowIsSaved, ShownWasSaved,
       Paying!Saving, Paying!RowsOf
  <2>3. QED
    BY <2>1, <2>2 DEF AllNext, allVars
<1>3. QED
  BY <1>1, <1>2, PTL DEF AllSpec

(* A user whose saves never overlapped is shown what was written last,     *)
(* with its price, or the default.                                         *)
THEOREM SavedIsShown == AllSpec => []ShownIsSaved
<1>1. (part = "checkouts" => PayInv) => ShownIsSaved
  BY DEF PayInv, ShownWasSaved, ShownIsSaved, Paying!ShownIsSaved
<1>2. QED
  BY <1>1, PayAlways, PTL
=============================================================================
