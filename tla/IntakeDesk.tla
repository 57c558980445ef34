----------------------------- MODULE IntakeDesk -----------------------------
(***************************************************************************)
(* The front desk of server/routers/_incoming_routers.ts: customers submit *)
(* intakes and applications, redeem and create referral codes, approve the *)
(* build plan behind their preview; administrators change statuses, turn   *)
(* applications into intakes and send the preview link, which email.ts     *)
(* logs for the cooldown of the next one.                                  *)
(*                                                                         *)
(* A request is a sequence of awaited statements without a transaction;    *)
(* each statement on modelled rows is an action. A request is issued once  *)
(* and inserts at most one row of each table, which bears its name. Text,  *)
(* prices and the mails nothing depends on are left out.                   *)
(***************************************************************************)
EXTENDS Integers, FiniteSets

CONSTANTS
  Calls,         \* requests
  Customers,     \* intakes of earlier days, with a plan, ready for review
                 \* with a preview link, or by bulkUpdateStatus without
  Codes,         \* referral codes
  Applications,  \* applications without an intake
  Nothing        \* null

NamesAssumption ==
  /\ Calls \cap Customers = {} /\ Calls \cap Applications = {}
  /\ Nothing \notin Calls \cup Customers \cup Codes \cup Applications

Intakes  == Calls \cup Customers
Statuses == {"new", "needs_info", "ready_for_review", "approved"}

VARIABLES
  intake,    \* intakes: status and previewToken, named by who generated it
  referral,  \* referrals, by their unique code
  linked,    \* intakeId of the suite applications, "none" without a row
  plans,     \* build_plans rows: their intake and the second of createdAt
  approvals, \* approvals rows: who inserted it and the plan it names
  question,  \* clarifications, named by the request that created them
  logged, fresh,   \* email_logs of preview mails, those under a minute old
  call,      \* where each request is, and what it has read
  ended,     \* history: for each request those that ended before it began
  granted,   \* history: discounts, codes and intakes given, and by which
             \* request
  mails, recent,     \* history: preview mails, those sent within a minute
  retired, replaced  \* history: tokens no intake has any more, and for each
                     \* request those it found retired or retired itself

rows    == <<intake, referral, linked, plans, approvals, question, logged, fresh>>
history == <<ended, granted, mails, recent, retired, replaced>>
vars    == <<rows, call, history>>

Ops == {"submit", "apply", "approve", "updateStatus", "bulkUpdateStatus",
        "resend", "feedback", "logApproval", "generate", "createCode",
        "markPaid", "ask", "answer"}

NoIntake == [status |-> "none", token |-> Nothing]
NoCode   == [referrer |-> Nothing, status |-> "none", referee |-> Nothing,
             paid |-> FALSE]
NoCall   == [op |-> "submit", step |-> "none", on |-> Nothing, ref |-> Nothing]

Init ==
  /\ \E linkless \in SUBSET Customers :
       intake = [i \in Intakes |-> IF i \notin Customers THEN NoIntake
         ELSE [status |-> "ready_for_review",
               token  |-> IF i \in linkless THEN Nothing ELSE i]]
  /\ \E k \in Codes, i \in Customers :
       referral = [x \in Codes |-> IF x # k THEN NoCode
                     ELSE [NoCode EXCEPT !.referrer = i, !.status = "pending"]]
  /\ linked = [a \in Applications \cup Calls |->
                 IF a \in Applications THEN Nothing ELSE "none"]
  /\ plans = {[id |-> i, intake |-> i, second |-> 0] : i \in Customers}
  /\ approvals = {} /\ logged = {} /\ fresh = {}
  /\ question = [c \in Calls |-> "none"]
  /\ call = [c \in Calls |-> NoCall]
  /\ ended = [c \in Calls |-> {}] /\ replaced = [c \in Calls |-> {}]
  /\ granted = {} /\ mails = {} /\ recent = {} /\ retired = {}

-----------------------------------------------------------------------------
(* Requests.                                                               *)
At(c, op, step) == call[c].op = op /\ call[c].step = step
Goto(c, step)   == call' = [call EXCEPT ![c].step = step]
Return(c)       == Goto(c, "returned")
Exists(i)       == intake[i].status # "none"

(* What a request names: the intake it works on (its own for those that    *)
(* insert one), and a code, an application or a question.                  *)
Targets(c, op) ==
  CASE op = "submit"   -> {c} \X (Codes \cup {Nothing})
    [] op = "apply"    -> {c} \X {Nothing}
    [] op = "approve"  -> {c} \X {a \in DOMAIN linked : linked[a] # "none"}
    [] op = "markPaid" -> {Nothing} \X {k \in Codes : referral[k].status # "none"}
    [] op = "answer"   -> {Nothing} \X {q \in Calls : question[q] # "none"}
    [] OTHER           -> {i \in Intakes : Exists(i)} \X {Nothing}

Begin(c) ==
  /\ call[c].step = "none"
  /\ \E op \in Ops : \E t \in Targets(c, op) :
       call' = [call EXCEPT ![c] =
                  [op |-> op, step |-> "begin", on |-> t[1], ref |-> t[2]]]
  /\ ended' = [ended EXCEPT ![c] = {d \in Calls : call[d].step = "returned"}]
  /\ replaced' = [replaced EXCEPT ![c] = retired]
  /\ UNCHANGED <<rows, granted, mails, recent, retired>>

(* Any statement may throw, and the answer of one that took effect may be  *)
(* lost; a refusal before the first statement (the rate limit, a malformed *)
(* input) is the same. sendEmail never throws.                             *)
Fails(c) ==
  /\ call[c].step \notin {"none", "mail", "log", "returned"}
  /\ Return(c)
  /\ UNCHANGED <<rows, history>>

Grant(kind, key, c) ==
  granted' = granted \cup {[kind |-> kind, key |-> key, call |-> c]}

(* createIntake.                                                           *)
InsertIntake(c) == intake' = [intake EXCEPT ![c].status = "new"]

-----------------------------------------------------------------------------
(* intake.submit. The promo code's part is PromoReservation, whose answer  *)
(* is only logged; the confirmations depend on nothing here.               *)
Submit(c) ==
  /\ At(c, "submit", "begin")
  /\ InsertIntake(c)
  /\ IF call[c].ref = Nothing THEN Return(c) ELSE Goto(c, "write")
  /\ UNCHANGED <<referral, linked, plans, approvals, question, logged, fresh, history>>

(* Mutant of Redeemable: any code that exists gives its discount.          *)
Known(k) == referral[k].status # "none"

(* The code is read, and used by the next statement if it is pending.      *)
Redeemable(k) == referral[k].status = "pending"

ReadReferral(c) ==
  /\ At(c, "submit", "write")
  /\ IF Redeemable(call[c].ref) THEN Goto(c, "use") ELSE Return(c)
  /\ UNCHANGED <<rows, history>>

UseReferral(c) ==
  /\ At(c, "submit", "use")
  /\ referral' = [referral EXCEPT ![call[c].ref].status = "used",
                                  ![call[c].ref].referee = c]
  /\ Grant("discount", call[c].ref, c)
  /\ Return(c)
  /\ UNCHANGED <<intake, linked, plans, approvals, question, logged, fresh,
                 ended, mails, recent, retired, replaced>>

(* referral.create: the customer's own code if there is one; otherwise one *)
(* that a look, repeated ten times, found free; after ten it may be taken. *)
OwnCodes(i) == {k \in Codes : referral[k].referrer = i}

FindCode(c) ==
  /\ At(c, "createCode", "begin")
  /\ \/ OwnCodes(call[c].on) # {} /\ Return(c)
     \/ /\ OwnCodes(call[c].on) = {}
        /\ \E k \in Codes : call' = [call EXCEPT ![c].step = "insert", ![c].ref = k]
  /\ UNCHANGED <<rows, history>>

(* referrals.code is unique: the insert of a taken one throws.             *)
InsertCode(c) ==
  LET k == call[c].ref IN
  /\ At(c, "createCode", "insert") /\ referral[k].status = "none"
  /\ referral' = [referral EXCEPT ![k] =
       [NoCode EXCEPT !.referrer = call[c].on, !.status = "pending"]]
  /\ Grant("code", call[c].on, c)
  /\ Return(c)
  /\ UNCHANGED <<intake, linked, plans, approvals, question, logged, fresh,
                 ended, mails, recent, retired, replaced>>

MarkPaid(c) ==
  /\ At(c, "markPaid", "begin")
  /\ referral' = [referral EXCEPT ![call[c].ref].paid = TRUE]
  /\ Return(c)
  /\ UNCHANGED <<intake, linked, plans, approvals, question, logged, fresh, history>>

-----------------------------------------------------------------------------
(* Statuses and preview links.                                             *)

(* A new link for intake i, named by the request that generates it.        *)
Publish(c, i) ==
  LET old == {intake[i].token} \ {Nothing} IN
  /\ intake' = [intake EXCEPT ![i] = [status |-> "ready_for_review", token |-> c]]
  /\ retired' = retired \cup old
  /\ replaced' = [replaced EXCEPT ![c] = @ \cup old]

(* suiteApply.submit: the intake, its link, the application, the mail.     *)
Apply(c) ==
  /\ At(c, "apply", "begin")
  /\ InsertIntake(c) /\ Goto(c, "publish")
  /\ UNCHANGED <<referral, linked, plans, approvals, question, logged, fresh, history>>

PublishOwn(c) ==
  /\ call[c].step = "publish"
  /\ Publish(c, c)
  /\ Goto(c, IF call[c].op = "apply" THEN "application" ELSE "link")
  /\ UNCHANGED <<referral, linked, plans, approvals, question, logged, fresh,
                 ended, granted, mails, recent>>

InsertApplication(c) ==
  /\ At(c, "apply", "application")
  /\ linked' = [linked EXCEPT ![c] = c]
  /\ Goto(c, "mail")
  /\ UNCHANGED <<intake, referral, plans, approvals, question, logged, fresh, history>>

(* approveAndCreateIntake: refused if the application read has an intake,  *)
(* or lacks what the plan needs.                                           *)
MayApprove(a) == linked[a] = Nothing

ReadApplication(c) ==
  /\ At(c, "approve", "begin")
  /\ \/ Return(c)
     \/ MayApprove(call[c].ref) /\ Goto(c, "insert")
  /\ UNCHANGED <<rows, history>>

ApproveInsert(c) ==
  /\ At(c, "approve", "insert")
  /\ InsertIntake(c)
  /\ \E auto \in BOOLEAN : Goto(c, IF auto THEN "plan" ELSE "link")
  /\ UNCHANGED <<referral, linked, plans, approvals, question, logged, fresh, history>>

LinkApplication(c) ==
  /\ At(c, "approve", "link")
  /\ linked' = [linked EXCEPT ![call[c].ref] = c]
  /\ Grant("intake", call[c].ref, c)
  /\ IF intake[c].token = Nothing THEN Return(c) ELSE Goto(c, "mail")
  /\ UNCHANGED <<intake, referral, plans, approvals, question, logged, fresh,
                 ended, mails, recent, retired, replaced>>

(* updateStatus: an administrator may set any status from any; only        *)
(* ready_for_review makes a link. The look at the intake only refuses.     *)
UpdateStatus(c) ==
  /\ At(c, "updateStatus", "begin")
  /\ \/ /\ Publish(c, call[c].on) /\ Goto(c, "mail")
     \/ /\ \E s \in Statuses \ {"ready_for_review"} :
             intake' = [intake EXCEPT ![call[c].on].status = s]
        /\ Return(c) /\ UNCHANGED <<retired, replaced>>
  /\ UNCHANGED <<referral, linked, plans, approvals, question, logged, fresh,
                 ended, granted, mails, recent>>

(* bulkUpdateStatus writes one intake after the other: each is a request   *)
(* of its own. No link is made, whatever the status. feedback is           *)
(* intake.submitFeedback.                                                  *)
SetStatus(c) ==
  /\ \/ At(c, "feedback", "begin")
          /\ intake' = [intake EXCEPT ![call[c].on].status = "needs_info"]
     \/ At(c, "bulkUpdateStatus", "begin")
          /\ \E s \in Statuses : intake' = [intake EXCEPT ![call[c].on].status = s]
  /\ Return(c)
  /\ UNCHANGED <<referral, linked, plans, approvals, question, logged, fresh, history>>

(* resendPreviewEmail reads the intake, whose link it will send, and then  *)
(* the newest log row of a preview mail.                                   *)
MayResend(i) == i.status = "ready_for_review" /\ i.token # Nothing

ReadIntake(c) ==
  LET i == intake[call[c].on] IN
  /\ At(c, "resend", "begin")
  /\ IF MayResend(i)
       THEN call' = [call EXCEPT ![c].step = "cooldown", ![c].ref = i.token]
       ELSE Return(c)
  /\ UNCHANGED <<rows, history>>

(* Mutant of CoolingDown: mails of status changes do not count.            *)
CoolingDownFromResend(i) ==
  \E d \in fresh : call[d].op = "resend" /\ call[d].on = i

CoolingDown(i) == \E d \in fresh : call[d].on = i

CheckCooldown(c) ==
  /\ At(c, "resend", "cooldown")
  /\ IF CoolingDown(call[c].on) THEN Return(c) ELSE Goto(c, "mail")
  /\ UNCHANGED <<rows, history>>

(* Mutant of LinkFor: a status change mails the link the intake had.       *)
LinkBefore(c) == IF call[c].op = "resend" THEN call[c].ref
                 ELSE IF replaced[c] = {} THEN c ELSE CHOOSE t \in replaced[c] : TRUE

(* The link in the mail: the one read, or the one just generated.          *)
LinkFor(c) == IF call[c].op = "resend" THEN call[c].ref ELSE c

(* sendEmail: the provider accepts the mail or not; either way a row is    *)
(* logged next, and its failure is swallowed.                              *)
SendMail(c) ==
  /\ call[c].step = "mail"
  /\ mails' = mails \cup {[call |-> c, intake |-> call[c].on, token |-> LinkFor(c)]}
  /\ recent' = recent \cup {c}
  /\ Goto(c, "log")
  /\ UNCHANGED <<rows, ended, granted, retired, replaced>>

LogMail(c) ==
  /\ call[c].step = "log"
  /\ \/ logged' = logged \cup {c} /\ fresh' = fresh \cup {c}
     \/ UNCHANGED <<logged, fresh>>
  /\ Return(c)
  /\ UNCHANGED <<intake, referral, linked, plans, approvals, question, history>>

(* A minute has passed since a mail, and then since its log row.           *)
Minute(c) ==
  /\ \/ c \in recent /\ recent' = recent \ {c} /\ UNCHANGED fresh
     \/ c \in fresh \ recent /\ fresh' = fresh \ {c} /\ UNCHANGED recent
  /\ UNCHANGED <<intake, referral, linked, plans, approvals, question, logged, call,
                 ended, granted, mails, retired, replaced>>

-----------------------------------------------------------------------------
(* Plans, their approval, and questions.                                   *)
Now == IF plans = {} THEN 0
       ELSE CHOOSE s \in {p.second : p \in plans} : \A p \in plans : p.second <= s

(* createBuildPlan, by buildPlan.generate or an approved application, in   *)
(* the second of the newest plan or later.                                 *)
InsertPlan(c) ==
  /\ At(c, "generate", "begin") \/ At(c, "approve", "plan")
  /\ \E s \in {Now, Now + 1} :
       plans' = plans \cup {[id |-> c, intake |-> call[c].on, second |-> s]}
  /\ Goto(c, IF call[c].op = "approve" THEN "publish" ELSE "returned")
  /\ UNCHANGED <<intake, referral, linked, approvals, question, logged, fresh, history>>

PlansOf(i)  == {p \in plans : p.intake = i}

(* Mutant of IsNewest: ascending order.                                    *)
IsOldest(p) == \A q \in PlansOf(p.intake) : q.second >= p.second

(* getBuildPlanByIntakeId: a row with the latest createdAt.                *)
IsNewest(p) == \A q \in PlansOf(p.intake) : q.second <= p.second

ReadPlan(c) ==
  LET found == {p \in PlansOf(call[c].on) : IsNewest(p)} IN
  /\ At(c, "logApproval", "begin")
  /\ \/ \E p \in found :
          call' = [call EXCEPT ![c].step = "insert", ![c].ref = p.id]
     \/ found = {} /\ Return(c)
  /\ UNCHANGED <<rows, history>>

InsertApproval(c) ==
  /\ At(c, "logApproval", "insert")
  /\ approvals' = approvals \cup
       {[by |-> c, intake |-> call[c].on, plan |-> call[c].ref]}
  /\ Return(c)
  /\ UNCHANGED <<intake, referral, linked, plans, question, logged, fresh, history>>

(* clarify.create; clarify.submit answers by token, however often.         *)
Clarify(c) ==
  /\ \/ At(c, "ask", "begin") /\ question' = [question EXCEPT ![c] = "pending"]
     \/ At(c, "answer", "begin")
          /\ question' = [question EXCEPT ![call[c].ref] = "answered"]
  /\ Return(c)
  /\ UNCHANGED <<intake, referral, linked, plans, approvals, logged, fresh, history>>

-----------------------------------------------------------------------------
Step(c) ==
  \/ Begin(c) \/ Fails(c)
  \/ Submit(c) \/ ReadReferral(c) \/ UseReferral(c)
  \/ FindCode(c) \/ InsertCode(c) \/ MarkPaid(c)
  \/ Apply(c) \/ PublishOwn(c) \/ InsertApplication(c)
  \/ ReadApplication(c) \/ ApproveInsert(c) \/ LinkApplication(c)
  \/ UpdateStatus(c) \/ SetStatus(c) \/ ReadIntake(c) \/ CheckCooldown(c)
  \/ SendMail(c) \/ LogMail(c) \/ Minute(c)
  \/ InsertPlan(c) \/ ReadPlan(c) \/ InsertApproval(c) \/ Clarify(c)

Next == \E c \in Calls : Step(c)
Spec == Init /\ [][Next]_vars

-----------------------------------------------------------------------------
(* A code gives its discount, a customer gets a code and an application    *)
(* becomes an intake once, however requests fail; a second time only for   *)
(* requests that overlap, each reading before the other has written.       *)
OnceUnlessOverlapping ==
  \A g, h \in granted :
    g.kind = h.kind /\ g.key = h.key /\ g.call # h.call =>
      h.call \notin ended[g.call]

(* Within a minute of a preview mail a resend sends none, unless it began  *)
(* before that mail's request ended or the mail could not be logged.       *)
PreviewMailsSpaced ==
  \A d \in recent : call[d].op = "resend" =>
    \A c \in recent \cap ended[d] \cap logged : call[c].on # call[d].on

(* No mail carries a link that was replaced before its request began, or   *)
(* that its own request has replaced.                                      *)
LinksAreCurrent == \A m \in mails : m.token \notin replaced[m.call]

(* An approval names a plan of its own intake, and no plan of that intake  *)
(* is of a later second unless it was generated while the customer's       *)
(* request was under way or after it.                                      *)
ApprovesNewestPlan ==
  \A a \in approvals : \E p \in PlansOf(a.intake) :
    /\ p.id = a.plan
    /\ \A q \in PlansOf(a.intake) : q.id \in ended[a.by] => q.second <= p.second
=============================================================================
