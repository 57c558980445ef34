---------------------------- MODULE ShadowTraining ----------------------------
(***************************************************************************)
(* Shadow learning in one run of one user: after a reply two shadow models *)
(* answer the same exchange (services/shadowInference.ts), locally when    *)
(* services/ollamaClient.ts finds the local server healthy; the client is  *)
(* shown one of them in compare mode and votes                             *)
(* (routers/mobile/index.ts); services/trainingCollector.ts makes examples *)
(* of the pairs voted on.                                                  *)
(*                                                                         *)
(* A lane's statements, calls and failures are actions. Time counts in     *)
(* units of the longest health check. Texts are left out, and the limit    *)
(* and the date of an export. A vote names models as their events do.      *)
(***************************************************************************)
EXTENDS Integers

CONSTANTS
  Exchanges,  \* a message of the user and its reply
  Period,     \* HEALTH_CACHE_MS
  MaxTime     \* bound of the model

TrainingAssumption ==
  Period \in Nat \ {0, 1} /\ MaxTime \in Nat

Lanes == {"main", "sandbox"}

(* Names of the models that reply, one of which has "llama" in it. Shadows *)
(* are "ollama/..." locally and "deepseek/deepseek-chat-v3.1" if paid for. *)
ReplyModels == {"claude", "llama"}

VARIABLES
  events,     \* the models named by an exchange's events: its reply's, and that of
              \* the shadow shown
  mode,       \* what became of an exchange: none, asked, replied, quiet (nothing
              \* shown), compare, shown
  lane,       \* how far each lane of each exchange is, when it asked, which model answered
  pairs,      \* shadow_responses
  cache,      \* lastHealthCheck, lastHealthResult
  clock,
  vote,       \* history: the last vote on an exchange, and whether it had the event's id
  informed    \* history: exchanges whose last vote came after the shadow was shown

vars == <<events, mode, lane, pairs, cache, clock, vote, informed>>

NoLane == [step |-> "none", began |-> 0, model |-> "none"]
NoVote == [side |-> "none", hasEvent |-> FALSE]

Init ==
  /\ events = [e \in Exchanges |-> [reply |-> "none", shown |-> "none"]]
  /\ mode = [e \in Exchanges |-> "none"]
  /\ lane = [e \in Exchanges |-> [l \in Lanes |-> NoLane]]
  /\ pairs = {} /\ clock = 0
  /\ \E up \in BOOLEAN, t \in {0 - Period, 0} : cache = [at |-> t, up |-> up]
  /\ vote = [e \in Exchanges |-> NoVote] /\ informed = {}

(* A health check is aborted after one unit.                               *)
Tick ==
  /\ clock < MaxTime /\ clock' = clock + 1
  /\ \A e \in Exchanges, l \in Lanes : lane[e][l].step = "probe" => lane[e][l].began = clock
  /\ UNCHANGED <<events, mode, lane, pairs, cache, vote, informed>>

Ask(e) ==
  /\ mode[e] = "none"
  /\ mode' = [mode EXCEPT ![e] = "asked"]
  /\ UNCHANGED <<events, lane, pairs, cache, clock, vote, informed>>

(* In compare mode there is always a shadow, else when the user's          *)
(* preference, or its default, says so.                                    *)
Reply(e) ==
  /\ mode[e] = "asked"
  /\ \E name \in ReplyModels : events' = [events EXCEPT ![e].reply = name]
  /\ \E m \in {"replied", "quiet", "compare"} :
       /\ mode' = [mode EXCEPT ![e] = m]
       /\ lane' = IF m = "replied" THEN lane
                  ELSE [lane EXCEPT ![e] = [l \in Lanes |-> [NoLane EXCEPT !.step = "health"]]]
  /\ UNCHANGED <<pairs, cache, clock, vote, informed>>

-----------------------------------------------------------------------------
(* Only the main lane falls back on the model that is paid for.            *)
Course(l, up) == IF up THEN "local" ELSE IF l = "main" THEN "paid" ELSE "nothing"

Decide(e, l, up) == lane' = [lane EXCEPT ![e][l] = [NoLane EXCEPT !.step = Course(l, up)]]

(* isOllamaHealthy *)
AskHealth(e, l) ==
  /\ lane[e][l].step = "health"
  /\ IF clock - cache.at < Period THEN Decide(e, l, cache.up)
     ELSE lane' = [lane EXCEPT ![e][l] = [NoLane EXCEPT !.step = "probe", !.began = clock]]
  /\ UNCHANGED <<events, mode, pairs, cache, clock, vote, informed>>

Probe(e, l) ==
  /\ lane[e][l].step = "probe"
  /\ \E up \in BOOLEAN : cache' = [at |-> lane[e][l].began, up |-> up] /\ Decide(e, l, up)
  /\ UNCHANGED <<events, mode, pairs, clock, vote, informed>>

ShadowModel(course) == IF course = "local" THEN "ollama" ELSE "deepseek"

Call(e, l) ==
  /\ lane[e][l].step \in {"local", "paid"}
  /\ \E step \in {"store", "nothing"} :
       lane' = [lane EXCEPT ![e][l] = [NoLane EXCEPT !.step = step,
                                                     !.model = ShadowModel(lane[e][l].step)]]
  /\ UNCHANGED <<events, mode, pairs, cache, clock, vote, informed>>

(* The insert may fail, and the response is passed on all the same.        *)
Store(e, l) ==
  /\ lane[e][l].step = "store"
  /\ \E failed \in BOOLEAN :
       pairs' = IF failed THEN pairs ELSE pairs \cup {[of |-> e, lane |-> l, vote |-> "none"]}
  /\ lane' = [lane EXCEPT ![e][l].step = "response"]
  /\ UNCHANGED <<events, mode, cache, clock, vote, informed>>

(* Mutant of Ready: the first response is shown.                           *)
ReadyFirst(e) == \E l \in Lanes : lane[e][l].step = "response"

Ready(e) == \A l \in Lanes : lane[e][l].step \in {"response", "nothing"}

(* The main lane's response is preferred; the insert may fail.             *)
Emit(e) ==
  /\ mode[e] = "compare" /\ Ready(e)
  /\ \E l \in Lanes :
       /\ lane[e][l].step = "response"
       /\ l = "sandbox" => lane[e]["main"].step # "response"
       /\ events' = [events EXCEPT ![e].shown = lane[e][l].model]
  /\ mode' = [mode EXCEPT ![e] = "shown"]
  /\ UNCHANGED <<lane, pairs, cache, clock, vote, informed>>

(* Nothing to show, or the event cannot be inserted.                       *)
ShowNothing(e) ==
  /\ mode[e] = "compare" /\ Ready(e)
  /\ mode' = [mode EXCEPT ![e] = "quiet"]
  /\ UNCHANGED <<events, lane, pairs, cache, clock, vote, informed>>

(* submitModelPreference tells the side from the preferred model's name,   *)
(* and marks every pair of the event that it is given.                     *)
Side(name) == IF name \in {"ollama", "llama"} THEN "shadow" ELSE "primary"

Vote(e) ==
  /\ mode[e] \notin {"none", "asked"}
  /\ \E side \in {"reply"} \cup (IF mode[e] = "shown" THEN {"shown"} ELSE {}), hasEvent \in BOOLEAN :
       /\ vote' = [vote EXCEPT ![e] = [side |-> side, hasEvent |-> hasEvent]]
       /\ pairs' = {IF p.of = e /\ hasEvent THEN [p EXCEPT !.vote = Side(events[e][side])] ELSE p :
                      p \in pairs}
  /\ informed' = IF mode[e] = "shown" THEN informed \cup {e} ELSE informed
  /\ UNCHANGED <<events, mode, lane, cache, clock>>

-----------------------------------------------------------------------------
(* exportTrainingData.                                                     *)
Voted == {p \in pairs : p.vote # "none"}

(* The response that becomes an example's output.                          *)
Output(p) == [kind |-> IF p.vote = "shadow" THEN p.lane ELSE "reply", of |-> p.of]

Next ==
  \/ Tick
  \/ \E e \in Exchanges :
       \/ Ask(e) \/ Reply(e) \/ Emit(e) \/ ShowNothing(e) \/ Vote(e)
       \/ \E l \in Lanes : AskHealth(e, l) \/ Probe(e, l) \/ Call(e, l) \/ Store(e, l)

Spec == Init /\ [][Next]_vars

-----------------------------------------------------------------------------
(* The names of the two sides tell which is the shadow.                    *)
ToldApart(e) == Side(events[e].reply) = "primary" /\ Side(events[e].shown) = "shadow"

ChosenBy(e, p) == [kind |-> IF vote[e].side = "reply" THEN "reply" ELSE p.lane, of |-> e]

(* A vote given when two responses were shown, with the event it is about, *)
(* is on every pair of its exchange that was or will be stored: nothing is *)
(* shown before both lanes have stored what they have. Each pair is marked *)
(* with the side that the preferred model's name stands for, and makes an  *)
(* example of the side chosen where the names tell the sides apart.        *)
VoteReachesPairs ==
  \A e \in informed : vote[e].hasEvent => \A p \in pairs : p.of = e =>
    /\ p \in Voted /\ p.vote = Side(events[e][vote[e].side])
    /\ ToldApart(e) => Output(p) = ChosenBy(e, p)

(* What the collector says of an export: "The preferred response becomes   *)
(* the training output" (trainingCollector.ts:57). The side stored comes   *)
(* from a name, and a shadow that was paid for has none of those names.    *)
PreferredIsOutput ==
  \A e \in informed : vote[e].hasEvent =>
    \A p \in Voted : p.of = e => Output(p) = ChosenBy(e, p)
=============================================================================
