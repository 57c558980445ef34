------------------------------- MODULE MCDesk --------------------------------
(* The instances of SetupChecklist, IntakeDesk, ContractHandshake,         *)
(* GapRules and Checkouts for TLC. They share no table: a behaviour is     *)
(* one of each, interleaved, and each is explored while the others stay    *)
(* where they began.                                                       *)
EXTENDS SetupChecklist, TLC

CONSTANTS
  Calls, Customers, Codes, Applications, Contracts, Versions, Schemas,
  Detections, Classes, Pages, ClassOf, PageOf, Types, HeadEnds, Packs, Maps,
  MaxItems, MaxWrites, Requests, Users, Orders, Settings, Payloads, Nothing

VARIABLES
  part,  \* the component this behaviour is of
  intake, referral, linked, plans, approvals, question, logged, fresh, call,
  ended, granted, mails, recent, retired, replaced, registered, files,
  server, registry, hashes, told, refused, type, label, pack, used, query,
  writes, mapped, heeded, keyed, payload, checkout, subscription, config,
  request, saved, overlapped

(* A document of two classes on three pages, the types a type requires,    *)
(* and what packs may say of the classes.                                  *)
ClassOfThree == <<"smoke", "smoke", "speaker">>
PageOfThree  == <<1, 2, 3>>
PanelForDevice == [device |-> {"panel"}, panel |-> {}]
TwoMaps ==
  {[smoke |-> "device", speaker |-> "panel"], [smoke |-> "panel", speaker |-> Nothing]}

(* Configurations, and payloads of intakes: without services, or with some *)
(* and a discount.                                                         *)
TwoSettings ==
  {[cadence |-> "medium", layers |-> {"sports"}], [cadence |-> "high", layers |-> {}]}

Raw ==
  {[selections |-> Nothing, snapshot |-> Nothing]}
    \cup {[selections |-> {[selected |-> b, setup |-> 49900, monthly |-> 7900]},
           snapshot |-> [discount |-> 5000, setup |-> Nothing, monthly |-> Nothing]] :
         b \in BOOLEAN}

Desk == INSTANCE IntakeDesk

Handshake == INSTANCE ContractHandshake

Gaps == INSTANCE GapRules

Paying == INSTANCE Checkouts WITH
  Calls <- Requests, Intakes <- Orders, call <- request, session <- checkout,
  crossed <- overlapped, intake <- payload

ASSUME DeskAssumption ==
  /\ Desk!NamesAssumption
  /\ Handshake!HandshakeAssumption
  /\ Gaps!GapAssumption
  /\ Paying!CheckoutAssumption

AllInit ==
  \/ /\ part = "checklist" /\ Init
     /\ intake = Nothing /\ referral = Nothing /\ linked = Nothing
     /\ plans = Nothing /\ approvals = Nothing /\ question = Nothing
     /\ logged = Nothing /\ fresh = Nothing /\ call = Nothing
     /\ ended = Nothing /\ granted = Nothing /\ mails = Nothing
     /\ recent = Nothing /\ retired = Nothing /\ replaced = Nothing
     /\ registered = Nothing /\ files = Nothing /\ server = Nothing
     /\ registry = Nothing /\ hashes = Nothing /\ told = Nothing
     /\ refused = Nothing /\ type = Nothing /\ label = Nothing
     /\ pack = Nothing /\ used = Nothing /\ query = Nothing
     /\ writes = Nothing /\ mapped = Nothing /\ heeded = Nothing
     /\ keyed = Nothing /\ payload = Nothing /\ checkout = Nothing
     /\ subscription = Nothing /\ config = Nothing /\ request = Nothing
     /\ saved = Nothing /\ overlapped = Nothing
  \/ /\ part = "desk" /\ Desk!Init /\ Init /\ business.services = {}
     /\ registered = Nothing /\ files = Nothing /\ server = Nothing
     /\ registry = Nothing /\ hashes = Nothing /\ told = Nothing
     /\ refused = Nothing /\ type = Nothing /\ label = Nothing
     /\ pack = Nothing /\ used = Nothing /\ query = Nothing
     /\ writes = Nothing /\ mapped = Nothing /\ heeded = Nothing
     /\ keyed = Nothing /\ payload = Nothing /\ checkout = Nothing
     /\ subscription = Nothing /\ config = Nothing /\ request = Nothing
     /\ saved = Nothing /\ overlapped = Nothing
  \/ /\ part = "handshake" /\ Handshake!Init /\ Init /\ business.services = {}
     /\ intake = Nothing /\ referral = Nothing /\ linked = Nothing
     /\ plans = Nothing /\ approvals = Nothing /\ question = Nothing
     /\ logged = Nothing /\ fresh = Nothing /\ call = Nothing
     /\ ended = Nothing /\ granted = Nothing /\ mails = Nothing
     /\ recent = Nothing /\ retired = Nothing /\ replaced = Nothing
     /\ type = Nothing /\ label = Nothing /\ pack = Nothing /\ used = Nothing
     /\ query = Nothing /\ writes = Nothing /\ mapped = Nothing
     /\ heeded = Nothing /\ keyed = Nothing /\ payload = Nothing
     /\ checkout = Nothing /\ subscription = Nothing /\ config = Nothing
     /\ request = Nothing /\ saved = Nothing /\ overlapped = Nothing
  \/ /\ part = "gaps" /\ Gaps!Init /\ Init /\ business.services = {}
     /\ intake = Nothing /\ referral = Nothing /\ linked = Nothing
     /\ plans = Nothing /\ approvals = Nothing /\ question = Nothing
     /\ logged = Nothing /\ fresh = Nothing /\ call = Nothing
     /\ ended = Nothing /\ granted = Nothing /\ mails = Nothing
     /\ recent = Nothing /\ retired = Nothing /\ replaced = Nothing
     /\ registered = Nothing /\ files = Nothing /\ server = Nothing
     /\ registry = Nothing /\ hashes = Nothing /\ told = Nothing
     /\ refused = Nothing /\ keyed = Nothing /\ payload = Nothing
     /\ checkout = Nothing /\ subscription = Nothing /\ config = Nothing
     /\ request = Nothing /\ saved = Nothing /\ overlapped = Nothing
  \/ /\ part = "checkouts" /\ Paying!Init /\ Init /\ business.services = {}
     /\ intake = Nothing /\ referral = Nothing /\ linked = Nothing
     /\ plans = Nothing /\ approvals = Nothing /\ question = Nothing
     /\ logged = Nothing /\ fresh = Nothing /\ call = Nothing
     /\ ended = Nothing /\ granted = Nothing /\ mails = Nothing
     /\ recent = Nothing /\ retired = Nothing /\ replaced = Nothing
     /\ registered = Nothing /\ files = Nothing /\ server = Nothing
     /\ registry = Nothing /\ hashes = Nothing /\ told = Nothing
     /\ refused = Nothing /\ type = Nothing /\ label = Nothing
     /\ pack = Nothing /\ used = Nothing /\ query = Nothing
     /\ writes = Nothing /\ mapped = Nothing /\ heeded = Nothing

AllNext ==
  \/ /\ part = "checklist" /\ Next
     /\ UNCHANGED <<part, intake, referral, linked, plans, approvals,
                    question, logged, fresh, call, ended, granted, mails,
                    recent, retired, replaced, registered, files, server,
                    registry, hashes, told, refused, type, label, pack,
                    used, query, writes, mapped, heeded, keyed, payload,
                    checkout, subscription, config, request, saved,
                    overlapped>>
  \/ /\ part = "desk" /\ Desk!Next
     /\ UNCHANGED <<part, vars, registered, files, server, registry, hashes,
                    told, refused, type, label, pack, used, query, writes,
                    mapped, heeded, keyed, payload, checkout, subscription,
                    config, request, saved, overlapped>>
  \/ /\ part = "handshake" /\ Handshake!Next
     /\ UNCHANGED <<part, vars, intake, referral, linked, plans, approvals,
                    question, logged, fresh, call, ended, granted, mails,
                    recent, retired, replaced, type, label, pack, used,
                    query, writes, mapped, heeded, keyed, payload, checkout,
                    subscription, config, request, saved, overlapped>>
  \/ /\ part = "gaps" /\ Gaps!Next
     /\ UNCHANGED <<part, vars, intake, referral, linked, plans, approvals,
                    question, logged, fresh, call, ended, granted, mails,
                    recent, retired, replaced, registered, files, server,
                    registry, hashes, told, refused, keyed, payload,
                    checkout, subscription, config, request, saved,
                    overlapped>>
  \/ /\ part = "checkouts" /\ Paying!Next
     /\ UNCHANGED <<part, vars, intake, referral, linked, plans, approvals,
                    question, logged, fresh, call, ended, granted, mails,
                    recent, retired, replaced, registered, files, server,
                    registry, hashes, told, refused, type, label, pack,
                    used, query, writes, mapped, heeded>>

allVars ==
  <<part, vars, intake, referral, linked, plans, approvals, question,
    logged, fresh, call, ended, granted, mails, recent, retired, replaced,
    registered, files, server, registry, hashes, told, refused, type, label,
    pack, used, query, writes, mapped, heeded, keyed, payload, checkout,
    subscription, config, request, saved, overlapped>>

AllSpec == AllInit /\ [][AllNext]_allVars

Symmetry ==
  Permutations(Calls) \cup Permutations(Names) \cup Permutations(Packs)

(* Discounts, codes and intakes are handed out once unless requests        *)
(* overlap.                                                                *)
OnceUnlessOverlapping == part = "desk" => Desk!OnceUnlessOverlapping

(* Two preview mails of an intake within a minute take two requests at     *)
(* once.                                                                   *)
PreviewMailsSpaced == part = "desk" => Desk!PreviewMailsSpaced

(* No preview mail carries a link that was replaced before its request.    *)
LinksAreCurrent == part = "desk" => Desk!LinksAreCurrent

(* An approval names the newest plan its request could read.               *)
ApprovesNewestPlan == part = "desk" => Desk!ApprovesNewestPlan

(* No agent is refused for claiming what this process told or verified.    *)
ToldIsWelcome == part = "handshake" => Handshake!ToldIsWelcome

(* What was mapped and had nothing inserted since is not called unmapped.  *)
AdviceClears == part = "gaps" => Gaps!AdviceClears

(* Shown is what was written last, unless saves overlapped.                *)
ShownIsSaved == part = "checkouts" => Paying!ShownIsSaved
==============================================================================
