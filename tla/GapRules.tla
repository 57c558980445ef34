------------------------------- MODULE GapRules -------------------------------
(***************************************************************************)
(* "What am I missing?" of one blueprint document: an analysis             *)
(* (server/routers/admin/gapDetection.ts) reads it, its symbol packs and   *)
(* an estimate, and the six rules of contracts/gap_detection_rules.ts      *)
(* answer with flags; a quick check has a version of the first two of its  *)
(* own. Both answer only and write nothing.                                *)
(*                                                                         *)
(* Their reads are issued together and end in any order, while the writes  *)
(* of BlueprintIngestion and TakeoffEstimate go on, here one statement     *)
(* each. Severities, counts and messages are left out.                     *)
(***************************************************************************)
EXTENDS Integers, FiniteSets

CONSTANTS
  Detections, Classes, Pages, ClassOf, PageOf,  \* of the document
  Types,      \* canonical device types
  HeadEnds,   \* HEAD_END_REQUIREMENTS: the types a type requires
  Packs,      \* symbol packs
  Maps,       \* mappings a pack may have
  MaxItems,   \* line items of a type in an estimate
  MaxWrites,  \* bound: writes in a behaviour
  Nothing     \* null: no such row, no type

GapAssumption ==
  /\ ClassOf \in [Detections -> Classes] /\ PageOf \in [Detections -> Pages]
  /\ HeadEnds \in [Types -> SUBSET Types] /\ MaxItems \in Nat /\ MaxWrites \in Nat
  /\ Maps \subseteq [Classes -> Types \cup {Nothing}] \ {[c \in Classes |-> Nothing]}
  /\ {Nothing, "untyped"} \cap Types = {} /\ Nothing # "untyped"

Untyped == "untyped"
Gone    == [c \in Classes |-> Nothing]     \* a pack that was deleted
Row     == Types \cup {Untyped, Nothing}   \* canonicalType of a row, if it is there

VARIABLES
  type,     \* of the detections
  label,    \* of the legend entries, one for each class
  pack,     \* the mappings of each pack
  used,     \* packs of the project's estimate runs
  query,    \* the analysis or the check under way, and what it has read
  writes,   \* number of writes so far
  mapped,   \* history: classes whose detections and whose entries were mapped
            \* since the last of them was inserted
  heeded    \* history: that was all when the query began, and nothing has been
            \* inserted since

document == <<type, label, pack, used>>
history == <<mapped, heeded>>
vars == <<document, query, writes, history>>

NoQuery == [op |-> "none", pack |-> Nothing, type |-> Nothing, label |-> Nothing,
            maps |-> Nothing, packs |-> Nothing, flags |-> {}]

Kinds == {"detections", "entries"}

(* A document as it comes, or some of its classes mapped.                  *)
Init ==
  /\ \E typeOf \in [Classes -> Types \cup {Untyped}], found \in SUBSET Detections :
       /\ type = [x \in Detections |-> IF x \in found THEN typeOf[ClassOf[x]] ELSE Nothing]
       /\ label = typeOf
       /\ mapped = {c \in Classes : typeOf[c] # Untyped} \X Kinds
  /\ pack \in [Packs -> Maps] /\ used = {}
  /\ query = NoQuery /\ writes = 0 /\ heeded = FALSE

-----------------------------------------------------------------------------
(* The writes.                                                             *)
Write == writes < MaxWrites /\ writes' = writes + 1 /\ UNCHANGED query

Insert ==
  /\ Write /\ heeded' = FALSE
  /\ \/ \E x \in Detections :
          /\ type[x] = Nothing /\ type' = [type EXCEPT ![x] = Untyped]
          /\ mapped' = mapped \ {<<ClassOf[x], "detections">>}
          /\ UNCHANGED label
     \/ \E c \in Classes :
          /\ label' = [label EXCEPT ![c] = Untyped]
          /\ mapped' = mapped \ {<<c, "entries">>}
          /\ UNCHANGED type
  /\ UNCHANGED <<pack, used>>

(* mapClass or applySymbolPack: the detections of a class, or its entries. *)
Map ==
  /\ Write /\ UNCHANGED <<pack, used, heeded>>
  /\ \E c \in Classes, t \in Types :
       \/ /\ type' = [x \in Detections |->
               IF ClassOf[x] = c /\ type[x] # Nothing THEN t ELSE type[x]]
          /\ mapped' = mapped \cup {<<c, "detections">>}
          /\ UNCHANGED label
       \/ /\ label' = [label EXCEPT ![c] = IF @ = Nothing THEN @ ELSE t]
          /\ mapped' = mapped \cup {<<c, "entries">>}
          /\ UNCHANGED type

(* A pack is edited or deleted.                                            *)
EditPack ==
  /\ Write /\ UNCHANGED <<type, label, used, history>>
  /\ \E p \in Packs, maps \in Maps \cup {Gone} : pack' = [pack EXCEPT ![p] = maps]

Estimate ==
  /\ Write /\ UNCHANGED <<type, label, pack, history>>
  /\ \E p \in Packs : used' = used \cup {p}

-----------------------------------------------------------------------------
(* The rules.                                                              *)
Found(types) == {x \in Detections : types[x] # Nothing}

(* Mutant of LegendUnmapped: the entries whose class the pack lacks, as    *)
(* the comment of the rule says.                                           *)
LegendNotInPack(labels, maps) ==
  {c \in Classes : labels[c] # Nothing /\ maps[c] = Nothing}

(* G1: the pack does not count.                                            *)
LegendUnmapped(labels, maps) == {c \in Classes : labels[c] = Untyped}

(* G2.                                                                     *)
Unmapped(types, maps) ==
  {ClassOf[x] : x \in {y \in Found(types) : types[y] = Untyped /\ maps[ClassOf[y]] = Nothing}}

(* G3: a type on half of three or more pages and missing on one or two.    *)
FloorImbalance(types) ==
  /\ Cardinality(Pages) >= 3
  /\ \E t \in Types :
       LET on == {PageOf[x] : x \in {y \in Detections : types[y] = t}} IN
       on # {} /\ 2 * Cardinality(on) >= Cardinality(Pages)
         /\ Cardinality(Pages \ on) \in 1..2

(* G4.                                                                     *)
HeadEndMissing(types) ==
  LET present == {types[x] : x \in Found(types)} IN
  \E t \in present \cap Types : ~ HeadEnds[t] \subseteq present

(* G5: of some type, three items and more than a fifth are low.            *)
LowCluster(items) == \E t \in Types : items[t].low >= 3 /\ 5 * items[t].low > items[t].all

(* G6: two packs of the project's runs, which give a class different types.*)
Drift(packs) ==
  Cardinality(DOMAIN packs) >= 2 /\ \E c \in Classes :
    Cardinality({packs[p][c] : p \in DOMAIN packs} \ {Nothing}) > 1

(* An analysis may name any estimate, of this document or another.         *)
Items == [Types -> {i \in [low : 0..MaxItems, all : 0..MaxItems] : i.low <= i.all}]

Flags(q, clustered) ==
     {"LEGEND_HAS_UNMAPPED" : c \in LegendUnmapped(q.label, q.maps)}
\cup {"DETECTIONS_UNMAPPED" : c \in Unmapped(q.type, q.maps)}
\cup (IF FloorImbalance(q.type) THEN {"FLOOR_IMBALANCE"} ELSE {})
\cup (IF HeadEndMissing(q.type) THEN {"HEAD_END_MISSING"} ELSE {})
\cup (IF clustered THEN {"LOW_CONFIDENCE_CLUSTER"} ELSE {})
\cup (IF Drift(q.packs) THEN {"SYMBOL_PACK_DRIFT"} ELSE {})

-----------------------------------------------------------------------------
(* The queries.                                                            *)
Answered == query.op \in {"none", "answered", "threw"}

Begin ==
  /\ Answered
  /\ \E op \in {"analyze", "quickCheck"}, p \in Packs :
       query' = [NoQuery EXCEPT !.op = op, !.pack = p]
  /\ heeded' = (mapped = Classes \X Kinds)
  /\ UNCHANGED <<document, writes, mapped>>

Read ==
  /\ ~Answered
  /\ \/ query.type = Nothing  /\ query' = [query EXCEPT !.type = type]
     \/ query.label = Nothing /\ query' = [query EXCEPT !.label = label]
     \/ query.maps = Nothing  /\ query' = [query EXCEPT !.maps = pack[query.pack]]
  /\ UNCHANGED <<document, writes, history>>

HasRead == Nothing \notin {query.type, query.label, query.maps}

(* An analysis throws when its pack is gone, or goes on with the project's *)
(* runs and then the packs of them.                                        *)
ReadPacks ==
  /\ query.op = "analyze" /\ HasRead /\ query.packs = Nothing
  /\ query' = IF query.maps = Gone THEN [NoQuery EXCEPT !.op = "threw"]
       ELSE [query EXCEPT !.packs = [p \in {q \in used : pack[q] # Gone} |-> pack[p]]]
  /\ UNCHANGED <<document, writes, history>>

Analyze ==
  /\ query.op = "analyze" /\ HasRead /\ query.packs # Nothing
  /\ \E clustered \in {LowCluster(items) : items \in Items} :
       query' = [NoQuery EXCEPT !.op = "answered", !.flags = Flags(query, clustered)]
  /\ UNCHANGED <<document, writes, history>>

QuickGaps(q) ==
  \/ \E c \in Classes : q.label[c] = Untyped
  \/ \E x \in Found(q.type) : q.type[x] = Untyped /\ q.maps[ClassOf[x]] = Nothing

QuickCheck ==
  /\ query.op = "quickCheck" /\ HasRead
  /\ query' = [NoQuery EXCEPT !.op = "answered",
       !.flags = IF QuickGaps(query) THEN {"has_gaps"} ELSE {}]
  /\ UNCHANGED <<document, writes, history>>

Next ==
  \/ Insert \/ Map \/ EditPack \/ Estimate
  \/ Begin \/ Read \/ ReadPacks \/ Analyze \/ QuickCheck

Spec == Init /\ [][Next]_vars

-----------------------------------------------------------------------------
(* "Map remaining classes in Symbol Mapping UI" helps: when all rows have  *)
(* been mapped and none was inserted since, no answer speaks of unmapped   *)
(* ones, whatever happens to packs and types while it reads.               *)
AdviceClears ==
  heeded => query.flags \cap {"LEGEND_HAS_UNMAPPED", "DETECTIONS_UNMAPPED", "has_gaps"} = {}
=============================================================================
