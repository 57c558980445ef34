------------------------------ MODULE UserMemory ------------------------------
(***************************************************************************)
(* What the assistant keeps about one user: the memories an inference      *)
(* extracts when it is over or its tool stores (services/aiInference.ts),  *)
(* which the user lists, deletes and clears, the preferences the user sets *)
(* (routers/mobile/index.ts), and the profile made from the memories       *)
(* (services/learningProfile.ts). A system prompt reads profile and        *)
(* memories.                                                               *)
(*                                                                         *)
(* Every statement, and every answer of a model, is an action. A value is  *)
(* named by the call that wrote it; categories, which only filter, are     *)
(* left out, and so are the texts. The tool and maybeUpdateProfile are     *)
(* exported, and nothing calls them yet.                                   *)
(***************************************************************************)
EXTENDS Integers, FiniteSets, Sequences

CONSTANTS
  Calls,       \* requests and jobs, each issued once
  Keys,        \* memory keys
  MaxFacts,    \* facts taken from one extraction (5)
  Newest,      \* for each kind of read, how many memories it takes
  Interval,    \* UPDATE_INTERVAL_CONVERSATIONS
  Fields,      \* columns of ai_preferences
  Past,        \* the writer of what there is at first
  Nothing      \* null; of a preference, its default

Reads == {"prompt", "recall", "list", "profile"}

Values      == Calls \cup {Past}
Profiles    == [basis : SUBSET (Keys \X Values), by : Values, count : Nat]
Preferences == [Fields -> Calls \cup {Nothing}]

MemoryAssumption ==
  /\ Newest \in [Reads -> Nat \ {0}] /\ MaxFacts \in Nat \ {0} /\ Interval \in Nat \ {0}
  /\ Past \notin Calls /\ Nothing \notin Values \cup Profiles \cup Preferences

VARIABLES
  memory,      \* user_memory, in the order of updatedAt
  preference,  \* ai_preferences: its fields, or Nothing
  profile,     \* user_learning_profiles: what it rests on, its count, or Nothing
  call,        \* where each call is, and what it has read
  ended        \* history: for each call those over before it began

tables == <<memory, preference, profile>>
vars == <<tables, call, ended>>

Over == {"returned", "failed"}
NoCall == [op |-> "none", step |-> "none", facts |-> <<>>, n |-> 1, row |-> Nothing,
           fields |-> {}, seen |-> {}]

Init ==
  /\ \/ memory = <<>> /\ profile = Nothing
     \/ \E k \in Keys : /\ memory = <<[id |-> <<Past, k>>, key |-> k, value |-> Past]>>
                        /\ profile = [basis |-> {<<k, Past>>}, by |-> Past, count |-> Interval]
  /\ preference = Nothing
  /\ call = [c \in Calls |-> NoCall] /\ ended = [c \in Calls |-> {}]

Rows == {memory[i] : i \in DOMAIN memory}
RowOf(k) == {m \in Rows : m.key = k}

(* What is left without those of S, one row at most: no two have one id,   *)
(* or one key.                                                             *)
Without(S) ==
  LET at == CHOOSE i \in DOMAIN memory : memory[i] \in S IN
  IF S \cap Rows = {} THEN memory
  ELSE [j \in 1..Len(memory) - 1 |-> memory[IF j < at THEN j ELSE j + 1]]

FirstStep == [extract |-> "model", remember |-> "find", delete |-> "delete",
              clear |-> "delete", list |-> "read", recall |-> "read",
              prompt |-> "profile", profile |-> "profile", prefer |-> "preference"]

Is(c, op, step) == call[c].op = op /\ call[c].step = step
Goto(c, step) == call' = [call EXCEPT ![c].step = step]
Key(c) == call[c].facts[call[c].n]

(* remember stores one fact, recall asks for one; delete names a row.      *)
Begin(c) ==
  /\ call[c].step = "none"
  /\ \E op \in DOMAIN FirstStep, k \in Keys, fields \in SUBSET Fields :
       /\ op # "prefer" => fields = {}
       /\ call' = [call EXCEPT ![c] = [NoCall EXCEPT
            !.op = op, !.step = FirstStep[op], !.fields = fields,
            !.facts = IF op \in {"remember", "recall", "delete"} THEN <<k>> ELSE <<>>]]
  /\ ended' = [ended EXCEPT ![c] = {d \in Calls : call[d].step \in Over}]
  /\ UNCHANGED <<tables>>

-----------------------------------------------------------------------------
(* Memories are stored fact by fact, each looked for and then written.     *)

(* The model names some facts, or none that can be read. *)
Extract(c) ==
  /\ Is(c, "extract", "model")
  /\ \/ Goto(c, "returned")
     \/ \E n \in 1..MaxFacts : \E facts \in [1..n -> Keys] :
          call' = [call EXCEPT ![c].facts = facts, ![c].step = "find"]
  /\ UNCHANGED <<tables, ended>>

Find(c) ==
  /\ call[c].step = "find"
  /\ call' = [call EXCEPT ![c].step = "write",
        ![c].row = IF RowOf(Key(c)) = {} THEN Nothing ELSE (CHOOSE m \in RowOf(Key(c)) : TRUE).id]
  /\ UNCHANGED <<tables, ended>>

(* Mutant of Stored: the first value of a key stays.                       *)
StoredOnce(row, k, c) ==
  IF row = Nothing THEN Append(memory, [id |-> <<c, k>>, key |-> k, value |-> c]) ELSE memory

(* An update by id, which moves the row to the end of the order and finds  *)
(* nothing once the row was deleted, or an insert.                         *)
Stored(row, k, c) ==
  LET old == {m \in Rows : m.id = row} IN
  IF row = Nothing THEN Append(memory, [id |-> <<c, k>>, key |-> k, value |-> c])
  ELSE IF old = {} THEN memory
  ELSE Append(Without(old), [id |-> row, key |-> k, value |-> c])

(* um_user_key_idx is unique. An extraction skips a fact that fails.       *)
Write(c) ==
  LET dup == call[c].row = Nothing /\ RowOf(Key(c)) # {}
      last == call[c].n = Len(call[c].facts) IN
  /\ call[c].step = "write"
  /\ memory' = IF dup THEN memory ELSE Stored(call[c].row, Key(c), c)
  /\ call' = IF last THEN [call EXCEPT ![c].step =
                             IF dup /\ call[c].op = "remember" THEN "failed" ELSE "returned"]
             ELSE [call EXCEPT ![c].n = @ + 1, ![c].step = "find"]
  /\ UNCHANGED <<preference, profile, ended>>

Delete(c) ==
  /\ call[c].step = "delete"
  /\ memory' = IF call[c].op = "clear" THEN <<>>
               ELSE Without(RowOf(Key(c)))
  /\ Goto(c, "returned")
  /\ UNCHANGED <<preference, profile, ended>>

(* A statement fails, or the model of a profile: an extraction goes on     *)
(* with its next fact, a prompt without what it could not read.            *)
Throws(c) ==
  /\ call[c].step \in {"find", "write", "delete", "read", "profile", "count", "save",
                       "preference", "setPreference"}
  /\ call' = [call EXCEPT
       ![c].step = CASE call[c].op = "extract" /\ call[c].n < Len(call[c].facts) -> "find"
                     [] Is(c, "prompt", "profile") -> "read"
                     [] OTHER -> "failed",
       ![c].n = IF call[c].op = "extract" /\ @ < Len(call[c].facts) THEN @ + 1 ELSE @]
  /\ UNCHANGED <<tables, ended>>

-----------------------------------------------------------------------------
Window(op) == {i \in DOMAIN memory : i > Len(memory) - Newest[op]}

(* What a recall asks for is looked for among those read.                  *)
Read(c) ==
  /\ call[c].step = "read"
  /\ call' = [call EXCEPT
       ![c].seen = {<<memory[i].key, memory[i].value>> : i \in
                      {i \in Window(call[c].op) : call[c].op = "recall" => memory[i].key = Key(c)}},
       ![c].step = IF call[c].op = "profile" THEN "synthesize" ELSE "returned"]
  /\ UNCHANGED <<tables, ended>>

(* buildSystemPrompt takes the profile into its text; maybeUpdateProfile   *)
(* rebuilds it when there is none, and at every Interval-th conversation.  *)
LoadProfile(c) ==
  /\ call[c].step = "profile"
  /\ call' = [call EXCEPT ![c].row = profile,
       ![c].step = IF call[c].op = "prompt" \/ profile = Nothing THEN "read"
                   ELSE IF profile.count > 0 /\ profile.count % Interval = 0 THEN "read"
                   ELSE "count"]
  /\ UNCHANGED <<tables, ended>>

Count(c) ==
  /\ call[c].step = "count"
  /\ profile' = [profile EXCEPT !.count = call[c].row.count + 1]
  /\ Goto(c, "returned")
  /\ UNCHANGED <<memory, preference, ended>>

(* A model that fails, or answers no JSON, makes an empty profile.         *)
Synthesize(c) ==
  /\ call[c].step = "synthesize"
  /\ \E basis \in {call[c].seen, {}} :
       call' = [call EXCEPT ![c].seen = basis, ![c].step = "save"]
  /\ UNCHANGED <<tables, ended>>

(* Mutant of Rebuilt: a new profile is added to the old one.               *)
RebuiltOnOld(c) ==
  [basis |-> call[c].seen \cup call[c].row.basis, by |-> c, count |-> call[c].row.count + 1]

Rebuilt(c) == [basis |-> call[c].seen, by |-> c, count |-> call[c].row.count + 1]

(* ulp_user_idx is unique: the second of two first profiles fails.         *)
SaveProfile(c) ==
  /\ call[c].step = "save"
  /\ IF call[c].row # Nothing THEN profile' = Rebuilt(c) /\ Goto(c, "returned")
     ELSE IF profile # Nothing THEN Goto(c, "failed") /\ UNCHANGED profile
     ELSE /\ profile' = [basis |-> call[c].seen, by |-> c, count |-> 1]
          /\ Goto(c, "returned")
  /\ UNCHANGED <<memory, preference, ended>>

-----------------------------------------------------------------------------
FindPreference(c) ==
  /\ call[c].step = "preference"
  /\ call' = [call EXCEPT ![c].row = preference, ![c].step = "setPreference"]
  /\ UNCHANGED <<tables, ended>>

(* An update sets what was given, and fails when nothing was.              *)
Updated(c) == [f \in Fields |-> IF f \in call[c].fields THEN c ELSE preference[f]]

(* ap_user_idx is unique.                                                  *)
SetPreference(c) ==
  /\ call[c].step = "setPreference"
  /\ IF \/ call[c].row # Nothing /\ call[c].fields = {}
        \/ call[c].row = Nothing /\ preference # Nothing
     THEN Goto(c, "failed") /\ UNCHANGED preference
     ELSE /\ preference' = IF call[c].row # Nothing THEN Updated(c)
                           ELSE [f \in Fields |-> IF f \in call[c].fields THEN c ELSE Nothing]
          /\ Goto(c, "returned")
  /\ UNCHANGED <<memory, profile, ended>>

Next ==
  \E c \in Calls :
    \/ Begin(c) \/ Extract(c) \/ Find(c) \/ Write(c) \/ Delete(c) \/ Throws(c) \/ Read(c)
    \/ LoadProfile(c) \/ Count(c) \/ Synthesize(c) \/ SaveProfile(c)
    \/ FindPreference(c) \/ SetPreference(c)

Spec == Init /\ [][Next]_vars

-----------------------------------------------------------------------------
Overlapping(c, d) == c \notin ended[d] /\ d \notin ended[c]

(* Calls that may write or remove key k: until its model has answered, an  *)
(* extraction may store anything.                                          *)
Touches(c, k) ==
  \/ call[c].op = "clear"
  \/ /\ call[c].op \in {"remember", "delete", "extract"}
     /\ \E i \in DOMAIN call[c].facts : call[c].facts[i] = k
  \/ Is(c, "extract", "model")

Undisturbed(c, k) == \A d \in Calls \ {c} : Touches(d, k) => d \in ended[c]

(* What a call answered stands, the value the tool remembered or the field *)
(* of a preference, until another call that writes or removes the same     *)
(* overlaps or follows: a call that sets other fields, or other keys,      *)
(* never takes it back, however statements are interleaved or fail.        *)
AnswersStand ==
  \A c \in Calls :
    /\ Is(c, "remember", "returned") /\ Undisturbed(c, Key(c)) =>
         \E m \in RowOf(Key(c)) : m.value = c
    /\ Is(c, "prefer", "returned") =>
         \A f \in call[c].fields :
           (\A d \in Calls \ {c} : f \in call[d].fields => d \in ended[c]) => preference[f] = c

(* A profile whose making began after the user cleared the memories rests  *)
(* on none that was written before.                                        *)
ProfileForgetsCleared ==
  (profile # Nothing /\ profile.by # Past) =>
    \A c \in ended[profile.by] : Is(c, "clear", "returned") =>
      \A b \in profile.basis : b[2] \notin ended[c] \cup {Past}
=============================================================================
