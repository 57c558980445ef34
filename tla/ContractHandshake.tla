--------------------------- MODULE ContractHandshake ---------------------------
(***************************************************************************)
(* The contracts the platform and its agents must agree on:                *)
(* server/contracts/handshake.ts answers agents, verifyAgentContracts.ts   *)
(* asks the agent stack once, before the server listens (startServer of    *)
(* server/_core/index.ts).                                                 *)
(*                                                                         *)
(* The registry and the schema files are read when first needed and kept   *)
(* for the life of the process, each on its own; a deployment may replace  *)
(* them on disk meanwhile. Hashes are the contents they stand for; the     *)
(* vertex is left out. Agents are external: they claim anything.           *)
(***************************************************************************)
EXTENDS Integers, FiniteSets

CONSTANTS
  Contracts,  \* names of contracts, each with one schema file
  Versions,
  Schemas,    \* contents of a schema file
  Nothing     \* null: no such file, nothing read yet

Entries    == [version : Versions, locked : BOOLEAN]
Registries == UNION {[names -> Entries] : names \in SUBSET Contracts}
Claims     == UNION {[names -> Versions \X Schemas] : names \in SUBSET Contracts}

HandshakeAssumption == Nothing \notin Schemas \cup Registries \cup Claims

VARIABLES
  registered, files,  \* the registry and the schema files on disk
  server,             \* "down", "verifying" or "up"
  registry, hashes,   \* _registry and _hashCache
  told,               \* history: the claims this process said were right
  refused             \* history: the claims it refused last

disk  == <<registered, files>>
cache == <<registry, hashes>>
vars  == <<disk, server, cache, told, refused>>

NoHashes == [c \in Contracts |-> Nothing]

Init ==
  /\ registered \in Registries
  /\ files \in [Contracts -> Schemas]
  /\ server = "down" /\ registry = Nothing /\ hashes = NoHashes
  /\ told = {} /\ refused = Nothing

(* A deployment replaces a file.                                           *)
Deploy ==
  /\ \/ registered' \in Registries /\ UNCHANGED files
     \/ /\ \E c \in Contracts, s \in Schemas \cup {Nothing} : files' = [files EXCEPT ![c] = s]
        /\ UNCHANGED registered
  /\ UNCHANGED <<server, cache, told, refused>>

-----------------------------------------------------------------------------
LoadedRegistry == IF registry = Nothing THEN registered ELSE registry

(* Mutant of HashOf: the file is read every time.                          *)
FreshHash(c) == files[c]

HashOf(c) == IF hashes[c] = Nothing THEN files[c] ELSE hashes[c]

(* The hashes of these contracts are computed one after the other; where a *)
(* file is missing the rest is not, and the caller gets an error.          *)
Computes(names) ==
  /\ \A c \in names : HashOf(c) # Nothing
  /\ hashes' = [c \in Contracts |-> IF c \in names THEN HashOf(c) ELSE hashes[c]]

FailsComputing(names) ==
  /\ \E c \in names : HashOf(c) = Nothing
  /\ \E done \in SUBSET {c \in names : HashOf(c) # Nothing} :
       hashes' = [c \in Contracts |-> IF c \in done THEN HashOf(c) ELSE hashes[c]]

(* What getAllContractInfo answers, and the claims verification expects.   *)
AllInfo ==
  [c \in DOMAIN LoadedRegistry |-> <<LoadedRegistry[c].version, HashOf(c)>>]

-----------------------------------------------------------------------------
Start ==
  /\ server = "down" /\ server' = "verifying"
  /\ UNCHANGED <<disk, cache, told, refused>>

(* The process ends: what it kept in memory goes with it.                  *)
Gone ==
  /\ server' = "down" /\ registry' = Nothing /\ hashes' = NoHashes
  /\ told' = {} /\ refused' = Nothing

Exit == server # "down" /\ Gone /\ UNCHANGED disk

(* The agent's /health names its contracts and the hash of its manifest,   *)
(* which stands for them, and is compared with the registry's unless       *)
(* AGENT_MANIFEST_HASH overrides it, with whatever result.                 *)
HashesMatch(claims) ==
  \A c \in DOMAIN LoadedRegistry : c \in DOMAIN claims /\ claims[c][2] = HashOf(c)

Verify ==
  /\ server = "verifying" /\ server' = "up"
  /\ Computes(DOMAIN LoadedRegistry) /\ registry' = LoadedRegistry
  /\ \E claims \in Claims, override \in BOOLEAN :
       /\ HashesMatch(claims) /\ (~override => claims = AllInfo)
       /\ told' = IF override THEN told ELSE told \cup {claims}
  /\ UNCHANGED <<disk, refused>>

(* No answer, another answer, a missing file, or verification is skipped:  *)
(* unless it enforces the contracts, outside development, the server       *)
(* starts all the same.                                                    *)
FailVerification ==
  /\ server = "verifying" /\ server' = "up"
  /\ \/ UNCHANGED cache
     \/ /\ registry' = LoadedRegistry
        /\ \/ Computes(DOMAIN LoadedRegistry)
           \/ FailsComputing(DOMAIN LoadedRegistry)
  /\ UNCHANGED <<disk, told, refused>>

-----------------------------------------------------------------------------
(* POST /api/contracts/handshake. The hash of a contract that is not       *)
(* locked is not asked for.                                                *)
Locked == {c \in DOMAIN LoadedRegistry : LoadedRegistry[c].locked}

Welcome(claims) ==
  /\ Locked \subseteq DOMAIN claims
  /\ \A c \in DOMAIN claims :
       /\ c \in DOMAIN LoadedRegistry /\ claims[c][1] = LoadedRegistry[c].version
       /\ c \in Locked => claims[c][2] = HashOf(c)

Handshake ==
  /\ server = "up" /\ registry' = LoadedRegistry
  /\ \E claims \in Claims :
       \/ /\ Computes(Locked \cap DOMAIN claims)
          /\ refused' = IF Welcome(claims) THEN refused ELSE claims
       \/ FailsComputing(Locked \cap DOMAIN claims) /\ UNCHANGED refused
  /\ UNCHANGED <<disk, server, told>>

(* GET /api/contracts/info.                                                *)
Info ==
  /\ server = "up" /\ registry' = LoadedRegistry
  /\ \/ Computes(DOMAIN LoadedRegistry) /\ told' = told \cup {AllInfo}
     \/ FailsComputing(DOMAIN LoadedRegistry) /\ UNCHANGED told
  /\ UNCHANGED <<disk, server, refused>>

Next ==
  \/ Deploy \/ Start \/ Exit \/ Verify \/ FailVerification \/ Handshake \/ Info

Spec == Init /\ [][Next]_vars

-----------------------------------------------------------------------------
(* The process never contradicts itself: an agent that claims what it was  *)
(* told, or what the server verified at its start, is not refused, though  *)
(* the files on disk may have changed and only some of them been read.     *)
ToldIsWelcome == refused \notin told
=============================================================================
