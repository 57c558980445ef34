------------------------------ MODULE RateWindows ------------------------------
(***************************************************************************)
(* How requests of one bucket are limited. A store of server/security/     *)
(* rateLimit.ts, or the mobile router's own, counts them until a time at   *)
(* which it starts anew ("count"). The limiter of server/middleware/       *)
(* rateLimiter.ts keeps their times in memory ("times"), or counts them in *)
(* a key of Redis ("redis"), which outlives the process.                   *)
(*                                                                         *)
(* In memory a request is one step: a handler asks before it does anything *)
(* that lasts. In Redis a check awaits incr, for a first request expire,   *)
(* and ttl; when one of them throws, rateLimiter fails open and the request*)
(* passes whatever was counted, so what passes so has no bound. Buckets    *)
(* share nothing, so there is one. A request is the moment at which it is  *)
(* counted and its number among those of the moment.                       *)
(***************************************************************************)
EXTENDS Integers, FiniteSets

CONSTANTS
  Limit,      \* max
  Window,     \* windowMs
  Cleaning,   \* CLEANUP_INTERVAL_MS
  Kept,       \* how long the timer leaves a time: 120 seconds
  Checks,     \* checks under way in Redis
  MaxTime,    \* bound of the model
  MaxAsked    \* bound of the model: requests of one moment

WindowAssumption ==
  /\ Limit \in Nat \ {0} /\ Window \in Nat \ {0} /\ Cleaning \in Nat \ {0}
  /\ Kept \in Nat /\ Kept >= Window /\ MaxTime \in Nat /\ MaxAsked \in Nat

VARIABLES
  store,      \* which of the three
  bucket,     \* the entry of the map: resetAt is 0 where there is none
  times,      \* timestamps: requests whose times are kept
  client,     \* connectPromise: "none", "ready" or "failed"
  key,        \* the key in Redis: resetAt is 0 while it never expires
  check,      \* checks under way: the await each is at, and what it counted
  clock,
  cleaned,    \* when the timer fired last
  granted,    \* history: let through by their count since the store was empty
  asked,      \* how many requests there were at this moment
  cut         \* history: a check ended before it set an expiry

inMemory == <<bucket, times>>
inRedis == <<client, key, check, cut>>
vars == <<store, inMemory, inRedis, clock, cleaned, granted, asked>>

NoEntry == [count |-> 0, resetAt |-> 0]
NoCheck == [step |-> "none", count |-> 0, request |-> <<0, 0>>]

Init ==
  /\ store \in {"count", "times", "redis"}
  /\ bucket = NoEntry /\ times = {} /\ key = NoEntry /\ client = "none"
  /\ check = [c \in Checks |-> NoCheck]
  /\ clock = 1 /\ cleaned = 1 /\ cut = FALSE /\ granted = {} /\ asked = 0

Tick ==
  /\ clock < MaxTime /\ (clock - cleaned < Cleaning \/ store = "redis")
  /\ clock' = clock + 1 /\ asked' = 0
  /\ UNCHANGED <<store, inMemory, inRedis, cleaned, granted>>

-----------------------------------------------------------------------------
(* Mutant of Expired: a window ends when it began.                         *)
ExpiredAtOnce(entry) == entry.resetAt <= clock + Window - 1

Expired(entry) == entry.resetAt <= clock

Counted(entry) ==
  [count   |-> IF Expired(entry) THEN 1 ELSE entry.count + 1,
   resetAt |-> IF Expired(entry) THEN clock + Window ELSE entry.resetAt]

Ask(which) == store = which /\ asked < MaxAsked /\ asked' = asked + 1

Grant(pass) == granted' = IF pass THEN granted \cup {<<clock, asked + 1>>} ELSE granted

(* enforceRateLimit: refused requests are counted too.                     *)
Request ==
  /\ Ask("count")
  /\ bucket' = Counted(bucket)
  /\ Grant(Counted(bucket).count <= Limit)
  /\ UNCHANGED <<store, times, inRedis, clock, cleaned>>

Trimmed(age) == {t \in times : clock - t[1] < age}

(* check of the limiter in memory: only those let through are kept.        *)
Slide ==
  LET pass == Cardinality(Trimmed(Window)) < Limit IN
  /\ Ask("times")
  /\ times' = Trimmed(Window) \cup (IF pass THEN {<<clock, asked + 1>>} ELSE {})
  /\ Grant(pass)
  /\ UNCHANGED <<store, bucket, inRedis, clock, cleaned>>

(* The timer removes what is over.                                         *)
Clean ==
  /\ store # "redis" /\ clock - cleaned = Cleaning
  /\ cleaned' = clock
  /\ bucket' = IF Expired(bucket) THEN NoEntry ELSE bucket
  /\ times' = Trimmed(Kept)
  /\ UNCHANGED <<store, inRedis, clock, granted, asked>>

-----------------------------------------------------------------------------
(* getClient: the promise of the first connection is kept, failed or not.  *)
Connect ==
  /\ store = "redis" /\ client = "none"
  /\ client' \in {"ready", "failed"}
  /\ UNCHANGED <<store, inMemory, key, check, cut, clock, cleaned, granted, asked>>

Lives == key.count > 0 /\ (key.resetAt = 0 \/ clock < key.resetAt)

(* incr, and what check does until it awaits again: only the first request *)
(* of a key is to set its expiry.                                          *)
Incr(c) ==
  LET count == IF Lives THEN key.count + 1 ELSE 1 IN
  /\ client = "ready" /\ check[c] = NoCheck /\ Ask("redis")
  /\ key' = [count |-> count, resetAt |-> IF Lives THEN key.resetAt ELSE 0]
  /\ check' = [check EXCEPT ![c] = [step    |-> IF count = 1 THEN "expire" ELSE "ttl",
                                    count   |-> count,
                                    request |-> <<clock, asked + 1>>]]
  /\ UNCHANGED <<store, inMemory, client, cut, clock, cleaned, granted>>

Expire(c) ==
  /\ check[c].step = "expire"
  /\ check' = [check EXCEPT ![c].step = "ttl"]
  /\ key' = [key EXCEPT !.resetAt = clock + Window]
  /\ UNCHANGED <<store, inMemory, client, cut, clock, cleaned, granted, asked>>

(* ttl, for a header, after which the count decides.                       *)
Ttl(c) ==
  /\ check[c].step = "ttl"
  /\ check' = [check EXCEPT ![c] = NoCheck]
  /\ granted' = IF check[c].count <= Limit THEN granted \cup {check[c].request} ELSE granted
  /\ UNCHANGED <<store, inMemory, client, key, cut, clock, cleaned, asked>>

(* The statement throws and the request passes. A statement that took      *)
(* effect though it throws is that statement and a throw of the next.      *)
Throws(c) ==
  /\ check[c].step # "none"
  /\ check' = [check EXCEPT ![c] = NoCheck]
  /\ cut' = (cut \/ check[c].step = "expire")
  /\ UNCHANGED <<store, inMemory, client, key, clock, cleaned, granted, asked>>

(* No client, or incr throws before it counts: the request passes.         *)
Uncounted ==
  /\ client # "none" /\ Ask("redis")
  /\ UNCHANGED <<store, inMemory, inRedis, clock, cleaned, granted>>

Restart ==
  /\ IF store = "redis" THEN client # "none" /\ UNCHANGED <<cleaned, granted>>
     ELSE cleaned' = clock /\ granted' = {}
  /\ bucket' = NoEntry /\ times' = {} /\ client' = "none"
  /\ check' = [c \in Checks |-> NoCheck]
  /\ cut' = (cut \/ \E c \in Checks : check[c].step = "expire")
  /\ UNCHANGED <<store, key, clock, asked>>

Next ==
  \/ Tick \/ Request \/ Slide \/ Clean \/ Connect \/ Uncounted \/ Restart
  \/ \E c \in Checks : Incr(c) \/ Expire(c) \/ Ttl(c) \/ Throws(c)

Spec == Init /\ [][Next]_vars

-----------------------------------------------------------------------------
(* Those let through in the Window moments from s on.                      *)
GrantedFrom(s) == {g \in granted : g[1] \in s..(s + Window - 1)}

(* Of the requests of any Window moments the count lets through at most    *)
(* the limit where times are kept, and at most twice the limit where       *)
(* windows begin with a request and do not slide, whenever the timer       *)
(* cleans, as long as the store is not lost. What passes in Redis because  *)
(* a statement threw is not counted here and has no bound. And a count in  *)
(* Redis ends: while it has no expiry a check is about to set it, unless   *)
(* one threw, or was lost with the process, between incr and expire.       *)
WindowsHold ==
  /\ \A s \in 1..clock :
       Cardinality(GrantedFrom(s)) <= (IF store = "times" THEN Limit ELSE 2 * Limit)
  /\ key.count > 0 /\ key.resetAt = 0 /\ ~ cut => \E c \in Checks : check[c].step = "expire"
=============================================================================
