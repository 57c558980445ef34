----------------------------- MODULE PublishQueue -----------------------------
(***************************************************************************)
(* scripts/gcp/publishMarketingArtifacts.mjs and                           *)
(* flushMarketingPublishQueue.mjs, which hourly and nightly jobs run on    *)
(* one machine: the latest fine-tune pack and the reports that go with it  *)
(* are copied to the cloud; when a copy fails, an intent is left as a file *)
(* in a directory, and flushed later.                                      *)
(*                                                                         *)
(* The scripts know nothing of each other, and each may end at any moment. *)
(* Every listing of the directory, every file read, written or removed and *)
(* every copy is a step; the search for a duplicate is one. The files of   *)
(* an intent are the version of the reports it was made from.              *)
(***************************************************************************)
EXTENDS Naturals

CONSTANTS
  Runs,       \* runs of the scripts
  Packs,      \* fine-tune packs; a destination is one pack's on one day
  MaxReports, \* bound of the model: versions of the reports
  Nothing

QueueAssumption == MaxReports \in Nat \ {0} /\ Nothing \notin Runs \cup Packs

VARIABLES
  local,      \* the latest pack and the version of the latest reports
  queue,      \* files of the directory
  written,    \* how many were ever written, the number and time of the newest
  cloud,      \* for each pack what has been copied: parts, and the handoff's version
  run         \* where each run is, and what it has read

vars == <<local, queue, written, cloud, run>>

Parts == {"dataset", "artifacts", "files"}

NoRun == [step |-> "none", script |-> Nothing, intent |-> Nothing, list |-> {}, seen |-> {}]

Init ==
  /\ local \in [pack : Packs, reports : {1}]
  /\ queue = {} /\ written = 0
  /\ cloud = [p \in Packs |-> [parts |-> {}, handoff |-> 0]]
  /\ run = [r \in Runs |-> NoRun]

Over == {"published", "deferred", "flushed", "died"}

Goto(r, s) ==
  run' = [run EXCEPT ![r] = IF s \in Over THEN [@ EXCEPT !.step = s, !.list = {}, !.seen = {}]
                            ELSE [@ EXCEPT !.step = s]]

(* The marketing jobs write new reports, and packs.                        *)
Produce ==
  /\ local.reports < MaxReports
  /\ \E p \in Packs : local' = [pack |-> p, reports |-> local.reports + 1]
  /\ UNCHANGED <<queue, written, cloud, run>>

Die(r) ==
  /\ run[r].step \notin Over \cup {"none"}
  /\ Goto(r, "died")
  /\ UNCHANGED <<local, queue, written, cloud>>

-----------------------------------------------------------------------------
(* The copies, of a publish or of one queued intent.                       *)
Copies(r, step, part, next) ==
  /\ run[r].step = step
  /\ cloud' = [cloud EXCEPT ![run[r].intent.pack].parts = @ \cup {part}]
  /\ Goto(r, next)
  /\ UNCHANGED <<local, queue, written>>

CopyPack(r) ==
  \/ Copies(r, "copy", "dataset", "artifacts")
  \/ Copies(r, "artifacts", "artifacts", "files")

CopyFiles(r) == Copies(r, "files", "files", "handoff")

CopyHandoff(r) ==
  /\ run[r].step = "handoff"
  /\ cloud' = [cloud EXCEPT ![run[r].intent.pack].handoff = run[r].intent.reports]
  /\ Goto(r, IF run[r].script = "publish" THEN "published" ELSE "remove")
  /\ UNCHANGED <<local, queue, written>>

-----------------------------------------------------------------------------
Publish(r) ==
  /\ run[r].step = "none"
  /\ run' = [run EXCEPT ![r] = [NoRun EXCEPT !.step = "copy", !.script = "publish",
       !.intent = [pack |-> local.pack, reports |-> local.reports, at |-> 0]]]
  /\ UNCHANGED <<local, queue, written, cloud>>

(* A copy fails: a publish defers, a flush goes on with the next intent.   *)
CopyFails(r) ==
  /\ run[r].step \in {"copy", "artifacts", "files", "handoff"}
  /\ Goto(r, IF run[r].script = "publish" THEN "scan" ELSE "flush")
  /\ UNCHANGED <<local, queue, written, cloud>>

SameKey(i, j) == i.pack = j.pack

(* queueIntent: one of the same pack and destinations is enough.           *)
HasDuplicateIntent(r) ==
  /\ run[r].step = "scan"
  /\ Goto(r, IF \E i \in queue : SameKey(i, run[r].intent) THEN "deferred" ELSE "write")
  /\ UNCHANGED <<local, queue, written, cloud>>

QueueIntent(r) ==
  /\ run[r].step = "write"
  /\ written' = written + 1
  /\ queue' = queue \cup {[run[r].intent EXCEPT !.at = written + 1]}
  /\ Goto(r, "deferred")
  /\ UNCHANGED <<local, cloud>>

-----------------------------------------------------------------------------
Flush(r) ==
  /\ run[r].step = "none"
  /\ run' = [run EXCEPT ![r] = [NoRun EXCEPT !.step = "dedupe", !.script = "flush", !.list = queue]]
  /\ UNCHANGED <<local, queue, written, cloud>>

(* A list is sorted by the times of its files.                             *)
Oldest(i, list) == i \in list /\ \A j \in list : i.at <= j.at

Seen(r, i) == i.pack \in run[r].seen

(* dedupe: all but the first of a key are removed. A file that another run *)
(* has removed cannot be read, and is passed over.                         *)
Dedupe(r) ==
  /\ run[r].step = "dedupe"
  /\ \E i \in run[r].list :
       /\ Oldest(i, run[r].list)
       /\ queue' = IF Seen(r, i) THEN queue \ {i} ELSE queue
       /\ run' = [run EXCEPT ![r].list = @ \ {i},
                             ![r].seen = IF i \in queue THEN @ \cup {i.pack} ELSE @]
  /\ UNCHANGED <<local, written, cloud>>

ListItems(r) ==
  /\ run[r].step = "dedupe" /\ run[r].list = {}
  /\ run' = [run EXCEPT ![r].step = "flush", ![r].list = queue]
  /\ UNCHANGED <<local, queue, written, cloud>>

Take(r, i) ==
  /\ run[r].step = "flush" /\ Oldest(i, run[r].list)
  /\ run' = [run EXCEPT ![r].list = @ \ {i}, ![r].intent = i,
                        ![r].step = IF i \in queue THEN "copy" ELSE "flush"]
  /\ UNCHANGED <<local, written, cloud>>

(* Mutant of FlushNext: an intent is removed when it is taken.             *)
FlushNextRemoves(r) == \E i \in run[r].list : Take(r, i) /\ queue' = queue \ {i}

(* The next intent, if it can still be read.                               *)
FlushNext(r) == \E i \in run[r].list : Take(r, i) /\ UNCHANGED queue

FlushDone(r) ==
  /\ run[r].step = "flush" /\ run[r].list = {}
  /\ Goto(r, "flushed")
  /\ UNCHANGED <<local, queue, written, cloud>>

(* What was copied is removed, unless another run did.                     *)
Remove(r) ==
  /\ run[r].step = "remove"
  /\ queue' = queue \ {run[r].intent}
  /\ Goto(r, "flush")
  /\ UNCHANGED <<local, written, cloud>>

Next ==
  \/ Produce
  \/ \E r \in Runs :
       \/ Publish(r) \/ HasDuplicateIntent(r) \/ QueueIntent(r)
       \/ Flush(r) \/ Dedupe(r) \/ ListItems(r) \/ FlushNext(r) \/ FlushDone(r) \/ Remove(r)
       \/ CopyPack(r) \/ CopyFiles(r) \/ CopyHandoff(r) \/ CopyFails(r) \/ Die(r)

Spec == Init /\ [][Next]_vars

-----------------------------------------------------------------------------
(* What a publish deferred is not lost, whichever runs publish, dedupe and *)
(* flush at once or die: an intent of its pack is queued, or the pack has  *)
(* been copied whole. Its reports may be lost to an older intent.          *)
DeferredIsKept ==
  \A r \in Runs : run[r].step = "deferred" =>
    LET p == run[r].intent.pack IN
    \/ \E i \in queue : i.pack = p
    \/ cloud[p].parts = Parts /\ cloud[p].handoff > 0
=============================================================================
