------------------------------- MODULE MCEdge --------------------------------
(* The instances of SocialPosting, RateWindows, AuditBuffer and            *)
(* MarketingWorker. What they keep is in the memory of a process or in     *)
(* tables of their own: each is explored while the others stay where they  *)
(* began.                                                                  *)
EXTENDS SocialPosting, TLC

CONSTANTS
  Limit, Window, Cleaning, Kept, MaxTime, MaxAsked, Entries, Threshold,
  Flushes, Registers, MaxFailed, Messages, Tries, Nothing

VARIABLES
  part,  \* the component this behaviour is of
  store, bucket, times, client, key, check, moment, cleaned, granted, asked, cut,
  writer, buffer, batch, running, written, connected, failed, up, enqueued, dropped, unanswered,
  form, progress, rows, recorded, acked

Rate == INSTANCE RateWindows WITH
  Checks <- Requests, clock <- moment

Audit == INSTANCE AuditBuffer

Worker == INSTANCE MarketingWorker WITH
  step <- progress, audit <- recorded

ASSUME EdgeAssumption ==
  /\ Rate!WindowAssumption
  /\ Audit!AuditAssumption
  /\ Worker!WorkerAssumption

rateVars   == <<store, bucket, times, client, key, check, moment, cleaned, granted, asked, cut>>
auditVars  == <<writer, buffer, batch, running, written, connected, failed, up, enqueued,
                dropped, unanswered>>
workerVars == <<form, progress, rows, recorded, acked>>
allVars    == <<part, vars, rateVars, auditVars, workerVars>>

NoRate ==
  /\ store = Nothing /\ bucket = Nothing /\ times = Nothing /\ client = Nothing
  /\ key = Nothing /\ check = Nothing /\ moment = Nothing /\ cleaned = Nothing
  /\ granted = Nothing /\ asked = Nothing /\ cut = Nothing

NoAudit ==
  /\ writer = Nothing /\ buffer = Nothing /\ batch = Nothing /\ running = Nothing
  /\ written = Nothing /\ connected = Nothing /\ failed = Nothing /\ up = Nothing
  /\ enqueued = Nothing /\ dropped = Nothing /\ unanswered = Nothing

NoWorker ==
  /\ form = Nothing /\ progress = Nothing /\ rows = Nothing /\ recorded = Nothing
  /\ acked = Nothing

AllInit ==
  /\ Init
  /\ \/ part = "posting" /\ NoRate /\ NoAudit /\ NoWorker
     \/ part = "rate" /\ Rate!Init /\ NoAudit /\ NoWorker
     \/ part = "audit" /\ Audit!Init /\ NoRate /\ NoWorker
     \/ part = "worker" /\ Worker!Init /\ NoRate /\ NoAudit
  /\ part # "posting" => clock = 0 /\ \A p \in Pages : count[p][0] = 0

AllNext ==
  \/ part = "posting" /\ Next /\ UNCHANGED <<part, rateVars, auditVars, workerVars>>
  \/ part = "rate" /\ Rate!Next /\ UNCHANGED <<part, vars, auditVars, workerVars>>
  \/ part = "audit" /\ Audit!Next /\ UNCHANGED <<part, vars, rateVars, workerVars>>
  \/ part = "worker" /\ Worker!Next /\ UNCHANGED <<part, vars, rateVars, auditVars>>

AllSpec == AllInit /\ [][AllNext]_allVars

(* Time zones west of Greenwich: a .cfg has no negative numbers.           *)
West == -5

Symmetry == Permutations(Requests) \cup Permutations(Pages)

(* By its count no window lets through more than its store allows, and     *)
(* counts end unless cut.                                                  *)
WindowsHold == part = "rate" => Rate!WindowsHold

(* While the process runs an audit entry is in one place, once, but for    *)
(* rows of writes that failed after they took effect.                      *)
KeptOnce == part = "audit" => Audit!KeptOnce

(* What is acknowledged is recorded, and what is recorded is in.           *)
AckedIsDone == part = "worker" => Worker!AckedIsDone
==============================================================================
