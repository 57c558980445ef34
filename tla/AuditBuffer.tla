------------------------------ MODULE AuditBuffer ------------------------------
(***************************************************************************)
(* server/security/auditLog.ts: handlers leave audit entries in a buffer,  *)
(* which a timer, a full buffer or a forced flush takes as one batch and   *)
(* hands to the writer that was registered: the one that the comment above *)
(* registerAuditWriter gives, an insert of all its rows if there is a      *)
(* database. No file registers a writer: Registers is then FALSE.          *)
(*                                                                         *)
(* A flush is two steps, before and after the await of its insert; several *)
(* may be under way. An insert that fails may have taken effect. The       *)
(* process may end at any moment, and with it what was not written.        *)
(***************************************************************************)
EXTENDS Naturals, Sequences, FiniteSets

CONSTANTS
  Entries,    \* audit entries
  Threshold,  \* FLUSH_THRESHOLD
  Flushes,    \* calls of flushBuffer
  Registers,  \* whether the start of the server registers a writer
  MaxFailed   \* bound of the model: writes that fail

AuditAssumption == Threshold \in Nat \ {0} /\ Registers \in BOOLEAN /\ MaxFailed \in Nat

VARIABLES
  writer,     \* dbWriter is set, and the timer runs
  buffer,     \* auditBuffer
  batch,      \* what each flush under way holds
  running,    \* flushes under way
  written,    \* security_audit_log: how many rows an entry has
  connected,  \* _db of db/index.ts, which stays once it is set
  failed,     \* how many writes have failed
  up,         \* the process
  enqueued,   \* history: the entries enqueued
  dropped,    \* history: entries a flush took while there was no database
  unanswered  \* history: how many rows of an entry were inserted by a write that failed

table == <<written, unanswered>>
vars == <<writer, buffer, batch, running, table, connected, failed, up, enqueued, dropped>>

In(s)       == {s[i] : i \in DOMAIN s}
Times(s, e) == Cardinality({i \in DOMAIN s : s[i] = e})
NoRows      == [e \in Entries |-> 0]

Init ==
  /\ writer = FALSE /\ buffer = <<>> /\ running = {} /\ written = NoRows
  /\ batch = [f \in Flushes |-> <<>>] /\ connected \in BOOLEAN /\ failed = 0 /\ up = TRUE
  /\ enqueued = {} /\ dropped = {} /\ unanswered = NoRows

(* registerAuditWriter *)
Register ==
  /\ Registers /\ up /\ ~ writer
  /\ writer' = TRUE
  /\ UNCHANGED <<buffer, batch, running, table, connected, failed, up, enqueued, dropped>>

(* Mutant of Left: the batch stays in the buffer until it is written.      *)
LeftUntilWritten(entries) == entries

Left(entries) == <<>>

(* flushBuffer until it awaits, on some entries in the buffer: the writer  *)
(* asks for the database and returns at once, the batch forgotten, when    *)
(* there is none.                                                          *)
Take(f, entries) ==
  /\ buffer' = Left(entries)
  /\ \/ /\ connected' = TRUE
        /\ batch' = [batch EXCEPT ![f] = entries] /\ running' = running \cup {f}
        /\ UNCHANGED dropped
     \/ /\ ~ connected /\ dropped' = dropped \cup In(entries)
        /\ UNCHANGED <<connected, batch, running>>

(* enqueue: a full buffer is flushed at once, if there is a writer.        *)
Enqueue(e) ==
  LET entries == Append(buffer, e) IN
  /\ up /\ e \notin enqueued
  /\ enqueued' = enqueued \cup {e}
  /\ IF Len(entries) >= Threshold /\ writer
     THEN \E f \in Flushes \ running : Take(f, entries)
     ELSE buffer' = entries /\ UNCHANGED <<batch, running, connected, dropped>>
  /\ UNCHANGED <<writer, table, failed, up>>

(* The timer, or flushAuditLog. *)
Flush(f) ==
  /\ up /\ writer /\ buffer # <<>> /\ f \notin running
  /\ Take(f, buffer)
  /\ UNCHANGED <<writer, table, failed, up, enqueued>>

Done(f) == running' = running \ {f} /\ batch' = [batch EXCEPT ![f] = <<>>]

WithRows(rows, entries) == [e \in Entries |-> rows[e] + Times(entries, e)]

Written(f) ==
  /\ up /\ f \in running /\ Done(f)
  /\ written' = WithRows(written, batch[f])
  /\ UNCHANGED <<writer, buffer, connected, failed, up, enqueued, dropped, unanswered>>

PutBack(f) == batch[f] \o buffer

(* The insert is rejected, whether or not it has taken effect.             *)
Failed(f) ==
  /\ up /\ f \in running /\ failed < MaxFailed /\ Done(f)
  /\ failed' = failed + 1
  /\ buffer' = PutBack(f)
  /\ \/ UNCHANGED table
     \/ /\ written' = WithRows(written, batch[f])
        /\ unanswered' = WithRows(unanswered, batch[f])
  /\ UNCHANGED <<writer, connected, up, enqueued, dropped>>

End ==
  /\ up /\ up' = FALSE
  /\ UNCHANGED <<writer, buffer, batch, running, table, connected, failed, enqueued, dropped>>

Next ==
  \/ Register \/ End
  \/ \E e \in Entries : Enqueue(e)
  \/ \E f \in Flushes : Flush(f) \/ Written(f) \/ Failed(f)

Spec == Init /\ [][Next]_vars

-----------------------------------------------------------------------------
(* While the process runs an enqueued entry is in the buffer, with one     *)
(* flush, written, or dropped for want of a database, and in one of them   *)
(* only, however flushes overlap and fail: none is lost otherwise, and its *)
(* rows are more than one only by those of writes that failed and yet took *)
(* effect.                                                                 *)
KeptOnce ==
  up => \A e \in enqueued :
    Times(buffer, e) + Cardinality({f \in running : e \in In(batch[f])})
      + written[e] + (IF e \in dropped THEN 1 ELSE 0) = 1 + unanswered[e]
=============================================================================
