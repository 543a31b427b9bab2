----------------------------- MODULE AuditTrail -----------------------------
(* The audit logger (argus/audit.py): log() never blocks, it queues the event  *)
(* for the database and copies it to the live tail's bounded queues; the flush *)
(* loop inserts batches.  Events are numbered in the order they are logged.    *)
EXTENDS Naturals, Sequences, FiniteSets

CONSTANTS
    MaxBatch,       \* MAX_BATCH_SIZE
    MaxTail         \* maxsize of a tail queue

ASSUME AuditAssumption == MaxBatch \in Nat \ {0} /\ MaxTail \in Nat \ {0}

VARIABLES
    logged,         \* events logged so far
    blocked,        \* those that are refusals of real traffic
    queue,          \* the logger's queue
    batch,          \* the batch being inserted
    stored,         \* audit_events
    lost,           \* events that will not be stored
    failures,       \* ghost: inserts that failed or were cut off
    tail            \* the webhook dispatcher's subscription

avars == <<logged, blocked, queue, batch, stored, lost, failures, tail>>

AuditInit ==
    /\ logged = 0 /\ blocked = {}
    /\ queue = <<>> /\ batch = <<>> /\ stored = <<>> /\ lost = {}
    /\ failures = 0 /\ tail = <<>>

(* _broadcast: a full tail drops the event.                                    *)
Broadcast(e) == tail' = IF Len(tail) < MaxTail THEN Append(tail, e) ELSE tail

(* log(), for a refusal of real traffic and for anything else.                 *)
Log(isBlocked) ==
    /\ logged' = logged + 1
    /\ blocked' = IF isBlocked THEN blocked \cup {logged'} ELSE blocked
    /\ queue' = Append(queue, logged')
    /\ Broadcast(logged')
    /\ UNCHANGED <<batch, stored, lost, failures>>

Events(s) == {s[i] : i \in 1 .. Len(s)}
Rest(s) == SubSeq(s, MaxBatch + 1, Len(s))
FirstOf(s) == SubSeq(s, 1, IF Len(s) < MaxBatch THEN Len(s) ELSE MaxBatch)

TakeBatchAndDrop ==
    /\ batch = <<>> /\ queue # <<>>
    /\ batch' = FirstOf(queue) /\ queue' = <<>>
    /\ UNCHANGED <<logged, blocked, stored, lost, failures, tail>>

(* _flush_batch: up to MAX_BATCH_SIZE events leave the queue ...               *)
TakeBatch ==
    /\ batch = <<>> /\ queue # <<>>
    /\ batch' = FirstOf(queue) /\ queue' = Rest(queue)
    /\ UNCHANGED <<logged, blocked, stored, lost, failures, tail>>

(* ... and insert_many stores them in one transaction ...                      *)
Inserted ==
    /\ batch # <<>>
    /\ stored' = stored \o batch /\ batch' = <<>>
    /\ UNCHANGED <<logged, blocked, queue, lost, failures, tail>>

(* ... or fails, and they are gone: the loop logs the failure and goes on.     *)
InsertFails ==
    /\ batch # <<>>
    /\ lost' = lost \cup Events(batch) /\ batch' = <<>> /\ failures' = failures + 1
    /\ UNCHANGED <<logged, blocked, queue, stored, tail>>

(* stop(): the loop is cancelled, an insert under way with it; one more batch  *)
(* is taken, for which there are five seconds.                                 *)
StopFlush(committed) ==
    /\ stored' = IF committed THEN stored \o batch ELSE stored
    /\ lost' = IF committed THEN lost ELSE lost \cup Events(batch)
    /\ failures' = IF committed \/ batch = <<>> THEN failures ELSE failures + 1
    /\ batch' = FirstOf(queue) /\ queue' = Rest(queue)
    /\ UNCHANGED <<logged, blocked, tail>>

(* What was in the queue beyond that batch goes with the process.              *)
ProcessEnds ==
    /\ batch = <<>>
    /\ lost' = lost \cup Events(queue) /\ queue' = <<>>
    /\ UNCHANGED <<logged, blocked, batch, stored, failures, tail>>

Unsubscribe == tail' = <<>> /\ UNCHANGED <<logged, blocked, queue, batch, stored, lost, failures>>

------------------------------------------------------------------------------
Ascends(s) == \A i, j \in 1 .. Len(s) : i < j => s[i] < s[j]

(* Every event logged is stored, on its way, or lost, and only one of them;    *)
(* the table, the insert under way and the queue follow the order of the log;  *)
(* a failed insert costs at most its batch, and nothing else is lost before    *)
(* the process ends (log, _flush_batch, _on_stop).                             *)
AuditAccounted(ended) ==
    LET kept == stored \o batch \o queue
    IN  /\ Ascends(kept)
        /\ Events(kept) \cap lost = {} /\ Events(kept) \cup lost = 1 .. logged
        /\ ~ended => Cardinality(lost) <= MaxBatch * failures
=============================================================================
