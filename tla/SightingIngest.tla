--------------------------- MODULE SightingIngest ---------------------------
(***************************************************************************)
(* Micro-batch ingestion of vehicle sightings, its dead letter queue (DLQ) *)
(* and the DLQ replay endpoint: services/stream_workers.py and the DLQ     *)
(* routes of api/system.py.                                                *)
(*                                                                         *)
(* A step is what a thread does between two lock or database operations    *)
(* that others can observe.  A database session follows SQLAlchemy: a      *)
(* failed flush rolls the whole transaction back at once and leaves the    *)
(* session unusable until rollback() is called.                            *)
(***************************************************************************)
EXTENDS DeadLetterQueue

CONSTANTS
  Threads,      \* request threads that publish, flush and replay
  NoThread,     \* nobody holds the DLQ lock across steps
  Messages,     \* sighting payloads, each published once
  Malformed,    \* payloads whose conversion raises before the session is used
  Unstorable,   \* payloads whose INSERT the database refuses
  Hot,          \* payloads whose plate is on the watchlist
  Keyed,        \* payloads that carry their own primary key "id"
  BatchSize,    \* BATCH_SIZE_THRESHOLD
  ReplayMax,    \* max_count of a replay
  MaxReplays,   \* bound: number of replay requests
  MaxFaults     \* bound: number of transient database errors

ASSUME IngestAssumption ==
  /\ NoThread \notin Threads
  /\ Malformed \subseteq Messages
  /\ Unstorable \subseteq Messages
  /\ Hot \subseteq Messages
  /\ Keyed \subseteq Messages
  /\ BatchSize \in Nat \ {0}
  /\ ReplayMax \in Nat
  /\ MaxReplays \in Nat
  /\ MaxFaults \in Nat

VARIABLES
  ingested,        \* payloads handed to enqueue_sighting by a publisher
  buffer,          \* MicroBatchIngestionWorker._buffer
  totalCommitted,  \* MicroBatchIngestionWorker._total_committed
  dlq,             \* DeadLetterQueueManager._dlq
  evicted,         \* history: payloads the bounded deque pushed out
  rows,            \* committed vehicle_sightings rows of each payload
  faults,          \* transient database errors so far
  pc, batch, pos,  \* each thread's place in flush_batch
  pending,         \* rows flushed in the thread's open transaction
  poisoned,        \* the thread's session awaits rollback()
  committed,       \* flush_batch's local counter
  dlqHolder,       \* the thread inside replay_messages, holding the DLQ lock
  replayTodo, remaining, \* replay_messages' locals
  rounds,          \* flushes left for the current replayed payload
  replays          \* replay requests so far

shared == <<ingested, buffer, totalCommitted, dlq, evicted, rows, faults>>
session == <<batch, pos, pending, poisoned, committed>>
replay == <<dlqHolder, replayTodo, remaining, rounds, replays>>
vars == <<shared, pc, session, replay>>

NoRows == [m \in Messages |-> 0]
AddRows(r, s) == [m \in Messages |-> r[m] + s[m]]
OneRow(r, m) == [r EXCEPT ![m] = @ + 1]

Init ==
  /\ ingested = {}
  /\ buffer = <<>>
  /\ totalCommitted = 0
  /\ dlq = <<>>
  /\ evicted = {}
  /\ rows = NoRows
  /\ faults = 0
  /\ pc = [t \in Threads |-> "idle"]
  /\ batch = [t \in Threads |-> <<>>]
  /\ pos = [t \in Threads |-> 1]
  /\ pending = [t \in Threads |-> NoRows]
  /\ poisoned = [t \in Threads |-> FALSE]
  /\ committed = [t \in Threads |-> 0]
  /\ dlqHolder = NoThread
  /\ replayTodo = <<>>
  /\ remaining = <<>>
  /\ rounds = 0
  /\ replays = 0

-----------------------------------------------------------------------------
(* The dead letter queue's own operations *)

\* The DLQ lock is reentrant: the replaying thread itself can still enqueue.
DlqOpen(t) == dlqHolder \in {NoThread, t}

EnqueuePoisonPill(t, m) ==
  /\ DlqOpen(t)
  /\ dlq' = Push(dlq, m)
  /\ evicted' = evicted \union Displaced(dlq)

-----------------------------------------------------------------------------
(* enqueue_sighting: append under the lock, flush outside it when due *)

Due == Len(buffer) + 1 >= BatchSize

EnqueueSighting(t, m) ==
  /\ pc[t] = "idle"
  /\ m \notin ingested
  /\ ingested' = ingested \union {m}
  /\ buffer' = Append(buffer, m)
  /\ pc' = [pc EXCEPT ![t] = IF Due THEN "flush" ELSE "idle"]
  /\ UNCHANGED <<totalCommitted, dlq, evicted, rows, faults, session, replay>>

\* flush_batch returns: to the publisher, to a second flush of the same
\* replayed payload, or to the replay loop.
FlushDone(t) ==
  /\ pc' = [pc EXCEPT ![t] = IF dlqHolder # t THEN "idle"
                             ELSE IF rounds = 2 THEN "flush" ELSE "replay"]
  /\ rounds' = IF dlqHolder = t THEN rounds - 1 ELSE rounds
  /\ UNCHANGED <<dlqHolder, replayTodo, remaining, replays>>

FlushEmpty(t) ==
  /\ pc[t] = "flush"
  /\ buffer = <<>>
  /\ FlushDone(t)
  /\ UNCHANGED <<shared, session>>

BeginBatch(t) ==
  /\ pc[t] = "flush"
  /\ buffer # <<>>
  /\ batch' = [batch EXCEPT ![t] = buffer]
  /\ pos' = [pos EXCEPT ![t] = 1]
  /\ pending' = [pending EXCEPT ![t] = NoRows]
  /\ poisoned' = [poisoned EXCEPT ![t] = FALSE]
  /\ committed' = [committed EXCEPT ![t] = 0]
  /\ pc' = [pc EXCEPT ![t] = "item"]
  /\ UNCHANGED <<ingested, totalCommitted, dlq, evicted, rows, faults, replay>>

\* Mutant of TakeBatch: the buffer is copied but not cleared under the lock.
TakeBatchKeepsOne(t) ==
  /\ BeginBatch(t)
  /\ buffer' = Tail(buffer)

\* The whole buffer is taken under the lock, whoever put it there.
TakeBatch(t) ==
  /\ BeginBatch(t)
  /\ buffer' = <<>>

-----------------------------------------------------------------------------
(* The per-item loop of flush_batch *)

Item(t) == batch[t][pos[t]]

AtItem(t) == pc[t] = "item" /\ pos[t] <= Len(batch[t])

\* Another open transaction holds the same primary key: the INSERT waits.
KeyLocked(t, m) ==
  m \in Keyed /\ \E u \in Threads \ {t} : pending[u][m] > 0

\* The database refuses the row, or the key is already taken.
Refused(t, m) ==
  \/ m \in Unstorable
  \/ m \in Keyed /\ (rows[m] > 0 \/ pending[t][m] > 0)

NextItem(t) == pos' = [pos EXCEPT ![t] = @ + 1]

\* Mutant of ItemRaises: the conversion error leaves the session unusable.
ItemRaisesPoisons(t) ==
  /\ AtItem(t)
  /\ Item(t) \in Malformed \/ poisoned[t]
  /\ EnqueuePoisonPill(t, Item(t))
  /\ NextItem(t)
  /\ poisoned' = [poisoned EXCEPT ![t] = TRUE]
  /\ pending' = [pending EXCEPT ![t] = NoRows]
  /\ UNCHANGED <<ingested, buffer, totalCommitted, rows, faults, pc, batch,
                 committed, replay>>

\* A conversion error, or any use of a session that awaits rollback(), ends
\* in the except branch; the session is as it was.
ItemRaises(t) ==
  /\ AtItem(t)
  /\ Item(t) \in Malformed \/ poisoned[t]
  /\ EnqueuePoisonPill(t, Item(t))
  /\ NextItem(t)
  /\ UNCHANGED <<ingested, buffer, totalCommitted, rows, faults, pc, batch,
                 pending, poisoned, committed, replay>>

RolledBackItem(t) ==
  /\ AtItem(t)
  /\ Item(t) \notin Malformed
  /\ ~poisoned[t]
  /\ ~KeyLocked(t, Item(t))
  /\ \/ Refused(t, Item(t)) /\ UNCHANGED faults
     \/ faults < MaxFaults /\ faults' = faults + 1
  /\ pending' = [pending EXCEPT ![t] = NoRows]
  /\ EnqueuePoisonPill(t, Item(t))
  /\ NextItem(t)
  /\ UNCHANGED <<ingested, buffer, totalCommitted, rows, pc, batch, committed,
                 replay>>

\* Mutant of ItemFlushFails: the except branch calls rollback() and goes on.
ItemFlushFailsGoesOn(t) == RolledBackItem(t) /\ UNCHANGED poisoned

\* db.flush() fails: the transaction is rolled back there and then, earlier
\* rows of the batch included, and the session awaits rollback().
ItemFlushFails(t) ==
  /\ RolledBackItem(t)
  /\ poisoned' = [poisoned EXCEPT ![t] = TRUE]

\* The row is flushed.  For a watchlisted plate trigger_alert_if_matched then
\* commits the session, and with it every row flushed so far.
ItemFlushed(t) ==
  /\ AtItem(t)
  /\ Item(t) \notin Malformed
  /\ ~poisoned[t]
  /\ ~KeyLocked(t, Item(t))
  /\ ~Refused(t, Item(t))
  /\ LET written == OneRow(pending[t], Item(t))
     IN IF Item(t) \in Hot
        THEN /\ rows' = AddRows(rows, written)
             /\ pending' = [pending EXCEPT ![t] = NoRows]
        ELSE /\ pending' = [pending EXCEPT ![t] = written]
             /\ UNCHANGED rows
  /\ committed' = [committed EXCEPT ![t] = @ + 1]
  /\ NextItem(t)
  /\ UNCHANGED <<ingested, buffer, totalCommitted, dlq, evicted, faults, pc,
                 batch, poisoned, replay>>

-----------------------------------------------------------------------------
(* The final commit of flush_batch and its rollback branch *)

AtCommit(t) == pc[t] = "item" /\ pos[t] > Len(batch[t])

CommitSucceeds(t) ==
  /\ AtCommit(t)
  /\ ~poisoned[t]
  /\ rows' = AddRows(rows, pending[t])
  /\ pending' = [pending EXCEPT ![t] = NoRows]
  /\ totalCommitted' = totalCommitted + committed[t]
  /\ FlushDone(t)
  /\ UNCHANGED <<ingested, buffer, dlq, evicted, faults, batch, pos, poisoned,
                 committed>>

RollbackBatch(t) ==
  /\ AtCommit(t)
  /\ \/ poisoned[t] /\ UNCHANGED faults
     \/ faults < MaxFaults /\ faults' = faults + 1
  /\ pending' = [pending EXCEPT ![t] = NoRows]
  /\ pos' = [pos EXCEPT ![t] = 1]
  /\ pc' = [pc EXCEPT ![t] = "quarantine"]
  /\ UNCHANGED <<ingested, buffer, dlq, evicted, rows, batch, poisoned,
                 committed, replay>>

\* commit() raises, always for a session that awaits rollback().
CommitFails(t) == RollbackBatch(t) /\ UNCHANGED totalCommitted

\* "quarantine all to DLQ", one item at a time
QuarantineItem(t) ==
  /\ pc[t] = "quarantine"
  /\ pos[t] <= Len(batch[t])
  /\ EnqueuePoisonPill(t, Item(t))
  /\ NextItem(t)
  /\ UNCHANGED <<ingested, buffer, totalCommitted, rows, faults, pc, batch,
                 pending, poisoned, committed, replay>>

QuarantineDone(t) ==
  /\ pc[t] = "quarantine"
  /\ pos[t] > Len(batch[t])
  /\ FlushDone(t)
  /\ UNCHANGED <<shared, session>>

-----------------------------------------------------------------------------
(* POST /events/dlq/replay: replay_messages holds the DLQ lock throughout *)

ReplayStart(t) ==
  /\ pc[t] = "idle"
  /\ dlqHolder = NoThread
  /\ replays < MaxReplays
  /\ replays' = replays + 1
  /\ dlqHolder' = t
  /\ replayTodo' = RetryWindow(dlq, ReplayMax)
  /\ remaining' = BeyondWindow(dlq, ReplayMax)
  /\ pc' = [pc EXCEPT ![t] = "replay"]
  /\ UNCHANGED <<shared, session, rounds>>

\* reprocessor: enqueue_sighting (which may flush by itself), flush_batch,
\* return True.
ReplayItem(t) ==
  /\ pc[t] = "replay"
  /\ replayTodo # <<>>
  /\ buffer' = Append(buffer, Head(replayTodo))
  /\ replayTodo' = Tail(replayTodo)
  /\ rounds' = IF Due THEN 2 ELSE 1
  /\ pc' = [pc EXCEPT ![t] = "flush"]
  /\ UNCHANGED <<ingested, totalCommitted, dlq, evicted, rows, faults, session,
                 dlqHolder, remaining, replays>>

SwapDlq(t) ==
  /\ pc[t] = "replay"
  /\ replayTodo = <<>>
  /\ dlq' = remaining
  /\ remaining' = <<>>
  /\ pc' = [pc EXCEPT ![t] = "idle"]
  /\ UNCHANGED <<ingested, buffer, totalCommitted, evicted, rows, faults,
                 session, replayTodo, rounds, replays>>

\* Mutant of ReplayEnd: the DLQ lock is not released.
ReplayEndKeepsLock(t) == SwapDlq(t) /\ UNCHANGED dlqHolder

\* self._dlq = remaining, and the lock is released
ReplayEnd(t) == SwapDlq(t) /\ dlqHolder' = NoThread

\* DELETE /events/dlq
PurgeDlq(t) ==
  /\ pc[t] = "idle"
  /\ dlqHolder = NoThread
  /\ dlq # <<>>
  /\ dlq' = <<>>
  /\ UNCHANGED <<ingested, buffer, totalCommitted, evicted, rows, faults, pc,
                 session, replay>>

-----------------------------------------------------------------------------
FlushStep(t) ==
  \/ FlushEmpty(t)
  \/ TakeBatch(t)
  \/ ItemRaises(t)
  \/ ItemFlushFails(t)
  \/ ItemFlushed(t)
  \/ CommitSucceeds(t)
  \/ CommitFails(t)
  \/ QuarantineItem(t)
  \/ QuarantineDone(t)

ReplayStep(t) == ReplayItem(t) \/ ReplayEnd(t)

\* Ingestion alone
IngestNext ==
  \E t \in Threads : FlushStep(t) \/ \E m \in Messages : EnqueueSighting(t, m)

\* Ingestion with the operators' DLQ endpoints
Next ==
  \/ IngestNext
  \/ \E t \in Threads : ReplayStart(t) \/ ReplayStep(t) \/ PurgeDlq(t)

IngestSpec == Init /\ [][IngestNext]_vars
Spec == Init /\ [][Next]_vars

\* A request thread runs until its call returns; requests need not arrive.
Fairness == \A t \in Threads : WF_vars(FlushStep(t) \/ ReplayStep(t))
FairSpec == Spec /\ Fairness
-----------------------------------------------------------------------------
(* Properties *)

Active(t) == pc[t] \in {"item", "quarantine"}

Held(m) ==
  \/ m \in Elements(buffer)
  \/ \E t \in Threads : Active(t) /\ m \in Elements(batch[t])

Quarantined(m) == m \in Elements(dlq)

\* Every variable keeps its type.
TypeOK ==
  /\ ingested \in SUBSET Messages
  /\ buffer \in Seq(Messages)
  /\ totalCommitted \in Nat
  /\ dlq \in Seq(Messages)
  /\ Len(dlq) <= DlqMax
  /\ evicted \in SUBSET Messages
  /\ rows \in [Messages -> Nat]
  /\ faults \in 0 .. MaxFaults
  /\ pc \in [Threads -> {"idle", "flush", "item", "quarantine", "replay"}]
  /\ batch \in [Threads -> Seq(Messages)]
  /\ pos \in [Threads -> Nat \ {0}]
  /\ pending \in [Threads -> [Messages -> Nat]]
  /\ poisoned \in [Threads -> BOOLEAN]
  /\ committed \in [Threads -> Nat]
  /\ dlqHolder \in Threads \union {NoThread}
  /\ replayTodo \in Seq(Messages)
  /\ remaining \in Seq(Messages)
  /\ Len(remaining) <= DlqMax
  /\ rounds \in 0 .. 2
  /\ replays \in 0 .. MaxReplays

\* Ingestion loses nothing: a sighting that was enqueued is still buffered or
\* in a batch being processed, or stored, or quarantined, unless the bounded
\* dead letter queue overflowed and pushed it out.  Covers flush_batch's
\* interplay of mid-batch commits, failed flushes and the rollback branch.
NoSightingLost ==
  \A m \in ingested :
    Held(m) \/ rows[m] > 0 \/ Quarantined(m) \/ m \in evicted

Contract == INSTANCE IngestContract WITH
  accepted <- ingested, held <- {m \in Messages : Held(m)},
  refused <- Elements(dlq) \union evicted

\* Ingestion alone implements its contract: a batch taken over by one of the
\* threads is stored once or quarantined, in whatever parts a watchlist hit
\* commits it, and neither after the thread has let go of it.
KeepsContract == Contract!Spec

\* Conversion errors are isolated: as long as the database has had no reason to
\* refuse anything, only malformed payloads reach the dead letter queue, replays
\* included.
MalformedIsolated ==
  faults = 0 /\ ingested \intersect (Unstorable \union Keyed) = {}
    => Elements(dlq) \subseteq Malformed

\* The replay endpoint "removes successfully recovered events": what leaves the
\* dead letter queue in a replay is stored, or still held by the worker.
ReplayRemovesRecovered ==
  [][dlqHolder # NoThread /\ dlqHolder' = NoThread =>
       \A m \in Elements(dlq) \ Elements(dlq') : rows[m] > 0 \/ Held(m)]_vars

\* "Isolate poison pill to DLQ without failing whole batch": a payload that
\* the database would accept is not quarantined for the sake of another one.
\* The code does not keep this one; no run checks it, and the README shows the
\* instance in which it fails.
PoisonIsolated == \A m \in Elements(dlq) : m \in Malformed \union Unstorable

\* Every call that flushes or replays returns: no thread waits for ever on the
\* dead letter queue's lock or on another session's row.
WorkerFinishes == \A t \in Threads : pc[t] # "idle" ~> pc[t] = "idle"

\* "micro-batching up to 100 items per commit or 250ms intervals": a buffered
\* sighting is eventually taken out of the buffer.
\* The code does not keep this one; no run checks it, and the README shows the
\* instance in which it fails.
TimelyFlush ==
  \A m \in Messages : m \in Elements(buffer) ~> m \notin Elements(buffer)
=============================================================================
