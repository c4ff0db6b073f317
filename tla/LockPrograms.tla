---------------------------- MODULE LockPrograms ----------------------------
(***************************************************************************)
(* What the calls into the streaming pipeline lock, in order.  A call is   *)
(* the sequence of acquisitions and releases its code makes; a call that   *)
(* can go several ways is a set of such sequences, one for every way that  *)
(* takes the locks in a different order; a section that a loop or a branch *)
(* repeats right away is written once.                                     *)
(***************************************************************************)
EXTENDS Sequences

AllCalls == {"publish", "metrics", "stats", "list", "replaySightings", "replayEvents"}

Locks == {"bus", "worker", "dlq"}
Reentrant == {"worker", "dlq"}

With(lock, body) ==
  <<[do |-> "acquire", lock |-> lock]>> \o body
    \o <<[do |-> "release", lock |-> lock]>>

Then(first, second) == {p \o q : p \in first, q \in second}
Maybe(progs) == progs \union {<<>>}

-----------------------------------------------------------------------------
(* The calls, as the code makes them *)

BusSection == {With("bus", <<>>)}
WorkerSection == {With("worker", <<>>)}

\* enqueue_poison_pill, list_messages, size, purge
DlqSection == {With("dlq", <<>>)}

\* flush_batch: swap the buffer; quarantine the items that fail; then count
\* the commit, or quarantine the batch
FlushBatch ==
  Then(WorkerSection, Then(Maybe(DlqSection), Maybe(WorkerSection)))

\* Mutant of EnqueueSighting: the flush runs inside the buffer's lock.
EnqueueSightingFlushInside == {With("worker", f) : f \in Maybe(FlushBatch)}

\* enqueue_sighting: append under the lock, flush outside it
EnqueueSighting == Then(WorkerSection, Maybe(FlushBatch))

\* A handler call counts under the lock, and quarantines in the last failure;
\* a group's handler reads and commits its offset.  No lock is held across.
Dispatch == Then(Maybe(BusSection), Maybe(DlqSection))

Publish ==
  Then(BusSection,                                       \* is_duplicate
       BusSection                                        \* count the duplicate
         \union Then(BusSection,                         \* record, snapshot
                     Then(Maybe(EnqueueSighting),
                          Then(Dispatch, BusSection))))  \* consumer lag

\* get_pipeline_metrics calls dlq_manager.size() inside the bus lock.
PipelineMetrics == {With("bus", With("dlq", <<>>) \o With("dlq", <<>>))}

\* get_worker_stats calls dlq_manager.size() inside the worker lock.
WorkerStats == {With("worker", With("dlq", <<>>))}

\* replay_messages calls the reprocessor inside the DLQ lock.
ReplaySightings ==
  {With("dlq", p) : p \in Maybe(Then(EnqueueSighting, FlushBatch))}
ReplayEvents == {With("dlq", p) : p \in Maybe(Publish)}

Programs(call) ==
  CASE call = "publish" -> Publish
    [] call = "metrics" -> PipelineMetrics
    [] call = "stats" -> WorkerStats
    [] call = "list" -> DlqSection
    [] call = "replaySightings" -> ReplaySightings
    [] call = "replayEvents" -> ReplayEvents
=============================================================================
