# GIVIN: a verification project

GIVIN (Gujarat Integrated Video Intelligence Network) is a FastAPI service that takes
vehicle sightings from camera streams, stores them, matches plates against a
watchlist, raises alerts, and keeps an audit log and an evidence vault. This directory
holds TLA+ models of its stateful components, the TLC runs that check them, and proofs
of their main invariants. Source paths below are relative to `src/backend/app/`, those under
`docs/`, `scripts/`, `db/` and `k8s/` to `src/`.

1. [The system](#1-the-system)
2. [The modules](#2-the-modules-and-how-they-correspond-to-the-code)
3. [The runs](#3-the-runs)
4. [What is proved](#4-what-is-proved)
5. [Promises the code does not keep](#5-promises-the-code-does-not-keep)
6. [What is not modelled](#6-what-is-not-modelled)
7. [Plan](#7-plan)

## 1. The system

The service is a set of API processes (`k8s/06-givin-api.yaml` runs three replicas). In
each, request threads call into module-level singletons guarded by `threading` locks; what
is shared between processes is the database and the object store. Everything below the API
is synchronous: publishing an event runs its subscribers in the publisher's thread.

| Component | State | Operations | What is hard | What makes it correct |
|---|---|---|---|---|
| Micro-batch ingestion, `services/stream_workers.py` | the buffer, a committed counter, one database session per flush | `enqueue_sighting`, `flush_batch` | concurrent flushes; a refused row, a failed commit, a commit in mid-batch by a watchlist hit | no sighting lost, none stored twice, conversion errors isolated |
| Dead letter queue (DLQ), same file, endpoints in `api/system.py` | a bounded deque under a reentrant lock | enqueue, list, purge, replay | a replay holds the lock while it flushes or publishes, and replaces the deque afterwards | replay and flush return; what leaves the queue was recovered |
| Event bus, `services/event_bus.py` | subscribers, groups and offsets, ids seen, all under one lock | `publish`, `subscribe`, `is_duplicate`, `commit_offset`, metrics | dispatch without the lock, retries, replay meeting the idempotency record | a keyed event handled once; each consumer handles an event or its failure is quarantined; offsets not ahead |
| Locks of the pipeline | bus lock, worker lock, DLQ lock | every call above | the locks are nested in opposite orders by some calls | no other calls wait in a circle |
| Audit chain, `services/audit_service.py` | `audit_logs` rows, one lock per process | `log_action`, `verify_chain`, rows added directly by other endpoints | reads and inserts of the head interleave, commits fail, several writers | no fork; links reach the last logged row; the lock is given back |
| Watchlist cache, `services/watchlist_matcher.py`, `api/watchlist.py` | cached list and its time, per process | look-up, change and invalidate | the query runs outside the lock; other processes are not told | bounded staleness |
| Alerts, `services/watchlist_matcher.py`, `api/alerts.py` | `alerts` and `vehicle_sightings` rows | `trigger_alert_if_matched` from two paths, `take_alert_action` | look-up and insert are separate; ids differ between paths | one alert per sighting and per incident |
| Evidence vault, `services/evidence_vault.py`, `services/storage/`, `api/cases.py` | five objects per package, `Evidence` and `EvidenceAccess` rows | ingest, append to the chain of custody, verify | several writes without a transaction, crashes, unreadable objects | a record is backed by a whole package; the trail only grows |
| Camera streams, `services/sentinel_stream.py` | slots, telemetry with backoff, a semaphore | admit, register, connect, reconnect, yield frames, close | check and registration are separate; clients disappear | the limit of streams, permits returned, backoff |
| Stream worker pipeline, `services/stream_workers.py` | three workers subscribed to the bus | each publishes from inside the dispatch of another | nesting; a frame that fails half-way; internally published events carry no id, so the idempotency check never applies to them | no detection lost; none stored more often than dispatched |
| Tracker, `services/bytetrack.py` | tracks per camera, a pool of trackers | `update`, `reset` | trackers and one counter of ids, shared by threads without a lock; scene boundaries; frames without a time stamp | an id names one track; tracks end with their scene |
| Temporal OCR fusion, `services/temporal_fusion.py`, `core/redis_client.py` | samples in Redis or in a local fallback | add a sample and vote | Redis failing between calls; keys that outlive the process | a vote is of one track, of one scene, and current |
| Vision, `services/vision_pipeline.py` | none of its own | `detect` on a stream's frame or an upload | the two above, shared by threads | the way of a frame keeps what they promise |
| Database schema, `models/orm.py`, `core/database.py`, `db/migrations` | the tables | `create_all`, `sync_schema_columns`, upgrade, downgrade | DDL without a transaction, starts that race or die half-way | a served schema is whole; no table without those it refers to |
| Seeds and demonstration scripts, `seed_data.py`, `db/seed`, `scripts/` | the first rows | `seed_database`, `demo_seed`, `run_demo`, `demo_reset`, `bootstrap_demo` | several transactions each, in any order, killed anywhere | complete, nothing twice, no orphans |
| Federation, `services/federation.py`, `api/cameras.py` | access requests | request, approve or reject, check, open a feed | decisions that overlap, permits that run out | access only by right or a live approval |
| Government adapters, `services/gov_adapters/` | mode, cache, rate window | `query`, bundle, `set_mode` | cached answers outlive a change of mode; the window is an unguarded list | the rate limit; guarded, fresh answers |
| Camera registry, `api/cameras.py` | `cameras` and `camera_health` rows, cameras bound to the pipeline | onboard, heartbeat, validate | the ORM writes only columns that changed since the read | a report is in force as a whole |
| Camera graph, `services/camera_graph.py` | one graph in memory | build, rank, summarise | rebuilt in place while others read | one reading's links, each once |
| Broadcast, `core/realtime.py`, `main.py` | clients of the event loop | join, leave, broadcast | sends await; clients die in between; publishers have no loop | a live client gets what it was to get |
| Cases, catalogue, identity, analytics, connectors, geometry | rows, or none | single transactions, pure functions, I/O | | see section 6 |

How they interact: a publisher calls `publish`, which checks the id, records the event,
hands a raw sighting to the micro-batch worker, and calls the subscribers and groups. The
worker converts each item, inserts it, and calls `trigger_alert_if_matched`, which reads the
watchlist cache and may commit the worker's session. Failures go to the DLQ, and an operator
replays them through the same calls. Endpoints that change anything add an audit row, some
with `log_action`, some directly. A frame, from a stream or an upload, is detected, tracked
per camera and fused with the samples of its track before its plate is published; an alert
goes to the event loop's broadcaster. At start a process adds missing tables and columns and
seeds the rows it needs, beside other processes that do the same.

## 2. The modules and how they correspond to the code

Each component has a module with its variables, one action per step, and its properties. A
step is what a thread does between two operations that other threads can observe: a critical
section, a database statement or commit, a file operation, or a handler call. `MC*.tla` give
the instances for TLC; `*Proofs.tla` hold the proofs. An action with "Mutant of" in its
comment is a deliberately wrong variant of the definition below it, used to see that a
property depends on the code it is about; no specification uses one.

Small components that share no state are checked together: `Services` (audit chain, cache,
alerts, vault, locks), `Pipeline` (frames, workers), `Records` (schema, scripts, access
requests, registries) and `CameraSystem` (streams, registry, graph, broadcast) put one
component's variables beside another's. `part` says which one runs, the variables of the
others stay `Off`; the behaviours are those of each component alone and the states add up.
These modules are generic, so that the theorems of section 4 are about the specification TLC
runs; `MCServices`, `MCPipeline`, `MCRecords` and `MCCameras` only give values.

### Ingestion and the bus

**`DeadLetterQueue`**: the bounded deque (`collections.deque(maxlen=1000)`) as operators: a
push that drops the oldest element and the split a replay makes.

**`SightingIngest`**: `enqueue_sighting`, `flush_batch`, `replay_messages` with the
reprocessor of the sightings topic, and purge. `pc[t]` is a thread's place: `flush` (about
to take the buffer), `item` (in the loop), `quarantine` (in the rollback branch), `replay`.
The database session follows SQLAlchemy: a failed `flush()` rolls the transaction back at
once (`pending` is emptied) and the session refuses everything until `rollback()`
(`poisoned`), which the `except` branch of the loop does not call. A watchlisted plate
commits the rows flushed so far, because `trigger_alert_if_matched` commits. `KeyLocked` is
the wait of an `INSERT` for an uncommitted row with the same key. The DLQ lock is held
across a replay (`dlqHolder`) and is reentrant. `rounds` counts the flushes a replayed
payload causes (one from `enqueue_sighting` when the batch is due, one explicit).
`IngestSpec` has no operator requests; `Spec` adds replays and purges.

**`IngestContract`**: what ingestion promises, with four variables: accepted sightings are
held until they are stored, once, or refused. `SightingIngest!Contract` maps the buffer and
the batches of all threads to `held`, and the dead letter queue with what it pushed out to
`refused`; `KeepsContract` is the refinement. A batch settles in parts because a watchlist
hit commits some of its rows early, and nothing may be stored or refused once a thread has
let go of it.

**`EventBus`**: `subscribe` (with the alias list that contains the topic itself), `publish`
from the idempotency check to the last group, `commit_offset`, the DLQ replay through
`publish`. The clock is read before the lock (`clock[t]`), the handler list is a snapshot
(`todo[t]`), a handler is tried three times, a group once. `owed`, `delivered`, `handled`
and `evicted` are history. Of a partition key what matters is whether it can be hashed: that
of a payload in `BadKeys` cannot, and `compute_partition` raises after the id is recorded
(`PublishRaises`), to the publisher or to the replay loop, which keeps the item. A publisher
may pass another key than that of the payload, a replay passes none.

**`LockPrograms`, `PipelineLocks`**: the three locks together. A call is the sequence of
acquisitions and releases its code makes, and a set of sequences where it can go several
ways. `doing` is history: the call a thread makes. There is no one order of the locks: the
metrics of the bus take the DLQ lock inside the bus lock, the statistics of the worker
(`get_worker_stats`) take it inside the worker lock, and a replay takes either of the two
inside the DLQ lock. `Opposed` names the pairs of calls that meet so.

### The way of a frame

**`Tracker`**: `ByteTracker` and `TrackerPool`. Association is the choice of a matching,
since boxes overlap as they may. A track is the detection it began as (frame, place in it,
`run` of the process), and its id is what it read from `STrack._count`, a class attribute
that all trackers add to without a lock: load, store and read are three steps
(`FramePipeline`: `LoadId`, `StoreId`, `TakeId`), so that an increment can be lost or one
read for another's. `clashed` is history: it has happened. The reset at a scene boundary
(`bytetrack.py:129`), which takes a time stamp on this frame and on the last, and that of
the stream manager are both there. Lost tracks are never matched again by the code, so their
list is left out; the race of two threads for the creation of a camera's tracker
(`bytetrack.py:250`) is, too.

**`SampleStore`**: the sample lists of `RedisStateClient` in Redis and in the process. A
call that fails sends the sample to the fallback, `health_check` after a failed ping leaves
`_is_connected` false for ever, keys in Redis outlive a restart, and the fallback appends to
a list that has expired.

**`FramePipeline`** composes the two: detection, an id for each detection, the reading of
the tracks they may match, association, and per track a sample and a vote. A thread's job
goes through these stages while other threads share the counter, the trackers and the store.
A frame of the vision worker has a time stamp or none (`stream_workers.py:262`); an upload
has none, is tracked under the default camera (`vision_pipeline.py:180`), and uploads take
turns. `era` is history: how often the media order of a stream came in doubt, by a frame
without a time stamp or by two calls that were at work on it at once (`Doubt`). `since`
counts the samples that were added behind the one a call has written and not yet read. The
bounds of a behaviour are its `scope`, chosen at the start among `Scopes`: a run looks at
several small worlds of different shapes.

**`WorkerPipeline`**: `publish` as a call stack, with the vision, tracking and watchlist
workers inside it. The loop over the detections of a frame raises on one that is no mapping,
and on one whose plate is no string: the plate is the partition key of its result, and
`compute_partition` cannot encode it (`event_bus.py:150`). Either ends the frame, which the
bus quarantines with the earlier detections already published and the later ones not
(`FrameRaises`). What comes after the loop meets only plates that are strings. A sighting is
quarantined when its flush raises; the watchlist worker logs its exceptions. A replay
dispatches again, and nothing recognises what was there before.

### Records

**`AuditChain`**: `log_action` as lock, read of the head, stamp, commit; a direct writer as
stamp (at flush) and commit without the lock. The hash of a logged row covers its timestamp,
which stands for it. The hash of a direct row covers some of its contents only
(`api/alerts.py:88`: the alert, the status and the operator), so two such rows may share
one: `DirectHashes`. `VerifiedIntact` is what `verify_chain` computes.

**`WatchlistCache`**: `get_active_watchlist` as hit or miss, query, store; the endpoints as
change and invalidate. Time is discrete. `MaxIO` bounds the ticks between query and store.

**`AlertDedup`**: `trigger_alert_if_matched` for one plate and camera, called by the batch
worker and by the stream worker, whose sighting object is built with a fresh id and never
added to its session. `take_alert_action` sets any status. `crossed` is history: the pairs
of tasks that two workers had in hand at once.

**`EvidenceVault`**: `put_object` of both drivers (open-truncate then write, or replace),
the order in which a package is stored, the database row after it, and the read-extend-write
of the chain of custody. A crash sends all threads to `idle` and leaves files as they are.
`driver` is the one configured (`Drivers`): `get_storage` may fall back to another after a
restart, which is left out. `mixed` is history: the packages two requests worked on at once.

**`SchemaTables`, `Schema`**: the tables, as the migration creates them and as the entities
declare them, by their foreign keys and by whether they have the columns only the entities
know. A process imports `database.py` (which looks at the tables and then alters them one by
one, swallowing errors) and then runs `create_all`; another runs alembic up or down. Under
SQLite each DDL statement takes effect at once, under PostgreSQL with its transaction
(`transactional`, chosen at the start). `Schema` is about any tables: their references and
the three lists that are worked through are constants, of which `SchemaAssumption` asks that
each names every table once, that a table comes after those it refers to where it is
created, and before them where it is dropped. `SchemaTables` has the tables and lists of
this code, from which `MCRecords` takes the values, so TLC evaluates on them what the proofs
assume; and that the migration and the entities declare the same tables and references
(`MigrationMatchesEntities`).

**`SeedRows`, `Seeding`**: each script is the sequence of its steps, a step a query and a
commit. Scripts start in any order, two beside each other, and die anywhere; officers open
cases meanwhile. The rows are those of the code, each by its key and references. A script
has a number, which marks the rows it writes; `Drawn` gives the plate that `run_demo` draws
from the clock in it, any plate but that of the seed (two runs may draw the same). `scope`
says which processes run scripts in a behaviour, and how many.

**`Federation`**: a thread serves one request; the approver reads the row, decides, commits
(only changed columns), and then logs, which may raise. A feed is opened on what the check
read.

**`GovAdapter`**: `query` as the rebuild of the list of recent calls, the check, the guard,
the cache and the fetch, each a step; the bundle asks the adapters in order. A query is its
number and its time stamp, so that two of one second count as two; `admitted` is history.
The threads, the bundle and its limit are those of a deployment (`scope`).

### Cameras and dashboards

**`StreamPool`**: admission, registration, the connect semaphore, the reconnect loop with
its backoff, frames, and a client that leaves. `Close` is `close_stream`, which nothing
calls: it is in `Next`, so that the bound does not rest on its absence, and not in
`ServiceNext`.

**`CameraRegistry`**: `onboard_camera`, `record_camera_heartbeat` and
`validate_camera_lifecycle`. A report reads the camera, then its health row, and commits the
columns that differ from what it read; two reports may overlap (`crossed`). `ClockRead` is
false because `cameras.py` never imports `time`.

**`CameraGraph`**: `build_graph` statement by statement, because nothing guards the graph
and request threads share it; it reads the statuses `CameraRegistry` writes. An edge carries
the number of its build, as two builds make two objects for one pair.

**`Realtime`**: connections of one event loop, whose endpoints join and leave; a broadcast
takes a snapshot, sends to one client after another, and purges the dead. Each `await` ends
a step. An alert comes from an endpoint that awaits the broadcast or from `publish`, which
needs a running loop.

## 3. The runs

Deadlock checking is off everywhere: requests are bounded in number and need not arrive, so
a behaviour may end with all threads idle. Blocking is caught by `WorkerFinishes`,
`CallsReturn` and `OnlyOpposedCallsStall` instead.

| Run | Instance | Shows | States |
|---|---|---|---|
| `Ingest` | 2 threads, 4 sightings: one malformed, one refused by the database, one watchlisted with its own key; batch of 2, queue of 3, 1 transient error | `NoSightingLost`, `KeepsContract` | 19k |
| `IngestReplay` | 2 threads, 3 sightings, 2 replays, purges, 1 transient error, fairness | `TypeOK`, `MalformedIsolated`, `WorkerFinishes` | 242k |
| `ReplayLoses` | as above, 1 replay, no error | `ReplayRemovesRecovered` is violated | |
| `Bus` | 2 threads, an ANPR result with an id, a raw sighting without, an ANPR result whose key cannot be hashed, 2 publishes, 1 subscription, 1 replay, queue of 2, one group on both topics, fairness | `TypeOK`, `AtMostOnce`, `OffsetNotAhead`, `HandledOrQuarantined`, `CallsReturn` | 421k |
| `Services` | the parts below, one at a time | `TypesOK` | 3.4M |
| – audit | 3 threads of one process, 4 timestamps, direct rows all with the same contents | `NoFork`, `LinksSkipNoLoggedRow` | |
| – cache | 2 threads in one process, 1 in another, 2 changes, 3 ticks, lifetime 1 | `BoundedStaleness` | |
| – alerts | 2 workers, 2 detections of one incident (one with an id), both paths, 2 operator actions | `OneBatchAlertPerIncident`, `OneAlertPerSighting` | |
| – vault | either driver, 2 threads, 2 packages, 2 custody events, 2 crashes, 1 failed read | `RecordBacked`, `NoFalseAlarm`, `AccessInTrail`, `AppendOnly` | |
| – locks | 2 threads, 3 calls of every kind | `OnlyOpposedCallsStall` | |
| `LocksCross` | 2 threads, the calls that publishers and endpoints make | `NoCircularWait` is violated | |
| `Pipeline` | the parts below | `TypesOK` | 1.2M |
| – shared | 2 threads, 3 frames of a camera or uploaded, ids up to 3 | `VoteOfOneTrack`, `VoteInOneScene`, `VoteIsCurrent` | |
| – looped | 2 threads, 3 frames of a camera, time stamps that go back, gaps, resets by the reader | the same three | |
| – unstamped | 1 thread, 4 frames with and without a time stamp, and the above | the same three | |
| – faulty | 1 thread, 3 frames, 1 fault of Redis, 1 second, 1 restart | the same three | |
| – crowd | 1 thread, 3 frames of up to 2 vehicles | the same three | |
| – workers | 2 threads, 2 frames: a detection and a malformed one; one, one whose plate is no string and one more; queue of 2, 2 replays | `DetectionAccounted`, `OncePerDispatch` | |
| `UploadsMix` | uploads of two cameras | `VoteOfOneCamera` is violated | |
| `Records` | the parts below | `TypesOK` | 1.2M |
| – schema | 2 processes, 3 starts, crashes, under SQLite and under PostgreSQL | `NoDanglingReference`, `ServesWholeSchema` | |
| – seeds | 2 scripts together; 3 in a row with 7 other plates on the hotlist; killed anywhere | `SeedIsComplete`, `SerialScriptsTidy` | |
| – federation | 2 threads, 1 request, 2 decisions, a permit of 1, 2 ticks | `PermitHonoured` | |
| – registries | 1 thread at the boundary of a minute, 2 threads, a bundle of 2; a switch of mode | `WithinLimit`, `AnswerGuarded` | |
| `ResetLeaves` | one script after another | `ResetPurgesDemo` is violated | |
| `Cameras` | the parts below | `TypesOK` | 2.7M |
| – streams | 2 viewers, 3 cameras (one with an unsupported codec), limit of 1 stream and 1 permit, 4 requests | `OvershootBounded` | |
| – registry | 2 threads, a seeded camera and a new one of this host, 5 reports, restarts | `ReportInForce` | |
| – topology | 2 threads, 2 near cameras and an unknown id, 2 builds, 1 report | `TopologyOfOneReading`, `ReportInForce` | |
| – broadcasts | 3 connections, 2 alerts | `EveryClientServed` | |
| `AlertsUnsent` | the broadcasts alone | `AlertsAreBroadcast` is violated | |

`TypesOK` is the type invariant of all parts.

Why the bounds are enough. The hazards are about two actors and one shared object: two
threads, plus a third where it could slip between two others (audit). A batch of two is the
smallest in which one item spoils another; a queue of two or three overflows; two replays
let a replay meet what an earlier one left behind. In
`Bus` time stays below the limit of the idempotency record, as the property speaks of the
events inside it; `Expired` purges nothing there, and the mutant that purges live ids is the
case the property guards. Three ticks outlast the cache's lifetime plus one round trip.
Three frames are a track, its continuation and the first frame after a scene boundary, and
a fourth fits one without a time stamp in between; two threads clash over the counter of ids
with one frame each, and the third frame can vote with what they left;
`FramePipeline` votes over two samples, so that a third pushes one out. Three starts are a
process that dies, one that finds what it left and one beside it. Two builds of a graph
leave a trace of the first where the second forgets to clear; three connections are a dead
one between two live ones. What section 4 proves holds for every value of the constants.

Symmetry is used in `Services` (two threads of one process, wherever they are alike),
`Pipeline` (the two threads), `Records` (the processes and the threads) and `Cameras` (the
viewers, the cameras with a supported codec, the two of the graph, the threads). The
instances give alike elements the same role, and no run with symmetry checks liveness.

Fairness is weak fairness of a thread's own steps once a call was made (`FairSpec`): the
operating system runs a started request, and a lock or row that stays available is
eventually granted. Nothing obliges anybody to publish, replay or subscribe, and neither an
error nor a handler that raises is ever forced or ruled out. `WorkerFinishes` is checked for
payloads without a key of their own: with one, a replay can wait for a row whose owner waits
for the replay (section 5).

What the conditional properties mean:

* `KeepsContract` is for `IngestSpec`: an operator's replay or purge takes payloads out of
  the queue (section 5).
* `MalformedIsolated` speaks of behaviours in which the database refused nothing: then a
  malformed payload takes no other one with it, through batches and replays.
* `HandledOrQuarantined` and `DetectionAccounted` speak of the time before the first replay;
  a replay empties the queue (section 5).
* `AccessInTrail` and `AppendOnly` speak of the object store before the first failed read,
  and of packages whose requests took turns (not in `mixed`). The other cases fail (section
  5).
* `OneBatchAlertPerIncident` and `OneAlertPerSighting` speak of tasks no two workers had in
  hand at once (`crossed`); the stream path may add an alert to the batch path's.
* `OnlyOpposedCallsStall` speaks of groups of waiting threads no two of which make calls of
  `Opposed`: metrics and a replay of events, worker statistics and a replay of either kind.
  The second is a fact about `get_worker_stats`, which nothing in the repository calls yet.
  Without the condition it is `NoCircularWait`, which fails (`LocksCross`, section 5).
* `NoFork` and `LinksSkipNoLoggedRow` are for one process; `NoFork` leaves links to direct
  rows out.
* `VoteOfOneTrack` and `VoteInOneScene` look at the samples of the running process: track
  ids start again after a restart while Redis keeps the samples of the old ones for 30
  seconds. Both end when threads have clashed over the counter of ids (`clashed`): then two
  tracks of a stream can share an id, and vote together (section 5).
* `VoteInOneScene` compares samples of one `era`. A frame without a time stamp leaves
  `last_pts` empty, so a boundary right after it goes unnoticed, and two calls at once can
  carry a track over one; but what such an event spoils are votes that reach over it, and
  not those before or after. On streams with other frames only it speaks of all votes.
* `VoteIsCurrent` is for votes in which fewer than a window of samples came between a call's
  write and its read, and no fault, health check or tick of the clock.
* `ServesWholeSchema` is for a start no other one overlapped (`alone`), `SerialScriptsTidy`
  for scripts none overlapped. `SeedIsComplete` asks for the alert of the journey when
  nothing overlapped the seed or came after it, and it asks for the 26 departments only
  where no other script had written one before: seeding takes one department for all
  (section 5).
* `PermitHonoured` leaves out requests that two approvers decide at once, `WithinLimit`
  adapters that two threads use at once, `ReportInForce` cameras whose last report
  overlapped another, `TopologyOfOneReading` graphs whose build overlapped a request. The
  other cases fail (section 5).
* `AnswerGuarded` asks for guards only if mode and infrastructure stayed the same during the
  call.

Five runs are expected to fail.

* `ReplayLoses`: `replay_messages` ends with `self._dlq = remaining`
  (`stream_workers.py:94`), computed before the reprocessor ran, so a payload that a flush
  quarantines again during the replay is discarded, while `api/system.py:368` says "Removes
  successfully recovered events from the DLQ."
* `LocksCross`: `get_pipeline_metrics` calls `dlq_manager.size()` inside the bus lock
  (`event_bus.py:369`), and a replay of events takes the bus lock inside the DLQ lock; the
  two deadlock, against "without stalling real-time ingestion pipelines"
  (`stream_workers.py:21`). `get_worker_stats` (`stream_workers.py:220`) would deadlock with
  a replay in the same way.
* `UploadsMix`: `process_video_frame` passes no camera to `detect` (`api/analytics.py:54`),
  so uploads of all cameras are tracked as `CAM-01`, against "Multi-Object Tracking
  (ByteTrack per camera)" (`vision_pipeline.py:45`).
* `ResetLeaves`: the reset looks for `GJ01AB1234` in the titles of cases
  (`scripts/demo_reset.py:25`), the demonstration names its case after a plate it drew
  (`scripts/run_demo.py:74`, `:274`), against "Safely purges demonstration alerts,
  sightings, cases, and evidence" (`scripts/demo_reset.py:3`).
* `AlertsUnsent`: `publish` needs a running event loop to broadcast (`event_bus.py:246`) and
  ignores its absence; the watchlist worker and the anomaly engine publish from threads that
  have none, against "Real-time WebSocket broadcast for hotlist alerts"
  (`event_bus.py:243`).

## 4. What is proved

For every value of the constants that satisfies the modules' named assumptions, and for no
bound on how long a behaviour is. "With" names a hypothesis of the theorem.

| Theorem | Statement |
|---|---|
| `SightingIngestProofs!TypeCorrect` | `Spec => []TypeOK`, with replays and purges |
| `SightingIngestProofs!IngestLosesNothing` | `IngestSpec => []NoSightingLost` |
| `SightingIngestProofs!IngestKeepsContract` | `IngestSpec => KeepsContract` (`IngestSpec` implements `IngestContract`) |
| `SightingIngestProofs!ConversionErrorsIsolated` | `Spec => []MalformedIsolated`, with replays and purges |
| `EventBusProofs!TypeCorrect` | `Spec => []TypeOK` |
| `EventBusProofs!OffsetsNotAhead` | `Spec => []OffsetNotAhead` |
| `EventBusProofs!DispatchLosesNothing` | `Spec => []HandledOrQuarantined` |
| `EventBusProofs!HandledAtMostOnce` | with `MaxTime < Ttl`: `Spec /\ []RegisteredOnce => []AtMostOnce` |
| `AuditChainProofs!LockGivenBack` | `Spec => [](TypeOK /\ LockDiscipline)`, in any number of processes |
| `AuditChainProofs!LogNeverForks` | one process: `Spec => []NoFork` |
| `AuditChainProofs!LinksReachTheLastLoggedRow` | one process: `Spec => []LinksSkipNoLoggedRow` |
| `AuditChainProofs!LoggedChainVerifies` | one process: `LogSpec => []ChainVerifies` |
| `ServicesProofs!TypesKept` | `AnySpec => []TypesOK` |
| `ServicesProofs!RecordsBacked`, `NothingFalselyAlarmed` | `AnySpec => []RecordBacked`, `[]NoFalseAlarm` |
| `ServicesProofs!CustodyAppendOnly`, `AccessesInTrail` | `AnySpec => AppendOnly`, `[]AccessInTrail` |
| `ServicesProofs!StalenessBounded` | `AnySpec => []BoundedStaleness` |
| `ServicesProofs!BatchAlertsOnce`, `SightingAlertedOnce` | `AnySpec => []OneBatchAlertPerIncident`, `[]OneAlertPerSighting` |
| `ServicesProofs!OnlyOpposedCallsWait` | `AnySpec => []OnlyOpposedCallsStall` |
| `StreamPoolProofs!SlotsBounded`, `PoolTyped` | `Spec => []OvershootBounded`, `[]TypeOK` |
| `PipelineProofs!PipelineTyped` | `AnySpec => []TypesOK` |
| `PipelineProofs!VotesOfOneTrack`, `VotesAreCurrent`, `VotesInOneScene` | `AnySpec => []VoteOfOneTrack`, `[]VoteIsCurrent`, `[]VoteInOneScene` |
| `PipelineProofs!DetectionsAccounted`, `StoredOncePerDispatch` | `AnySpec => []DetectionAccounted`, `[]OncePerDispatch` |
| `CamerasProofs!TypesKept` | `AnySpec => []TypesOK` |
| `CamerasProofs!ReportsInForce` | `AnySpec => []ReportInForce` |
| `CamerasProofs!TopologySound` | `AnySpec => []TopologyOfOneReading` |
| `CamerasProofs!DashboardsServed` | `AnySpec => []EveryClientServed` |
| `RecordsProofs!RecordsTyped` | `AnySpec => []TypesOK` |
| `RecordsProofs!ReferencesSound`, `WholeSchemaServed` | `AnySpec => []NoDanglingReference`, `[]ServesWholeSchema` |
| `RecordsProofs!SeedCompletes`, `SerialScriptsLeaveNoOrphan` | `AnySpec => []SeedIsComplete`, `[]SerialScriptsTidy` |
| `RecordsProofs!PermitsHonoured` | `AnySpec => []PermitHonoured` |
| `RecordsProofs!LimitsKept`, `AnswersFreshAndGuarded` | `AnySpec => []WithinLimit`, `[]AnswerGuarded` |

The hypotheses. `MaxTime < Ttl`: the model's time ends before an idempotency record expires,
which is how `AtMostOnce` is meant. `RegisteredOnce`: no topic of an event with an id has a
handler twice; `subscribe` breaks it on a topic with aliases (section 5).

`Instances` collects what the parts of a composition assume of their constants. Beyond types
and bounds it asks, of `Pipeline`, for finitely many threads and for frames that list each
of their detections once; of `Records`, for the order of the lists of `Schema`, and that no
demonstration draws the seeded plate (`run_demo.py:74` makes plates `GJ01DM....`).

The arguments:

* *Types of ingestion.* `rounds \in 0..2` needs to know who is inside a replay: `HolderInv`
  ties the place of a thread to the holder of the DLQ lock.
* *No sighting lost.* When a batch ends its payloads stop being held, so the invariant must
  say what became of each one a thread has passed. `BatchInv`: it is flushed and pending, or
  stored, or quarantined, or pushed out of the queue, unless the session is poisoned, in
  which case the commit fails and the whole batch is quarantined; in the rollback branch,
  what was passed is secured. `PillSecures` and `CommitSecures` say that a push and a commit
  never un-secure anything, `OthersBatch` that other threads' batches are untouched.
* *The contract.* `IngestLosesNothing` says what a thread answers for; the refinement also
  needs that rows grow only for what is held, and never above one. A payload is in one place
  at a time, the buffer or one batch (`OnePlace`: `BufferOwn`, `BatchOwn`), pending once
  (`PendingOnce`), and has no row while it is still ahead in its batch (`AheadUnstored`).
* *Conversion errors.* `Clean`: as long as the database has refused nothing, no session is
  poisoned and no thread is in the rollback branch, so that only the conversion itself
  pushes; what a replay returns to the buffer has been counted before (`Seen`).
* *Offsets.* Reading an offset and committing it are two critical sections. `OffsetInv`:
  what a thread has read is below the number of events its group has handled on that topic,
  since the handler returned in between; so the commit of what was read plus one stays
  within it, however late it comes.
* *Dispatch.* A consumer owed an event has handled it, has its pill in the queue or pushed
  out of it, or is among those a thread is still to call (`Met`). `MetStays` says that a
  step which keeps deliveries and pills (`Keeps`) keeps that, if the one call the step makes
  ends in a delivery or a pill.
* *At most once.* While its record lives, an accepted id stays in `seen`, so one thread only
  dispatches it (`Sole`), and what that thread is still to call has not had it: the handler
  list has nobody twice, and a consumer leaves it when called.
* *Votes of one track.* A track does not come with its id, so it has to be shown that no two
  have the same one. Until threads clash over the counter, the tracks in use anywhere (in a
  tracker, a call, a sample of this run) are in a set of tracks with ids of their own, none
  beyond the counter (`Given`, `InUse`), and an id that a call has stored and not yet read
  is in nobody's hands (`Taking`). The samples under a key have the id of the key
  (`SamplesFiled`), hence its track. What the lists keep from an earlier run cannot be told
  apart, hence `OwnRun` in the property.
* *Votes are current.* Between its write and its read a call's sample stands `since` places
  before the end of the list that the read will choose (`SampleThere`), whatever other calls
  write behind it; with `since` below the window it is in the vote (`VoteHasFrame`).
* *Votes in one scene.* The calls on a stream have eras of their own, and the last time
  stamp is that of the youngest (`Eras`). No sample of a track that can still be matched, or
  whose plate is still to be read, is ahead of a call of its era (`NotAhead`, `Past`), so
  that each list is in media order within an era (`Ordered`); a boundary that is noticed
  forgets the tracks, and with them who could append to old lists, and one that is not
  begins a new era.
* *Detections accounted.* `DetectionAccounted` is not inductive alone: what a call still has
  to do are detections of its frame, each once, without the one in hand (`CallOrdered`). A
  detection leaves this list when it is published; a failure quarantines the frame.
* *Once per dispatch.* A dispatch pays for one carrier, a thread that has the detection in
  hand or still to do, or for one hand-over: `enqueued` plus the number of carriers is at
  most `dispatched` (`Paid`).
* *Links.* The head in hand is the hash of a row no logged row is younger than, or genesis
  when nothing was logged (`HandInv`); direct rows may be younger. With one lock for all
  threads only one of them has a head in hand when it commits (`OneInside`), so the new row
  is the youngest logged one and its link is the only one to look at.
* *No fork* follows from the links (`NoForkFromLinks`): of two blocks with the same link,
  the later one would have passed over the earlier. It takes that the hash of a logged row
  names one row, so it says nothing of links to direct rows.
* *The chain verifies* when nobody writes directly: the head in hand is the row just before
  the one to be written (`HeadInv`), and a younger row does not disturb older links
  (`YoungerRow`).
* *Evidence.* A package is stored in the order of its objects, so an ingestion at step `i`
  has placed those before `i` whole (`Placed`), and nothing but the chain of custody is
  opened again (`WholeStays`): at the row all of it is whole. The metadata comes last of the
  objects a verification looks for, so a package that is cut off has none and is reported
  missing, not corrupted.
* *Custody.* `CustodyInv` is about the object store, where a replacement is one step: a
  request that has read the trail carries it and its own event last (`Faithful`), for a
  package no other request is at work on; so what it writes extends what is there, and what
  it then records is in it.
* *Staleness.* A list that is cached, or in the hands of a thread, was current at some time
  since it was read (`Since`); a query takes `MaxIO` at most and a hit is younger than
  `Ttl`.
* *Alerts.* A task has one alert, and none while a worker has it in hand (`TasksInv`). An
  open alert of the batch path that a worker is about to raise stands alone in its incident
  (`Alone`), for tasks that nobody had in hand beside it (`crossed`), which the query that
  found nothing recent shows.
* *Locks.* What a call has left to do is of a fixed shape (`Whole`, `Enclosed`, `Doing`),
  from which can be read what it holds while it waits for what (`Nesting`, `WaitsInside`).
  Along a circle of waiting threads the locks go into the DLQ lock and out of it again, and
  the two calls that meet there are opposed (`AroundAndInside`).
* *Slots.* The bound itself is not inductive, as an admitted request takes its slot later.
  Inductive is the bound on the cameras that hold a slot or are about to (`ClaimInv`): an
  admission happens while fewer than `MaxActive` slots are taken and adds at most one camera
  per viewer.
* *Reports.* A request that is not `stale` has read what is in the tables (`Current`), so
  the columns it commits with those it leaves are what it reports (`CommitKeeps`).
* *Topology.* As long as no request overlapped a build (`~raced`) there is one builder, and
  its place says which part of the graph is from this reading: `BuildOK` for one under way,
  `Settled` when nobody builds.
* *Broadcast.* A client whose connection holds and whom an alert was meant for is still to
  be sent to, or has got it (`Underway`); it is never among the dead, so nobody purges it
  (`Unharmed`); one that has not joined is in no snapshot (`Newcomer`).

* *References.* A migration has created, or dropped, the places of its list that it has
  passed (`Passed`), and a downgrade has the database to itself (`Exclusive`); so what a
  process works on, the schema with its own transaction over it, is closed under references
  after each statement (`Closed`), and a commit, a crash and a statement that takes effect
  at once all leave one of the closed sets.
* *A whole schema.* A process that works alone carries what is missing in what it has left
  to do (`OnTheWay`): a look finds every missing table, or every late column that a table
  lacks, a statement removes one of these, and the end of `create_all` leaves none. It needs
  that the columns came first: a table `create_all` finds is whole after the
  synchronisation, and one it creates is whole at once.
* *A complete seed.* Each step to come has those it builds on done or before it in the
  script (`Leads`, `Prepared`), which holds too when `demo_seed` puts all of `seed_database`
  in front of what it has left. What a step that is done has left stays, since no script
  removes it (`Reached`, `Grown`), and a journey is committed as a whole, as all departments
  of the seed are, where there was none (`Sound`). Alerts are removed, by a reset: that of
  the journey is there (`Rung`) while the script that raised it, or found it, is the last
  that was started (`Latest`) and goes on to its last step (`Chained`).
* *Tidy scripts.* While nothing ran beside another, one script runs and what it has looked
  at is how things are (`Serial`); a step that looked for a row and found none then adds the
  only one (`Tidy`).
* *Permits.* Of a request decided one decision at a time, the row says what the last
  decision said (`RowOfLast`), because the row a thread has read is the row until another
  decision is committed (`ReadRow`). What a feed rests on is settled when access is checked;
  decisions are only ever added (`FeedsHonoured`).
* *The rate limit.* The list of an adapter that one thread asks at a time has every query
  that a window ending now can hold (`StampsKept`), so a query is admitted with room in its
  window. No window, early or late, holds more than the limit (`LimitKept`): a query that
  shares a window with the new one is at most `Window` older, so it is in the list that was
  counted, and a window without the new query does not change.
* *Guarded answers.* A thread past the check of a production adapter finds its
  infrastructure there, or something was switched during its call (`PastGuard`).

Every invariant that a passing run checks is proved for all values of the constants, and so
are `AppendOnly` and `KeepsContract`; the hypotheses above say which values or behaviours
they exclude. Only model-checked: liveness (`WorkerFinishes`, `CallsReturn`) and the
counterexamples of the runs that fail. Liveness and `ENABLED` are beyond the proof system,
and so is induction over data (what a recursive definition returns for every input): that
the lists `SchemaTables` computes are as `Schema` assumes is evaluated by TLC, for the one
database there is. The modules that are proved about use no recursive operators.

## 5. Promises the code does not keep

The modules state these too. Each was checked with the instance of section 3 changed as
shown, and TLC finds the behaviour described; no run repeats it.

| Property | Instance | What happens | What the documents say |
|---|---|---|---|
| `PoisonIsolated` | `Ingest` | one refused row poisons the session, the rest of the batch fails and is quarantined (`stream_workers.py:189`) | `stream_workers.py:195` "Isolate poison pill to DLQ without failing whole batch" |
| `KeepsContract` | `Ingest` with `Spec`, `MaxReplays = 1`, `Keyed <- None` | rows committed in mid-batch are quarantined with the batch (`:208`) and stored again by the replay | `docs/80K_SCALE_ASSUMPTIONS_AND_LIMITS.md:106` "do not create duplicate database sightings" |
| `WorkerFinishes` | `IngestReplay` with `Keyed <- M1`, `Hot <- None` | a replay waits for a row lock whose owner waits for the DLQ lock (`:71`) | `stream_workers.py:21` "without stalling real-time ingestion pipelines" |
| `TimelyFlush` | `IngestReplay` | nothing flushes a buffer below the threshold (`:127`) | `stream_workers.py:108` "up to 100 items per commit or 250ms intervals" |
| `OffsetNeverRewinds` | `Bus` with `MaxPublishes = 3`, no replay | `get_offset` and `commit_offset` are two critical sections (`event_bus.py:288`): a slow publisher moves the offset back | `docs/CHAOS_RECOVERY_REPORT.md:96` "OFFSET INTEGRITY" |
| `ReplayRecovers` | `Bus` | a replayed event with an id is ignored as a duplicate (`event_bus.py:226`), yet leaves the queue | `api/system.py:368` "Removes successfully recovered events from the DLQ." |
| `AtMostOnce` | `Bus` with `Keyed <- P123` | `subscribe` registers a handler twice on a topic with aliases (`event_bus.py:173`) | `event_bus.py:226` "prevent duplicate event processing" |
| `RecordedIsDispatched` | `Bus` with `BadKeys <- P1` | a publication whose partition key is no string raises after its id was recorded (`event_bus.py:232`); published again it is ignored as a duplicate | `event_bus.py:226` "prevent duplicate event processing" |
| `NoCircularWait` | `LocksCross` with `Calls` the worker statistics and the replay of sightings | `get_worker_stats` takes the DLQ lock inside the worker lock (`stream_workers.py:220`), a replay of sightings the worker lock inside the DLQ lock (`:71`) | `stream_workers.py:21` "without stalling real-time ingestion pipelines" |
| `VoteOfOneTrack` | `Pipeline`, shared, without the condition on `clashed` | two threads read one value of `STrack._count` (`bytetrack.py:36`), and their tracks have one id and vote together | `temporal_fusion.py:14` "temporal voting on OCR readings for a specific vehicle track" |
| `VoteInOneScene` | `Pipeline`, unstamped, without the condition on `era` | a frame without a time stamp empties `last_pts` (`bytetrack.py:138`), and the next one is of an earlier scene, yet continues the track | `bytetrack.py:129` "Scene loop boundary or severe temporal gap triggers clean state reset" |
| `DepartmentsSeeded` | `Records`, seeds | `db/seed`, `demo_seed` or `run_demo` left a department, so `seed_database` adds none (`seed_data.py:343`), and still logs "Initialized 26 departments" (`:729`) | `seed_data.py:232` "Seeds the database with all 26 departments" |
| `ChainVerifies` | `Services`, audit | a row written without `log_action` (`api/alerts.py:83`), committed between the read of the head and the insert, makes the next verification report tampering | `audit_service.py:3` "immutable Section 65B-compliant digital hash chains" |
| `NoForkAtAll` | `Services`, audit | the same operator gives the same alert the same status twice: two direct rows with one hash (`api/alerts.py:88`), each followed by a logged row that links to it | `audit_service.py:54` "Thread-safe to prevent branching forks" |
| `NoFork` | `Services`, audit, with two threads in two processes | each process has its own lock (`audit_service.py:16`) and `k8s/06-givin-api.yaml:25` runs three | `audit_service.py:54` "Thread-safe to prevent branching forks" |
| `InvalidationEffective` | `Services`, cache, with two threads of one process, `Ttl <- 2` | a list queried before the change is stored after the invalidation (`watchlist_matcher.py:54`) | `docs/RELEASE_CANDIDATE_VERIFICATION.md:83` "in-memory watchlist caching with invalidation" |
| `OneAlertPerIncident` | `Services`, alerts | the stream path's alert refers to a sighting that is never stored (`stream_workers.py:451`), so the join misses it | `docs/CHAOS_RECOVERY_REPORT.md:101` "NO DUPLICATE CRITICAL ALERTS" |
| `OneBatchAlertPerIncident` | `Services`, alerts, without the condition on `crossed` | both look for a recent alert before either inserts (`watchlist_matcher.py:88`) | as above |
| `AppendOnly` | `Services`, vault, without the condition on `driver` | the local driver truncates the trail before it writes it (`local_storage.py:34`); after a crash the next event starts a new one | `docs/RELEASE_CANDIDATE_VERIFICATION.md:83` "append-only custody logging" |
| `AccessInTrail` | `Services`, vault, without the condition on `mixed` | two appends read the same trail (`evidence_vault.py:186`) and one is lost | `docs/LLD.md:187` "tracks every access, export, or status change" |
| `LimitHeld` | `Cameras`, streams | check and registration are two critical sections (`sentinel_stream.py:197`) | `docs/LLD.md:258` "bounded by `MAX_ACTIVE_CAMERA_STREAMS`" |
| `BackoffEarned` | `Cameras`, streams | the delay is reset when the capture opens (`sentinel_stream.py:232`), before any frame | `docs/LLD.md:243` "upon successful stream re-acquisition and frame delivery" |
| `SlotsReclaimed` | `Cameras`, streams, with `ServiceSpec`, one viewer, two cameras, none unsupported | when the client leaves, nothing calls `close_stream` (`sentinel_stream.py:306`) | `sentinel_stream.py:155` "Closes unused captures to obey load pacing." |

These were read in the code while modelling it, and stand in the models as what the code
does; conditions of the properties in section 3 leave them out, or no property is about
them:

* The object store answers a failed read as "no object" (`minio_storage.py:80`), so the next
  custody event replaces the whole trail. `is_duplicate` reads the clock before its lock
  (`event_bus.py:155`), so a late thread can record an old time over a newer one and shorten
  the limit.
* Fusion: a restart gives out the track ids again while Redis keeps the samples of the old
  tracks; the fallback appends to an expired list (`redis_client.py:127`); after one failed
  `health_check` Redis is not used again. Two threads on one camera can carry a track over a
  scene boundary; so can a frame without a time stamp, or an upload if a camera of the
  worker is named `CAM-01`.
* Workers: an exception of the detector is logged and the frame counts as empty; so is a
  failed watchlist match.
* Schema: `sync_schema_columns` swallows errors; `alembic upgrade` fails on a database made
  by `create_all`, and under SQLite on one left by an upgrade that stopped.
* Seeds: when `demo_seed` or `db/seed` ran first, seeding finds departments and adds none,
  so the cameras get whichever is first; a hotlist with seven plates of any kind counts as
  seeded; of two servers that boot at once the second raises on a unique key or doubles the
  hotlist; entries for drawn plates stay after a reset; linking a sighting while a reset
  runs leaves an orphan.
* Federation: of two decisions at once one is lost, namely one whose verdict equals the
  status its approver read; nothing sets `EXPIRED`; an open feed is not checked again; the
  audit row follows the commit and may fail (`federation.py:154`).
* Adapters: cache hits count against the limit; the list of recent calls is rebuilt without
  a lock; the cache key does not name the mode and `set_mode` does not clear it; one
  adapter's limit fails the whole bundle.
* Registry: validation never measures (`cameras.py:171` needs `time`), so a validated camera
  is `UNCONFIGURED` though `docs/DEMO_TRUTH_AND_SOURCE_PROVENANCE.md:73` says it is
  measured; for a URL of this host, or with none, it raises after binding the camera; an
  `OFFLINE` heartbeat leaves a camera bound; onboarding reports `ONLINE` unmeasured;
  overlapping reports mix.
* Graph: nothing refreshes it when a status changes; two builds at once lose or double links
  for good.
* Broadcast: two alerts may reach clients in different orders; a scheduled task is
  referenced by nobody.

## 6. What is not modelled

Inside modelled components: metadata of quarantined messages, counters that nothing reads,
the history deque and the broker probe of the bus, the numbers of partitions, the mandatory
remark of an alert action, hashing and signing (a whole object has its hash), presigned
URLs, frame timing and burst detection, the character vote of the fusion, boxes and their
overlap, telemetry other than the status of a camera, distances and weights of the graph,
what a registry answers. Matching a plate is the identity of an entry.

Left out:

* networks and image processing (`anpr_engine.py`, `plate_detector.py`,
  `plate_preprocessor.py`): floating-point functions of one image; the vision pipeline
  around them is modelled;
* journeys, anomalies, containment, spatial queries: they read rows and compute with
  floating-point coordinates; what they write, an alert, `AlertDedup` and `AuditChain` model
  from elsewhere;
* connectors, the RTSP and GSWAN clients: network calls whose outcome is a choice in
  `StreamPool`;
* identity and access control: predicates over one request, and rate windows of the kind
  `GovAdapter` has;
* the camera catalogue: an insert-if-missing of the kind `Seeding` has;
* upload and search endpoints, system health and calculators: no state of their own;
* cases beyond their creation and their evidence: single inserts;
* configuration, telemetry, benchmarks, load generators, tests, deployment and the frontend.

## 7. Plan

Order of importance: what loses or duplicates sightings first, then what deadlocks, then the
records that must be trusted, then resources. The modules of section 2 and the proofs of
section 4 are done. What a next step would take up:

* *Shared processes.* `AuditChain` proves its forks absent for one process only, and with
  more they happen (section 5); a lock in the database would be modelled and proved next.
* *Overlaps.* `PermitHonoured`, `WithinLimit`, `ReportInForce` and the alerts leave out what
  two threads do at once; when the code closes these gaps, the conditions go and the
  invariants of section 4 have to carry them.
* *Journeys and anomalies* read what is proved of sightings and alerts; a model of what they
  select from the rows would rest on it.

Runs are kept to a dozen: a new component joins the composition whose parts it resembles.
