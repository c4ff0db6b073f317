---------------------------- MODULE FramePipeline ----------------------------
(***************************************************************************)
(* From a frame to a fused plate (services/vision_pipeline.py, detect, and  *)
(* services/temporal_fusion.py): vehicles are tracked, the plate of each    *)
(* track is read and added to the samples of the track, and the last        *)
(* samples vote.  Threads share the trackers and the sample store.          *)
(*                                                                         *)
(* A frame comes from the vision worker, tracked under the id of its        *)
(* camera and with the time stamp of the event if it has one, or from an    *)
(* upload (api/analytics.py), which passes neither: all uploads are tracked *)
(* under the default id.  Readings are abstracted: what a vote is about is  *)
(* which samples take part.                                                 *)
(*                                                                         *)
(* The bounds of a behaviour are its `scope`, chosen at the start, so that  *)
(* one instance can look at several small worlds of different shapes.       *)
(***************************************************************************)
EXTENDS Tracker, SampleStore

CONSTANTS
  Threads,
  Cameras,         \* cameras frames show; the streams of the worker are Cameras
  Default,         \* camera_id: str = "CAM-01"
  Uploads,         \* the cameras whose frames are uploaded
  Window,          \* window_size
  MaxId,           \* bound: track ids
  Scopes           \* bounds: threads, cameras, time stamps, whether trackers are reset,
                   \* detections in a frame, ids, frames, seconds, faults and restarts

Bounds == [threads : SUBSET Threads, cameras : SUBSET Cameras, pts : SUBSET Nat,
           resets : BOOLEAN, detections : Nat, ids : 0 .. MaxId, frames : Nat,
           time : Nat, faults : Nat, restarts : Nat]

FrameAssumption ==
  /\ Uploads \subseteq Cameras
  /\ Streams = (Cameras \ Uploads) \union {Default}
  /\ Keys = Streams \X (0 .. MaxId)
  /\ Window \in Nat \ {0} /\ Ttl \in Nat
  /\ MaxId \in Nat /\ \A s \in Scopes : s \in Bounds

VARIABLES
  scope,           \* the bounds of this behaviour
  job,             \* the frame each thread is processing
  frames, faults,  \* calls and faults so far
  era              \* history: how often the media order of each stream came in
                   \* doubt, by a frame without a time stamp or two calls at once

vars == <<scope, trackerVars, storeVars, job, frames, faults, era>>

\* A thread without a frame.  `since` is history: how many samples have joined the
\* list after its own, Window or more when the store has changed since.
Idle == [pc |-> "idle", no |-> 0, key |-> Default, camera |-> Default, pts |-> NoPts,
         era |-> 0, made |-> {}, seen |-> 0, pool |-> {}, todo |-> {},
         track |-> [id |-> 0, run |-> 0, no |-> 0, nth |-> 0], vote |-> <<>>, since |-> 0]

Init ==
  /\ scope \in Scopes
  /\ TrackerInit /\ StoreInit
  /\ job = [t \in Threads |-> Idle]
  /\ frames = 0 /\ faults = 0
  /\ era = [c \in Streams |-> 0]

Busy(key) == {t \in Threads : job[t] # Idle /\ job[t].key = key}
Set(t, j) == job' = [job EXCEPT ![t] = j]

\* The eras after a frame with this time stamp.
Doubt(key, pts) ==
  [era EXCEPT ![key] = IF pts = NoPts \/ Busy(key) # {} THEN @ + 1 ELSE @]

\* `detect` up to the detections of the update: a frame in which no vehicle is found
\* gets a synthetic one.
Detect(t, camera, key, pts, gap) ==
  /\ job[t] = Idle
  /\ frames < scope.frames
  /\ frames' = frames + 1
  /\ BeginUpdate(key, pts, gap)
  /\ era' = Doubt(key, pts)
  /\ Set(t, [Idle EXCEPT !.pc = "update", !.no = frames + 1, !.key = key,
                          !.camera = camera, !.pts = pts, !.era = era'[key]])
  /\ UNCHANGED <<storeVars, faults>>

\* The vision worker, with the camera of the event, and its time stamp if it has one.
DetectFrame(t, camera, pts, gap) ==
  camera \notin Uploads /\ Detect(t, camera, camera, pts, gap)

\* process_video_frame awaits nothing while it detects: one upload at a time.
Uploading == \E u \in Threads : job[u] # Idle /\ job[u].camera \in Uploads
DetectUpload(t, camera) ==
  camera \in Uploads /\ ~Uploading /\ Detect(t, camera, Default, NoPts, FALSE)

\* STrack(), for each detection: the counter is loaded, stored and read.
LoadId(t) ==
  /\ job[t].pc = "update"
  /\ Cardinality(job[t].made) < scope.detections
  /\ Set(t, [job[t] EXCEPT !.pc = "store", !.seen = count])
  /\ UNCHANGED <<trackerVars, storeVars, frames, faults, era>>

StoreId(t) ==
  /\ job[t].pc = "store"
  /\ job[t].seen < scope.ids
  /\ StoreCount(job[t].seen)
  /\ Set(t, [job[t] EXCEPT !.pc = "take"])
  /\ UNCHANGED <<storeVars, frames, faults, era>>

TakeId(t) ==
  /\ job[t].pc = "take"
  /\ TakeCount(job[t].seen)
  /\ LET new == NewTrack(job[t].no, Cardinality(job[t].made) + 1)
     IN Set(t, [job[t] EXCEPT !.pc = "update", !.made = @ \union {new}, !.seen = 0])
  /\ UNCHANGED <<storeVars, frames, faults, era>>

\* All detections have an id: the tracks they may match are read.
ReadPool(t) ==
  /\ job[t].pc = "update" /\ job[t].made # {}
  /\ Set(t, [job[t] EXCEPT !.pc = "match", !.pool = tracked[job[t].key]])
  /\ UNCHANGED <<trackerVars, storeVars, frames, faults, era>>

Associate(t) ==
  /\ job[t].pc = "match"
  /\ \E matched \in SUBSET job[t].pool, new \in SUBSET job[t].made :
       /\ FinishUpdate(job[t].key, job[t].pool, job[t].made, matched, new)
       /\ Set(t, [job[t] EXCEPT !.pc = "plates", !.todo = matched \union new,
                                !.pool = {}, !.made = {}])
  /\ UNCHANGED <<storeVars, frames, faults, era>>

\* No plate is found on the vehicle, or none can be read.
SkipTrack(t, k) ==
  /\ job[t].pc = "plates" /\ k \in job[t].todo
  /\ Set(t, [job[t] EXCEPT !.todo = @ \ {k}])
  /\ UNCHANGED <<trackerVars, storeVars, frames, faults, era>>

\* plate_fusion:{camera_id}:{track_id}
SampleKey(j, k) == <<j.key, k.id>>

\* The calls that have written to a list and not yet read it.
Waiting(key) ==
  {u \in Threads : job[u].pc = "fuse" /\ SampleKey(job[u], job[u].track) = key}

\* add_sample_and_fuse, its write
AddSample(t, k) ==
  /\ job[t].pc = "plates" /\ k \in job[t].todo
  /\ LET sample == [track |-> k, camera |-> job[t].camera, pts |-> job[t].pts,
                    no |-> job[t].no, era |-> job[t].era]
         key == SampleKey(job[t], k)
         mine == [job[t] EXCEPT !.pc = "fuse", !.todo = @ \ {k}, !.track = k,
                                !.vote = <<>>, !.since = 0]
     IN /\ \/ Record(key, sample) /\ UNCHANGED faults
           \/ faults < scope.faults /\ RecordTwice(key, sample) /\ faults' = faults + 1
        /\ job' = [u \in Threads |->
                     IF u = t THEN mine
                     ELSE IF u \in Waiting(key) THEN [job[u] EXCEPT !.since = @ + 1]
                     ELSE job[u]]
  /\ UNCHANGED <<trackerVars, frames, era>>

\* Mutant of Recent: the window takes the oldest samples.
RecentFirst(samples) ==
  SubSeq(samples, 1, IF Len(samples) < Window THEN Len(samples) ELSE Window)

\* samples[-window_size:]
Recent(samples) ==
  SubSeq(samples, IF Len(samples) > Window THEN Len(samples) - Window + 1 ELSE 1,
         Len(samples))

\* add_sample_and_fuse, its read and the vote; one sample is no vote.
Fuse(t) ==
  /\ job[t].pc = "fuse"
  /\ LET key == SampleKey(job[t], job[t].track)
     IN /\ Read(key)
        /\ Set(t, [job[t] EXCEPT !.pc = "plates",
                                 !.vote = IF Len(Samples(key)) <= 1 THEN <<>>
                                          ELSE Recent(Samples(key))])
  /\ UNCHANGED <<trackerVars, frames, faults, era>>

\* The frame is done, or a stage raised.
EndFrame(t) ==
  /\ job[t].pc = "plates"
  /\ Set(t, Idle)
  /\ UNCHANGED <<trackerVars, storeVars, frames, faults, era>>
-----------------------------------------------------------------------------
\* A reader of the camera saw its time stamps go back.
ResetScene(camera) ==
  /\ camera \notin Uploads /\ scope.resets
  /\ frames < scope.frames /\ frames' = frames + 1
  /\ ResetCamera(camera)
  /\ era' = IF Busy(camera) = {} THEN era ELSE [era EXCEPT ![camera] = @ + 1]
  /\ UNCHANGED <<storeVars, job, faults>>

\* Redis changes under the calls that are between their write and their read.
Fault(change) ==
  /\ change
  /\ job' = [t \in Threads |-> IF job[t].pc = "fuse" THEN [job[t] EXCEPT !.since = Window]
                               ELSE job[t]]
  /\ UNCHANGED <<trackerVars, frames, era>>

Restart ==
  /\ run <= scope.restarts
  /\ RestartTrackers /\ RestartStore
  /\ job' = [t \in Threads |-> Idle]
  /\ era' = [c \in Streams |-> 0]
  /\ UNCHANGED <<frames, faults>>

Step ==
  \/ \E t \in scope.threads :
       \/ \E camera \in scope.cameras, pts \in scope.pts, gap \in {FALSE, scope.resets} :
            DetectFrame(t, camera, pts, gap)
       \/ \E camera \in scope.cameras : DetectUpload(t, camera)
       \/ LoadId(t) \/ StoreId(t) \/ TakeId(t) \/ ReadPool(t) \/ Associate(t)
       \/ Fuse(t) \/ EndFrame(t)
       \/ \E k \in job[t].todo : SkipTrack(t, k) \/ AddSample(t, k)
  \/ \E camera \in scope.cameras : ResetScene(camera)
  \/ Fault((RedisFails \/ RedisReturns) /\ faults < scope.faults /\ faults' = faults + 1)
  \/ Fault(HealthCheck /\ UNCHANGED faults)
  \/ Fault(Tick /\ now < scope.time /\ UNCHANGED faults)
  \/ Restart

Next == Step /\ UNCHANGED scope

Spec == Init /\ [][Next]_vars
-----------------------------------------------------------------------------
(* Properties *)

Tracks == [id : 0 .. MaxId, run : Nat \ {0}, no : Nat, nth : Nat]
SampleRecords == [track : Tracks, camera : Cameras, pts : Nat, no : Nat, era : Nat]
Jobs == [pc : {"idle", "update", "store", "take", "match", "plates", "fuse"}, no : Nat,
         key : Streams, camera : Cameras \union {Default}, pts : Nat, era : Nat,
         made : SUBSET Tracks, seen : 0 .. MaxId, pool : SUBSET Tracks,
         todo : SUBSET Tracks, track : [id : 0 .. MaxId, run : Nat, no : Nat, nth : Nat],
         vote : Seq(SampleRecords), since : Nat]

\* Every variable keeps its type.
TypeOK ==
  /\ scope \in Scopes
  /\ tracked \in [Streams -> SUBSET Tracks]
  /\ lastPts \in [Streams -> Nat]
  /\ count \in 0 .. scope.ids /\ run \in Nat \ {0} /\ clashed \in BOOLEAN
  /\ now \in Nat /\ up \in BOOLEAN /\ connected \in BOOLEAN
  /\ redis \in [Keys -> Seq(SampleRecords)] /\ fallback \in [Keys -> Seq(SampleRecords)]
  /\ expires \in [{"redis", "fallback"} -> [Keys -> Nat]]
  /\ job \in [Threads -> Jobs]
  /\ frames \in Nat /\ faults \in Nat
  /\ era \in [Streams -> Nat]

\* Where the samples of the vote stand that the running process recorded.
OwnRun(t) == {i \in 1 .. Len(job[t].vote) : job[t].vote[i].track.run = job[t].track.run}

\* "temporal voting on OCR readings for a specific vehicle track": within one run
\* of the process no two tracks vote together, whatever the resets, the losses, the
\* order in which threads take ids and the store's faults, as long as the unguarded
\* counter loses no increment and is not read for another's.
VoteOfOneTrack ==
  ~clashed => \A t \in Threads : \A i \in OwnRun(t) : job[t].vote[i].track = job[t].track

\* "Scene loop boundary ... triggers clean state reset": the samples of a vote are in
\* media order, so that it reaches over no boundary, from one frame without a time
\* stamp or pair of overlapping frames of the stream to the next.
VoteInOneScene ==
  ~clashed =>
    \A t \in Threads : \A i, j \in OwnRun(t) :
      LET vote == job[t].vote
      IN i < j /\ vote[i].era = vote[j].era => vote[i].pts <= vote[j].pts

\* A vote is about the frame it is for: the new sample takes part unless a window of
\* samples has come after it, or Redis or the clock has changed, before the read.
VoteIsCurrent ==
  \A t \in Threads :
    job[t].vote # <<>> /\ job[t].since < Window =>
      \E i \in OwnRun(t) : job[t].vote[i].no = job[t].no

\* "Multi-Object Tracking (ByteTrack per camera)": the samples of a vote are of
\* frames of one camera.  The code does not keep this one: uploads are tracked
\* under one id, whatever camera they are of.
VoteOfOneCamera ==
  \A t \in Threads : \A i \in OwnRun(t) : job[t].vote[i].camera = job[t].camera
=============================================================================
