------------------------------ MODULE Pipeline ------------------------------
(***************************************************************************)
(* The way of a frame, one component at a time: from its pixels to a fused *)
(* plate (FramePipeline) and through the workers of the event bus          *)
(* (WorkerPipeline).  `part` is the one that runs; the variables of the     *)
(* other stay Off.                                                         *)
(***************************************************************************)
EXTENDS Naturals, Sequences, FiniteSets

CONSTANTS
  Threads, NoThread,
  Cameras, Default, Uploads, Streams, Keys, Ttl, Window, MaxId, Scopes,
                                                                \* of FramePipeline
  Frames, Detections, Malformed, BadPlates, Unseen, DlqMax, MaxReplays,
                                                                \* of WorkerPipeline
  Off   \* the value of a variable of a component that does not run

VARIABLES
  part,
  scope, tracked, lastPts, count, run, clashed, now, up, connected, redis,
  fallback, expires, job, frames, faults, era,                  \* FramePipeline
  call, dlq, dlqHolder, replayTodo, replays, enqueued, published, found,
  dispatched, evicted                                           \* WorkerPipeline

frameVars == <<scope, tracked, lastPts, count, run, clashed, now, up, connected,
               redis, fallback, expires, job, frames, faults, era>>
workerVars == <<call, dlq, dlqHolder, replayTodo, replays, enqueued, published,
                found, dispatched, evicted>>
allVars == <<part, frameVars, workerVars>>

Fusion == INSTANCE FramePipeline
Workers == INSTANCE WorkerPipeline

ASSUME Instances ==
  /\ Fusion!FrameAssumption /\ Workers!WorkerAssumption
  /\ DlqMax \in Nat \ {0} /\ IsFiniteSet(Threads)

FramesOff ==
  /\ scope = Off /\ tracked = Off /\ lastPts = Off /\ count = Off
  /\ run = Off /\ now = Off /\ up = Off /\ connected = Off /\ redis = Off
  /\ fallback = Off /\ expires = Off /\ job = Off /\ frames = Off /\ faults = Off
  /\ era = Off /\ clashed = Off
WorkersOff ==
  /\ call = Off /\ dlq = Off /\ dlqHolder = Off /\ replayTodo = Off /\ replays = Off
  /\ enqueued = Off /\ published = Off /\ found = Off /\ dispatched = Off
  /\ evicted = Off

AnyInit ==
  \/ part = "frames" /\ Fusion!Init /\ WorkersOff
  \/ part = "workers" /\ Workers!Init /\ FramesOff

AnyNext ==
  \/ part = "frames" /\ Fusion!Next /\ UNCHANGED <<part, workerVars>>
  \/ part = "workers" /\ Workers!Next /\ UNCHANGED <<part, frameVars>>

AnySpec == AnyInit /\ [][AnyNext]_allVars
-----------------------------------------------------------------------------
\* The types of each component (FramePipeline, WorkerPipeline).
TypesOK ==
  /\ part = "frames" => Fusion!TypeOK
  /\ part = "workers" => Workers!TypeOK

\* Within one run of the process no two tracks vote together (temporal_fusion.py:14).
VoteOfOneTrack == part = "frames" => Fusion!VoteOfOneTrack

\* No vote reaches over a scene boundary (bytetrack.py:129).
VoteInOneScene == part = "frames" => Fusion!VoteInOneScene

\* The new sample takes part in the vote it causes (temporal_fusion.py:53).
VoteIsCurrent == part = "frames" => Fusion!VoteIsCurrent

\* A failure half way through a frame or below it loses no detection.
DetectionAccounted == part = "workers" => Workers!DetectionAccounted

\* A detection is stored at most once for each dispatch of an event above it.
OncePerDispatch == part = "workers" => Workers!OncePerDispatch

\* "Multi-Object Tracking (ByteTrack per camera)" (vision_pipeline.py:45): votes are
\* of one camera.
VoteOfOneCamera == part = "frames" => Fusion!VoteOfOneCamera
=============================================================================
