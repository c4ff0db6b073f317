------------------------------- MODULE Tracker -------------------------------
(***************************************************************************)
(* ByteTracker and TrackerPool (services/bytetrack.py): one tracker per     *)
(* camera, and one counter of track ids for all of them.                    *)
(*                                                                         *)
(* Boxes are abstracted: which detection overlaps which track is any        *)
(* partial matching, so association is the choice of the tracks that are    *)
(* matched.  A track that is not matched is lost: it leaves the list, and   *)
(* is never matched again, so the lost tracks and their clean-up are left   *)
(* out.                                                                    *)
(*                                                                         *)
(* A track is the detection it began as: the `nth` of frame `no` in process *)
(* `run`; its id is what it read from the counter.  The counter is a class  *)
(* attribute that every thread adds to without a lock: it is loaded, stored *)
(* one higher, and read again for the id, and another thread may come in    *)
(* between.                                                                 *)
(***************************************************************************)
EXTENDS Naturals, FiniteSets

CONSTANTS
  Streams        \* the camera ids frames are tracked under

NoPts == 0       \* a frame without a presentation timestamp

VARIABLES
  tracked,       \* tracked_stracks of each tracker
  lastPts,       \* last_pts
  count,         \* STrack._count
  run,           \* history: how often the process has started
  clashed        \* history: an increment was lost, or another's was read for an id

trackerVars == <<tracked, lastPts, count, run, clashed>>

TrackerInit ==
  /\ tracked = [c \in Streams |-> {}]
  /\ lastPts = [c \in Streams |-> NoPts]
  /\ count = 0
  /\ run = 1
  /\ clashed = FALSE

\* Mutant of ResetCamera: the counter starts again with the tracks of one camera.
ResetCameraAndCount(c) ==
  /\ tracked' = [tracked EXCEPT ![c] = {}]
  /\ lastPts' = [lastPts EXCEPT ![c] = NoPts]
  /\ count' = 0
  /\ UNCHANGED <<run, clashed>>

\* reset_camera: called by the stream of the camera when its scene starts again.
ResetCamera(c) ==
  /\ tracked' = [tracked EXCEPT ![c] = {}]
  /\ lastPts' = [lastPts EXCEPT ![c] = NoPts]
  /\ UNCHANGED <<count, run, clashed>>

\* Mutant of SceneRestarted: only the stream that reads the camera notices.
SceneRestartedElsewhere(c, pts) == FALSE

\* The time stamp went back.
SceneRestarted(c, pts) == pts # NoPts /\ lastPts[c] # NoPts /\ pts < lastPts[c]

\* The first part of `update`; `gap` says that pts_delta is above its limit.
BeginUpdate(c, pts, gap) ==
  /\ tracked' = IF SceneRestarted(c, pts) \/ gap THEN [tracked EXCEPT ![c] = {}]
                ELSE tracked
  /\ lastPts' = [lastPts EXCEPT ![c] = pts]
  /\ UNCHANGED <<count, run, clashed>>

\* STrack._count += 1, its store: `seen` was loaded before.
StoreCount(seen) ==
  /\ count' = seen + 1
  /\ clashed' = (clashed \/ count # seen)
  /\ UNCHANGED <<tracked, lastPts, run>>

\* self.track_id = STrack._count, for the `nth` detection of frame `no`.
NewTrack(no, nth) == [id |-> count, run |-> run, no |-> no, nth |-> nth]
TakeCount(seen) ==
  /\ clashed' = (clashed \/ count # seen + 1)
  /\ UNCHANGED <<tracked, lastPts, count, run>>

\* The rest of `update`: the tracks of `pool` not in `matched` are lost; of the detections
\* `made`, those that match a track start none, and those of low confidence neither.
FinishUpdate(c, pool, made, matched, new) ==
  /\ matched \subseteq pool
  /\ new \subseteq made
  /\ Cardinality(matched) + Cardinality(new) <= Cardinality(made)
  /\ tracked' = [tracked EXCEPT ![c] = matched \union new]
  /\ UNCHANGED <<lastPts, count, run, clashed>>

\* The process starts again: trackers and ids are gone.
RestartTrackers ==
  /\ tracked' = [c \in Streams |-> {}]
  /\ lastPts' = [c \in Streams |-> NoPts]
  /\ count' = 0
  /\ run' = run + 1
  /\ clashed' = FALSE
=============================================================================
