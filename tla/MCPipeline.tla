----------------------------- MODULE MCPipeline -----------------------------
(* Instances of Pipeline for TLC. *)
EXTENDS Pipeline, TLC

CONSTANTS
  t1, t2, c1, u1, u2, CAM01, f1, f2, d1, d2, d3, d4, d5

TwoThreads == {t1, t2}
ThreeCameras == {c1, u1, u2}
Uploaded == {u1, u2}
TwoStreams == {c1, CAM01}
KeysToFour == TwoStreams \X (0 .. 4)

\* Two threads, three frames of a camera or uploaded.
Shared == [threads |-> {t1, t2}, cameras |-> {c1, u1}, pts |-> {1}, resets |-> FALSE,
           detections |-> 1, ids |-> 3, frames |-> 3, time |-> 0, faults |-> 0,
           restarts |-> 0]

\* Two threads, one camera: time stamps that go back, gaps and a reader's resets.
Looped == [Shared EXCEPT !.cameras = {c1}, !.pts = {1, 2}, !.resets = TRUE]

\* One thread, four calls, with and without a time stamp.
Unstamped == [Looped EXCEPT !.threads = {t1}, !.pts = {0, 1, 2}, !.ids = 4, !.frames = 4]

\* One thread, three frames of a camera, one fault of Redis and one restart.
Faulty == [Unstamped EXCEPT !.resets = FALSE, !.ids = 3, !.frames = 3, !.time = 1,
                            !.faults = 1, !.restarts = 1]

\* One thread, three frames with up to two vehicles each.
Crowd == [Shared EXCEPT !.threads = {t1}, !.cameras = {c1}, !.detections = 2, !.ids = 4]

\* Uploads of two cameras.
UploadsOf == [Shared EXCEPT !.threads = {t1}, !.cameras = {u1, u2}, !.ids = 2,
                            !.frames = 2]

FiveScopes == {Shared, Looped, Unstamped, Faulty, Crowd}
UploadScope == {UploadsOf}

\* d2 is malformed and follows d1 in its frame; the plate of d4 is no string, and d5
\* comes after it.
TwoFrames == {f1, f2}
TwoEach == (f1 :> <<d1, d2>>) @@ (f2 :> <<d3, d4, d5>>)
Mangled == {d2}
Unreadable == {d4}

\* t1 and t2 are alike wherever both appear.
Alike == Permutations({t1, t2})
=============================================================================
