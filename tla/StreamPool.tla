----------------------------- MODULE StreamPool -----------------------------
(***************************************************************************)
(* The camera stream gateway (services/sentinel_stream.py): load pacing,   *)
(* connection permits, reconnection with backoff and the health state of   *)
(* each stream.  A viewer is a request for a live stream (api/cameras.py)  *)
(* served through services/feed_connector.py; a camera may have several.   *)
(*                                                                         *)
(* Frames are not modelled beyond their arrival.  States recorded one      *)
(* after the other with nothing in between are one step.                   *)
(***************************************************************************)
EXTENDS Naturals, FiniteSets

CONSTANTS
  Viewers,
  Cameras,
  Unsupported,    \* cameras whose codec is not supported
  MaxActive,      \* MAX_ACTIVE_CAMERA_STREAMS
  MaxConnect,     \* MAX_CONNECT_CONCURRENCY
  MaxRequests     \* bound: requests for streams

ASSUME PoolAssumption ==
  /\ IsFiniteSet(Viewers) /\ Viewers # {}
  /\ Cameras # {} /\ Unsupported \subseteq Cameras
  /\ MaxActive \in Nat \ {0} /\ MaxConnect \in Nat \ {0}
  /\ MaxRequests \in Nat

InitialDelay == 2
MaxDelay == 30
Doubled(delay) == IF 2 * delay < MaxDelay THEN 2 * delay ELSE MaxDelay

Active == {"STREAM_ACTIVE", "FRAME_FRESH"}
States == Active \union {"CATALOGUE_LIVE", "TCP_REACHABLE", "RTSP_CONNECTED",
                         "STREAM_DISCONNECTED", "UNSUPPORTED_CODEC", "FAILED"}

VARIABLES
  slots,       \* _active_streams' keys
  state,       \* current_state of each camera's telemetry
  backoff,     \* current_backoff of each camera's telemetry
  permits,     \* _connect_semaphore
  pc,          \* each viewer's place in stream_frames_with_pts
  cam,         \* the camera it asked for
  requests,
  delivered    \* history: cameras with a frame since a stream of theirs last dropped

vars == <<slots, state, backoff, permits, pc, cam, requests, delivered>>

Init ==
  /\ slots = {}
  /\ state = [c \in Cameras |-> "CATALOGUE_LIVE"]
  /\ backoff = [c \in Cameras |-> InitialDelay]
  /\ permits = MaxConnect
  /\ pc = [v \in Viewers |-> "idle"]
  /\ cam = [v \in Viewers |-> CHOOSE c \in Cameras : TRUE]
  /\ requests = 0
  /\ delivered = {}

Goto(v, place) == pc' = [pc EXCEPT ![v] = place]

\* record_state has no effect on a camera without a slot.
Recorded(c, s) == [state EXCEPT ![c] = IF c \in slots THEN s ELSE @]

-----------------------------------------------------------------------------
(* Admission *)

View(v, c) ==
  /\ pc[v] = "idle"
  /\ requests < MaxRequests
  /\ requests' = requests + 1
  /\ cam' = [cam EXCEPT ![v] = c]
  /\ Goto(v, "check")
  /\ UNCHANGED <<slots, state, backoff, permits, delivered>>

\* Mutant of CanOpen: one stream too many.
CanOpenOneMore(v) ==
  \/ cam[v] \in slots /\ state[cam[v]] \in Active
  \/ Cardinality(slots) <= MaxActive

\* A camera that holds a slot but is reconnecting counts as a new one.
CanOpen(v) ==
  \/ cam[v] \in slots /\ state[cam[v]] \in Active
  \/ Cardinality(slots) < MaxActive

Admit(v) ==
  /\ pc[v] = "check"
  /\ Goto(v, IF CanOpen(v) THEN "register" ELSE "idle")
  /\ UNCHANGED <<slots, state, backoff, permits, cam, requests, delivered>>

\* The slot is taken in a critical section of its own.
Register(v) ==
  /\ pc[v] = "register"
  /\ slots' = slots \union {cam[v]}
  /\ backoff' = [backoff EXCEPT ![cam[v]] = IF cam[v] \in slots THEN @ ELSE InitialDelay]
  /\ state' = [state EXCEPT ![cam[v]] = "TCP_REACHABLE"]
  /\ Goto(v, "codec")
  /\ UNCHANGED <<permits, cam, requests, delivered>>

\* The request fails; the slot stays.
UnsupportedCodec(v) ==
  /\ pc[v] = "codec"
  /\ cam[v] \in Unsupported
  /\ state' = Recorded(cam[v], "UNSUPPORTED_CODEC")
  /\ Goto(v, "idle")
  /\ UNCHANGED <<slots, backoff, permits, cam, requests, delivered>>

SupportedCodec(v) ==
  /\ pc[v] = "codec"
  /\ cam[v] \notin Unsupported
  /\ Goto(v, "connect")
  /\ UNCHANGED <<slots, state, backoff, permits, cam, requests, delivered>>

-----------------------------------------------------------------------------
(* Connection *)

Connect(v) ==
  /\ pc[v] = "connect"
  /\ permits > 0
  /\ permits' = permits - 1
  /\ state' = Recorded(cam[v], "RTSP_CONNECTED")
  /\ Goto(v, "opening")
  /\ UNCHANGED <<slots, backoff, cam, requests, delivered>>

\* Mutant of Attempted: the permit is kept for as long as the stream runs.
AttemptedKeepsPermit(v) ==
  /\ pc[v] = "opening"
  /\ Goto(v, "attempted")
  /\ UNCHANGED <<slots, state, backoff, permits, cam, requests, delivered>>

\* VideoCapture has returned and the permit is given back.
Attempted(v) ==
  /\ pc[v] = "opening"
  /\ permits' = permits + 1
  /\ Goto(v, "attempted")
  /\ UNCHANGED <<slots, state, backoff, cam, requests, delivered>>

\* compute_next_backoff, then the sleep
BackOff(v) ==
  /\ backoff' = [backoff EXCEPT ![cam[v]] = IF cam[v] \in slots THEN Doubled(@) ELSE @]
  /\ Goto(v, "sleep")

OpenFails(v) ==
  /\ pc[v] = "attempted"
  /\ state' = Recorded(cam[v], "FAILED")
  /\ BackOff(v)
  /\ UNCHANGED <<slots, permits, cam, requests, delivered>>

\* reset_backoff as soon as the capture is open
Opened(v) ==
  /\ pc[v] = "attempted"
  /\ state' = Recorded(cam[v], "STREAM_ACTIVE")
  /\ backoff' = [backoff EXCEPT ![cam[v]] = IF cam[v] \in slots THEN InitialDelay ELSE @]
  /\ Goto(v, "streaming")
  /\ UNCHANGED <<slots, permits, cam, requests, delivered>>

Wake(v) ==
  /\ pc[v] = "sleep"
  /\ Goto(v, "connect")
  /\ UNCHANGED <<slots, state, backoff, permits, cam, requests, delivered>>

-----------------------------------------------------------------------------
(* Frames *)

\* A frame is recorded and handed to the client.
Frame(v) ==
  /\ pc[v] = "streaming"
  /\ state' = Recorded(cam[v], "FRAME_FRESH")
  /\ delivered' = delivered \union {cam[v]}
  /\ Goto(v, "yielded")
  /\ UNCHANGED <<slots, backoff, permits, cam, requests>>

NextFrame(v) ==
  /\ pc[v] = "yielded"
  /\ Goto(v, "streaming")
  /\ UNCHANGED <<slots, state, backoff, permits, cam, requests, delivered>>

\* The read fails: disconnected, then backoff.
ReadFails(v) ==
  /\ pc[v] = "streaming"
  /\ state' = Recorded(cam[v], "STREAM_DISCONNECTED")
  /\ delivered' = delivered \ {cam[v]}
  /\ BackOff(v)
  /\ UNCHANGED <<slots, permits, cam, requests>>

\* The client has gone: the generator is closed where it yielded.
Leave(v) ==
  /\ pc[v] = "yielded"
  /\ Goto(v, "idle")
  /\ UNCHANGED <<slots, state, backoff, permits, cam, requests, delivered>>

\* close_stream, which no code of the service calls
Close(c) ==
  /\ c \in slots
  /\ slots' = slots \ {c}
  /\ UNCHANGED <<state, backoff, permits, pc, cam, requests, delivered>>

-----------------------------------------------------------------------------
Step(v) ==
  \/ Admit(v) \/ Register(v) \/ UnsupportedCodec(v) \/ SupportedCodec(v)
  \/ Connect(v) \/ Attempted(v) \/ OpenFails(v) \/ Opened(v) \/ Wake(v)
  \/ Frame(v) \/ NextFrame(v) \/ ReadFails(v) \/ Leave(v)

ServiceNext == \E v \in Viewers : Step(v) \/ \E c \in Cameras : View(v, c)

Next == ServiceNext \/ \E c \in Cameras : Close(c)

Spec == Init /\ [][Next]_vars

\* A request that was made goes on; nothing else is obliged to happen.
ServiceSpec == Init /\ [][ServiceNext]_vars /\ \A v \in Viewers : WF_vars(Step(v))
-----------------------------------------------------------------------------
(* Properties *)

\* Every variable keeps its type; a permit is out exactly while a capture is
\* being opened.
TypeOK ==
  /\ slots \subseteq Cameras
  /\ state \in [Cameras -> States]
  /\ backoff \in [Cameras -> InitialDelay .. MaxDelay]
  /\ permits \in 0 .. MaxConnect
  /\ permits + Cardinality({v \in Viewers : pc[v] = "opening"}) = MaxConnect
  /\ pc \in [Viewers -> {"idle", "check", "register", "codec", "connect", "opening",
                         "attempted", "sleep", "streaming", "yielded"}]
  /\ cam \in [Viewers -> Cameras]
  /\ requests \in 0 .. MaxRequests
  /\ delivered \subseteq Cameras

\* The limit is overshot by no more than the requests that were admitted at
\* the same time, however streams open, drop, reconnect and close.
OvershootBounded == Cardinality(slots) < MaxActive + Cardinality(Viewers)

\* "Stream concurrency bounded by MAX_ACTIVE_CAMERA_STREAMS"
\* The code does not keep this one; no run checks it, and the README shows the
\* instance in which it fails.
LimitHeld == Cardinality(slots) <= MaxActive

\* "Closes unused captures to obey load pacing": a slot nobody watches is
\* eventually given back.
\* The code does not keep this one; no run checks it, and the README shows the
\* instance in which it fails.
Unwatched(c) == c \in slots /\ \A v \in Viewers : pc[v] = "idle" \/ cam[v] # c
SlotsReclaimed == \A c \in Cameras : Unwatched(c) ~> ~Unwatched(c)

\* "Backoff delay resets ... upon successful stream re-acquisition and frame
\* delivery": the delay of a camera shrinks only once a frame has arrived.
\* The code does not keep this one; no run checks it, and the README shows the
\* instance in which it fails.
BackoffEarned ==
  [][\A c \in slots : c \in slots' /\ backoff'[c] < backoff[c] => c \in delivered]_vars
=============================================================================
