--------------------------- MODULE WorkerPipeline ---------------------------
(***************************************************************************)
(* The canonical pipeline (services/stream_workers.py, from                 *)
(* AIVisionStreamWorker on) over the event bus: a frame event runs the      *)
(* vision worker, which publishes one ANPR result per detection, which runs *)
(* the tracking worker, which publishes one sighting, which is handed to    *)
(* the micro-batch worker and runs the watchlist worker.  Publishing is     *)
(* synchronous, so all of this happens inside the call that published the   *)
(* frame; the events in between carry no id, so nothing deduplicates them.  *)
(*                                                                         *)
(* Topics without a consumer (vehicle detections, tracking events, matches) *)
(* are left out; what the watchlist worker does to the alerts is AlertDedup.*)
(***************************************************************************)
EXTENDS DeadLetterQueue, Naturals

CONSTANTS
  Threads, NoThread,
  Frames,          \* frame events
  Detections,      \* the sequence of detections of each frame
  Malformed,       \* detections that are not a mapping
  BadPlates,       \* detections whose plate text is no string, and is not empty
  Unseen,          \* frames on which detection may raise
  MaxReplays       \* bound

Dets == UNION {Elements(Detections[f]) : f \in Frames}

WorkerAssumption ==
  /\ Malformed \union BadPlates \subseteq Dets
  /\ \A f \in Frames :
       /\ Detections[f] \in Seq(Dets)
       /\ \A i, j \in 1 .. Len(Detections[f]) : Detections[f][i] = Detections[f][j] => i = j
  /\ \A f, g \in Frames : f # g => Elements(Detections[f]) \intersect Elements(Detections[g]) = {}
  /\ MaxReplays \in Nat
  /\ NoThread \notin Threads \union Frames

Pills == [topic : {"frame"}, of : Frames] \union [topic : {"sighting"}, of : Dets]

VARIABLES
  call,            \* the call each thread is in: worker, frame, detections to do
  dlq, dlqHolder, replayTodo, replays,
  enqueued,        \* how often each detection reached the micro-batch worker
  published, found, dispatched, evicted   \* history

queue == <<dlq, evicted>>
replay == <<dlqHolder, replayTodo, replays>>
vars == <<call, queue, replay, enqueued, published, found, dispatched>>

Nobody == [at |-> "idle", rest |-> <<>>, of |-> NoThread, det |-> NoThread]

Init ==
  /\ call = [t \in Threads |-> Nobody]
  /\ dlq = <<>> /\ evicted = {}
  /\ dlqHolder = NoThread /\ replayTodo = <<>> /\ replays = 0
  /\ enqueued = [d \in Dets |-> 0]
  /\ published = {} /\ found = {}
  /\ dispatched = [d \in Dets |-> 0]

At(t, worker) == call[t].at = worker
Go(t, worker) == call' = [call EXCEPT ![t].at = worker]

\* Another thread's replay holds the queue's lock.
Quarantine(t, topic, of) ==
  /\ dlqHolder \in {NoThread, t}
  /\ dlq' = Push(dlq, [topic |-> topic, of |-> of])
  /\ evicted' = evicted \union Displaced(dlq)

\* Back to the replay or to whoever published the frame.
Return(t) == call' = [call EXCEPT ![t] = [Nobody EXCEPT !.at =
                                            IF dlqHolder = t THEN "replay" ELSE "idle"]]

\* An event below a frame returns to the frame's loop.
Back(t) == IF call[t].of = NoThread THEN Return(t) ELSE Go(t, "frame")

Dispatched(ds) == dispatched' = [d \in Dets |-> dispatched[d] + IF d \in ds THEN 1 ELSE 0]

\* process_frame_event up to its loop; an exception of the detection is logged, and
\* the frame has no detections.
EnterFrame(t, f) ==
  \E ds \in {Detections[f]} \union {<<>> : x \in {f} \intersect Unseen} :
    /\ call' = [call EXCEPT ![t] = [at |-> "frame", rest |-> ds, of |-> f, det |-> NoThread]]
    /\ found' = found \union Elements(ds)
    /\ Dispatched(Elements(ds))

PublishFrame(t, f) ==
  /\ At(t, "idle")
  /\ f \notin published
  /\ published' = published \union {f}
  /\ EnterFrame(t, f)
  /\ UNCHANGED <<queue, replay, enqueued>>

\* The loop raises on a detection that has no `get`, and on one whose plate is the
\* partition key of its result and cannot be encoded.
Raises(d) == d \in Malformed \union BadPlates

PublishAnpr(t) ==
  /\ At(t, "frame") /\ call[t].rest # <<>>
  /\ ~Raises(Head(call[t].rest))
  /\ call' = [call EXCEPT ![t].at = "anpr", ![t].det = Head(call[t].rest),
                          ![t].rest = Tail(@)]
  /\ UNCHANGED <<queue, replay, enqueued, published, found, dispatched>>

\* Mutant of FrameRaises: a detection the loop cannot take ends the frame quietly.
FrameBreaks(t) ==
  /\ At(t, "frame") /\ call[t].rest # <<>>
  /\ Raises(Head(call[t].rest))
  /\ Return(t)
  /\ UNCHANGED <<queue, replay, enqueued, published, found, dispatched>>

\* Mutant of FrameRaises: the worker is called again, as a subscriber would be.
FrameRetried(t) ==
  /\ At(t, "frame") /\ call[t].rest # <<>>
  /\ Raises(Head(call[t].rest))
  /\ call' = [call EXCEPT ![t].rest = Detections[call[t].of]]
  /\ UNCHANGED <<queue, replay, enqueued, published, found, dispatched>>

\* The loop raises on a detection and the bus quarantines the frame, of which the
\* detections before this one have been published.
FrameRaises(t) ==
  /\ At(t, "frame") /\ call[t].rest # <<>>
  /\ Raises(Head(call[t].rest))
  /\ Quarantine(t, "frame", call[t].of)
  /\ Return(t)
  /\ UNCHANGED <<replay, enqueued, published, found, dispatched>>

FrameReturns(t) ==
  /\ At(t, "frame") /\ call[t].rest = <<>>
  /\ Return(t)
  /\ UNCHANGED <<queue, replay, enqueued, published, found, dispatched>>

\* process_anpr_event: the plate of a result is a string or empty, so that it takes
\* neither the normalization nor the partition of the sighting amiss.
PublishSighting(t) ==
  /\ At(t, "anpr")
  /\ Go(t, "sighting")
  /\ UNCHANGED <<queue, replay, enqueued, published, found, dispatched>>

\* The bus hands the sighting over; a flush that raises comes after the append.
HandOver(t) ==
  /\ At(t, "sighting")
  /\ enqueued' = [enqueued EXCEPT ![call[t].det] = @ + 1]
  /\ UNCHANGED queue \/ Quarantine(t, "sighting", call[t].det)
  /\ Go(t, "match")
  /\ UNCHANGED <<replay, published, found, dispatched>>

\* process_sighting_event logs every exception: it returns either way.
MatchWatchlist(t) ==
  /\ At(t, "match")
  /\ Back(t)
  /\ UNCHANGED <<queue, replay, enqueued, published, found, dispatched>>
-----------------------------------------------------------------------------
(* POST /events/dlq/replay: every topic of the pipeline is published again. *)

ReplayStart(t) ==
  /\ At(t, "idle")
  /\ dlqHolder = NoThread
  /\ replays < MaxReplays
  /\ replays' = replays + 1
  /\ dlqHolder' = t
  /\ replayTodo' = dlq
  /\ Go(t, "replay")
  /\ UNCHANGED <<queue, enqueued, published, found, dispatched>>

EnterPill(t, pill) ==
  IF pill.topic = "frame" THEN EnterFrame(t, pill.of)
  ELSE /\ call' = [call EXCEPT ![t] = [Nobody EXCEPT !.at = pill.topic, !.det = pill.of]]
       /\ Dispatched({pill.of})
       /\ UNCHANGED found

ReplayPill(t) ==
  /\ At(t, "replay") /\ replayTodo # <<>>
  /\ EnterPill(t, Head(replayTodo))
  /\ replayTodo' = Tail(replayTodo)
  /\ UNCHANGED <<queue, dlqHolder, replays, enqueued, published>>

\* The replayed messages leave the queue, and with them what the replay added.
ReplayEnd(t) ==
  /\ At(t, "replay") /\ replayTodo = <<>>
  /\ dlq' = <<>>
  /\ dlqHolder' = NoThread
  /\ Go(t, "idle")
  /\ UNCHANGED <<evicted, replayTodo, replays, enqueued, published, found, dispatched>>

Step(t) ==
  \/ PublishAnpr(t) \/ FrameRaises(t) \/ FrameReturns(t) \/ PublishSighting(t)
  \/ HandOver(t) \/ MatchWatchlist(t) \/ ReplayPill(t) \/ ReplayEnd(t)

Next ==
  \E t \in Threads :
    Step(t) \/ ReplayStart(t) \/ \E f \in Frames : PublishFrame(t, f)

Spec == Init /\ [][Next]_vars
-----------------------------------------------------------------------------
(* Properties *)

Handing(t, d) == d = call[t].det /\ call[t].at \in {"anpr", "sighting"}
Pending(d) == \E t \in Threads : d \in Elements(call[t].rest) \/ Handing(t, d)

Quarantined(d) ==
  \E pill \in Elements(dlq) \union evicted :
    pill.of = d \/ (pill.of \in Frames /\ d \in Elements(Detections[pill.of]))

Calls == [at : {"idle", "frame", "anpr", "sighting", "match", "replay"}, rest : Seq(Dets),
          of : Frames \union {NoThread}, det : Dets \union {NoThread}]

\* Every variable keeps its type.
TypeOK ==
  /\ call \in [Threads -> Calls]
  /\ dlq \in Seq(Pills) /\ Len(dlq) <= DlqMax /\ evicted \subseteq Pills
  /\ dlqHolder \in Threads \union {NoThread} /\ replayTodo \in Seq(Pills)
  /\ replays \in 0 .. MaxReplays
  /\ enqueued \in [Dets -> Nat] /\ dispatched \in [Dets -> Nat]
  /\ published \subseteq Frames /\ found \subseteq Dets

\* A detection the vision worker found is on its way, has reached the micro-batch
\* worker, or stands in the dead letter queue by itself or with its frame (unless the
\* bounded queue pushed it out), until an operator replays the queue: a failure half
\* way through a frame or below it loses nothing.
DetectionAccounted ==
  replays = 0 => \A d \in found : Pending(d) \/ enqueued[d] > 0 \/ Quarantined(d)

\* The events in between are not deduplicated, so a detection may be stored once for
\* each time its frame or its sighting was dispatched, and no more.
OncePerDispatch == \A d \in Dets : enqueued[d] <= dispatched[d]
=============================================================================
