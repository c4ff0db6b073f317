---------------------------- MODULE PipelineProofs ----------------------------
(***************************************************************************)
(* What holds of the components of Pipeline for any threads, cameras,      *)
(* frames, detections and bounds: which samples vote for a plate           *)
(* (FramePipeline), and what becomes of a detection (WorkerPipeline).      *)
(***************************************************************************)
EXTENDS Pipeline, FiniteSetTheorems, TLAPS

-----------------------------------------------------------------------------
(* Tracks, jobs and samples: what holds whatever the counter of ids does.  *)

Working(t) == job[t].pc # "idle"

\* The tracks a call works with.
Held(t) == job[t].made \union job[t].pool \union job[t].todo

\* The tracks of the running process.
OfRun == {k \in Fusion!Tracks : k.run = run}

\* An idle thread has an empty job, and all samples of a vote have the id of the track
\* that it is for.
JobOK(t) ==
  /\ IF job[t].pc = "idle" THEN job[t] = Fusion!Idle ELSE job[t].camera \in Cameras
  /\ Held(t) \subseteq OfRun /\ IsFiniteSet(job[t].made)
  /\ \A p \in 1 .. Len(job[t].vote) : job[t].vote[p].track.id = job[t].track.id

\* The samples under the key of an id are of tracks with this id, of this process or
\* of one before it.
Filed(list, i, r) ==
  \A p \in 1 .. Len(list) : list[p].track.id = i /\ list[p].track.run <= r

SamplesFiled ==
  \A c \in Streams, i \in 0 .. MaxId :
    Filed(redis[<<c, i>>], i, run) /\ Filed(fallback[<<c, i>>], i, run)

FramesInv ==
  /\ Fusion!TypeOK
  /\ \A c \in Streams : tracked[c] \subseteq OfRun
  /\ \A t \in Threads : JobOK(t)
  /\ SamplesFiled

-----------------------------------------------------------------------------
(* Ids, as long as the counter was not clashed over.                       *)

Within(list, x) == \E p \in 1 .. Len(list) : list[p] = x

\* The samples of this process that are stored for a stream.
Own(c) ==
  {x \in Fusion!SampleRecords :
     /\ x.track.run = run
     /\ \E i \in 0 .. MaxId : Within(redis[<<c, i>>], x) \/ Within(fallback[<<c, i>>], x)}

\* D is a set of tracks with ids of their own that the counter has left behind.
Given(D) ==
  /\ \A k \in D : k.id <= count
  /\ \A k, l \in D : k.id = l.id => k = l

\* All tracks that this process uses anywhere are in D.
JobWithin(t, D) ==
  /\ Held(t) \subseteq D
  /\ job[t].pc = "fuse" \/ job[t].vote # <<>> => job[t].track \in D
  /\ \A p \in 1 .. Len(job[t].vote) :
       job[t].vote[p].track.run = run => job[t].vote[p].track \in D

InUse(D) ==
  /\ \A c \in Streams : tracked[c] \subseteq D /\ \A x \in Own(c) : x.track \in D
  /\ \A t \in Threads : JobWithin(t, D)

\* What a call has stored and not read is nobody else's, and no track's.
Taking(t, D) ==
  job[t].pc = "take" =>
    /\ job[t].seen + 1 <= count
    /\ \A k \in D : k.id # job[t].seen + 1
    /\ \A u \in Threads \ {t} : job[u].pc = "take" => job[u].seen # job[t].seen

Allots(D) == Given(D) /\ InUse(D) /\ \A t \in Threads : Taking(t, D)

IdsInv == ~clashed => \E D \in SUBSET OfRun : Allots(D)

-----------------------------------------------------------------------------
(* The sample that was just written                                        *)

JobKey(t) == <<job[t].key, job[t].track.id>>

\* The sample stands `since` places before the end of a list.
Back(list, t) ==
  /\ Len(list) > job[t].since
  /\ list[Len(list) - job[t].since].no = job[t].no
  /\ list[Len(list) - job[t].since].track = job[t].track

SampleThere(t) ==
  job[t].pc = "fuse" /\ job[t].since < Window =>
    IF connected /\ up THEN Back(redis[JobKey(t)], t)
    ELSE Back(fallback[JobKey(t)], t) /\ now <= expires["fallback"][JobKey(t)]

\* What VoteIsCurrent says of one thread.
VoteHasFrame(t) ==
  job[t].vote # <<>> /\ job[t].since < Window =>
    \E p \in Fusion!OwnRun(t) : job[t].vote[p].no = job[t].no

CurrentInv == \A t \in Threads : SampleThere(t) /\ VoteHasFrame(t)

-----------------------------------------------------------------------------
(* Media order                                                             *)

\* The samples of process r and of one era stand in media order.
Ordered(list, r) ==
  \A p, q \in 1 .. Len(list) :
    p < q /\ list[p].track.run = r /\ list[q].track.run = r /\ list[p].era = list[q].era
      => list[p].pts <= list[q].pts

\* Track k may still be matched, or its plate read.
Live(c, k) ==
  k \in tracked[c] \/ \E t \in Threads : job[t].key = c /\ k \in Held(t)

\* No sample of a live track is ahead of the last frame, nor of a call in its era.
NotAhead(c, x) ==
  /\ x.era = era[c] => x.pts <= lastPts[c]
  /\ \A t \in Threads :
       Working(t) /\ job[t].key = c /\ job[t].era = x.era => x.pts <= job[t].pts

Past(c) ==
  \A x \in Own(c) : x.era <= era[c] /\ (Live(c, x.track) => NotAhead(c, x))

\* The calls on a stream have eras of their own, and the last frame is that of the last.
Eras(t) ==
  Working(t) =>
    /\ job[t].era <= era[job[t].key]
    /\ job[t].era = era[job[t].key] => job[t].pts = lastPts[job[t].key]
    /\ \A u \in Threads \ {t} :
         Working(u) /\ job[u].key = job[t].key => job[u].era # job[t].era

SceneInv ==
  ~clashed =>
    /\ \A c \in Streams : Past(c)
    /\ \A t \in Threads : Eras(t) /\ Ordered(job[t].vote, run)
    /\ \A k \in Keys : Ordered(redis[k], run) /\ Ordered(fallback[k], run)

-----------------------------------------------------------------------------
(* What each step does to the jobs, the tracks and the samples             *)

Only(t) == \A u \in Threads \ {t} : job'[u] = job[u]

SameFrame(t) ==
  /\ job'[t].key = job[t].key /\ job'[t].camera = job[t].camera
  /\ job'[t].pts = job[t].pts /\ job'[t].era = job[t].era /\ job'[t].no = job[t].no

SameVote(t) ==
  /\ job'[t].track = job[t].track /\ job'[t].vote = job[t].vote
  /\ job'[t].since = job[t].since

\* Where a job is neither idle nor between the write of a sample and its read.
Middle == {"update", "store", "take", "match", "plates"}

\* A call works on the tracks of its stream, `new` among them.
Work(t, new) ==
  /\ job[t].pc \in Middle /\ job'[t].pc \in Middle
  /\ Only(t) /\ SameFrame(t) /\ SameVote(t)
  /\ Held(t)' \subseteq Held(t) \union tracked[job[t].key] \union new
  /\ IsFiniteSet(job[t].made) => IsFiniteSet(job'[t].made)
  /\ tracked'[job[t].key] \subseteq Held(t) \union tracked[job[t].key]
  /\ \A c \in Streams \ {job[t].key} : tracked'[c] = tracked[c]
  /\ UNCHANGED <<lastPts, run, era, now, up, connected, redis, fallback, expires>>

LEMMA JobSet ==
  ASSUME Fusion!TypeOK, NEW t \in Threads, NEW w \in Fusion!Jobs, Fusion!Set(t, w)
  PROVE  job' \in [Threads -> Fusion!Jobs] /\ job'[t] = w /\ Only(t)
<1>1. job \in [Threads -> Fusion!Jobs] /\ job' = [job EXCEPT ![t] = w]
  BY DEF Fusion!TypeOK, Fusion!Set
<1> QED BY <1>1 DEF Only

LEMMA IdleJob ==
  /\ Fusion!Idle \in Fusion!Jobs /\ Fusion!Idle.pc = "idle"
  /\ Fusion!Idle.made = {} /\ Fusion!Idle.pool = {} /\ Fusion!Idle.todo = {}
  /\ Fusion!Idle.vote = <<>> /\ Fusion!Idle.pts = 0 /\ Fusion!Idle.era = 0
<1>1. Default \in Streams /\ MaxId \in Nat
  BY Instances DEF Fusion!FrameAssumption
<1>2. <<>> \in Seq(Fusion!SampleRecords)
  OBVIOUS
<1> QED BY <1>1, <1>2 DEF Fusion!Idle, Fusion!Jobs, Fusion!NoPts

\* The bounds of the behaviour.
LEMMA ScopeTyped ==
  ASSUME Fusion!TypeOK
  PROVE  /\ scope.threads \subseteq Threads /\ scope.cameras \subseteq Cameras
         /\ scope.pts \subseteq Nat /\ scope.resets \in BOOLEAN
         /\ scope.ids \in 0 .. MaxId /\ MaxId \in Nat
BY Instances DEF Fusion!TypeOK, Fusion!FrameAssumption, Fusion!Bounds

\* The streams are those of the worker's cameras and the uploads' default.
LEMMA StreamsAre ==
  /\ Default \in Streams /\ Uploads \subseteq Cameras
  /\ \A c \in Cameras : c \notin Uploads => c \in Streams
  /\ Keys = Streams \X (0 .. MaxId) /\ MaxId \in Nat
  /\ Ttl \in Nat /\ Window \in Nat \ {0}
BY Instances DEF Fusion!FrameAssumption

\* The parts of the types that the steps below need.
LEMMA Typed ==
  ASSUME Fusion!TypeOK
  PROVE  /\ tracked \in [Streams -> SUBSET Fusion!Tracks]
         /\ lastPts \in [Streams -> Nat] /\ era \in [Streams -> Nat]
         /\ count \in 0 .. MaxId /\ run \in Nat \ {0} /\ clashed \in BOOLEAN
         /\ redis \in [Keys -> Seq(Fusion!SampleRecords)]
         /\ fallback \in [Keys -> Seq(Fusion!SampleRecords)]
         /\ expires \in [{"redis", "fallback"} -> [Keys -> Nat]]
         /\ now \in Nat /\ frames \in Nat /\ faults \in Nat
         /\ up \in BOOLEAN /\ connected \in BOOLEAN
         /\ job \in [Threads -> Fusion!Jobs] /\ scope \in Scopes
<1>1. count \in 0 .. MaxId
  BY ScopeTyped DEF Fusion!TypeOK
<1> QED BY <1>1 DEF Fusion!TypeOK

\* The fields of a job.
LEMMA JobTyped ==
  ASSUME Fusion!TypeOK, NEW t \in Threads
  PROVE  /\ job[t] \in Fusion!Jobs
         /\ job[t].key \in Streams /\ job[t].pts \in Nat /\ job[t].era \in Nat
         /\ job[t].no \in Nat /\ job[t].since \in Nat /\ job[t].seen \in 0 .. MaxId
         /\ job[t].made \subseteq Fusion!Tracks /\ job[t].pool \subseteq Fusion!Tracks
         /\ job[t].todo \subseteq Fusion!Tracks /\ Held(t) \subseteq Fusion!Tracks
         /\ job[t].vote \in Seq(Fusion!SampleRecords)
         /\ job[t].track.id \in 0 .. MaxId /\ JobKey(t) \in Keys
<1>1. job[t] \in Fusion!Jobs
  BY DEF Fusion!TypeOK
<1>2. /\ job[t].key \in Streams /\ job[t].pts \in Nat /\ job[t].era \in Nat
      /\ job[t].no \in Nat /\ job[t].since \in Nat /\ job[t].seen \in 0 .. MaxId
      /\ job[t].made \subseteq Fusion!Tracks /\ job[t].pool \subseteq Fusion!Tracks
      /\ job[t].todo \subseteq Fusion!Tracks
      /\ job[t].vote \in Seq(Fusion!SampleRecords)
      /\ job[t].track.id \in 0 .. MaxId
  BY <1>1 DEF Fusion!Jobs
<1>3. JobKey(t) \in Keys
  BY <1>2, StreamsAre DEF JobKey
<1> QED BY <1>1, <1>2, <1>3 DEF Held

\* A frame begins on stream k.
Begins(t, k, pts) ==
  /\ job[t] = Fusion!Idle /\ Only(t)
  /\ job'[t].pc = "update" /\ job'[t].key = k /\ job'[t].pts = pts
  /\ job'[t].era = era'[k] /\ job'[t].camera \in Cameras
  /\ job'[t].vote = <<>> /\ Held(t)' = {}
  /\ \/ tracked'[k] = {}
     \/ tracked'[k] = tracked[k] /\ (pts = 0 \/ lastPts[k] = 0 \/ lastPts[k] <= pts)
  /\ lastPts'[k] = pts
  /\ \A c \in Streams \ {k} :
       tracked'[c] = tracked[c] /\ lastPts'[c] = lastPts[c] /\ era'[c] = era[c]
  /\ \/ era'[k] = era[k] + 1
     \/ /\ era'[k] = era[k] /\ pts # 0
        /\ \A u \in Threads : Working(u) => job[u].key # k
  /\ UNCHANGED <<count, run, clashed, now, up, connected, redis, fallback, expires>>

\* A thread is on a stream as long as its job is not empty.
LEMMA BusyWith ==
  ASSUME NEW k, Fusion!Busy(k) = {}, NEW u \in Threads, Working(u)
  PROVE  job[u].key # k
<1>1. job[u] # Fusion!Idle
  BY IdleJob DEF Working
<1> QED BY <1>1 DEF Fusion!Busy

LEMMA DetectBegins ==
  ASSUME Fusion!TypeOK, scope' = scope, NEW t \in Threads, NEW c \in Cameras,
         NEW k \in Streams, NEW pts \in Nat, NEW gap \in BOOLEAN,
         Fusion!Detect(t, c, k, pts, gap)
  PROVE  Fusion!TypeOK' /\ Begins(t, k, pts)
<1>0. /\ tracked \in [Streams -> SUBSET Fusion!Tracks] /\ lastPts \in [Streams -> Nat]
      /\ era \in [Streams -> Nat] /\ frames \in Nat
  BY Typed
<1>1. /\ job[t] = Fusion!Idle /\ frames' = frames + 1 /\ Fusion!BeginUpdate(k, pts, gap)
      /\ era' = Fusion!Doubt(k, pts)
      /\ UNCHANGED <<now, up, connected, redis, fallback, expires, faults>>
  BY DEF Fusion!Detect, Fusion!storeVars
<1>2. /\ lastPts' = [lastPts EXCEPT ![k] = pts] /\ UNCHANGED <<count, run, clashed>>
      /\ \/ tracked' = [tracked EXCEPT ![k] = {}]
         \/ tracked' = tracked /\ ~Fusion!SceneRestarted(k, pts)
  BY <1>1 DEF Fusion!BeginUpdate
<1>3. /\ lastPts' \in [Streams -> Nat] /\ lastPts'[k] = pts
      /\ \A d \in Streams \ {k} : lastPts'[d] = lastPts[d]
  BY <1>0, <1>2
<1>4. /\ tracked' \in [Streams -> SUBSET Fusion!Tracks]
      /\ tracked'[k] = {} \/ (tracked'[k] = tracked[k] /\ ~Fusion!SceneRestarted(k, pts))
      /\ \A d \in Streams \ {k} : tracked'[d] = tracked[d]
  <2>1. CASE tracked' = [tracked EXCEPT ![k] = {}]
    BY <1>0, <2>1
  <2>2. CASE tracked' = tracked /\ ~Fusion!SceneRestarted(k, pts)
    BY <1>0, <2>2
  <2> QED BY <1>2, <2>1, <2>2
<1>5. ~Fusion!SceneRestarted(k, pts) => pts = 0 \/ lastPts[k] = 0 \/ lastPts[k] <= pts
  BY <1>0 DEF Fusion!SceneRestarted, Fusion!NoPts
<1>6. /\ era' = [era EXCEPT ![k] = era'[k]] /\ era'[k] \in Nat
      /\ \/ era'[k] = era[k] + 1
         \/ era'[k] = era[k] /\ pts # 0 /\ Fusion!Busy(k) = {}
  <2>1. era' = [era EXCEPT ![k] = IF pts = 0 \/ Fusion!Busy(k) # {} THEN era[k] + 1 ELSE era[k]]
    BY <1>1 DEF Fusion!Doubt, Fusion!NoPts
  <2>2. era'[k] = IF pts = 0 \/ Fusion!Busy(k) # {} THEN era[k] + 1 ELSE era[k]
    BY <1>0, <2>1
  <2> QED BY <1>0, <2>1, <2>2
<1>7. era' \in [Streams -> Nat] /\ \A d \in Streams \ {k} : era'[d] = era[d]
  BY <1>0, <1>6
<1>8. \/ era'[k] = era[k] + 1
      \/ /\ era'[k] = era[k] /\ pts # 0
         /\ \A u \in Threads : Working(u) => job[u].key # k
  BY <1>6, BusyWith
<1> DEFINE w == [Fusion!Idle EXCEPT !.pc = "update", !.no = frames + 1, !.key = k,
                                    !.camera = c, !.pts = pts, !.era = era'[k]]
<1>9. Fusion!Set(t, w)
  BY DEF Fusion!Detect
<1>10. /\ w \in Fusion!Jobs /\ w.pc = "update" /\ w.key = k /\ w.pts = pts /\ w.camera = c
       /\ w.era = era'[k] /\ w.vote = <<>> /\ w.made = {} /\ w.pool = {} /\ w.todo = {}
  <2>1. frames + 1 \in Nat /\ era'[k] \in Nat
    BY <1>0, <1>6
  <2>2. w \in Fusion!Jobs
    BY <2>1, IdleJob DEF Fusion!Jobs
  <2>3. /\ w.pc = "update" /\ w.key = k /\ w.pts = pts /\ w.camera = c
        /\ w.era = era'[k] /\ w.vote = <<>> /\ w.made = {} /\ w.pool = {} /\ w.todo = {}
    BY DEF Fusion!Idle
  <2> QED BY <2>2, <2>3
<1> HIDE DEF w
<1>11. job' \in [Threads -> Fusion!Jobs] /\ job'[t] = w /\ Only(t)
  BY <1>9, <1>10, JobSet
<1>12. Held(t)' = {}
  BY <1>10, <1>11 DEF Held
<1>13. Fusion!TypeOK'
  BY <1>0, <1>1, <1>2, <1>3, <1>4, <1>7, <1>11 DEF Fusion!TypeOK
<1>14. Begins(t, k, pts)
  BY <1>1, <1>2, <1>3, <1>4, <1>5, <1>7, <1>8, <1>10, <1>11, <1>12 DEF Begins
<1> QED BY <1>13, <1>14

LEMMA LoadWorks ==
  ASSUME Fusion!TypeOK, scope' = scope, NEW t \in Threads, Fusion!LoadId(t)
  PROVE  /\ Fusion!TypeOK' /\ Work(t, {}) /\ job'[t].pc = "store"
         /\ UNCHANGED <<count, clashed>>
<1> DEFINE w == [job[t] EXCEPT !.pc = "store", !.seen = count]
<1>1. /\ job[t].pc = "update" /\ Fusion!Set(t, w)
      /\ UNCHANGED <<tracked, lastPts, count, run, clashed, now, up, connected, redis,
                     fallback, expires, frames, faults, era>>
  BY DEF Fusion!LoadId, Fusion!trackerVars, Fusion!storeVars
<1>2. job[t] \in Fusion!Jobs /\ count \in 0 .. MaxId
  BY Typed, JobTyped
<1>3. /\ w \in Fusion!Jobs /\ w.pc = "store" /\ w.made = job[t].made
      /\ w.pool = job[t].pool /\ w.todo = job[t].todo
      /\ w.key = job[t].key /\ w.camera = job[t].camera /\ w.pts = job[t].pts
      /\ w.era = job[t].era /\ w.no = job[t].no
      /\ w.track = job[t].track /\ w.vote = job[t].vote /\ w.since = job[t].since
  BY <1>2 DEF Fusion!Jobs
<1> HIDE DEF w
<1>4. job' \in [Threads -> Fusion!Jobs] /\ job'[t] = w /\ Only(t)
  BY <1>1, <1>3, JobSet
<1>5. Held(t)' = Held(t) /\ job'[t].made = job[t].made
  BY <1>3, <1>4 DEF Held
<1>6. Fusion!TypeOK'
  BY <1>1, <1>4 DEF Fusion!TypeOK
<1>7. SameFrame(t) /\ SameVote(t)
  BY <1>3, <1>4 DEF SameFrame, SameVote
<1>8. Work(t, {})
  BY <1>1, <1>3, <1>4, <1>5, <1>7 DEF Work, Middle
<1> QED BY <1>1, <1>3, <1>4, <1>6, <1>8

LEMMA StoreWorks ==
  ASSUME Fusion!TypeOK, scope' = scope, NEW t \in Threads, Fusion!StoreId(t)
  PROVE  /\ Fusion!TypeOK' /\ Work(t, {}) /\ job[t].pc = "store" /\ job'[t].pc = "take"
         /\ job'[t].seen = job[t].seen
         /\ count' = job[t].seen + 1 /\ clashed' = (clashed \/ count # job[t].seen)
<1> DEFINE w == [job[t] EXCEPT !.pc = "take"]
<1>1. /\ job[t].pc = "store" /\ job[t].seen < scope.ids /\ Fusion!Set(t, w)
      /\ count' = job[t].seen + 1 /\ clashed' = (clashed \/ count # job[t].seen)
      /\ UNCHANGED <<tracked, lastPts, run, now, up, connected, redis,
                     fallback, expires, frames, faults, era>>
  BY DEF Fusion!StoreId, Fusion!StoreCount, Fusion!storeVars
<1>2. job[t] \in Fusion!Jobs /\ job[t].seen \in 0 .. MaxId /\ scope.ids \in 0 .. MaxId
  BY JobTyped, ScopeTyped
<1>3. /\ w \in Fusion!Jobs /\ w.pc = "take" /\ w.seen = job[t].seen /\ w.made = job[t].made
      /\ w.pool = job[t].pool /\ w.todo = job[t].todo
      /\ w.key = job[t].key /\ w.camera = job[t].camera /\ w.pts = job[t].pts
      /\ w.era = job[t].era /\ w.no = job[t].no
      /\ w.track = job[t].track /\ w.vote = job[t].vote /\ w.since = job[t].since
  BY <1>2 DEF Fusion!Jobs
<1> HIDE DEF w
<1>4. job' \in [Threads -> Fusion!Jobs] /\ job'[t] = w /\ Only(t)
  BY <1>1, <1>3, JobSet
<1>5. Held(t)' = Held(t) /\ job'[t].made = job[t].made
  BY <1>3, <1>4 DEF Held
<1>6. count' \in 0 .. scope.ids /\ clashed' \in BOOLEAN
  BY <1>1, <1>2, ScopeTyped, Typed
<1>7. Fusion!TypeOK'
  BY <1>1, <1>4, <1>6 DEF Fusion!TypeOK
<1>8. SameFrame(t) /\ SameVote(t)
  BY <1>3, <1>4 DEF SameFrame, SameVote
<1>9. Work(t, {})
  BY <1>1, <1>3, <1>4, <1>5, <1>8 DEF Work, Middle
<1> QED BY <1>1, <1>3, <1>4, <1>7, <1>9

LEMMA TakeWorks ==
  ASSUME Fusion!TypeOK, scope' = scope, NEW t \in Threads, Fusion!TakeId(t),
         IsFiniteSet(job[t].made)
  PROVE  /\ Fusion!TypeOK' /\ job[t].pc = "take" /\ job'[t].pc = "update"
         /\ \E k \in OfRun : k.id = count /\ Work(t, {k})
         /\ count' = count /\ clashed' = (clashed \/ count # job[t].seen + 1)
<1> DEFINE k == Fusion!NewTrack(job[t].no, Fusion!Cardinality(job[t].made) + 1)
           w == [job[t] EXCEPT !.pc = "update", !.made = @ \union {k}, !.seen = 0]
<1>1. /\ job[t].pc = "take" /\ Fusion!Set(t, w)
      /\ clashed' = (clashed \/ count # job[t].seen + 1)
      /\ UNCHANGED <<tracked, lastPts, count, run, now, up, connected, redis,
                     fallback, expires, frames, faults, era>>
  <2>1. job[t].pc = "take" /\ Fusion!TakeCount(job[t].seen) /\ Fusion!Set(t, w)
        /\ UNCHANGED <<now, up, connected, redis, fallback, expires, frames, faults, era>>
    BY DEF Fusion!TakeId, Fusion!storeVars
  <2> QED BY <2>1 DEF Fusion!TakeCount
<1>2. job[t] \in Fusion!Jobs /\ job[t].no \in Nat /\ count \in 0 .. MaxId
      /\ run \in Nat \ {0} /\ MaxId \in Nat
  BY JobTyped, Typed, StreamsAre
<1>3. k \in OfRun /\ k.id = count
  <2>0. Fusion!Cardinality(job[t].made) = Cardinality(job[t].made)
    BY DEF Fusion!Cardinality, Cardinality
  <2>1. Fusion!Cardinality(job[t].made) + 1 \in Nat
    BY <2>0, FS_CardinalityType
  <2> QED BY <1>2, <2>1 DEF Fusion!NewTrack, Fusion!Tracks, OfRun
<1>4. k \in Fusion!Tracks /\ job[t].made \subseteq Fusion!Tracks
  BY <1>3, JobTyped DEF OfRun
<1> HIDE DEF k
<1>5a. job[t].made \union {k} \in SUBSET Fusion!Tracks /\ 0 \in 0 .. MaxId
  BY <1>2, <1>4
<1>5b. w = [job[t] EXCEPT !.pc = "update", !.made = job[t].made \union {k}, !.seen = 0]
  OBVIOUS
<1>5. /\ w \in Fusion!Jobs /\ w.pc = "update" /\ w.made = job[t].made \union {k}
      /\ w.pool = job[t].pool /\ w.todo = job[t].todo
      /\ w.key = job[t].key /\ w.camera = job[t].camera /\ w.pts = job[t].pts
      /\ w.era = job[t].era /\ w.no = job[t].no
      /\ w.track = job[t].track /\ w.vote = job[t].vote /\ w.since = job[t].since
  <2> HIDE DEF w
  <2>1. job[t] \in Fusion!Jobs
    BY <1>2
  <2> QED BY <2>1, <1>5a, <1>5b DEF Fusion!Jobs
<1> HIDE DEF w
<1>6. job' \in [Threads -> Fusion!Jobs] /\ job'[t] = w /\ Only(t)
  BY <1>1, <1>5, JobSet
<1>7. Held(t)' = Held(t) \union {k}
  BY <1>5, <1>6 DEF Held
<1>8. IsFiniteSet(job'[t].made)
  BY <1>5, <1>6, FS_AddElement
<1>9. clashed' \in BOOLEAN
  BY <1>1, Typed
<1>10. Fusion!TypeOK'
  BY <1>1, <1>6, <1>9 DEF Fusion!TypeOK
<1>11. SameFrame(t) /\ SameVote(t)
  BY <1>5, <1>6 DEF SameFrame, SameVote
<1>12. Work(t, {k})
  BY <1>1, <1>5, <1>6, <1>7, <1>8, <1>11 DEF Work, Middle
<1> QED BY <1>1, <1>3, <1>5, <1>6, <1>10, <1>12

LEMMA ReadWorks ==
  ASSUME Fusion!TypeOK, scope' = scope, NEW t \in Threads, Fusion!ReadPool(t)
  PROVE  /\ Fusion!TypeOK' /\ Work(t, {}) /\ job'[t].pc = "match"
         /\ UNCHANGED <<count, clashed>>
<1> DEFINE w == [job[t] EXCEPT !.pc = "match", !.pool = tracked[job[t].key]]
<1>1. /\ job[t].pc = "update" /\ Fusion!Set(t, w)
      /\ UNCHANGED <<tracked, lastPts, count, run, clashed, now, up, connected, redis,
                     fallback, expires, frames, faults, era>>
  BY DEF Fusion!ReadPool, Fusion!trackerVars, Fusion!storeVars
<1>2. job[t] \in Fusion!Jobs /\ tracked[job[t].key] \subseteq Fusion!Tracks
  BY Typed, JobTyped
<1>3. /\ w \in Fusion!Jobs /\ w.pc = "match" /\ w.made = job[t].made
      /\ w.pool = tracked[job[t].key] /\ w.todo = job[t].todo
      /\ w.key = job[t].key /\ w.camera = job[t].camera /\ w.pts = job[t].pts
      /\ w.era = job[t].era /\ w.no = job[t].no
      /\ w.track = job[t].track /\ w.vote = job[t].vote /\ w.since = job[t].since
  BY <1>2 DEF Fusion!Jobs
<1> HIDE DEF w
<1>4. job' \in [Threads -> Fusion!Jobs] /\ job'[t] = w /\ Only(t)
  BY <1>1, <1>3, JobSet
<1>5. Held(t)' \subseteq Held(t) \union tracked[job[t].key] /\ job'[t].made = job[t].made
  BY <1>3, <1>4 DEF Held
<1>6. Fusion!TypeOK'
  BY <1>1, <1>4 DEF Fusion!TypeOK
<1>7. SameFrame(t) /\ SameVote(t)
  BY <1>3, <1>4 DEF SameFrame, SameVote
<1>8. Work(t, {})
  BY <1>1, <1>3, <1>4, <1>5, <1>7 DEF Work, Middle
<1> QED BY <1>1, <1>3, <1>4, <1>6, <1>8

LEMMA AssociateWorks ==
  ASSUME Fusion!TypeOK, scope' = scope, NEW t \in Threads, Fusion!Associate(t)
  PROVE  /\ Fusion!TypeOK' /\ Work(t, {}) /\ job'[t].pc = "plates"
         /\ UNCHANGED <<count, clashed>>
<1>1. job[t].pc = "match" /\ UNCHANGED <<now, up, connected, redis, fallback, expires,
                                         frames, faults, era>>
  BY DEF Fusion!Associate, Fusion!storeVars
<1>2. PICK matched \in SUBSET job[t].pool, new \in SUBSET job[t].made :
        /\ Fusion!FinishUpdate(job[t].key, job[t].pool, job[t].made, matched, new)
        /\ Fusion!Set(t, [job[t] EXCEPT !.pc = "plates", !.todo = matched \union new,
                                        !.pool = {}, !.made = {}])
  BY DEF Fusion!Associate
<1>3. /\ job[t] \in Fusion!Jobs /\ job[t].key \in Streams
      /\ matched \union new \subseteq Fusion!Tracks
      /\ matched \union new \subseteq Held(t)
      /\ tracked \in [Streams -> SUBSET Fusion!Tracks]
  BY JobTyped, Typed DEF Held
<1>4. /\ tracked' = [tracked EXCEPT ![job[t].key] = matched \union new]
      /\ UNCHANGED <<lastPts, count, run, clashed>>
  BY <1>2 DEF Fusion!FinishUpdate
<1> DEFINE w == [job[t] EXCEPT !.pc = "plates", !.todo = matched \union new,
                               !.pool = {}, !.made = {}]
<1>5. Fusion!Set(t, w)
  BY <1>2
<1>6. /\ w \in Fusion!Jobs /\ w.pc = "plates" /\ w.made = {} /\ w.pool = {}
      /\ w.todo = matched \union new
      /\ w.key = job[t].key /\ w.camera = job[t].camera /\ w.pts = job[t].pts
      /\ w.era = job[t].era /\ w.no = job[t].no
      /\ w.track = job[t].track /\ w.vote = job[t].vote /\ w.since = job[t].since
  BY <1>3 DEF Fusion!Jobs
<1> HIDE DEF w
<1>7. job' \in [Threads -> Fusion!Jobs] /\ job'[t] = w /\ Only(t)
  BY <1>5, <1>6, JobSet
<1>8. Held(t)' = matched \union new /\ IsFiniteSet(job'[t].made)
  BY <1>6, <1>7, FS_EmptySet DEF Held
<1>9. /\ tracked' \in [Streams -> SUBSET Fusion!Tracks]
      /\ tracked'[job[t].key] = matched \union new
      /\ \A c \in Streams \ {job[t].key} : tracked'[c] = tracked[c]
  BY <1>3, <1>4
<1>10. Fusion!TypeOK'
  BY <1>1, <1>4, <1>7, <1>9 DEF Fusion!TypeOK
<1>11. SameFrame(t) /\ SameVote(t)
  BY <1>6, <1>7 DEF SameFrame, SameVote
<1>12. Work(t, {})
  BY <1>1, <1>3, <1>4, <1>6, <1>7, <1>8, <1>9, <1>11 DEF Work, Middle
<1> QED BY <1>4, <1>6, <1>7, <1>10, <1>12

\* A plate that cannot be read.
LEMMA SkipWorks ==
  ASSUME Fusion!TypeOK, scope' = scope, NEW t \in Threads, NEW k, Fusion!SkipTrack(t, k)
  PROVE  /\ Fusion!TypeOK' /\ Work(t, {}) /\ job'[t].pc = "plates"
         /\ UNCHANGED <<count, clashed>>
<1> DEFINE w == [job[t] EXCEPT !.todo = @ \ {k}]
<1>1. /\ job[t].pc = "plates" /\ Fusion!Set(t, w)
      /\ UNCHANGED <<tracked, lastPts, count, run, clashed, now, up, connected, redis,
                     fallback, expires, frames, faults, era>>
  BY DEF Fusion!SkipTrack, Fusion!trackerVars, Fusion!storeVars
<1>2. job[t] \in Fusion!Jobs
  BY JobTyped
<1>3. /\ w \in Fusion!Jobs /\ w.pc = job[t].pc /\ w.made = job[t].made
      /\ w.pool = job[t].pool /\ w.todo = job[t].todo \ {k}
      /\ w.key = job[t].key /\ w.camera = job[t].camera /\ w.pts = job[t].pts
      /\ w.era = job[t].era /\ w.no = job[t].no
      /\ w.track = job[t].track /\ w.vote = job[t].vote /\ w.since = job[t].since
  BY <1>2 DEF Fusion!Jobs
<1> HIDE DEF w
<1>4. job' \in [Threads -> Fusion!Jobs] /\ job'[t] = w /\ Only(t)
  BY <1>1, <1>3, JobSet
<1>5. Held(t)' \subseteq Held(t) /\ job'[t].made = job[t].made
  BY <1>3, <1>4 DEF Held
<1>6. Fusion!TypeOK'
  BY <1>1, <1>4 DEF Fusion!TypeOK
<1>7. SameFrame(t) /\ SameVote(t)
  BY <1>3, <1>4 DEF SameFrame, SameVote
<1>8. Work(t, {})
  BY <1>1, <1>3, <1>4, <1>5, <1>7 DEF Work, Middle
<1> QED BY <1>1, <1>3, <1>4, <1>6, <1>8

\* A job of which at most `since` changes.
Like(u) ==
  /\ job'[u].pc = job[u].pc /\ SameFrame(u)
  /\ job'[u].made = job[u].made /\ job'[u].seen = job[u].seen
  /\ job'[u].pool = job[u].pool /\ job'[u].todo = job[u].todo
  /\ job'[u].track = job[u].track /\ job'[u].vote = job[u].vote

\* The sample that a plate read of track k becomes.
Sample(t, k) ==
  [track |-> k, camera |-> job[t].camera, pts |-> job[t].pts, no |-> job[t].no,
   era |-> job[t].era]

\* The sample x is written: to the list that is read next, and perhaps the other.
Files(K, x) ==
  /\ redis'[K] = redis[K] \/ redis'[K] = Append(redis[K], x)
  /\ fallback'[K] = fallback[K] \/ fallback'[K] = Append(fallback[K], x)
  /\ \A L \in Keys \ {K} :
       /\ redis'[L] = redis[L] /\ fallback'[L] = fallback[L]
       /\ expires'["fallback"][L] = expires["fallback"][L]
  /\ IF connected /\ up THEN redis'[K] = Append(redis[K], x)
     ELSE fallback'[K] = Append(fallback[K], x) /\ expires'["fallback"][K] = now + Ttl
  /\ UNCHANGED <<now, up, connected>>

\* A call writes the sample of a track.
Adds(t, k) ==
  /\ job[t].pc = "plates" /\ k \in job[t].todo
  /\ <<job[t].key, k.id>> \in Keys /\ Sample(t, k) \in Fusion!SampleRecords
  /\ job'[t].pc = "fuse" /\ job'[t].track = k /\ job'[t].vote = <<>> /\ job'[t].since = 0
  /\ SameFrame(t) /\ Held(t)' \subseteq Held(t) /\ job'[t].made = job[t].made
  /\ \A u \in Threads \ {t} :
       /\ Like(u) /\ (job[u].pc # "fuse" => job'[u] = job[u])
       /\ job'[u].since = IF job[u].pc = "fuse" /\ JobKey(u) = <<job[t].key, k.id>>
                          THEN job[u].since + 1 ELSE job[u].since
  /\ Files(<<job[t].key, k.id>>, Sample(t, k))
  /\ UNCHANGED <<tracked, lastPts, count, run, clashed, era>>

\* A write reaches the list that is read next, and perhaps the other one.
LEMMA Recorded ==
  ASSUME Fusion!TypeOK, NEW K \in Keys, NEW x \in Fusion!SampleRecords,
         Fusion!Record(K, x) \/ Fusion!RecordTwice(K, x)
  PROVE  /\ redis' \in [Keys -> Seq(Fusion!SampleRecords)]
         /\ fallback' \in [Keys -> Seq(Fusion!SampleRecords)]
         /\ expires' \in [{"redis", "fallback"} -> [Keys -> Nat]]
         /\ redis'[K] = redis[K] \/ redis'[K] = Append(redis[K], x)
         /\ fallback'[K] = fallback[K] \/ fallback'[K] = Append(fallback[K], x)
         /\ \A k \in Keys \ {K} :
              /\ redis'[k] = redis[k] /\ fallback'[k] = fallback[k]
              /\ expires'["fallback"][k] = expires["fallback"][k]
         /\ IF connected /\ up THEN redis'[K] = Append(redis[K], x)
            ELSE fallback'[K] = Append(fallback[K], x) /\ expires'["fallback"][K] = now + Ttl
         /\ UNCHANGED <<now, up, connected>>
<1>1. /\ redis \in [Keys -> Seq(Fusion!SampleRecords)]
      /\ fallback \in [Keys -> Seq(Fusion!SampleRecords)]
      /\ expires \in [{"redis", "fallback"} -> [Keys -> Nat]]
      /\ now \in Nat /\ now + Ttl \in Nat
  BY StreamsAre DEF Fusion!TypeOK
<1>2. Append(redis[K], x) \in Seq(Fusion!SampleRecords)
      /\ Append(fallback[K], x) \in Seq(Fusion!SampleRecords)
  BY <1>1
<1>3. ASSUME NEW st \in {"redis", "fallback"}, Fusion!PushTo(st, K, x)
      PROVE  /\ redis' \in [Keys -> Seq(Fusion!SampleRecords)]
             /\ fallback' \in [Keys -> Seq(Fusion!SampleRecords)]
             /\ expires' \in [{"redis", "fallback"} -> [Keys -> Nat]]
             /\ \A k \in Keys \ {K} :
                  /\ redis'[k] = redis[k] /\ fallback'[k] = fallback[k]
                  /\ expires'["fallback"][k] = expires["fallback"][k]
             /\ IF st = "redis"
                THEN redis'[K] = Append(redis[K], x) /\ fallback'[K] = fallback[K]
                ELSE /\ fallback'[K] = Append(fallback[K], x) /\ redis'[K] = redis[K]
                     /\ expires'["fallback"][K] = now + Ttl
  <2>1. expires' = [expires EXCEPT ![st] = [expires[st] EXCEPT ![K] = now + Ttl]]
    BY <1>3 DEF Fusion!PushTo
  <2>2. [expires[st] EXCEPT ![K] = now + Ttl] \in [Keys -> Nat]
    BY <1>1
  <2>3. expires' \in [{"redis", "fallback"} -> [Keys -> Nat]]
    BY <1>1, <2>1, <2>2
  <2>4. \A k \in Keys \ {K} : expires'["fallback"][k] = expires["fallback"][k]
    BY <1>1, <2>1
  <2>5. st = "fallback" => expires'["fallback"][K] = now + Ttl
    BY <1>1, <2>1
  <2>6. CASE st = "redis"
    <3>1. redis' = [redis EXCEPT ![K] = Append(redis[K], x)] /\ fallback' = fallback
      BY <1>3, <2>6 DEF Fusion!PushTo
    <3> QED BY <1>1, <1>2, <2>3, <2>4, <2>6, <3>1
  <2>7. CASE st = "fallback"
    <3>1. fallback' = [fallback EXCEPT ![K] = Append(fallback[K], x)] /\ redis' = redis
      BY <1>3, <2>7 DEF Fusion!PushTo
    <3> QED BY <1>1, <1>2, <2>3, <2>4, <2>5, <2>7, <3>1
  <2> QED BY <2>6, <2>7
<1>4. CASE Fusion!Record(K, x)
  <2>1. UNCHANGED <<now, up, connected>>
    BY <1>4 DEF Fusion!Record
  <2>2. CASE connected /\ up
    <3>1. Fusion!PushTo("redis", K, x)
      BY <1>4, <2>2 DEF Fusion!Record, Fusion!Answers
    <3> QED BY <1>3, <2>1, <2>2, <3>1
  <2>3. CASE ~(connected /\ up)
    <3>1. Fusion!PushTo("fallback", K, x)
      BY <1>4, <2>3 DEF Fusion!Record, Fusion!Answers
    <3> QED BY <1>3, <2>1, <2>3, <3>1
  <2> QED BY <2>2, <2>3
<1>5. CASE Fusion!RecordTwice(K, x)
  <2>1. /\ connected /\ up /\ UNCHANGED <<now, up, connected>>
        /\ redis' = [redis EXCEPT ![K] = Append(redis[K], x)]
        /\ fallback' = [fallback EXCEPT ![K] = Append(fallback[K], x)]
        /\ expires' = [s \in {"redis", "fallback"} |-> [expires[s] EXCEPT ![K] = now + Ttl]]
    BY <1>1, <1>5 DEF Fusion!RecordTwice, Fusion!Answers
  <2>2. expires' \in [{"redis", "fallback"} -> [Keys -> Nat]]
    BY <1>1, <2>1
  <2>3. \A k \in Keys \ {K} : expires'["fallback"][k] = expires["fallback"][k]
    BY <1>1, <2>1
  <2> QED BY <1>1, <1>2, <2>1, <2>2, <2>3
<1> QED BY <1>4, <1>5

LEMMA AddAdds ==
  ASSUME Fusion!TypeOK, scope' = scope, NEW t \in Threads, NEW k \in job[t].todo,
         Fusion!AddSample(t, k), job[t].camera \in Cameras
  PROVE  Fusion!TypeOK' /\ Adds(t, k)
<1> DEFINE K == <<job[t].key, k.id>>
           w == [job[t] EXCEPT !.pc = "fuse", !.todo = @ \ {k}, !.track = k,
                               !.vote = <<>>, !.since = 0]
<1>1. /\ job[t] \in Fusion!Jobs /\ faults \in Nat /\ k \in Fusion!Tracks
      /\ job[t].key \in Streams /\ job[t].pts \in Nat /\ job[t].no \in Nat
      /\ job[t].era \in Nat /\ job \in [Threads -> Fusion!Jobs]
  BY JobTyped, Typed
<1>2. k.id \in 0 .. MaxId /\ k \in [id : 0 .. MaxId, run : Nat, no : Nat, nth : Nat]
  BY <1>1 DEF Fusion!Tracks
<1>3. K \in Keys
  BY <1>1, <1>2, StreamsAre
<1>4. Sample(t, k) \in Fusion!SampleRecords
  BY <1>1 DEF Sample, Fusion!SampleRecords
<1>5. /\ job[t].pc = "plates"
      /\ \/ Fusion!Record(K, Sample(t, k)) /\ faults' = faults
         \/ Fusion!RecordTwice(K, Sample(t, k)) /\ faults' = faults + 1
      /\ job' = [u \in Threads |->
                   IF u = t THEN w
                   ELSE IF u \in Fusion!Waiting(K) THEN [job[u] EXCEPT !.since = @ + 1]
                   ELSE job[u]]
      /\ UNCHANGED <<tracked, lastPts, count, run, clashed, frames, era>>
  BY DEF Fusion!AddSample, Fusion!SampleKey, Sample, Fusion!trackerVars
<1>6. <<>> \in Seq(Fusion!SampleRecords)
  OBVIOUS
<1>7. /\ w \in Fusion!Jobs /\ w.pc = "fuse" /\ w.todo = job[t].todo \ {k}
      /\ w.track = k /\ w.vote = <<>> /\ w.since = 0
      /\ w.made = job[t].made /\ w.pool = job[t].pool
      /\ w.key = job[t].key /\ w.camera = job[t].camera /\ w.pts = job[t].pts
      /\ w.era = job[t].era /\ w.no = job[t].no
  BY <1>1, <1>2, <1>6 DEF Fusion!Jobs
<1> HIDE DEF w
<1>8. job'[t] = w
  BY <1>5
<1>9. \A u \in Threads : u \in Fusion!Waiting(K) <=> job[u].pc = "fuse" /\ JobKey(u) = K
  BY DEF Fusion!Waiting, Fusion!SampleKey, JobKey
<1>10. ASSUME NEW u \in Threads \ {t}
       PROVE  /\ job'[u] \in Fusion!Jobs /\ Like(u)
              /\ job[u].pc # "fuse" => job'[u] = job[u]
              /\ job'[u].since = IF job[u].pc = "fuse" /\ JobKey(u) = K
                                 THEN job[u].since + 1 ELSE job[u].since
  <2>1. job[u] \in Fusion!Jobs /\ job[u].since \in Nat
    BY JobTyped
  <2>2. CASE u \in Fusion!Waiting(K)
    <3> DEFINE n == job[u].since + 1
               v == [job[u] EXCEPT !.since = n]
    <3>1. job'[u] = v
      BY <1>5, <2>2
    <3>0. n \in Nat
      BY <2>1
    <3> HIDE DEF n
    <3>2. /\ v \in Fusion!Jobs /\ v.since = n
          /\ v.pc = job[u].pc /\ v.made = job[u].made /\ v.seen = job[u].seen
          /\ v.pool = job[u].pool /\ v.todo = job[u].todo
          /\ v.track = job[u].track /\ v.vote = job[u].vote
          /\ v.key = job[u].key /\ v.camera = job[u].camera /\ v.pts = job[u].pts
          /\ v.era = job[u].era /\ v.no = job[u].no
      BY <2>1, <3>0 DEF Fusion!Jobs
    <3> HIDE DEF v
    <3> QED BY <1>9, <2>2, <3>1, <3>2 DEF Like, SameFrame, n
  <2>3. CASE u \notin Fusion!Waiting(K)
    <3>1. job'[u] = job[u]
      BY <1>5, <2>3
    <3> QED BY <1>9, <2>1, <2>3, <3>1 DEF Like, SameFrame
  <2> QED BY <2>2, <2>3
<1>11. job' \in [Threads -> Fusion!Jobs]
  <2>1. job' = [u \in Threads |-> job'[u]]
    BY <1>5
  <2>2. \A u \in Threads : job'[u] \in Fusion!Jobs
    BY <1>7, <1>8, <1>10
  <2> HIDE <1>5
  <2> QED BY <2>1, <2>2
<1>12. PICK x \in Fusion!SampleRecords : x = Sample(t, k)
  BY <1>4
<1>13. /\ redis' \in [Keys -> Seq(Fusion!SampleRecords)]
       /\ fallback' \in [Keys -> Seq(Fusion!SampleRecords)]
       /\ expires' \in [{"redis", "fallback"} -> [Keys -> Nat]]
       /\ Files(K, x)
  <2>1. Fusion!Record(K, x) \/ Fusion!RecordTwice(K, x)
    BY <1>5, <1>12
  <2> HIDE DEF K
  <2> QED BY <1>3, <2>1, Recorded DEF Files
<1>14. UNCHANGED <<now, up, connected>> /\ faults' \in Nat
  BY <1>1, <1>5, <1>13 DEF Files
<1>15. Fusion!TypeOK'
  BY <1>5, <1>11, <1>13, <1>14 DEF Fusion!TypeOK
<1>16. SameFrame(t) /\ Held(t)' \subseteq Held(t) /\ job'[t].made = job[t].made
  BY <1>7, <1>8 DEF SameFrame, Held
<1>17. Adds(t, k)
  <2>1. UNCHANGED <<tracked, lastPts, count, run, clashed, era>> /\ job[t].pc = "plates"
    BY <1>5
  <2>2. Files(<<job[t].key, k.id>>, Sample(t, k))
    BY <1>12, <1>13
  <2>3. /\ job'[t].pc = "fuse" /\ job'[t].track = k /\ job'[t].vote = <<>>
        /\ job'[t].since = 0
    BY <1>7, <1>8
  <2>4. \A u \in Threads \ {t} :
          /\ Like(u) /\ (job[u].pc # "fuse" => job'[u] = job[u])
          /\ job'[u].since = IF job[u].pc = "fuse" /\ JobKey(u) = <<job[t].key, k.id>>
                             THEN job[u].since + 1 ELSE job[u].since
    BY <1>10
  <2>5. <<job[t].key, k.id>> \in Keys
    BY <1>3
  <2> HIDE <1>5, <1>10
  <2> QED BY <1>4, <1>16, <2>1, <2>2, <2>3, <2>4, <2>5 DEF Adds
<1> QED BY <1>15, <1>17

\* The last samples of a list: a window that ends where the list ends.
LEMMA RecentWindow ==
  ASSUME NEW S, NEW q \in Seq(S), Len(q) > 1
  PROVE  /\ Fusion!Recent(q) \in Seq(S) /\ Len(Fusion!Recent(q)) >= 1
         /\ Len(Fusion!Recent(q)) >= Window \/ Len(Fusion!Recent(q)) = Len(q)
         /\ \E d \in Nat : /\ d + Len(Fusion!Recent(q)) = Len(q)
                           /\ \A p \in 1 .. Len(Fusion!Recent(q)) :
                                p + d \in 1 .. Len(q) /\ Fusion!Recent(q)[p] = q[p + d]
<1> DEFINE first == IF Len(q) > Window THEN Len(q) - Window + 1 ELSE 1
<1>1. Len(q) \in Nat /\ Window \in Nat \ {0}
  BY StreamsAre
<1>2. first \in 1 .. Len(q)
  BY <1>1
<1>3. Fusion!Recent(q) = SubSeq(q, first, Len(q))
  BY DEF Fusion!Recent
<1>w. Len(q) - first + 1 >= Window \/ Len(q) - first + 1 = Len(q)
  BY <1>1
<1> HIDE DEF first
<1>4. /\ SubSeq(q, first, Len(q)) \in Seq(S)
      /\ Len(SubSeq(q, first, Len(q))) = Len(q) - first + 1
      /\ \A p \in 1 .. Len(q) - first + 1 : SubSeq(q, first, Len(q))[p] = q[p + first - 1]
  BY <1>1, <1>2
<1>5. PICK d \in Nat : d = first - 1
  BY <1>1, <1>2
<1>6. Len(q) - first + 1 \in Nat /\ Len(q) - first + 1 >= 1 /\ d + (Len(q) - first + 1) = Len(q)
  BY <1>1, <1>2, <1>5
<1>7. \A p \in 1 .. Len(q) - first + 1 : p + d \in 1 .. Len(q) /\ p + first - 1 = p + d
  BY <1>1, <1>2, <1>5
<1>8. \A p \in 1 .. Len(q) - first + 1 :
        p + d \in 1 .. Len(q) /\ SubSeq(q, first, Len(q))[p] = q[p + d]
  BY <1>4, <1>7
<1> QED BY <1>3, <1>4, <1>6, <1>8, <1>w

\* Lists are kept or dropped.
ListsKept ==
  \A K \in Keys : /\ redis'[K] = redis[K] \/ redis'[K] = <<>>
                  /\ fallback'[K] = fallback[K] \/ fallback'[K] = <<>>

\* A call reads the list of its track and votes; an expired list of the fallback goes.
Fuses(t) ==
  /\ job[t].pc = "fuse" /\ job'[t].pc = "plates" /\ Only(t) /\ SameFrame(t)
  /\ Held(t)' = Held(t) /\ job'[t].made = job[t].made
  /\ job'[t].track = job[t].track /\ job'[t].since = job[t].since
  /\ \/ job'[t].vote = <<>>
     \/ \E list \in {redis[JobKey(t)], fallback[JobKey(t)]} :
          /\ list = IF connected /\ up THEN redis[JobKey(t)] ELSE fallback[JobKey(t)]
          /\ Len(list) > 1 /\ job'[t].vote = Fusion!Recent(list)
  /\ ListsKept /\ redis' = redis
  /\ \A K \in Keys : \/ fallback'[K] = fallback[K]
                     \/ now > expires["fallback"][K] /\ ~(connected /\ up)
  /\ UNCHANGED <<tracked, lastPts, count, run, clashed, era, now, up, connected, expires>>

LEMMA FuseFuses ==
  ASSUME Fusion!TypeOK, scope' = scope, NEW t \in Threads, Fusion!Fuse(t)
  PROVE  Fusion!TypeOK' /\ Fuses(t)
<1> DEFINE s == Fusion!Samples(JobKey(t))
           v == IF Len(s) <= 1 THEN <<>> ELSE Fusion!Recent(s)
           w == [job[t] EXCEPT !.pc = "plates", !.vote = v]
<1>1. /\ job[t] \in Fusion!Jobs /\ JobKey(t) \in Keys
      /\ redis \in [Keys -> Seq(Fusion!SampleRecords)]
      /\ fallback \in [Keys -> Seq(Fusion!SampleRecords)]
  BY JobTyped, Typed
<1>2. /\ job[t].pc = "fuse" /\ Fusion!Read(JobKey(t)) /\ Fusion!Set(t, w)
      /\ UNCHANGED <<tracked, lastPts, count, run, clashed, frames, faults, era>>
  BY DEF Fusion!Fuse, Fusion!SampleKey, JobKey, Fusion!trackerVars
<1>3. \/ s = <<>>
      \/ s = IF connected /\ up THEN redis[JobKey(t)] ELSE fallback[JobKey(t)]
  BY DEF Fusion!Samples, Fusion!Answers
<1>4. <<>> \in Seq(Fusion!SampleRecords)
  OBVIOUS
<1>5. s \in Seq(Fusion!SampleRecords)
  <2>1. /\ redis[JobKey(t)] \in Seq(Fusion!SampleRecords)
        /\ fallback[JobKey(t)] \in Seq(Fusion!SampleRecords)
    BY <1>1
  <2> HIDE DEF s
  <2> QED BY <1>3, <1>4, <2>1
<1>6. v = <<>> \/ (s # <<>> /\ Len(s) > 1 /\ v = Fusion!Recent(s))
  BY <1>5
<1> HIDE DEF s, v
<1>7. v \in Seq(Fusion!SampleRecords)
  <2>1. CASE v = <<>>
    BY <1>4, <2>1
  <2>2. CASE Len(s) > 1 /\ v = Fusion!Recent(s)
    BY <1>5, <2>2, RecentWindow
  <2> QED BY <1>6, <2>1, <2>2
<1>8. /\ w \in Fusion!Jobs /\ w.pc = "plates" /\ w.vote = v
      /\ w.made = job[t].made /\ w.pool = job[t].pool /\ w.todo = job[t].todo
      /\ w.key = job[t].key /\ w.camera = job[t].camera /\ w.pts = job[t].pts
      /\ w.era = job[t].era /\ w.no = job[t].no
      /\ w.track = job[t].track /\ w.since = job[t].since
  BY <1>1, <1>7 DEF Fusion!Jobs
<1> HIDE DEF w
<1>9. job' \in [Threads -> Fusion!Jobs] /\ job'[t] = w /\ Only(t)
  BY <1>2, <1>8, JobSet
<1>10. /\ UNCHANGED <<now, up, connected, redis, expires>>
       /\ \/ fallback' = fallback
          \/ /\ fallback' = [fallback EXCEPT ![JobKey(t)] = <<>>]
             /\ now > expires["fallback"][JobKey(t)] /\ ~(connected /\ up)
  BY <1>2 DEF Fusion!Read, Fusion!Expired, Fusion!Answers
<1>11. /\ fallback' \in [Keys -> Seq(Fusion!SampleRecords)]
       /\ \A K \in Keys : fallback'[K] = fallback[K] \/ fallback'[K] = <<>>
       /\ \A K \in Keys : \/ fallback'[K] = fallback[K]
                          \/ now > expires["fallback"][K] /\ ~(connected /\ up)
  <2>1. CASE fallback' = fallback
    BY <1>1, <2>1
  <2>2. CASE /\ fallback' = [fallback EXCEPT ![JobKey(t)] = <<>>]
             /\ now > expires["fallback"][JobKey(t)] /\ ~(connected /\ up)
    BY <1>1, <1>4, <2>2
  <2> QED BY <1>10, <2>1, <2>2
<1>12. Fusion!TypeOK'
  BY <1>2, <1>9, <1>10, <1>11 DEF Fusion!TypeOK
<1>13. SameFrame(t) /\ Held(t)' = Held(t) /\ job'[t].made = job[t].made
  BY <1>8, <1>9 DEF SameFrame, Held
<1>14. \/ job'[t].vote = <<>>
       \/ \E list \in {redis[JobKey(t)], fallback[JobKey(t)]} :
            /\ list = IF connected /\ up THEN redis[JobKey(t)] ELSE fallback[JobKey(t)]
            /\ Len(list) > 1 /\ job'[t].vote = Fusion!Recent(list)
  BY <1>3, <1>6, <1>8, <1>9
<1>15. ListsKept
  BY <1>10, <1>11 DEF ListsKept
<1>16. Fuses(t)
  BY <1>2, <1>8, <1>9, <1>10, <1>11, <1>13, <1>14, <1>15 DEF Fuses
<1> QED BY <1>12, <1>16

\* A frame is done.
Ends(t) ==
  /\ Only(t) /\ job'[t] = Fusion!Idle
  /\ UNCHANGED <<tracked, lastPts, count, run, clashed, era, now, up, connected, redis,
                 fallback, expires>>

LEMMA EndEnds ==
  ASSUME Fusion!TypeOK, scope' = scope, NEW t \in Threads, Fusion!EndFrame(t)
  PROVE  Fusion!TypeOK' /\ Ends(t)
<1>1. /\ Fusion!Set(t, Fusion!Idle)
      /\ UNCHANGED <<tracked, lastPts, count, run, clashed, now, up, connected, redis,
                     fallback, expires, frames, faults, era>>
  BY DEF Fusion!EndFrame, Fusion!trackerVars, Fusion!storeVars
<1>2. job' \in [Threads -> Fusion!Jobs] /\ job'[t] = Fusion!Idle /\ Only(t)
  BY <1>1, IdleJob, JobSet
<1>3. Fusion!TypeOK'
  BY <1>1, <1>2 DEF Fusion!TypeOK
<1> QED BY <1>1, <1>2, <1>3 DEF Ends

\* The tracker of stream c is reset from outside.
Resets(c) ==
  /\ tracked'[c] = {}
  /\ \A d \in Streams \ {c} : tracked'[d] = tracked[d] /\ lastPts'[d] = lastPts[d]
                              /\ era'[d] = era[d]
  /\ \/ era'[c] = era[c] + 1
     \/ era'[c] = era[c] /\ \A u \in Threads : Working(u) => job[u].key # c
  /\ UNCHANGED <<job, count, run, clashed, now, up, connected, redis, fallback, expires>>

LEMMA ResetResets ==
  ASSUME Fusion!TypeOK, scope' = scope, NEW c \in Cameras, Fusion!ResetScene(c)
  PROVE  Fusion!TypeOK' /\ c \in Streams /\ Resets(c)
<1>0. /\ tracked \in [Streams -> SUBSET Fusion!Tracks] /\ lastPts \in [Streams -> Nat]
      /\ era \in [Streams -> Nat] /\ frames \in Nat
  BY Typed
<1>1. /\ c \in Streams /\ frames' = frames + 1
      /\ tracked' = [tracked EXCEPT ![c] = {}] /\ lastPts' = [lastPts EXCEPT ![c] = 0]
      /\ era' = IF Fusion!Busy(c) = {} THEN era ELSE [era EXCEPT ![c] = @ + 1]
      /\ UNCHANGED <<job, count, run, clashed, now, up, connected, redis, fallback, expires,
                     faults>>
  BY StreamsAre DEF Fusion!ResetScene, Fusion!ResetCamera, Fusion!storeVars, Fusion!NoPts
<1>2. /\ era' \in [Streams -> Nat] /\ \A d \in Streams \ {c} : era'[d] = era[d]
      /\ \/ era'[c] = era[c] + 1
         \/ era'[c] = era[c] /\ \A u \in Threads : Working(u) => job[u].key # c
  <2>1. CASE Fusion!Busy(c) = {}
    BY <1>0, <1>1, <2>1, BusyWith
  <2>2. CASE Fusion!Busy(c) # {}
    BY <1>0, <1>1, <2>2
  <2> QED BY <2>1, <2>2
<1>3. /\ tracked' \in [Streams -> SUBSET Fusion!Tracks] /\ tracked'[c] = {}
      /\ lastPts' \in [Streams -> Nat]
      /\ \A d \in Streams \ {c} : tracked'[d] = tracked[d] /\ lastPts'[d] = lastPts[d]
  BY <1>0, <1>1
<1>4. frames' \in Nat
  BY <1>0, <1>1
<1>5. Fusion!TypeOK'
  BY <1>1, <1>2, <1>3, <1>4 DEF Fusion!TypeOK
<1> QED BY <1>1, <1>2, <1>3, <1>5 DEF Resets

\* Redis or the clock changes: lists may be dropped, and the calls that are between
\* their write and their read are no longer sure of theirs.
Faulted ==
  /\ Fusion!TypeOK'
  /\ \A u \in Threads :
       /\ Like(u)
       /\ job[u].pc = "fuse" => job'[u].since = Window
       /\ job[u].pc # "fuse" => job'[u] = job[u]
  /\ ListsKept
  /\ UNCHANGED <<tracked, lastPts, count, run, clashed, era>>

LEMMA FaultStep ==
  ASSUME Fusion!TypeOK, scope' = scope, NEW change, Fusion!Fault(change), faults' \in Nat,
         change => Fusion!RedisFails \/ Fusion!RedisReturns \/ Fusion!HealthCheck \/ Fusion!Tick
  PROVE  Faulted
<1>1. /\ redis \in [Keys -> Seq(Fusion!SampleRecords)] /\ now \in Nat /\ up \in BOOLEAN
      /\ fallback \in [Keys -> Seq(Fusion!SampleRecords)]
      /\ connected \in BOOLEAN /\ job \in [Threads -> Fusion!Jobs]
  BY Typed
<1>2. /\ change
      /\ job' = [u \in Threads |-> IF job[u].pc = "fuse" THEN [job[u] EXCEPT !.since = Window]
                                   ELSE job[u]]
      /\ UNCHANGED <<tracked, lastPts, count, run, clashed, frames, era>>
  BY DEF Fusion!Fault, Fusion!trackerVars
<1>3. /\ UNCHANGED <<fallback, expires>>
      /\ now' \in Nat /\ up' \in BOOLEAN /\ connected' \in BOOLEAN
      /\ redis' \in [Keys -> Seq(Fusion!SampleRecords)]
      /\ \A k \in Keys : redis'[k] = redis[k] \/ redis'[k] = <<>>
  <2>1. CASE Fusion!RedisFails \/ Fusion!RedisReturns \/ Fusion!HealthCheck
    BY <1>1, <2>1 DEF Fusion!RedisFails, Fusion!RedisReturns, Fusion!HealthCheck, Fusion!lists
  <2>2. CASE Fusion!Tick
    <3>1. /\ now' = now + 1 /\ UNCHANGED <<up, connected, fallback, expires>>
          /\ redis' = [k \in Keys |-> IF expires["redis"][k] <= now' THEN <<>> ELSE redis[k]]
      BY <2>2 DEF Fusion!Tick
    <3>2. <<>> \in Seq(Fusion!SampleRecords)
      OBVIOUS
    <3>3. now' \in Nat
      BY <1>1, <3>1
    <3>4. \A k \in Keys : redis'[k] = redis[k] \/ redis'[k] = <<>>
      BY <3>1
    <3>5. redis' \in [Keys -> Seq(Fusion!SampleRecords)]
      BY <1>1, <3>1, <3>2
    <3> QED BY <1>1, <3>1, <3>3, <3>4, <3>5
  <2> QED BY <1>2, <2>1, <2>2
<1>4. ASSUME NEW u \in Threads
      PROVE  /\ job'[u] \in Fusion!Jobs /\ Like(u)
             /\ job[u].pc = "fuse" => job'[u].since = Window
             /\ job[u].pc # "fuse" => job'[u] = job[u]
  <2>1. job[u] \in Fusion!Jobs /\ Window \in Nat
    BY <1>1, StreamsAre
  <2>2. CASE job[u].pc = "fuse"
    <3> DEFINE v == [job[u] EXCEPT !.since = Window]
    <3>1. job'[u] = v
      BY <1>2, <2>2
    <3>2. /\ v \in Fusion!Jobs /\ v.since = Window
          /\ v.pc = job[u].pc /\ v.made = job[u].made /\ v.seen = job[u].seen
          /\ v.pool = job[u].pool /\ v.todo = job[u].todo
          /\ v.track = job[u].track /\ v.vote = job[u].vote
          /\ v.key = job[u].key /\ v.camera = job[u].camera /\ v.pts = job[u].pts
          /\ v.era = job[u].era /\ v.no = job[u].no
      BY <2>1 DEF Fusion!Jobs
    <3> HIDE DEF v
    <3> QED BY <2>2, <3>1, <3>2 DEF Like, SameFrame
  <2>3. CASE job[u].pc # "fuse"
    BY <1>2, <2>1, <2>3 DEF Like, SameFrame
  <2> QED BY <2>2, <2>3
<1>5. job' \in [Threads -> Fusion!Jobs]
  <2>1. job' = [u \in Threads |-> job'[u]]
    BY <1>2
  <2>2. \A u \in Threads : job'[u] \in Fusion!Jobs
    BY <1>4
  <2> HIDE <1>2
  <2> QED BY <2>1, <2>2
<1>6. Fusion!TypeOK'
  <2> HIDE <1>4
  <2> QED BY <1>2, <1>3, <1>5 DEF Fusion!TypeOK
<1>7. ListsKept
  BY <1>3 DEF ListsKept
<1> QED BY <1>2, <1>4, <1>6, <1>7 DEF Faulted

\* The process starts again with the samples Redis kept.
Restarted ==
  /\ \A u \in Threads : job'[u] = Fusion!Idle
  /\ \A c \in Streams : tracked'[c] = {}
  /\ run' = run + 1
  /\ ListsKept

LEMMA RestartStep ==
  ASSUME Fusion!TypeOK, scope' = scope, Fusion!Restart
  PROVE  Fusion!TypeOK' /\ Restarted
<1>1. /\ redis \in [Keys -> Seq(Fusion!SampleRecords)] /\ run \in Nat \ {0}
      /\ expires \in [{"redis", "fallback"} -> [Keys -> Nat]]
      /\ up \in BOOLEAN /\ scope.ids \in 0 .. MaxId /\ MaxId \in Nat
  BY Typed, ScopeTyped
<1>2. /\ tracked' = [c \in Streams |-> {}] /\ lastPts' = [c \in Streams |-> 0]
      /\ count' = 0 /\ run' = run + 1 /\ clashed' = FALSE
      /\ era' = [c \in Streams |-> 0]
      /\ job' = [t \in Threads |-> Fusion!Idle]
      /\ UNCHANGED <<frames, faults, now, up, redis>>
      /\ connected' = up /\ fallback' = [k \in Keys |-> <<>>]
      /\ expires' = [expires EXCEPT !["fallback"] = [k \in Keys |-> 0]]
  BY DEF Fusion!Restart, Fusion!RestartTrackers, Fusion!RestartStore, Fusion!NoPts
<1>3. <<>> \in Seq(Fusion!SampleRecords) /\ {} \in SUBSET Fusion!Tracks
  OBVIOUS
<1>4. /\ tracked' \in [Streams -> SUBSET Fusion!Tracks] /\ lastPts' \in [Streams -> Nat]
      /\ era' \in [Streams -> Nat] /\ count' \in 0 .. scope.ids /\ run' \in Nat \ {0}
      /\ clashed' \in BOOLEAN
  <2>1. tracked' \in [Streams -> SUBSET Fusion!Tracks]
    BY <1>2, <1>3
  <2>2. lastPts' \in [Streams -> Nat] /\ era' \in [Streams -> Nat] /\ clashed' \in BOOLEAN
    BY <1>2
  <2>3. count' \in 0 .. scope.ids /\ run' \in Nat \ {0}
    BY <1>1, <1>2
  <2> QED BY <2>1, <2>2, <2>3
<1>5. job' \in [Threads -> Fusion!Jobs] /\ \A u \in Threads : job'[u] = Fusion!Idle
  BY <1>2, IdleJob
<1>6. fallback' \in [Keys -> Seq(Fusion!SampleRecords)]
      /\ \A k \in Keys : fallback'[k] = <<>>
  BY <1>2, <1>3
<1>7. expires' \in [{"redis", "fallback"} -> [Keys -> Nat]]
  <2>1. [k \in Keys |-> 0] \in [Keys -> Nat]
    OBVIOUS
  <2> QED BY <1>1, <1>2, <2>1
<1>8. Fusion!TypeOK'
  <2>1. UNCHANGED <<frames, faults, now, up, redis>> /\ connected' = up
    BY <1>2
  <2> HIDE <1>2
  <2> QED BY <2>1, <1>4, <1>5, <1>6, <1>7 DEF Fusion!TypeOK
<1>9. Restarted
  BY <1>2, <1>5, <1>6 DEF Restarted, ListsKept
<1> QED BY <1>8, <1>9

-----------------------------------------------------------------------------
(* The steps, over the whole of the constants                              *)

LEMMA StepOf ==
  ASSUME Fusion!TypeOK, Fusion!Next
  PROVE  /\ scope' = scope
         /\ \/ \E t \in Threads, c \in Cameras, k \in Streams, pts \in Nat, gap \in BOOLEAN :
                 Fusion!Detect(t, c, k, pts, gap)
            \/ \E t \in Threads : Fusion!LoadId(t) \/ Fusion!StoreId(t) \/ Fusion!TakeId(t)
            \/ \E t \in Threads : Fusion!ReadPool(t) \/ Fusion!Associate(t)
            \/ \E t \in Threads : \E k \in job[t].todo : Fusion!SkipTrack(t, k)
            \/ \E t \in Threads : \E k \in job[t].todo : Fusion!AddSample(t, k)
            \/ \E t \in Threads : Fusion!Fuse(t) \/ Fusion!EndFrame(t)
            \/ \E c \in Cameras : Fusion!ResetScene(c)
            \/ Faulted
            \/ Fusion!Restart
<1>1. /\ scope.threads \subseteq Threads /\ scope.cameras \subseteq Cameras
      /\ scope.pts \subseteq Nat /\ scope.resets \in BOOLEAN
  BY ScopeTyped
<1>2. Fusion!Step /\ scope' = scope
  BY DEF Fusion!Next
<1>3. ASSUME NEW t \in Threads, NEW c \in Cameras, NEW pts \in Nat,
             NEW gap \in BOOLEAN, Fusion!DetectFrame(t, c, pts, gap)
      PROVE  c \in Streams /\ Fusion!Detect(t, c, c, pts, gap)
  BY <1>3, StreamsAre DEF Fusion!DetectFrame
<1>4. ASSUME NEW t \in Threads, NEW c \in Cameras, Fusion!DetectUpload(t, c)
      PROVE  Default \in Streams /\ Fusion!Detect(t, c, Default, 0, FALSE)
  BY <1>4, StreamsAre DEF Fusion!DetectUpload, Fusion!NoPts
<1>5. faults \in Nat
  BY Typed
<1>6. Fusion!Fault((Fusion!RedisFails \/ Fusion!RedisReturns) /\ faults < scope.faults
                   /\ faults' = faults + 1) => Faulted
  <2>1. SUFFICES ASSUME Fusion!Fault((Fusion!RedisFails \/ Fusion!RedisReturns)
                                     /\ faults < scope.faults /\ faults' = faults + 1)
                 PROVE  Faulted
    OBVIOUS
  <2>2. faults' = faults + 1
    BY <2>1 DEF Fusion!Fault
  <2>3. faults' \in Nat
    BY <1>5, <2>2
  <2> QED BY <1>2, <2>1, <2>3, FaultStep
<1>7. Fusion!Fault(Fusion!HealthCheck /\ UNCHANGED faults) => Faulted
  <2>1. SUFFICES ASSUME Fusion!Fault(Fusion!HealthCheck /\ UNCHANGED faults)
                 PROVE  Faulted
    OBVIOUS
  <2>2. UNCHANGED faults
    BY <2>1 DEF Fusion!Fault
  <2> QED BY <1>2, <1>5, <2>1, <2>2, FaultStep
<1>8. Fusion!Fault(Fusion!Tick /\ now < scope.time /\ UNCHANGED faults) => Faulted
  <2>1. SUFFICES ASSUME Fusion!Fault(Fusion!Tick /\ now < scope.time /\ UNCHANGED faults)
                 PROVE  Faulted
    OBVIOUS
  <2>2. UNCHANGED faults
    BY <2>1 DEF Fusion!Fault
  <2> QED BY <1>2, <1>5, <2>1, <2>2, FaultStep
<1>9. \/ \E t \in scope.threads, c \in scope.cameras, pts \in scope.pts,
            gap \in {FALSE, scope.resets} : Fusion!DetectFrame(t, c, pts, gap)
      \/ \E t \in scope.threads, c \in scope.cameras : Fusion!DetectUpload(t, c)
      \/ \E t \in scope.threads : Fusion!LoadId(t) \/ Fusion!StoreId(t) \/ Fusion!TakeId(t)
      \/ \E t \in scope.threads : Fusion!ReadPool(t) \/ Fusion!Associate(t)
      \/ \E t \in scope.threads : Fusion!Fuse(t) \/ Fusion!EndFrame(t)
      \/ \E t \in scope.threads : \E k \in job[t].todo : Fusion!SkipTrack(t, k)
      \/ \E t \in scope.threads : \E k \in job[t].todo : Fusion!AddSample(t, k)
      \/ \E c \in scope.cameras : Fusion!ResetScene(c)
      \/ Faulted \/ Fusion!Restart
  <2> HIDE <1>3, <1>4
  <2> QED BY <1>2, <1>6, <1>7, <1>8 DEF Fusion!Step
<1>10. ASSUME \E t \in scope.threads, c \in scope.cameras, pts \in scope.pts,
                gap \in {FALSE, scope.resets} : Fusion!DetectFrame(t, c, pts, gap)
       PROVE  \E t \in Threads, c \in Cameras, k \in Streams, pts \in Nat, gap \in BOOLEAN :
                Fusion!Detect(t, c, k, pts, gap)
  <2>1. PICK t \in Threads, c \in Cameras, pts \in Nat, gap \in BOOLEAN :
          Fusion!DetectFrame(t, c, pts, gap)
    BY <1>1, <1>10
  <2> QED BY <1>3, <2>1
<1>11. ASSUME \E t \in scope.threads, c \in scope.cameras : Fusion!DetectUpload(t, c)
       PROVE  \E t \in Threads, c \in Cameras, k \in Streams, pts \in Nat, gap \in BOOLEAN :
                Fusion!Detect(t, c, k, pts, gap)
  <2>1. PICK t \in Threads, c \in Cameras : Fusion!DetectUpload(t, c)
    BY <1>1, <1>11
  <2> QED BY <1>4, <2>1
<1> QED BY <1>1, <1>2, <1>9, <1>10, <1>11

\* The kinds of steps: the call of thread t gives its id away, or it takes one.
Works(t) == Work(t, {}) /\ job'[t].pc # "take" /\ UNCHANGED <<count, clashed>>

Stores(t) ==
  /\ Work(t, {}) /\ job[t].pc = "store" /\ job'[t].pc = "take"
  /\ job'[t].seen = job[t].seen
  /\ count' = job[t].seen + 1 /\ clashed' = (clashed \/ count # job[t].seen)

Takes(t, k) ==
  /\ Work(t, {k}) /\ job[t].pc = "take" /\ job'[t].pc = "update"
  /\ k.id = count /\ count' = count
  /\ clashed' = (clashed \/ count # job[t].seen + 1)

\* A step of one of these kinds.
Kind ==
  \/ \E t \in Threads, k \in Streams, pts \in Nat : Begins(t, k, pts)
  \/ \E t \in Threads : Works(t)
  \/ \E t \in Threads : Stores(t)
  \/ \E t \in Threads, k \in OfRun : Takes(t, k)
  \/ \E t \in Threads, k \in Fusion!Tracks : Adds(t, k)
  \/ \E t \in Threads : Fuses(t)
  \/ \E t \in Threads : Ends(t)
  \/ \E c \in Streams : Resets(c)
  \/ Faulted
  \/ Restarted

LEMMA KindOf ==
  ASSUME FramesInv, Fusion!Next
  PROVE  Fusion!TypeOK' /\ Kind
<1>0. Fusion!TypeOK /\ scope' = scope /\ \A t \in Threads : JobOK(t)
  BY StepOf DEF FramesInv
<1>1. ASSUME NEW t \in Threads, NEW c \in Cameras, NEW k \in Streams, NEW pts \in Nat,
             NEW gap \in BOOLEAN, Fusion!Detect(t, c, k, pts, gap)
      PROVE  Fusion!TypeOK' /\ Kind
  <2>1. Fusion!TypeOK' /\ Begins(t, k, pts)
    BY <1>0, <1>1, DetectBegins
  <2> QED BY <2>1 DEF Kind
<1>2. ASSUME NEW t \in Threads, Fusion!LoadId(t)
      PROVE  Fusion!TypeOK' /\ Kind
  <2>1. Fusion!TypeOK' /\ Works(t)
    BY <1>0, <1>2, LoadWorks DEF Works
  <2> QED BY <2>1 DEF Kind
<1>3. ASSUME NEW t \in Threads, Fusion!StoreId(t)
      PROVE  Fusion!TypeOK' /\ Kind
  <2>1. Fusion!TypeOK' /\ Stores(t)
    BY <1>0, <1>3, StoreWorks DEF Stores
  <2> QED BY <2>1 DEF Kind
<1>4. ASSUME NEW t \in Threads, Fusion!TakeId(t)
      PROVE  Fusion!TypeOK' /\ Kind
  <2>1. IsFiniteSet(job[t].made)
    BY <1>0 DEF JobOK
  <2>2. /\ Fusion!TypeOK' /\ job[t].pc = "take" /\ job'[t].pc = "update"
        /\ \E k \in OfRun : k.id = count /\ Work(t, {k})
        /\ count' = count /\ clashed' = (clashed \/ count # job[t].seen + 1)
    BY <1>0, <1>4, <2>1, TakeWorks
  <2>3. PICK k \in OfRun : k.id = count /\ Work(t, {k})
    BY <2>2
  <2>4. Takes(t, k)
    BY <2>2, <2>3 DEF Takes
  <2> QED BY <2>2, <2>4 DEF Kind
<1>5. ASSUME NEW t \in Threads, Fusion!ReadPool(t) \/ Fusion!Associate(t)
      PROVE  Fusion!TypeOK' /\ Kind
  <2>1. Fusion!TypeOK' /\ Works(t)
    BY <1>0, <1>5, ReadWorks, AssociateWorks DEF Works
  <2> QED BY <2>1 DEF Kind
<1>6. ASSUME NEW t \in Threads, NEW k \in job[t].todo, Fusion!SkipTrack(t, k)
      PROVE  Fusion!TypeOK' /\ Kind
  <2>1. Fusion!TypeOK' /\ Works(t)
    BY <1>0, <1>6, SkipWorks DEF Works
  <2> QED BY <2>1 DEF Kind
<1>7. ASSUME NEW t \in Threads, NEW k \in job[t].todo, Fusion!AddSample(t, k)
      PROVE  Fusion!TypeOK' /\ Kind
  <2>1. job[t].camera \in Cameras /\ k \in Fusion!Tracks
    BY <1>0, <1>7, JobTyped DEF JobOK, Fusion!AddSample
  <2>2. Fusion!TypeOK' /\ Adds(t, k)
    BY <1>0, <1>7, <2>1, AddAdds
  <2> QED BY <2>1, <2>2 DEF Kind
<1>8. ASSUME NEW t \in Threads, Fusion!Fuse(t)
      PROVE  Fusion!TypeOK' /\ Kind
  <2>1. Fusion!TypeOK' /\ Fuses(t)
    BY <1>0, <1>8, FuseFuses
  <2> QED BY <2>1 DEF Kind
<1>9. ASSUME NEW t \in Threads, Fusion!EndFrame(t)
      PROVE  Fusion!TypeOK' /\ Kind
  <2>1. Fusion!TypeOK' /\ Ends(t)
    BY <1>0, <1>9, EndEnds
  <2> QED BY <2>1 DEF Kind
<1>10. ASSUME NEW c \in Cameras, Fusion!ResetScene(c)
       PROVE  Fusion!TypeOK' /\ Kind
  <2>1. Fusion!TypeOK' /\ c \in Streams /\ Resets(c)
    BY <1>0, <1>10, ResetResets
  <2> QED BY <2>1 DEF Kind
<1>11. ASSUME Faulted
       PROVE  Fusion!TypeOK' /\ Kind
  BY <1>11 DEF Faulted, Kind
<1>12. ASSUME Fusion!Restart
       PROVE  Fusion!TypeOK' /\ Kind
  <2>1. Fusion!TypeOK' /\ Restarted
    BY <1>0, <1>12, RestartStep
  <2> QED BY <2>1 DEF Kind
<1> QED
  BY <1>0, <1>1, <1>2, <1>3, <1>4, <1>5, <1>6, <1>7, <1>8, <1>9, <1>10, <1>11, <1>12, StepOf

-----------------------------------------------------------------------------
(* FramesInv                                                               *)

LEMMA FiledKept ==
  ASSUME FramesInv, ListsKept, run' = run \/ run' = run + 1
  PROVE  SamplesFiled'
<1> SUFFICES ASSUME NEW c \in Streams, NEW i \in 0 .. MaxId
             PROVE  Filed(redis'[<<c, i>>], i, run') /\ Filed(fallback'[<<c, i>>], i, run')
  BY DEF SamplesFiled
<1>0. Fusion!TypeOK
  BY DEF FramesInv
<1>1. <<c, i>> \in Keys /\ run \in Nat
  BY <1>0, StreamsAre, Typed
<1>2. ASSUME NEW list \in Seq(Fusion!SampleRecords), Filed(list, i, run)
      PROVE  Filed(list, i, run')
  <2> SUFFICES ASSUME NEW p \in 1 .. Len(list)
               PROVE  list[p].track.id = i /\ list[p].track.run <= run'
    BY DEF Filed
  <2>1. list[p].track.id = i /\ list[p].track.run <= run
    BY <1>2 DEF Filed
  <2>2. list[p] \in Fusion!SampleRecords
    OBVIOUS
  <2>3. list[p].track.run \in Nat
    BY <2>2 DEF Fusion!SampleRecords, Fusion!Tracks
  <2> QED BY <1>1, <2>1, <2>3
<1>3. \A r : Filed(<<>>, i, r)
  BY DEF Filed
<1>4. Filed(redis[<<c, i>>], i, run) /\ Filed(fallback[<<c, i>>], i, run)
  BY DEF FramesInv, SamplesFiled
<1>5. /\ redis[<<c, i>>] \in Seq(Fusion!SampleRecords)
      /\ fallback[<<c, i>>] \in Seq(Fusion!SampleRecords)
  BY <1>0, <1>1, Typed
<1>6. Filed(redis[<<c, i>>], i, run') /\ Filed(fallback[<<c, i>>], i, run')
  BY <1>2, <1>4, <1>5
<1>7. /\ redis'[<<c, i>>] = redis[<<c, i>>] \/ redis'[<<c, i>>] = <<>>
      /\ fallback'[<<c, i>>] = fallback[<<c, i>>] \/ fallback'[<<c, i>>] = <<>>
  BY <1>1 DEF ListsKept
<1> QED BY <1>3, <1>6, <1>7

\* What is in a list to which one sample was added.
LEMMA Appended ==
  ASSUME NEW S, NEW list \in Seq(S), NEW x \in S, NEW more,
         more = list \/ more = Append(list, x)
  PROVE  /\ more \in Seq(S) /\ Len(more) \in {Len(list), Len(list) + 1} /\ Len(list) \in Nat
         /\ \A p \in 1 .. Len(more) :
              \/ p \in 1 .. Len(list) /\ more[p] = list[p]
              \/ p = Len(list) + 1 /\ more[p] = x
<1>1. CASE more = list
  BY <1>1
<1>2. CASE more = Append(list, x)
  BY <1>2
<1> QED BY <1>1, <1>2

LEMMA FiledAdds ==
  ASSUME FramesInv, NEW t \in Threads, NEW k \in Fusion!Tracks, Adds(t, k), k.run = run
  PROVE  SamplesFiled'
<1> SUFFICES ASSUME NEW c \in Streams, NEW i \in 0 .. MaxId
             PROVE  Filed(redis'[<<c, i>>], i, run') /\ Filed(fallback'[<<c, i>>], i, run')
  BY DEF SamplesFiled
<1>0. Fusion!TypeOK
  BY DEF FramesInv
<1>1. <<c, i>> \in Keys /\ run \in Nat /\ run' = run
  BY <1>0, StreamsAre, Typed DEF Adds
<1>2. Filed(redis[<<c, i>>], i, run) /\ Filed(fallback[<<c, i>>], i, run)
  BY DEF FramesInv, SamplesFiled
<1>3. Files(<<job[t].key, k.id>>, Sample(t, k)) /\ Sample(t, k) \in Fusion!SampleRecords
  BY DEF Adds
<1>4. CASE <<c, i>> = <<job[t].key, k.id>>
  <2>1. PICK x \in Fusion!SampleRecords : x = Sample(t, k)
    BY <1>3
  <2>2. x.track.id = i /\ x.track.run = run
    BY <1>4, <2>1 DEF Sample
  <2>3. ASSUME NEW list \in Seq(Fusion!SampleRecords), NEW more, Filed(list, i, run),
               more = list \/ more = Append(list, x)
        PROVE  Filed(more, i, run)
    <3>1. \A p \in 1 .. Len(more) : \/ p \in 1 .. Len(list) /\ more[p] = list[p]
                                    \/ p = Len(list) + 1 /\ more[p] = x
      BY <2>3, Appended
    <3> QED BY <1>1, <2>2, <2>3, <3>1 DEF Filed
  <2>4. /\ redis[<<c, i>>] \in Seq(Fusion!SampleRecords)
        /\ fallback[<<c, i>>] \in Seq(Fusion!SampleRecords)
    BY <1>0, <1>1, Typed
  <2>5. /\ redis'[<<c, i>>] = redis[<<c, i>>] \/ redis'[<<c, i>>] = Append(redis[<<c, i>>], x)
        /\ \/ fallback'[<<c, i>>] = fallback[<<c, i>>]
           \/ fallback'[<<c, i>>] = Append(fallback[<<c, i>>], x)
    BY <1>3, <1>4, <2>1 DEF Files
  <2> QED BY <1>1, <1>2, <2>3, <2>4, <2>5
<1>5. CASE <<c, i>> # <<job[t].key, k.id>>
  <2>1. redis'[<<c, i>>] = redis[<<c, i>>] /\ fallback'[<<c, i>>] = fallback[<<c, i>>]
    BY <1>1, <1>3, <1>5 DEF Files
  <2> QED BY <1>1, <1>2, <2>1
<1> QED BY <1>4, <1>5

\* A job that stays is as it was; one that changes in `since` alone, too.
LEMMA JobStays ==
  ASSUME NEW u \in Threads, JobOK(u), run' = run,
         job'[u] = job[u] \/ (Like(u) /\ job[u].pc = "fuse")
  PROVE  JobOK(u)' /\ Held(u)' = Held(u)
<1>1. CASE job'[u] = job[u]
  BY <1>1 DEF JobOK, Held, OfRun
<1>2. CASE Like(u) /\ job[u].pc = "fuse"
  <2>1. Held(u)' = Held(u) /\ OfRun' = OfRun
    BY <1>2 DEF Held, Like, OfRun
  <2>2. job'[u].camera = job[u].camera
    BY <1>2 DEF Like, SameFrame
  <2> QED BY <1>2, <2>1, <2>2 DEF JobOK, Like
<1> QED BY <1>1, <1>2

LEMMA JobIdle ==
  ASSUME NEW u \in Threads, job'[u] = Fusion!Idle
  PROVE  /\ JobOK(u)' /\ Held(u)' = {} /\ ~Working(u)' /\ job'[u].vote = <<>>
         /\ job'[u].pc = "idle" /\ Len(job'[u].vote) = 0
<1>1. /\ job'[u].made = {} /\ job'[u].pool = {} /\ job'[u].todo = {}
      /\ job'[u].vote = <<>> /\ job'[u].pc = "idle"
  BY IdleJob
<1>2. Held(u)' = {} /\ IsFiniteSet(job'[u].made) /\ Len(job'[u].vote) = 0
  BY <1>1, FS_EmptySet DEF Held
<1> QED BY <1>1, <1>2 DEF JobOK, Working

LEMMA FramesStep ==
  ASSUME FramesInv, Fusion!Next
  PROVE  FramesInv'
<1>0. /\ Fusion!TypeOK /\ Fusion!TypeOK' /\ Kind
      /\ \A c \in Streams : tracked[c] \subseteq OfRun
      /\ \A u \in Threads : JobOK(u)
  BY KindOf DEF FramesInv
<1>k. \A u \in Threads : job[u].key \in Streams
  BY <1>0, JobTyped
<1>1. ASSUME NEW t \in Threads, NEW k \in Streams, NEW pts \in Nat, Begins(t, k, pts)
      PROVE  FramesInv'
  <2>1. run' = run /\ OfRun' = OfRun /\ ListsKept
    BY <1>1 DEF Begins, OfRun, ListsKept
  <2>2. \A c \in Streams : tracked'[c] \subseteq OfRun'
    BY <1>0, <1>1, <2>1 DEF Begins
  <2>3. JobOK(t)'
    <3>1. job'[t].made = {} /\ Held(t)' = {} /\ job'[t].pc = "update"
          /\ job'[t].camera \in Cameras /\ job'[t].vote = <<>>
      BY <1>1 DEF Begins, Held
    <3> QED BY <3>1, FS_EmptySet DEF JobOK
  <2>4. \A u \in Threads \ {t} : JobOK(u)'
    BY <1>0, <1>1, <2>1, JobStays DEF Begins, Only
  <2>5. SamplesFiled'
    BY <2>1, FiledKept
  <2> QED BY <1>0, <2>2, <2>3, <2>4, <2>5 DEF FramesInv
<1>2. ASSUME NEW t \in Threads, NEW new \in SUBSET OfRun, Work(t, new)
      PROVE  FramesInv'
  <2>1. run' = run /\ OfRun' = OfRun /\ ListsKept
    BY <1>2 DEF Work, OfRun, ListsKept
  <2>2. Held(t) \subseteq OfRun /\ tracked[job[t].key] \subseteq OfRun
    BY <1>0, <1>k DEF JobOK
  <2>3. \A c \in Streams : tracked'[c] \subseteq OfRun'
    BY <1>0, <1>2, <2>1, <2>2 DEF Work
  <2>4. JobOK(t)'
    <3>1. Held(t)' \subseteq OfRun'
      BY <1>2, <2>1, <2>2 DEF Work
    <3>2. /\ job[t].pc # "idle" /\ job'[t].pc # "idle" /\ job'[t].camera = job[t].camera
          /\ job'[t].vote = job[t].vote /\ job'[t].track = job[t].track
      BY <1>2 DEF Work, Middle, SameFrame, SameVote
    <3>3. IsFiniteSet(job'[t].made)
      BY <1>0, <1>2 DEF Work, JobOK
    <3> QED BY <1>0, <3>1, <3>2, <3>3 DEF JobOK
  <2>5. \A u \in Threads \ {t} : JobOK(u)'
    BY <1>0, <1>2, <2>1, JobStays DEF Work, Only
  <2>6. SamplesFiled'
    BY <2>1, FiledKept
  <2> QED BY <1>0, <2>3, <2>4, <2>5, <2>6 DEF FramesInv
<1>3. ASSUME NEW t \in Threads, NEW k \in Fusion!Tracks, Adds(t, k)
      PROVE  FramesInv'
  <2>1. run' = run /\ OfRun' = OfRun /\ UNCHANGED tracked
    BY <1>3 DEF Adds, OfRun
  <2>2. k.run = run
    BY <1>0, <1>3 DEF Adds, JobOK, Held, OfRun
  <2>3. JobOK(t)'
    <3>1. /\ job'[t].pc = "fuse" /\ job'[t].vote = <<>> /\ job'[t].made = job[t].made
          /\ Held(t)' \subseteq OfRun' /\ job'[t].camera = job[t].camera
          /\ job[t].pc # "idle"
      BY <1>0, <1>3, <2>1 DEF Adds, SameFrame, JobOK
    <3> QED BY <1>0, <3>1 DEF JobOK
  <2>4. \A u \in Threads \ {t} : JobOK(u)'
    BY <1>0, <1>3, <2>1, JobStays DEF Adds
  <2>5. SamplesFiled'
    BY <1>3, <2>2, FiledAdds
  <2> QED BY <1>0, <2>1, <2>3, <2>4, <2>5 DEF FramesInv
<1>4. ASSUME NEW t \in Threads, Fuses(t)
      PROVE  FramesInv'
  <2>1. run' = run /\ OfRun' = OfRun /\ UNCHANGED tracked /\ ListsKept
    BY <1>4 DEF Fuses, OfRun
  <2>2. \A p \in 1 .. Len(job'[t].vote) : job'[t].vote[p].track.id = job'[t].track.id
    <3>1. CASE job'[t].vote = <<>>
      BY <3>1
    <3>2. ASSUME NEW list \in {redis[JobKey(t)], fallback[JobKey(t)]},
                 Len(list) > 1, job'[t].vote = Fusion!Recent(list)
          PROVE  \A p \in 1 .. Len(job'[t].vote) : job'[t].vote[p].track.id = job'[t].track.id
      <4>1. list \in Seq(Fusion!SampleRecords)
        BY <1>0, Typed, JobTyped
      <4>2. \A p \in 1 .. Len(list) : list[p].track.id = job[t].track.id
        <5>1. job[t].key \in Streams /\ job[t].track.id \in 0 .. MaxId
          BY <1>0, JobTyped
        <5>2. /\ Filed(redis[JobKey(t)], job[t].track.id, run)
              /\ Filed(fallback[JobKey(t)], job[t].track.id, run)
          BY <5>1 DEF FramesInv, SamplesFiled, JobKey
        <5>3. Filed(list, job[t].track.id, run)
          BY <5>2
        <5> QED BY <5>3 DEF Filed
      <4>3. \A p \in 1 .. Len(job'[t].vote) :
              \E q \in 1 .. Len(list) : job'[t].vote[p] = list[q]
        <5>1. PICK d \in Nat : \A p \in 1 .. Len(Fusion!Recent(list)) :
                p + d \in 1 .. Len(list) /\ Fusion!Recent(list)[p] = list[p + d]
          BY <3>2, <4>1, RecentWindow
        <5> QED BY <3>2, <5>1
      <4>4. job'[t].track = job[t].track
        BY <1>4 DEF Fuses
      <4> QED BY <4>2, <4>3, <4>4
    <3> QED BY <1>4, <3>1, <3>2 DEF Fuses
  <2>3. JobOK(t)'
    <3>1. /\ job[t].pc # "idle" /\ job'[t].pc # "idle" /\ job'[t].camera = job[t].camera
          /\ Held(t)' \subseteq OfRun' /\ job'[t].made = job[t].made
      BY <1>0, <1>4, <2>1 DEF Fuses, SameFrame, JobOK
    <3> QED BY <1>0, <2>2, <3>1 DEF JobOK
  <2>4. \A u \in Threads \ {t} : JobOK(u)'
    BY <1>0, <1>4, <2>1, JobStays DEF Fuses, Only
  <2>5. SamplesFiled'
    BY <2>1, FiledKept
  <2> QED BY <1>0, <2>1, <2>3, <2>4, <2>5 DEF FramesInv
<1>5. ASSUME NEW t \in Threads, Ends(t)
      PROVE  FramesInv'
  <2>1. run' = run /\ OfRun' = OfRun /\ UNCHANGED tracked /\ ListsKept
    BY <1>5 DEF Ends, OfRun, ListsKept
  <2>2. JobOK(t)' /\ \A u \in Threads \ {t} : JobOK(u)'
    BY <1>0, <1>5, <2>1, JobStays, JobIdle DEF Ends, Only
  <2>3. SamplesFiled'
    BY <2>1, FiledKept
  <2> QED BY <1>0, <2>1, <2>2, <2>3 DEF FramesInv
<1>6. ASSUME NEW c \in Streams, Resets(c)
      PROVE  FramesInv'
  <2>1. run' = run /\ OfRun' = OfRun /\ ListsKept
    BY <1>6 DEF Resets, OfRun, ListsKept
  <2>2. \A d \in Streams : tracked'[d] \subseteq OfRun'
    BY <1>0, <1>6, <2>1 DEF Resets
  <2>3. \A u \in Threads : JobOK(u)'
    BY <1>0, <1>6, <2>1, JobStays DEF Resets
  <2>4. SamplesFiled'
    BY <2>1, FiledKept
  <2> QED BY <1>0, <2>2, <2>3, <2>4 DEF FramesInv
<1>7. ASSUME Faulted
      PROVE  FramesInv'
  <2>1. run' = run /\ OfRun' = OfRun /\ ListsKept /\ UNCHANGED tracked
    BY <1>7 DEF Faulted, OfRun
  <2>2. \A u \in Threads : JobOK(u)'
    BY <1>0, <1>7, <2>1, JobStays DEF Faulted
  <2>3. SamplesFiled'
    BY <2>1, FiledKept
  <2> QED BY <1>0, <2>1, <2>2, <2>3 DEF FramesInv
<1>8. ASSUME Restarted
      PROVE  FramesInv'
  <2>1. \A u \in Threads : JobOK(u)'
    BY <1>8, JobIdle DEF Restarted
  <2>2. SamplesFiled'
    BY <1>8, FiledKept DEF Restarted
  <2>3. \A d \in Streams : tracked'[d] \subseteq OfRun'
    BY <1>8 DEF Restarted
  <2> QED BY <1>0, <2>1, <2>2, <2>3 DEF FramesInv
<1>9. ASSUME NEW t \in Threads, Works(t) \/ Stores(t)
      PROVE  FramesInv'
  BY <1>2, <1>9 DEF Works, Stores
<1>10. ASSUME NEW t \in Threads, NEW k \in OfRun, Takes(t, k)
       PROVE  FramesInv'
  BY <1>2, <1>10 DEF Takes
<1> QED BY <1>0, <1>1, <1>3, <1>4, <1>5, <1>6, <1>7, <1>8, <1>9, <1>10 DEF Kind

LEMMA FramesInit ==
  ASSUME Fusion!Init
  PROVE  FramesInv
<1>1. /\ scope \in Scopes /\ job = [t \in Threads |-> Fusion!Idle] /\ frames = 0 /\ faults = 0
      /\ tracked = [c \in Streams |-> {}] /\ lastPts = [c \in Streams |-> 0]
      /\ era = [c \in Streams |-> 0]
      /\ count = 0 /\ run = 1 /\ clashed = FALSE
      /\ now = 0 /\ up \in BOOLEAN /\ connected = up
      /\ redis = [k \in Keys |-> <<>>] /\ fallback = [k \in Keys |-> <<>>]
      /\ expires = [s \in {"redis", "fallback"} |-> [k \in Keys |-> 0]]
  BY DEF Fusion!Init, Fusion!TrackerInit, Fusion!StoreInit, Fusion!NoPts
<1>2. Fusion!TypeOK
  <2>1. scope.ids \in 0 .. MaxId /\ MaxId \in Nat
    BY <1>1, Instances DEF Fusion!FrameAssumption, Fusion!Bounds
  <2>2. count \in 0 .. scope.ids /\ run \in Nat \ {0}
    BY <1>1, <2>1
  <2>3. job \in [Threads -> Fusion!Jobs]
    BY <1>1, IdleJob
  <2>4. /\ tracked \in [Streams -> SUBSET Fusion!Tracks] /\ lastPts \in [Streams -> Nat]
        /\ era \in [Streams -> Nat]
    BY <1>1
  <2>5. <<>> \in Seq(Fusion!SampleRecords)
    OBVIOUS
  <2>6. /\ redis \in [Keys -> Seq(Fusion!SampleRecords)]
        /\ fallback \in [Keys -> Seq(Fusion!SampleRecords)]
    BY <1>1, <2>5
  <2>7. expires \in [{"redis", "fallback"} -> [Keys -> Nat]]
    BY <1>1
  <2>8. now \in Nat /\ frames \in Nat /\ faults \in Nat
    BY <1>1
  <2>9. connected \in BOOLEAN /\ up \in BOOLEAN /\ clashed \in BOOLEAN /\ scope \in Scopes
    BY <1>1
  <2> HIDE <1>1
  <2> QED BY <2>2, <2>3, <2>4, <2>6, <2>7, <2>8, <2>9 DEF Fusion!TypeOK
<1>3. \A t \in Threads : JobOK(t)
  <2>1. \A t \in Threads : job[t] = Fusion!Idle
    BY <1>1
  <2>2. SUFFICES ASSUME NEW t \in Threads
                 PROVE  JobOK(t)
    OBVIOUS
  <2>3. /\ job[t].made = {} /\ Held(t) = {} /\ job[t].pc = "idle" /\ job[t].vote = <<>>
        /\ job[t] = Fusion!Idle /\ Len(job[t].vote) = 0
    BY <2>1, IdleJob DEF Held
  <2> QED BY <2>3, FS_EmptySet DEF JobOK
<1>4. SamplesFiled
  <2>1. \A k \in Keys : redis[k] = <<>> /\ fallback[k] = <<>>
    BY <1>1
  <2>2. \A i, r : Filed(<<>>, i, r)
    BY DEF Filed
  <2> QED BY <2>1, <2>2, StreamsAre DEF SamplesFiled
<1>5. \A c \in Streams : tracked[c] \subseteq OfRun
  BY <1>1
<1> QED BY <1>2, <1>3, <1>4, <1>5 DEF FramesInv

-----------------------------------------------------------------------------
(* IdsInv                                                                  *)

\* A sample of this process that stands in a list of a stream.
LEMMA ListOwn ==
  ASSUME Fusion!TypeOK, NEW c \in Streams, NEW i \in 0 .. MaxId,
         NEW list \in {redis[<<c, i>>], fallback[<<c, i>>]},
         NEW p \in 1 .. Len(list), list[p].track.run = run
  PROVE  list[p] \in Own(c)
<1>1. /\ redis[<<c, i>>] \in Seq(Fusion!SampleRecords)
      /\ fallback[<<c, i>>] \in Seq(Fusion!SampleRecords)
  BY StreamsAre, Typed
<1>2. list[p] \in Fusion!SampleRecords
  BY <1>1
<1>3. Within(redis[<<c, i>>], list[p]) \/ Within(fallback[<<c, i>>], list[p])
  BY DEF Within
<1> QED BY <1>2, <1>3 DEF Own

LEMMA OwnKept ==
  ASSUME ListsKept, run' = run, NEW c \in Streams, NEW x \in Own(c)'
  PROVE  x \in Own(c)
<1>1. x \in Fusion!SampleRecords /\ x.track.run = run
  BY DEF Own
<1>2. PICK i \in 0 .. MaxId : Within(redis'[<<c, i>>], x) \/ Within(fallback'[<<c, i>>], x)
  BY DEF Own
<1>3. <<c, i>> \in Keys /\ ~Within(<<>>, x)
  BY StreamsAre DEF Within
<1>4. Within(redis[<<c, i>>], x) \/ Within(fallback[<<c, i>>], x)
  BY <1>2, <1>3 DEF ListsKept
<1> QED BY <1>1, <1>4 DEF Own

LEMMA OwnAdds ==
  ASSUME Fusion!TypeOK, NEW t \in Threads, NEW k, Adds(t, k),
         NEW c \in Streams, NEW x \in Own(c)'
  PROVE  x \in Own(c) \/ (c = job[t].key /\ x = Sample(t, k))
<1>1. x \in Fusion!SampleRecords /\ x.track.run = run
  BY DEF Own, Adds
<1>2. PICK i \in 0 .. MaxId : Within(redis'[<<c, i>>], x) \/ Within(fallback'[<<c, i>>], x)
  BY DEF Own
<1>3. /\ <<c, i>> \in Keys
      /\ redis[<<c, i>>] \in Seq(Fusion!SampleRecords)
      /\ fallback[<<c, i>>] \in Seq(Fusion!SampleRecords)
  BY StreamsAre, Typed
<1>4. Files(<<job[t].key, k.id>>, Sample(t, k)) /\ Sample(t, k) \in Fusion!SampleRecords
  BY DEF Adds
<1>5. CASE <<c, i>> = <<job[t].key, k.id>>
  <2>1. PICK y \in Fusion!SampleRecords : y = Sample(t, k)
    BY <1>4
  <2>2. ASSUME NEW list \in Seq(Fusion!SampleRecords), NEW more, Within(more, x),
               more = list \/ more = Append(list, y)
        PROVE  Within(list, x) \/ x = y
    BY <2>2, Appended DEF Within
  <2>3. /\ redis'[<<c, i>>] = redis[<<c, i>>] \/ redis'[<<c, i>>] = Append(redis[<<c, i>>], y)
        /\ \/ fallback'[<<c, i>>] = fallback[<<c, i>>]
           \/ fallback'[<<c, i>>] = Append(fallback[<<c, i>>], y)
    BY <1>4, <1>5, <2>1 DEF Files
  <2>4. Within(redis[<<c, i>>], x) \/ Within(fallback[<<c, i>>], x) \/ x = y
    BY <1>2, <1>3, <2>2, <2>3
  <2> QED BY <1>1, <1>5, <2>1, <2>4 DEF Own
<1>6. CASE <<c, i>> # <<job[t].key, k.id>>
  <2>1. redis'[<<c, i>>] = redis[<<c, i>>] /\ fallback'[<<c, i>>] = fallback[<<c, i>>]
    BY <1>3, <1>4, <1>6 DEF Files
  <2> QED BY <1>1, <1>2, <2>1 DEF Own
<1> QED BY <1>5, <1>6

\* After a restart no stored sample is of the running process.
LEMMA OwnGone ==
  ASSUME FramesInv, ListsKept, run' = run + 1, NEW c \in Streams
  PROVE  Own(c)' = {}
<1> SUFFICES ASSUME NEW x \in Own(c)'
             PROVE  FALSE
  OBVIOUS
<1>1. x \in Fusion!SampleRecords /\ x.track.run = run + 1
  BY DEF Own
<1>2. PICK i \in 0 .. MaxId : Within(redis'[<<c, i>>], x) \/ Within(fallback'[<<c, i>>], x)
  BY DEF Own
<1>3. <<c, i>> \in Keys /\ ~Within(<<>>, x) /\ run \in Nat
  BY StreamsAre, Typed DEF Within, FramesInv
<1>4. Within(redis[<<c, i>>], x) \/ Within(fallback[<<c, i>>], x)
  BY <1>2, <1>3 DEF ListsKept
<1>5. Filed(redis[<<c, i>>], i, run) /\ Filed(fallback[<<c, i>>], i, run)
  BY DEF FramesInv, SamplesFiled
<1>6. x.track.run <= run
  BY <1>4, <1>5 DEF Filed, Within
<1> QED BY <1>1, <1>3, <1>6

LEMMA WithinStays ==
  ASSUME NEW u \in Threads, NEW D, JobWithin(u, D), run' = run,
         job'[u] = job[u] \/ Like(u)
  PROVE  JobWithin(u, D)'
<1>1. CASE job'[u] = job[u]
  BY <1>1 DEF JobWithin, Held
<1>2. CASE Like(u)
  BY <1>2 DEF JobWithin, Held, Like
<1> QED BY <1>1, <1>2

LEMMA WithinIdle ==
  ASSUME NEW u \in Threads, NEW D, job'[u] = Fusion!Idle
  PROVE  JobWithin(u, D)'
BY JobIdle DEF JobWithin

LEMMA WithinMore ==
  ASSUME NEW u \in Threads, NEW D, NEW E, D \subseteq E, JobWithin(u, D)
  PROVE  JobWithin(u, E)
BY DEF JobWithin

\* No call has come to hold an id that it has stored and not read.
LEMMA TakingStays ==
  ASSUME NEW D, \A u \in Threads : Taking(u, D), count' = count,
         \A u \in Threads : job'[u].pc = "take" =>
                              job[u].pc = "take" /\ job'[u].seen = job[u].seen
  PROVE  \A u \in Threads : Taking(u, D)'
BY DEF Taking

\* No track has another's id, so that a sample in the list of a track is the track's.
LEMMA SampleOf ==
  ASSUME FramesInv, NEW D, Allots(D), NEW c \in Streams, NEW k \in D,
         NEW list \in {redis[<<c, k.id>>], fallback[<<c, k.id>>]}, k.id \in 0 .. MaxId,
         NEW p \in 1 .. Len(list), list[p].track.run = run
  PROVE  list[p].track = k /\ list[p] \in Own(c)
<1>1. list[p] \in Own(c)
  BY ListOwn DEF FramesInv
<1>2. list[p].track \in D
  BY <1>1 DEF Allots, InUse
<1>3. Filed(list, k.id, run)
  BY DEF FramesInv, SamplesFiled
<1>4. list[p].track.id = k.id
  BY <1>3 DEF Filed
<1> QED BY <1>1, <1>2, <1>4 DEF Allots, Given

LEMMA RunGoesOn ==
  ASSUME Kind, ~Restarted
  PROVE  run' = run /\ (clashed => clashed')
<1>1. \A t \in Threads, k \in Streams, pts \in Nat :
        Begins(t, k, pts) => run' = run /\ clashed' = clashed
  BY DEF Begins
<1>2. \A t \in Threads : Works(t) => run' = run /\ clashed' = clashed
  BY DEF Works, Work
<1>3. \A t \in Threads : Stores(t) => run' = run /\ (clashed => clashed')
  BY DEF Stores, Work
<1>4. \A t \in Threads, k \in OfRun : Takes(t, k) => run' = run /\ (clashed => clashed')
  BY DEF Takes, Work
<1>5. \A t \in Threads, k \in Fusion!Tracks :
        Adds(t, k) => run' = run /\ clashed' = clashed
  BY DEF Adds
<1>6. \A t \in Threads : Fuses(t) \/ Ends(t) => run' = run /\ clashed' = clashed
  BY DEF Fuses, Ends
<1>7. (\E c \in Streams : Resets(c)) \/ Faulted => run' = run /\ clashed' = clashed
  BY DEF Resets, Faulted
<1> QED BY <1>1, <1>2, <1>3, <1>4, <1>5, <1>6, <1>7 DEF Kind

LEMMA IdsStep ==
  ASSUME FramesInv, IdsInv, Fusion!Next
  PROVE  IdsInv'
<1>0. Fusion!TypeOK /\ Fusion!TypeOK' /\ Kind /\ \A u \in Threads : JobOK(u)
  BY KindOf DEF FramesInv
<1>k. /\ \A u \in Threads : job[u].key \in Streams /\ job[u].seen \in Nat
      /\ count \in Nat /\ run \in Nat
  BY <1>0, JobTyped, Typed
<1>1. ASSUME Restarted
      PROVE  IdsInv'
  <2>1. \A c \in Streams : tracked'[c] = {} /\ Own(c)' = {}
    BY <1>1, OwnGone DEF Restarted
  <2>2. \A u \in Threads : JobWithin(u, {})' /\ job'[u].pc = "idle"
    BY <1>1, WithinIdle, JobIdle DEF Restarted
  <2>3. InUse({})'
    BY <2>1, <2>2 DEF InUse
  <2>4. Given({})' /\ \A u \in Threads : Taking(u, {})'
    BY <2>2 DEF Given, Taking
  <2>5. Allots({})'
    BY <2>3, <2>4 DEF Allots
  <2> QED BY <2>5 DEF IdsInv
<1> SUFFICES ASSUME ~clashed', ~Restarted
             PROVE  \E D \in SUBSET OfRun' : Allots(D)'
  BY <1>1 DEF IdsInv
<1>2. ~clashed /\ run' = run /\ OfRun' = OfRun
  <2>1. run' = run /\ (clashed => clashed')
    BY <1>0, RunGoesOn
  <2> QED BY <2>1 DEF OfRun
<1>3. PICK D \in SUBSET OfRun : Allots(D)
  BY <1>2 DEF IdsInv
<1>4. /\ Given(D) /\ \A u \in Threads : JobWithin(u, D) /\ Taking(u, D)
      /\ \A c \in Streams : tracked[c] \subseteq D /\ \A x \in Own(c) : x.track \in D
  BY <1>3 DEF Allots, InUse
<1> SUFFICES \E E \in SUBSET OfRun : Allots(E)'
  BY <1>2
<1>5. ASSUME \A c \in Streams : tracked'[c] \subseteq D /\ \A x \in Own(c)' : x.track \in D,
             \A u \in Threads : JobWithin(u, D)', count' = count,
             \A u \in Threads : job'[u].pc = "take" =>
                                  job[u].pc = "take" /\ job'[u].seen = job[u].seen
      PROVE  \E E \in SUBSET OfRun : Allots(E)'
  <2>1. InUse(D)'
    BY <1>5 DEF InUse
  <2>2. Given(D)'
    BY <1>4, <1>5 DEF Given
  <2>3. \A u \in Threads : Taking(u, D)'
    BY <1>4, <1>5, TakingStays
  <2>4. Allots(D)'
    BY <2>1, <2>2, <2>3 DEF Allots
  <2> QED BY <2>4
<1>6. ASSUME NEW t \in Threads, NEW k \in Streams, NEW pts \in Nat, Begins(t, k, pts)
      PROVE  \E E \in SUBSET OfRun : Allots(E)'
  <2>1. ListsKept /\ count' = count
    BY <1>6 DEF Begins, ListsKept
  <2>2. \A c \in Streams : tracked'[c] \subseteq D /\ \A x \in Own(c)' : x.track \in D
    BY <1>2, <1>4, <1>6, <2>1, OwnKept DEF Begins
  <2>3. JobWithin(t, D)'
    BY <1>6 DEF Begins, JobWithin
  <2>4. \A u \in Threads \ {t} : JobWithin(u, D)' /\ job'[u] = job[u]
    BY <1>2, <1>4, <1>6, WithinStays DEF Begins, Only
  <2>5. job'[t].pc # "take"
    BY <1>6 DEF Begins
  <2> QED BY <1>5, <2>1, <2>2, <2>3, <2>4, <2>5
<1>7. ASSUME NEW t \in Threads, NEW new \in SUBSET OfRun, Work(t, new)
      PROVE  /\ \A c \in Streams : \A x \in Own(c)' : x \in Own(c)
             /\ \A c \in Streams : tracked'[c] \subseteq D
             /\ \A u \in Threads \ {t} : JobWithin(u, D)' /\ job'[u] = job[u]
             /\ JobWithin(t, D \union new)'
  <2>1. ListsKept
    BY <1>7 DEF Work, ListsKept
  <2>2. Held(t) \subseteq D /\ tracked[job[t].key] \subseteq D
    BY <1>4, <1>k DEF JobWithin
  <2>3. \A c \in Streams : tracked'[c] \subseteq D
    BY <1>4, <1>7, <2>2 DEF Work
  <2>4. \A u \in Threads \ {t} : JobWithin(u, D)' /\ job'[u] = job[u]
    BY <1>2, <1>4, <1>7, WithinStays DEF Work, Only
  <2>5. Held(t)' \subseteq D \union new
    BY <1>7, <2>2 DEF Work
  <2>6. /\ job[t].pc # "fuse" /\ job'[t].pc # "fuse"
        /\ job'[t].vote = job[t].vote /\ job'[t].track = job[t].track
    BY <1>7 DEF Work, Middle, SameVote
  <2>7. JobWithin(t, D \union new)'
    BY <1>2, <1>4, <2>5, <2>6 DEF JobWithin
  <2>8. \A c \in Streams : \A x \in Own(c)' : x \in Own(c)
    BY <1>2, <2>1, OwnKept
  <2> QED BY <2>3, <2>4, <2>7, <2>8
<1>8. ASSUME NEW t \in Threads, Works(t)
      PROVE  \E E \in SUBSET OfRun : Allots(E)'
  <2>1. Work(t, {}) /\ job'[t].pc # "take" /\ count' = count
    BY <1>8 DEF Works
  <2>2. D \union {} = D
    OBVIOUS
  <2>3. /\ \A c \in Streams : tracked'[c] \subseteq D /\ \A x \in Own(c)' : x.track \in D
        /\ \A u \in Threads \ {t} : JobWithin(u, D)' /\ job'[u] = job[u]
        /\ JobWithin(t, D)'
    BY <1>4, <1>7, <2>1, <2>2
  <2> QED BY <1>5, <2>1, <2>3
<1>9. ASSUME NEW t \in Threads, Stores(t)
      PROVE  \E E \in SUBSET OfRun : Allots(E)'
  <2>1. /\ Work(t, {}) /\ job'[t].pc = "take" /\ job'[t].seen = job[t].seen
        /\ count' = count + 1 /\ job[t].seen = count
    BY <1>2, <1>9 DEF Stores
  <2>2. D \union {} = D
    OBVIOUS
  <2>3. /\ \A c \in Streams : tracked'[c] \subseteq D /\ \A x \in Own(c)' : x.track \in D
        /\ \A u \in Threads \ {t} : JobWithin(u, D)' /\ job'[u] = job[u]
        /\ JobWithin(t, D)'
    BY <1>4, <1>7, <2>1, <2>2
  <2>4. InUse(D)'
    BY <2>3 DEF InUse
  <2>5. \A k \in D : k.id \in Nat /\ k.id <= count
    BY <1>4 DEF Given, OfRun, Fusion!Tracks
  <2>6. Given(D)'
    <3>1. \A k \in D : k.id <= count'
      BY <1>k, <2>1, <2>5
    <3> QED BY <1>4, <3>1 DEF Given
  <2>7. Taking(t, D)'
    <3>1. \A k \in D : k.id # count + 1
      BY <1>k, <2>5
    <3>2. \A u \in Threads \ {t} : job'[u].pc = "take" => job'[u].seen # job'[t].seen
      BY <1>4, <1>k, <2>1, <2>3 DEF Taking
    <3> QED BY <1>k, <2>1, <3>1, <3>2 DEF Taking
  <2>8. ASSUME NEW u \in Threads \ {t}
        PROVE  Taking(u, D)'
    <3>1. job'[u] = job[u] /\ Taking(u, D)
      BY <1>4, <2>3
    <3>2. SUFFICES ASSUME job[u].pc = "take"
                   PROVE  /\ job[u].seen + 1 <= count'
                          /\ \A v \in Threads \ {u} :
                               job'[v].pc = "take" => job'[v].seen # job[u].seen
      BY <3>1 DEF Taking
    <3>3. job[u].seen + 1 <= count'
      BY <1>k, <2>1, <3>1, <3>2 DEF Taking
    <3>4. job'[t].seen # job[u].seen
      BY <1>k, <2>1, <3>1, <3>2 DEF Taking
    <3>5. \A v \in Threads \ {t, u} : job'[v].pc = "take" => job'[v].seen # job[u].seen
      BY <2>3, <3>1, <3>2 DEF Taking
    <3> QED BY <3>3, <3>4, <3>5
  <2>9. Allots(D)'
    BY <2>4, <2>6, <2>7, <2>8 DEF Allots
  <2> QED BY <2>9
<1>10. ASSUME NEW t \in Threads, NEW k \in OfRun, Takes(t, k)
       PROVE  \E E \in SUBSET OfRun : Allots(E)'
  <2>1. /\ Work(t, {k}) /\ job[t].pc = "take" /\ job'[t].pc = "update"
        /\ k.id = count /\ count' = count /\ count = job[t].seen + 1
    BY <1>10 DEF Takes
  <2>2. /\ \A c \in Streams : tracked'[c] \subseteq D /\ \A x \in Own(c)' : x.track \in D
        /\ \A u \in Threads \ {t} : JobWithin(u, D)' /\ job'[u] = job[u]
        /\ JobWithin(t, D \union {k})'
    BY <1>4, <1>7, <2>1
  <2>3. /\ \A l \in D : l.id # k.id
        /\ \A u \in Threads \ {t} : job[u].pc = "take" => job[u].seen # job[t].seen
    BY <1>4, <2>1 DEF Taking
  <2>4. InUse(D \union {k})'
    <3>1. \A u \in Threads \ {t} : JobWithin(u, D \union {k})'
      BY <2>2 DEF JobWithin
    <3> QED BY <2>2, <3>1 DEF InUse
  <2>5. Given(D \union {k})'
    BY <1>4, <1>k, <2>1, <2>3 DEF Given
  <2>6. Taking(t, D \union {k})'
    BY <2>1 DEF Taking
  <2>7. ASSUME NEW u \in Threads \ {t}
        PROVE  Taking(u, D \union {k})'
    <3>1. job'[u] = job[u] /\ Taking(u, D)
      BY <1>4, <2>2
    <3>2. SUFFICES ASSUME job[u].pc = "take"
                   PROVE  /\ job[u].seen + 1 <= count
                          /\ \A l \in D \union {k} : l.id # job[u].seen + 1
                          /\ \A v \in Threads \ {u} :
                               job'[v].pc = "take" => job'[v].seen # job[u].seen
      BY <2>1, <3>1 DEF Taking
    <3>3. job[u].seen + 1 <= count /\ \A l \in D : l.id # job[u].seen + 1
      BY <3>1, <3>2 DEF Taking
    <3>4. k.id # job[u].seen + 1
      BY <1>k, <2>1, <2>3, <3>2
    <3>5. \A v \in Threads \ {u} : job'[v].pc = "take" => job'[v].seen # job[u].seen
      BY <2>1, <2>2, <3>1, <3>2 DEF Taking
    <3> QED BY <3>3, <3>4, <3>5
  <2>8. Allots(D \union {k})'
    BY <2>4, <2>5, <2>6, <2>7 DEF Allots
  <2> QED BY <2>8
<1>11. ASSUME NEW t \in Threads, NEW k \in Fusion!Tracks, Adds(t, k)
       PROVE  \E E \in SUBSET OfRun : Allots(E)'
  <2>1. k \in D /\ count' = count /\ UNCHANGED tracked
    BY <1>4, <1>11 DEF Adds, JobWithin, Held
  <2>2. \A c \in Streams : \A x \in Own(c)' : x.track \in D
    BY <1>0, <1>4, <1>11, <2>1, OwnAdds DEF Sample
  <2>3. \A c \in Streams : tracked'[c] \subseteq D
    BY <1>4, <2>1
  <2>4. JobWithin(t, D)'
    <3>1. /\ Held(t)' \subseteq D /\ job'[t].track = k /\ job'[t].vote = <<>>
          /\ job'[t].pc = "fuse" /\ Len(job'[t].vote) = 0
      BY <1>4, <1>11 DEF Adds, JobWithin
    <3> QED BY <2>1, <3>1 DEF JobWithin
  <2>5. \A u \in Threads \ {t} : JobWithin(u, D)'
    BY <1>2, <1>4, <1>11, WithinStays DEF Adds
  <2>6. \A u \in Threads : job'[u].pc = "take" =>
                             job[u].pc = "take" /\ job'[u].seen = job[u].seen
    BY <1>11 DEF Adds, Like
  <2> QED BY <1>5, <2>1, <2>2, <2>3, <2>4, <2>5, <2>6
<1>12. ASSUME NEW t \in Threads, Fuses(t)
       PROVE  \E E \in SUBSET OfRun : Allots(E)'
  <2>1. ListsKept /\ count' = count /\ UNCHANGED tracked
    BY <1>12 DEF Fuses
  <2>2. \A c \in Streams : tracked'[c] \subseteq D /\ \A x \in Own(c)' : x.track \in D
    BY <1>2, <1>4, <2>1, OwnKept
  <2>3. \A p \in 1 .. Len(job'[t].vote) :
          job'[t].vote[p].track.run = run => job'[t].vote[p].track \in D
    <3>1. CASE job'[t].vote = <<>>
      BY <3>1
    <3>2. ASSUME NEW list \in {redis[JobKey(t)], fallback[JobKey(t)]},
                 Len(list) > 1, job'[t].vote = Fusion!Recent(list),
                 NEW p \in 1 .. Len(job'[t].vote), job'[t].vote[p].track.run = run
          PROVE  job'[t].vote[p].track \in D
      <4>1. /\ list \in Seq(Fusion!SampleRecords)
            /\ job[t].key \in Streams /\ job[t].track.id \in 0 .. MaxId
        BY <1>0, Typed, JobTyped
      <4>2. PICK q \in 1 .. Len(list) : job'[t].vote[p] = list[q]
        BY <3>2, <4>1, RecentWindow
      <4>3. list[q] \in Own(job[t].key)
        BY <1>0, <3>2, <4>1, <4>2, ListOwn DEF JobKey
      <4> QED BY <1>4, <4>1, <4>2, <4>3
    <3> QED BY <1>12, <3>1, <3>2 DEF Fuses
  <2>4. JobWithin(t, D)'
    <3>1. Held(t)' \subseteq D /\ job'[t].track = job[t].track /\ job[t].track \in D
      BY <1>4, <1>12 DEF Fuses, JobWithin
    <3> QED BY <1>2, <2>3, <3>1 DEF JobWithin
  <2>5. \A u \in Threads \ {t} : JobWithin(u, D)' /\ job'[u] = job[u]
    BY <1>2, <1>4, <1>12, WithinStays DEF Fuses, Only
  <2>6. job'[t].pc # "take"
    BY <1>12 DEF Fuses
  <2> QED BY <1>5, <2>1, <2>2, <2>4, <2>5, <2>6
<1>13. ASSUME NEW t \in Threads, Ends(t)
       PROVE  \E E \in SUBSET OfRun : Allots(E)'
  <2>1. ListsKept /\ count' = count /\ UNCHANGED tracked
    BY <1>13 DEF Ends, ListsKept
  <2>2. \A c \in Streams : tracked'[c] \subseteq D /\ \A x \in Own(c)' : x.track \in D
    BY <1>2, <1>4, <2>1, OwnKept
  <2>3. JobWithin(t, D)' /\ job'[t].pc = "idle"
    BY <1>13, WithinIdle, JobIdle DEF Ends
  <2>4. \A u \in Threads \ {t} : JobWithin(u, D)' /\ job'[u] = job[u]
    BY <1>2, <1>4, <1>13, WithinStays DEF Ends, Only
  <2> QED BY <1>5, <2>1, <2>2, <2>3, <2>4
<1>14. ASSUME NEW c \in Streams, Resets(c)
       PROVE  \E E \in SUBSET OfRun : Allots(E)'
  <2>1. ListsKept /\ count' = count /\ UNCHANGED job
    BY <1>14 DEF Resets, ListsKept
  <2>2. \A d \in Streams : tracked'[d] \subseteq D /\ \A x \in Own(d)' : x.track \in D
    BY <1>2, <1>4, <1>14, <2>1, OwnKept DEF Resets
  <2>3. \A u \in Threads : JobWithin(u, D)'
    BY <1>2, <1>4, <2>1, WithinStays
  <2> QED BY <1>5, <2>1, <2>2, <2>3
<1>15. ASSUME Faulted
       PROVE  \E E \in SUBSET OfRun : Allots(E)'
  <2>1. ListsKept /\ count' = count /\ UNCHANGED tracked
    BY <1>15 DEF Faulted
  <2>2. \A d \in Streams : tracked'[d] \subseteq D /\ \A x \in Own(d)' : x.track \in D
    BY <1>2, <1>4, <2>1, OwnKept
  <2>3. \A u \in Threads : JobWithin(u, D)'
    BY <1>2, <1>4, <1>15, WithinStays DEF Faulted
  <2>4. \A u \in Threads : job'[u].pc = job[u].pc /\ job'[u].seen = job[u].seen
    BY <1>15 DEF Faulted, Like
  <2> QED BY <1>5, <2>1, <2>2, <2>3, <2>4
<1> QED BY <1>0, <1>6, <1>8, <1>9, <1>10, <1>11, <1>12, <1>13, <1>14, <1>15 DEF Kind

LEMMA OwnNone ==
  ASSUME Fusion!Init, NEW c \in Streams
  PROVE  Own(c) = {}
<1> SUFFICES ASSUME NEW x \in Own(c)
             PROVE  FALSE
  OBVIOUS
<1>1. \A k \in Keys : redis[k] = <<>> /\ fallback[k] = <<>>
  BY DEF Fusion!Init, Fusion!StoreInit
<1>2. PICK i \in 0 .. MaxId : Within(redis[<<c, i>>], x) \/ Within(fallback[<<c, i>>], x)
  BY DEF Own
<1>3. <<c, i>> \in Keys /\ ~Within(<<>>, x)
  BY StreamsAre DEF Within
<1> QED BY <1>1, <1>2, <1>3

LEMMA IdsInit ==
  ASSUME Fusion!Init
  PROVE  IdsInv
<1>1. /\ \A u \in Threads : job[u] = Fusion!Idle
      /\ \A c \in Streams : tracked[c] = {}
      /\ \A k \in Keys : redis[k] = <<>> /\ fallback[k] = <<>>
  BY DEF Fusion!Init, Fusion!TrackerInit, Fusion!StoreInit
<1>2. \A c \in Streams : Own(c) = {}
  BY OwnNone
<1>3. \A u \in Threads : JobWithin(u, {}) /\ job[u].pc = "idle"
  BY <1>1, IdleJob DEF JobWithin, Held
<1>4. Allots({})
  BY <1>1, <1>2, <1>3 DEF Allots, InUse, Given, Taking
<1> QED BY <1>4 DEF IdsInv

\* What VoteOfOneTrack says.
LEMMA OneTrackVotes ==
  ASSUME FramesInv, IdsInv
  PROVE  Fusion!VoteOfOneTrack
<1> SUFFICES ASSUME ~clashed, NEW t \in Threads, NEW p \in Fusion!OwnRun(t)
             PROVE  job[t].vote[p].track = job[t].track
  BY DEF Fusion!VoteOfOneTrack
<1>1. PICK D \in SUBSET OfRun : Allots(D)
  BY DEF IdsInv
<1>2. p \in 1 .. Len(job[t].vote) /\ job[t].vote[p].track.run = job[t].track.run
  BY DEF Fusion!OwnRun
<1>3. job[t].vote # <<>>
  BY <1>2
<1>4. JobWithin(t, D) /\ job[t].track \in D
  BY <1>1, <1>3 DEF Allots, InUse, JobWithin
<1>5. job[t].vote[p].track \in D
  BY <1>2, <1>4 DEF JobWithin, OfRun
<1>6. job[t].vote[p].track.id = job[t].track.id
  BY <1>2 DEF FramesInv, JobOK
<1> QED BY <1>1, <1>4, <1>5, <1>6 DEF Allots, Given


-----------------------------------------------------------------------------
(* CurrentInv                                                              *)

\* A thread keeps its sample, and its vote, when its job and its list stay.
LEMMA CurrentStays ==
  ASSUME NEW u \in Threads, SampleThere(u), VoteHasFrame(u), job'[u] = job[u],
         UNCHANGED <<up, connected, now, expires>>,
         job[u].pc = "fuse" => redis'[JobKey(u)] = redis[JobKey(u)],
         job[u].pc = "fuse" /\ ~(connected /\ up) /\ now <= expires["fallback"][JobKey(u)]
           => fallback'[JobKey(u)] = fallback[JobKey(u)]
  PROVE  SampleThere(u)' /\ VoteHasFrame(u)'
<1>1. JobKey(u)' = JobKey(u)
  BY DEF JobKey
<1>2. SampleThere(u)'
  BY <1>1 DEF SampleThere, Back
<1>3. VoteHasFrame(u)'
  BY DEF VoteHasFrame, Fusion!OwnRun
<1> QED BY <1>2, <1>3

\* A thread that is not between its write and its read, and whose vote is kept.
LEMMA VoteStays ==
  ASSUME NEW u \in Threads, VoteHasFrame(u), job'[u].pc # "fuse",
         job'[u].vote = job[u].vote, job'[u].no = job[u].no,
         job'[u].track = job[u].track, job'[u].since = job[u].since
  PROVE  SampleThere(u)' /\ VoteHasFrame(u)'
BY DEF SampleThere, VoteHasFrame, Fusion!OwnRun

\* A sample is the last of its list when it is written, and one place further back when
\* another follows it.
LEMMA BackMoves ==
  ASSUME NEW S, NEW list \in Seq(S), NEW x \in S, NEW more, more = Append(list, x),
         NEW n \in Nat, Len(list) > n
  PROVE  /\ Len(more) > n + 1 /\ Len(more) > 0 /\ more[Len(more) - 0] = x
         /\ more[Len(more) - (n + 1)] = list[Len(list) - n]
<1>1. Len(list) \in Nat /\ Len(more) = Len(list) + 1 /\ Len(list) - n \in 1 .. Len(list)
  OBVIOUS
<1>2. \A p \in 1 .. Len(list) : more[p] = list[p]
  OBVIOUS
<1>3. Len(more) - (n + 1) = Len(list) - n
  BY <1>1
<1>4. more[Len(more) - 0] = x
  BY <1>1
<1> QED BY <1>1, <1>2, <1>3, <1>4

LEMMA BackLast ==
  ASSUME NEW S, NEW list \in Seq(S), NEW x \in S, NEW more, more = Append(list, x)
  PROVE  Len(more) > 0 /\ more[Len(more) - 0] = x
<1>1. Len(list) \in Nat /\ Len(more) = Len(list) + 1 /\ Len(more) - 0 = Len(list) + 1
  OBVIOUS
<1> QED BY <1>1

LEMMA CurrentStep ==
  ASSUME FramesInv, CurrentInv, Fusion!Next
  PROVE  CurrentInv'
<1>0. /\ Fusion!TypeOK /\ Fusion!TypeOK' /\ Kind /\ \A u \in Threads : JobOK(u)
      /\ \A u \in Threads : SampleThere(u) /\ VoteHasFrame(u)
  BY KindOf DEF FramesInv, CurrentInv
<1>k. /\ \A u \in Threads : JobKey(u) \in Keys /\ job[u].since \in Nat
      /\ now \in Nat /\ Window \in Nat /\ Window > 0 /\ Ttl \in Nat
      /\ \A K \in Keys : /\ redis[K] \in Seq(Fusion!SampleRecords)
                         /\ fallback[K] \in Seq(Fusion!SampleRecords)
  BY <1>0, JobTyped, Typed, StreamsAre
<1> SUFFICES ASSUME NEW u \in Threads
             PROVE  SampleThere(u)' /\ VoteHasFrame(u)'
  BY DEF CurrentInv
<1>1. ASSUME job'[u].vote = <<>>, job'[u].pc # "fuse"
      PROVE  SampleThere(u)' /\ VoteHasFrame(u)'
  BY <1>1 DEF SampleThere, VoteHasFrame
<1>2. ASSUME job'[u] = job[u], UNCHANGED <<up, connected, now, redis, fallback, expires>>
      PROVE  SampleThere(u)' /\ VoteHasFrame(u)'
  BY <1>0, <1>2, CurrentStays
<1>3. ASSUME NEW t \in Threads, NEW k \in Streams, NEW pts \in Nat, Begins(t, k, pts)
      PROVE  SampleThere(u)' /\ VoteHasFrame(u)'
  BY <1>1, <1>2, <1>3 DEF Begins, Only
<1>4. ASSUME NEW t \in Threads, NEW new, Work(t, new)
      PROVE  SampleThere(u)' /\ VoteHasFrame(u)'
  <2>1. CASE u = t
    BY <1>0, <1>4, <2>1, VoteStays DEF Work, SameFrame, SameVote, Middle
  <2>2. CASE u # t
    BY <1>2, <1>4, <2>2 DEF Work, Only
  <2> QED BY <2>1, <2>2
<1>5. ASSUME NEW t \in Threads, NEW k \in Fusion!Tracks, Adds(t, k)
      PROVE  SampleThere(u)' /\ VoteHasFrame(u)'
  <2> DEFINE K == <<job[t].key, k.id>>
             x == Sample(t, k)
  <2>0. /\ K \in Keys /\ x \in Fusion!SampleRecords /\ Files(K, x)
        /\ UNCHANGED <<up, connected, now>>
    BY <1>5 DEF Adds, Files
  <2>1. CASE u = t
    <3>1. /\ JobKey(t)' = K /\ job'[t].vote = <<>> /\ job'[t].since = 0
          /\ job'[t].no = job[t].no /\ job'[t].track = k
      BY <1>5 DEF Adds, JobKey, SameFrame
    <3>2. x.no = job[t].no /\ x.track = k
      BY DEF Sample
    <3> HIDE DEF K, x
    <3>3. ASSUME NEW list \in Seq(Fusion!SampleRecords), NEW more, more = Append(list, x)
          PROVE  Len(more) > 0 /\ more[Len(more) - 0].no = job[t].no
                 /\ more[Len(more) - 0].track = k
      BY <2>0, <3>2, <3>3, BackLast
    <3>4. IF connected /\ up THEN redis'[K] = Append(redis[K], x)
          ELSE fallback'[K] = Append(fallback[K], x) /\ expires'["fallback"][K] = now + Ttl
      BY <2>0 DEF Files
    <3>5. CASE connected /\ up
      <4>1. Back(redis[JobKey(t)], t)'
        BY <1>k, <2>0, <3>1, <3>3, <3>4, <3>5 DEF Back
      <4> QED BY <2>0, <2>1, <3>1, <3>5, <4>1 DEF SampleThere, VoteHasFrame
    <3>6. CASE ~(connected /\ up)
      <4>1. Back(fallback[JobKey(t)], t)'
        BY <1>k, <2>0, <3>1, <3>3, <3>4, <3>6 DEF Back
      <4>2. now' <= expires'["fallback"][K]
        BY <1>k, <2>0, <3>4, <3>6
      <4> QED BY <2>0, <2>1, <3>1, <3>6, <4>1, <4>2 DEF SampleThere, VoteHasFrame
    <3> QED BY <3>5, <3>6
  <2>2. CASE u # t
    <3>1. /\ Like(u) /\ (job[u].pc # "fuse" => job'[u] = job[u])
          /\ job'[u].since = IF job[u].pc = "fuse" /\ JobKey(u) = K
                             THEN job[u].since + 1 ELSE job[u].since
      BY <1>5, <2>2 DEF Adds
    <3>2. JobKey(u)' = JobKey(u) /\ JobKey(u) \in Keys
      BY <1>k, <3>1 DEF Like, SameFrame, JobKey
    <3> HIDE DEF K, x
    <3>3. CASE job[u].pc # "fuse"
      BY <1>0, <3>1, <3>3, VoteStays
    <3>4. CASE job[u].pc = "fuse" /\ JobKey(u) # K
      <4>1. /\ redis'[JobKey(u)] = redis[JobKey(u)] /\ fallback'[JobKey(u)] = fallback[JobKey(u)]
            /\ expires'["fallback"][JobKey(u)] = expires["fallback"][JobKey(u)]
        BY <2>0, <3>2, <3>4 DEF Files
      <4>2. /\ job'[u].pc = job[u].pc /\ job'[u].since = job[u].since /\ job'[u].no = job[u].no
            /\ job'[u].track = job[u].track /\ job'[u].vote = job[u].vote
        BY <3>1, <3>4 DEF Like, SameFrame
      <4>3. SampleThere(u)'
        BY <1>0, <2>0, <3>2, <4>1, <4>2 DEF SampleThere, Back
      <4>4. VoteHasFrame(u)'
        BY <1>0, <4>2 DEF VoteHasFrame, Fusion!OwnRun
      <4> QED BY <4>3, <4>4
    <3>5. CASE job[u].pc = "fuse" /\ JobKey(u) = K
      <4>1. /\ job'[u].pc = job[u].pc /\ job'[u].since = job[u].since + 1
            /\ job'[u].no = job[u].no
            /\ job'[u].track = job[u].track /\ job'[u].vote = job[u].vote
        BY <3>1, <3>5 DEF Like, SameFrame
      <4>2. VoteHasFrame(u)'
        BY <1>0, <1>k, <4>1 DEF VoteHasFrame, Fusion!OwnRun
      <4>3. ASSUME job'[u].since < Window
            PROVE  SampleThere(u)'
        <5>1. job[u].since < Window
          BY <1>k, <4>1, <4>3
        <5>2. ASSUME NEW list \in Seq(Fusion!SampleRecords), Back(list, u), NEW more,
                     more = Append(list, x)
              PROVE  /\ Len(more) > job'[u].since
                     /\ more[Len(more) - job'[u].since].no = job'[u].no
                     /\ more[Len(more) - job'[u].since].track = job'[u].track
          <6>1. Len(list) > job[u].since
            BY <5>2 DEF Back
          <6>2. more[Len(more) - (job[u].since + 1)] = list[Len(list) - job[u].since]
                /\ Len(more) > job[u].since + 1
            BY <1>k, <2>0, <5>2, <6>1, BackMoves
          <6> QED BY <4>1, <5>2, <6>2 DEF Back
        <5>3. IF connected /\ up THEN redis'[K] = Append(redis[K], x)
              ELSE fallback'[K] = Append(fallback[K], x) /\ expires'["fallback"][K] = now + Ttl
          BY <2>0 DEF Files
        <5>4. IF connected /\ up THEN Back(redis[K], u) ELSE Back(fallback[K], u)
          BY <1>0, <3>5, <5>1 DEF SampleThere
        <5>5. CASE connected /\ up
          <6>1. Back(redis[JobKey(u)], u)'
            BY <1>k, <2>0, <3>2, <3>5, <5>2, <5>3, <5>4, <5>5 DEF Back
          <6> QED BY <2>0, <3>2, <3>5, <5>5, <6>1 DEF SampleThere
        <5>6. CASE ~(connected /\ up)
          <6>1. Back(fallback[JobKey(u)], u)'
            BY <1>k, <2>0, <3>2, <3>5, <5>2, <5>3, <5>4, <5>6 DEF Back
          <6>2. now' <= expires'["fallback"][K]
            BY <1>k, <2>0, <5>3, <5>6
          <6> QED BY <2>0, <3>2, <3>5, <5>6, <6>1, <6>2 DEF SampleThere
        <5> QED BY <5>5, <5>6
      <4>4. SampleThere(u)'
        BY <4>3 DEF SampleThere
      <4> QED BY <4>2, <4>4
    <3> QED BY <3>3, <3>4, <3>5
  <2> QED BY <2>1, <2>2
<1>6. ASSUME NEW t \in Threads, Fuses(t)
      PROVE  SampleThere(u)' /\ VoteHasFrame(u)'
  <2>1. CASE u = t
    <3>1. /\ job[t].pc = "fuse" /\ job'[t].pc = "plates" /\ job'[t].since = job[t].since
          /\ job'[t].no = job[t].no /\ job'[t].track = job[t].track
      BY <1>6 DEF Fuses, SameFrame
    <3>2. CASE job'[t].vote = <<>>
      BY <1>1, <2>1, <3>1, <3>2
    <3>3. ASSUME NEW list \in {redis[JobKey(t)], fallback[JobKey(t)]},
                 list = IF connected /\ up THEN redis[JobKey(t)] ELSE fallback[JobKey(t)],
                 Len(list) > 1, job'[t].vote = Fusion!Recent(list), job[t].since < Window
          PROVE  \E p \in Fusion!OwnRun(t)' : job'[t].vote[p].no = job'[t].no
      <4>1. list \in Seq(Fusion!SampleRecords) /\ Len(list) \in Nat
        BY <1>k
      <4>2. /\ Len(list) > job[t].since
            /\ list[Len(list) - job[t].since].no = job[t].no
            /\ list[Len(list) - job[t].since].track = job[t].track
        BY <1>0, <3>1, <3>3 DEF SampleThere, Back
      <4>3. PICK d \in Nat : /\ d + Len(Fusion!Recent(list)) = Len(list)
                             /\ \A p \in 1 .. Len(Fusion!Recent(list)) :
                                  p + d \in 1 .. Len(list)
                                  /\ Fusion!Recent(list)[p] = list[p + d]
        BY <3>3, <4>1, RecentWindow
      <4>4. Len(Fusion!Recent(list)) >= Window \/ Len(Fusion!Recent(list)) = Len(list)
        BY <3>3, <4>1, RecentWindow
      <4>5. Len(Fusion!Recent(list)) \in Nat
        BY <3>3, <4>1, RecentWindow
      <4>6. PICK p \in 1 .. Len(Fusion!Recent(list)) : p + d = Len(list) - job[t].since
        <5>1. Len(Fusion!Recent(list)) - job[t].since \in 1 .. Len(Fusion!Recent(list))
          BY <1>k, <3>3, <4>1, <4>2, <4>4, <4>5
        <5>2. Len(Fusion!Recent(list)) - job[t].since + d = Len(list) - job[t].since
          <6>1. PICK n \in Nat : n = Len(Fusion!Recent(list))
            BY <4>5
          <6>2. PICK m \in Nat : m = Len(list)
            BY <4>1
          <6>3. PICK z \in Nat : z = job[t].since
            BY <1>k
          <6>4. d + n = m
            BY <4>3, <6>1, <6>2
          <6>5. n - z + d = m - z
            BY <6>4
          <6> QED BY <6>1, <6>2, <6>3, <6>5
        <5> QED BY <5>1, <5>2
      <4>7. job'[t].vote[p].no = job'[t].no /\ job'[t].vote[p].track = job'[t].track
        BY <3>1, <3>3, <4>2, <4>3, <4>6
      <4>8. p \in Fusion!OwnRun(t)'
        BY <3>3, <4>6, <4>7 DEF Fusion!OwnRun
      <4> QED BY <4>7, <4>8
    <3>4. VoteHasFrame(t)'
      BY <1>6, <3>1, <3>2, <3>3 DEF Fuses, VoteHasFrame
    <3>5. SampleThere(t)'
      BY <3>1 DEF SampleThere
    <3> QED BY <2>1, <3>4, <3>5
  <2>2. CASE u # t
    <3>1. /\ job'[u] = job[u] /\ redis' = redis /\ UNCHANGED <<up, connected, now, expires>>
          /\ \A K \in Keys : \/ fallback'[K] = fallback[K]
                             \/ now > expires["fallback"][K] /\ ~(connected /\ up)
      BY <1>6, <2>2 DEF Fuses, Only
    <3>2. JobKey(u) \in Keys /\ expires["fallback"][JobKey(u)] \in Nat
      BY <1>0, <1>k, Typed
    <3>3. now <= expires["fallback"][JobKey(u)] => fallback'[JobKey(u)] = fallback[JobKey(u)]
      BY <1>k, <3>1, <3>2
    <3> QED BY <1>0, <3>1, <3>3, CurrentStays
  <2> QED BY <2>1, <2>2
<1>7. ASSUME NEW t \in Threads, Ends(t)
      PROVE  SampleThere(u)' /\ VoteHasFrame(u)'
  <2>1. CASE u = t
    BY <1>1, <1>7, <2>1, JobIdle DEF Ends
  <2>2. CASE u # t
    BY <1>2, <1>7, <2>2 DEF Ends, Only
  <2> QED BY <2>1, <2>2
<1>8. ASSUME NEW c \in Streams, Resets(c)
      PROVE  SampleThere(u)' /\ VoteHasFrame(u)'
  BY <1>2, <1>8 DEF Resets
<1>9. ASSUME Faulted
      PROVE  SampleThere(u)' /\ VoteHasFrame(u)'
  <2>1. CASE job[u].pc = "fuse"
    <3>1. job'[u].since = Window /\ ~(Window < Window)
      BY <1>9, <1>k, <2>1 DEF Faulted
    <3> QED BY <3>1 DEF SampleThere, VoteHasFrame
  <2>2. CASE job[u].pc # "fuse"
    BY <1>0, <1>9, <2>2, VoteStays DEF Faulted
  <2> QED BY <2>1, <2>2
<1>10. ASSUME Restarted
       PROVE  SampleThere(u)' /\ VoteHasFrame(u)'
  BY <1>1, <1>10, JobIdle DEF Restarted
<1>11. /\ \A t \in Threads : Works(t) => Work(t, {})
       /\ \A t \in Threads : Stores(t) => Work(t, {})
       /\ \A t \in Threads, k \in OfRun : Takes(t, k) => Work(t, {k})
  BY DEF Works, Stores, Takes
<1> QED BY <1>0, <1>3, <1>4, <1>5, <1>6, <1>7, <1>8, <1>9, <1>10, <1>11 DEF Kind

LEMMA CurrentInit ==
  ASSUME Fusion!Init
  PROVE  CurrentInv
<1>1. \A u \in Threads : job[u].pc = "idle" /\ job[u].vote = <<>>
  BY IdleJob DEF Fusion!Init
<1> QED BY <1>1 DEF CurrentInv, SampleThere, VoteHasFrame

\* What VoteIsCurrent says.
LEMMA CurrentVotes ==
  ASSUME CurrentInv
  PROVE  Fusion!VoteIsCurrent
BY DEF CurrentInv, VoteHasFrame, Fusion!VoteIsCurrent

-----------------------------------------------------------------------------
(* SceneInv                                                                *)

Fresh(c, x) == x.era <= era[c] /\ (Live(c, x.track) => NotAhead(c, x))

\* Nothing comes to be ahead when no frame begins and no track comes to live.
LEMMA SceneCalm ==
  ASSUME \A c \in Streams : Past(c), \A u \in Threads : Eras(u),
         UNCHANGED <<run, era, lastPts>>,
         \A u \in Threads : Working(u)' => Working(u) /\ SameFrame(u),
         \A c \in Streams : \A x \in Own(c) : Live(c, x.track)' => Live(c, x.track)
  PROVE  /\ \A c \in Streams : \A x \in Own(c) : Fresh(c, x)'
         /\ \A u \in Threads : Eras(u)'
<1>1. ASSUME NEW c \in Streams, NEW x \in Own(c)
      PROVE  Fresh(c, x)'
  <2>1. x.era <= era[c] /\ (Live(c, x.track) => NotAhead(c, x))
    BY DEF Past
  <2>2. NotAhead(c, x) => NotAhead(c, x)'
    BY DEF NotAhead, SameFrame
  <2> QED BY <2>1, <2>2 DEF Fresh
<1>2. \A u \in Threads : Eras(u)'
  BY DEF Eras, SameFrame
<1> QED BY <1>1, <1>2

LEMMA OrderedKept ==
  ASSUME ListsKept, run' = run, NEW K \in Keys,
         Ordered(redis[K], run), Ordered(fallback[K], run)
  PROVE  Ordered(redis[K], run)' /\ Ordered(fallback[K], run)'
<1>1. \A r : Ordered(<<>>, r)
  BY DEF Ordered
<1>2. redis'[K] \in {redis[K], <<>>} /\ fallback'[K] \in {fallback[K], <<>>}
  BY DEF ListsKept
<1>3. Ordered(redis'[K], run) /\ Ordered(fallback'[K], run)
  BY <1>1, <1>2
<1> QED BY <1>3

\* A list stays in order when what joins it is not behind what it has of its era.
LEMMA OrderedMore ==
  ASSUME NEW list \in Seq(Fusion!SampleRecords), NEW x \in Fusion!SampleRecords, NEW r,
         Ordered(list, r), NEW more, more = list \/ more = Append(list, x),
         \A p \in 1 .. Len(list) :
           list[p].track.run = r /\ list[p].era = x.era => list[p].pts <= x.pts
  PROVE  Ordered(more, r)
<1> SUFFICES ASSUME NEW p \in 1 .. Len(more), NEW q \in 1 .. Len(more), p < q,
                    more[p].track.run = r, more[q].track.run = r, more[p].era = more[q].era
             PROVE  more[p].pts <= more[q].pts
  BY DEF Ordered
<1>1. /\ Len(list) \in Nat /\ Len(more) \in {Len(list), Len(list) + 1}
      /\ \A s \in 1 .. Len(more) : \/ s \in 1 .. Len(list) /\ more[s] = list[s]
                                   \/ s = Len(list) + 1 /\ more[s] = x
  BY Appended
<1>2. p \in 1 .. Len(list) /\ more[p] = list[p]
  BY <1>1
<1>3. CASE q \in 1 .. Len(list) /\ more[q] = list[q]
  BY <1>2, <1>3 DEF Ordered
<1>4. CASE more[q] = x
  BY <1>2, <1>4
<1> QED BY <1>1, <1>3, <1>4

\* The end of a list in order is in order.
LEMMA OrderedRecent ==
  ASSUME NEW list \in Seq(Fusion!SampleRecords), Len(list) > 1, NEW r, Ordered(list, r)
  PROVE  Ordered(Fusion!Recent(list), r)
<1>1. Len(Fusion!Recent(list)) \in Nat
  BY RecentWindow
<1>2. PICK d \in Nat : \A p \in 1 .. Len(Fusion!Recent(list)) :
                         p + d \in 1 .. Len(list) /\ Fusion!Recent(list)[p] = list[p + d]
  BY RecentWindow
<1> SUFFICES ASSUME NEW p \in 1 .. Len(Fusion!Recent(list)),
                    NEW q \in 1 .. Len(Fusion!Recent(list)), p < q,
                    list[p + d].track.run = r, list[q + d].track.run = r,
                    list[p + d].era = list[q + d].era
             PROVE  list[p + d].pts <= list[q + d].pts
  BY <1>2 DEF Ordered
<1>3. p + d < q + d /\ p + d \in 1 .. Len(list) /\ q + d \in 1 .. Len(list)
  BY <1>1, <1>2
<1> QED BY <1>3 DEF Ordered

\* Of a call's own track no sample is ahead of the frame that it processes.
LEMMA OwnBehind ==
  ASSUME FramesInv, NEW D, Allots(D), NEW t \in Threads, NEW k \in Held(t), k \in D,
         Working(t), Past(job[t].key), k.id \in 0 .. MaxId,
         NEW list \in {redis[<<job[t].key, k.id>>], fallback[<<job[t].key, k.id>>]},
         NEW p \in 1 .. Len(list), list[p].track.run = run, list[p].era = job[t].era
  PROVE  list[p].pts <= job[t].pts
<1>1. job[t].key \in Streams
  BY JobTyped DEF FramesInv
<1>2. list[p].track = k /\ list[p] \in Own(job[t].key)
  BY <1>1, SampleOf
<1>3. Live(job[t].key, k)
  BY DEF Live
<1>4. NotAhead(job[t].key, list[p])
  BY <1>2, <1>3 DEF Past
<1> QED BY <1>4 DEF NotAhead

LEMMA LiveWork ==
  ASSUME NEW t \in Threads, NEW new, Work(t, new), NEW c \in Streams, NEW k, k \notin new,
         Live(c, k)', job[t].key \in Streams
  PROVE  Live(c, k)
<1>1. /\ Held(t)' \subseteq Held(t) \union tracked[job[t].key] \union new
      /\ tracked'[job[t].key] \subseteq Held(t) \union tracked[job[t].key]
      /\ \A d \in Streams \ {job[t].key} : tracked'[d] = tracked[d]
      /\ job'[t].key = job[t].key
  BY DEF Work, SameFrame
<1>2. \A u \in Threads \ {t} : job'[u].key = job[u].key /\ Held(u)' = Held(u)
  BY DEF Work, Only, Held
<1>3. CASE k \in tracked'[c]
  BY <1>1, <1>3 DEF Live
<1>4. ASSUME NEW u \in Threads, job'[u].key = c, k \in Held(u)'
      PROVE  Live(c, k)
  BY <1>1, <1>2, <1>4 DEF Live
<1> QED BY <1>3, <1>4 DEF Live

\* Tracks that live are those that lived when no tracker and no call gets another.
LEMMA LiveStays ==
  ASSUME NEW c \in Streams, tracked'[c] \subseteq tracked[c],
         \A u \in Threads : Held(u)' \subseteq Held(u) /\ (Held(u)' # {} => job'[u].key = job[u].key),
         NEW k, Live(c, k)'
  PROVE  Live(c, k)
BY DEF Live

LEMMA HeldStays ==
  ASSUME NEW u \in Threads, job'[u] = job[u] \/ Like(u)
  PROVE  /\ Held(u)' = Held(u) /\ job'[u].key = job[u].key /\ SameFrame(u)
         /\ job'[u].vote = job[u].vote /\ job'[u].pc = job[u].pc
BY DEF Held, Like, SameFrame

\* A call that is not ahead of what it was, and works with the same.
HeldSame(u) ==
  /\ Held(u)' = Held(u) /\ job'[u].key = job[u].key /\ SameFrame(u)
  /\ job'[u].pc = job[u].pc

\* What SceneInv says of the calls and of the lists of the stores.
Medias ==
  /\ \A t \in Threads : Eras(t) /\ Ordered(job[t].vote, run)
  /\ \A K \in Keys : Ordered(redis[K], run) /\ Ordered(fallback[K], run)

LEMMA MediasKept ==
  ASSUME Medias, ListsKept, run' = run, \A u \in Threads : Eras(u)',
         \A u \in Threads : job'[u].vote = job[u].vote \/ job'[u].vote = <<>>
  PROVE  Medias'
<1>1. \A r : Ordered(<<>>, r)
  BY DEF Ordered
<1>2. \A u \in Threads : Ordered(job[u].vote, run)'
  <2> SUFFICES ASSUME NEW u \in Threads
               PROVE  Ordered(job'[u].vote, run)
    BY DEF Ordered
  <2> QED BY <1>1 DEF Medias
<1>3. \A K \in Keys : Ordered(redis[K], run)' /\ Ordered(fallback[K], run)'
  BY OrderedKept DEF Medias
<1> QED BY <1>2, <1>3 DEF Medias

\* A frame begins: either the era is new, or no call is on the stream and the trackers
\* were reset or the frame is not behind the last.
LEMMA BeginScene ==
  ASSUME FramesInv, NEW t \in Threads, NEW k \in Streams, NEW pts \in Nat,
         Begins(t, k, pts), \A c \in Streams : Past(c), \A u \in Threads : Eras(u)
  PROVE  /\ \A c \in Streams : \A x \in Own(c) : Fresh(c, x)'
         /\ \A u \in Threads : Eras(u)'
<1>0. /\ Fusion!TypeOK /\ \A u \in Threads : JobOK(u)
      /\ \A d \in Streams : era[d] \in Nat /\ lastPts[d] \in Nat
      /\ \A u \in Threads : job[u].era \in Nat /\ job[u].pts \in Nat /\ job[u].key \in Streams
  BY JobTyped, Typed DEF FramesInv
<1>1. /\ ~Working(t) /\ Only(t) /\ Working(t)' /\ Held(t)' = {}
      /\ job'[t].key = k /\ job'[t].pts = pts /\ job'[t].era = era'[k]
      /\ tracked'[k] = {} \/ (tracked'[k] = tracked[k]
                              /\ (pts = 0 \/ lastPts[k] = 0 \/ lastPts[k] <= pts))
      /\ lastPts'[k] = pts
      /\ \A d \in Streams \ {k} :
           tracked'[d] = tracked[d] /\ lastPts'[d] = lastPts[d] /\ era'[d] = era[d]
      /\ \/ era'[k] = era[k] + 1
         \/ /\ era'[k] = era[k] /\ pts # 0
            /\ \A u \in Threads : Working(u) => job[u].key # k
  BY IdleJob DEF Begins, Working
<1>2. \A u \in Threads \ {t} : /\ Held(u)' = Held(u) /\ job'[u] = job[u]
                               /\ Working(u)' = Working(u)
  BY <1>1 DEF Only, Held, Working
<1>3. ASSUME NEW c \in Streams, NEW x \in Own(c)
      PROVE  Fresh(c, x)'
  <2>3. x.era \in Nat /\ x.pts \in Nat
    BY DEF Own, Fusion!SampleRecords
  <2>4. x.era <= era[c] /\ (Live(c, x.track) => NotAhead(c, x))
    BY DEF Past
  <2>5. Live(c, x.track)' => Live(c, x.track)
    BY <1>1, <1>2 DEF Live
  <2>6. CASE c # k
    <3>1. /\ lastPts'[c] = lastPts[c] /\ era'[c] = era[c]
          /\ \A u \in Threads : Working(u)' /\ job'[u].key = c
                                  => Working(u) /\ job'[u] = job[u]
      BY <1>1, <1>2, <2>6
    <3>2. NotAhead(c, x) => NotAhead(c, x)'
      BY <3>1 DEF NotAhead
    <3> QED BY <2>4, <2>5, <3>1, <3>2 DEF Fresh
  <2>7. CASE c = k /\ era'[k] = era[k] + 1
    <3>1. x.era < era'[c] /\ job'[t].era # x.era
      BY <1>0, <1>1, <2>3, <2>4, <2>7
    <3>2. NotAhead(c, x) => NotAhead(c, x)'
      BY <1>2, <2>3, <3>1 DEF NotAhead
    <3>3. x.era <= era'[c]
      BY <1>0, <2>3, <2>4, <2>7
    <3> QED BY <2>4, <2>5, <3>2, <3>3 DEF Fresh
  <2>8. CASE /\ c = k /\ era'[k] = era[k] /\ pts # 0
            /\ \A u \in Threads : Working(u) => job[u].key # k
    <3>1. \A u \in Threads : Held(u) # {} => Working(u)
      BY <1>0, IdleJob DEF JobOK, Held, Working
    <3>2. Live(c, x.track)' =>
            x.track \in tracked[k] /\ (pts = 0 \/ lastPts[k] = 0 \/ lastPts[k] <= pts)
      BY <1>1, <1>2, <2>8, <3>1 DEF Live
    <3>3. ASSUME Live(c, x.track)', x.era = era[c]
          PROVE  x.pts <= pts
      <4>1. x.pts <= lastPts[k]
        BY <2>4, <2>5, <2>8, <3>3 DEF NotAhead
      <4>2. lastPts[k] = 0 \/ lastPts[k] <= pts
        BY <1>1, <2>8, <3>2, <3>3
      <4> QED BY <1>0, <2>3, <4>1, <4>2
    <3>4. \A u \in Threads \ {t} : Working(u)' => job'[u].key # c
      BY <1>2, <2>8
    <3>5. Live(c, x.track)' => NotAhead(c, x)'
      BY <1>1, <2>8, <3>3, <3>4 DEF NotAhead
    <3> QED BY <2>4, <2>8, <3>5 DEF Fresh
  <2> QED BY <1>1, <2>6, <2>7, <2>8
<1>4. ASSUME NEW u \in Threads
      PROVE  Eras(u)'
  <2>1. \A v \in Threads \ {t} : Working(v) /\ job[v].key = k =>
          job[v].era < era'[k] /\ job[v].era # era'[k]
    BY <1>0, <1>1 DEF Eras
  <2>2. CASE u = t
    <3>1. \A v \in Threads \ {t} : Working(v)' /\ job'[v].key = k => job'[v].era # job'[t].era
      BY <1>1, <1>2, <2>1
    <3>2. era'[k] \in Nat /\ era'[k] <= era'[k]
      BY <1>0, <1>1
    <3> QED BY <1>1, <2>2, <3>1, <3>2 DEF Eras
  <2>3. CASE u # t
    <3>1. job'[u] = job[u] /\ Working(u)' = Working(u)
      BY <1>2, <2>3
    <3>2. CASE Working(u) /\ job[u].key = k
      <4>1. job[u].era < era'[k] /\ job[u].era <= era'[k] /\ job[u].era # era'[k]
        BY <1>0, <1>1, <2>1, <2>3, <3>2
      <4>2. \A v \in Threads \ {u} :
              Working(v)' /\ job'[v].key = k => job'[v].era # job[u].era
        BY <1>1, <1>2, <3>2, <4>1 DEF Eras
      <4> QED BY <3>1, <3>2, <4>1, <4>2 DEF Eras
    <3>3. CASE Working(u) /\ job[u].key # k
      <4>1. /\ era'[job[u].key] = era[job[u].key]
            /\ lastPts'[job[u].key] = lastPts[job[u].key]
        BY <1>0, <1>1, <3>3
      <4>2. \A v \in Threads \ {u} :
              Working(v)' /\ job'[v].key = job[u].key => Working(v) /\ job'[v] = job[v]
        BY <1>1, <1>2, <3>3
      <4> QED BY <3>1, <3>3, <4>1, <4>2 DEF Eras
    <3>4. CASE ~Working(u)
      BY <3>1, <3>4 DEF Eras
    <3> QED BY <3>2, <3>3, <3>4
  <2> QED BY <2>2, <2>3
<1> QED BY <1>3, <1>4

\* A reset from outside: the era is new, or no call is on the stream.
LEMMA ResetScene ==
  ASSUME FramesInv, NEW k \in Streams, Resets(k),
         \A c \in Streams : Past(c), \A u \in Threads : Eras(u)
  PROVE  /\ \A c \in Streams : \A x \in Own(c) : Fresh(c, x)'
         /\ \A u \in Threads : Eras(u)'
<1>0. /\ Fusion!TypeOK /\ \A u \in Threads : JobOK(u)
      /\ \A d \in Streams : era[d] \in Nat
      /\ \A u \in Threads : job[u].era \in Nat /\ job[u].key \in Streams
  BY JobTyped, Typed DEF FramesInv
<1>1. /\ tracked'[k] = {} /\ job' = job
      /\ \A d \in Streams \ {k} : tracked'[d] = tracked[d] /\ lastPts'[d] = lastPts[d]
                                  /\ era'[d] = era[d]
      /\ \/ era'[k] = era[k] + 1
         \/ era'[k] = era[k] /\ \A u \in Threads : Working(u) => job[u].key # k
  BY DEF Resets
<1>2. \A u \in Threads : Held(u)' = Held(u) /\ Working(u)' = Working(u)
  BY <1>1 DEF Held, Working
<1>3. ASSUME NEW c \in Streams, NEW x \in Own(c)
      PROVE  Fresh(c, x)'
  <2>1. x.era \in Nat /\ x.era <= era[c] /\ (Live(c, x.track) => NotAhead(c, x))
    BY DEF Past, Own, Fusion!SampleRecords
  <2>2. Live(c, x.track)' => Live(c, x.track)
    BY <1>1, <1>2 DEF Live
  <2>3. CASE c # k
    <3>1. NotAhead(c, x) => NotAhead(c, x)'
      BY <1>1, <1>2, <2>3 DEF NotAhead
    <3> QED BY <1>1, <2>1, <2>2, <2>3, <3>1 DEF Fresh
  <2>4. CASE c = k /\ era'[k] = era[k] + 1
    <3>1. x.era <= era'[c] /\ x.era # era'[c]
      BY <1>0, <2>1, <2>4
    <3>2. NotAhead(c, x) => NotAhead(c, x)'
      BY <1>1, <1>2, <3>1 DEF NotAhead
    <3> QED BY <2>1, <2>2, <3>1, <3>2 DEF Fresh
  <2>5. CASE c = k /\ era'[k] = era[k] /\ \A u \in Threads : Working(u) => job[u].key # k
    <3>1. \A u \in Threads : Held(u) # {} => Working(u)
      BY <1>0, IdleJob DEF JobOK, Held, Working
    <3>2. ~Live(c, x.track)'
      BY <1>1, <1>2, <2>5, <3>1 DEF Live
    <3> QED BY <2>1, <2>5, <3>2 DEF Fresh
  <2> QED BY <1>1, <2>3, <2>4, <2>5
<1>4. ASSUME NEW u \in Threads
      PROVE  Eras(u)'
  <2>1. CASE ~Working(u)
    BY <1>2, <2>1 DEF Eras
  <2>2. CASE Working(u) /\ job[u].key # k
    <3>1. /\ era'[job[u].key] = era[job[u].key]
          /\ lastPts'[job[u].key] = lastPts[job[u].key]
      BY <1>0, <1>1, <2>2
    <3> QED BY <1>1, <1>2, <3>1 DEF Eras
  <2>3. CASE Working(u) /\ job[u].key = k
    <3>1. job[u].era <= era'[k] /\ job[u].era # era'[k]
      BY <1>0, <1>1, <2>3 DEF Eras
    <3> QED BY <1>1, <1>2, <2>3, <3>1 DEF Eras
  <2> QED BY <2>1, <2>2, <2>3
<1> QED BY <1>3, <1>4

LEMMA SceneStep ==
  ASSUME FramesInv, IdsInv, SceneInv, Fusion!Next
  PROVE  SceneInv'
<1>0. /\ Fusion!TypeOK /\ Fusion!TypeOK' /\ Kind /\ \A u \in Threads : JobOK(u)
      /\ \A u \in Threads : job[u].key \in Streams
  BY KindOf, JobTyped DEF FramesInv
<1>1. ASSUME Restarted
      PROVE  SceneInv'
  <2>1. \A c \in Streams : Past(c)'
    BY <1>1, OwnGone DEF Past, Restarted
  <2>2. \A u \in Threads : ~Working(u)' /\ job'[u].vote = <<>>
    BY <1>1, JobIdle DEF Restarted
  <2>3. \A r : Ordered(<<>>, r)
    BY DEF Ordered
  <2>4. \A u \in Threads : Eras(u)' /\ Ordered(job'[u].vote, run')
    BY <2>2, <2>3 DEF Eras
  <2>5. ASSUME NEW list, \A p \in 1 .. Len(list) : list[p].track.run <= run
        PROVE  Ordered(list, run')
    <3>1. run' = run + 1 /\ run \in Nat
      BY <1>0, <1>1, Typed DEF Restarted
    <3> QED BY <2>5, <3>1 DEF Ordered
  <2>6. ASSUME NEW K \in Keys
        PROVE  Ordered(redis'[K], run') /\ Ordered(fallback'[K], run')
    <3>1. PICK c \in Streams, i \in 0 .. MaxId : K = <<c, i>>
      BY StreamsAre
    <3>2. Filed(redis[K], i, run) /\ Filed(fallback[K], i, run)
      BY <3>1 DEF FramesInv, SamplesFiled
    <3>3. Ordered(redis[K], run') /\ Ordered(fallback[K], run')
      BY <2>5, <3>2 DEF Filed
    <3>4. redis'[K] \in {redis[K], <<>>} /\ fallback'[K] \in {fallback[K], <<>>}
      BY <1>1 DEF Restarted, ListsKept
    <3> QED BY <2>3, <3>3, <3>4
  <2>7. \A u \in Threads : Ordered(job[u].vote, run)'
    BY <2>4
  <2>8. \A K \in Keys : Ordered(redis[K], run)' /\ Ordered(fallback[K], run)'
    BY <2>6
  <2> QED BY <2>1, <2>4, <2>7, <2>8 DEF SceneInv
<1> SUFFICES ASSUME ~clashed', ~Restarted
             PROVE  (\A c \in Streams : Past(c)') /\ Medias'
  BY <1>1 DEF SceneInv, Medias
<1>2. ~clashed /\ run' = run
  BY <1>0, RunGoesOn
<1>3. PICK D \in SUBSET OfRun : Allots(D)
  BY <1>2 DEF IdsInv
<1>4. /\ \A u \in Threads : JobWithin(u, D) /\ Taking(u, D)
      /\ \A c \in Streams : \A x \in Own(c) : x.track \in D
  BY <1>3 DEF Allots, InUse
<1>5. (\A c \in Streams : Past(c)) /\ (\A u \in Threads : Eras(u)) /\ Medias
  BY <1>2 DEF SceneInv, Medias
<1>6. ASSUME ListsKept, \A c \in Streams : \A x \in Own(c) : Fresh(c, x)'
      PROVE  \A c \in Streams : Past(c)'
  BY <1>2, <1>6, OwnKept DEF Past, Fresh
<1>7. ASSUME NEW t \in Threads, NEW k \in Streams, NEW pts \in Nat, Begins(t, k, pts)
      PROVE  (\A c \in Streams : Past(c)') /\ Medias'
  <2>1. /\ \A c \in Streams : \A x \in Own(c) : Fresh(c, x)'
        /\ \A u \in Threads : Eras(u)'
    BY <1>5, <1>7, BeginScene
  <2>2. ListsKept
    BY <1>7 DEF Begins, ListsKept
  <2>3. \A u \in Threads : job'[u].vote = job[u].vote \/ job'[u].vote = <<>>
    BY <1>7 DEF Begins, Only
  <2> QED BY <1>2, <1>5, <1>6, <2>1, <2>2, <2>3, MediasKept
<1>8. ASSUME NEW t \in Threads, NEW new \in SUBSET OfRun, Work(t, new),
             \A k \in new : k \notin D
      PROVE  (\A c \in Streams : Past(c)') /\ Medias'
  <2>1. ListsKept /\ UNCHANGED <<lastPts, run, era>>
    BY <1>8 DEF Work, ListsKept
  <2>2. /\ \A u \in Threads \ {t} : job'[u] = job[u]
        /\ job[t].pc \in Middle /\ SameFrame(t) /\ job'[t].vote = job[t].vote
    BY <1>8 DEF Work, Only, SameVote
  <2>3. \A u \in Threads : Working(u)' => Working(u) /\ SameFrame(u)
    BY <2>2 DEF Working, SameFrame, Middle
  <2>4. \A c \in Streams : \A x \in Own(c) : Live(c, x.track)' => Live(c, x.track)
    BY <1>0, <1>4, <1>8, LiveWork
  <2>5. /\ \A c \in Streams : \A x \in Own(c) : Fresh(c, x)'
        /\ \A u \in Threads : Eras(u)'
    BY <1>5, <2>1, <2>3, <2>4, SceneCalm
  <2>6. \A u \in Threads : job'[u].vote = job[u].vote
    BY <2>2
  <2> QED BY <1>5, <1>6, <2>1, <2>5, <2>6, MediasKept
<1>9. ASSUME NEW t \in Threads, Works(t) \/ Stores(t)
      PROVE  (\A c \in Streams : Past(c)') /\ Medias'
  <2>1. Work(t, {})
    BY <1>9 DEF Works, Stores
  <2>2. {} \in SUBSET OfRun /\ \A k \in {} : k \notin D
    OBVIOUS
  <2> QED BY <1>8, <2>1, <2>2
<1>10. ASSUME NEW t \in Threads, NEW k \in OfRun, Takes(t, k)
       PROVE  (\A c \in Streams : Past(c)') /\ Medias'
  <2>1. /\ Work(t, {k}) /\ job[t].pc = "take" /\ k.id = job[t].seen + 1
    BY <1>10 DEF Takes
  <2>2. \A l \in D : l.id # job[t].seen + 1
    BY <1>4, <2>1 DEF Taking
  <2>3. {k} \in SUBSET OfRun /\ \A l \in {k} : l \notin D
    BY <2>1, <2>2
  <2> QED BY <1>8, <2>1, <2>3
<1>11. ASSUME NEW t \in Threads, \A u \in Threads \ {t} : HeldSame(u),
              Held(t)' \subseteq Held(t), UNCHANGED <<tracked, lastPts, run, era>>,
              Working(t)' => Working(t) /\ SameFrame(t), Held(t)' = {} \/ SameFrame(t)
       PROVE  /\ \A c \in Streams : \A x \in Own(c) : Fresh(c, x)'
              /\ \A u \in Threads : Eras(u)'
  <2>1. \A u \in Threads : Working(u)' => Working(u) /\ SameFrame(u)
    BY <1>11 DEF HeldSame, Working
  <2>2. \A u \in Threads : /\ Held(u)' \subseteq Held(u)
                           /\ Held(u)' # {} => job'[u].key = job[u].key
    BY <1>11 DEF HeldSame, SameFrame
  <2>3. \A c \in Streams : \A x \in Own(c) : Live(c, x.track)' => Live(c, x.track)
    BY <1>11, <2>2, LiveStays
  <2> QED BY <1>5, <1>11, <2>1, <2>3, SceneCalm
<1>12. ASSUME NEW t \in Threads, NEW k \in Fusion!Tracks, Adds(t, k)
       PROVE  (\A c \in Streams : Past(c)') /\ Medias'
  <2> DEFINE K == <<job[t].key, k.id>>
             x == Sample(t, k)
  <2>1. /\ k \in Held(t) /\ k \in D /\ Working(t) /\ K \in Keys /\ Files(K, x)
        /\ x \in Fusion!SampleRecords /\ job'[t].vote = <<>> /\ k.id \in 0 .. MaxId
    BY <1>4, <1>12 DEF Adds, Held, JobWithin, Working, Fusion!Tracks
  <2>2. /\ \A u \in Threads \ {t} : HeldSame(u) /\ job'[u].vote = job[u].vote
        /\ Held(t)' \subseteq Held(t) /\ SameFrame(t)
        /\ UNCHANGED <<tracked, lastPts, run, era>>
    <3>1. \A u \in Threads \ {t} : Like(u)
      BY <1>12 DEF Adds
    <3> QED BY <1>12, <3>1, HeldStays DEF Adds, HeldSame
  <2>3. /\ \A c \in Streams : \A y \in Own(c) : Fresh(c, y)'
        /\ \A u \in Threads : Eras(u)'
    BY <1>11, <2>1, <2>2
  <2>4. x.era = job[t].era /\ x.pts = job[t].pts
    BY DEF Sample
  <2>5. PICK d \in Streams, z \in Fusion!SampleRecords :
          d = job[t].key /\ z = x /\ z.era = job[t].era /\ z.pts = job[t].pts
    BY <1>0, <2>1, <2>4
  <2>m. Fresh(d, z)'
    <3>1. \A u \in Threads : Working(u)' => Working(u) /\ SameFrame(u)
      BY <2>1, <2>2 DEF HeldSame, Working
    <3>2. /\ z.era <= era[d]
          /\ z.era = era[d] => z.pts = lastPts[d]
          /\ \A u \in Threads \ {t} : Working(u) /\ job[u].key = d => job[u].era # z.era
      BY <1>5, <2>1, <2>5 DEF Eras
    <3>3. z.pts \in Nat
      BY DEF Fusion!SampleRecords
    <3>4. \A u \in Threads : Working(u)' /\ job'[u].key = d /\ job'[u].era = z.era
                               => job'[u].pts = z.pts
      BY <2>5, <3>1, <3>2 DEF SameFrame
    <3>5. NotAhead(d, z)'
      BY <2>2, <3>2, <3>3, <3>4 DEF NotAhead
    <3> QED BY <2>2, <3>2, <3>5 DEF Fresh
  <2>6. ASSUME NEW c \in Streams
        PROVE  Past(c)'
    <3>1. \A y \in Own(c)' : y \in Own(c) \/ (c = d /\ y = z)
      BY <1>0, <1>12, <2>5, OwnAdds
    <3>2. \A y \in Own(c)' : Fresh(c, y)'
      BY <2>3, <2>m, <3>1
    <3> QED BY <3>2 DEF Past, Fresh
  <2>7. ASSUME NEW L \in Keys
        PROVE  Ordered(redis[L], run)' /\ Ordered(fallback[L], run)'
    <3>1. Ordered(redis[L], run) /\ Ordered(fallback[L], run)
      BY <1>5 DEF Medias
    <3>2. CASE L # K
      <4>1. redis'[L] = redis[L] /\ fallback'[L] = fallback[L]
        BY <2>1, <3>2 DEF Files
      <4> QED BY <1>2, <3>1, <4>1
    <3>3. CASE L = K
      <4>1. /\ redis'[L] = redis[L] \/ redis'[L] = Append(redis[L], x)
            /\ fallback'[L] = fallback[L] \/ fallback'[L] = Append(fallback[L], x)
        BY <2>1, <3>3 DEF Files
      <4>2. redis[L] \in Seq(Fusion!SampleRecords) /\ fallback[L] \in Seq(Fusion!SampleRecords)
        BY <1>0, Typed
      <4>3. ASSUME NEW list \in {redis[L], fallback[L]}, NEW p \in 1 .. Len(list),
                   list[p].track.run = run, list[p].era = x.era
            PROVE  list[p].pts <= x.pts
        BY <1>0, <1>3, <1>5, <2>1, <2>4, <3>3, <4>3, OwnBehind
      <4> HIDE DEF x, K
      <4>4. Ordered(redis'[L], run)
        <5>1. \A p \in 1 .. Len(redis[L]) :
                redis[L][p].track.run = run /\ redis[L][p].era = x.era
                  => redis[L][p].pts <= x.pts
          BY <4>3
        <5> QED BY <2>1, <3>1, <4>1, <4>2, <5>1, OrderedMore
      <4>5. Ordered(fallback'[L], run)
        <5>1. \A p \in 1 .. Len(fallback[L]) :
                fallback[L][p].track.run = run /\ fallback[L][p].era = x.era
                  => fallback[L][p].pts <= x.pts
          BY <4>3
        <5> QED BY <2>1, <3>1, <4>1, <4>2, <5>1, OrderedMore
      <4> QED BY <1>2, <4>4, <4>5
    <3> QED BY <3>2, <3>3
  <2>8. \A u \in Threads : Ordered(job[u].vote, run)'
    <3>1. \A r : Ordered(<<>>, r)
      BY DEF Ordered
    <3>2. \A u \in Threads : Ordered(job'[u].vote, run)
      BY <1>5, <2>1, <2>2, <3>1 DEF Medias
    <3> QED BY <1>2, <3>2
  <2> QED BY <2>3, <2>6, <2>7, <2>8 DEF Medias
<1>13. ASSUME NEW t \in Threads, Fuses(t)
       PROVE  (\A c \in Streams : Past(c)') /\ Medias'
  <2>1. /\ \A u \in Threads \ {t} : job'[u] = job[u]
        /\ Held(t)' = Held(t) /\ SameFrame(t) /\ Working(t) /\ ListsKept
        /\ UNCHANGED <<tracked, lastPts, run, era>>
    BY <1>13 DEF Fuses, Only, Working
  <2>2. \A u \in Threads \ {t} : HeldSame(u)
    BY <2>1, HeldStays DEF HeldSame
  <2>3. /\ \A c \in Streams : \A x \in Own(c) : Fresh(c, x)'
        /\ \A u \in Threads : Eras(u)'
    BY <1>11, <2>1, <2>2
  <2>4. Ordered(job'[t].vote, run)
    <3>1. JobKey(t) \in Keys /\ redis[JobKey(t)] \in Seq(Fusion!SampleRecords)
          /\ fallback[JobKey(t)] \in Seq(Fusion!SampleRecords)
      BY <1>0, JobTyped, Typed
    <3>2. CASE job'[t].vote = <<>>
      BY <3>2 DEF Ordered
    <3>3. ASSUME NEW list \in {redis[JobKey(t)], fallback[JobKey(t)]}, Len(list) > 1
          PROVE  Ordered(Fusion!Recent(list), run)
      BY <1>5, <3>1, <3>3, OrderedRecent DEF Medias
    <3> QED BY <1>13, <3>2, <3>3 DEF Fuses
  <2>5. \A u \in Threads : Ordered(job[u].vote, run)'
    <3>1. \A u \in Threads : Ordered(job'[u].vote, run)
      BY <1>5, <2>1, <2>4 DEF Medias
    <3> QED BY <1>2, <3>1
  <2>6. \A L \in Keys : Ordered(redis[L], run)' /\ Ordered(fallback[L], run)'
    BY <1>2, <1>5, <2>1, OrderedKept DEF Medias
  <2> QED BY <1>6, <2>1, <2>3, <2>5, <2>6 DEF Medias
<1>14. ASSUME NEW t \in Threads, Ends(t)
       PROVE  (\A c \in Streams : Past(c)') /\ Medias'
  <2>1. /\ \A u \in Threads \ {t} : job'[u] = job[u] /\ HeldSame(u)
        /\ Held(t)' = {} /\ ~Working(t)' /\ job'[t].vote = <<>> /\ ListsKept
        /\ UNCHANGED <<tracked, lastPts, run, era>>
    BY <1>2, <1>14, JobIdle, HeldStays DEF Ends, Only, ListsKept, HeldSame
  <2>2. /\ \A c \in Streams : \A x \in Own(c) : Fresh(c, x)'
        /\ \A u \in Threads : Eras(u)'
    BY <1>11, <2>1
  <2>3. \A u \in Threads : job'[u].vote = job[u].vote \/ job'[u].vote = <<>>
    BY <2>1
  <2> QED BY <1>5, <1>6, <2>1, <2>2, <2>3, MediasKept
<1>15. ASSUME NEW c \in Streams, Resets(c)
       PROVE  (\A d \in Streams : Past(d)') /\ Medias'
  <2>1. /\ \A d \in Streams : \A x \in Own(d) : Fresh(d, x)'
        /\ \A u \in Threads : Eras(u)'
    BY <1>5, <1>15, ResetScene
  <2>2. ListsKept /\ \A u \in Threads : job'[u].vote = job[u].vote
    BY <1>15 DEF Resets, ListsKept
  <2> QED BY <1>2, <1>5, <1>6, <2>1, <2>2, MediasKept
<1>16. ASSUME Faulted
       PROVE  (\A c \in Streams : Past(c)') /\ Medias'
  <2>1. /\ \A u \in Threads : HeldSame(u) /\ job'[u].vote = job[u].vote
        /\ ListsKept /\ UNCHANGED <<tracked, lastPts, run, era>>
    <3>1. \A u \in Threads : Like(u)
      BY <1>16 DEF Faulted
    <3> QED BY <1>16, <3>1, HeldStays DEF Faulted, HeldSame
  <2>2. \A u \in Threads : /\ Working(u)' => Working(u) /\ SameFrame(u)
                           /\ Held(u)' \subseteq Held(u) /\ job'[u].key = job[u].key
    BY <2>1 DEF HeldSame, Working, SameFrame
  <2>3. \A c \in Streams : \A x \in Own(c) : Live(c, x.track)' => Live(c, x.track)
    BY <2>1, <2>2, LiveStays
  <2>4. /\ \A c \in Streams : \A x \in Own(c) : Fresh(c, x)'
        /\ \A u \in Threads : Eras(u)'
    BY <1>5, <2>1, <2>2, <2>3, SceneCalm
  <2> QED BY <1>5, <1>6, <2>1, <2>4, MediasKept
<1> QED BY <1>0, <1>7, <1>9, <1>10, <1>12, <1>13, <1>14, <1>15, <1>16 DEF Kind

LEMMA SceneInit ==
  ASSUME Fusion!Init
  PROVE  SceneInv
<1>1. /\ \A u \in Threads : ~Working(u) /\ job[u].vote = <<>>
      /\ \A K \in Keys : redis[K] = <<>> /\ fallback[K] = <<>>
  BY IdleJob DEF Fusion!Init, Fusion!StoreInit, Working
<1>2. \A c \in Streams : Own(c) = {}
  BY OwnNone
<1>3. \A r : Ordered(<<>>, r)
  BY DEF Ordered
<1> QED BY <1>1, <1>2, <1>3 DEF SceneInv, Past, Eras

\* What VoteInOneScene says.
LEMMA SceneVotes ==
  ASSUME FramesInv, IdsInv, SceneInv
  PROVE  Fusion!VoteInOneScene
<1> SUFFICES ASSUME ~clashed, NEW t \in Threads, NEW p \in Fusion!OwnRun(t),
                    NEW q \in Fusion!OwnRun(t), p < q,
                    job[t].vote[p].era = job[t].vote[q].era
             PROVE  job[t].vote[p].pts <= job[t].vote[q].pts
  BY DEF Fusion!VoteInOneScene
<1>1. PICK D \in SUBSET OfRun : Allots(D)
  BY DEF IdsInv
<1>2. /\ p \in 1 .. Len(job[t].vote) /\ q \in 1 .. Len(job[t].vote)
      /\ job[t].vote[p].track.run = job[t].track.run
      /\ job[t].vote[q].track.run = job[t].track.run
  BY DEF Fusion!OwnRun
<1>3. job[t].track.run = run
  BY <1>1, <1>2 DEF Allots, InUse, JobWithin, OfRun
<1> QED BY <1>2, <1>3 DEF SceneInv, Ordered

-----------------------------------------------------------------------------
(* The theorems of the frames                                              *)

VotingInv == FramesInv /\ IdsInv /\ CurrentInv /\ SceneInv

\* Nothing changes when the variables do not.
LEMMA VotingStutters ==
  ASSUME VotingInv, UNCHANGED frameVars
  PROVE  VotingInv'
<1>1. /\ UNCHANGED <<scope, tracked, lastPts, count, run, clashed>>
      /\ UNCHANGED <<now, up, connected, redis, fallback, expires>>
      /\ UNCHANGED <<job, frames, faults, era>>
  BY DEF frameVars
<1>2. FramesInv'
  <2>1. Fusion!TypeOK'
    BY <1>1 DEF VotingInv, FramesInv, Fusion!TypeOK
  <2>2. \A u \in Threads : JobOK(u)'
    BY <1>1 DEF VotingInv, FramesInv, JobOK, Held, OfRun
  <2>3. SamplesFiled'
    BY <1>1 DEF VotingInv, FramesInv, SamplesFiled, Filed
  <2>4. \A c \in Streams : (tracked[c] \subseteq OfRun)'
    BY <1>1 DEF VotingInv, FramesInv, OfRun
  <2> QED BY <2>1, <2>2, <2>3, <2>4 DEF FramesInv
<1>3. \A c : Own(c)' = Own(c)
  BY <1>1 DEF Own, Within
<1>4. ASSUME NEW D, Allots(D)
      PROVE  Allots(D)'
  <2>1. InUse(D)'
    BY <1>1, <1>3, <1>4 DEF Allots, InUse, JobWithin, Held
  <2>2. Given(D)' /\ \A u \in Threads : Taking(u, D)'
    BY <1>1, <1>4 DEF Allots, Given, Taking
  <2> QED BY <2>1, <2>2 DEF Allots
<1>5. IdsInv'
  <2>1. OfRun' = OfRun
    BY <1>1 DEF OfRun
  <2> QED BY <1>1, <1>4, <2>1 DEF VotingInv, IdsInv
<1>6. CurrentInv'
  BY <1>1 DEF VotingInv, CurrentInv, SampleThere, Back, JobKey, VoteHasFrame, Fusion!OwnRun
<1>7. SceneInv'
  <2>1. \A c \in Streams : Past(c) => Past(c)'
    BY <1>1, <1>3 DEF Past, Live, NotAhead, Held, Working
  <2>2. \A u \in Threads : Eras(u) => Eras(u)'
    BY <1>1 DEF Eras, Working
  <2> QED BY <1>1, <2>1, <2>2 DEF VotingInv, SceneInv, Ordered
<1> QED BY <1>2, <1>5, <1>6, <1>7 DEF VotingInv

LEMMA VotingKept ==
  ASSUME part = "frames" => VotingInv, [AnyNext]_allVars
  PROVE  (part = "frames" => VotingInv)'
<1>1. CASE part = "frames" /\ Fusion!Next /\ UNCHANGED part
  BY <1>1, FramesStep, IdsStep, CurrentStep, SceneStep DEF VotingInv
<1>2. CASE part = "workers" /\ UNCHANGED part
  BY <1>2
<1>3. CASE UNCHANGED allVars
  BY <1>3, VotingStutters DEF allVars
<1> QED BY <1>1, <1>2, <1>3 DEF AnyNext

LEMMA VotingAlways == AnySpec => [](part = "frames" => VotingInv)
<1>1. AnyInit => (part = "frames" => VotingInv)
  BY FramesInit, IdsInit, CurrentInit, SceneInit DEF AnyInit, VotingInv
<1>2. (part = "frames" => VotingInv) /\ [AnyNext]_allVars => (part = "frames" => VotingInv)'
  BY VotingKept
<1> QED BY <1>1, <1>2, PTL DEF AnySpec

\* VoteOfOneTrack: within one run of the process no two tracks vote together, whatever
\* the resets, the losses, the faults and the order in which threads take ids, as long
\* as no increment of the counter is lost and none is read for another's.
THEOREM VotesOfOneTrack == AnySpec => []VoteOfOneTrack
<1>1. (part = "frames" => VotingInv) => VoteOfOneTrack
  BY OneTrackVotes DEF VotingInv, VoteOfOneTrack
<1> QED BY <1>1, VotingAlways, PTL

\* VoteIsCurrent: the sample of a frame takes part in the vote for it, unless a window
\* of samples of its key or a change of the store has come between.
THEOREM VotesAreCurrent == AnySpec => []VoteIsCurrent
<1>1. (part = "frames" => VotingInv) => VoteIsCurrent
  BY CurrentVotes DEF VotingInv, VoteIsCurrent
<1> QED BY <1>1, VotingAlways, PTL

\* VoteInOneScene: the samples of a vote that lie between two frames without a time
\* stamp, or two pairs of overlapping frames, are in media order, and so of one scene.
THEOREM VotesInOneScene == AnySpec => []VoteInOneScene
<1>1. (part = "frames" => VotingInv) => VoteInOneScene
  BY SceneVotes DEF VotingInv, VoteInOneScene
<1> QED BY <1>1, VotingAlways, PTL

-----------------------------------------------------------------------------
(* The workers: where a detection is.                                      *)

Distinct(q) == \A i, j \in 1 .. Len(q) : q[i] = q[j] => i = j

LEMMA ElementsAppend ==
  ASSUME NEW S, NEW q \in Seq(S), NEW x \in S
  PROVE  Append(q, x) \in Seq(S) /\ Workers!Elements(Append(q, x)) = Workers!Elements(q) \union {x}
<1>1. /\ Append(q, x) \in Seq(S) /\ Len(Append(q, x)) = Len(q) + 1 /\ Len(q) \in Nat
      /\ Append(q, x)[Len(q) + 1] = x
      /\ \A i \in 1 .. Len(q) : Append(q, x)[i] = q[i]
  OBVIOUS
<1> QED BY <1>1 DEF Workers!Elements

LEMMA ElementsTail ==
  ASSUME NEW S, NEW q \in Seq(S), q # <<>>
  PROVE  /\ Tail(q) \in Seq(S) /\ Head(q) \in S
         /\ Workers!Elements(q) = Workers!Elements(Tail(q)) \union {Head(q)}
         /\ Distinct(q) => Distinct(Tail(q)) /\ Head(q) \notin Workers!Elements(Tail(q))
<1>1. /\ Tail(q) \in Seq(S) /\ Len(q) \in Nat /\ Len(q) >= 1 /\ Len(Tail(q)) = Len(q) - 1
      /\ \A i \in 1 .. Len(Tail(q)) : Tail(q)[i] = q[i + 1] /\ i + 1 \in 1 .. Len(q)
      /\ Head(q) = q[1] /\ 1 \in 1 .. Len(q) /\ q[1] \in S
  OBVIOUS
<1>2. Workers!Elements(Tail(q)) \union {Head(q)} \subseteq Workers!Elements(q)
  BY <1>1 DEF Workers!Elements
<1>3. ASSUME NEW i \in 1 .. Len(q)
      PROVE  q[i] \in Workers!Elements(Tail(q)) \union {Head(q)}
  <2>1. CASE i = 1
    BY <1>1, <2>1
  <2>2. CASE i # 1
    <3>1. i - 1 \in 1 .. Len(Tail(q)) /\ (i - 1) + 1 = i
      BY <1>1, <2>2
    <3>2. Tail(q)[i - 1] = q[i]
      BY <1>1, <3>1
    <3> QED BY <3>1, <3>2 DEF Workers!Elements
  <2> QED BY <2>1, <2>2
<1>4. Workers!Elements(q) \subseteq Workers!Elements(Tail(q)) \union {Head(q)}
  BY <1>3 DEF Workers!Elements
<1>5. ASSUME Distinct(q)
      PROVE  Distinct(Tail(q)) /\ Head(q) \notin Workers!Elements(Tail(q))
  <2>1. ASSUME NEW i \in 1 .. Len(Tail(q)), NEW j \in 1 .. Len(Tail(q)), Tail(q)[i] = Tail(q)[j]
        PROVE  i = j
    <3>1. q[i + 1] = q[j + 1] /\ i + 1 \in 1 .. Len(q) /\ j + 1 \in 1 .. Len(q)
      BY <1>1, <2>1
    <3>2. i + 1 = j + 1
      BY <1>5, <3>1 DEF Distinct
    <3> QED BY <3>2
  <2>2. ASSUME NEW i \in 1 .. Len(Tail(q)), Tail(q)[i] = Head(q)
        PROVE  FALSE
    <3>1. q[i + 1] = q[1] /\ i + 1 \in 1 .. Len(q) /\ 1 \in 1 .. Len(q)
      BY <1>1, <2>2
    <3>2. i + 1 = 1
      BY <1>5, <3>1 DEF Distinct
    <3> QED BY <3>2
  <2>3. Head(q) \notin Workers!Elements(Tail(q))
    BY <2>2 DEF Workers!Elements
  <2> QED BY <2>1, <2>3 DEF Distinct
<1> QED BY <1>1, <1>2, <1>4, <1>5

\* A push loses nothing: what it displaces goes to the history.
LEMMA Pushed ==
  ASSUME NEW S, NEW q \in Seq(S), NEW x \in S, Len(q) <= DlqMax
  PROVE  /\ Workers!Push(q, x) \in Seq(S) /\ Len(Workers!Push(q, x)) <= DlqMax
         /\ Workers!Displaced(q) \subseteq S
         /\ Workers!Elements(q) \union {x}
              \subseteq Workers!Elements(Workers!Push(q, x)) \union Workers!Displaced(q)
<1>0. DlqMax \in Nat \ {0} /\ Len(q) \in Nat
  BY Instances
<1>1. CASE Len(q) < DlqMax
  <2>1. Workers!Push(q, x) = Append(q, x) /\ Workers!Displaced(q) = {}
    BY <1>1 DEF Workers!Push, Workers!Displaced
  <2>2. Len(Append(q, x)) <= DlqMax
    BY <1>0, <1>1
  <2> QED BY <2>1, <2>2, ElementsAppend
<1>2. CASE ~(Len(q) < DlqMax)
  <2>1. Workers!Push(q, x) = Append(Tail(q), x) /\ Workers!Displaced(q) = {Head(q)}
    BY <1>2 DEF Workers!Push, Workers!Displaced
  <2>2. q # <<>>
    BY <1>0, <1>2
  <2>3. /\ Tail(q) \in Seq(S) /\ Head(q) \in S
        /\ Workers!Elements(q) = Workers!Elements(Tail(q)) \union {Head(q)}
    BY <2>2, ElementsTail
  <2>4. Len(Append(Tail(q), x)) <= DlqMax
    BY <1>0, <2>2
  <2>5. PICK r \in Seq(S) : r = Tail(q)
    BY <2>3
  <2>6. /\ Append(r, x) \in Seq(S)
        /\ Workers!Elements(Append(r, x)) = Workers!Elements(r) \union {x}
    BY ElementsAppend
  <2> QED BY <2>1, <2>3, <2>4, <2>5, <2>6
<1> QED BY <1>1, <1>2

\* A thread carries a detection of its frame that is still to do, or the one it is
\* handing down.
Carries(t, d) == d \in Workers!Elements(call[t].rest) \/ Workers!Handing(t, d)

\* The detections to do are of the frame of the call, each once; the one that is
\* handed down is no longer among them; only a frame has any.
CallOrdered(t) ==
  /\ call[t].of = NoThread => call[t].rest = <<>>
  /\ call[t].at \in {"idle", "replay"} => call[t].of = NoThread
  /\ call[t].at = "frame" => call[t].of \in Frames
  /\ call[t].of \in Frames =>
       Workers!Elements(call[t].rest) \subseteq Workers!Elements(Detections[call[t].of])
  /\ call[t].at \in {"anpr", "sighting", "match"} => call[t].det \in Workers!Dets
  /\ call[t].at = "replay" => replays > 0
  /\ Distinct(call[t].rest)
  /\ call[t].at \in {"anpr", "sighting"} =>
       call[t].det \notin Workers!Elements(call[t].rest)

WorkInv ==
  /\ Workers!TypeOK
  /\ \A t \in Threads : CallOrdered(t)
  /\ dlqHolder # NoThread => replays > 0

\* Every dispatch pays for one carrier, or for one sighting handed over.
Carriers(d) == {t \in Threads : Carries(t, d)}
Paid == \A d \in Workers!Dets : enqueued[d] + Cardinality(Carriers(d)) <= dispatched[d]

LEMMA CallSet ==
  ASSUME WorkInv, NEW t \in Threads, NEW w \in Workers!Calls, call' = [call EXCEPT ![t] = w]
  PROVE  /\ call' \in [Threads -> Workers!Calls] /\ call'[t] = w
         /\ \A u \in Threads \ {t} : call'[u] = call[u]
<1>1. call \in [Threads -> Workers!Calls]
  BY DEF WorkInv, Workers!TypeOK
<1> QED BY <1>1

\* A step that works on one call.
LEMMA CallsStep ==
  ASSUME WorkInv, NEW t \in Threads, \A u \in Threads \ {t} : call'[u] = call[u],
         Workers!TypeOK', replays' >= replays, dlqHolder' # NoThread => replays' > 0,
         CallOrdered(t)'
  PROVE  WorkInv'
<1>1. replays \in Nat /\ replays' \in Nat
  BY Instances DEF WorkInv, Workers!TypeOK, Workers!WorkerAssumption
<1>2. ASSUME NEW u \in Threads
      PROVE  CallOrdered(u)'
  <2>1. CASE u = t
    BY <2>1
  <2>2. CASE u # t
    <3>1. call'[u] = call[u] /\ CallOrdered(u)
      BY <2>2 DEF WorkInv
    <3>2. replays > 0 => replays' > 0
      BY <1>1
    <3> QED BY <3>1, <3>2 DEF CallOrdered
  <2> QED BY <2>1, <2>2
<1> QED BY <1>2 DEF WorkInv

\* What the call of t does to the detections: it keeps, hands over or quarantines
\* what it carries, and finds only what it carries afterwards.
LEMMA AccountedStep ==
  ASSUME Workers!DetectionAccounted, NEW t \in Threads, replays' = 0 => replays = 0,
         \A u \in Threads \ {t} : call'[u] = call[u],
         \A d \in found : enqueued[d] > 0 => enqueued'[d] > 0,
         \A d \in found : Workers!Quarantined(d) => Workers!Quarantined(d)',
         \A d \in found' : \/ Carries(t, d)'
                           \/ /\ d \in found
                              /\ Carries(t, d) => enqueued'[d] > 0 \/ Workers!Quarantined(d)'
  PROVE  Workers!DetectionAccounted'
<1> SUFFICES ASSUME replays' = 0, NEW d \in found'
             PROVE  Workers!Pending(d)' \/ enqueued'[d] > 0 \/ Workers!Quarantined(d)'
  BY DEF Workers!DetectionAccounted
<1>1. CASE Carries(t, d)'
  BY <1>1 DEF Carries, Workers!Pending
<1>2. CASE d \in found /\ (Carries(t, d) => enqueued'[d] > 0 \/ Workers!Quarantined(d)')
  <2>1. Workers!Pending(d) \/ enqueued[d] > 0 \/ Workers!Quarantined(d)
    BY <1>2 DEF Workers!DetectionAccounted
  <2>2. CASE Workers!Pending(d)
    <3>1. PICK u \in Threads : Carries(u, d)
      BY <2>2 DEF Workers!Pending, Carries
    <3>2. CASE u = t
      BY <1>2, <3>1, <3>2
    <3>3. CASE u # t
      <4>1. Carries(u, d)'
        BY <3>1, <3>3 DEF Carries, Workers!Handing
      <4> QED BY <4>1 DEF Carries, Workers!Pending
    <3> QED BY <3>2, <3>3
  <2> QED BY <1>2, <2>1, <2>2
<1> QED BY <1>1, <1>2

\* What the call of t pays: one for each detection it takes up or hands over.
LEMMA PaidStep ==
  ASSUME Paid, WorkInv, WorkInv', NEW t \in Threads,
         \A u \in Threads \ {t} : call'[u] = call[u],
         \A d \in Workers!Dets :
           \/ /\ enqueued'[d] = enqueued[d] /\ dispatched'[d] = dispatched[d]
              /\ Carries(t, d)' => Carries(t, d)
           \/ enqueued'[d] = enqueued[d] /\ dispatched'[d] = dispatched[d] + 1
           \/ /\ enqueued'[d] = enqueued[d] + 1 /\ dispatched'[d] = dispatched[d]
              /\ Carries(t, d) /\ ~Carries(t, d)'
  PROVE  Paid'
<1> SUFFICES ASSUME NEW d \in Workers!Dets
             PROVE  enqueued'[d] + Cardinality(Carriers(d)') <= dispatched'[d]
  BY DEF Paid
<1> DEFINE Rest == {u \in Threads \ {t} : Carries(u, d)}
<1>1. /\ enqueued[d] \in Nat /\ dispatched[d] \in Nat
      /\ enqueued[d] + Cardinality(Carriers(d)) <= dispatched[d]
  BY DEF Paid, WorkInv, Workers!TypeOK
<1>2. \A u \in Threads \ {t} : Carries(u, d)' <=> Carries(u, d)
  BY DEF Carries, Workers!Handing
<1>3. /\ Carriers(d) = IF Carries(t, d) THEN Rest \union {t} ELSE Rest
      /\ Carriers(d)' = IF Carries(t, d)' THEN Rest \union {t} ELSE Rest
  BY <1>2 DEF Carriers
<1>4. IsFiniteSet(Rest) /\ t \notin Rest
  BY Instances, FS_Subset
<1>5. Cardinality(Rest) \in Nat /\ Cardinality(Rest \union {t}) = Cardinality(Rest) + 1
  BY <1>4, FS_AddElement, FS_CardinalityType
<1> HIDE DEF Rest
<1>6. PICK n \in Nat : n = Cardinality(Rest)
  BY <1>5
<1>7. /\ Cardinality(Carriers(d)) = IF Carries(t, d) THEN n + 1 ELSE n
      /\ Cardinality(Carriers(d)') = IF Carries(t, d)' THEN n + 1 ELSE n
  BY <1>3, <1>5, <1>6
<1> QED BY <1>1, <1>7

LEMMA WorkersAre ==
  /\ NoThread \notin Threads /\ NoThread \notin Frames /\ MaxReplays \in Nat
  /\ \A f \in Frames : /\ Detections[f] \in Seq(Workers!Dets) /\ Distinct(Detections[f])
                       /\ Workers!Elements(Detections[f]) \subseteq Workers!Dets
<1>1. /\ NoThread \notin Threads /\ NoThread \notin Frames /\ MaxReplays \in Nat
      /\ \A f \in Frames : Detections[f] \in Seq(Workers!Dets) /\ Distinct(Detections[f])
  BY Instances DEF Workers!WorkerAssumption, Distinct
<1>2. \A f \in Frames : Workers!Elements(Detections[f]) \subseteq Workers!Dets
  BY DEF Workers!Dets
<1> QED BY <1>1, <1>2

LEMMA EmptyCall ==
  /\ <<>> \in Seq(Workers!Dets) /\ Workers!Elements(<<>>) = {} /\ Distinct(<<>>)
  /\ Workers!Nobody \in Workers!Calls
  /\ Workers!Nobody.rest = <<>> /\ Workers!Nobody.of = NoThread /\ Workers!Nobody.at = "idle"
<1>1. <<>> \in Seq(Workers!Dets) /\ Workers!Elements(<<>>) = {} /\ Distinct(<<>>)
  BY DEF Workers!Elements, Distinct
<1> QED BY <1>1 DEF Workers!Nobody, Workers!Calls

\* The call of t goes on to another worker.
LEMMA Gone ==
  ASSUME WorkInv, NEW t \in Threads,
         NEW at \in {"idle", "frame", "anpr", "sighting", "match", "replay"}, Workers!Go(t, at)
  PROVE  /\ call' \in [Threads -> Workers!Calls] /\ call'[t].at = at
         /\ call'[t].rest = call[t].rest /\ call'[t].of = call[t].of
         /\ call'[t].det = call[t].det
         /\ \A u \in Threads \ {t} : call'[u] = call[u]
<1> DEFINE w == [call[t] EXCEPT !.at = at]
<1>1. call[t] \in Workers!Calls
  BY DEF WorkInv, Workers!TypeOK
<1>2. /\ w \in Workers!Calls /\ w.at = at /\ w.rest = call[t].rest /\ w.of = call[t].of
      /\ w.det = call[t].det
  BY <1>1 DEF Workers!Calls
<1>3. call' = [call EXCEPT ![t] = w]
  BY DEF Workers!Go
<1> HIDE DEF w
<1> QED BY <1>2, <1>3, CallSet

\* The call of t is over; an operator's replay goes on.
LEMMA Returned ==
  ASSUME WorkInv, NEW t \in Threads, Workers!Return(t)
  PROVE  /\ call' \in [Threads -> Workers!Calls]
         /\ call'[t].rest = <<>> /\ call'[t].of = NoThread
         /\ \/ call'[t].at = "idle"
            \/ call'[t].at = "replay" /\ replays > 0
         /\ \A u \in Threads \ {t} : call'[u] = call[u]
<1> DEFINE w == [Workers!Nobody EXCEPT !.at = IF dlqHolder = t THEN "replay" ELSE "idle"]
<1>1. /\ w \in Workers!Calls /\ w.rest = <<>> /\ w.of = NoThread
      /\ w.at = IF dlqHolder = t THEN "replay" ELSE "idle"
  BY EmptyCall DEF Workers!Calls
<1>2. call' = [call EXCEPT ![t] = w]
  BY DEF Workers!Return
<1>3. dlqHolder = t => replays > 0
  BY WorkersAre DEF WorkInv
<1> HIDE DEF w
<1> QED BY <1>1, <1>2, <1>3, CallSet

\* An event below a frame is done with; what the frame has left to do stays.
LEMMA Backed ==
  ASSUME WorkInv, NEW t \in Threads, Workers!Back(t)
  PROVE  /\ call' \in [Threads -> Workers!Calls]
         /\ call'[t].rest = call[t].rest /\ call'[t].of = call[t].of
         /\ \/ call'[t].at = "frame" /\ call[t].of \in Frames
            \/ call'[t].at = "idle" /\ call[t].of = NoThread
            \/ call'[t].at = "replay" /\ call[t].of = NoThread /\ replays > 0
         /\ \A u \in Threads \ {t} : call'[u] = call[u]
<1>1. CASE call[t].of = NoThread
  <2>1. Workers!Return(t)
    BY <1>1 DEF Workers!Back
  <2>2. call[t].rest = <<>>
    BY <1>1 DEF WorkInv, CallOrdered
  <2> QED BY <1>1, <2>1, <2>2, Returned
<1>2. CASE call[t].of # NoThread
  <2>1. Workers!Go(t, "frame")
    BY <1>2 DEF Workers!Back
  <2>2. call[t].of \in Frames
    BY <1>2 DEF WorkInv, Workers!TypeOK, Workers!Calls
  <2> QED BY <2>1, <2>2, Gone
<1> QED BY <1>1, <1>2

\* A poison pill joins the queue, and nothing quarantined is forgotten.
LEMMA Quarantining ==
  ASSUME WorkInv, NEW t, NEW topic, NEW of, [topic |-> topic, of |-> of] \in Workers!Pills,
         Workers!Quarantine(t, topic, of)
  PROVE  /\ dlq' \in Seq(Workers!Pills) /\ Len(dlq') <= DlqMax
         /\ evicted' \subseteq Workers!Pills
         /\ \A d : Workers!Quarantined(d) => Workers!Quarantined(d)'
         /\ \A d : d = of => Workers!Quarantined(d)'
         /\ of \in Frames =>
              \A d \in Workers!Elements(Detections[of]) : Workers!Quarantined(d)'
<1>1. dlq \in Seq(Workers!Pills) /\ Len(dlq) <= DlqMax /\ evicted \subseteq Workers!Pills
  BY DEF WorkInv, Workers!TypeOK
<1>2. PICK x \in Workers!Pills : x = [topic |-> topic, of |-> of]
  OBVIOUS
<1>3. dlq' = Workers!Push(dlq, x) /\ evicted' = evicted \union Workers!Displaced(dlq)
  BY <1>2 DEF Workers!Quarantine
<1>4. /\ dlq' \in Seq(Workers!Pills) /\ Len(dlq') <= DlqMax
      /\ Workers!Displaced(dlq) \subseteq Workers!Pills
      /\ Workers!Elements(dlq) \union {x}
           \subseteq Workers!Elements(dlq') \union Workers!Displaced(dlq)
  BY <1>1, <1>3, Pushed
<1>5. /\ Workers!Elements(dlq) \union evicted
           \subseteq Workers!Elements(dlq') \union evicted'
      /\ x \in Workers!Elements(dlq') \union evicted'
  BY <1>3, <1>4
<1>6. \A d : Workers!Quarantined(d) => Workers!Quarantined(d)'
  BY <1>5 DEF Workers!Quarantined
<1>7. x.of = of
  BY <1>2
<1>8. /\ \A d : d = of => Workers!Quarantined(d)'
      /\ of \in Frames => \A d \in Workers!Elements(Detections[of]) : Workers!Quarantined(d)'
  BY <1>5, <1>7 DEF Workers!Quarantined
<1> QED BY <1>1, <1>3, <1>4, <1>6, <1>8

\* A frame event is dispatched: its detections are to do.
LEMMA Entered ==
  ASSUME WorkInv, NEW t \in Threads, NEW f \in Frames, Workers!EnterFrame(t, f)
  PROVE  /\ call' \in [Threads -> Workers!Calls]
         /\ call'[t].at = "frame" /\ call'[t].of = f
         /\ call'[t].rest \in {Detections[f], <<>>}
         /\ found' = found \union Workers!Elements(call'[t].rest)
         /\ dispatched' \in [Workers!Dets -> Nat]
         /\ \A d \in Workers!Dets :
              dispatched'[d] = dispatched[d]
                                 + IF d \in Workers!Elements(call'[t].rest) THEN 1 ELSE 0
         /\ \A u \in Threads \ {t} : call'[u] = call[u]
<1>1. PICK ds \in {Detections[f], <<>>} :
        /\ call' = [call EXCEPT ![t] = [at |-> "frame", rest |-> ds, of |-> f, det |-> NoThread]]
        /\ found' = found \union Workers!Elements(ds)
        /\ Workers!Dispatched(Workers!Elements(ds))
  BY DEF Workers!EnterFrame
<1> DEFINE w == [at |-> "frame", rest |-> ds, of |-> f, det |-> NoThread]
<1>2. ds \in Seq(Workers!Dets)
  BY WorkersAre, EmptyCall
<1>3. w \in Workers!Calls /\ w.at = "frame" /\ w.rest = ds /\ w.of = f
  BY <1>2 DEF Workers!Calls
<1>4. call' = [call EXCEPT ![t] = w]
  BY <1>1
<1> HIDE DEF w
<1>5. /\ call' \in [Threads -> Workers!Calls] /\ call'[t] = w
      /\ \A u \in Threads \ {t} : call'[u] = call[u]
  BY <1>3, <1>4, CallSet
<1>6. dispatched \in [Workers!Dets -> Nat]
  BY DEF WorkInv, Workers!TypeOK
<1>7. /\ dispatched' \in [Workers!Dets -> Nat]
      /\ \A d \in Workers!Dets :
           dispatched'[d] = dispatched[d] + IF d \in Workers!Elements(ds) THEN 1 ELSE 0
  BY <1>1, <1>6 DEF Workers!Dispatched
<1> QED BY <1>1, <1>3, <1>5, <1>7

WorkersInv == WorkInv /\ Workers!DetectionAccounted /\ Paid

\* A call without a frame has nothing left to do.
LEMMA Unburdened ==
  ASSUME WorkInv, NEW t \in Threads, call[t].at \in {"idle", "replay"}
  PROVE  call[t].rest = <<>> /\ call[t].of = NoThread /\ \A d : ~Carries(t, d)
<1>1. call[t].rest = <<>> /\ call[t].of = NoThread
  BY DEF WorkInv, CallOrdered
<1> QED BY <1>1, EmptyCall DEF Carries, Workers!Handing

LEMMA WorkersStep ==
  ASSUME WorkersInv, Workers!Next
  PROVE  WorkersInv'
<1>0. /\ WorkInv /\ Workers!DetectionAccounted /\ Paid /\ Workers!TypeOK
      /\ \A t \in Threads : CallOrdered(t) /\ call[t] \in Workers!Calls
      /\ enqueued \in [Workers!Dets -> Nat] /\ dispatched \in [Workers!Dets -> Nat]
      /\ found \subseteq Workers!Dets /\ replays \in Nat
  BY WorkersAre DEF WorkersInv, WorkInv, Workers!TypeOK
<1>1. replays >= replays
  BY <1>0
<1>2. ASSUME NEW t \in Threads, NEW f \in Frames, Workers!EnterFrame(t, f),
             \A d : ~Carries(t, d), replayTodo' \in Seq(Workers!Pills), published' \subseteq Frames,
             UNCHANGED <<dlq, evicted, dlqHolder, replays, enqueued>>
      PROVE  WorkersInv'
  <2>1. /\ call' \in [Threads -> Workers!Calls]
        /\ call'[t].at = "frame" /\ call'[t].of = f
        /\ call'[t].rest \in {Detections[f], <<>>}
        /\ found' = found \union Workers!Elements(call'[t].rest)
        /\ dispatched' \in [Workers!Dets -> Nat]
        /\ \A u \in Threads \ {t} : call'[u] = call[u]
    BY <1>0, <1>2, Entered
  <2>2. \A d \in Workers!Dets :
          dispatched'[d] = dispatched[d]
                             + IF d \in Workers!Elements(call'[t].rest) THEN 1 ELSE 0
    BY <1>0, <1>2, Entered
  <2>3. /\ Workers!Elements(call'[t].rest) \subseteq Workers!Elements(Detections[f])
        /\ Distinct(call'[t].rest) /\ Workers!Elements(call'[t].rest) \subseteq Workers!Dets
    BY <2>1, WorkersAre, EmptyCall
  <2>4. Workers!TypeOK'
    BY <1>0, <1>2, <2>1, <2>3 DEF Workers!TypeOK
  <2>5. CallOrdered(t)'
    BY <2>1, <2>3, WorkersAre DEF CallOrdered
  <2>6. WorkInv'
    BY <1>0, <1>1, <1>2, <2>1, <2>4, <2>5, CallsStep DEF WorkInv
  <2>7. \A d : Carries(t, d)' <=> d \in Workers!Elements(call'[t].rest)
    BY <2>1 DEF Carries, Workers!Handing
  <2>8. Workers!DetectionAccounted'
    <3>1. \A d : Workers!Quarantined(d) => Workers!Quarantined(d)'
      BY <1>2 DEF Workers!Quarantined
    <3> QED BY <1>0, <1>2, <2>1, <2>7, <3>1, AccountedStep
  <2>9. Paid'
    <3>1. \A d \in Workers!Dets :
            \/ dispatched'[d] = dispatched[d] + 1
            \/ dispatched'[d] = dispatched[d] /\ ~Carries(t, d)'
      BY <1>0, <2>2, <2>7
    <3> QED BY <1>0, <1>2, <2>1, <2>6, <3>1, PaidStep
  <2> QED BY <2>6, <2>8, <2>9 DEF WorkersInv
\* Steps that find and dispatch nothing: what is left is that t keeps its burden,
\* hands it over or sees it quarantined.
<1>3. ASSUME NEW t \in Threads, WorkInv', UNCHANGED <<found, dispatched>>,
             replays' = 0 => replays = 0, enqueued' = enqueued,
             \A u \in Threads \ {t} : call'[u] = call[u],
             \A d : Workers!Quarantined(d) => Workers!Quarantined(d)',
             \A d : Carries(t, d)' => Carries(t, d),
             \A d \in found : Carries(t, d) => Carries(t, d)' \/ Workers!Quarantined(d)'
      PROVE  WorkersInv'
  <2>1. Workers!DetectionAccounted'
    BY <1>0, <1>3, AccountedStep
  <2>2. Paid'
    BY <1>0, <1>3, PaidStep
  <2> QED BY <1>3, <2>1, <2>2 DEF WorkersInv
<1>4. ASSUME NEW t \in Threads, NEW f \in Frames, Workers!PublishFrame(t, f)
      PROVE  WorkersInv'
  <2>1. /\ Workers!EnterFrame(t, f) /\ published' = published \union {f}
        /\ call[t].at = "idle"
        /\ UNCHANGED <<dlq, evicted, dlqHolder, replayTodo, replays, enqueued>>
    BY <1>4 DEF Workers!PublishFrame, Workers!queue, Workers!replay, Workers!At
  <2>2. replayTodo' \in Seq(Workers!Pills) /\ published' \subseteq Frames
    BY <1>0, <2>1 DEF Workers!TypeOK
  <2>3. \A d : ~Carries(t, d)
    BY <1>0, <2>1, Unburdened
  <2> QED BY <1>2, <2>1, <2>2, <2>3
<1>5. ASSUME NEW t \in Threads, Workers!PublishAnpr(t)
      PROVE  WorkersInv'
  <2> DEFINE d0 == Head(call[t].rest)
             w == [call[t] EXCEPT !.at = "anpr", !.det = d0, !.rest = Tail(@)]
  <2>1. /\ call[t].at = "frame" /\ call[t].rest # <<>>
        /\ call' = [call EXCEPT ![t].at = "anpr", ![t].det = d0, ![t].rest = Tail(@)]
        /\ UNCHANGED <<dlq, evicted, dlqHolder, replayTodo, replays, enqueued, published,
                       found, dispatched>>
    BY <1>5 DEF Workers!PublishAnpr, Workers!At, Workers!queue, Workers!replay
  <2>2. call[t].rest \in Seq(Workers!Dets) /\ call[t] \in Workers!Calls
    BY <1>0 DEF Workers!Calls
  <2>3. /\ Tail(call[t].rest) \in Seq(Workers!Dets) /\ d0 \in Workers!Dets
        /\ Workers!Elements(call[t].rest) = Workers!Elements(Tail(call[t].rest)) \union {d0}
        /\ Distinct(call[t].rest) =>
             Distinct(Tail(call[t].rest)) /\ d0 \notin Workers!Elements(Tail(call[t].rest))
    BY <2>1, <2>2, ElementsTail
  <2>4. call' = [call EXCEPT ![t] = w]
    <3>1. call \in [Threads -> Workers!Calls]
      BY <1>0 DEF Workers!TypeOK
    <3> QED BY <2>1, <3>1 DEF Workers!Calls
  <2>5. /\ w \in Workers!Calls /\ w.at = "anpr" /\ w.det = d0
        /\ w.rest = Tail(call[t].rest) /\ w.of = call[t].of
    BY <2>2, <2>3 DEF Workers!Calls
  <2> HIDE DEF w, d0
  <2>6. /\ call' \in [Threads -> Workers!Calls] /\ call'[t] = w
        /\ \A u \in Threads \ {t} : call'[u] = call[u]
    BY <1>0, <2>4, <2>5, CallSet
  <2>7. Workers!TypeOK'
    BY <1>0, <2>1, <2>6 DEF Workers!TypeOK
  <2>8. CallOrdered(t) /\ call[t].of \in Frames
    BY <1>0, <2>1 DEF CallOrdered
  <2>9. CallOrdered(t)'
    BY <2>1, <2>3, <2>5, <2>6, <2>8, WorkersAre DEF CallOrdered
  <2>10. WorkInv'
    BY <1>0, <1>1, <2>1, <2>6, <2>7, <2>9, CallsStep DEF WorkInv
  <2>11. \A d : Carries(t, d)' <=> Carries(t, d)
    BY <2>1, <2>3, <2>5, <2>6 DEF Carries, Workers!Handing
  <2>12. \A d : Workers!Quarantined(d) => Workers!Quarantined(d)'
    BY <2>1 DEF Workers!Quarantined
  <2> QED BY <1>3, <2>1, <2>6, <2>10, <2>11, <2>12
<1>6. ASSUME NEW t \in Threads, Workers!FrameRaises(t)
      PROVE  WorkersInv'
  <2>1. /\ call[t].at = "frame" /\ Workers!Quarantine(t, "frame", call[t].of)
        /\ Workers!Return(t)
        /\ UNCHANGED <<dlqHolder, replayTodo, replays, enqueued, published, found, dispatched>>
    BY <1>6 DEF Workers!FrameRaises, Workers!At, Workers!replay
  <2>2. call[t].of \in Frames /\ CallOrdered(t)
    BY <1>0, <2>1 DEF CallOrdered
  <2>3. [topic |-> "frame", of |-> call[t].of] \in Workers!Pills
    BY <2>2 DEF Workers!Pills
  <2>4. /\ dlq' \in Seq(Workers!Pills) /\ Len(dlq') <= DlqMax
        /\ evicted' \subseteq Workers!Pills
        /\ \A d : Workers!Quarantined(d) => Workers!Quarantined(d)'
        /\ \A d \in Workers!Elements(Detections[call[t].of]) : Workers!Quarantined(d)'
    BY <1>0, <2>1, <2>2, <2>3, Quarantining
  <2>5. /\ call' \in [Threads -> Workers!Calls]
        /\ call'[t].rest = <<>> /\ call'[t].of = NoThread
        /\ call'[t].at = "idle" \/ (call'[t].at = "replay" /\ replays > 0)
        /\ \A u \in Threads \ {t} : call'[u] = call[u]
    BY <1>0, <2>1, Returned
  <2>6. Workers!TypeOK'
    BY <1>0, <2>1, <2>4, <2>5 DEF Workers!TypeOK
  <2>7. CallOrdered(t)'
    BY <2>1, <2>5, EmptyCall, WorkersAre DEF CallOrdered
  <2>8. WorkInv'
    BY <1>0, <1>1, <2>1, <2>5, <2>6, <2>7, CallsStep DEF WorkInv
  <2>9. \A d : ~Carries(t, d)'
    BY <2>5, EmptyCall DEF Carries, Workers!Handing
  <2>10. \A d : Carries(t, d) => Workers!Quarantined(d)'
    BY <2>1, <2>2, <2>4 DEF Carries, Workers!Handing, CallOrdered
  <2> QED BY <1>3, <2>1, <2>4, <2>5, <2>8, <2>9, <2>10
<1>7. ASSUME NEW t \in Threads, Workers!FrameReturns(t)
      PROVE  WorkersInv'
  <2>1. /\ call[t].at = "frame" /\ call[t].rest = <<>> /\ Workers!Return(t)
        /\ UNCHANGED <<dlq, evicted, dlqHolder, replayTodo, replays, enqueued, published,
                       found, dispatched>>
    BY <1>7 DEF Workers!FrameReturns, Workers!At, Workers!replay, Workers!queue
  <2>5. /\ call' \in [Threads -> Workers!Calls]
        /\ call'[t].rest = <<>> /\ call'[t].of = NoThread
        /\ call'[t].at = "idle" \/ (call'[t].at = "replay" /\ replays > 0)
        /\ \A u \in Threads \ {t} : call'[u] = call[u]
    BY <1>0, <2>1, Returned
  <2>6. Workers!TypeOK'
    BY <1>0, <2>1, <2>5 DEF Workers!TypeOK
  <2>7. CallOrdered(t)'
    BY <2>1, <2>5, EmptyCall, WorkersAre DEF CallOrdered
  <2>8. WorkInv'
    BY <1>0, <1>1, <2>1, <2>5, <2>6, <2>7, CallsStep DEF WorkInv
  <2>9. \A d : ~Carries(t, d)' /\ ~Carries(t, d)
    BY <2>1, <2>5, EmptyCall DEF Carries, Workers!Handing
  <2>10. \A d : Workers!Quarantined(d) => Workers!Quarantined(d)'
    BY <2>1 DEF Workers!Quarantined
  <2> QED BY <1>3, <2>1, <2>5, <2>8, <2>9, <2>10
<1>8. ASSUME NEW t \in Threads, Workers!PublishSighting(t)
      PROVE  WorkersInv'
  <2>1. /\ call[t].at = "anpr" /\ Workers!Go(t, "sighting")
        /\ UNCHANGED <<dlq, evicted, dlqHolder, replayTodo, replays, enqueued, published,
                       found, dispatched>>
    BY <1>8 DEF Workers!PublishSighting, Workers!At, Workers!replay, Workers!queue
  <2>2. CallOrdered(t) /\ call[t].det \in Workers!Dets
    BY <1>0, <2>1 DEF CallOrdered
  <2>3. /\ call' \in [Threads -> Workers!Calls] /\ call'[t].at = "sighting"
        /\ call'[t].rest = call[t].rest /\ call'[t].of = call[t].of
        /\ call'[t].det = call[t].det
        /\ \A u \in Threads \ {t} : call'[u] = call[u]
    BY <1>0, <2>1, Gone
  <2>4. Workers!TypeOK'
    BY <1>0, <2>1, <2>3 DEF Workers!TypeOK
  <2>5. CallOrdered(t)'
    BY <2>1, <2>2, <2>3 DEF CallOrdered
  <2>6. WorkInv'
    BY <1>0, <1>1, <2>1, <2>3, <2>4, <2>5, CallsStep DEF WorkInv
  <2>7. \A d : Carries(t, d)' <=> Carries(t, d)
    BY <2>1, <2>3 DEF Carries, Workers!Handing
  <2>8. \A d : Workers!Quarantined(d) => Workers!Quarantined(d)'
    BY <2>1 DEF Workers!Quarantined
  <2> QED BY <1>3, <2>1, <2>3, <2>6, <2>7, <2>8
<1>9. ASSUME NEW t \in Threads, Workers!HandOver(t)
      PROVE  WorkersInv'
  <2>1. /\ call[t].at = "sighting" /\ Workers!Go(t, "match")
        /\ enqueued' = [enqueued EXCEPT ![call[t].det] = @ + 1]
        /\ UNCHANGED <<dlq, evicted>> \/ Workers!Quarantine(t, "sighting", call[t].det)
        /\ UNCHANGED <<dlqHolder, replayTodo, replays, published, found, dispatched>>
    BY <1>9 DEF Workers!HandOver, Workers!At, Workers!replay, Workers!queue
  <2>2. /\ CallOrdered(t) /\ call[t].det \in Workers!Dets
        /\ call[t].det \notin Workers!Elements(call[t].rest)
    BY <1>0, <2>1 DEF CallOrdered
  <2>3. /\ call' \in [Threads -> Workers!Calls] /\ call'[t].at = "match"
        /\ call'[t].rest = call[t].rest /\ call'[t].of = call[t].of
        /\ call'[t].det = call[t].det
        /\ \A u \in Threads \ {t} : call'[u] = call[u]
    BY <1>0, <2>1, Gone
  <2>4. [topic |-> "sighting", of |-> call[t].det] \in Workers!Pills
    BY <2>2 DEF Workers!Pills
  <2>5. /\ dlq' \in Seq(Workers!Pills) /\ Len(dlq') <= DlqMax
        /\ evicted' \subseteq Workers!Pills
        /\ \A d : Workers!Quarantined(d) => Workers!Quarantined(d)'
    <3>1. CASE UNCHANGED <<dlq, evicted>>
      BY <1>0, <3>1 DEF Workers!TypeOK, Workers!Quarantined
    <3>2. CASE Workers!Quarantine(t, "sighting", call[t].det)
      BY <1>0, <2>4, <3>2, Quarantining
    <3> QED BY <2>1, <3>1, <3>2
  <2>6. /\ enqueued' \in [Workers!Dets -> Nat]
        /\ enqueued'[call[t].det] = enqueued[call[t].det] + 1
        /\ \A d \in Workers!Dets \ {call[t].det} : enqueued'[d] = enqueued[d]
    BY <1>0, <2>1, <2>2
  <2>7. Workers!TypeOK'
    BY <1>0, <2>1, <2>3, <2>5, <2>6 DEF Workers!TypeOK
  <2>8. CallOrdered(t)'
    BY <2>1, <2>2, <2>3 DEF CallOrdered
  <2>9. WorkInv'
    BY <1>0, <1>1, <2>1, <2>3, <2>7, <2>8, CallsStep DEF WorkInv
  <2>10. \A d : Carries(t, d) <=> Carries(t, d)' \/ d = call[t].det
    BY <2>1, <2>3 DEF Carries, Workers!Handing
  <2>11. ~Carries(t, call[t].det)'
    BY <2>2, <2>3 DEF Carries, Workers!Handing
  <2>12. Workers!DetectionAccounted'
    <3>1. \A d \in found : enqueued[d] > 0 => enqueued'[d] > 0
      BY <1>0, <2>2, <2>6
    <3>2. enqueued'[call[t].det] > 0
      BY <1>0, <2>2, <2>6
    <3> QED BY <1>0, <2>1, <2>3, <2>5, <2>10, <3>1, <3>2, AccountedStep
  <2>13. Paid'
    BY <1>0, <2>1, <2>2, <2>3, <2>6, <2>9, <2>10, <2>11, PaidStep
  <2> QED BY <2>9, <2>12, <2>13 DEF WorkersInv
<1>10. ASSUME NEW t \in Threads, Workers!MatchWatchlist(t)
       PROVE  WorkersInv'
  <2>1. /\ call[t].at = "match" /\ Workers!Back(t)
        /\ UNCHANGED <<dlq, evicted, dlqHolder, replayTodo, replays, enqueued, published,
                       found, dispatched>>
    BY <1>10 DEF Workers!MatchWatchlist, Workers!At, Workers!replay, Workers!queue
  <2>2. CallOrdered(t)
    BY <1>0
  <2>3. /\ call' \in [Threads -> Workers!Calls]
        /\ call'[t].rest = call[t].rest /\ call'[t].of = call[t].of
        /\ \/ call'[t].at = "frame" /\ call[t].of \in Frames
           \/ call'[t].at = "idle" /\ call[t].of = NoThread
           \/ call'[t].at = "replay" /\ call[t].of = NoThread /\ replays > 0
        /\ \A u \in Threads \ {t} : call'[u] = call[u]
    BY <1>0, <2>1, Backed
  <2>4. Workers!TypeOK'
    BY <1>0, <2>1, <2>3 DEF Workers!TypeOK
  <2>5. CallOrdered(t)'
    BY <2>1, <2>2, <2>3 DEF CallOrdered
  <2>6. WorkInv'
    BY <1>0, <1>1, <2>1, <2>3, <2>4, <2>5, CallsStep DEF WorkInv
  <2>7. \A d : Carries(t, d)' <=> Carries(t, d)
    BY <2>1, <2>3 DEF Carries, Workers!Handing
  <2>8. \A d : Workers!Quarantined(d) => Workers!Quarantined(d)'
    BY <2>1 DEF Workers!Quarantined
  <2> QED BY <1>3, <2>1, <2>3, <2>6, <2>7, <2>8
<1>11. ASSUME NEW t \in Threads, Workers!ReplayStart(t)
       PROVE  WorkersInv'
  <2>1. /\ call[t].at = "idle" /\ replays < MaxReplays /\ replays' = replays + 1
        /\ dlqHolder' = t /\ replayTodo' = dlq /\ Workers!Go(t, "replay")
        /\ UNCHANGED <<dlq, evicted, enqueued, published, found, dispatched>>
    BY <1>11 DEF Workers!ReplayStart, Workers!At, Workers!queue
  <2>2. call[t].of = NoThread /\ call[t].rest = <<>> /\ \A d : ~Carries(t, d)
    BY <1>0, <2>1, Unburdened
  <2>3. /\ call' \in [Threads -> Workers!Calls] /\ call'[t].at = "replay"
        /\ call'[t].rest = call[t].rest /\ call'[t].of = call[t].of
        /\ call'[t].det = call[t].det
        /\ \A u \in Threads \ {t} : call'[u] = call[u]
    BY <1>0, <2>1, Gone
  <2>4. replays' \in 0 .. MaxReplays /\ replays' > 0 /\ replays' >= replays
    BY <1>0, <2>1, WorkersAre
  <2>5. Workers!TypeOK'
    BY <1>0, <2>1, <2>3, <2>4 DEF Workers!TypeOK
  <2>6. CallOrdered(t)'
    BY <2>2, <2>3, <2>4, EmptyCall, WorkersAre DEF CallOrdered
  <2>7. WorkInv'
    BY <1>0, <2>3, <2>4, <2>5, <2>6, CallsStep
  <2>8. \A d : ~Carries(t, d)'
    BY <2>2, <2>3, EmptyCall DEF Carries, Workers!Handing
  <2>9. \A d : Workers!Quarantined(d) => Workers!Quarantined(d)'
    BY <2>1 DEF Workers!Quarantined
  <2>10. replays' # 0
    BY <2>4
  <2> QED BY <1>3, <2>1, <2>2, <2>3, <2>7, <2>8, <2>9, <2>10
<1>12. ASSUME NEW t \in Threads, Workers!ReplayPill(t)
       PROVE  WorkersInv'
  <2> DEFINE pill == Head(replayTodo)
  <2>1. /\ call[t].at = "replay" /\ replayTodo # <<>> /\ Workers!EnterPill(t, pill)
        /\ replayTodo' = Tail(replayTodo)
        /\ UNCHANGED <<dlq, evicted, dlqHolder, replays, enqueued, published>>
    BY <1>12 DEF Workers!ReplayPill, Workers!At, Workers!queue
  <2>2. pill \in Workers!Pills /\ replayTodo' \in Seq(Workers!Pills)
    <3>1. replayTodo \in Seq(Workers!Pills)
      BY <1>0 DEF Workers!TypeOK
    <3> QED BY <2>1, <3>1, ElementsTail
  <2> HIDE DEF pill
  <2>3. replays > 0 /\ call[t].of = NoThread /\ \A d : ~Carries(t, d)
    BY <1>0, <2>1, Unburdened DEF CallOrdered
  <2>4. published' \subseteq Frames
    BY <1>0, <2>1 DEF Workers!TypeOK
  <2>5. CASE pill.topic = "frame"
    <3>1. Workers!EnterFrame(t, pill.of) /\ pill.of \in Frames
      BY <2>1, <2>2, <2>5 DEF Workers!EnterPill, Workers!Pills
    <3> QED BY <1>2, <2>1, <2>2, <2>3, <2>4, <3>1
  <2>6. CASE pill.topic # "frame"
    <3> DEFINE w == [Workers!Nobody EXCEPT !.at = pill.topic, !.det = pill.of]
    <3>1. /\ pill.topic = "sighting" /\ pill.of \in Workers!Dets
          /\ call' = [call EXCEPT ![t] = w] /\ Workers!Dispatched({pill.of}) /\ found' = found
      BY <2>1, <2>2, <2>6 DEF Workers!EnterPill, Workers!Pills
    <3>2. /\ w \in Workers!Calls /\ w.at = pill.topic /\ w.det = pill.of
          /\ w.rest = <<>> /\ w.of = NoThread
      BY <3>1, EmptyCall DEF Workers!Nobody, Workers!Calls
    <3> HIDE DEF w
    <3>3. /\ call' \in [Threads -> Workers!Calls] /\ call'[t] = w
          /\ \A u \in Threads \ {t} : call'[u] = call[u]
      BY <1>0, <3>1, <3>2, CallSet
    <3>4. /\ dispatched' \in [Workers!Dets -> Nat]
          /\ dispatched'[pill.of] = dispatched[pill.of] + 1
          /\ \A d \in Workers!Dets \ {pill.of} : dispatched'[d] = dispatched[d]
      BY <1>0, <3>1 DEF Workers!Dispatched
    <3>5. Workers!TypeOK'
      BY <1>0, <2>1, <2>2, <3>1, <3>3, <3>4 DEF Workers!TypeOK
    <3>6. CallOrdered(t)'
      BY <3>1, <3>2, <3>3, EmptyCall, WorkersAre DEF CallOrdered
    <3>7. WorkInv'
      BY <1>0, <1>1, <2>1, <3>3, <3>5, <3>6, CallsStep DEF WorkInv
    <3>8. \A d : Carries(t, d)' <=> d = pill.of
      BY <3>1, <3>2, <3>3, EmptyCall DEF Carries, Workers!Handing
    <3>9. \A d : Workers!Quarantined(d) => Workers!Quarantined(d)'
      BY <2>1 DEF Workers!Quarantined
    <3>10. Workers!DetectionAccounted'
      BY <1>0, <2>1, <2>3, <3>1, <3>3, <3>9, AccountedStep
    <3>11. Paid'
      BY <1>0, <2>1, <3>3, <3>4, <3>7, <3>8, PaidStep
    <3> QED BY <3>7, <3>10, <3>11 DEF WorkersInv
  <2> QED BY <2>5, <2>6
<1>13. ASSUME NEW t \in Threads, Workers!ReplayEnd(t)
       PROVE  WorkersInv'
  <2>1. /\ call[t].at = "replay" /\ dlq' = <<>> /\ dlqHolder' = NoThread
        /\ Workers!Go(t, "idle")
        /\ UNCHANGED <<evicted, replayTodo, replays, enqueued, published, found, dispatched>>
    BY <1>13 DEF Workers!ReplayEnd, Workers!At
  <2>2. replays > 0 /\ call[t].of = NoThread /\ call[t].rest = <<>> /\ \A d : ~Carries(t, d)
    BY <1>0, <2>1, Unburdened DEF CallOrdered
  <2>3. /\ call' \in [Threads -> Workers!Calls] /\ call'[t].at = "idle"
        /\ call'[t].rest = call[t].rest /\ call'[t].of = call[t].of
        /\ call'[t].det = call[t].det
        /\ \A u \in Threads \ {t} : call'[u] = call[u]
    BY <1>0, <2>1, Gone
  <2>4. /\ <<>> \in Seq(Workers!Pills) /\ Len(<<>>) <= DlqMax
    BY Instances
  <2>5. Workers!TypeOK'
    BY <1>0, <2>1, <2>3, <2>4 DEF Workers!TypeOK
  <2>6. CallOrdered(t)'
    BY <2>2, <2>3, EmptyCall, WorkersAre DEF CallOrdered
  <2>7. WorkInv'
    BY <1>0, <1>1, <2>1, <2>3, <2>5, <2>6, CallsStep
  <2>8. \A d : ~Carries(t, d)'
    BY <2>2, <2>3, EmptyCall DEF Carries, Workers!Handing
  <2>9. Workers!DetectionAccounted'
    BY <1>0, <2>1, <2>2 DEF Workers!DetectionAccounted
  <2>10. Paid'
    BY <1>0, <2>1, <2>3, <2>7, <2>8, PaidStep
  <2> QED BY <2>7, <2>9, <2>10 DEF WorkersInv
<1> QED BY <1>4, <1>5, <1>6, <1>7, <1>8, <1>9, <1>10, <1>11, <1>12, <1>13
        DEF Workers!Next, Workers!Step

LEMMA WorkersInit ==
  ASSUME Workers!Init
  PROVE  WorkersInv
<1>1. /\ call = [t \in Threads |-> Workers!Nobody] /\ dlq = <<>> /\ evicted = {}
      /\ dlqHolder = NoThread /\ replayTodo = <<>> /\ replays = 0
      /\ enqueued = [d \in Workers!Dets |-> 0] /\ published = {} /\ found = {}
      /\ dispatched = [d \in Workers!Dets |-> 0]
  BY DEF Workers!Init
<1>2. <<>> \in Seq(Workers!Pills) /\ Len(<<>>) <= DlqMax
  BY Instances
<1>3. call \in [Threads -> Workers!Calls]
  BY <1>1, EmptyCall
<1>4. Workers!TypeOK
  BY <1>1, <1>2, <1>3, WorkersAre DEF Workers!TypeOK
<1>5. ASSUME NEW t \in Threads
      PROVE  CallOrdered(t) /\ \A d : ~Carries(t, d)
  <2>1. call[t] = Workers!Nobody
    BY <1>1
  <2> QED BY <2>1, EmptyCall, WorkersAre DEF CallOrdered, Carries, Workers!Handing
<1>6. WorkInv
  BY <1>1, <1>4, <1>5 DEF WorkInv
<1>7. Workers!DetectionAccounted
  BY <1>1 DEF Workers!DetectionAccounted
<1>8. Paid
  <2> SUFFICES ASSUME NEW d \in Workers!Dets
               PROVE  enqueued[d] + Cardinality(Carriers(d)) <= dispatched[d]
    BY DEF Paid
  <2>1. Carriers(d) = {}
    BY <1>5 DEF Carriers
  <2>2. Cardinality(Carriers(d)) = 0
    BY <2>1, FS_EmptySet
  <2> QED BY <1>1, <2>2
<1> QED BY <1>6, <1>7, <1>8 DEF WorkersInv

LEMMA WorkersKept ==
  ASSUME part = "workers" => WorkersInv, [AnyNext]_allVars
  PROVE  (part = "workers" => WorkersInv)'
<1>1. CASE part = "workers" /\ Workers!Next /\ UNCHANGED part
  BY <1>1, WorkersStep
<1>2. CASE part = "frames" /\ UNCHANGED part
  BY <1>2
<1>3. CASE UNCHANGED allVars
  <2>1. UNCHANGED workerVars /\ UNCHANGED part
    BY <1>3 DEF allVars
  <2> SUFFICES ASSUME part = "workers"
               PROVE  WorkersInv'
    BY <2>1
  <2>2. UNCHANGED <<call, dlq, dlqHolder, replayTodo, replays, enqueued, published, found,
                    dispatched, evicted>>
    BY <2>1 DEF workerVars
  <2>3. WorkInv'
    BY <2>2 DEF WorkersInv, WorkInv, Workers!TypeOK, CallOrdered
  <2>4. Workers!DetectionAccounted'
    BY <2>2 DEF WorkersInv, Workers!DetectionAccounted, Workers!Pending, Workers!Handing,
                Workers!Quarantined
  <2>5. Paid'
    <3>1. \A d : Carriers(d)' = Carriers(d)
      BY <2>2 DEF Carriers, Carries, Workers!Handing
    <3> QED BY <2>2, <3>1 DEF WorkersInv, Paid
  <2> QED BY <2>3, <2>4, <2>5 DEF WorkersInv
<1> QED BY <1>1, <1>2, <1>3 DEF AnyNext

LEMMA WorkersAlways == AnySpec => [](part = "workers" => WorkersInv)
<1>1. AnyInit => (part = "workers" => WorkersInv)
  BY WorkersInit DEF AnyInit
<1>2. (part = "workers" => WorkersInv) /\ [AnyNext]_allVars => (part = "workers" => WorkersInv)'
  BY WorkersKept
<1> QED BY <1>1, <1>2, PTL DEF AnySpec

\* DetectionAccounted: until an operator replays the queue, a detection is on its way,
\* has reached the micro-batch worker, or is quarantined by itself or with its frame.
THEOREM DetectionsAccounted == AnySpec => []DetectionAccounted
<1>1. (part = "workers" => WorkersInv) => DetectionAccounted
  BY DEF WorkersInv, DetectionAccounted
<1> QED BY <1>1, WorkersAlways, PTL

\* OncePerDispatch: a detection is handed to the micro-batch worker at most once for
\* each time its frame or its sighting was dispatched.
THEOREM StoredOncePerDispatch == AnySpec => []OncePerDispatch
<1>1. ASSUME WorkersInv
      PROVE  Workers!OncePerDispatch
  <2> SUFFICES ASSUME NEW d \in Workers!Dets
               PROVE  enqueued[d] <= dispatched[d]
    BY DEF Workers!OncePerDispatch
  <2>1. enqueued[d] \in Nat /\ dispatched[d] \in Nat
    BY <1>1 DEF WorkersInv, WorkInv, Workers!TypeOK
  <2>2. enqueued[d] + Cardinality(Carriers(d)) <= dispatched[d]
    BY <1>1 DEF WorkersInv, Paid
  <2>3. Cardinality(Carriers(d)) \in Nat
    BY Instances, FS_Subset, FS_CardinalityType DEF Carriers
  <2> QED BY <2>1, <2>2, <2>3
<1>2. (part = "workers" => WorkersInv) => OncePerDispatch
  BY <1>1 DEF OncePerDispatch
<1> QED BY <1>2, WorkersAlways, PTL

\* TypesOK: each component keeps its types.
THEOREM PipelineTyped == AnySpec => []TypesOK
<1>1. (part = "frames" => VotingInv) /\ (part = "workers" => WorkersInv) => TypesOK
  BY DEF VotingInv, FramesInv, WorkersInv, WorkInv, TypesOK
<1> QED BY <1>1, VotingAlways, WorkersAlways, PTL
=============================================================================
