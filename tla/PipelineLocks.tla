--------------------------- MODULE PipelineLocks ---------------------------
(***************************************************************************)
(* The locks of the streaming pipeline, taken together: EventBus._lock (a  *)
(* Lock), MicroBatchIngestionWorker._lock and DeadLetterQueueManager._lock *)
(* (RLocks).  Threads make the calls of LockPrograms.                      *)
(***************************************************************************)
EXTENDS Naturals, FiniteSets, LockPrograms

CONSTANTS
  Threads,
  NoThread,
  Calls,       \* the calls made: a subset of AllCalls
  MaxCalls     \* bound: calls in a behaviour

LocksAssumption ==
  NoThread \notin Threads /\ Calls \subseteq AllCalls /\ MaxCalls \in Nat

-----------------------------------------------------------------------------
VARIABLES
  holder,      \* the thread that holds each lock
  depth,       \* how often it holds it
  doing,       \* history: the call that each thread makes, or made last
  todo,        \* what each thread still has to acquire and release
  calls        \* calls made so far

vars == <<holder, depth, doing, todo, calls>>

None == "none"

Init ==
  /\ holder = [l \in Locks |-> NoThread]
  /\ depth = [l \in Locks |-> 0]
  /\ doing = [t \in Threads |-> None]
  /\ todo = [t \in Threads |-> <<>>]
  /\ calls = 0

Call(t) ==
  /\ todo[t] = <<>>
  /\ calls < MaxCalls
  /\ calls' = calls + 1
  /\ \E call \in Calls : \E p \in Programs(call) :
       doing' = [doing EXCEPT ![t] = call] /\ todo' = [todo EXCEPT ![t] = p]
  /\ UNCHANGED <<holder, depth>>

Wants(t, l) == todo[t] # <<>> /\ Head(todo[t]) = [do |-> "acquire", lock |-> l]

Free(t, l) == holder[l] = NoThread \/ (holder[l] = t /\ l \in Reentrant)

Acquire(t, l) ==
  /\ Wants(t, l)
  /\ Free(t, l)
  /\ holder' = [holder EXCEPT ![l] = t]
  /\ depth' = [depth EXCEPT ![l] = @ + 1]
  /\ todo' = [todo EXCEPT ![t] = Tail(@)]
  /\ UNCHANGED <<doing, calls>>

\* Mutant of Release: a reentrant lock is freed by its first release.
ReleaseAll(t, l) ==
  /\ todo[t] # <<>>
  /\ Head(todo[t]) = [do |-> "release", lock |-> l]
  /\ holder' = [holder EXCEPT ![l] = NoThread]
  /\ depth' = [depth EXCEPT ![l] = @ - 1]
  /\ todo' = [todo EXCEPT ![t] = Tail(@)]
  /\ UNCHANGED <<doing, calls>>

Release(t, l) ==
  /\ todo[t] # <<>>
  /\ Head(todo[t]) = [do |-> "release", lock |-> l]
  /\ holder' = [holder EXCEPT ![l] = IF depth[l] = 1 THEN NoThread ELSE @]
  /\ depth' = [depth EXCEPT ![l] = @ - 1]
  /\ todo' = [todo EXCEPT ![t] = Tail(@)]
  /\ UNCHANGED <<doing, calls>>

Step(t) == \E l \in Locks : Acquire(t, l) \/ Release(t, l)

Next == \E t \in Threads : Call(t) \/ Step(t)

Spec == Init /\ [][Next]_vars
-----------------------------------------------------------------------------
(* Properties *)

\* Every variable keeps its type; a lock has a holder exactly while it is held.
TypeOK ==
  /\ holder \in [Locks -> Threads \union {NoThread}]
  /\ depth \in [Locks -> Nat]
  /\ \A l \in Locks : holder[l] = NoThread <=> depth[l] = 0
  /\ \A l \in Locks \ Reentrant : depth[l] <= 1
  /\ doing \in [Threads -> AllCalls \union {None}]
  /\ todo \in [Threads -> Seq([do : {"acquire", "release"}, lock : Locks])]
  /\ calls \in 0 .. MaxCalls

\* No group of threads waits in a circle, each for a lock that one of the others
\* (or itself) holds.
Proceeds(S) ==
  \E t \in S : \A l \in Locks : Wants(t, l) => Free(t, l) \/ holder[l] \notin S

\* "without stalling real-time ingestion pipelines" (stream_workers.py:21).
NoCircularWait == \A S \in (SUBSET Threads) \ {{}} : Proceeds(S)

\* The calls that take two locks in opposite orders: the bus lock or the worker lock
\* around the DLQ lock, and the DLQ lock around it.
Opposed ==
  {{"metrics", "replayEvents"}, {"stats", "replayEvents"}, {"stats", "replaySightings"}}

\* Only calls of opposed orders ever wait in a circle: of all the orders in which the
\* calls nest their locks, no other two, and no longer round, can meet.
OnlyOpposedCallsStall ==
  \A S \in (SUBSET Threads) \ {{}} :
    (\A t, u \in S : {doing[t], doing[u]} \notin Opposed) => Proceeds(S)
=============================================================================
