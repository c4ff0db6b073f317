------------------------ MODULE SightingIngestProofs ------------------------
(***************************************************************************)
(* For any threads, payloads, batch size and queue bound: type correctness *)
(* and MalformedIsolated, with replays and purges; NoSightingLost and the  *)
(* refinement of IngestContract, for ingestion alone.                      *)
(***************************************************************************)
EXTENDS SightingIngest, TLAPS

-----------------------------------------------------------------------------
(* Facts about the bounded deque *)

\* Appending to the bounded deque keeps its type and its bound.
LEMMA PushType ==
  ASSUME NEW S, NEW q \in Seq(S), NEW x \in S, Len(q) <= DlqMax
  PROVE  Push(q, x) \in Seq(S) /\ Len(Push(q, x)) <= DlqMax
<1> USE DlqMaxAssumption
<1>1. CASE Len(q) < DlqMax
  BY <1>1 DEF Push
<1>2. CASE Len(q) >= DlqMax
  <2>1. q # <<>> /\ Tail(q) \in Seq(S) /\ Len(Tail(q)) = Len(q) - 1
    BY <1>2
  <2> QED BY <1>2, <2>1 DEF Push
<1> QED BY <1>1, <1>2

\* After the append the new element is there, and every old one is still
\* there or is the one displaced.
LEMMA PushElements ==
  ASSUME NEW S, NEW q \in Seq(S), NEW x \in S
  PROVE  /\ x \in Elements(Push(q, x))
         /\ Elements(q) \subseteq Elements(Push(q, x)) \union Displaced(q)
<1> USE DlqMaxAssumption
<1>1. CASE Len(q) < DlqMax
  <2>1. Push(q, x) = Append(q, x) /\ Len(Append(q, x)) = Len(q) + 1
    BY <1>1 DEF Push
  <2>2. /\ Append(q, x)[Len(q) + 1] = x
        /\ \A i \in 1 .. Len(q) : Append(q, x)[i] = q[i]
    OBVIOUS
  <2> QED BY <2>1, <2>2 DEF Elements
<1>2. CASE ~(Len(q) < DlqMax)
  <2> DEFINE r == Tail(q)
  <2>1. q # <<>> /\ r \in Seq(S) /\ Len(r) = Len(q) - 1
    BY <1>2
  <2>2. Push(q, x) = Append(r, x) /\ Len(Append(r, x)) = Len(q)
    BY <1>2, <2>1 DEF Push
  <2>3. Append(r, x)[Len(q)] = x
    BY <2>1
  <2>4. \A i \in 1 .. Len(q) : i = 1 \/ q[i] = Append(r, x)[i - 1]
    BY <2>1
  <2>5. x \in Elements(Push(q, x))
    <3>1. Len(q) \in 1 .. Len(Push(q, x)) /\ Push(q, x)[Len(q)] = x
      BY <1>2, <2>2, <2>3
    <3> QED BY <3>1 DEF Elements
  <2>6. ASSUME NEW i \in 1 .. Len(q)
        PROVE  q[i] \in Elements(Push(q, x)) \union Displaced(q)
    <3>1. CASE i = 1
      BY <1>2, <2>1, <3>1 DEF Displaced
    <3>2. CASE i # 1
      <4>1. i - 1 \in 1 .. Len(Push(q, x)) /\ q[i] = Push(q, x)[i - 1]
        BY <2>2, <2>4, <3>2
      <4> QED BY <4>1 DEF Elements
    <3> QED BY <3>1, <3>2
  <2> QED BY <2>5, <2>6 DEF Elements
<1> QED BY <1>1, <1>2

\* Both halves of the deque that a replay works on stay within its type.
LEMMA WindowType ==
  ASSUME NEW S, NEW q \in Seq(S), NEW k \in Nat
  PROVE  /\ RetryWindow(q, k) \in Seq(S)
         /\ BeyondWindow(q, k) \in Seq(S)
         /\ Len(BeyondWindow(q, k)) <= Len(q)
<1>1. CASE k < Len(q)
  <2>1. SubSeq(q, 1, k) \in Seq(S)
    BY <1>1
  <2>2. SubSeq(q, k + 1, Len(q)) \in Seq(S) /\ Len(SubSeq(q, k + 1, Len(q))) = Len(q) - k
    BY <1>1
  <2> QED BY <1>1, <2>1, <2>2 DEF RetryWindow, BeyondWindow
<1>2. CASE ~(k < Len(q))
  BY <1>2 DEF RetryWindow, BeyondWindow
<1> QED BY <1>1, <1>2


-----------------------------------------------------------------------------
(* Type correctness *)

\* Who holds the dead letter queue's lock, and how many flushes a replayed
\* payload still owes: what type correctness of "rounds" rests on.
HolderInv ==
  \A t \in Threads :
    /\ pc[t] = "idle" => dlqHolder # t
    /\ pc[t] = "replay" => dlqHolder = t
    /\ dlqHolder = t /\ pc[t] # "replay" => rounds \in {1, 2}

LEMMA PendingType ==
  ASSUME NEW r \in [Messages -> Nat], NEW s \in [Messages -> Nat], NEW m \in Messages
  PROVE  AddRows(r, s) \in [Messages -> Nat] /\ OneRow(r, m) \in [Messages -> Nat]
BY DEF AddRows, OneRow

\* A payload being pushed keeps the dead letter queue and its history typed.
LEMMA PillType ==
  ASSUME TypeOK, NEW t \in Threads, NEW m \in Messages, EnqueuePoisonPill(t, m)
  PROVE  /\ dlq' \in Seq(Messages) /\ Len(dlq') <= DlqMax
         /\ evicted' \in SUBSET Messages
<1>1. Displaced(dlq) \subseteq Messages
  <2>1. CASE Len(dlq) < DlqMax
    BY <2>1 DEF Displaced
  <2>2. CASE ~(Len(dlq) < DlqMax)
    <3>1. dlq # <<>>
      BY <2>2, DlqMaxAssumption
    <3> QED BY <2>2, <3>1 DEF Displaced, TypeOK
  <2> QED BY <2>1, <2>2
<1> QED BY <1>1, PushType DEF EnqueuePoisonPill, TypeOK

\* The end of flush_batch moves only the thread itself.
LEMMA FlushDoneType ==
  ASSUME TypeOK, HolderInv, NEW t \in Threads, pc[t] \notin {"idle", "replay"},
         FlushDone(t)
  PROVE  /\ pc' \in [Threads -> {"idle", "flush", "item", "quarantine", "replay"}]
         /\ rounds' \in 0 .. 2
         /\ dlqHolder' = dlqHolder /\ replayTodo' = replayTodo
         /\ remaining' = remaining /\ replays' = replays
         /\ HolderInv'
<1>1. CASE dlqHolder = t
  <2>1. rounds \in {1, 2}
    BY <1>1 DEF HolderInv
  <2> QED BY <1>1, <2>1 DEF FlushDone, TypeOK, HolderInv
<1>2. CASE dlqHolder # t
  BY <1>2 DEF FlushDone, TypeOK, HolderInv
<1> QED BY <1>1, <1>2

\* The payload a flush is at, and its successor position.
LEMMA ItemType ==
  ASSUME TypeOK, NEW t \in Threads, pos[t] <= Len(batch[t])
  PROVE  Item(t) \in Messages /\ pos[t] + 1 \in Nat \ {0}
<1>1. batch[t] \in Seq(Messages) /\ pos[t] \in Nat \ {0}
  BY DEF TypeOK
<1>2. pos[t] \in 1 .. Len(batch[t])
  BY <1>1
<1> QED BY <1>1, <1>2 DEF Item

\* One step preserves the types and the lock's bookkeeping.
LEMMA TypeStep == TypeOK /\ HolderInv /\ [Next]_vars => TypeOK' /\ HolderInv'
<1> SUFFICES ASSUME TypeOK, HolderInv, [Next]_vars
             PROVE  TypeOK' /\ HolderInv'
  OBVIOUS
<1> USE IngestAssumption
<1>1. ASSUME NEW t \in Threads, NEW m \in Messages, EnqueueSighting(t, m)
      PROVE  TypeOK' /\ HolderInv'
  <2>1. Append(buffer, m) \in Seq(Messages)
    BY DEF TypeOK
  <2> QED BY <1>1, <2>1 DEF EnqueueSighting, TypeOK, HolderInv, session, replay
<1>2. ASSUME NEW t \in Threads, FlushEmpty(t)
      PROVE  TypeOK' /\ HolderInv'
  BY <1>2, FlushDoneType DEF FlushEmpty, TypeOK, shared, session
<1>3. ASSUME NEW t \in Threads, TakeBatch(t)
      PROVE  TypeOK' /\ HolderInv'
  <2>1. NoRows \in [Messages -> Nat] /\ 1 \in Nat \ {0} /\ <<>> \in Seq(Messages)
    BY DEF NoRows
  <2> QED BY <1>3, <2>1 DEF TakeBatch, BeginBatch, TypeOK, HolderInv, replay
<1>4. ASSUME NEW t \in Threads, AtItem(t)
      PROVE  Item(t) \in Messages /\ pos[t] + 1 \in Nat \ {0}
  BY <1>4, ItemType DEF AtItem
<1>5. ASSUME NEW t \in Threads, ItemRaises(t)
      PROVE  TypeOK' /\ HolderInv'
  <2>1. AtItem(t) /\ EnqueuePoisonPill(t, Item(t))
    BY <1>5 DEF ItemRaises
  <2>2. /\ dlq' \in Seq(Messages) /\ Len(dlq') <= DlqMax
        /\ evicted' \in SUBSET Messages
    BY <1>4, <2>1, PillType
  <2> QED BY <1>4, <1>5, <2>1, <2>2 DEF ItemRaises, NextItem, TypeOK, HolderInv, replay
<1>6. ASSUME NEW t \in Threads, ItemFlushFails(t)
      PROVE  TypeOK' /\ HolderInv'
  <2>1. AtItem(t) /\ EnqueuePoisonPill(t, Item(t))
    BY <1>6 DEF ItemFlushFails, RolledBackItem
  <2>2. /\ dlq' \in Seq(Messages) /\ Len(dlq') <= DlqMax
        /\ evicted' \in SUBSET Messages
    BY <1>4, <2>1, PillType
  <2>3. faults' \in 0 .. MaxFaults
    BY <1>6 DEF ItemFlushFails, RolledBackItem, TypeOK
  <2>4. NoRows \in [Messages -> Nat]
    BY DEF NoRows
  <2> QED BY <1>4, <1>6, <2>1, <2>2, <2>3, <2>4
          DEF ItemFlushFails, RolledBackItem, NextItem, TypeOK, HolderInv, replay
<1>7. ASSUME NEW t \in Threads, ItemFlushed(t)
      PROVE  TypeOK' /\ HolderInv'
  <2> DEFINE written == OneRow(pending[t], Item(t))
  <2>1. AtItem(t) /\ Item(t) \in Messages
    BY <1>4, <1>7 DEF ItemFlushed
  <2>2. /\ written \in [Messages -> Nat] /\ NoRows \in [Messages -> Nat]
        /\ AddRows(rows, written) \in [Messages -> Nat]
    BY <2>1, PendingType DEF TypeOK, NoRows
  <2>3. rows' \in [Messages -> Nat] /\ pending' \in [Threads -> [Messages -> Nat]]
    <3>1. CASE Item(t) \in Hot
      <4>1. rows' = AddRows(rows, written) /\ pending' = [pending EXCEPT ![t] = NoRows]
        BY <1>7, <3>1 DEF ItemFlushed
      <4> HIDE DEF written
      <4> QED BY <2>2, <4>1 DEF TypeOK
    <3>2. CASE Item(t) \notin Hot
      <4>1. rows' = rows /\ pending' = [pending EXCEPT ![t] = written]
        BY <1>7, <3>2 DEF ItemFlushed
      <4> HIDE DEF written
      <4> QED BY <2>2, <4>1 DEF TypeOK
    <3> QED BY <3>1, <3>2
  <2>4. committed' \in [Threads -> Nat]
    BY <1>7 DEF ItemFlushed, TypeOK
  <2>5. /\ UNCHANGED <<ingested, buffer, totalCommitted, dlq, evicted, faults, pc,
                       batch, poisoned, replay>>
        /\ pos' = [pos EXCEPT ![t] = pos[t] + 1]
    BY <1>7 DEF ItemFlushed, NextItem
  <2> HIDE DEF written
  <2> QED BY <1>4, <2>1, <2>3, <2>4, <2>5 DEF TypeOK, HolderInv, replay
<1>8. ASSUME NEW t \in Threads, CommitSucceeds(t)
      PROVE  TypeOK' /\ HolderInv'
  <2>1. NoRows \in [Messages -> Nat] /\ AddRows(rows, pending[t]) \in [Messages -> Nat]
    BY DEF NoRows, AddRows, TypeOK
  <2>2. pc[t] = "item" /\ FlushDone(t)
    BY <1>8 DEF CommitSucceeds, AtCommit
  <2>3. /\ pc' \in [Threads -> {"idle", "flush", "item", "quarantine", "replay"}]
        /\ rounds' \in 0 .. 2
        /\ UNCHANGED <<dlqHolder, replayTodo, remaining, replays>>
        /\ HolderInv'
    BY <2>2, FlushDoneType
  <2>4. totalCommitted' \in Nat
    BY <1>8 DEF CommitSucceeds, TypeOK
  <2>5. rows' = AddRows(rows, pending[t]) /\ pending' = [pending EXCEPT ![t] = NoRows]
    BY <1>8 DEF CommitSucceeds
  <2>6. rows' \in [Messages -> Nat] /\ pending' \in [Threads -> [Messages -> Nat]]
    BY <2>1, <2>5 DEF TypeOK
  <2> QED BY <1>8, <2>3, <2>4, <2>6 DEF CommitSucceeds, TypeOK
<1>9. ASSUME NEW t \in Threads, CommitFails(t)
      PROVE  TypeOK' /\ HolderInv'
  <2>1. NoRows \in [Messages -> Nat] /\ 1 \in Nat \ {0}
    BY DEF NoRows
  <2>2. faults' \in 0 .. MaxFaults
    BY <1>9 DEF CommitFails, RollbackBatch, TypeOK
  <2> QED BY <1>9, <2>1, <2>2
          DEF CommitFails, RollbackBatch, AtCommit, TypeOK, HolderInv, replay
<1>10. ASSUME NEW t \in Threads, QuarantineItem(t)
       PROVE  TypeOK' /\ HolderInv'
  <2>1. Item(t) \in Messages /\ pos[t] + 1 \in Nat \ {0}
    BY <1>10, ItemType DEF QuarantineItem
  <2>2. /\ dlq' \in Seq(Messages) /\ Len(dlq') <= DlqMax
        /\ evicted' \in SUBSET Messages
    BY <1>10, <2>1, PillType DEF QuarantineItem
  <2> QED BY <1>10, <2>1, <2>2 DEF QuarantineItem, NextItem, TypeOK, HolderInv, replay
<1>11. ASSUME NEW t \in Threads, QuarantineDone(t)
       PROVE  TypeOK' /\ HolderInv'
  BY <1>11, FlushDoneType DEF QuarantineDone, TypeOK, shared, session
<1>12. ASSUME NEW t \in Threads, ReplayStart(t)
       PROVE  TypeOK' /\ HolderInv'
  <2>1. /\ RetryWindow(dlq, ReplayMax) \in Seq(Messages)
        /\ BeyondWindow(dlq, ReplayMax) \in Seq(Messages)
        /\ Len(BeyondWindow(dlq, ReplayMax)) <= Len(dlq)
    BY WindowType DEF TypeOK
  <2>2. Len(BeyondWindow(dlq, ReplayMax)) <= DlqMax
    BY <2>1, DlqMaxAssumption DEF TypeOK
  <2>3. TypeOK'
    <3>1. pc' \in [Threads -> {"idle", "flush", "item", "quarantine", "replay"}]
      BY <1>12 DEF ReplayStart, TypeOK
    <3>2. replays' \in 0 .. MaxReplays
      BY <1>12 DEF ReplayStart, TypeOK
    <3> QED BY <1>12, <2>1, <2>2, <3>1, <3>2 DEF ReplayStart, TypeOK, shared, session
  <2>4. HolderInv'
    BY <1>12 DEF ReplayStart, TypeOK, HolderInv
  <2> QED BY <2>3, <2>4
<1>13. ASSUME NEW t \in Threads, ReplayItem(t)
       PROVE  TypeOK' /\ HolderInv'
  <2>1. Head(replayTodo) \in Messages /\ Tail(replayTodo) \in Seq(Messages)
    BY <1>13 DEF ReplayItem, TypeOK
  <2>2. Append(buffer, Head(replayTodo)) \in Seq(Messages)
    BY <2>1 DEF TypeOK
  <2>3. TypeOK'
    <3>1. pc' \in [Threads -> {"idle", "flush", "item", "quarantine", "replay"}]
      BY <1>13 DEF ReplayItem, TypeOK
    <3>2. rounds' \in 0 .. 2
      BY <1>13 DEF ReplayItem
    <3> QED BY <1>13, <2>1, <2>2, <3>1, <3>2 DEF ReplayItem, TypeOK, session
  <2>4. HolderInv'
    BY <1>13 DEF ReplayItem, TypeOK, HolderInv
  <2> QED BY <2>3, <2>4
<1>14. ASSUME NEW t \in Threads, ReplayEnd(t)
       PROVE  TypeOK' /\ HolderInv'
  <2>1. <<>> \in Seq(Messages) /\ Len(<<>>) <= DlqMax
    BY DlqMaxAssumption
  <2> QED BY <1>14, <2>1 DEF ReplayEnd, SwapDlq, TypeOK, HolderInv, session
<1>15. ASSUME NEW t \in Threads, PurgeDlq(t)
       PROVE  TypeOK' /\ HolderInv'
  <2>1. <<>> \in Seq(Messages) /\ Len(<<>>) <= DlqMax
    BY DlqMaxAssumption
  <2> QED BY <1>15, <2>1 DEF PurgeDlq, TypeOK, HolderInv, session, replay
<1>16. CASE UNCHANGED vars
  BY <1>16 DEF vars, shared, session, replay, TypeOK, HolderInv
<1> QED BY <1>1, <1>2, <1>3, <1>5, <1>6, <1>7, <1>8, <1>9, <1>10, <1>11, <1>12,
           <1>13, <1>14, <1>15, <1>16 DEF Next, IngestNext, FlushStep, ReplayStep

LEMMA InitTyped == Init => TypeOK /\ HolderInv
<1>1. <<>> \in Seq(Messages) /\ Len(<<>>) = 0
  OBVIOUS
<1> QED BY <1>1, IngestAssumption, DlqMaxAssumption DEF Init, TypeOK, HolderInv, NoRows

\* TypeOK holds in every reachable state of the worker, replays and purges
\* included, for every value of the constants.
THEOREM TypeCorrect == Spec => []TypeOK
<1>1. Spec => [](TypeOK /\ HolderInv)
  BY InitTyped, TypeStep, PTL DEF Spec
<1> QED BY <1>1, PTL

-----------------------------------------------------------------------------
(* No sighting is lost by ingestion alone.                                 *)
(*                                                                         *)
(* NoSightingLost is not inductive: when a batch ends, its payloads stop   *)
(* being held, so one must know that each of them was stored or            *)
(* quarantined on the way.  BatchInv says where the payloads a thread has  *)
(* already passed are; a session that awaits rollback() may have dropped   *)
(* them, but then commit() fails and the whole batch is quarantined.       *)

Secured(m) == rows[m] > 0 \/ Quarantined(m) \/ m \in evicted

\* The i-th payload of t's batch is not lost, if t is past it.
Tracked(t, i) ==
  LET m == batch[t][i]
  IN /\ pc[t] = "item" =>
          poisoned[t] \/ i >= pos[t] \/ pending[t][m] > 0 \/ Secured(m)
     /\ pc[t] = "quarantine" => i >= pos[t] \/ Secured(m)

BatchInv == \A t \in Threads : \A i \in 1 .. Len(batch[t]) : Tracked(t, i)

IInv == TypeOK /\ BatchInv /\ NoSightingLost

\* What a step of thread t leaves alone, and what it only adds to.
StepOf(t) ==
  /\ \A u \in Threads \ {t} :
       /\ pc'[u] = pc[u] /\ batch'[u] = batch[u] /\ pos'[u] = pos[u]
       /\ pending'[u] = pending[u] /\ poisoned'[u] = poisoned[u]
  /\ \A m \in Messages : Secured(m) => Secured(m)'

\* A pill secures its payload and un-secures none: the displaced one is evicted.
LEMMA PillSecures ==
  ASSUME TypeOK, NEW t \in Threads, NEW x \in Messages, EnqueuePoisonPill(t, x),
         UNCHANGED rows
  PROVE  /\ Secured(x)'
         /\ \A m \in Messages : Secured(m) => Secured(m)'
<1>1. /\ x \in Elements(dlq')
      /\ Elements(dlq) \subseteq Elements(dlq') \union Displaced(dlq)
  BY PushElements DEF EnqueuePoisonPill, TypeOK
<1>2. evicted' = evicted \union Displaced(dlq)
  BY DEF EnqueuePoisonPill
<1>4. Secured(x)'
  BY <1>1 DEF Secured, Quarantined
<1>5. ASSUME NEW m \in Messages, Secured(m)
      PROVE  Secured(m)'
  <2>1. CASE rows[m] > 0
    BY <2>1 DEF Secured
  <2>2. CASE Quarantined(m)
    BY <1>1, <1>2, <2>2 DEF Secured, Quarantined
  <2>3. CASE m \in evicted
    BY <1>2, <2>3 DEF Secured
  <2> QED BY <1>5, <2>1, <2>2, <2>3 DEF Secured
<1> QED BY <1>4, <1>5

\* Committing a transaction secures every row in it.
LEMMA CommitSecures ==
  ASSUME TypeOK, NEW s \in [Messages -> Nat], rows' = AddRows(rows, s),
         UNCHANGED <<dlq, evicted>>
  PROVE  \A m \in Messages : s[m] > 0 \/ Secured(m) => Secured(m)'
<1> SUFFICES ASSUME NEW m \in Messages, s[m] > 0 \/ Secured(m)
             PROVE  Secured(m)'
  OBVIOUS
<1>1. rows[m] \in Nat /\ s[m] \in Nat /\ rows'[m] = rows[m] + s[m]
  BY DEF TypeOK, AddRows
<1>2. CASE s[m] > 0 \/ rows[m] > 0
  BY <1>1, <1>2 DEF Secured
<1>3. CASE ~(s[m] > 0 \/ rows[m] > 0)
  BY <1>3 DEF Secured, Quarantined
<1> QED BY <1>2, <1>3

\* The other threads' part of BatchInv survives a step of t.
LEMMA OthersBatch ==
  ASSUME TypeOK, BatchInv, NEW t \in Threads, StepOf(t),
         NEW u \in Threads \ {t}, NEW i \in 1 .. Len(batch'[u])
  PROVE  Tracked(u, i)'
<1>1. /\ pc'[u] = pc[u] /\ batch'[u] = batch[u] /\ pos'[u] = pos[u]
      /\ pending'[u] = pending[u] /\ poisoned'[u] = poisoned[u]
  BY DEF StepOf
<1>2. i \in 1 .. Len(batch[u]) /\ batch[u][i] \in Messages
  <2>1. batch[u] \in Seq(Messages)
    BY DEF TypeOK
  <2> QED BY <1>1, <2>1
<1> DEFINE x == batch[u][i]
<1>3. PICK m \in Messages : m = x
  BY <1>2
<1>4. Secured(m) => Secured(m)'
  BY DEF StepOf
<1>5. Tracked(u, i)
  BY <1>2 DEF BatchInv
<1>6. /\ pc[u] = "item" =>
           poisoned[u] \/ i >= pos[u] \/ pending[u][m] > 0 \/ Secured(m)
      /\ pc[u] = "quarantine" => i >= pos[u] \/ Secured(m)
  BY <1>3, <1>5 DEF Tracked
<1>7. batch'[u][i] = m
  BY <1>1, <1>3
<1> QED BY <1>1, <1>4, <1>6, <1>7 DEF Tracked, Secured, Quarantined

\* The payloads of a batch are payloads.
LEMMA BatchTyped ==
  ASSUME TypeOK, NEW t \in Threads, NEW i \in 1 .. Len(batch[t])
  PROVE  batch[t][i] \in Messages
<1>1. batch[t] \in Seq(Messages)
  BY DEF TypeOK
<1> QED BY <1>1

\* BatchInv and NoSightingLost after a step of t that leaves the buffer and
\* the set of ingested payloads alone, from what the step does to t's batch.
LEMMA AfterStep ==
  ASSUME IInv, NEW t \in Threads, StepOf(t),
         UNCHANGED <<ingested, buffer>>, batch' = batch, Active(t),
         \A i \in 1 .. Len(batch[t]) : Tracked(t, i)',
         ~Active(t)' => \A i \in 1 .. Len(batch[t]) : \A m \in Messages :
                          m = batch[t][i] => Secured(m)'
  PROVE  BatchInv' /\ NoSightingLost'
<1> USE DEF IInv
<1>1. BatchInv'
  <2> SUFFICES ASSUME NEW u \in Threads, NEW i \in 1 .. Len(batch'[u])
               PROVE  Tracked(u, i)'
    BY DEF BatchInv
  <2>1. CASE u = t
    BY <2>1
  <2>2. CASE u # t
    <3>1. u \in Threads \ {t}
      BY <2>2
    <3> QED BY <3>1, OthersBatch
  <2> QED BY <2>1, <2>2
<1>2. ASSUME NEW m \in ingested
      PROVE  Held(m)' \/ Secured(m)'
  <2>1. m \in Messages
    BY DEF TypeOK
  <2>2. Held(m) \/ Secured(m)
    BY DEF NoSightingLost, Secured
  <2>3. CASE m \in Elements(buffer)
    BY <2>3 DEF Held, Elements
  <2>4. ASSUME NEW u \in Threads \ {t}, Active(u), m \in Elements(batch[u])
        PROVE  Held(m)'
    BY <2>4 DEF StepOf, Held, Active, Elements
  <2>5. CASE m \in Elements(batch[t])
    <3>1. CASE Active(t)'
      BY <2>5, <3>1 DEF Held, Elements
    <3>2. CASE ~Active(t)'
      BY <2>1, <2>5, <3>2 DEF Elements
    <3> QED BY <3>1, <3>2
  <2>6. CASE Secured(m)
    BY <2>1, <2>6 DEF StepOf
  <2> QED BY <2>2, <2>3, <2>4, <2>5, <2>6 DEF Held
<1> QED BY <1>1, <1>2 DEF NoSightingLost, Secured

\* Quarantining the payload at pos[t] and moving past it keeps it tracked.
LEMMA PassedItem ==
  ASSUME IInv, NEW t \in Threads, NEW y \in Messages, y = Item(t),
         UNCHANGED <<pc, batch, pending, poisoned>>,
         pos' = [pos EXCEPT ![t] = pos[t] + 1],
         Secured(y)', \A m \in Messages : Secured(m) => Secured(m)',
         NEW i \in 1 .. Len(batch[t])
  PROVE  Tracked(t, i)'
<1>1. PICK m \in Messages : m = batch[t][i]
  BY BatchTyped DEF IInv
<1>2. Tracked(t, i)
  BY DEF BatchInv, IInv
<1>3. pos'[t] = pos[t] + 1 /\ pos[t] \in Nat
  BY DEF TypeOK, IInv
<1>4. i < pos'[t] => i < pos[t] \/ m = y
  BY <1>1, <1>3 DEF Item
<1>5. Secured(m) => Secured(m)'
  OBVIOUS
<1> QED BY <1>1, <1>2, <1>3, <1>4, <1>5 DEF Tracked, Secured, Quarantined

\* Every step of ingestion preserves the invariant.
LEMMA IngestStep ==
  ASSUME IInv, IngestNext
  PROVE  BatchInv' /\ NoSightingLost'
<1> USE DEF IInv
<1> USE IngestAssumption
<1>1. ASSUME NEW t \in Threads, NEW x \in Messages, EnqueueSighting(t, x)
      PROVE  BatchInv' /\ NoSightingLost'
  <2>1. \A m \in Messages : Secured(m)' <=> Secured(m)
    BY <1>1 DEF EnqueueSighting, Secured, Quarantined, Elements
  <2>2. /\ Elements(buffer)' = Elements(buffer) \union {x}
        /\ ingested' = ingested \union {x}
    <3>1. buffer \in Seq(Messages) /\ buffer' = Append(buffer, x)
      BY <1>1 DEF EnqueueSighting, TypeOK
    <3>2. /\ Len(buffer') = Len(buffer) + 1
          /\ buffer'[Len(buffer) + 1] = x
          /\ \A i \in 1 .. Len(buffer) : buffer'[i] = buffer[i]
      BY <3>1
    <3>3. Elements(buffer)' = {buffer'[i] : i \in 1 .. Len(buffer')}
      BY DEF Elements
    <3>4. Len(buffer) \in Nat
      BY <3>1
    <3> QED BY <1>1, <3>2, <3>3, <3>4 DEF EnqueueSighting, Elements
  <2>3. \A u \in Threads : Active(u)' <=> Active(u)
    BY <1>1 DEF EnqueueSighting, Active, TypeOK
  <2>4. UNCHANGED <<batch, pos, pending, poisoned>>
    BY <1>1 DEF EnqueueSighting, session
  <2>5. \A u \in Threads : pc'[u] \in {"item", "quarantine"} => pc'[u] = pc[u]
    BY <1>1 DEF EnqueueSighting, TypeOK
  <2>6. BatchInv'
    <3> SUFFICES ASSUME NEW u \in Threads, NEW i \in 1 .. Len(batch[u])
                 PROVE  Tracked(u, i)'
      BY <2>4 DEF BatchInv
    <3>1. PICK m \in Messages : m = batch[u][i]
      BY BatchTyped
    <3>2. Tracked(u, i)
      BY DEF BatchInv
    <3>3. Secured(m)' <=> Secured(m)
      BY <2>1
    <3> QED BY <2>4, <2>5, <3>1, <3>2, <3>3 DEF Tracked, Secured, Quarantined
  <2>7. NoSightingLost'
    <3> SUFFICES ASSUME NEW m \in ingested'
                 PROVE  Held(m)' \/ Secured(m)'
      BY DEF NoSightingLost, Secured
    <3>1. CASE m = x
      BY <2>2, <3>1 DEF Held
    <3>2. CASE m \in ingested
      <4>1. Held(m) \/ Secured(m)
        BY <3>2 DEF NoSightingLost, Secured
      <4>2. m \in Messages
        BY <3>2 DEF TypeOK
      <4> QED BY <2>1, <2>2, <2>3, <2>4, <4>1, <4>2 DEF Held, Elements
    <3> QED BY <2>2, <3>1, <3>2
  <2> QED BY <2>6, <2>7
<1>2. ASSUME NEW t \in Threads, FlushEmpty(t)
      PROVE  BatchInv' /\ NoSightingLost'
  <2>1. \A u \in Threads : /\ pc'[u] \in {"item", "quarantine"} => pc'[u] = pc[u]
                           /\ pc[u] \in {"item", "quarantine"} => pc'[u] = pc[u]
    BY <1>2 DEF FlushEmpty, FlushDone, TypeOK
  <2>2. UNCHANGED <<shared, session>>
    BY <1>2 DEF FlushEmpty
  <2>3. BatchInv'
    BY <2>1, <2>2 DEF BatchInv, Tracked, Secured, Quarantined, Elements, shared, session
  <2>4. \A m : (Held(m)' <=> Held(m)) /\ (Secured(m)' <=> Secured(m))
    BY <2>1, <2>2 DEF Held, Active, Secured, Quarantined, Elements, shared, session
  <2>5. NoSightingLost'
    BY <2>2, <2>4 DEF NoSightingLost, Secured, shared
  <2> QED BY <2>3, <2>5
<1>3. ASSUME NEW t \in Threads, TakeBatch(t)
      PROVE  BatchInv' /\ NoSightingLost'
  <2>1. /\ batch'[t] = buffer /\ pc'[t] = "item" /\ pos'[t] = 1 /\ pc[t] = "flush"
        /\ UNCHANGED <<ingested, rows, dlq, evicted>>
    BY <1>3 DEF TakeBatch, BeginBatch, TypeOK
  <2>2. \A m \in Messages : Secured(m)' <=> Secured(m)
    BY <2>1 DEF Secured, Quarantined, Elements
  <2>3. \A u \in Threads \ {t} :
          /\ pc'[u] = pc[u] /\ batch'[u] = batch[u] /\ pos'[u] = pos[u]
          /\ pending'[u] = pending[u] /\ poisoned'[u] = poisoned[u]
    BY <1>3 DEF TakeBatch, BeginBatch, TypeOK
  <2>4. StepOf(t)
    BY <2>2, <2>3 DEF StepOf
  <2>5. BatchInv'
    <3> SUFFICES ASSUME NEW u \in Threads, NEW i \in 1 .. Len(batch'[u])
                 PROVE  Tracked(u, i)'
      BY DEF BatchInv
    <3>1. CASE u = t
      BY <2>1, <3>1 DEF Tracked
    <3>2. CASE u # t
      <4>1. u \in Threads \ {t}
        BY <3>2
      <4> QED BY <2>4, <4>1, OthersBatch
    <3> QED BY <3>1, <3>2
  <2>6. NoSightingLost'
    <3> SUFFICES ASSUME NEW m \in ingested
                 PROVE  Held(m)' \/ Secured(m)'
      BY <2>1 DEF NoSightingLost, Secured
    <3>1. Held(m) \/ Secured(m)
      BY DEF NoSightingLost, Secured
    <3>2. CASE m \in Elements(buffer)
      BY <2>1, <3>2 DEF Held, Active, Elements
    <3>3. ASSUME NEW u \in Threads, Active(u), m \in Elements(batch[u])
          PROVE  Held(m)'
      <4>1. u \in Threads \ {t}
        BY <2>1, <3>3 DEF Active
      <4> QED BY <2>3, <3>3, <4>1 DEF Held, Active, Elements
    <3>4. CASE Secured(m)
      BY <2>2, <3>4 DEF TypeOK
    <3> QED BY <3>1, <3>2, <3>3, <3>4 DEF Held
  <2> QED BY <2>5, <2>6
<1>4. ASSUME NEW t \in Threads, ItemRaises(t)
      PROVE  BatchInv' /\ NoSightingLost'
  <2>1. /\ AtItem(t) /\ EnqueuePoisonPill(t, Item(t)) /\ Item(t) \in Messages
        /\ UNCHANGED <<ingested, buffer, rows, pc, batch, pending, poisoned>>
        /\ pos' = [pos EXCEPT ![t] = pos[t] + 1]
    BY <1>4, ItemType DEF ItemRaises, AtItem, NextItem
  <2>2. PICK y \in Messages : y = Item(t)
    BY <2>1
  <2>3. Secured(y)' /\ \A m \in Messages : Secured(m) => Secured(m)'
    BY <2>1, <2>2, PillSecures
  <2>4. StepOf(t)
    BY <2>1, <2>3 DEF StepOf, TypeOK
  <2>5. ASSUME NEW i \in 1 .. Len(batch[t])
        PROVE  Tracked(t, i)'
    BY <1>4, <2>1, <2>2, <2>3, PassedItem DEF AtItem
  <2>6. Active(t) /\ Active(t)'
    BY <2>1 DEF Active, AtItem
  <2> QED BY <2>1, <2>4, <2>5, <2>6, AfterStep
<1>5. ASSUME NEW t \in Threads, ItemFlushFails(t)
      PROVE  BatchInv' /\ NoSightingLost'
  <2>1. /\ AtItem(t) /\ EnqueuePoisonPill(t, Item(t)) /\ Item(t) \in Messages
        /\ UNCHANGED <<ingested, buffer, rows, pc, batch>>
        /\ poisoned' = [poisoned EXCEPT ![t] = TRUE]
        /\ pending' = [pending EXCEPT ![t] = NoRows]
        /\ pos' = [pos EXCEPT ![t] = pos[t] + 1]
    BY <1>5, ItemType DEF ItemFlushFails, RolledBackItem, AtItem, NextItem
  <2>2. \A m \in Messages : Secured(m) => Secured(m)'
    BY <2>1, PillSecures
  <2>3. StepOf(t)
    BY <2>1, <2>2 DEF StepOf, TypeOK
  <2>4. poisoned'[t] /\ pc'[t] = "item"
    BY <2>1 DEF AtItem, TypeOK
  <2>5. \A i \in 1 .. Len(batch[t]) : Tracked(t, i)'
    BY <2>4 DEF Tracked
  <2>6. Active(t) /\ Active(t)'
    BY <2>1 DEF Active, AtItem
  <2> QED BY <2>1, <2>3, <2>5, <2>6, AfterStep
<1>6. ASSUME NEW t \in Threads, ItemFlushed(t)
      PROVE  BatchInv' /\ NoSightingLost'
  <2>1. /\ AtItem(t) /\ Item(t) \in Messages
        /\ UNCHANGED <<ingested, buffer, dlq, evicted, pc, batch, poisoned>>
        /\ pos' = [pos EXCEPT ![t] = pos[t] + 1]
    BY <1>6, ItemType DEF ItemFlushed, AtItem, NextItem
  <2>2. PICK y \in Messages : y = Item(t)
    BY <2>1
  <2> DEFINE written == OneRow(pending[t], y)
  <2>3. /\ written \in [Messages -> Nat]
        /\ written[y] > 0
        /\ \A m \in Messages : pending[t][m] > 0 => written[m] > 0
    <3>1. pending[t] \in [Messages -> Nat]
      BY DEF TypeOK
    <3> QED BY <3>1 DEF OneRow
  <2>4. \/ rows' = AddRows(rows, written) /\ pending' = [pending EXCEPT ![t] = NoRows]
        \/ UNCHANGED rows /\ pending' = [pending EXCEPT ![t] = written]
    BY <1>6, <2>2 DEF ItemFlushed
  <2> HIDE DEF written
  <2>5. \A m \in Messages :
          (Secured(m) \/ written[m] > 0) => Secured(m)' \/ pending'[t][m] > 0
    <3>1. CASE rows' = AddRows(rows, written)
      BY <2>1, <2>3, <3>1, CommitSecures
    <3>2. CASE UNCHANGED rows /\ pending' = [pending EXCEPT ![t] = written]
      BY <2>1, <3>2 DEF Secured, Quarantined, Elements, TypeOK
    <3> QED BY <2>4, <3>1, <3>2
  <2>6. \A m \in Messages : Secured(m) => Secured(m)'
    <3>1. CASE rows' = AddRows(rows, written)
      BY <2>1, <2>3, <3>1, CommitSecures
    <3>2. CASE UNCHANGED rows
      BY <2>1, <3>2 DEF Secured, Quarantined, Elements
    <3> QED BY <2>4, <3>1, <3>2
  <2>7. StepOf(t)
    BY <2>1, <2>4, <2>6 DEF StepOf, TypeOK
  <2>8. ASSUME NEW i \in 1 .. Len(batch[t])
        PROVE  Tracked(t, i)'
    <3>1. PICK m \in Messages : m = batch[t][i]
      BY BatchTyped
    <3>2. Tracked(t, i)
      BY DEF BatchInv
    <3>3. pos'[t] = pos[t] + 1 /\ pos[t] \in Nat /\ pc[t] = "item"
      BY <2>1 DEF TypeOK, AtItem
    <3>4. i < pos'[t] => i < pos[t] \/ m = y
      BY <2>2, <3>1, <3>3 DEF Item
    <3>5. poisoned[t] \/ i >= pos'[t] \/ Secured(m) \/ written[m] > 0
      BY <2>3, <3>1, <3>2, <3>3, <3>4 DEF Tracked
    <3>6. poisoned[t] \/ i >= pos'[t] \/ Secured(m)' \/ pending'[t][m] > 0
      BY <2>5, <3>5
    <3> QED BY <2>1, <3>1, <3>3, <3>6 DEF Tracked, Secured, Quarantined
  <2>9. Active(t) /\ Active(t)'
    BY <2>1 DEF Active, AtItem
  <2> QED BY <2>1, <2>7, <2>8, <2>9, AfterStep
<1>7. ASSUME NEW t \in Threads, CommitSucceeds(t)
      PROVE  BatchInv' /\ NoSightingLost'
  <2>1. /\ pc[t] = "item" /\ pos[t] > Len(batch[t]) /\ ~poisoned[t]
        /\ rows' = AddRows(rows, pending[t])
        /\ pending' = [pending EXCEPT ![t] = NoRows]
        /\ UNCHANGED <<ingested, buffer, dlq, evicted, batch, pos, poisoned>>
        /\ pending[t] \in [Messages -> Nat]
    BY <1>7 DEF CommitSucceeds, AtCommit, TypeOK
  <2>2. pc' = [pc EXCEPT ![t] = pc'[t]] /\ pc'[t] \notin {"item", "quarantine"}
    BY <1>7 DEF CommitSucceeds, FlushDone, TypeOK
  <2>3. \A m \in Messages : pending[t][m] > 0 \/ Secured(m) => Secured(m)'
    BY <2>1, CommitSecures
  <2>4. StepOf(t)
    BY <2>1, <2>2, <2>3 DEF StepOf, TypeOK
  <2>5. \A i \in 1 .. Len(batch[t]) : Tracked(t, i)'
    BY <2>2 DEF Tracked
  <2>6. ASSUME NEW i \in 1 .. Len(batch[t]), NEW m \in Messages, m = batch[t][i]
        PROVE  Secured(m)'
    <3>1. Tracked(t, i)
      BY DEF BatchInv
    <3>2. i < pos[t]
      BY <2>1 DEF TypeOK
    <3>3. pos[t] \in Nat
      BY DEF TypeOK
    <3> QED BY <2>1, <2>3, <2>6, <3>1, <3>2, <3>3 DEF Tracked
  <2>7. Active(t)
    BY <2>1 DEF Active
  <2> QED BY <2>1, <2>4, <2>5, <2>6, <2>7, AfterStep
<1>8. ASSUME NEW t \in Threads, CommitFails(t)
      PROVE  BatchInv' /\ NoSightingLost'
  <2>1. /\ pc[t] = "item"
        /\ UNCHANGED <<ingested, buffer, rows, dlq, evicted, batch, poisoned>>
        /\ pending' = [pending EXCEPT ![t] = NoRows]
        /\ pos' = [pos EXCEPT ![t] = 1]
        /\ pc' = [pc EXCEPT ![t] = "quarantine"]
    BY <1>8 DEF CommitFails, RollbackBatch, AtCommit
  <2>2. StepOf(t)
    BY <2>1 DEF StepOf, TypeOK, Secured, Quarantined, Elements
  <2>3. \A i \in 1 .. Len(batch[t]) : Tracked(t, i)'
    BY <2>1 DEF Tracked, TypeOK
  <2>4. Active(t) /\ Active(t)'
    BY <2>1 DEF Active, TypeOK
  <2> QED BY <2>1, <2>2, <2>3, <2>4, AfterStep
<1>9. ASSUME NEW t \in Threads, QuarantineItem(t)
      PROVE  BatchInv' /\ NoSightingLost'
  <2>1. /\ pc[t] = "quarantine" /\ pos[t] <= Len(batch[t])
        /\ EnqueuePoisonPill(t, Item(t)) /\ Item(t) \in Messages
        /\ UNCHANGED <<ingested, buffer, rows, pc, batch, pending, poisoned>>
        /\ pos' = [pos EXCEPT ![t] = pos[t] + 1]
    BY <1>9, ItemType DEF QuarantineItem, NextItem
  <2>2. PICK y \in Messages : y = Item(t)
    BY <2>1
  <2>3. Secured(y)' /\ \A m \in Messages : Secured(m) => Secured(m)'
    BY <2>1, <2>2, PillSecures
  <2>4. StepOf(t)
    BY <2>1, <2>3 DEF StepOf, TypeOK
  <2>5. ASSUME NEW i \in 1 .. Len(batch[t])
        PROVE  Tracked(t, i)'
    BY <1>9, <2>1, <2>2, <2>3, PassedItem
  <2>6. Active(t) /\ Active(t)'
    BY <2>1 DEF Active
  <2> QED BY <2>1, <2>4, <2>5, <2>6, AfterStep
<1>10. ASSUME NEW t \in Threads, QuarantineDone(t)
       PROVE  BatchInv' /\ NoSightingLost'
  <2>1. /\ pc[t] = "quarantine" /\ pos[t] > Len(batch[t])
        /\ UNCHANGED <<ingested, buffer, rows, dlq, evicted, batch, pos, pending, poisoned>>
    BY <1>10 DEF QuarantineDone, shared, session
  <2>2. pc' = [pc EXCEPT ![t] = pc'[t]] /\ pc'[t] \notin {"item", "quarantine"}
    BY <1>10 DEF QuarantineDone, FlushDone, TypeOK
  <2>3. \A m \in Messages : Secured(m) => Secured(m)'
    BY <2>1 DEF Secured, Quarantined, Elements
  <2>4. StepOf(t)
    BY <2>1, <2>2, <2>3 DEF StepOf, TypeOK
  <2>5. \A i \in 1 .. Len(batch[t]) : Tracked(t, i)'
    BY <2>2 DEF Tracked
  <2>6. ASSUME NEW i \in 1 .. Len(batch[t]), NEW m \in Messages, m = batch[t][i]
        PROVE  Secured(m)'
    <3>1. Tracked(t, i)
      BY DEF BatchInv
    <3>2. i < pos[t] /\ pos[t] \in Nat
      BY <2>1 DEF TypeOK
    <3> QED BY <2>1, <2>3, <2>6, <3>1, <3>2 DEF Tracked
  <2>7. Active(t)
    BY <2>1 DEF Active
  <2> QED BY <2>1, <2>4, <2>5, <2>6, <2>7, AfterStep
<1> QED BY <1>1, <1>2, <1>3, <1>4, <1>5, <1>6, <1>7, <1>8, <1>9, <1>10
        DEF IngestNext, FlushStep

\* One step of ingestion preserves the invariant and the lock's bookkeeping.
LEMMA IInvStep == IInv /\ HolderInv /\ [IngestNext]_vars => IInv' /\ HolderInv'
<1> SUFFICES ASSUME IInv, HolderInv, [IngestNext]_vars
             PROVE  IInv' /\ HolderInv'
  OBVIOUS
<1>1. TypeOK' /\ HolderInv'
  BY TypeStep DEF IInv, Next
<1>2. BatchInv' /\ NoSightingLost'
  <2>1. CASE IngestNext
    BY <2>1, IngestStep
  <2>2. CASE UNCHANGED vars
    BY <2>2 DEF vars, shared, session, IInv, BatchInv, Tracked, NoSightingLost,
                Held, Active, Secured, Quarantined, Elements
  <2> QED BY <2>1, <2>2
<1> QED BY <1>1, <1>2 DEF IInv

\* Ingestion loses no sighting, for any number of threads and payloads, any
\* mix of malformed, refused and watchlisted ones, any batch size and queue
\* bound, and any transient database errors.
THEOREM IngestLosesNothing == IngestSpec => []NoSightingLost
<1>1. Init => IInv /\ HolderInv
  <2>1. Init => TypeOK /\ HolderInv
    BY InitTyped
  <2>2. Init => BatchInv /\ NoSightingLost
    BY DEF Init, BatchInv, NoSightingLost
  <2> QED BY <2>1, <2>2 DEF IInv
<1>2. IInv /\ HolderInv /\ [IngestNext]_vars => IInv' /\ HolderInv'
  BY IInvStep
<1>3. IngestSpec => []IInv
  <2>1. IngestSpec => [](IInv /\ HolderInv)
    BY <1>1, <1>2, PTL DEF IngestSpec
  <2> QED BY <2>1, PTL
<1>4. IInv => NoSightingLost
  BY DEF IInv
<1> QED BY <1>3, <1>4, PTL

-----------------------------------------------------------------------------
(* Ingestion alone implements its contract.                                *)
(*                                                                         *)
(* A step that stores a payload must store it for the first time, so one   *)
(* must know that ingestion answers for a payload in one place only: once  *)
(* in the buffer, or once in one thread's batch, ahead of the thread while *)
(* it has no row, or behind it with the row that waits for the commit.     *)

NoRepetition(q) == \A i, j \in 1 .. Len(q) : q[i] = q[j] => i = j

\* The thread has passed m in its loop.
Passed(t, m) == \E i \in 1 .. Len(batch[t]) : i < pos[t] /\ batch[t][i] = m

BufferOwn ==
  /\ NoRepetition(buffer)
  /\ Elements(buffer) \subseteq ingested
  /\ \A m \in Messages : m \in Elements(buffer) \/ m \notin ingested => rows[m] = 0

BatchOwn(t) ==
  Active(t) =>
    /\ NoRepetition(batch[t])
    /\ Elements(batch[t]) \subseteq ingested
    /\ Elements(batch[t]) \intersect Elements(buffer) = {}
    /\ \A u \in Threads \ {t} :
         Active(u) => Elements(batch[t]) \intersect Elements(batch[u]) = {}

AheadUnstored(t) ==
  pc[t] = "item" =>
    \A i \in 1 .. Len(batch[t]) : i >= pos[t] => rows[batch[t][i]] = 0

PendingOnce(t) ==
  \A m \in Messages :
    pending[t][m] > 0 =>
      pending[t][m] = 1 /\ rows[m] = 0 /\ pc[t] = "item" /\ Passed(t, m)

OnePlace ==
  /\ BufferOwn
  /\ \A t \in Threads : BatchOwn(t) /\ AheadUnstored(t) /\ PendingOnce(t)


OInv == IInv /\ OnePlace

\* Appending and taking: what the deque and the buffer hold afterwards.
LEMMA AppendElements ==
  ASSUME NEW S, NEW q \in Seq(S), NEW x \in S
  PROVE  /\ Elements(Append(q, x)) = Elements(q) \union {x}
         /\ NoRepetition(q) /\ x \notin Elements(q) => NoRepetition(Append(q, x))
<1> DEFINE r == Append(q, x)
<1>1. /\ Len(r) = Len(q) + 1 /\ Len(q) \in Nat /\ r[Len(q) + 1] = x
      /\ \A i \in 1 .. Len(q) : r[i] = q[i]
  OBVIOUS
<1> HIDE DEF r
<1>2. Elements(r) = Elements(q) \union {x}
  BY <1>1 DEF Elements
<1>3. NoRepetition(q) /\ x \notin Elements(q) => NoRepetition(r)
  BY <1>1 DEF NoRepetition, Elements
<1> QED BY <1>2, <1>3 DEF r

LEMMA TailElements ==
  ASSUME NEW S, NEW q \in Seq(S), q # <<>>
  PROVE  Elements(Tail(q)) \subseteq Elements(q) /\ Head(q) \in Elements(q)
<1>1. /\ Len(q) \in Nat /\ Len(q) >= 1 /\ Len(Tail(q)) = Len(q) - 1
      /\ \A i \in 1 .. Len(Tail(q)) : Tail(q)[i] = q[i + 1]
      /\ Head(q) = q[1]
  OBVIOUS
<1>2. ASSUME NEW i \in 1 .. Len(Tail(q))
      PROVE  Tail(q)[i] \in Elements(q)
  <2>1. i + 1 \in 1 .. Len(q) /\ Tail(q)[i] = q[i + 1]
    BY <1>1
  <2> QED BY <2>1 DEF Elements
<1> QED BY <1>1, <1>2 DEF Elements

\* A push adds its payload and nothing else, to the queue or to the history.
LEMMA PushBounds ==
  ASSUME NEW S, NEW q \in Seq(S), NEW x \in S
  PROVE  /\ Elements(Push(q, x)) \subseteq Elements(q) \union {x}
         /\ Displaced(q) \subseteq Elements(q)
<1> USE DlqMaxAssumption
<1>1. CASE Len(q) < DlqMax
  BY <1>1, AppendElements DEF Push, Displaced
<1>2. CASE ~(Len(q) < DlqMax)
  <2>1. q # <<>> /\ Tail(q) \in Seq(S)
    BY <1>2
  <2>2. PICK r \in Seq(S) : r = Tail(q)
    BY <2>1
  <2>3. Elements(Append(r, x)) = Elements(r) \union {x}
    BY AppendElements
  <2> QED BY <1>2, <2>1, <2>2, <2>3, TailElements DEF Push, Displaced
<1> QED BY <1>1, <1>2

\* What a step of t does to its own batch and to the stored rows: it stores
\* only payloads it has passed, for the first time, and leaves everybody
\* else's place alone.
OwnStep(t) ==
  /\ UNCHANGED <<ingested, buffer, batch>>
  /\ Active(t)
  /\ \A u \in Threads \ {t} :
       pc'[u] = pc[u] /\ pos'[u] = pos[u] /\ pending'[u] = pending[u]
  /\ pc'[t] = "item" => pc[t] = "item" /\ pos'[t] >= pos[t]
  /\ \A m \in Messages : rows'[m] # rows[m] =>
       /\ rows[m] = 0 /\ rows'[m] = 1
       /\ m \in Elements(batch[t])
       /\ pc'[t] = "item" => Passed(t, m)'

LEMMA OwnKeeps ==
  ASSUME OInv, TypeOK', NEW t \in Threads, OwnStep(t), PendingOnce(t)'
  PROVE  OnePlace'
<1>0. /\ \A u \in Threads : batch[u] \in Seq(Messages) /\ pos[u] \in Nat /\ pos'[u] \in Nat
      /\ buffer \in Seq(Messages) /\ rows \in [Messages -> Nat]
      /\ ingested \subseteq Messages
  BY DEF OInv, IInv, TypeOK
<1>1. /\ ingested' = ingested /\ buffer' = buffer /\ batch' = batch /\ Active(t)
      /\ \A u \in Threads \ {t} :
           pc'[u] = pc[u] /\ pos'[u] = pos[u] /\ pending'[u] = pending[u]
      /\ pc'[t] = "item" => pc[t] = "item" /\ pos'[t] >= pos[t]
  BY DEF OwnStep
<1>2. \A m \in Messages : rows'[m] # rows[m] =>
        /\ rows[m] = 0 /\ rows'[m] = 1
        /\ m \in Elements(batch[t])
        /\ pc'[t] = "item" => Passed(t, m)'
  BY DEF OwnStep
<1>3. /\ BufferOwn
      /\ \A u \in Threads : BatchOwn(u) /\ AheadUnstored(u) /\ PendingOnce(u)
  BY DEF OInv, OnePlace
<1>4. \A u \in Threads : Active(u)' => Active(u)
  BY <1>1 DEF Active
<1>5. Elements(batch[t]) \subseteq ingested /\ Elements(batch[t]) \intersect Elements(buffer) = {}
  BY <1>1, <1>3 DEF BatchOwn
<1>6. Elements(buffer)' = Elements(buffer) /\ \A u \in Threads : Elements(batch[u])' = Elements(batch[u])
  BY <1>1
<1>7. BufferOwn'
  BY <1>1, <1>2, <1>3, <1>5, <1>6 DEF BufferOwn, NoRepetition
<1>8. ASSUME NEW u \in Threads
      PROVE  BatchOwn(u)'
  BY <1>1, <1>3, <1>4, <1>6 DEF BatchOwn, NoRepetition
<1>9. ASSUME NEW u \in Threads, pc'[u] = "item"
      PROVE  AheadUnstored(u)'
  <2> SUFFICES ASSUME NEW i \in 1 .. Len(batch[u]), i >= pos'[u]
               PROVE  rows'[batch[u][i]] = 0
    BY <1>1, <1>9 DEF AheadUnstored
  <2>1. PICK m \in Messages : m = batch[u][i]
    BY <1>0
  <2>2. m \in Elements(batch[u])
    BY <2>1 DEF Elements
  <2>3. i >= pos[u] /\ pc[u] = "item" /\ Active(u)
    <3>1. pos'[u] >= pos[u] /\ pc[u] = "item"
      <4>1. CASE u = t
        BY <1>1, <1>9, <4>1
      <4>2. CASE u # t
        <5>1. pc'[u] = pc[u] /\ pos'[u] = pos[u]
          BY <1>1, <4>2
        <5> QED BY <1>0, <1>9, <5>1
      <4> QED BY <4>1, <4>2
    <3>2. pos[u] \in Nat /\ pos'[u] \in Nat /\ i \in Nat /\ i >= pos'[u]
      BY <1>0
    <3> QED BY <3>1, <3>2 DEF Active
  <2>4. rows[m] = 0
    BY <1>3, <2>1, <2>3 DEF AheadUnstored
  <2>5. CASE u # t
    <3>1. Elements(batch[u]) \intersect Elements(batch[t]) = {}
      BY <1>1, <1>3, <2>3, <2>5 DEF BatchOwn
    <3> QED BY <1>2, <2>1, <2>2, <2>4, <3>1
  <2>6. CASE u = t
    <3>1. ~Passed(t, m)'
      <4>1. NoRepetition(batch[t])
        BY <1>1, <1>3 DEF BatchOwn
      <4>2. ASSUME NEW j \in 1 .. Len(batch[t]), batch[t][j] = m
            PROVE  ~(j < pos'[t])
        <5>1. i \in 1 .. Len(batch[t]) /\ batch[t][i] = m /\ i >= pos'[t]
          BY <2>1, <2>6
        <5>2. i = j
          BY <4>1, <4>2, <5>1 DEF NoRepetition
        <5> QED BY <1>0, <5>1, <5>2
      <4> QED BY <1>1, <4>2 DEF Passed
    <3> QED BY <1>2, <1>9, <2>1, <2>4, <2>6, <3>1
  <2> QED BY <2>5, <2>6
<1>10. ASSUME NEW u \in Threads, pc'[u] # "item"
       PROVE  AheadUnstored(u)'
  BY <1>10 DEF AheadUnstored
<1>11. ASSUME NEW u \in Threads, u # t
       PROVE  PendingOnce(u)'
  <2> SUFFICES ASSUME NEW m \in Messages, pending'[u][m] > 0
               PROVE  /\ pending'[u][m] = 1 /\ rows'[m] = 0 /\ pc'[u] = "item"
                      /\ Passed(u, m)'
    BY DEF PendingOnce
  <2>1. pending'[u] = pending[u] /\ pc'[u] = pc[u] /\ pos'[u] = pos[u]
    BY <1>1, <1>11
  <2>2. pending[u][m] = 1 /\ rows[m] = 0 /\ pc[u] = "item" /\ Passed(u, m)
    BY <1>3, <2>1 DEF PendingOnce
  <2>3. m \in Elements(batch[u]) /\ Active(u)
    BY <2>2 DEF Passed, Elements, Active
  <2>4. m \notin Elements(batch[t])
    BY <1>1, <1>3, <1>11, <2>3 DEF BatchOwn
  <2> QED BY <1>1, <1>2, <2>1, <2>2, <2>4 DEF Passed
<1> QED BY <1>7, <1>8, <1>9, <1>10, <1>11 DEF OnePlace

\* Such a step is a step of the contract, once nothing is lost.
LEMMA OwnSettles ==
  ASSUME OInv, NEW t \in Threads, OwnStep(t), TypeOK', NoSightingLost',
         Elements(dlq) \union evicted \subseteq (Elements(dlq) \union evicted)',
         (Elements(dlq) \union evicted)' \subseteq
           Elements(dlq) \union evicted \union Elements(batch[t])
  PROVE  Contract!Settle
<1> DEFINE held == {m \in Messages : Held(m)}
<1> DEFINE new == {m \in Messages : rows'[m] # rows[m]}
<1>1. /\ rows \in [Messages -> Nat] /\ rows' \in [Messages -> Nat]
      /\ ingested \subseteq Messages
      /\ \A u \in Threads : batch[u] \in Seq(Messages)
  BY DEF OInv, IInv, TypeOK
<1>2. /\ ingested' = ingested /\ buffer' = buffer /\ batch' = batch /\ Active(t)
      /\ \A u \in Threads : Active(u)' => Active(u)
      /\ \A m \in new : rows[m] = 0 /\ rows'[m] = 1 /\ m \in Elements(batch[t])
  BY DEF OwnStep, Active
<1>3. Elements(batch[t]) \subseteq held
  BY <1>1, <1>2 DEF Held, Elements
<1>4. held \subseteq ingested
  <2>1. BufferOwn /\ \A u \in Threads : BatchOwn(u)
    BY DEF OInv, OnePlace
  <2> QED BY <2>1 DEF Held, BufferOwn, BatchOwn
<1>5. held' \subseteq held
  BY <1>2 DEF Held
<1>6. new \in SUBSET (held \ Contract!Stored(rows))
  BY <1>2, <1>3 DEF Contract!Stored
<1>7. rows' = [m \in Messages |-> IF m \in new THEN 1 ELSE rows[m]]
  BY <1>1, <1>2
<1>8. held \ held' \subseteq Contract!Stored(rows') \union (Elements(dlq) \union evicted)'
  <2>1. ASSUME NEW m \in held, m \notin held'
        PROVE  rows'[m] > 0 \/ m \in Elements(dlq') \/ m \in evicted'
    BY <1>2, <1>4, <2>1 DEF NoSightingLost, Quarantined
  <2> QED BY <2>1 DEF Contract!Stored
<1> HIDE DEF new
<1> QED BY <1>2, <1>3, <1>5, <1>6, <1>7, <1>8 DEF Contract!Settle

\* A step that moves no payload.
LEMMA SamePlace ==
  ASSUME OnePlace, UNCHANGED <<ingested, buffer, rows, batch, pos, pending>>,
         \A u \in Threads :
           (Active(u)' <=> Active(u)) /\ (pc'[u] = "item" <=> pc[u] = "item")
  PROVE  OnePlace'
<1>1. /\ BufferOwn
      /\ \A u \in Threads : BatchOwn(u) /\ AheadUnstored(u) /\ PendingOnce(u)
  BY DEF OnePlace
<1>2. /\ Elements(buffer)' = Elements(buffer)
      /\ \A u \in Threads : Elements(batch[u])' = Elements(batch[u])
  OBVIOUS
<1>3. BufferOwn'
  BY <1>1, <1>2 DEF BufferOwn, NoRepetition
<1>4. ASSUME NEW u \in Threads
      PROVE  BatchOwn(u)'
  BY <1>1, <1>2 DEF BatchOwn, NoRepetition
<1>5. ASSUME NEW u \in Threads
      PROVE  AheadUnstored(u)' /\ PendingOnce(u)'
  BY <1>1 DEF AheadUnstored, PendingOnce, Passed
<1> QED BY <1>3, <1>4, <1>5 DEF OnePlace

\* Every step of ingestion keeps each payload in one place, and is a step of
\* the contract or changes nothing the contract speaks of.
LEMMA ContractStep ==
  ASSUME OInv, HolderInv, IngestNext, IInv'
  PROVE  OnePlace' /\ [Contract!Next]_(Contract!vars)
<1> DEFINE Kept == OnePlace' /\ [Contract!Next]_(Contract!vars)
<1> SUFFICES Kept
  OBVIOUS
<1>0. /\ \A u \in Threads : /\ batch[u] \in Seq(Messages) /\ pos[u] \in Nat
                            /\ pending[u] \in [Messages -> Nat]
      /\ buffer \in Seq(Messages) /\ rows \in [Messages -> Nat]
      /\ dlq \in Seq(Messages) /\ ingested \subseteq Messages
      /\ DOMAIN pc = Threads /\ DOMAIN pos = Threads /\ DOMAIN pending = Threads
      /\ DOMAIN batch = Threads
  BY DEF OInv, IInv, TypeOK
<1>1. /\ BufferOwn
      /\ \A u \in Threads : BatchOwn(u) /\ AheadUnstored(u) /\ PendingOnce(u)
  BY DEF OInv, OnePlace
<1>2. ASSUME NEW t \in Threads, OwnStep(t), PendingOnce(t)',
             Elements(dlq) \union evicted \subseteq (Elements(dlq) \union evicted)',
             (Elements(dlq) \union evicted)' \subseteq
               Elements(dlq) \union evicted \union Elements(batch[t])
      PROVE  Kept
  <2>1. OnePlace'
    BY <1>2, OwnKeeps DEF IInv
  <2>2. Contract!Settle
    BY <1>2, OwnSettles DEF IInv
  <2> QED BY <2>1, <2>2 DEF Contract!Next
<1>3. ASSUME NEW t \in Threads, NEW x \in Elements(batch[t]), EnqueuePoisonPill(t, x)
      PROVE  /\ Elements(dlq) \union evicted \subseteq (Elements(dlq) \union evicted)'
             /\ (Elements(dlq) \union evicted)' \subseteq
                  Elements(dlq) \union evicted \union Elements(batch[t])
  <2>1. dlq' = Push(dlq, x) /\ evicted' = evicted \union Displaced(dlq)
    BY <1>3 DEF EnqueuePoisonPill
  <2>2. x \in Messages
    BY <1>0 DEF Elements
  <2>3. /\ Elements(dlq) \subseteq Elements(Push(dlq, x)) \union Displaced(dlq)
        /\ Elements(Push(dlq, x)) \subseteq Elements(dlq) \union {x}
        /\ Displaced(dlq) \subseteq Elements(dlq)
    BY <1>0, <2>2, PushElements, PushBounds
  <2> QED BY <2>1, <2>3
<1>4. ASSUME NEW t \in Threads, Active(t), pos[t] <= Len(batch[t])
      PROVE  Item(t) \in Elements(batch[t]) /\ pos[t] \in 1 .. Len(batch[t])
  <2>1. pos[t] \in 1 .. Len(batch[t])
    <3>1. pos[t] \in Nat \ {0} /\ batch[t] \in Seq(Messages)
      BY DEF OInv, IInv, TypeOK
    <3> QED BY <1>4, <3>1
  <2> QED BY <2>1 DEF Item, Elements
<1>5. ASSUME NEW t \in Threads, NEW x \in Messages, EnqueueSighting(t, x)
      PROVE  Kept
  <2>1. /\ x \notin ingested /\ ingested' = ingested \union {x}
        /\ buffer' = Append(buffer, x)
        /\ UNCHANGED <<rows, dlq, evicted, batch, pos, pending>>
    BY <1>5 DEF EnqueueSighting, session
  <2>2. \A u \in Threads : (Active(u)' <=> Active(u)) /\ (pc'[u] = "item" <=> pc[u] = "item")
    BY <1>0, <1>5 DEF EnqueueSighting, Active
  <2>3. x \notin Elements(buffer) /\ NoRepetition(buffer) /\ rows[x] = 0
    BY <1>1, <2>1 DEF BufferOwn
  <2>4. Elements(buffer)' = Elements(buffer) \union {x} /\ NoRepetition(buffer')
    BY <1>0, <2>1, <2>3, AppendElements
  <2>5. \A u \in Threads : Elements(batch[u])' = Elements(batch[u])
    BY <2>1
  <2>6. BufferOwn'
    BY <1>1, <2>1, <2>3, <2>4 DEF BufferOwn
  <2>7. ASSUME NEW u \in Threads
        PROVE  BatchOwn(u)' /\ AheadUnstored(u)' /\ PendingOnce(u)'
    <3>1. BatchOwn(u)'
      <4>1. Active(u)' => x \notin Elements(batch[u])
        BY <1>1, <2>1, <2>2 DEF BatchOwn
      <4>2. Active(u)' => Elements(batch[u])' \intersect Elements(buffer)' = {}
        BY <1>1, <2>2, <2>4, <2>5, <4>1 DEF BatchOwn
      <4>3. Active(u)' => NoRepetition(batch'[u]) /\ Elements(batch[u])' \subseteq ingested'
        BY <1>1, <2>1, <2>2, <2>5 DEF BatchOwn
      <4>4. \A v \in Threads \ {u} : Active(u)' /\ Active(v)' =>
              Elements(batch[u])' \intersect Elements(batch[v])' = {}
        BY <1>1, <2>2, <2>5 DEF BatchOwn
      <4> QED BY <4>2, <4>3, <4>4 DEF BatchOwn
    <3>2. AheadUnstored(u)' /\ PendingOnce(u)'
      BY <1>1, <2>1, <2>2 DEF AheadUnstored, PendingOnce, Passed
    <3> QED BY <3>1, <3>2
  <2>8. Contract!Accept
    <3>1. \A m : Held(m)' <=> Held(m) \/ m = x
      BY <2>2, <2>4, <2>5 DEF Held
    <3>2. Elements(dlq)' = Elements(dlq)
      BY <2>1
    <3> QED BY <2>1, <3>1, <3>2 DEF Contract!Accept
  <2> QED BY <2>6, <2>7, <2>8 DEF OnePlace, Contract!Next
<1>6. ASSUME NEW t \in Threads, FlushEmpty(t)
      PROVE  Kept
  <2>1. UNCHANGED <<ingested, buffer, rows, dlq, evicted, batch, pos, pending>>
    BY <1>6 DEF FlushEmpty, shared, session
  <2>2. \A u \in Threads : (Active(u)' <=> Active(u)) /\ (pc'[u] = "item" <=> pc[u] = "item")
    BY <1>0, <1>6 DEF FlushEmpty, FlushDone, Active
  <2>3. OnePlace'
    BY <2>1, <2>2, SamePlace DEF OInv
  <2>4. UNCHANGED Contract!vars
    <3>1. \A m : Held(m)' <=> Held(m)
      BY <2>1, <2>2 DEF Held, Elements
    <3>2. Elements(dlq)' = Elements(dlq)
      BY <2>1
    <3> QED BY <2>1, <3>1, <3>2 DEF Contract!vars
  <2> QED BY <2>3, <2>4
<1>7. ASSUME NEW t \in Threads, TakeBatch(t)
      PROVE  Kept
  <2>1. /\ batch' = [batch EXCEPT ![t] = buffer] /\ buffer' = <<>>
        /\ pos' = [pos EXCEPT ![t] = 1] /\ pc[t] = "flush"
        /\ pending' = [pending EXCEPT ![t] = NoRows]
        /\ pc' = [pc EXCEPT ![t] = "item"]
        /\ UNCHANGED <<ingested, rows, dlq, evicted>>
    BY <1>7 DEF TakeBatch, BeginBatch
  <2>2. /\ batch'[t] = buffer /\ pos'[t] = 1 /\ pending'[t] = NoRows /\ pc'[t] = "item"
        /\ ~Active(t) /\ Active(t)'
        /\ \A u \in Threads \ {t} :
             /\ batch'[u] = batch[u] /\ pos'[u] = pos[u] /\ pending'[u] = pending[u]
             /\ pc'[u] = pc[u] /\ (Active(u)' <=> Active(u))
    BY <1>0, <2>1 DEF Active
  <2>3. Elements(buffer)' = {} /\ NoRepetition(buffer')
    BY <2>1 DEF Elements, NoRepetition
  <2>4. BufferOwn'
    BY <1>1, <2>1, <2>3 DEF BufferOwn
  <2>5. BatchOwn(t)' /\ AheadUnstored(t)' /\ PendingOnce(t)'
    <3>1. BatchOwn(t)'
      <4>1. NoRepetition(batch'[t]) /\ Elements(batch'[t]) \subseteq ingested'
        BY <1>1, <2>1, <2>2 DEF BufferOwn
      <4>2. ASSUME NEW u \in Threads \ {t}, Active(u)'
            PROVE  Elements(batch'[t]) \intersect Elements(batch'[u]) = {}
        BY <1>1, <2>2, <4>2 DEF BatchOwn
      <4> QED BY <2>3, <4>1, <4>2 DEF BatchOwn
    <3>2. AheadUnstored(t)'
      <4>1. \A m \in Elements(buffer) : rows'[m] = 0
        BY <1>0, <1>1, <2>1 DEF BufferOwn
      <4> QED BY <2>2, <4>1 DEF AheadUnstored, Elements
    <3>3. PendingOnce(t)'
      BY <2>2 DEF PendingOnce, NoRows
    <3> QED BY <3>1, <3>2, <3>3
  <2>6. ASSUME NEW u \in Threads \ {t}
        PROVE  BatchOwn(u)' /\ AheadUnstored(u)' /\ PendingOnce(u)'
    <3>1. BatchOwn(u)'
      <4>1. \A v \in Threads \ {u} : Active(u)' /\ Active(v)' =>
              Elements(batch'[u]) \intersect Elements(batch'[v]) = {}
        BY <1>1, <2>2 DEF BatchOwn
      <4>2. Active(u)' => NoRepetition(batch'[u]) /\ Elements(batch'[u]) \subseteq ingested'
        BY <1>1, <2>1, <2>2 DEF BatchOwn
      <4> QED BY <2>3, <4>1, <4>2 DEF BatchOwn
    <3>2. AheadUnstored(u)' /\ PendingOnce(u)'
      BY <1>1, <2>1, <2>2 DEF AheadUnstored, PendingOnce, Passed
    <3> QED BY <3>1, <3>2
  <2>7. UNCHANGED Contract!vars
    <3>1. \A m : Held(m)' <=> Held(m)
      BY <2>2, <2>3 DEF Held
    <3>2. Elements(dlq)' = Elements(dlq)
      BY <2>1
    <3> QED BY <2>1, <3>1, <3>2 DEF Contract!vars
  <2> QED BY <2>4, <2>5, <2>6, <2>7 DEF OnePlace
<1>8. ASSUME NEW t \in Threads, ItemRaises(t)
      PROVE  Kept
  <2>1. /\ pc[t] = "item" /\ pos[t] <= Len(batch[t]) /\ Active(t)
        /\ EnqueuePoisonPill(t, Item(t))
        /\ UNCHANGED <<ingested, buffer, rows, pc, batch, pending>>
        /\ pos' = [pos EXCEPT ![t] = pos[t] + 1]
    BY <1>8 DEF ItemRaises, AtItem, NextItem, Active
  <2>2. pos'[t] = pos[t] + 1 /\ \A u \in Threads \ {t} : pos'[u] = pos[u]
    BY <1>0, <2>1
  <2>3. OwnStep(t)
    BY <1>0, <2>1, <2>2 DEF OwnStep
  <2>4. PendingOnce(t)'
    BY <1>0, <1>1, <2>1, <2>2 DEF PendingOnce, Passed
  <2> QED BY <1>2, <1>3, <1>4, <2>1, <2>3, <2>4
<1>9. ASSUME NEW t \in Threads, ItemFlushFails(t)
      PROVE  Kept
  <2>1. /\ pc[t] = "item" /\ pos[t] <= Len(batch[t]) /\ Active(t)
        /\ EnqueuePoisonPill(t, Item(t))
        /\ UNCHANGED <<ingested, buffer, rows, pc, batch>>
        /\ pending' = [pending EXCEPT ![t] = NoRows]
        /\ pos' = [pos EXCEPT ![t] = pos[t] + 1]
    BY <1>9 DEF ItemFlushFails, RolledBackItem, AtItem, NextItem, Active
  <2>2. /\ pos'[t] = pos[t] + 1 /\ pending'[t] = NoRows
        /\ \A u \in Threads \ {t} : pos'[u] = pos[u] /\ pending'[u] = pending[u]
    BY <1>0, <2>1
  <2>3. OwnStep(t)
    BY <1>0, <2>1, <2>2 DEF OwnStep
  <2>4. PendingOnce(t)'
    BY <2>2 DEF PendingOnce, NoRows
  <2> QED BY <1>2, <1>3, <1>4, <2>1, <2>3, <2>4
<1>10. ASSUME NEW t \in Threads, ItemFlushed(t)
       PROVE  Kept
  <2>1. /\ pc[t] = "item" /\ pos[t] <= Len(batch[t]) /\ Active(t)
        /\ UNCHANGED <<ingested, buffer, dlq, evicted, pc, batch>>
        /\ pos' = [pos EXCEPT ![t] = pos[t] + 1]
    BY <1>10 DEF ItemFlushed, AtItem, NextItem, Active
  <2>2. PICK x \in Messages : x = Item(t)
    <3>1. Elements(batch[t]) \subseteq Messages
      BY <1>0, <1>1, <2>1 DEF BatchOwn
    <3> QED BY <1>4, <2>1, <3>1
  <2> DEFINE written == OneRow(pending[t], x)
  <2>3. \/ rows' = AddRows(rows, written) /\ pending' = [pending EXCEPT ![t] = NoRows]
        \/ rows' = rows /\ pending' = [pending EXCEPT ![t] = written]
    BY <1>10, <2>2 DEF ItemFlushed
  <2>4. pos[t] \in 1 .. Len(batch[t]) /\ batch[t][pos[t]] = x /\ x \in Elements(batch[t])
    BY <1>4, <2>1, <2>2 DEF Item
  <2>5. rows[x] = 0
    BY <1>0, <1>1, <2>1, <2>4 DEF AheadUnstored
  <2>6. pending[t][x] = 0
    <3>1. ASSUME NEW i \in 1 .. Len(batch[t]), batch[t][i] = x
          PROVE  i = pos[t]
      BY <1>1, <2>1, <2>4, <3>1 DEF BatchOwn, NoRepetition
    <3>2. ~Passed(t, x)
      BY <1>0, <3>1 DEF Passed
    <3> QED BY <1>0, <1>1, <3>2 DEF PendingOnce
  <2>7. /\ pos'[t] = pos[t] + 1
        /\ \A u \in Threads \ {t} : pos'[u] = pos[u] /\ pending'[u] = pending[u]
    BY <1>0, <2>1, <2>3
  <2>8. \A m \in Messages : Passed(t, m) \/ m = x => Passed(t, m)'
    <3>1. pos[t] < pos'[t] /\ \A i \in 1 .. Len(batch[t]) : i < pos[t] => i < pos'[t]
      BY <1>0, <2>7
    <3>2. batch'[t] = batch[t]
      BY <2>1
    <3>3. ASSUME NEW m \in Messages, Passed(t, m)
          PROVE  Passed(t, m)'
      BY <3>1, <3>2, <3>3 DEF Passed
    <3>4. Passed(t, x)'
      BY <2>4, <3>1, <3>2 DEF Passed
    <3> QED BY <3>3, <3>4
  <2>9. \A m \in Messages : written[m] > 0 =>
          /\ written[m] = 1 /\ rows[m] = 0 /\ Passed(t, m)' /\ m \in Elements(batch[t])
    <3> SUFFICES ASSUME NEW m \in Messages, written[m] > 0
                 PROVE  /\ written[m] = 1 /\ rows[m] = 0 /\ Passed(t, m)'
                        /\ m \in Elements(batch[t])
      OBVIOUS
    <3>1. CASE m = x
      BY <1>0, <2>4, <2>5, <2>6, <2>8, <3>1 DEF OneRow
    <3>2. CASE m # x
      <4>1. written[m] = pending[t][m]
        BY <1>0, <3>2 DEF OneRow
      <4>2. pending[t][m] = 1 /\ rows[m] = 0 /\ Passed(t, m)
        BY <1>1, <4>1 DEF PendingOnce
      <4> QED BY <2>8, <4>1, <4>2 DEF Passed, Elements
    <3> QED BY <3>1, <3>2
  <2>10. written \in [Messages -> Nat]
    BY <1>0, PendingType
  <2> HIDE DEF written
  <2>11. OwnStep(t)
    <3>1. \A m \in Messages : rows'[m] # rows[m] =>
            rows' = AddRows(rows, written) /\ rows'[m] = rows[m] + written[m]
      BY <2>3 DEF AddRows
    <3>2. \A m \in Messages : rows'[m] # rows[m] => written[m] > 0 /\ rows'[m] = rows[m] + written[m]
      BY <1>0, <2>10, <3>1
    <3>3. ASSUME NEW m \in Messages, rows'[m] # rows[m]
          PROVE  /\ rows[m] = 0 /\ rows'[m] = 1
                 /\ m \in Elements(batch[t]) /\ Passed(t, m)'
      <4>1. written[m] > 0 /\ rows'[m] = rows[m] + written[m]
        BY <3>2, <3>3
      <4> QED BY <2>9, <4>1
    <3>4. pos'[t] >= pos[t]
      BY <1>0, <2>7
    <3> QED BY <2>1, <2>7, <3>3, <3>4 DEF OwnStep
  <2>12. PendingOnce(t)'
    <3>1. CASE pending' = [pending EXCEPT ![t] = NoRows]
      BY <1>0, <3>1 DEF PendingOnce, NoRows
    <3>2. CASE rows' = rows /\ pending' = [pending EXCEPT ![t] = written]
      <4>1. pending'[t] = written
        BY <1>0, <3>2
      <4> QED BY <2>1, <2>9, <3>2, <4>1 DEF PendingOnce
    <3> QED BY <2>3, <3>1, <3>2
  <2>13. Elements(dlq)' = Elements(dlq) /\ evicted' = evicted
    BY <2>1
  <2> QED BY <1>2, <2>11, <2>12, <2>13
<1>11. ASSUME NEW t \in Threads, CommitSucceeds(t)
       PROVE  Kept
  <2>1. /\ pc[t] = "item" /\ Active(t)
        /\ rows' = AddRows(rows, pending[t])
        /\ pending' = [pending EXCEPT ![t] = NoRows]
        /\ UNCHANGED <<ingested, buffer, dlq, evicted, batch, pos>>
        /\ pc' = [pc EXCEPT ![t] = pc'[t]] /\ pc'[t] # "item"
    BY <1>11 DEF CommitSucceeds, AtCommit, FlushDone, Active, OInv, IInv, TypeOK
  <2>2. /\ pending'[t] = NoRows
        /\ \A u \in Threads \ {t} : pc'[u] = pc[u] /\ pending'[u] = pending[u]
    BY <1>0, <2>1
  <2>3. \A m \in Messages : rows'[m] = rows[m] + pending[t][m]
    BY <2>1 DEF AddRows
  <2>4. \A m \in Messages : pending[t][m] > 0 =>
          pending[t][m] = 1 /\ rows[m] = 0 /\ m \in Elements(batch[t])
    BY <1>1 DEF PendingOnce, Passed, Elements
  <2>5. OwnStep(t)
    BY <1>0, <2>1, <2>2, <2>3, <2>4 DEF OwnStep
  <2>6. PendingOnce(t)'
    BY <2>2 DEF PendingOnce, NoRows
  <2>7. Elements(dlq)' = Elements(dlq) /\ evicted' = evicted
    BY <2>1
  <2> QED BY <1>2, <2>5, <2>6, <2>7
<1>12. ASSUME NEW t \in Threads, CommitFails(t)
       PROVE  Kept
  <2>1. /\ pc[t] = "item" /\ Active(t)
        /\ UNCHANGED <<ingested, buffer, rows, dlq, evicted, batch>>
        /\ pending' = [pending EXCEPT ![t] = NoRows]
        /\ pos' = [pos EXCEPT ![t] = 1]
        /\ pc' = [pc EXCEPT ![t] = "quarantine"]
    BY <1>12 DEF CommitFails, RollbackBatch, AtCommit, Active
  <2>2. /\ pending'[t] = NoRows /\ pc'[t] = "quarantine"
        /\ \A u \in Threads \ {t} :
             pc'[u] = pc[u] /\ pos'[u] = pos[u] /\ pending'[u] = pending[u]
    BY <1>0, <2>1
  <2>3. OwnStep(t)
    BY <2>1, <2>2 DEF OwnStep
  <2>4. PendingOnce(t)'
    BY <2>2 DEF PendingOnce, NoRows
  <2>5. Elements(dlq)' = Elements(dlq) /\ evicted' = evicted
    BY <2>1
  <2> QED BY <1>2, <2>3, <2>4, <2>5
<1>13. ASSUME NEW t \in Threads, QuarantineItem(t)
       PROVE  Kept
  <2>1. /\ pc[t] = "quarantine" /\ pos[t] <= Len(batch[t]) /\ Active(t)
        /\ EnqueuePoisonPill(t, Item(t))
        /\ UNCHANGED <<ingested, buffer, rows, pc, batch, pending>>
        /\ pos' = [pos EXCEPT ![t] = pos[t] + 1]
    BY <1>13 DEF QuarantineItem, NextItem, Active
  <2>2. pos'[t] = pos[t] + 1 /\ \A u \in Threads \ {t} : pos'[u] = pos[u]
    BY <1>0, <2>1
  <2>3. OwnStep(t)
    BY <1>0, <2>1, <2>2 DEF OwnStep
  <2>4. PendingOnce(t)'
    BY <1>0, <1>1, <2>1, <2>2 DEF PendingOnce, Passed
  <2> QED BY <1>2, <1>3, <1>4, <2>1, <2>3, <2>4
<1>14. ASSUME NEW t \in Threads, QuarantineDone(t)
       PROVE  Kept
  <2>1. /\ pc[t] = "quarantine" /\ Active(t)
        /\ UNCHANGED <<ingested, buffer, rows, dlq, evicted, batch, pos, pending>>
        /\ pc' = [pc EXCEPT ![t] = pc'[t]] /\ pc'[t] # "item"
    BY <1>14 DEF QuarantineDone, shared, session, FlushDone, Active, OInv, IInv, TypeOK
  <2>2. \A u \in Threads \ {t} : pc'[u] = pc[u]
    BY <1>0, <2>1
  <2>3. OwnStep(t)
    BY <2>1, <2>2 DEF OwnStep
  <2>4. PendingOnce(t)'
    BY <1>1, <2>1 DEF PendingOnce
  <2>5. Elements(dlq)' = Elements(dlq) /\ evicted' = evicted
    BY <2>1
  <2> QED BY <1>2, <2>3, <2>4, <2>5
<1> QED BY <1>5, <1>6, <1>7, <1>8, <1>9, <1>10, <1>11, <1>12, <1>13, <1>14
        DEF IngestNext, FlushStep

\* Ingestion alone implements IngestContract, for every value of the constants:
\* flush_batch, whatever its mid-batch commits and failures, stores a payload
\* once, only while ingestion answers for it, and lets go of none that is
\* neither stored nor in the dead letter queue.
THEOREM IngestKeepsContract == IngestSpec => KeepsContract
<1>1. Init => OInv /\ HolderInv /\ Contract!Init
  <2>1. Init => TypeOK /\ HolderInv
    BY InitTyped
  <2>2. Init => BatchInv /\ NoSightingLost
    BY DEF Init, BatchInv, NoSightingLost
  <2>3. Init => OnePlace
    BY DEF Init, OnePlace, BufferOwn, BatchOwn, AheadUnstored, PendingOnce, Active,
           NoRepetition, Elements, NoRows
  <2>4. Init => Contract!Init
    BY DEF Init, Contract!Init, Held, Active, Elements, NoRows
  <2> QED BY <2>1, <2>2, <2>3, <2>4 DEF OInv, IInv
<1>2. OInv /\ HolderInv /\ [IngestNext]_vars
        => OInv' /\ HolderInv' /\ [Contract!Next]_(Contract!vars)
  <2> SUFFICES ASSUME OInv, HolderInv, [IngestNext]_vars
               PROVE  OInv' /\ HolderInv' /\ [Contract!Next]_(Contract!vars)
    OBVIOUS
  <2>1. IInv' /\ HolderInv'
    BY IInvStep DEF OInv
  <2>2. CASE IngestNext
    BY <2>1, <2>2, ContractStep DEF OInv
  <2>3. CASE UNCHANGED vars
    <3>1. OnePlace'
      BY <2>3, SamePlace DEF vars, shared, session, OInv, Active
    <3>2. UNCHANGED Contract!vars
      BY <2>3 DEF vars, shared, session, Contract!vars, Held, Active, Elements
    <3> QED BY <2>1, <3>1, <3>2 DEF OInv
  <2> QED BY <2>2, <2>3
<1> QED BY <1>1, <1>2, PTL DEF IngestSpec, KeepsContract, Contract!Spec

-----------------------------------------------------------------------------
(* Conversion errors are isolated, replays and purges included.            *)
(*                                                                         *)
(* What a thread quarantines comes from the buffer, and what the buffer    *)
(* holds was ingested once or comes back from the queue.  Seen says so;    *)
(* Clean adds that, until the database has had a reason to refuse          *)
(* something, no session is poisoned and no batch is in the rollback       *)
(* branch, so that a pill is made for a conversion error only.             *)

Seen ==
  /\ \A q \in {buffer, dlq, replayTodo, remaining} : Elements(q) \subseteq ingested
  /\ \A t \in Threads : Elements(batch[t]) \subseteq ingested

Undisturbed == faults = 0 /\ ingested \intersect (Unstorable \union Keyed) = {}

Clean ==
  Undisturbed =>
    /\ Elements(dlq) \subseteq Malformed
    /\ Elements(remaining) \subseteq Malformed
    /\ \A t \in Threads : ~poisoned[t] /\ pc[t] # "quarantine"

\* The window to retry and the rest hold what the queue held.
LEMMA WindowElements ==
  ASSUME NEW S, NEW q \in Seq(S), NEW k \in Nat
  PROVE  /\ Elements(RetryWindow(q, k)) \subseteq Elements(q)
         /\ Elements(BeyondWindow(q, k)) \subseteq Elements(q)
<1>1. CASE k < Len(q)
  <2>1. /\ Len(SubSeq(q, 1, k)) = k
        /\ \A i \in 1 .. k : SubSeq(q, 1, k)[i] = q[i]
    BY <1>1
  <2>2. /\ Len(SubSeq(q, k + 1, Len(q))) = Len(q) - k
        /\ \A i \in 1 .. Len(q) - k : SubSeq(q, k + 1, Len(q))[i] = q[i + k]
    BY <1>1
  <2>3. \A i \in 1 .. k : i \in 1 .. Len(q)
    BY <1>1
  <2>4. \A i \in 1 .. Len(q) - k : i + k \in 1 .. Len(q)
    BY <1>1
  <2>5. Elements(SubSeq(q, 1, k)) \subseteq Elements(q)
    BY <2>1, <2>3 DEF Elements
  <2>6. Elements(SubSeq(q, k + 1, Len(q))) \subseteq Elements(q)
    BY <2>2, <2>4 DEF Elements
  <2> QED BY <1>1, <2>5, <2>6 DEF RetryWindow, BeyondWindow
<1>2. CASE ~(k < Len(q))
  <2>1. RetryWindow(q, k) = q
    BY <1>2 DEF RetryWindow
  <2> QED BY <1>2, <2>1 DEF BeyondWindow, Elements
<1> QED BY <1>1, <1>2

\* Seen and Clean survive a step that leaves the batches alone or takes one
\* from the buffer, and quarantines at most one payload.
LEMMA CleanStep ==
  ASSUME TypeOK, Seen, Clean, Next
  PROVE  Seen' /\ Clean'
<1>0. /\ \A u \in Threads : batch[u] \in Seq(Messages)
      /\ buffer \in Seq(Messages) /\ dlq \in Seq(Messages)
      /\ replayTodo \in Seq(Messages) /\ remaining \in Seq(Messages)
      /\ ingested \subseteq Messages /\ faults \in Nat
      /\ DOMAIN pc = Threads /\ DOMAIN batch = Threads /\ DOMAIN poisoned = Threads
  BY IngestAssumption DEF TypeOK
<1>1. /\ Elements(buffer) \subseteq ingested /\ Elements(dlq) \subseteq ingested
      /\ Elements(replayTodo) \subseteq ingested /\ Elements(remaining) \subseteq ingested
      /\ \A u \in Threads : Elements(batch[u]) \subseteq ingested
  BY DEF Seen
<1>2. /\ Undisturbed => Elements(dlq) \subseteq Malformed
      /\ Undisturbed => Elements(remaining) \subseteq Malformed
      /\ Undisturbed => \A u \in Threads : ~poisoned[u] /\ pc[u] # "quarantine"
  BY DEF Clean
<1>3. ASSUME NEW t \in Threads, pos[t] <= Len(batch[t])
      PROVE  Item(t) \in Elements(batch[t]) /\ Item(t) \in ingested /\ Item(t) \in Messages
  <2>1. pos[t] \in 1 .. Len(batch[t])
    BY <1>0, <1>3 DEF TypeOK
  <2>2. Item(t) \in Elements(batch[t])
    BY <2>1 DEF Item, Elements
  <2> QED BY <1>0, <1>1, <2>2
<1>4. ASSUME NEW t \in Threads, NEW x \in ingested, EnqueuePoisonPill(t, x),
             UNCHANGED <<ingested, buffer, batch, replayTodo, remaining, pc>>,
             faults' = faults \/ faults' = faults + 1,
             Undisturbed' => x \in Malformed /\ UNCHANGED poisoned
      PROVE  Seen' /\ Clean'
  <2>1. Elements(dlq)' \subseteq Elements(dlq) \union {x}
    BY <1>0, <1>4, PushBounds DEF EnqueuePoisonPill
  <2>2. Undisturbed' => Undisturbed
    BY <1>0, <1>4 DEF Undisturbed
  <2>3. Seen'
    BY <1>1, <1>4, <2>1 DEF Seen
  <2>4. Clean'
    BY <1>2, <1>4, <2>1, <2>2 DEF Clean
  <2> QED BY <2>3, <2>4
<1>5. ASSUME UNCHANGED <<ingested, buffer, batch, dlq, replayTodo, remaining>>,
             faults' = faults \/ faults' = faults + 1,
             Undisturbed' => \A u \in Threads : ~poisoned'[u] /\ pc'[u] # "quarantine"
      PROVE  Seen' /\ Clean'
  <2>1. Undisturbed' => Undisturbed
    BY <1>0, <1>5 DEF Undisturbed
  <2>2. Seen'
    BY <1>1, <1>5 DEF Seen
  <2>3. Clean'
    BY <1>2, <1>5, <2>1 DEF Clean
  <2> QED BY <2>2, <2>3
<1>6. ASSUME NEW t \in Threads, NEW x \in Messages, EnqueueSighting(t, x)
      PROVE  Seen' /\ Clean'
  <2>1. /\ ingested' = ingested \union {x} /\ buffer' = Append(buffer, x)
        /\ UNCHANGED <<dlq, faults, batch, poisoned, replayTodo, remaining>>
        /\ \A u \in Threads : pc'[u] = "quarantine" => pc[u] = "quarantine"
    BY <1>0, <1>6 DEF EnqueueSighting, session, replay
  <2>2. Elements(buffer)' = Elements(buffer) \union {x}
    BY <1>0, <2>1, AppendElements
  <2>3. Undisturbed' => Undisturbed
    BY <2>1 DEF Undisturbed
  <2>4. Seen'
    BY <1>1, <2>1, <2>2 DEF Seen
  <2>5. Clean'
    BY <1>2, <2>1, <2>3 DEF Clean
  <2> QED BY <2>4, <2>5
<1>7. ASSUME NEW t \in Threads, FlushDone(t)
      PROVE  /\ UNCHANGED <<replayTodo, remaining>>
             /\ \A u \in Threads : pc'[u] = "quarantine" => pc[u] = "quarantine"
  BY <1>0, <1>7 DEF FlushDone
<1>8. ASSUME UNCHANGED faults
      PROVE  UNCHANGED ingested => (Undisturbed' <=> Undisturbed)
  BY <1>8 DEF Undisturbed
<1>9. ASSUME NEW t \in Threads, FlushEmpty(t)
      PROVE  Seen' /\ Clean'
  <2>1. FlushDone(t) /\ UNCHANGED <<ingested, buffer, dlq, faults, batch, poisoned>>
    BY <1>9 DEF FlushEmpty, shared, session
  <2> QED BY <1>2, <1>5, <1>7, <1>8, <2>1
<1>10. ASSUME NEW t \in Threads, TakeBatch(t)
       PROVE  Seen' /\ Clean'
  <2>1. /\ buffer' = <<>> /\ batch' = [batch EXCEPT ![t] = buffer]
        /\ UNCHANGED <<ingested, dlq, faults, replayTodo, remaining>>
        /\ \A u \in Threads : pc'[u] = "quarantine" => pc[u] = "quarantine"
        /\ \A u \in Threads : poisoned'[u] => poisoned[u]
    BY <1>0, <1>10 DEF TakeBatch, BeginBatch, replay, TypeOK
  <2>2. Elements(buffer)' = {}
    BY <2>1 DEF Elements
  <2>3. \A u \in Threads : Elements(batch[u])' \subseteq ingested
    BY <1>0, <1>1, <2>1
  <2>4. Seen'
    BY <1>1, <2>1, <2>2, <2>3 DEF Seen
  <2>5. Clean'
    BY <1>2, <1>8, <2>1 DEF Clean
  <2> QED BY <2>4, <2>5
<1>11. ASSUME NEW t \in Threads, ItemRaises(t)
       PROVE  Seen' /\ Clean'
  <2>1. /\ pos[t] <= Len(batch[t]) /\ EnqueuePoisonPill(t, Item(t))
        /\ Item(t) \in Malformed \/ poisoned[t]
        /\ UNCHANGED <<ingested, buffer, faults, batch, replayTodo, remaining, pc, poisoned>>
    BY <1>11 DEF ItemRaises, AtItem, replay
  <2>2. Undisturbed' => Item(t) \in Malformed
    BY <1>2, <1>8, <2>1
  <2> QED BY <1>3, <1>4, <2>1, <2>2
<1>12. ASSUME NEW t \in Threads, ItemFlushFails(t)
       PROVE  Seen' /\ Clean'
  <2>1. /\ pos[t] <= Len(batch[t]) /\ EnqueuePoisonPill(t, Item(t))
        /\ \/ Refused(t, Item(t)) /\ faults' = faults
           \/ faults' = faults + 1
        /\ UNCHANGED <<ingested, buffer, batch, replayTodo, remaining, pc>>
    BY <1>12 DEF ItemFlushFails, RolledBackItem, AtItem, replay
  <2>2. ~Undisturbed'
    BY <1>0, <1>3, <2>1 DEF Undisturbed, Refused
  <2>3. faults' = faults \/ faults' = faults + 1
    BY <2>1
  <2> QED BY <1>3, <1>4, <2>1, <2>2, <2>3
<1>13. ASSUME NEW t \in Threads, ItemFlushed(t)
       PROVE  Seen' /\ Clean'
  <2>1. UNCHANGED <<ingested, buffer, dlq, faults, batch, poisoned, pc, replayTodo, remaining>>
    BY <1>13 DEF ItemFlushed, replay
  <2> QED BY <1>2, <1>5, <1>8, <2>1
<1>14. ASSUME NEW t \in Threads, CommitSucceeds(t)
       PROVE  Seen' /\ Clean'
  <2>1. FlushDone(t) /\ UNCHANGED <<ingested, buffer, dlq, faults, batch, poisoned>>
    BY <1>14 DEF CommitSucceeds
  <2> QED BY <1>2, <1>5, <1>7, <1>8, <2>1
<1>15. ASSUME NEW t \in Threads, CommitFails(t)
       PROVE  Seen' /\ Clean'
  <2>1. /\ UNCHANGED <<ingested, buffer, dlq, batch, replayTodo, remaining>>
        /\ \/ poisoned[t] /\ faults' = faults
           \/ faults' = faults + 1
    BY <1>15 DEF CommitFails, RollbackBatch, replay
  <2>2. faults' = faults \/ faults' = faults + 1
    BY <2>1
  <2>3. ~Undisturbed'
    BY <1>0, <1>2, <1>8, <2>1 DEF Undisturbed
  <2> QED BY <1>5, <2>1, <2>2, <2>3
<1>16. ASSUME NEW t \in Threads, QuarantineItem(t)
       PROVE  Seen' /\ Clean'
  <2>1. /\ pc[t] = "quarantine" /\ pos[t] <= Len(batch[t])
        /\ EnqueuePoisonPill(t, Item(t))
        /\ UNCHANGED <<ingested, buffer, faults, batch, replayTodo, remaining, pc>>
    BY <1>16 DEF QuarantineItem, replay
  <2>2. ~Undisturbed'
    BY <1>2, <1>8, <2>1
  <2> QED BY <1>3, <1>4, <2>1, <2>2
<1>17. ASSUME NEW t \in Threads, QuarantineDone(t)
       PROVE  Seen' /\ Clean'
  <2>1. FlushDone(t) /\ UNCHANGED <<ingested, buffer, dlq, faults, batch, poisoned>>
    BY <1>17 DEF QuarantineDone, shared, session
  <2> QED BY <1>2, <1>5, <1>7, <1>8, <2>1
<1>18. ASSUME NEW t \in Threads, ReplayStart(t)
       PROVE  Seen' /\ Clean'
  <2>1. /\ replayTodo' = RetryWindow(dlq, ReplayMax)
        /\ remaining' = BeyondWindow(dlq, ReplayMax)
        /\ UNCHANGED <<ingested, buffer, dlq, faults, batch, poisoned>>
        /\ \A u \in Threads : pc'[u] = "quarantine" => pc[u] = "quarantine"
    BY <1>0, <1>18 DEF ReplayStart, shared, session
  <2>2. /\ Elements(replayTodo)' \subseteq Elements(dlq)
        /\ Elements(remaining)' \subseteq Elements(dlq)
    BY <1>0, <2>1, WindowElements, IngestAssumption
  <2>3. Seen'
    BY <1>1, <2>1, <2>2 DEF Seen
  <2>4. Clean'
    BY <1>2, <1>8, <2>1, <2>2 DEF Clean
  <2> QED BY <2>3, <2>4
<1>19. ASSUME NEW t \in Threads, ReplayItem(t)
       PROVE  Seen' /\ Clean'
  <2>1. /\ replayTodo # <<>> /\ buffer' = Append(buffer, Head(replayTodo))
        /\ replayTodo' = Tail(replayTodo)
        /\ UNCHANGED <<ingested, dlq, faults, batch, poisoned, remaining>>
        /\ \A u \in Threads : pc'[u] = "quarantine" => pc[u] = "quarantine"
    BY <1>0, <1>19 DEF ReplayItem, session
  <2>2. Head(replayTodo) \in ingested /\ Elements(replayTodo)' \subseteq ingested
    BY <1>0, <1>1, <2>1, TailElements
  <2>3. Elements(buffer)' = Elements(buffer) \union {Head(replayTodo)}
    BY <1>0, <2>1, <2>2, AppendElements
  <2>4. Seen'
    BY <1>1, <2>1, <2>2, <2>3 DEF Seen
  <2>5. Clean'
    BY <1>2, <1>8, <2>1 DEF Clean
  <2> QED BY <2>4, <2>5
<1>20. ASSUME NEW t \in Threads, ReplayEnd(t)
       PROVE  Seen' /\ Clean'
  <2>1. /\ dlq' = remaining /\ remaining' = <<>>
        /\ UNCHANGED <<ingested, buffer, faults, batch, poisoned, replayTodo>>
        /\ \A u \in Threads : pc'[u] = "quarantine" => pc[u] = "quarantine"
    BY <1>0, <1>20 DEF ReplayEnd, SwapDlq, session
  <2>2. Elements(remaining)' = {}
    BY <2>1 DEF Elements
  <2>3. Seen'
    BY <1>1, <2>1, <2>2 DEF Seen
  <2>4. Clean'
    BY <1>2, <1>8, <2>1, <2>2 DEF Clean
  <2> QED BY <2>3, <2>4
<1>21. ASSUME NEW t \in Threads, PurgeDlq(t)
       PROVE  Seen' /\ Clean'
  <2>1. /\ dlq' = <<>>
        /\ UNCHANGED <<ingested, buffer, faults, pc, batch, poisoned, replayTodo, remaining>>
    BY <1>21 DEF PurgeDlq, session, replay
  <2>2. Elements(dlq)' = {}
    BY <2>1 DEF Elements
  <2>3. Seen'
    BY <1>1, <2>1, <2>2 DEF Seen
  <2>4. Clean'
    BY <1>2, <1>8, <2>1, <2>2 DEF Clean
  <2> QED BY <2>3, <2>4
<1> QED BY <1>6, <1>9, <1>10, <1>11, <1>12, <1>13, <1>14, <1>15, <1>16, <1>17, <1>18,
           <1>19, <1>20, <1>21 DEF Next, IngestNext, FlushStep, ReplayStep

\* Conversion errors are isolated, replays and purges included: as long as the
\* database has had no reason to refuse anything, only payloads whose
\* conversion raises reach the dead letter queue, for every value of the
\* constants.
THEOREM ConversionErrorsIsolated == Spec => []MalformedIsolated
<1>1. Init => Seen /\ Clean
  BY DEF Init, Seen, Clean, Elements
<1>2. TypeOK /\ Seen /\ Clean /\ [Next]_vars => Seen' /\ Clean'
  <2> SUFFICES ASSUME TypeOK, Seen, Clean, [Next]_vars
               PROVE  Seen' /\ Clean'
    OBVIOUS
  <2>1. CASE Next
    BY <2>1, CleanStep
  <2>2. CASE UNCHANGED vars
    BY <2>2 DEF vars, shared, session, replay, Seen, Clean, Undisturbed, Elements
  <2> QED BY <2>1, <2>2
<1>3. Clean => MalformedIsolated
  BY DEF Clean, Undisturbed, MalformedIsolated
<1> QED BY <1>1, <1>2, <1>3, TypeCorrect, PTL DEF Spec
=============================================================================
