--------------------------- MODULE EventBusProofs ---------------------------
(***************************************************************************)
(* What holds of the event bus (EventBus) for any threads, payloads,       *)
(* topics, handlers and groups: its types, OffsetNotAhead,                 *)
(* HandledOrQuarantined, and AtMostOnce where no topic of an event with an *)
(* id has a handler twice.                                                 *)
(***************************************************************************)
EXTENDS EventBus, FiniteSetTheorems, TLAPS

-----------------------------------------------------------------------------
(* Facts about sequences and the bounded deque *)

\* The head of a sequence and its tail hold what the sequence holds.
LEMMA HeadAndTail ==
  ASSUME NEW S, NEW q \in Seq(S), q # <<>>
  PROVE  /\ Head(q) \in S /\ Tail(q) \in Seq(S)
         /\ Elements(q) = {Head(q)} \union Elements(Tail(q))
<1>1. Tail(q) \in Seq(S) /\ Len(Tail(q)) = Len(q) - 1 /\ Head(q) = q[1]
        /\ \A i \in 1 .. Len(q) - 1 : Tail(q)[i] = q[i + 1]
  OBVIOUS
<1>2. Len(q) \in Nat /\ Len(q) # 0 /\ Head(q) \in S
  OBVIOUS
<1>3. ASSUME NEW i \in 1 .. Len(q)
      PROVE  q[i] \in {Head(q)} \union Elements(Tail(q))
  <2>1. CASE i = 1
    BY <1>1, <2>1
  <2>2. CASE i # 1
    <3>1. i - 1 \in 1 .. Len(Tail(q)) /\ Tail(q)[i - 1] = q[i]
      BY <1>1, <1>2, <2>2
    <3> QED BY <3>1 DEF Elements
  <2> QED BY <2>1, <2>2
<1>4. ASSUME NEW i \in 1 .. Len(Tail(q))
      PROVE  Tail(q)[i] \in Elements(q)
  <2>1. i + 1 \in 1 .. Len(q) /\ Tail(q)[i] = q[i + 1]
    BY <1>1, <1>2
  <2> QED BY <2>1 DEF Elements
<1>5. Head(q) \in Elements(q)
  BY <1>1, <1>2 DEF Elements
<1> QED BY <1>1, <1>2, <1>3, <1>4, <1>5 DEF Elements

\* What a sequence holds is of its type.
LEMMA ElementsType ==
  ASSUME NEW S, NEW q \in Seq(S)
  PROVE  Elements(q) \subseteq S
BY DEF Elements

\* Appending to the bounded deque keeps its type and its bound.
LEMMA PushType ==
  ASSUME NEW S, NEW q \in Seq(S), NEW x \in S, Len(q) <= DlqMax
  PROVE  Push(q, x) \in Seq(S) /\ Len(Push(q, x)) <= DlqMax
<1> USE DlqMaxAssumption
<1>1. CASE Len(q) < DlqMax
  BY <1>1 DEF Push
<1>2. CASE Len(q) >= DlqMax
  <2>1. q # <<>> /\ Tail(q) \in Seq(S) /\ Len(Tail(q)) = Len(q) - 1
    BY <1>2
  <2> QED BY <1>2, <2>1 DEF Push
<1> QED BY <1>1, <1>2

\* After the append the new element is there, and every old one is still
\* there or is the one displaced.
LEMMA PushElements ==
  ASSUME NEW S, NEW q \in Seq(S), NEW x \in S
  PROVE  /\ x \in Elements(Push(q, x))
         /\ Elements(q) \subseteq Elements(Push(q, x)) \union Displaced(q)
<1> USE DlqMaxAssumption
<1>1. CASE Len(q) < DlqMax
  <2>1. Push(q, x) = Append(q, x) /\ Len(Append(q, x)) = Len(q) + 1
    BY <1>1 DEF Push
  <2>2. /\ Append(q, x)[Len(q) + 1] = x
        /\ \A i \in 1 .. Len(q) : Append(q, x)[i] = q[i]
    OBVIOUS
  <2> QED BY <2>1, <2>2 DEF Elements
<1>2. CASE ~(Len(q) < DlqMax)
  <2> DEFINE r == Tail(q)
  <2>1. q # <<>> /\ r \in Seq(S) /\ Len(r) = Len(q) - 1
    BY <1>2
  <2>2. Push(q, x) = Append(r, x) /\ Len(Append(r, x)) = Len(q)
    BY <1>2, <2>1 DEF Push
  <2>3. Append(r, x)[Len(q)] = x
    BY <2>1
  <2>4. \A i \in 1 .. Len(q) : i = 1 \/ q[i] = Append(r, x)[i - 1]
    BY <2>1
  <2>5. x \in Elements(Push(q, x))
    <3>1. Len(q) \in 1 .. Len(Push(q, x)) /\ Push(q, x)[Len(q)] = x
      BY <1>2, <2>2, <2>3
    <3> QED BY <3>1 DEF Elements
  <2>6. ASSUME NEW i \in 1 .. Len(q)
        PROVE  q[i] \in Elements(Push(q, x)) \union Displaced(q)
    <3>1. CASE i = 1
      BY <1>2, <2>1, <3>1 DEF Displaced
    <3>2. CASE i # 1
      <4>1. i - 1 \in 1 .. Len(Push(q, x)) /\ q[i] = Push(q, x)[i - 1]
        BY <2>2, <2>4, <3>2
      <4> QED BY <4>1 DEF Elements
    <3> QED BY <3>1, <3>2
  <2> QED BY <2>5, <2>6 DEF Elements
<1> QED BY <1>1, <1>2

-----------------------------------------------------------------------------
(* Type correctness *)

\* The pills of a replay were in the queue together; the one in hand is the first of
\* those left.
Replaying ==
  /\ dlqHolder # NoThread => Len(replayTodo) + Len(remaining) <= DlqMax
  /\ \A t \in Threads :
       /\ pc[t] = "replay" => dlqHolder = t
       /\ dlqHolder = t /\ pc[t] # "replay" => replayTodo # <<>>

\* A group that has handled a payload has its offset read.
TypeInv ==
  /\ TypeOK /\ Replaying
  /\ \A t \in Threads : pc[t] = "commit" => read[t] \in Groups \X Nat

\* A handler subscribes to each topic some number of times.
LEMMA SubscribeType ==
  ASSUME TypeOK, NEW h \in Handlers, NEW tp \in Topics, Subscribe(h, tp)
  PROVE  subscribers' \in [Topics -> Seq(Handlers)]
<1> DEFINE appends(x) == (IF x = tp THEN 1 ELSE 0)
                           + Cardinality({i \in DOMAIN Aliases[tp] : Aliases[tp][i] = x})
<1>1. ASSUME NEW x \in Topics
      PROVE  appends(x) \in Nat
  <2>1. Aliases[tp] \in Seq(Topics)
    BY BusAssumption
  <2>2. DOMAIN Aliases[tp] = 1 .. Len(Aliases[tp]) /\ Len(Aliases[tp]) \in Nat
    BY <2>1
  <2>3. IsFiniteSet(1 .. Len(Aliases[tp]))
    <3>1. \A n \in Nat : IsFiniteSet(1 .. n)
      BY FS_Interval
    <3> QED BY <2>2, <3>1
  <2>4. IsFiniteSet({i \in DOMAIN Aliases[tp] : Aliases[tp][i] = x})
    BY <2>2, <2>3, FS_Subset
  <2>5. Cardinality({i \in DOMAIN Aliases[tp] : Aliases[tp][i] = x}) \in Nat
    BY <2>4, FS_CardinalityType
  <2> QED BY <2>5
<1>2. subscribers' = [x \in Topics |-> subscribers[x] \o [i \in 1 .. appends(x) |-> h]]
  BY DEF Subscribe
<1> HIDE DEF appends
<1>3. \A x \in Topics : subscribers[x] \o [i \in 1 .. appends(x) |-> h] \in Seq(Handlers)
  <2> TAKE x \in Topics
  <2> PICK n \in {appends(x)} : TRUE
    OBVIOUS
  <2>1. n \in Nat
    BY <1>1
  <2>2. [i \in 1 .. n |-> h] \in Seq(Handlers)
    BY <2>1
  <2>3. subscribers[x] \in Seq(Handlers)
    BY DEF TypeOK
  <2> QED BY <2>2, <2>3
<1> QED BY <1>2, <1>3

\* A pill that is quarantined keeps the dead letter queue and its history typed.
LEMMA QuarantineType ==
  ASSUME TypeOK, NEW t \in Threads, NEW c \in Consumers, Quarantine(t, c)
  PROVE  /\ dlq' \in Seq(Pills) /\ Len(dlq') <= DlqMax /\ evicted' \subseteq Pills
         /\ Elements(dlq) \union evicted \subseteq Elements(dlq') \union evicted'
         /\ [payload |-> payload[t], by |-> c] \in Elements(dlq')
<1> PICK pill \in {[payload |-> payload[t], by |-> c]} : TRUE
  OBVIOUS
<1>1. pill \in Pills /\ dlq \in Seq(Pills) /\ Len(dlq) <= DlqMax
  BY DEF Pills, TypeOK
<1>2. dlq' = Push(dlq, pill) /\ evicted' = evicted \union Displaced(dlq)
  BY DEF Quarantine
<1>3. Displaced(dlq) \subseteq Pills
  <2>1. CASE Len(dlq) < DlqMax
    BY <2>1 DEF Displaced
  <2>2. CASE ~(Len(dlq) < DlqMax)
    <3>1. dlq # <<>>
      BY <2>2, DlqMaxAssumption
    <3> QED BY <1>1, <2>2, <3>1 DEF Displaced
  <2> QED BY <2>1, <2>2
<1>4. Push(dlq, pill) \in Seq(Pills) /\ Len(Push(dlq, pill)) <= DlqMax
  BY <1>1, PushType
<1>5. /\ pill \in Elements(Push(dlq, pill))
      /\ Elements(dlq) \subseteq Elements(Push(dlq, pill)) \union Displaced(dlq)
  BY <1>1, PushElements
<1>6. Elements(dlq) \union evicted \subseteq Elements(dlq') \union evicted'
  BY <1>2, <1>5
<1>7. evicted' \subseteq Pills
  BY <1>2, <1>3 DEF TypeOK
<1> QED BY <1>2, <1>4, <1>5, <1>6, <1>7

\* The ids that are recorded keep their types through a purge and an acceptance.
LEMMA SeenType ==
  ASSUME TypeOK, NEW t \in Threads, NEW ids \in AfterPurge(t)
  PROVE  /\ DOMAIN ids \subseteq Keyed
         /\ \A p \in DOMAIN ids : ids[p] \in 0 .. MaxTime
BY DEF TypeOK, AfterPurge, Expired, Restrict

\* A counter of one of the places of a table is set or goes up.
LEMMA TableType ==
  ASSUME NEW R, NEW C, NEW f \in [R -> [C -> Nat]], NEW r \in R, NEW c \in C, NEW n \in Nat
  PROVE  /\ [f EXCEPT ![r][c] = n] \in [R -> [C -> Nat]]
         /\ [f EXCEPT ![r][c] = @ + 1] \in [R -> [C -> Nat]]
<1>1. f[r] \in [C -> Nat] /\ f[r][c] + 1 \in Nat
  OBVIOUS
<1>2. [f[r] EXCEPT ![c] = n] \in [C -> Nat] /\ [f[r] EXCEPT ![c] = @ + 1] \in [C -> Nat]
  BY <1>1
<1> QED BY <1>1, <1>2

\* The replay goes on to its next item.
LEMMA GoesOn ==
  ASSUME TypeInv, NEW t \in Threads, pc[t] # "replay",
         replayTodo' = IF dlqHolder = t THEN Tail(replayTodo) ELSE replayTodo
  PROVE  /\ replayTodo' \in Seq(Pills)
         /\ dlqHolder = t => Len(replayTodo') = Len(replayTodo) - 1
         /\ dlqHolder # t => replayTodo' = replayTodo
<1>1. replayTodo \in Seq(Pills) /\ (dlqHolder = t => replayTodo # <<>>)
  BY DEF TypeInv, TypeOK, Replaying
<1>2. CASE dlqHolder = t
  BY <1>1, <1>2
<1>3. CASE dlqHolder # t
  BY <1>1, <1>3
<1> QED BY <1>2, <1>3

\* When publish returns or raises in a replay, the replay is at its loop again.
LEMMA BackInTheLoop ==
  ASSUME TypeInv, NEW t \in Threads, pc[t] # "replay", Return(t), dlqHolder' = dlqHolder,
         remaining' \in Seq(Pills),
         dlqHolder = t => Len(remaining') <= Len(remaining) + 1,
         dlqHolder # t => remaining' = remaining
  PROVE  /\ replayTodo' \in Seq(Pills) /\ Replaying'
         /\ pc' \in [Threads -> {"idle", "check", "record", "buffer", "call", "commit",
                                "replay"}]
         /\ \A u \in Threads : pc'[u] = "commit" => pc[u] = "commit"
<1>1. /\ replayTodo \in Seq(Pills) /\ replayTodo' \in Seq(Pills)
      /\ dlqHolder = t => Len(replayTodo') = Len(replayTodo) - 1
      /\ dlqHolder # t => replayTodo' = replayTodo
  BY GoesOn DEF Return, TypeInv, TypeOK
<1>2. /\ pc' \in [Threads -> {"idle", "check", "record", "buffer", "call", "commit",
                              "replay"}]
      /\ pc'[t] = (IF dlqHolder = t THEN "replay" ELSE "idle")
      /\ \A u \in Threads \ {t} : pc'[u] = pc[u]
  BY DEF Return, TypeInv, TypeOK
<1>3. /\ Len(replayTodo) \in Nat /\ Len(replayTodo') \in Nat
      /\ Len(remaining) \in Nat /\ Len(remaining') \in Nat
  BY <1>1 DEF TypeInv, TypeOK
<1>4. DlqMax \in Nat
  BY DlqMaxAssumption
<1> QED BY <1>1, <1>2, <1>3, <1>4 DEF TypeInv, Replaying

\* One step preserves the types.
LEMMA TypeStep == TypeInv /\ [Next]_vars => TypeInv'
<1> SUFFICES ASSUME TypeInv, [Next]_vars
             PROVE  TypeInv'
  OBVIOUS
<1> USE BusAssumption DEF TypeInv, TypeOK, Replaying
<1>1. ASSUME NEW t \in Threads, NEW p \in Payloads, Publish(t, p)
      PROVE  TypeInv'
  <2>1. publishes' \in 0 .. MaxPublishes
    BY <1>1 DEF Publish
  <2> QED BY <1>1, <2>1 DEF Publish, Enter, bus, replay
<1>2. ASSUME NEW t \in Threads, IgnoreDuplicate(t)
      PROVE  TypeInv'
  <2>1. DOMAIN seen' \subseteq Keyed /\ \A p \in DOMAIN seen' : seen'[p] \in 0 .. MaxTime
    BY <1>2, SeenType DEF IgnoreDuplicate
  <2>2. /\ replayTodo' \in Seq(Pills) /\ Replaying'
        /\ pc' \in [Threads -> {"idle", "check", "record", "buffer", "call", "commit",
                               "replay"}]
        /\ \A u \in Threads : pc'[u] = "commit" => pc[u] = "commit"
    <3>1. pc[t] # "replay" /\ Return(t) /\ UNCHANGED <<dlqHolder, remaining>>
      BY <1>2 DEF IgnoreDuplicate
    <3>2. remaining \in Seq(Pills) /\ Len(remaining) <= Len(remaining) + 1
      OBVIOUS
    <3> HIDE DEF TypeInv, TypeOK, Replaying
    <3> QED BY <3>1, <3>2, BackInTheLoop
  <2> HIDE DEF Replaying
  <2> QED BY <1>2, <2>1, <2>2 DEF IgnoreDuplicate, local, history
<1>a. ASSUME NEW t \in Threads, PublishRaises(t)
      PROVE  TypeInv'
  <2>2. /\ remaining' \in Seq(Pills)
        /\ dlqHolder = t => Len(remaining') = Len(remaining) + 1
        /\ dlqHolder # t => remaining' = remaining
    <3>1. CASE dlqHolder = t
      <4>1. Head(replayTodo) \in Pills
        BY <1>a, <3>1, HeadAndTail DEF PublishRaises
      <4> QED BY <1>a, <3>1, <4>1 DEF PublishRaises
    <3>2. CASE dlqHolder # t
      BY <1>a, <3>2 DEF PublishRaises
    <3> QED BY <3>1, <3>2
  <2>3. pc[t] # "replay" /\ Return(t) /\ dlqHolder' = dlqHolder
    BY <1>a DEF PublishRaises
  <2>4. dlqHolder = t => Len(remaining') <= Len(remaining) + 1
    BY <2>2
  <2> HIDE DEF TypeInv, Replaying
  <2>5. /\ replayTodo' \in Seq(Pills) /\ Replaying'
        /\ pc' \in [Threads -> {"idle", "check", "record", "buffer", "call", "commit",
                               "replay"}]
        /\ \A u \in Threads : pc'[u] = "commit" => pc[u] = "commit"
    BY <2>2, <2>3, <2>4, BackInTheLoop
  <2> QED BY <1>a, <2>2, <2>5 DEF PublishRaises, bus, local, history, TypeInv
<1>3. ASSUME NEW t \in Threads, Accept(t)
      PROVE  TypeInv'
  <2>1. /\ DOMAIN seen' \subseteq Keyed
        /\ \A p \in DOMAIN seen' : seen'[p] \in 0 .. MaxTime
    <3>1. PICK ids \in AfterPurge(t) :
            seen' = IF payload[t] \in Keyed THEN Put(ids, payload[t], clock[t]) ELSE ids
      BY <1>3 DEF Accept
    <3>2. /\ DOMAIN ids \subseteq Keyed
          /\ \A p \in DOMAIN ids : ids[p] \in 0 .. MaxTime
      BY SeenType
    <3> QED BY <3>1, <3>2 DEF Put
  <2> QED BY <1>3, <2>1 DEF Accept, replay, local
<1>4. ASSUME NEW t \in Threads, Record(t)
      PROVE  TypeInv'
  <2>1. Topic(t) \in Topics /\ subscribers[Topic(t)] \in Seq(Handlers)
          /\ GroupsOf[Topic(t)] \in SUBSET Groups
    BY DEF Topic
  <2>2. Elements(subscribers[Topic(t)]) \subseteq Handlers
    BY <2>1, ElementsType
  <2>3. owed' \in [Payloads -> SUBSET Consumers]
    BY <1>4, <2>1, <2>2 DEF Record, Consumers
  <2>4. 1 \in 1 .. MaxAttempts
    BY DEF MaxAttempts
  <2> QED BY <1>4, <2>1, <2>3, <2>4 DEF Record, bus, replay
<1>5. ASSUME NEW c \in Consumers, NEW p \in Payloads, Delivered(c, p)
      PROVE  delivered' \in [Consumers -> [Payloads -> Nat]]
  <2>1. delivered \in [Consumers -> [Payloads -> Nat]]
    OBVIOUS
  <2> QED BY ONLY <1>5, <2>1, TableType DEF Delivered
<1>6. ASSUME NEW t \in Threads, HandOver(t)
      PROVE  TypeInv'
  <2>1. MicroBatch \in Consumers /\ payload[t] \in Payloads
    BY DEF Consumers
  <2>2. delivered' \in [Consumers -> [Payloads -> Nat]]
    BY <1>5, <1>6, <2>1 DEF HandOver
  <2>3. dlq' \in Seq(Pills) /\ Len(dlq') <= DlqMax /\ evicted' \subseteq Pills
    BY <1>6, <2>1, QuarantineType DEF HandOver
  <2> QED BY <1>6, <2>2, <2>3 DEF HandOver, bus, replay, local
<1>7. ASSUME NEW t \in Threads, todo[t] # <<>>
      PROVE  Head(todo[t]) \in Handlers /\ Tail(todo[t]) \in Seq(Handlers)
             /\ Head(todo[t]) \in Consumers
  BY <1>7, HeadAndTail DEF Consumers
<1>8. ASSUME NEW t \in Threads, todo[t] # <<>>, NextHandler(t)
      PROVE  todo' \in [Threads -> Seq(Handlers)] /\ attempt' \in [Threads -> 1 .. MaxAttempts]
  BY <1>7, <1>8 DEF NextHandler, MaxAttempts
<1>9. ASSUME NEW t \in Threads, HandlerReturns(t)
      PROVE  TypeInv'
  <2>1. delivered' \in [Consumers -> [Payloads -> Nat]]
    BY <1>5, <1>7, <1>9 DEF HandlerReturns
  <2> QED BY <1>8, <1>9, <2>1 DEF HandlerReturns, bus, replay
<1>10. ASSUME NEW t \in Threads, HandlerRaises(t)
       PROVE  TypeInv'
  <2>1. AtHandler(t)
    BY <1>10 DEF HandlerRaises
  <2>2. CASE attempt[t] < MaxAttempts /\ RetryHandler(t)
    <3>1. attempt[t] + 1 \in 1 .. MaxAttempts
      <4>1. attempt[t] \in 1 .. MaxAttempts /\ attempt[t] < MaxAttempts
        BY <2>2
      <4> QED BY <4>1 DEF MaxAttempts
    <3>2. attempt' \in [Threads -> 1 .. MaxAttempts]
      BY <2>2, <3>1 DEF RetryHandler
    <3> QED BY <2>1, <2>2, <3>2 DEF AtHandler, RetryHandler, bus, replay, history
  <2>3. CASE GiveUpHandler(t)
    <3>1. dlq' \in Seq(Pills) /\ Len(dlq') <= DlqMax /\ evicted' \subseteq Pills
      BY <1>7, <2>1, <2>3, QuarantineType DEF GiveUpHandler, AtHandler
    <3>2. todo' \in [Threads -> Seq(Handlers)] /\ attempt' \in [Threads -> 1 .. MaxAttempts]
      BY <1>8, <2>1, <2>3 DEF GiveUpHandler, AtHandler
    <3> QED BY <2>1, <3>1, <3>2 DEF AtHandler, bus, replay, history
  <2> QED BY <1>10, <2>2, <2>3 DEF HandlerRaises
<1>11. ASSUME NEW t \in Threads, NEW g \in Groups, GroupReturns(t, g)
       PROVE  TypeInv'
  <2>1. g \in Consumers /\ Topic(t) \in Topics /\ offsets[g][Topic(t)] \in Nat
    BY DEF Consumers, Topic
  <2>2. delivered' \in [Consumers -> [Payloads -> Nat]]
    BY <1>5, <1>11, <2>1 DEF GroupReturns
  <2>3. handled' \in [Groups -> [Topics -> Nat]]
    <3>1. handled' = [handled EXCEPT ![g][Topic(t)] = @ + 1]
      BY <1>11 DEF GroupReturns
    <3> HIDE DEF TypeInv, TypeOK
    <3> QED BY <2>1, <3>1, TableType DEF TypeInv, TypeOK
  <2> QED BY <1>11, <2>1, <2>2, <2>3 DEF GroupReturns, bus, replay
<1>12. ASSUME NEW t \in Threads, CommitOffset(t)
       PROVE  TypeInv'
  <2>1. read[t] \in Groups \X Nat /\ Topic(t) \in Topics
    BY <1>12 DEF CommitOffset, Topic
  <2>2. offsets' \in [Groups -> [Topics -> Nat]]
    <3>1. offsets' = [offsets EXCEPT ![read[t][1]][Topic(t)] = read[t][2] + 1]
      BY <1>12 DEF CommitOffset
    <3> HIDE DEF TypeInv, TypeOK
    <3>2. read[t][1] \in Groups /\ read[t][2] + 1 \in Nat
      BY <2>1
    <3>3. offsets \in [Groups -> [Topics -> Nat]]
      BY DEF TypeInv, TypeOK
    <3>4. [offsets EXCEPT ![read[t][1]][Topic(t)] = read[t][2] + 1]
            \in [Groups -> [Topics -> Nat]]
      BY <2>1, <3>2, <3>3, TableType
    <3> QED BY <3>1, <3>4
  <2> QED BY <1>12, <2>2 DEF CommitOffset, replay, history
<1>13. ASSUME NEW t \in Threads, NEW g \in Groups, GroupRaises(t, g)
       PROVE  TypeInv'
  <2>1. Quarantine(t, g) /\ g \in Consumers
    BY <1>13 DEF GroupRaises, GroupFails, Consumers
  <2>2. dlq' \in Seq(Pills) /\ Len(dlq') <= DlqMax /\ evicted' \subseteq Pills
    BY <2>1, QuarantineType
  <2> QED BY <1>13, <2>2 DEF GroupRaises, GroupFails, replay, history
<1>14. ASSUME NEW t \in Threads, PublishReturns(t)
       PROVE  TypeInv'
  <2>2. /\ replayTodo' \in Seq(Pills) /\ Replaying'
        /\ pc' \in [Threads -> {"idle", "check", "record", "buffer", "call", "commit",
                               "replay"}]
        /\ \A u \in Threads : pc'[u] = "commit" => pc[u] = "commit"
    <3>1. pc[t] # "replay" /\ Return(t) /\ UNCHANGED <<dlqHolder, remaining>>
      BY <1>14 DEF PublishReturns
    <3>2. remaining \in Seq(Pills) /\ Len(remaining) <= Len(remaining) + 1
      OBVIOUS
    <3> HIDE DEF TypeInv, TypeOK, Replaying
    <3> QED BY <3>1, <3>2, BackInTheLoop
  <2> HIDE DEF Replaying
  <2> QED BY <1>14, <2>2 DEF PublishReturns, bus, local, history
<1>15. ASSUME NEW t \in Threads, ReplayStart(t)
       PROVE  TypeInv'
  <2>1. replays' \in 0 .. MaxReplays
    BY <1>15 DEF ReplayStart
  <2>2. pc'[t] = "replay" /\ \A u \in Threads \ {t} : pc'[u] = pc[u]
    BY <1>15 DEF ReplayStart
  <2>3. Replaying'
    <3>1. dlqHolder' = t /\ dlqHolder = NoThread /\ replayTodo' = dlq /\ remaining' = <<>>
      BY <1>15 DEF ReplayStart
    <3>2. Len(dlq) \in Nat /\ Len(dlq) <= DlqMax /\ Len(<<>>) = 0 /\ DlqMax \in Nat
      BY DlqMaxAssumption
    <3>3. Len(replayTodo') + Len(remaining') <= DlqMax
      BY <3>1, <3>2
    <3> QED BY <2>2, <3>1, <3>3
  <2> HIDE DEF Replaying
  <2>4. replayTodo' \in Seq(Pills) /\ remaining' \in Seq(Pills) /\ dlqHolder' \in Threads
    BY <1>15 DEF ReplayStart
  <2>5. /\ UNCHANGED <<now, bus, dlq, evicted, local, history>>
        /\ pc' = [pc EXCEPT ![t] = "replay"]
    BY <1>15 DEF ReplayStart
  <2> QED BY <2>1, <2>2, <2>3, <2>4, <2>5 DEF bus, local, history
<1>16. ASSUME NEW t \in Threads, ReplayItem(t)
       PROVE  TypeInv'
  <2>1. Head(replayTodo) \in Pills /\ Tail(replayTodo) \in Seq(Pills)
    BY <1>16, HeadAndTail DEF ReplayItem
  <2>2. Head(replayTodo).payload \in Payloads /\ MicroBatch \in Consumers
    BY <2>1 DEF Pills, Consumers
  <2>3. CASE /\ Delivered(MicroBatch, Head(replayTodo).payload)
             /\ replayTodo' = Tail(replayTodo) /\ UNCHANGED <<pc, clock, payload>>
    <3>1. delivered' \in [Consumers -> [Payloads -> Nat]]
      BY <1>5, <2>2, <2>3
    <3>2. pc[t] = "replay" /\ replayTodo # <<>> /\ UNCHANGED <<dlqHolder, remaining>>
      BY <1>16 DEF ReplayItem
    <3>3. Replaying'
      <4>1. /\ Len(replayTodo') = Len(replayTodo) - 1 /\ Len(replayTodo) \in Nat
            /\ Len(remaining) \in Nat /\ DlqMax \in Nat /\ dlqHolder = t
        BY <2>3, <3>2, DlqMaxAssumption
      <4>2. Len(replayTodo) + Len(remaining) <= DlqMax
        BY <4>1
      <4>3. Len(replayTodo') + Len(remaining') <= DlqMax
        BY <3>2, <4>1, <4>2
      <4>4. pc'[t] = "replay" /\ dlqHolder' = t
        BY <2>3, <3>2, <4>1
      <4>5. \A u \in Threads \ {t} : pc'[u] = pc[u] /\ pc[u] # "replay"
        BY <2>3, <3>2, <4>1
      <4> QED BY <4>3, <4>4, <4>5
    <3> HIDE DEF Replaying
    <3> QED BY <1>16, <2>1, <2>3, <3>1, <3>3 DEF ReplayItem, bus
  <2>4. CASE Enter(t, Head(replayTodo).payload) /\ UNCHANGED <<delivered, replayTodo>>
    BY <1>16, <2>1, <2>2, <2>4 DEF ReplayItem, Enter, bus
  <2> QED BY <1>16, <2>3, <2>4 DEF ReplayItem
<1>17. ASSUME NEW t \in Threads, ReplayEnd(t)
       PROVE  TypeInv'
  <2>1. dlqHolder = t /\ NoThread \notin Threads
    BY <1>17 DEF ReplayEnd
  <2>2. Len(remaining) <= DlqMax
    <3>1. Len(remaining) \in Nat /\ Len(replayTodo) \in Nat
      OBVIOUS
    <3> QED BY <2>1, <3>1, DlqMaxAssumption
  <2> QED BY <1>17, <2>1, <2>2 DEF ReplayEnd, bus, local, history
<1>18. ASSUME NEW h \in Handlers, NEW tp \in Topics, Subscribe(h, tp)
       PROVE  TypeInv'
  <2>1. subscribers' \in [Topics -> Seq(Handlers)]
    BY <1>18, SubscribeType
  <2>2. subscriptions' \in 0 .. MaxSubscriptions
    BY <1>18 DEF Subscribe
  <2> QED BY <1>18, <2>1, <2>2 DEF Subscribe, replay, local
<1>19. CASE Tick
  BY <1>19 DEF Tick, bus, replay, local, history
<1>20. CASE UNCHANGED vars
  BY <1>20 DEF vars, bus, replay, local, history
<1> QED BY <1>1, <1>2, <1>a, <1>3, <1>4, <1>6, <1>9, <1>10, <1>11, <1>12, <1>13, <1>14,
           <1>15, <1>16, <1>17, <1>18, <1>19, <1>20 DEF Next, Step

\* The bus is empty at first.
LEMMA TypeInit == Init => TypeInv
<1> SUFFICES ASSUME Init PROVE TypeInv
  OBVIOUS
<1>1. TypeOK
  BY BusAssumption, DlqMaxAssumption DEF Init, TypeOK, EmptyMap, Consumers, MaxAttempts
<1>2. Replaying
  BY BusAssumption DEF Init, Replaying
<1> QED BY <1>1, <1>2 DEF Init, TypeInv

\* Every variable keeps its type, whoever publishes, subscribes and replays.
THEOREM TypeCorrect == Spec => []TypeOK
<1>1. TypeInv => TypeOK
  BY DEF TypeInv
<1> QED BY <1>1, TypeInit, TypeStep, PTL DEF Spec

-----------------------------------------------------------------------------
(* Offsets.  A group's offset is read after its handler has returned, and   *)
(* two threads may read the same one; what is then committed is still no    *)
(* more than what had been handled when it was read.                        *)

OffsetInv ==
  /\ TypeInv /\ OffsetNotAhead
  /\ \A t \in Threads :
       pc[t] = "commit" => read[t][2] < handled[read[t][1]][Topic(t)]

\* Nothing moves that OffsetInv speaks of.
NoCommit ==
  /\ UNCHANGED <<offsets, handled>>
  /\ \A t \in Threads : pc'[t] = "commit" =>
       pc[t] = "commit" /\ read'[t] = read[t] /\ payload'[t] = payload[t]

\* No step commits an offset ahead of the events handled.
LEMMA OffsetStep == OffsetInv /\ [Next]_vars => OffsetInv'
<1> SUFFICES ASSUME OffsetInv, [Next]_vars
             PROVE  OffsetInv'
  OBVIOUS
<1>1. TypeInv /\ TypeInv'
  BY TypeStep DEF OffsetInv
<1>2. CASE NoCommit
  BY <1>1, <1>2 DEF NoCommit, OffsetInv, OffsetNotAhead, Topic
<1>3. ASSUME NEW t \in Threads, NEW g \in Groups, GroupReturns(t, g)
      PROVE  OffsetInv'
  <2>1. Topic(t) \in Topics /\ Topic(t)' = Topic(t)
    BY <1>1, <1>3, BusAssumption DEF Topic, TypeInv, TypeOK, GroupReturns
  <2>2. handled \in [Groups -> [Topics -> Nat]] /\ offsets \in [Groups -> [Topics -> Nat]]
    BY <1>1 DEF TypeInv, TypeOK
  <2>3. handled' = [handled EXCEPT ![g][Topic(t)] = @ + 1] /\ offsets' = offsets
    BY <1>3 DEF GroupReturns, bus
  <2>4. \A h \in Groups, tp \in Topics : handled[h][tp] <= handled'[h][tp]
    BY <2>1, <2>2, <2>3
  <2>5. handled'[g][Topic(t)] = handled[g][Topic(t)] + 1
    BY <2>1, <2>2, <2>3
  <2>6. OffsetNotAhead'
    <3>1. OffsetNotAhead
      BY DEF OffsetInv
    <3>2. handled' \in [Groups -> [Topics -> Nat]]
      BY <1>1 DEF TypeInv, TypeOK
    <3> QED BY <2>2, <2>3, <2>4, <3>1, <3>2 DEF OffsetNotAhead
  <2>7. ASSUME NEW u \in Threads, pc'[u] = "commit"
        PROVE  read'[u][2] < handled'[read'[u][1]][Topic(u)']
    <3>1. CASE u = t
      <4>1. read'[t] = <<g, offsets[g][Topic(t)]>>
        BY <1>1, <1>3 DEF GroupReturns, TypeInv, TypeOK
      <4>2. offsets[g][Topic(t)] <= handled[g][Topic(t)]
        BY <2>1 DEF OffsetInv, OffsetNotAhead
      <4>3. offsets[g][Topic(t)] \in Nat /\ handled[g][Topic(t)] \in Nat
        BY <2>1, <2>2
      <4> QED BY <2>1, <2>5, <3>1, <4>1, <4>2, <4>3
    <3>2. CASE u # t
      <4>1. pc[u] = "commit" /\ read'[u] = read[u] /\ Topic(u)' = Topic(u)
        BY <1>1, <1>3, <2>7, <3>2 DEF GroupReturns, TypeInv, TypeOK, Topic
      <4>2. read[u] \in Groups \X Nat /\ Topic(u) \in Topics
        BY <1>1, <4>1, BusAssumption DEF TypeInv, TypeOK, Topic
      <4>3. read[u][2] < handled[read[u][1]][Topic(u)]
        BY <4>1 DEF OffsetInv
      <4>4. handled[read[u][1]][Topic(u)] <= handled'[read[u][1]][Topic(u)]
        BY <2>4, <4>2
      <4>5. /\ handled[read[u][1]][Topic(u)] \in Nat /\ read[u][2] \in Nat
            /\ handled'[read[u][1]][Topic(u)] \in Nat
        BY <1>1, <2>2, <4>2 DEF TypeInv, TypeOK
      <4> QED BY <4>1, <4>3, <4>4, <4>5
    <3> QED BY <3>1, <3>2
  <2> QED BY <1>1, <2>6, <2>7 DEF OffsetInv
<1>4. ASSUME NEW t \in Threads, CommitOffset(t)
      PROVE  OffsetInv'
  <2> DEFINE g == read[t][1]
             n == read[t][2]
  <2>1. g \in Groups /\ n \in Nat /\ Topic(t) \in Topics /\ n < handled[g][Topic(t)]
    BY <1>1, <1>4, BusAssumption DEF CommitOffset, Topic, TypeInv, TypeOK, OffsetInv
  <2>2. /\ offsets' = [offsets EXCEPT ![g][Topic(t)] = n + 1]
        /\ UNCHANGED <<handled, payload>>
    BY <1>4 DEF CommitOffset, history
  <2>3. offsets \in [Groups -> [Topics -> Nat]] /\ handled \in [Groups -> [Topics -> Nat]]
    BY <1>1 DEF TypeInv, TypeOK
  <2>4. n + 1 <= handled[g][Topic(t)]
    BY <2>1, <2>3
  <2>5. \A h \in Groups, tp \in Topics :
          offsets'[h][tp] = IF h = g /\ tp = Topic(t) THEN n + 1 ELSE offsets[h][tp]
    BY <2>1, <2>2, <2>3
  <2>6. OffsetNotAhead'
    BY <2>2, <2>4, <2>5 DEF OffsetInv, OffsetNotAhead
  <2>7. \A u \in Threads : pc'[u] = "commit" => pc[u] = "commit" /\ read'[u] = read[u]
    BY <1>1, <1>4 DEF CommitOffset, TypeInv, TypeOK
  <2> QED BY <1>1, <2>2, <2>6, <2>7 DEF OffsetInv, Topic
<1>5. NoCommit \/ \E t \in Threads : CommitOffset(t) \/ \E g \in Groups : GroupReturns(t, g)
  <2> USE DEF NoCommit
  <2>1. ASSUME NEW t \in Threads, NEW p \in Payloads, Publish(t, p)
        PROVE  NoCommit
    BY <1>1, <2>1 DEF Publish, Enter, bus, TypeInv, TypeOK
  <2>2. ASSUME NEW t \in Threads, IgnoreDuplicate(t) \/ PublishRaises(t) \/ PublishReturns(t)
        PROVE  NoCommit
    BY <1>1, <2>2 DEF IgnoreDuplicate, PublishRaises, PublishReturns, Return, bus, history, local, TypeInv,
                      TypeOK
  <2>3. ASSUME NEW t \in Threads, Accept(t) \/ Record(t) \/ HandOver(t)
        PROVE  NoCommit
    BY <1>1, <2>3 DEF Accept, Record, HandOver, bus, local, TypeInv, TypeOK
  <2>4. ASSUME NEW t \in Threads, HandlerReturns(t) \/ HandlerRaises(t)
        PROVE  NoCommit
    BY <1>1, <2>4 DEF HandlerReturns, HandlerRaises, AtHandler, bus, history
  <2>5. ASSUME NEW t \in Threads, NEW g \in Groups, GroupRaises(t, g)
        PROVE  NoCommit
    BY <1>1, <2>5 DEF GroupRaises, GroupFails, history
  <2>6. ASSUME NEW t \in Threads, ReplayItem(t)
        PROVE  NoCommit
    BY <1>1, <2>6 DEF ReplayItem, Enter, bus, TypeInv, TypeOK
  <2>7. ASSUME NEW t \in Threads, ReplayStart(t) \/ ReplayEnd(t)
        PROVE  NoCommit
    BY <1>1, <2>7 DEF ReplayStart, ReplayEnd, bus, local, history, TypeInv, TypeOK
  <2>8. ASSUME NEW h \in Handlers, NEW tp \in Topics, Subscribe(h, tp)
        PROVE  NoCommit
    BY <2>8 DEF Subscribe, local
  <2>9. CASE Tick \/ UNCHANGED vars
    BY <2>9 DEF Tick, vars, bus, local, history
  <2> QED BY <2>1, <2>2, <2>3, <2>4, <2>5, <2>6, <2>7, <2>8, <2>9 DEF Next, Step
<1> QED BY <1>2, <1>3, <1>4, <1>5

\* A group's offset never counts more events than its handler has processed,
\* although reading it and committing it are separate critical sections.
THEOREM OffsetsNotAhead == Spec => []OffsetNotAhead
<1>1. Init => OffsetInv
  BY TypeInit DEF Init, OffsetInv, OffsetNotAhead
<1>2. OffsetInv => OffsetNotAhead
  BY DEF OffsetInv
<1> QED BY <1>1, <1>2, OffsetStep, PTL DEF Spec

-----------------------------------------------------------------------------
(* Dispatch.  Until the first replay nothing leaves the dead letter queue   *)
(* but what the bounded queue pushes out, so a consumer that was owed an    *)
(* event keeps its delivery, its pill or its call.                          *)

DispatchInv ==
  /\ TypeInv /\ HandledOrQuarantined
  /\ replays = 0 => dlqHolder = NoThread /\ \A t \in Threads : pc[t] # "replay"

\* A consumer that was owed p has handled it, failed on it or is still to be called.
Met(c, p) ==
  \/ delivered[c][p] > 0
  \/ Quarantined(c, p)
  \/ \E t \in Threads : Calling(t, c, p)

\* Deliveries and pills are kept, and calls that thread t does not make.
Keeps(t) ==
  /\ \A c \in Consumers, p \in Payloads : delivered[c][p] > 0 => delivered'[c][p] > 0
  /\ Elements(dlq) \union evicted \subseteq Elements(dlq') \union evicted'
  /\ \A u \in Threads \ {t} :
       /\ pc'[u] = pc[u] /\ payload'[u] = payload[u]
       /\ todo'[u] = todo[u] /\ groups'[u] = groups[u]

\* If the calls of t are made, fail or stay to be made, whoever was owed p still is met.
LEMMA MetStays ==
  ASSUME NEW t \in Threads, Keeps(t),
         NEW c \in Consumers, NEW p \in Payloads, Met(c, p),
         Calling(t, c, p) =>
           Calling(t, c, p)' \/ delivered'[c][p] > 0 \/ Quarantined(c, p)'
  PROVE  Met(c, p)'
<1>1. CASE delivered[c][p] > 0
  BY <1>1 DEF Keeps, Met
<1>2. CASE Quarantined(c, p)
  BY <1>2 DEF Keeps, Met, Quarantined
<1>3. ASSUME NEW u \in Threads, Calling(u, c, p)
      PROVE  Met(c, p)'
  <2>1. CASE u = t
    BY <1>3, <2>1 DEF Met
  <2>2. CASE u # t
    BY <1>3, <2>2 DEF Met, Keeps, Calling, Elements
  <2> QED BY <2>1, <2>2
<1> QED BY <1>1, <1>2, <1>3 DEF Met

\* A delivery is kept by the next one.
LEMMA DeliveryKept ==
  ASSUME TypeInv, NEW c \in Consumers, NEW p \in Payloads, Delivered(c, p)
  PROVE  /\ delivered'[c][p] > 0
         /\ \A d \in Consumers, q \in Payloads : delivered[d][q] > 0 => delivered'[d][q] > 0
<1>1. delivered \in [Consumers -> [Payloads -> Nat]]
  BY DEF TypeInv, TypeOK
<1>2. \A d \in Consumers, q \in Payloads : delivered'[d][q] =
        IF d = c /\ q = p THEN delivered[d][q] + 1 ELSE delivered[d][q]
  BY <1>1 DEF Delivered
<1>3. \A d \in Consumers, q \in Payloads : delivered[d][q] \in Nat
  BY <1>1
<1> QED BY <1>2, <1>3

\* No step loses a dispatch: it is handled, quarantined or still under way.
LEMMA DispatchStep == DispatchInv /\ [Next]_vars => DispatchInv'
<1> SUFFICES ASSUME DispatchInv, [Next]_vars
             PROVE  DispatchInv'
  OBVIOUS
<1>1. TypeInv /\ TypeInv'
  BY TypeStep DEF DispatchInv
<1>2. CASE replays' # 0
  BY <1>1, <1>2 DEF DispatchInv, HandledOrQuarantined
<1> SUFFICES ASSUME replays' = 0
             PROVE  DispatchInv'
  BY <1>2
<1>3. replays = 0
  <2>1. ASSUME NEW t \in Threads, Step(t)
        PROVE  UNCHANGED replays
    BY <2>1 DEF Step, IgnoreDuplicate, Accept, PublishRaises, Record, HandOver, HandlerReturns, HandlerRaises,
                AtHandler, GroupReturns, CommitOffset, GroupRaises, GroupFails,
                PublishReturns, ReplayItem, ReplayEnd, replay
  <2>2. ASSUME NEW t \in Threads, ReplayStart(t)
        PROVE  FALSE
    BY <1>1, <2>2 DEF ReplayStart, TypeInv, TypeOK
  <2>3. ASSUME NEW t \in Threads, NEW p \in Payloads, Publish(t, p)
        PROVE  UNCHANGED replays
    BY <2>3 DEF Publish, replay
  <2>4. ASSUME NEW h \in Handlers, NEW tp \in Topics, Subscribe(h, tp)
        PROVE  UNCHANGED replays
    BY <2>4 DEF Subscribe, replay
  <2>5. CASE Tick \/ UNCHANGED vars
    BY <2>5 DEF Tick, vars, replay
  <2> QED BY <2>1, <2>2, <2>3, <2>4, <2>5 DEF Next
<1>4. dlqHolder = NoThread /\ \A t \in Threads : pc[t] # "replay" /\ dlqHolder # t
  BY <1>3, BusAssumption DEF DispatchInv
<1>5. \A p \in Payloads : \A c \in owed[p] : Met(c, p) /\ c \in Consumers
  BY <1>1, <1>3 DEF DispatchInv, HandledOrQuarantined, Met, TypeInv, TypeOK
<1>6. ASSUME NEW t \in Threads, Keeps(t), UNCHANGED <<owed, dlqHolder>>, pc'[t] # "replay",
             \A c \in Consumers, p \in Payloads : Calling(t, c, p) =>
               Calling(t, c, p)' \/ delivered'[c][p] > 0 \/ Quarantined(c, p)'
      PROVE  DispatchInv'
  <2>1. \A p \in Payloads : \A c \in owed[p] : Met(c, p)'
    BY <1>5, <1>6, MetStays
  <2>2. \A u \in Threads : pc'[u] # "replay"
    BY <1>4, <1>6 DEF Keeps
  <2>3. HandledOrQuarantined'
    BY <1>6, <2>1 DEF HandledOrQuarantined, Met
  <2> QED BY <1>1, <1>4, <1>6, <2>2, <2>3 DEF DispatchInv
<1>7. ASSUME NEW t \in Threads, NEW p \in Payloads, Publish(t, p)
      PROVE  DispatchInv'
  BY <1>1, <1>6, <1>7 DEF Publish, Enter, Keeps, Calling, bus, replay, TypeInv, TypeOK
<1>8. ASSUME NEW t \in Threads, IgnoreDuplicate(t) \/ Accept(t) \/ PublishRaises(t)
      PROVE  DispatchInv'
  <2>1. /\ pc[t] \in {"check", "record"} /\ pc' = [pc EXCEPT ![t] = pc'[t]]
        /\ pc'[t] \in {"record", "idle"}
        /\ UNCHANGED <<payload, todo, groups, dlq, dlqHolder, evicted, owed, delivered>>
    BY <1>1, <1>4, <1>8 DEF IgnoreDuplicate, Accept, PublishRaises, Return, bus, replay,
                            local, history, TypeInv, TypeOK
  <2>2. Keeps(t)
    <3>1. \A u \in Threads \ {t} : pc'[u] = pc[u]
      BY <1>1, <2>1 DEF TypeInv, TypeOK
    <3> QED BY <2>1, <3>1 DEF Keeps
  <2>3. \A c \in Consumers, p \in Payloads : ~Calling(t, c, p)
    BY <2>1 DEF Calling
  <2> QED BY <1>6, <2>1, <2>2, <2>3
<1>9. ASSUME NEW t \in Threads, Record(t)
      PROVE  DispatchInv'
  <2>1. Keeps(t) /\ ~(\E c \in Consumers, p \in Payloads : Calling(t, c, p))
    BY <1>1, <1>9 DEF Record, Keeps, Calling, bus, TypeInv, TypeOK
  <2>2. \A p \in Payloads : \A c \in owed[p] : Met(c, p)'
    BY <1>5, <2>1, MetStays
  <2>3. \A c \in Elements(todo'[t]) \union groups'[t] : Calling(t, c, payload[t])'
    BY <1>1, <1>9 DEF Record, Calling, TypeInv, TypeOK
  <2>4. ASSUME NEW p \in Payloads, NEW c \in owed'[p]
        PROVE  Met(c, p)'
    <3>1. CASE c \in owed[p]
      BY <2>2, <3>1
    <3>2. CASE c \notin owed[p]
      <4>1. p = payload'[t] /\ c \in Elements(todo'[t]) \union groups'[t]
        BY <1>1, <1>9, <2>4, <3>2 DEF Record, TypeInv, TypeOK
      <4> QED BY <2>3, <4>1 DEF Met
    <3> QED BY <3>1, <3>2
  <2>5. dlqHolder' = NoThread /\ \A u \in Threads : pc'[u] # "replay"
    BY <1>1, <1>4, <1>9 DEF Record, replay, TypeInv, TypeOK
  <2>6. HandledOrQuarantined'
    BY <2>4 DEF HandledOrQuarantined, Met
  <2> QED BY <1>1, <2>5, <2>6 DEF DispatchInv
<1>10. ASSUME NEW t \in Threads, HandOver(t)
       PROVE  DispatchInv'
  <2>1. MicroBatch \in Consumers /\ payload[t] \in Payloads
    BY <1>1 DEF Consumers, TypeInv, TypeOK
  <2>2. \A c \in Consumers, p \in Payloads : delivered[c][p] > 0 => delivered'[c][p] > 0
    BY <1>1, <1>10, <2>1, DeliveryKept DEF HandOver
  <2>3. Elements(dlq) \union evicted \subseteq Elements(dlq') \union evicted'
    BY <1>1, <1>10, <2>1, QuarantineType DEF HandOver, TypeInv
  <2>4. Keeps(t)
    BY <1>1, <1>10, <2>2, <2>3 DEF Keeps, HandOver, local, TypeInv, TypeOK
  <2>5. \A c \in Consumers, p \in Payloads : Calling(t, c, p) => Calling(t, c, p)'
    BY <1>1, <1>10 DEF HandOver, Calling, local, TypeInv, TypeOK
  <2> QED BY <1>1, <1>6, <1>10, <2>4, <2>5 DEF HandOver, replay, TypeInv, TypeOK
<1>11. ASSUME NEW t \in Threads, todo[t] # <<>>
       PROVE  /\ Head(todo[t]) \in Consumers /\ payload[t] \in Payloads
              /\ Elements(todo[t]) = {Head(todo[t])} \union Elements(Tail(todo[t]))
  BY <1>1, <1>11, HeadAndTail DEF TypeInv, TypeOK, Consumers
<1>12. ASSUME NEW t \in Threads, HandlerReturns(t)
       PROVE  DispatchInv'
  <2>1. todo[t] # <<>> /\ todo'[t] = Tail(todo[t]) /\ Delivered(Head(todo[t]), payload[t])
    BY <1>1, <1>12 DEF HandlerReturns, NextHandler, TypeInv, TypeOK
  <2>2. /\ delivered'[Head(todo[t])][payload[t]] > 0
        /\ \A c \in Consumers, p \in Payloads : delivered[c][p] > 0 => delivered'[c][p] > 0
    BY <1>1, <1>11, <2>1, DeliveryKept
  <2>3. Keeps(t)
    BY <1>1, <1>12, <2>2 DEF Keeps, HandlerReturns, NextHandler, TypeInv, TypeOK
  <2>4. ASSUME NEW c \in Consumers, NEW p \in Payloads, Calling(t, c, p)
        PROVE  Calling(t, c, p)' \/ delivered'[c][p] > 0
    <3>1. p = payload[t] /\ c \in Elements(todo[t]) \union groups[t]
      BY <2>4 DEF Calling
    <3>2. c = Head(todo[t]) \/ c \in Elements(Tail(todo[t])) \union groups[t]
      BY <1>11, <2>1, <3>1
    <3> QED BY <1>12, <2>1, <2>2, <2>4, <3>1, <3>2 DEF Calling, HandlerReturns
  <2> QED BY <1>4, <1>6, <1>12, <2>3, <2>4 DEF HandlerReturns, replay
<1>13. ASSUME NEW t \in Threads, HandlerRaises(t)
       PROVE  DispatchInv'
  <2>1. AtHandler(t) /\ todo[t] # <<>>
    BY <1>13 DEF HandlerRaises, AtHandler
  <2>2. CASE RetryHandler(t)
    BY <1>4, <1>6, <2>1, <2>2
       DEF AtHandler, RetryHandler, Keeps, Calling, bus, replay, history
  <2>3. CASE GiveUpHandler(t)
    <3>1. todo'[t] = Tail(todo[t]) /\ Quarantine(t, Head(todo[t]))
            /\ \A u \in Threads \ {t} : todo'[u] = todo[u]
      BY <1>1, <2>3 DEF GiveUpHandler, NextHandler, TypeInv, TypeOK
    <3>2. /\ Elements(dlq) \union evicted \subseteq Elements(dlq') \union evicted'
          /\ [payload |-> payload[t], by |-> Head(todo[t])] \in Elements(dlq')
      BY <1>1, <1>11, <2>1, <3>1, QuarantineType DEF TypeInv
    <3>3. Keeps(t)
      BY <2>1, <3>1, <3>2 DEF Keeps, AtHandler, history
    <3>4. ASSUME NEW c \in Consumers, NEW p \in Payloads, Calling(t, c, p)
          PROVE  Calling(t, c, p)' \/ Quarantined(c, p)'
      <4>1. p = payload[t] /\ c \in Elements(todo[t]) \union groups[t]
        BY <3>4 DEF Calling
      <4>2. c = Head(todo[t]) \/ c \in Elements(Tail(todo[t])) \union groups[t]
        BY <1>11, <2>1, <4>1
      <4>3. CASE c = Head(todo[t])
        BY <3>2, <4>1, <4>3 DEF Quarantined
      <4>4. CASE c \in Elements(Tail(todo[t])) \union groups[t]
        BY <2>1, <3>1, <3>4, <4>4 DEF Calling, AtHandler
      <4> QED BY <4>2, <4>3, <4>4
    <3> QED BY <1>4, <1>6, <2>1, <3>3, <3>4 DEF AtHandler, replay, history
  <2> QED BY <1>13, <2>2, <2>3 DEF HandlerRaises
<1>14. ASSUME NEW t \in Threads, NEW g \in Groups, GroupReturns(t, g)
       PROVE  DispatchInv'
  <2>1. g \in Consumers /\ payload[t] \in Payloads
    BY <1>1 DEF Consumers, TypeInv, TypeOK
  <2>2. /\ delivered'[g][payload[t]] > 0
        /\ \A c \in Consumers, p \in Payloads : delivered[c][p] > 0 => delivered'[c][p] > 0
    BY <1>1, <1>14, <2>1, DeliveryKept DEF GroupReturns
  <2>3. Keeps(t)
    BY <1>1, <1>14, <2>2 DEF Keeps, GroupReturns, TypeInv, TypeOK
  <2>4. \A c \in Consumers, p \in Payloads : Calling(t, c, p) =>
          Calling(t, c, p)' \/ delivered'[c][p] > 0
    BY <1>1, <1>14, <2>2 DEF Calling, GroupReturns, TypeInv, TypeOK
  <2> QED BY <1>1, <1>6, <1>14, <2>3, <2>4 DEF GroupReturns, replay, TypeInv, TypeOK
<1>15. ASSUME NEW t \in Threads, CommitOffset(t)
       PROVE  DispatchInv'
  BY <1>1, <1>6, <1>15
     DEF CommitOffset, Keeps, Calling, replay, history, TypeInv, TypeOK
<1>16. ASSUME NEW t \in Threads, NEW g \in Groups, GroupRaises(t, g)
       PROVE  DispatchInv'
  <2>1. GroupFails(t, g) /\ Quarantine(t, g) /\ g \in Consumers
    BY <1>16 DEF GroupRaises, GroupFails, Consumers
  <2>2. /\ Elements(dlq) \union evicted \subseteq Elements(dlq') \union evicted'
        /\ [payload |-> payload[t], by |-> g] \in Elements(dlq')
    BY <1>1, <2>1, QuarantineType DEF TypeInv
  <2>3. Keeps(t)
    BY <1>1, <2>1, <2>2 DEF Keeps, GroupFails, history, TypeInv, TypeOK
  <2>4. \A c \in Consumers, p \in Payloads : Calling(t, c, p) =>
          Calling(t, c, p)' \/ Quarantined(c, p)'
    BY <1>1, <2>1, <2>2 DEF Calling, GroupFails, Quarantined, TypeInv, TypeOK
  <2> QED BY <1>4, <1>6, <2>1, <2>3, <2>4 DEF GroupFails, replay, history
<1>17. ASSUME NEW t \in Threads, PublishReturns(t)
       PROVE  DispatchInv'
  <2>1. Elements(<<>>) = {}
    BY DEF Elements
  <2>2. ~(\E c \in Consumers, p \in Payloads : Calling(t, c, p))
    BY <1>17, <2>1 DEF PublishReturns, Calling
  <2> QED BY <1>1, <1>4, <1>6, <1>17, <2>2
          DEF PublishReturns, Return, Keeps, bus, replay, local, history, TypeInv, TypeOK
<1>18. ASSUME UNCHANGED <<replays, pc, payload, todo, groups, delivered, dlq, evicted, owed,
                         dlqHolder>>
       PROVE  DispatchInv'
  BY <1>1, <1>18 DEF DispatchInv, HandledOrQuarantined, Quarantined, Calling
<1>19. ASSUME NEW h \in Handlers, NEW tp \in Topics, Subscribe(h, tp)
       PROVE  DispatchInv'
  BY <1>18, <1>19 DEF Subscribe, replay, local
<1>20. CASE Tick \/ UNCHANGED vars
  BY <1>18, <1>20 DEF Tick, vars, replay, local, history
<1>21. ASSUME NEW t \in Threads, ReplayStart(t) \/ ReplayItem(t) \/ ReplayEnd(t)
       PROVE  FALSE
  BY <1>1, <1>3, <1>4, <1>21 DEF ReplayStart, ReplayItem, ReplayEnd, TypeInv, TypeOK
<1> QED BY <1>7, <1>8, <1>9, <1>10, <1>12, <1>13, <1>14, <1>15, <1>16, <1>17, <1>19, <1>20,
           <1>21 DEF Next, Step

\* Dispatch loses nothing before the first replay: whoever was registered when an
\* event was accepted has handled it, is to be called, or has its pill.
THEOREM DispatchLosesNothing == Spec => []HandledOrQuarantined
<1>1. Init => DispatchInv
  BY TypeInit, BusAssumption DEF Init, DispatchInv, HandledOrQuarantined
<1>2. DispatchInv => HandledOrQuarantined
  BY DEF DispatchInv
<1> QED BY <1>1, <1>2, DispatchStep, PTL DEF Spec

-----------------------------------------------------------------------------
(* Idempotency.  An id is recorded in the critical section that finds it    *)
(* new, and within the time limit no purge drops it; so one thread at most  *)
(* ever dispatches the payload, and it calls each consumer on its list      *)
(* once, as long as the list has no handler twice.  subscribe() puts a      *)
(* handler of a topic with an alias there twice (event_bus.py:173).         *)

NoTwice(q) == \A i, j \in 1 .. Len(q) : q[i] = q[j] => i = j

\* No topic of an event with an id has a handler twice.
RegisteredOnce == \A p \in Keyed : NoTwice(subscribers[TopicOf[p]])

Subscribed == Handlers \union Groups
Dispatching == {"record", "buffer", "call", "commit"}

\* Thread t dispatches its payload alone, and calls nobody who has handled it.
Sole(t) ==
  payload[t] \in Keyed /\ pc[t] \in Dispatching =>
    /\ payload[t] \in DOMAIN seen
    /\ \A u \in Threads \ {t} : payload[u] = payload[t] => pc[u] \notin Dispatching
    /\ pc[t] = "record" => \A c \in Subscribed : delivered[c][payload[t]] = 0
    /\ pc[t] # "record" =>
         /\ NoTwice(todo[t])
         /\ \A c \in Elements(todo[t]) \union groups[t] : delivered[c][payload[t]] = 0

OnceInv ==
  /\ TypeInv /\ AtMostOnce
  /\ \A t \in Threads : Sole(t)
  /\ \A p \in Keyed \ DOMAIN seen, c \in Subscribed : delivered[c][p] = 0

\* In a sequence that holds nothing twice, the tail does not hold the head.
LEMMA TailWithoutHead ==
  ASSUME NEW S, NEW q \in Seq(S), q # <<>>, NoTwice(q)
  PROVE  NoTwice(Tail(q)) /\ Head(q) \notin Elements(Tail(q))
<1>1. /\ Len(q) \in Nat /\ Len(q) # 0 /\ Len(Tail(q)) = Len(q) - 1 /\ Head(q) = q[1]
      /\ \A i \in 1 .. Len(q) - 1 : Tail(q)[i] = q[i + 1]
  OBVIOUS
<1>2. ASSUME NEW i \in 1 .. Len(Tail(q)), NEW j \in 1 .. Len(Tail(q)),
             Tail(q)[i] = Tail(q)[j]
      PROVE  i = j
  <2>1. i + 1 \in 1 .. Len(q) /\ j + 1 \in 1 .. Len(q) /\ q[i + 1] = q[j + 1]
    BY <1>1, <1>2
  <2>2. i + 1 = j + 1
    BY <2>1 DEF NoTwice
  <2> QED BY <1>1, <2>2
<1>3. ASSUME NEW i \in 1 .. Len(Tail(q)), Tail(q)[i] = Head(q)
      PROVE  FALSE
  <2>1. i + 1 \in 1 .. Len(q) /\ 1 \in 1 .. Len(q) /\ q[i + 1] = q[1] /\ i + 1 # 1
    BY <1>1, <1>3
  <2> QED BY <2>1 DEF NoTwice
<1> QED BY <1>2, <1>3 DEF NoTwice, Elements

\* Within the time limit a purge drops no id, and an id that is recorded is found.
LEMMA NothingExpires ==
  ASSUME MaxTime < Ttl, TypeInv, NEW t \in Threads, NEW ids \in AfterPurge(t)
  PROVE  /\ DOMAIN ids = DOMAIN seen
         /\ payload[t] \in DOMAIN seen => IsDuplicate(t, ids)
<1>1. /\ clock[t] \in 0 .. MaxTime /\ \A p \in DOMAIN seen : seen[p] \in 0 .. MaxTime
      /\ Ttl \in Nat /\ MaxTime \in Nat
  BY BusAssumption DEF TypeInv, TypeOK
<1>2. Expired(t) = {}
  BY <1>1 DEF Expired
<1>3. DOMAIN ids = DOMAIN seen /\ \A p \in DOMAIN seen : ids[p] = seen[p]
  BY <1>2 DEF AfterPurge, Restrict
<1> QED BY <1>1, <1>3 DEF IsDuplicate

\* The consumers that a thread is still to call are subscribed.
LEMMA ToCall ==
  ASSUME TypeInv, NEW t \in Threads
  PROVE  /\ Elements(todo[t]) \union groups[t] \subseteq Subscribed
         /\ Subscribed \subseteq Consumers /\ payload[t] \in Payloads
<1>1. todo[t] \in Seq(Handlers) /\ groups[t] \subseteq Groups /\ payload[t] \in Payloads
  BY DEF TypeInv, TypeOK
<1>2. \A i \in 1 .. Len(todo[t]) : todo[t][i] \in Handlers
  BY <1>1
<1> QED BY <1>1, <1>2 DEF Elements, Subscribed, Consumers

\* A step of t that delivers no event with an id and begins no dispatch.
LEMMA Undelivered ==
  ASSUME OnceInv, TypeInv', NEW t \in Threads,
         \A u \in Threads \ {t} : /\ pc'[u] = pc[u] /\ payload'[u] = payload[u]
                                  /\ todo'[u] = todo[u] /\ groups'[u] = groups[u],
         DOMAIN seen' = DOMAIN seen,
         \A c \in Subscribed, p \in Keyed : delivered'[c][p] = delivered[c][p],
         pc'[t] \in Dispatching =>
           /\ pc'[t] # "record" /\ pc[t] \in Dispatching \ {"record"}
           /\ payload'[t] = payload[t] /\ groups'[t] \subseteq groups[t]
           /\ NoTwice(todo[t]) => NoTwice(todo'[t])
           /\ Elements(todo'[t]) \subseteq Elements(todo[t])
  PROVE  OnceInv'
<1>1. Keyed \subseteq Payloads
  BY BusAssumption
<1>2. AtMostOnce'
  BY <1>1 DEF OnceInv, AtMostOnce, Subscribed
<1>3. \A p \in Keyed \ DOMAIN seen', c \in Subscribed : delivered'[c][p] = 0
  BY <1>1 DEF OnceInv
<1>4. Sole(t)'
  <2> SUFFICES ASSUME payload'[t] \in Keyed, pc'[t] \in Dispatching
               PROVE  Sole(t)'
    BY DEF Sole
  <2>1. Sole(t) /\ payload'[t] = payload[t] /\ pc[t] \in Dispatching \ {"record"}
    BY DEF OnceInv
  <2>2. Elements(todo[t]) \union groups[t] \subseteq Subscribed
    BY ToCall DEF OnceInv
  <2>3. \A c \in Elements(todo'[t]) \union groups'[t] : delivered'[c][payload[t]] = 0
    BY <1>1, <2>1, <2>2 DEF Sole
  <2>4. NoTwice(todo'[t])
    BY <2>1 DEF Sole
  <2>5. \A u \in Threads \ {t} : payload'[u] = payload[t] => pc'[u] \notin Dispatching
    BY <2>1 DEF Sole
  <2>6. payload[t] \in DOMAIN seen'
    BY <2>1 DEF Sole
  <2> QED BY <2>1, <2>3, <2>4, <2>5, <2>6 DEF Sole
<1>5. ASSUME NEW u \in Threads \ {t}
      PROVE  Sole(u)'
  <2> SUFFICES ASSUME payload[u] \in Keyed, pc[u] \in Dispatching
               PROVE  Sole(u)'
    BY DEF Sole
  <2>1. Sole(u) /\ pc'[u] = pc[u] /\ payload'[u] = payload[u] /\ todo'[u] = todo[u]
          /\ groups'[u] = groups[u]
    BY DEF OnceInv
  <2>2. Elements(todo[u]) \union groups[u] \subseteq Subscribed
    BY ToCall DEF OnceInv
  <2>3. pc[u] # "record" => \A c \in Elements(todo'[u]) \union groups'[u] :
                              delivered'[c][payload[u]] = 0
    BY <1>1, <2>1, <2>2 DEF Sole, Elements
  <2>4. pc[u] = "record" => \A c \in Subscribed : delivered'[c][payload[u]] = 0
    BY <1>1, <2>1 DEF Sole
  <2>5. pc[u] # "record" => NoTwice(todo'[u])
    BY <2>1 DEF Sole, NoTwice
  <2>6. ASSUME NEW v \in Threads \ {u}, payload'[v] = payload[u]
        PROVE  pc'[v] \notin Dispatching
    BY <2>1, <2>6 DEF Sole
  <2> QED BY <2>1, <2>3, <2>4, <2>5, <2>6 DEF Sole
<1> QED BY <1>2, <1>3, <1>4, <1>5 DEF OnceInv

\* A step of t that delivers the payload to one of the consumers it is to call, and
\* takes it off the list.
LEMMA OneDelivery ==
  ASSUME OnceInv, TypeInv', NEW t \in Threads, pc[t] \in Dispatching \ {"record"},
         NEW c \in Elements(todo[t]) \union groups[t],
         Delivered(c, payload[t]), c \notin Elements(todo'[t]) \union groups'[t],
         Elements(todo'[t]) \union groups'[t] \subseteq Elements(todo[t]) \union groups[t],
         NoTwice(todo[t]) => NoTwice(todo'[t]),
         pc'[t] \in Dispatching \ {"record"}, UNCHANGED <<payload, seen>>,
         \A u \in Threads \ {t} : /\ pc'[u] = pc[u]
                                  /\ todo'[u] = todo[u] /\ groups'[u] = groups[u]
  PROVE  OnceInv'
<1>1. Keyed \subseteq Payloads /\ payload[t] \in Payloads /\ c \in Subscribed
        /\ c \in Consumers /\ Subscribed \subseteq Consumers
  BY ToCall, BusAssumption DEF OnceInv
<1>2. delivered \in [Consumers -> [Payloads -> Nat]]
  BY DEF OnceInv, TypeInv, TypeOK
<1>3. \A d \in Consumers, p \in Payloads : delivered'[d][p] =
        IF d = c /\ p = payload[t] THEN delivered[d][p] + 1 ELSE delivered[d][p]
  BY <1>1, <1>2 DEF Delivered
<1>4. payload[t] \in Keyed =>
        delivered[c][payload[t]] = 0 /\ payload[t] \in DOMAIN seen
  BY DEF OnceInv, Sole
<1>5. AtMostOnce'
  <2> SUFFICES ASSUME NEW d \in Handlers \union Groups, NEW p \in Keyed
               PROVE  delivered'[d][p] <= 1
    BY DEF AtMostOnce
  <2>1. d \in Consumers /\ delivered[d][p] <= 1
    BY <1>1 DEF OnceInv, AtMostOnce, Subscribed
  <2> QED BY <1>1, <1>3, <1>4, <2>1
<1>6. \A p \in Keyed \ DOMAIN seen', d \in Subscribed : delivered'[d][p] = 0
  BY <1>1, <1>3, <1>4 DEF OnceInv
<1>7. Sole(t)'
  <2> SUFFICES ASSUME payload[t] \in Keyed
               PROVE  Sole(t)'
    BY DEF Sole
  <2>1. /\ payload[t] \in DOMAIN seen /\ NoTwice(todo[t])
        /\ \A u \in Threads \ {t} : payload[u] = payload[t] => pc[u] \notin Dispatching
        /\ \A d \in Elements(todo[t]) \union groups[t] : delivered[d][payload[t]] = 0
    BY DEF OnceInv, Sole
  <2>2. Elements(todo[t]) \union groups[t] \subseteq Consumers
    BY ToCall DEF OnceInv
  <2>3. \A d \in Elements(todo'[t]) \union groups'[t] : delivered'[d][payload[t]] = 0
    BY <1>1, <1>3, <2>1, <2>2
  <2> QED BY <2>1, <2>3 DEF Sole
<1>8. ASSUME NEW u \in Threads \ {t}
      PROVE  Sole(u)'
  <2> SUFFICES ASSUME payload[u] \in Keyed, pc[u] \in Dispatching
               PROVE  Sole(u)'
    BY DEF Sole
  <2>1. Sole(u) /\ pc'[u] = pc[u] /\ todo'[u] = todo[u] /\ groups'[u] = groups[u]
    BY DEF OnceInv
  <2>2. payload[u] # payload[t]
    BY <2>1 DEF Sole
  <2>3. Elements(todo[u]) \union groups[u] \subseteq Consumers
    BY ToCall DEF OnceInv
  <2>4. \A d \in Consumers : delivered'[d][payload[u]] = delivered[d][payload[u]]
    BY <1>1, <1>3, <2>2
  <2>5. \A v \in Threads \ {u} : payload[v] = payload[u] => pc'[v] \notin Dispatching
    BY <2>1, <2>2 DEF Sole
  <2>6. pc[u] # "record" => \A d \in Elements(todo'[u]) \union groups'[u] :
                              delivered'[d][payload[u]] = 0
    BY <2>1, <2>3, <2>4 DEF Sole, Elements
  <2> QED BY <1>1, <2>1, <2>4, <2>5, <2>6 DEF Sole, NoTwice
<1> QED BY <1>5, <1>6, <1>7, <1>8 DEF OnceInv

\* No step hands an event to a handler a second time, while ids are remembered.
LEMMA OnceStep ==
  ASSUME MaxTime < Ttl
  PROVE  OnceInv /\ RegisteredOnce /\ [Next]_vars => OnceInv'
<1> SUFFICES ASSUME OnceInv, RegisteredOnce, [Next]_vars
             PROVE  OnceInv'
  OBVIOUS
<1>1. TypeInv /\ TypeInv'
  BY TypeStep DEF OnceInv
<1> USE DEF Dispatching
<1>2. ASSUME NEW t \in Threads, NEW p \in Payloads, Publish(t, p)
      PROVE  OnceInv'
  <2>1. \A u \in Threads \ {t} : pc'[u] = pc[u] /\ payload'[u] = payload[u]
    BY <1>1, <1>2 DEF Publish, Enter, TypeInv, TypeOK
  <2>2. pc'[t] = "check"
    BY <1>1, <1>2 DEF Publish, Enter, TypeInv, TypeOK
  <2>3. UNCHANGED <<seen, delivered, todo, groups>>
    BY <1>2 DEF Publish, bus
  <2> QED BY <1>1, <2>1, <2>2, <2>3, Undelivered
<1>3. ASSUME NEW t \in Threads, IgnoreDuplicate(t)
      PROVE  OnceInv'
  <2>1. pc'[t] \in {"replay", "idle"} /\ \A u \in Threads \ {t} : pc'[u] = pc[u]
    BY <1>1, <1>3 DEF IgnoreDuplicate, Return, TypeInv, TypeOK
  <2>2. DOMAIN seen' = DOMAIN seen
    BY <1>1, <1>3, NothingExpires DEF IgnoreDuplicate
  <2>3. UNCHANGED <<payload, delivered, todo, groups>>
    BY <1>3 DEF IgnoreDuplicate, local, history
  <2> QED BY <1>1, <2>1, <2>2, <2>3, Undelivered
<1>4. ASSUME NEW t \in Threads, Accept(t)
      PROVE  OnceInv'
  <2>1. /\ pc' = [pc EXCEPT ![t] = "record"] /\ pc[t] = "check"
        /\ UNCHANGED <<payload, delivered, todo, groups>>
    BY <1>4 DEF Accept, local
  <2>2. /\ payload[t] \notin DOMAIN seen
        /\ DOMAIN seen' = IF payload[t] \in Keyed
                          THEN DOMAIN seen \union {payload[t]} ELSE DOMAIN seen
    <3>1. PICK ids \in AfterPurge(t) :
            /\ ~IsDuplicate(t, ids)
            /\ seen' = IF payload[t] \in Keyed THEN Put(ids, payload[t], clock[t]) ELSE ids
      BY <1>4 DEF Accept
    <3>2. DOMAIN ids = DOMAIN seen /\ payload[t] \notin DOMAIN seen
      BY <1>1, <3>1, NothingExpires
    <3> QED BY <3>1, <3>2 DEF Put
  <2>3. pc'[t] = "record" /\ \A u \in Threads \ {t} : pc'[u] = pc[u]
    BY <1>1, <2>1 DEF TypeInv, TypeOK
  <2>4. AtMostOnce' /\ \A p \in Keyed \ DOMAIN seen', c \in Subscribed : delivered'[c][p] = 0
    BY <2>1, <2>2 DEF OnceInv, AtMostOnce
  <2>5. Sole(t)'
    <3> SUFFICES ASSUME payload[t] \in Keyed
                 PROVE  Sole(t)'
      BY <2>1 DEF Sole
    <3>1. \A u \in Threads \ {t} : payload[u] = payload[t] => pc[u] \notin Dispatching
      BY <2>2 DEF OnceInv, Sole
    <3>2. \A c \in Subscribed : delivered[c][payload[t]] = 0
      BY <2>2 DEF OnceInv
    <3> QED BY <2>1, <2>2, <2>3, <3>1, <3>2 DEF Sole
  <2>6. ASSUME NEW u \in Threads \ {t}
        PROVE  Sole(u)'
    <3>1. Sole(u)
      BY DEF OnceInv
    <3>2. payload[u] \in Keyed /\ pc[u] \in Dispatching => payload[u] # payload[t]
      BY <2>2, <3>1 DEF Sole
    <3> QED BY <2>1, <2>2, <2>3, <3>1, <3>2 DEF Sole
  <2> QED BY <1>1, <2>4, <2>5, <2>6 DEF OnceInv
<1>5. ASSUME NEW t \in Threads, Record(t)
      PROVE  OnceInv'
  <2>1. /\ pc[t] = "record" /\ UNCHANGED <<payload, delivered, seen>>
        /\ pc'[t] \in {"buffer", "call"} /\ todo'[t] = subscribers[Topic(t)]
        /\ \A u \in Threads \ {t} : pc'[u] = pc[u] /\ todo'[u] = todo[u]
                                      /\ groups'[u] = groups[u]
    BY <1>1, <1>5 DEF Record, bus, TypeInv, TypeOK
  <2>2. AtMostOnce' /\ \A p \in Keyed \ DOMAIN seen', c \in Subscribed : delivered'[c][p] = 0
    BY <2>1 DEF OnceInv, AtMostOnce
  <2>3. Sole(t)'
    <3>1. Sole(t)
      BY DEF OnceInv
    <3>2. Elements(todo'[t]) \union groups'[t] \subseteq Subscribed
      <4>1. todo'[t] \in Seq(Handlers) /\ groups'[t] \subseteq Groups
        BY <1>1 DEF TypeInv, TypeOK
      <4>2. \A i \in 1 .. Len(todo'[t]) : todo'[t][i] \in Handlers
        BY <4>1
      <4> QED BY <4>1, <4>2 DEF Elements, Subscribed
    <3>3. payload[t] \in Keyed => NoTwice(todo'[t])
      BY <2>1 DEF RegisteredOnce, Topic
    <3> QED BY <2>1, <3>1, <3>2, <3>3 DEF Sole
  <2>4. ASSUME NEW u \in Threads \ {t}
        PROVE  Sole(u)'
    <3>1. Sole(u)
      BY DEF OnceInv
    <3>2. payload[u] \in Keyed /\ pc[u] \in Dispatching => payload[u] # payload[t]
      BY <2>1, <3>1 DEF Sole
    <3>3. NoTwice(todo[u])' = NoTwice(todo[u]) /\ Elements(todo[u])' = Elements(todo[u])
      BY <2>1 DEF NoTwice, Elements
    <3> QED BY <2>1, <3>1, <3>2, <3>3 DEF Sole
  <2> QED BY <1>1, <2>2, <2>3, <2>4 DEF OnceInv
<1>6. ASSUME NEW t \in Threads, HandOver(t)
      PROVE  OnceInv'
  <2>1. /\ pc[t] = "buffer" /\ pc'[t] = "call" /\ UNCHANGED <<seen, payload, todo, groups>>
        /\ \A u \in Threads \ {t} : pc'[u] = pc[u]
    BY <1>1, <1>6 DEF HandOver, bus, local, TypeInv, TypeOK
  <2>2. \A c \in Subscribed, p \in Keyed : delivered'[c][p] = delivered[c][p]
    <3>1. delivered' = [delivered EXCEPT ![MicroBatch][payload[t]] = @ + 1]
      BY <1>6 DEF HandOver, Delivered
    <3>2. MicroBatch \notin Subscribed
      BY BusAssumption DEF Subscribed
    <3> QED BY <1>1, <3>1, <3>2 DEF TypeInv, TypeOK, Subscribed, Consumers
  <2> QED BY <1>1, <2>1, <2>2, Undelivered
<1>7. ASSUME NEW t \in Threads, todo[t] # <<>>
      PROVE  /\ Head(todo[t]) \in Handlers /\ Head(todo[t]) \in Elements(todo[t])
             /\ Elements(Tail(todo[t])) \subseteq Elements(todo[t])
             /\ NoTwice(todo[t]) => /\ NoTwice(Tail(todo[t]))
                                    /\ Head(todo[t]) \notin Elements(Tail(todo[t]))
  <2>1. todo[t] \in Seq(Handlers)
    BY <1>1 DEF TypeInv, TypeOK
  <2> QED BY <1>7, <2>1, HeadAndTail, TailWithoutHead
<1>8. ASSUME NEW t \in Threads, HandlerReturns(t)
      PROVE  OnceInv'
  <2>1. /\ pc[t] = "call" /\ todo[t] # <<>> /\ todo'[t] = Tail(todo[t])
        /\ Delivered(Head(todo[t]), payload[t]) /\ UNCHANGED <<pc, payload, seen, groups>>
        /\ \A u \in Threads \ {t} : todo'[u] = todo[u]
    BY <1>1, <1>8 DEF HandlerReturns, NextHandler, bus, TypeInv, TypeOK
  <2>2. CASE payload[t] \in Keyed
    <3>1. NoTwice(todo[t])
      BY <2>1, <2>2 DEF OnceInv, Sole
    <3>2. Head(todo[t]) \notin groups[t]
      BY <1>1, <1>7, <2>1, BusAssumption DEF TypeInv, TypeOK
    <3> QED BY <1>1, <1>7, <2>1, <3>1, <3>2, OneDelivery
  <2>3. CASE payload[t] \notin Keyed
    <3>1. delivered \in [Consumers -> [Payloads -> Nat]]
      BY <1>1 DEF TypeInv, TypeOK
    <3>2. delivered' = [delivered EXCEPT ![Head(todo[t])][payload[t]] = @ + 1]
      BY <2>1 DEF Delivered
    <3>3. \A c \in Subscribed, p \in Keyed : delivered'[c][p] = delivered[c][p]
      BY <1>1, <2>3, <3>1, <3>2, BusAssumption, ToCall
    <3> QED BY <1>1, <1>7, <2>1, <3>3, Undelivered
  <2> QED BY <2>2, <2>3
<1>9. ASSUME NEW t \in Threads, HandlerRaises(t)
      PROVE  OnceInv'
  <2>1. AtHandler(t) /\ todo[t] # <<>> /\ UNCHANGED <<pc, payload, seen, groups, delivered>>
    BY <1>9 DEF HandlerRaises, AtHandler, bus, history
  <2>2. CASE UNCHANGED todo
    BY <1>1, <2>1, <2>2, Undelivered DEF AtHandler
  <2>3. CASE NextHandler(t)
    <3>1. todo'[t] = Tail(todo[t]) /\ \A u \in Threads \ {t} : todo'[u] = todo[u]
      BY <1>1, <2>3 DEF NextHandler, TypeInv, TypeOK
    <3> QED BY <1>1, <1>7, <2>1, <3>1, Undelivered DEF AtHandler
  <2> QED BY <1>9, <2>2, <2>3 DEF HandlerRaises, RetryHandler, GiveUpHandler
<1>10. ASSUME NEW t \in Threads, NEW g \in Groups, GroupReturns(t, g)
       PROVE  OnceInv'
  <2>1. /\ pc[t] = "call" /\ pc'[t] = "commit" /\ g \in groups[t] /\ todo[t] = <<>>
        /\ groups'[t] = groups[t] \ {g}
        /\ Delivered(g, payload[t]) /\ UNCHANGED <<payload, seen, todo>>
        /\ \A u \in Threads \ {t} : groups'[u] = groups[u] /\ pc'[u] = pc[u]
    BY <1>1, <1>10 DEF GroupReturns, bus, TypeInv, TypeOK
  <2>2. g \notin Elements(todo'[t]) \union groups'[t]
    BY <2>1 DEF Elements
  <2> QED BY <1>1, <2>1, <2>2, OneDelivery
<1>11. ASSUME NEW t \in Threads, CommitOffset(t)
       PROVE  OnceInv'
  <2>1. /\ pc[t] = "commit" /\ pc'[t] = "call"
        /\ UNCHANGED <<payload, seen, todo, groups, delivered>>
        /\ \A u \in Threads \ {t} : pc'[u] = pc[u]
    BY <1>1, <1>11 DEF CommitOffset, history, TypeInv, TypeOK
  <2> QED BY <1>1, <2>1, Undelivered
<1>12. ASSUME NEW t \in Threads, NEW g \in Groups, GroupRaises(t, g)
       PROVE  OnceInv'
  <2>1. /\ pc[t] = "call" /\ UNCHANGED <<pc, payload, seen, todo, delivered>>
        /\ groups'[t] = groups[t] \ {g} /\ \A u \in Threads \ {t} : groups'[u] = groups[u]
    BY <1>1, <1>12 DEF GroupRaises, GroupFails, history, TypeInv, TypeOK
  <2> QED BY <1>1, <2>1, Undelivered
<1>13. ASSUME NEW t \in Threads, PublishReturns(t) \/ PublishRaises(t)
       PROVE  OnceInv'
  <2>1. /\ pc'[t] \in {"replay", "idle"} /\ \A u \in Threads \ {t} : pc'[u] = pc[u]
        /\ UNCHANGED <<payload, seen, todo, groups, delivered>>
    BY <1>1, <1>13 DEF PublishReturns, PublishRaises, Return, bus, local, history, TypeInv, TypeOK
  <2> QED BY <1>1, <2>1, Undelivered
<1>14. ASSUME NEW t \in Threads, ReplayStart(t) \/ ReplayEnd(t)
       PROVE  OnceInv'
  <2>1. /\ pc'[t] \in {"replay", "idle"} /\ \A u \in Threads \ {t} : pc'[u] = pc[u]
        /\ UNCHANGED <<payload, seen, todo, groups, delivered>>
    BY <1>1, <1>14 DEF ReplayStart, ReplayEnd, bus, local, history, TypeInv, TypeOK
  <2> QED BY <1>1, <2>1, Undelivered
<1>15. ASSUME NEW t \in Threads, ReplayItem(t)
       PROVE  OnceInv'
  <2>1. /\ pc'[t] \in {"replay", "check"} /\ UNCHANGED <<seen, todo, groups>>
        /\ \A u \in Threads \ {t} : pc'[u] = pc[u] /\ payload'[u] = payload[u]
    BY <1>1, <1>15 DEF ReplayItem, Enter, bus, TypeInv, TypeOK
  <2>2. \A c \in Subscribed, p \in Keyed : delivered'[c][p] = delivered[c][p]
    <3>1. MicroBatch \notin Subscribed
      BY BusAssumption DEF Subscribed
    <3> QED BY <1>1, <1>15, <3>1, BusAssumption
            DEF ReplayItem, Delivered, TypeInv, TypeOK, Subscribed, Consumers
  <2> QED BY <1>1, <2>1, <2>2, Undelivered
<1>16. ASSUME UNCHANGED <<pc, payload, seen, todo, groups, delivered>>
       PROVE  OnceInv'
  BY <1>1, <1>16 DEF OnceInv, AtMostOnce, Sole, NoTwice, Elements
<1>17. ASSUME NEW h \in Handlers, NEW tp \in Topics, Subscribe(h, tp)
       PROVE  OnceInv'
  BY <1>16, <1>17 DEF Subscribe, local
<1>18. CASE Tick \/ UNCHANGED vars
  BY <1>16, <1>18 DEF Tick, vars, bus, local, history
<1> QED BY <1>2, <1>3, <1>4, <1>5, <1>6, <1>8, <1>9, <1>10, <1>11, <1>12, <1>13, <1>14,
           <1>15, <1>17, <1>18 DEF Next, Step

\* Within the time limit an event with an id is handled at most once by each
\* subscriber, however many threads publish and replay it, where no topic of such
\* an event has a handler twice.
THEOREM HandledAtMostOnce ==
  ASSUME MaxTime < Ttl
  PROVE  Spec /\ []RegisteredOnce => []AtMostOnce
<1>1. Init => OnceInv
  <2> SUFFICES ASSUME Init PROVE OnceInv
    OBVIOUS
  <2>1. \A c \in Subscribed, p \in Keyed : delivered[c][p] = 0
    BY BusAssumption DEF Init, Subscribed, Consumers
  <2>2. \A t \in Threads : Sole(t)
    BY DEF Init, Sole, Dispatching
  <2>3. AtMostOnce
    BY <2>1 DEF AtMostOnce, Subscribed
  <2> QED BY <2>1, <2>2, <2>3, TypeInit DEF OnceInv
<1>2. OnceInv => AtMostOnce
  BY DEF OnceInv
<1> QED BY <1>1, <1>2, OnceStep, PTL DEF Spec
=============================================================================
