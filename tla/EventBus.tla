------------------------------ MODULE EventBus ------------------------------
(***************************************************************************)
(* The in-process event bus (services/event_bus.py) and the replay of      *)
(* quarantined events through it (api/system.py): idempotency check,       *)
(* hand-over of sightings to the micro-batch worker, dispatch with retries *)
(* to subscribers, consumer groups with offsets, dead letter queue (DLQ).  *)
(*                                                                         *)
(* A step is one critical section or one handler call.  All payloads share *)
(* a partition, so an offset belongs to a group and a topic.               *)
(***************************************************************************)
EXTENDS DeadLetterQueue, FiniteSets, Functions

CONSTANTS
  Threads,          \* threads that publish, subscribe and replay
  NoThread,
  Payloads,         \* event payloads
  Keyed,            \* payloads with an "event_id" or "id" of their own
  BadKeys,          \* payloads whose partition key (camera_id, plate_text, plate or
                    \* case_number) is no string; a publisher may pass another key
  Topics,
  TopicOf,          \* the topic of each payload
  Buffered,         \* topics publish hands to the micro-batch worker
  Raw,              \* topics a replay hands to it instead of publishing
  Aliases,          \* topics subscribe() adds the handler to once more
  Handlers,         \* subscribers
  Groups,           \* consumer groups
  GroupsOf,         \* the groups with a handler for each topic
  MicroBatch,       \* the micro-batch worker, as a consumer
  Ttl,              \* ttl_seconds of is_duplicate
  MaxTime, MaxPublishes, MaxReplays, MaxSubscriptions   \* bounds

ASSUME BusAssumption ==
  /\ NoThread \notin Threads
  /\ Payloads # {} /\ Keyed \subseteq Payloads /\ BadKeys \subseteq Payloads
  /\ TopicOf \in [Payloads -> Topics]
  /\ Buffered \subseteq Topics /\ Raw \subseteq Topics
  /\ Aliases \in [Topics -> Seq(Topics)]
  /\ GroupsOf \in [Topics -> SUBSET Groups]
  /\ MicroBatch \notin Handlers \union Groups
  /\ Handlers \intersect Groups = {}
  /\ Ttl \in Nat \ {0}
  /\ MaxTime \in Nat /\ MaxPublishes \in Nat
  /\ MaxReplays \in Nat /\ MaxSubscriptions \in Nat

MaxAttempts == 3                   \* range(1, 4)
Consumers == Handlers \union Groups \union {MicroBatch}
Pills == [payload : Payloads, by : Consumers]

VARIABLES
  now,             \* time.time()
  subscribers,     \* _subscribers: the handler list of each topic
  seen,            \* _seen_event_ids: id -> time recorded
  offsets,         \* _consumer_offsets of each group and topic
  dlq,             \* DeadLetterQueueManager._dlq: payload and who failed it
  dlqHolder,       \* the thread inside replay_messages, holding the DLQ lock
  replayTodo, remaining, \* replay_messages' locals
  pc,              \* each thread's place in publish
  clock,           \* the time is_duplicate read before taking the lock
  payload,         \* the payload being published
  todo,            \* handlers still to call, a snapshot
  attempt,         \* attempt number for the first of them
  groups,          \* groups still to call
  read,            \* the group and offset that get_offset returned
  publishes, replays, subscriptions, \* calls so far
  owed,            \* history: consumers each accepted payload was due to reach
  delivered,       \* history: successful calls of each consumer per payload
  handled,         \* history: those of each group per topic
  evicted          \* history: pills the bounded deque pushed out

bus == <<subscribers, seen, offsets>>
replay == <<dlqHolder, replayTodo, remaining, replays>>
local == <<clock, payload, todo, attempt, groups, read>>
history == <<publishes, subscriptions, owed, delivered, handled>>
vars == <<now, bus, dlq, evicted, replay, pc, local, history>>

Put(f, x, v) == [y \in DOMAIN f \union {x} |-> IF y = x THEN v ELSE f[y]]

EmptyMap == [x \in {} |-> 0]

Init ==
  /\ now = 0
  /\ subscribers = [tp \in Topics |-> <<>>]
  /\ seen = EmptyMap
  /\ offsets = [g \in Groups |-> [tp \in Topics |-> 0]]
  /\ dlq = <<>>
  /\ dlqHolder = NoThread
  /\ replayTodo = <<>>
  /\ remaining = <<>>
  /\ pc = [t \in Threads |-> "idle"]
  /\ clock = [t \in Threads |-> 0]
  /\ payload = [t \in Threads |-> CHOOSE p \in Payloads : TRUE]
  /\ todo = [t \in Threads |-> <<>>]
  /\ attempt = [t \in Threads |-> 1]
  /\ groups = [t \in Threads |-> {}]
  /\ read = [t \in Threads |-> <<>>]
  /\ publishes = 0 /\ replays = 0 /\ subscriptions = 0
  /\ owed = [p \in Payloads |-> {}]
  /\ delivered = [c \in Consumers |-> [p \in Payloads |-> 0]]
  /\ handled = [g \in Groups |-> [tp \in Topics |-> 0]]
  /\ evicted = {}

Topic(t) == TopicOf[payload[t]]
Delivered(c, p) == delivered' = [delivered EXCEPT ![c][p] = @ + 1]

DlqOpen(t) == dlqHolder \in {NoThread, t}

Quarantine(t, c) ==
  LET pill == [payload |-> payload[t], by |-> c]
  IN /\ DlqOpen(t)
     /\ dlq' = Push(dlq, pill)
     /\ evicted' = evicted \union Displaced(dlq)

-----------------------------------------------------------------------------
(* subscribe: one append for the topic, one more for each alias of it, and *)
(* the alias list of a topic contains the topic itself.                    *)

Subscribe(h, tp) ==
  LET appends(x) == (IF x = tp THEN 1 ELSE 0)
                      + Cardinality({i \in DOMAIN Aliases[tp] : Aliases[tp][i] = x})
  IN /\ subscriptions < MaxSubscriptions
     /\ subscriptions' = subscriptions + 1
     /\ subscribers' = [x \in Topics |->
                          subscribers[x] \o [i \in 1 .. appends(x) |-> h]]
     /\ UNCHANGED <<now, seen, offsets, dlq, evicted, replay, pc, local,
                    publishes, owed, delivered, handled>>

-----------------------------------------------------------------------------
(* publish *)

\* is_duplicate reads the clock before it takes the lock.
Enter(t, p) ==
  /\ payload' = [payload EXCEPT ![t] = p]
  /\ clock' = [clock EXCEPT ![t] = now]
  /\ pc' = [pc EXCEPT ![t] = "check"]

Publish(t, p) ==
  /\ pc[t] = "idle"
  /\ publishes < MaxPublishes
  /\ publishes' = publishes + 1
  /\ Enter(t, p)
  /\ UNCHANGED <<now, bus, dlq, evicted, replay, todo, attempt, groups, read,
                 subscriptions, owed, delivered, handled>>

\* Back to the caller: a publisher, or the replay loop and its next item.
Return(t) ==
  /\ pc' = [pc EXCEPT ![t] = IF dlqHolder = t THEN "replay" ELSE "idle"]
  /\ replayTodo' = IF dlqHolder = t THEN Tail(replayTodo) ELSE replayTodo

\* Mutant of Expired: the purge drops the ids that are still live.
ExpiredLive(t) == {p \in DOMAIN seen : clock[t] <= seen[p] + Ttl}

\* A purge drops the ids older than the limit, when there are many ids; a
\* payload without an id gets a fresh one, so the number of ids is any number.
Expired(t) == {p \in DOMAIN seen : clock[t] > seen[p] + Ttl}

AfterPurge(t) == {seen, Restrict(seen, DOMAIN seen \ Expired(t))}

IsDuplicate(t, ids) ==
  payload[t] \in DOMAIN ids /\ clock[t] < ids[payload[t]] + Ttl

IgnoreDuplicate(t) ==
  /\ pc[t] = "check"
  /\ \E ids \in AfterPurge(t) : IsDuplicate(t, ids) /\ seen' = ids
  /\ Return(t)
  /\ UNCHANGED <<now, subscribers, offsets, dlq, evicted, dlqHolder, remaining, replays,
                 local, history>>

\* The id is recorded in the critical section that found it new.
Accept(t) ==
  /\ pc[t] = "check"
  /\ \E ids \in AfterPurge(t) :
       /\ ~IsDuplicate(t, ids)
       /\ seen' = IF payload[t] \in Keyed
                  THEN Put(ids, payload[t], clock[t]) ELSE ids
  /\ pc' = [pc EXCEPT ![t] = "record"]
  /\ UNCHANGED <<now, subscribers, offsets, dlq, evicted, replay, local,
                 publishes, subscriptions, owed, delivered, handled>>

\* compute_partition raises on a key that is no string, when the id is recorded
\* already.  The exception reaches the publisher; the replay loop keeps the item.  A
\* replay passes no key, so that the payload's own is taken.
PublishRaises(t) ==
  /\ pc[t] = "record"
  /\ payload[t] \in BadKeys
  /\ Return(t)
  /\ remaining' = IF dlqHolder = t THEN Append(remaining, Head(replayTodo)) ELSE remaining
  /\ UNCHANGED <<now, bus, dlq, evicted, dlqHolder, replays, local, history>>

\* The handler list is copied under the lock.
Record(t) ==
  /\ pc[t] = "record"
  /\ payload[t] \notin BadKeys \/ dlqHolder # t
  /\ todo' = [todo EXCEPT ![t] = subscribers[Topic(t)]]
  /\ attempt' = [attempt EXCEPT ![t] = 1]
  /\ groups' = [groups EXCEPT ![t] = GroupsOf[Topic(t)]]
  /\ owed' = [owed EXCEPT ![payload[t]] = @ \union Elements(subscribers[Topic(t)])
                                            \union GroupsOf[Topic(t)]]
  /\ pc' = [pc EXCEPT ![t] = IF Topic(t) \in Buffered THEN "buffer" ELSE "call"]
  /\ UNCHANGED <<now, bus, dlq, evicted, replay, clock, payload, read,
                 publishes, subscriptions, delivered, handled>>

\* enqueue_sighting has appended the payload by the time its flush can raise.
HandOver(t) ==
  /\ pc[t] = "buffer"
  /\ Delivered(MicroBatch, payload[t])
  /\ \/ UNCHANGED <<dlq, evicted>>
     \/ Quarantine(t, MicroBatch)
  /\ pc' = [pc EXCEPT ![t] = "call"]
  /\ UNCHANGED <<now, bus, replay, local, publishes, subscriptions, owed,
                 handled>>

NextHandler(t) ==
  /\ todo' = [todo EXCEPT ![t] = Tail(@)]
  /\ attempt' = [attempt EXCEPT ![t] = 1]

HandlerReturns(t) ==
  /\ pc[t] = "call"
  /\ todo[t] # <<>>
  /\ Delivered(Head(todo[t]), payload[t])
  /\ NextHandler(t)
  /\ UNCHANGED <<now, bus, dlq, evicted, replay, pc, clock, payload, groups, read,
                 publishes, subscriptions, owed, handled>>

RetryHandler(t) ==
  /\ attempt' = [attempt EXCEPT ![t] = @ + 1]
  /\ UNCHANGED <<dlq, evicted, todo>>

GiveUpHandler(t) ==
  /\ Quarantine(t, Head(todo[t]))
  /\ NextHandler(t)

AtHandler(t) ==
  /\ pc[t] = "call"
  /\ todo[t] # <<>>
  /\ UNCHANGED <<now, bus, replay, pc, clock, payload, groups, read, history>>

\* Mutant of HandlerRaises: after the last attempt it starts over.
HandlerRaisesForEver(t) ==
  /\ AtHandler(t)
  /\ attempt' = [attempt EXCEPT ![t] = IF @ = MaxAttempts THEN 1 ELSE @ + 1]
  /\ UNCHANGED <<dlq, evicted, todo>>

\* Mutant of HandlerRaises: the loop ends one attempt early, before the
\* attempt that quarantines.
HandlerRaisesTwice(t) ==
  /\ AtHandler(t)
  /\ \/ attempt[t] < MaxAttempts - 1 /\ RetryHandler(t)
     \/ attempt[t] = MaxAttempts - 1 /\ NextHandler(t) /\ UNCHANGED <<dlq, evicted>>

HandlerRaises(t) ==
  /\ AtHandler(t)
  /\ \/ attempt[t] < MaxAttempts /\ RetryHandler(t)
     \/ attempt[t] = MaxAttempts /\ GiveUpHandler(t)

\* A group's handler returns and get_offset reads the group's offset.
GroupReturns(t, g) ==
  /\ pc[t] = "call"
  /\ todo[t] = <<>>
  /\ g \in groups[t]
  /\ Delivered(g, payload[t])
  /\ handled' = [handled EXCEPT ![g][Topic(t)] = @ + 1]
  /\ read' = [read EXCEPT ![t] = <<g, offsets[g][Topic(t)]>>]
  /\ groups' = [groups EXCEPT ![t] = @ \ {g}]
  /\ pc' = [pc EXCEPT ![t] = "commit"]
  /\ UNCHANGED <<now, bus, dlq, evicted, replay, clock, payload, todo, attempt,
                 publishes, subscriptions, owed>>

\* commit_offset, in a critical section of its own
CommitOffset(t) ==
  /\ pc[t] = "commit"
  /\ LET group == read[t][1]  current == read[t][2]
     IN offsets' = [offsets EXCEPT ![group][Topic(t)] = current + 1]
  /\ read' = [read EXCEPT ![t] = <<>>]
  /\ pc' = [pc EXCEPT ![t] = "call"]
  /\ UNCHANGED <<now, subscribers, seen, dlq, evicted, replay, clock, payload,
                 todo, attempt, groups, history>>

GroupFails(t, g) ==
  /\ pc[t] = "call"
  /\ todo[t] = <<>>
  /\ g \in groups[t]
  /\ Quarantine(t, g)
  /\ groups' = [groups EXCEPT ![t] = @ \ {g}]
  /\ UNCHANGED <<now, subscribers, seen, replay, pc, clock, payload, todo, attempt,
                 read, history>>

\* Mutant of GroupRaises: the offset advances whether or not the handler raised.
GroupRaisesCommits(t, g) ==
  /\ GroupFails(t, g)
  /\ offsets' = [offsets EXCEPT ![g][Topic(t)] = @ + 1]

GroupRaises(t, g) == GroupFails(t, g) /\ UNCHANGED offsets

PublishReturns(t) ==
  /\ pc[t] = "call"
  /\ todo[t] = <<>>
  /\ groups[t] = {}
  /\ Return(t)
  /\ UNCHANGED <<now, bus, dlq, evicted, dlqHolder, remaining, replays, local, history>>
-----------------------------------------------------------------------------
(* POST /events/dlq/replay and DELETE /events/dlq *)

ReplayStart(t) ==
  /\ pc[t] = "idle"
  /\ dlqHolder = NoThread
  /\ replays < MaxReplays
  /\ replays' = replays + 1
  /\ dlqHolder' = t
  /\ replayTodo' = dlq
  /\ remaining' = <<>>
  /\ pc' = [pc EXCEPT ![t] = "replay"]
  /\ UNCHANGED <<now, bus, dlq, evicted, local, history>>

\* A raw sighting goes to the micro-batch worker, any other event to publish;
\* the reprocessor returns True unless publish raises.
ReplayItem(t) ==
  /\ pc[t] = "replay"
  /\ replayTodo # <<>>
  /\ LET p == Head(replayTodo).payload
     IN \/ /\ TopicOf[p] \in Raw
           /\ Delivered(MicroBatch, p)
           /\ replayTodo' = Tail(replayTodo)
           /\ UNCHANGED <<pc, clock, payload>>
        \/ TopicOf[p] \notin Raw /\ Enter(t, p) /\ UNCHANGED <<delivered, replayTodo>>
  /\ UNCHANGED <<now, bus, dlq, evicted, dlqHolder, remaining, replays, todo,
                 attempt, groups, read, publishes, subscriptions, owed, handled>>

ReplayEnd(t) ==
  /\ pc[t] = "replay"
  /\ replayTodo = <<>>
  /\ dlq' = remaining
  /\ dlqHolder' = NoThread
  /\ pc' = [pc EXCEPT ![t] = "idle"]
  /\ UNCHANGED <<now, bus, evicted, replayTodo, remaining, replays, local, history>>

Tick ==
  /\ now < MaxTime
  /\ now' = now + 1
  /\ UNCHANGED <<bus, dlq, evicted, replay, pc, local, history>>
-----------------------------------------------------------------------------
Step(t) ==
  \/ IgnoreDuplicate(t) \/ Accept(t) \/ PublishRaises(t) \/ Record(t) \/ HandOver(t)
  \/ HandlerReturns(t) \/ HandlerRaises(t)
  \/ \E g \in Groups : GroupReturns(t, g) \/ GroupRaises(t, g)
  \/ CommitOffset(t) \/ PublishReturns(t)
  \/ ReplayItem(t) \/ ReplayEnd(t)

Next ==
  \/ \E t \in Threads :
       Step(t) \/ ReplayStart(t) \/ \E p \in Payloads : Publish(t, p)
  \/ \E h \in Handlers, tp \in Topics : Subscribe(h, tp)
  \/ Tick

Spec == Init /\ [][Next]_vars

\* A call that was made runs on; nothing obliges anybody to make one.
FairSpec == Spec /\ \A t \in Threads : WF_vars(Step(t))
-----------------------------------------------------------------------------
(* Properties *)

\* Every variable keeps its type.
TypeOK ==
  /\ now \in 0 .. MaxTime
  /\ subscribers \in [Topics -> Seq(Handlers)]
  /\ DOMAIN seen \subseteq Keyed
  /\ \A p \in DOMAIN seen : seen[p] \in 0 .. MaxTime
  /\ offsets \in [Groups -> [Topics -> Nat]]
  /\ dlq \in Seq(Pills) /\ Len(dlq) <= DlqMax
  /\ dlqHolder \in Threads \union {NoThread}
  /\ replayTodo \in Seq(Pills) /\ remaining \in Seq(Pills)
  /\ pc \in [Threads -> {"idle", "check", "record", "buffer", "call", "commit",
                         "replay"}]
  /\ clock \in [Threads -> 0 .. MaxTime]
  /\ payload \in [Threads -> Payloads]
  /\ todo \in [Threads -> Seq(Handlers)]
  /\ attempt \in [Threads -> 1 .. MaxAttempts]
  /\ groups \in [Threads -> SUBSET Groups]
  /\ read \in [Threads -> {<<>>} \union (Groups \X Nat)]
  /\ publishes \in 0 .. MaxPublishes
  /\ replays \in 0 .. MaxReplays
  /\ subscriptions \in 0 .. MaxSubscriptions
  /\ owed \in [Payloads -> SUBSET Consumers]
  /\ delivered \in [Consumers -> [Payloads -> Nat]]
  /\ handled \in [Groups -> [Topics -> Nat]]
  /\ evicted \subseteq Pills

\* A thread in the middle of publish still has to call consumer c.
Calling(t, c, p) ==
  pc[t] \in {"buffer", "call", "commit"} /\ payload[t] = p
    /\ c \in Elements(todo[t]) \union groups[t]

Quarantined(c, p) ==
  [payload |-> p, by |-> c] \in Elements(dlq) \union evicted

\* Dispatch loses nothing: a consumer that was registered when an event was
\* accepted has handled it, is still to be called, or has its failure in the
\* dead letter queue (unless the bounded queue pushed it out), until an operator
\* replays that queue.
HandledOrQuarantined ==
  replays = 0 =>
    \A p \in Payloads : \A c \in owed[p] :
      \/ delivered[c][p] > 0
      \/ Quarantined(c, p)
      \/ \E t \in Threads : Calling(t, c, p)

\* "prevent duplicate event processing": inside the time limit no consumer
\* handles an event that carries an id twice, whoever publishes it again, a
\* replay of the dead letter queue included.
AtMostOnce ==
  \A c \in Handlers \union Groups, p \in Keyed : delivered[c][p] <= 1

\* A group's offset never claims an event its handler has not processed.
OffsetNotAhead ==
  \A g \in Groups, tp \in Topics : offsets[g][tp] <= handled[g][tp]

\* "prevent duplicate event processing": an id is recorded for an event that is
\* dispatched, so that an event published again is ignored only if it got through.
\* The code does not keep this one; no run checks it, and the README shows the
\* instance in which it fails.
RecordedIsDispatched ==
  \A p \in DOMAIN seen :
    \/ \E t \in Threads : payload[t] = p /\ pc[t] = "record"
    \/ GroupsOf[TopicOf[p]] \subseteq owed[p]

\* "OFFSET INTEGRITY": a committed offset never moves backwards, so that a
\* consumer resuming from it handles nothing again.
\* The code does not keep this one; no run checks it, and the README shows the
\* instance in which it fails.
OffsetNeverRewinds ==
  [][\A g \in Groups, tp \in Topics : offsets'[g][tp] >= offsets[g][tp]]_vars

\* "Removes successfully recovered events": what leaves the dead letter queue
\* in a replay has by then been handled by the consumer that failed on it.
\* The code does not keep this one; no run checks it, and the README shows the
\* instance in which it fails.
ReplayRecovers ==
  [][dlqHolder # NoThread /\ dlqHolder' = NoThread =>
       \A pill \in Elements(dlq) \ Elements(dlq') :
         delivered[pill.by][pill.payload] > 0]_vars

\* publish and replay return: a handler that keeps failing is given up, and
\* nobody waits for ever on the dead letter queue's lock.
CallsReturn == \A t \in Threads : pc[t] # "idle" ~> pc[t] = "idle"
=============================================================================
