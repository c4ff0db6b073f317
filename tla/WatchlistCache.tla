--------------------------- MODULE WatchlistCache ---------------------------
(***************************************************************************)
(* The active-watchlist cache of each API process                          *)
(* (services/watchlist_matcher.py) and the endpoints that change the       *)
(* watchlist and invalidate the cache of their own process                 *)
(* (api/watchlist.py).                                                     *)
(***************************************************************************)
EXTENDS Integers

CONSTANTS
  Threads,     \* threads that match plates or change the watchlist
  Processes,
  ProcessOf,   \* the API process of each thread
  Entries,     \* watchlist rows
  Ttl,         \* _CACHE_TTL_SEC
  MaxIO,       \* bound: ticks between a database read and the store after it
  MaxTime, MaxChanges   \* bounds

CacheAssumption ==
  /\ ProcessOf \in [Threads -> Processes]
  /\ Ttl \in Nat /\ MaxIO \in Nat /\ MaxTime \in Nat /\ MaxChanges \in Nat

Past == 0 - Ttl - 1        \* 0.0, the cache time of an invalidated cache

VARIABLES
  now,         \* time.time()
  active,      \* entries with status ACTIVE
  cached,      \* _cached_active of each process
  cacheTime,   \* _last_cache_time of each process
  pc,
  started,     \* when the thread entered get_active_watchlist
  list,        \* the list the thread read or was given
  readAt,      \* when the thread read it from the database
  changes,     \* endpoint calls so far
  current,     \* history: watchlists that were current during each tick
  settled      \* history: time of the last change whose call has returned

vars == <<now, active, cached, cacheTime, pc, started, list, readAt, changes,
          current, settled>>

Init ==
  /\ now = 0
  /\ active = {}
  /\ cached = [p \in Processes |-> {}]
  /\ cacheTime = [p \in Processes |-> Past]
  /\ pc = [t \in Threads |-> "idle"]
  /\ started = [t \in Threads |-> 0]
  /\ list = [t \in Threads |-> {}]
  /\ readAt = [t \in Threads |-> 0]
  /\ changes = 0
  /\ current = [i \in 0 .. MaxTime |-> IF i = 0 THEN {{}} ELSE {}]
  /\ settled = 0

Own(t) == ProcessOf[t]

\* An empty list is falsy: it is never served from the cache.
Fresh(t) == cached[Own(t)] # {} /\ now - cacheTime[Own(t)] < Ttl

-----------------------------------------------------------------------------
(* get_active_watchlist *)

\* Mutant of Hit: the age is not looked at.
HitAnyAge(t) ==
  /\ pc[t] = "idle"
  /\ cached[Own(t)] # {}
  /\ started' = [started EXCEPT ![t] = now]
  /\ list' = [list EXCEPT ![t] = cached[Own(t)]]
  /\ pc' = [pc EXCEPT ![t] = "match"]
  /\ UNCHANGED <<now, active, cached, cacheTime, readAt, changes, current, settled>>

Hit(t) ==
  /\ pc[t] = "idle"
  /\ Fresh(t)
  /\ started' = [started EXCEPT ![t] = now]
  /\ list' = [list EXCEPT ![t] = cached[Own(t)]]
  /\ pc' = [pc EXCEPT ![t] = "match"]
  /\ UNCHANGED <<now, active, cached, cacheTime, readAt, changes, current, settled>>

Miss(t) ==
  /\ pc[t] = "idle"
  /\ ~Fresh(t)
  /\ started' = [started EXCEPT ![t] = now]
  /\ pc' = [pc EXCEPT ![t] = "read"]
  /\ UNCHANGED <<now, active, cached, cacheTime, list, readAt, changes, current,
                 settled>>

\* the query, outside the lock
Read(t) ==
  /\ pc[t] = "read"
  /\ list' = [list EXCEPT ![t] = active]
  /\ readAt' = [readAt EXCEPT ![t] = now]
  /\ pc' = [pc EXCEPT ![t] = "store"]
  /\ UNCHANGED <<now, active, cached, cacheTime, started, changes, current, settled>>

\* The list is stored with the time of the store, whatever was invalidated or
\* stored since the query.
Store(t) ==
  /\ pc[t] = "store"
  /\ cached' = [cached EXCEPT ![Own(t)] = list[t]]
  /\ cacheTime' = [cacheTime EXCEPT ![Own(t)] = now]
  /\ pc' = [pc EXCEPT ![t] = "match"]
  /\ UNCHANGED <<now, active, started, list, readAt, changes, current, settled>>

\* check_plate has compared the plate with the list
Matched(t) ==
  /\ pc[t] = "match"
  /\ pc' = [pc EXCEPT ![t] = "idle"]
  /\ started' = [started EXCEPT ![t] = 0]
  /\ list' = [list EXCEPT ![t] = {}]
  /\ readAt' = [readAt EXCEPT ![t] = 0]
  /\ UNCHANGED <<now, active, cached, cacheTime, changes, current, settled>>

-----------------------------------------------------------------------------
(* add_to_watchlist and delete_from_watchlist: commit, then invalidate *)

Change(t) ==
  /\ pc[t] = "idle"
  /\ changes < MaxChanges
  /\ changes' = changes + 1
  /\ \/ \E e \in Entries \ active : active' = active \union {e}
     \/ \E e \in active : active' = active \ {e}
  /\ current' = [current EXCEPT ![now] = @ \union {active'}]
  /\ pc' = [pc EXCEPT ![t] = "invalidate"]
  /\ UNCHANGED <<now, cached, cacheTime, started, list, readAt, settled>>

\* Mutant of Invalidate: the list is kept, only its time is reset.
InvalidateTimeOnly(t) ==
  /\ pc[t] = "invalidate"
  /\ cacheTime' = [cacheTime EXCEPT ![Own(t)] = Past]
  /\ settled' = now
  /\ pc' = [pc EXCEPT ![t] = "idle"]
  /\ UNCHANGED <<now, active, cached, started, list, readAt, changes, current>>

Invalidate(t) ==
  /\ pc[t] = "invalidate"
  /\ cached' = [cached EXCEPT ![Own(t)] = {}]
  /\ cacheTime' = [cacheTime EXCEPT ![Own(t)] = Past]
  /\ settled' = now
  /\ pc' = [pc EXCEPT ![t] = "idle"]
  /\ UNCHANGED <<now, active, started, list, readAt, changes, current>>

-----------------------------------------------------------------------------
\* Time passes, but no store waits longer than MaxIO for its turn.
Tick ==
  /\ now < MaxTime
  /\ \A t \in Threads : pc[t] = "store" => now < readAt[t] + MaxIO
  /\ now' = now + 1
  /\ current' = [current EXCEPT ![now + 1] = {active}]
  /\ UNCHANGED <<active, cached, cacheTime, pc, started, list, readAt, changes,
                 settled>>

Step(t) ==
  Hit(t) \/ Miss(t) \/ Read(t) \/ Store(t) \/ Matched(t) \/ Change(t) \/ Invalidate(t)

Next == Tick \/ \E t \in Threads : Step(t)

Spec == Init /\ [][Next]_vars
-----------------------------------------------------------------------------
(* Properties *)

\* Every variable keeps its type; an invalidated cache is an expired one.
TypeOK ==
  /\ now \in 0 .. MaxTime
  /\ active \subseteq Entries
  /\ cached \in [Processes -> SUBSET Entries]
  /\ cacheTime \in [Processes -> {Past} \union 0 .. now]
  /\ \A p \in Processes : cacheTime[p] = Past => cached[p] = {}
  /\ pc \in [Threads -> {"idle", "read", "store", "match", "invalidate"}]
  /\ started \in [Threads -> 0 .. now]
  /\ list \in [Threads -> SUBSET Entries]
  /\ readAt \in [Threads -> 0 .. now]
  /\ changes \in 0 .. MaxChanges
  /\ current \in [0 .. MaxTime -> SUBSET SUBSET Entries]

\* The watchlists that were current at some time since `from`
CurrentSince(from) ==
  UNION {current[i] : i \in {j \in 0 .. now : j >= from}}

\* A plate is matched against a watchlist that was current at most the cache's
\* lifetime, and one database round trip, before the match began; so an entry
\* that was added is found, and one that was removed forgotten, by then, in
\* every process and whatever the calls interleaved with.
BoundedStaleness ==
  \A t \in Threads :
    pc[t] = "match" => list[t] \in CurrentSince(started[t] - Ttl - MaxIO)

\* "in-memory watchlist caching with invalidation": a match that begins after
\* the call that changed the watchlist has returned does not use an older list.
\* The code does not keep this one; no run checks it, and the README shows the
\* instance in which it fails.
InvalidationEffective ==
  \A t \in Threads :
    pc[t] = "match" /\ started[t] > settled => list[t] \in CurrentSince(settled)
=============================================================================
