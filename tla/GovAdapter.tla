----------------------------- MODULE GovAdapter -----------------------------
(***************************************************************************)
(* The adapters of government registries and the bundle of their answers:  *)
(* backend/app/services/gov_adapters/base.py and bundle.py, with the keys  *)
(* they cache under in backend/app/core/redis_client.py.                   *)
(*                                                                         *)
(* One identifier is looked up.  The six adapters answer from memory and   *)
(* do not raise, so the first of the three attempts is the only one.  What *)
(* an answer says, its signature and the telemetry are left out.           *)
(***************************************************************************)
EXTENDS Naturals, Sequences, FiniteSets, Functions

CONSTANTS
  Threads, Adapters,
  Window,      \* the minute
  Ttl,         \* CACHE_TTL_SEC
  GovScopes    \* threads; the adapters of the bundle, in the order
               \* query_intel_bundle asks them; RATE_LIMIT_PER_MINUTE; bounds:
               \* the clock, the calls, the changes of mode and infrastructure

Deployments == [threads : SUBSET Threads, bundle : Seq(Adapters), limit : Nat \ {0},
                time : Nat, calls : Nat, switches : Nat]

GovAssumption ==
  /\ Window \in Nat /\ Ttl \in Nat
  /\ \A s \in GovScopes : s \in Deployments

Modes == {"MOCK", "AUTHORIZED_PRODUCTION"}   \* SANDBOX behaves as MOCK
Stores == {"redis", "fallback"}

VARIABLES
  scope,      \* the deployment of this behaviour and its bounds
  now,
  mode,       \* adapter -> its mode
  ready,      \* whether the certificates and the VPN are there
  stamps,     \* adapter -> _recent_query_timestamps, as the queries they are of
  cache,      \* adapter, store -> the answer it keeps, if any
  work,       \* thread -> the adapters it has to ask, and where it is with the first
  given,      \* thread -> the last answer it got, if any, and when
  admitted,   \* adapter -> the queries it admitted, numbered, and when
  crossed,    \* the adapters whose list two threads have ever rebuilt at once
  calls, switches

vars == <<scope, now, mode, ready, stamps, cache, work, given, admitted, crossed, calls, switches>>

NoAnswer == [status |-> "none"]
Idle == [todo |-> <<>>, at |-> "rebuild", recent |-> {}, asked |-> 0, steady |-> TRUE]

Services == Range(scope.bundle)
Queries == [no : Nat \ {0}, at : Nat]
Answers == {NoAnswer} \cup [status : {"found"}, retrieved : Nat]
Given == {NoAnswer} \cup [status : {"found"}, retrieved : Nat, at : Nat, guarded : BOOLEAN,
                         steady : BOOLEAN]
Phases == {"rebuild", "replace", "check", "append", "verify", "look", "fetch", "label"}

TypeOK ==
  /\ scope \in GovScopes
  /\ now \in 0..scope.time /\ ready \in BOOLEAN
  /\ mode \in [Services -> Modes]
  /\ stamps \in [Services -> SUBSET Queries] /\ admitted \in [Services -> SUBSET Queries]
  /\ \A s \in Services : IsFiniteSet(stamps[s]) /\ IsFiniteSet(admitted[s])
  /\ cache \in [Services \X Stores -> Answers]
  /\ work \in [Threads -> [todo : Seq(Services), at : Phases, recent : SUBSET Queries,
                          asked : Nat, steady : BOOLEAN]]
  /\ \A t \in Threads : IsFiniteSet(work[t].recent)
  /\ given \in [Threads -> Given]
  /\ crossed \subseteq Services
  /\ calls \in 0..scope.calls /\ switches \in 0..scope.switches

Init ==
  /\ scope \in GovScopes
  /\ now = 0 /\ ready = FALSE /\ calls = 0 /\ switches = 0 /\ crossed = {}
  /\ mode \in [Services -> Modes]
  /\ stamps = [s \in Services |-> {}] /\ admitted = [s \in Services |-> {}]
  /\ cache = [place \in Services \X Stores |-> NoAnswer]
  /\ work = [t \in Threads |-> Idle] /\ given = [t \in Threads |-> NoAnswer]

Asks(t, s) == work[t].todo # <<>> /\ Head(work[t].todo) = s
At(t, s, phase) == Asks(t, s) /\ work[t].at = phase
Go(t, phase) == work' = [work EXCEPT ![t].at = phase]

\* An exception ends the whole call.
Raise(t) == work' = [work EXCEPT ![t] = Idle]

Answer(t, s, answer) ==
  /\ given' = [given EXCEPT ![t] =
       [status |-> "found", retrieved |-> answer.retrieved, at |-> now,
        guarded |-> ready \/ mode[s] # "AUTHORIZED_PRODUCTION", steady |-> work[t].steady]]
  /\ work' = [work EXCEPT ![t] = [Idle EXCEPT !.todo = Tail(work[t].todo), !.steady = work[t].steady]]
-----------------------------------------------------------------------------
\* One adapter is asked, or all of them.
Call(t) ==
  /\ work[t].todo = <<>> /\ calls < scope.calls
  /\ \E todo \in {scope.bundle} \cup {<<s>> : s \in Services} :
       work' = [work EXCEPT ![t] = [Idle EXCEPT !.todo = todo]]
  /\ calls' = calls + 1
  /\ UNCHANGED <<now, mode, ready, stamps, cache, given, admitted, crossed, switches>>

\* Mutant of Recent: a query just as old as the window is forgotten.
RecentShort(s) == {q \in stamps[s] : now < q.at + Window}

Recent(s) == {q \in stamps[s] : now <= q.at + Window}

\* _enforce_rate_limit: the list is rebuilt, replaced, checked and appended to.
RateLimit(t, s) ==
  /\ \/ /\ At(t, s, "rebuild")
        /\ work' = [work EXCEPT ![t].at = "replace", ![t].recent = Recent(s), ![t].asked = now]
        /\ crossed' = IF \E u \in Threads \ {t}, at \in {"replace", "check", "append"} : At(u, s, at)
                      THEN crossed \cup {s} ELSE crossed
        /\ UNCHANGED <<stamps, admitted>>
     \/ /\ At(t, s, "replace") /\ Go(t, "check")
        /\ stamps' = [stamps EXCEPT ![s] = work[t].recent]
        /\ UNCHANGED <<admitted, crossed>>
     \/ /\ At(t, s, "check")
        /\ IF Cardinality(stamps[s]) >= scope.limit THEN Raise(t) ELSE Go(t, "append")
        /\ UNCHANGED <<stamps, admitted, crossed>>
     \/ /\ At(t, s, "append") /\ Go(t, "verify")
        /\ LET query == [no |-> Cardinality(admitted[s]) + 1, at |-> work[t].asked]
           IN  /\ stamps' = [stamps EXCEPT ![s] = @ \cup {query}]
               /\ admitted' = [admitted EXCEPT ![s] = @ \cup {query}]
        /\ UNCHANGED crossed
  /\ UNCHANGED <<now, mode, ready, cache, given, calls, switches>>

\* _verify_production_prerequisites
Verify(t, s) ==
  /\ At(t, s, "verify")
  /\ IF mode[s] = "AUTHORIZED_PRODUCTION" /\ ~ready THEN Raise(t) ELSE Go(t, "look")
  /\ UNCHANGED <<now, mode, ready, stamps, cache, given, admitted, crossed, calls, switches>>

\* Mutant of Live: a kept answer does not expire.
LiveForever(s, k) == cache[<<s, k>>] # NoAnswer

Live(s, k) == cache[<<s, k>>] # NoAnswer /\ now <= cache[<<s, k>>].retrieved + Ttl

\* RedisStateClient.get: Redis answers, or the fall-back store is asked.
Look(t, s) ==
  /\ At(t, s, "look")
  /\ \/ \E k \in Stores : Live(s, k) /\ Answer(t, s, cache[<<s, k>>])
     \/ ~Live(s, "fallback") /\ Go(t, "fetch") /\ UNCHANGED given
  /\ UNCHANGED <<now, mode, ready, stamps, cache, admitted, crossed, calls, switches>>

Fetch(t, s) ==
  /\ At(t, s, "fetch") /\ Go(t, "label")
  /\ UNCHANGED <<now, mode, ready, stamps, cache, given, admitted, crossed, calls, switches>>

\* The answer is labelled, signed, kept in Redis or the fall-back store, returned.
Label(t, s) ==
  /\ At(t, s, "label")
  /\ LET answer == [status |-> "found", retrieved |-> now]
     IN  /\ Answer(t, s, answer)
         /\ \E k \in Stores : cache' = [cache EXCEPT ![<<s, k>>] = answer]
  /\ UNCHANGED <<now, mode, ready, stamps, admitted, crossed, calls, switches>>

\* set_mode, and the infrastructure of the host.
Switch ==
  /\ switches < scope.switches /\ switches' = switches + 1
  /\ \/ \E s \in Services, m \in Modes : mode' = [mode EXCEPT ![s] = m] /\ UNCHANGED ready
     \/ ready' = ~ready /\ UNCHANGED mode
  /\ work' = [t \in Threads |-> [work[t] EXCEPT !.steady = FALSE]]
  /\ UNCHANGED <<now, stamps, cache, given, admitted, crossed, calls>>

Tick ==
  /\ now < scope.time /\ now' = now + 1
  /\ UNCHANGED <<mode, ready, stamps, cache, work, given, admitted, crossed, calls, switches>>

Query(t, s) == RateLimit(t, s) \/ Verify(t, s) \/ Look(t, s) \/ Fetch(t, s) \/ Label(t, s)

Next ==
  /\ \/ \E t \in scope.threads : Call(t) \/ \E s \in Services : Query(t, s)
     \/ Switch \/ Tick
  /\ UNCHANGED scope

Spec == Init /\ [][Next]_vars
-----------------------------------------------------------------------------
(* "rate limiting to prevent overwhelming government NIC/GSDC gateway nodes" *)
(* (base.py:77): an adapter that one thread asks at a time admits no more   *)
(* queries in a minute than its limit.  Threads that rebuild the list at    *)
(* once lose one another's stamps, or both pass the check.                 *)
WithinLimit ==
  \A s \in Services \ crossed :
    \A from \in 0..now :
      Cardinality({q \in admitted[s] : from <= q.at /\ q.at <= from + Window}) <= scope.limit

(* An answer is no older than the lifetime of the cache, whichever store it  *)
(* comes from; and in production, cached or not, it is given only with the  *)
(* infrastructure verified: "refuses to operate without verified government *)
(* infrastructure" (base.py:101), unless that or the mode changed meanwhile. *)
AnswerGuarded ==
  \A t \in Threads :
    given[t].status = "found" =>
      /\ given[t].at <= given[t].retrieved + Ttl
      /\ given[t].steady => given[t].guarded
=============================================================================
