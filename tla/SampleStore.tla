----------------------------- MODULE SampleStore -----------------------------
(***************************************************************************)
(* RedisStateClient (core/redis_client.py) as the temporal fusion uses it:  *)
(* a list of samples per key in Redis, and one in the memory of the process *)
(* for the calls that Redis does not answer.                                *)
(***************************************************************************)
EXTENDS Naturals, Sequences

Elements(list) == {list[i] : i \in DOMAIN list}

CONSTANTS
  Keys,          \* plate_fusion:{camera_id}:{track_id}
  Ttl            \* ttl_seconds

VARIABLES
  now,
  up,            \* Redis answers
  connected,     \* _is_connected
  redis,         \* the lists in Redis
  fallback,      \* _fallback_store
  expires        \* when each list of each store expires

storeVars == <<now, up, connected, redis, fallback, expires>>
lists == <<redis, fallback, expires>>

\* __init__: Redis is connected once, when the process starts.
StoreInit ==
  /\ now = 0
  /\ up \in BOOLEAN
  /\ connected = up
  /\ redis = [k \in Keys |-> <<>>]
  /\ fallback = [k \in Keys |-> <<>>]
  /\ expires = [s \in {"redis", "fallback"} |-> [k \in Keys |-> 0]]

\* A second goes by; Redis drops what has expired, the fallback does not.
Tick ==
  /\ now' = now + 1
  /\ redis' = [k \in Keys |-> IF expires["redis"][k] <= now' THEN <<>> ELSE redis[k]]
  /\ UNCHANGED <<up, connected, fallback, expires>>

RedisFails == up /\ up' = FALSE /\ UNCHANGED <<now, connected, lists>>
RedisReturns == ~up /\ up' = TRUE /\ UNCHANGED <<now, connected, lists>>

\* A failed ping disconnects the client for good; a later one that succeeds
\* answers READY and changes nothing.
HealthCheck ==
  /\ connected' = (connected /\ up)
  /\ UNCHANGED <<now, up, lists>>

\* The connection is tried, and answers.
Answers == connected /\ up

PushTo(s, k, sample) ==
  /\ expires' = [expires EXCEPT ![s][k] = now + Ttl]
  /\ IF s = "redis" THEN redis' = [redis EXCEPT ![k] = Append(@, sample)]
                         /\ UNCHANGED fallback
     ELSE fallback' = [fallback EXCEPT ![k] = Append(@, sample)] /\ UNCHANGED redis

\* record_track_ocr_sample.  The fallback appends to a list that has expired.
Record(k, sample) ==
  /\ PushTo(IF Answers THEN "redis" ELSE "fallback", k, sample)
  /\ UNCHANGED <<now, up, connected>>

\* Redis took the sample and its answer was lost: it is in both stores.
RecordTwice(k, sample) ==
  /\ Answers
  /\ redis' = [redis EXCEPT ![k] = Append(@, sample)]
  /\ fallback' = [fallback EXCEPT ![k] = Append(@, sample)]
  /\ expires' = [s \in DOMAIN expires |-> [expires[s] EXCEPT ![k] = now + Ttl]]
  /\ UNCHANGED <<now, up, connected>>

\* get_track_ocr_samples: an expired list of the fallback is deleted.
Expired(k) == now > expires["fallback"][k]
Samples(k) ==
  IF Answers THEN redis[k] ELSE IF Expired(k) THEN <<>> ELSE fallback[k]
Read(k) ==
  /\ fallback' = IF ~Answers /\ Expired(k) THEN [fallback EXCEPT ![k] = <<>>]
                 ELSE fallback
  /\ UNCHANGED <<now, up, connected, redis, expires>>

RestartStore ==
  /\ connected' = up
  /\ fallback' = [k \in Keys |-> <<>>]
  /\ expires' = [expires EXCEPT !["fallback"] = [k \in Keys |-> 0]]
  /\ UNCHANGED <<now, up, redis>>
=============================================================================
