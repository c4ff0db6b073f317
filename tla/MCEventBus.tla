----------------------------- MODULE MCEventBus -----------------------------
(* TLC instances of EventBus: a sightings topic that is handed to the      *)
(* micro-batch worker and has an alias, and a plain topic.                 *)
EXTENDS EventBus

CONSTANTS t1, t2, p1, p2, p3, h1, g1, sightings, anpr

MCThreads == {t1, t2}
P1 == {p1}
P123 == {p1, p2, p3}
P3 == {p3}
H1 == {h1}
G1 == {g1}
MCTopics == {sightings, anpr}
SightingsTopic == {sightings}

\* p1 is an ANPR result, p2 a raw sighting, and p3 an ANPR result of a camera whose
\* number is no string.
MCTopicOf == [p \in P123 |-> IF p = p2 THEN sightings ELSE anpr]

MCAliases == [tp \in MCTopics |-> IF tp = sightings THEN <<sightings>> ELSE <<>>]

MCGroupsOf == [tp \in MCTopics |-> {g1}]
=============================================================================
