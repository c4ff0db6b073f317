----------------------------- MODULE MCServices -----------------------------
(* An instance of Services for TLC. *)
EXTENDS Services, TLC

CONSTANTS
  t1, t2, t3, api1, api2, entry, d1, d2, p1, p2, e1, e2, content

\* The audit chain: three threads of one process, and direct rows with one content.
ThreeThreads == {t1, t2, t3}
OneProcess == {api1}
AllInOne == [t \in ThreeThreads |-> api1]
OneContent == {content}

\* The cache: two threads of one process and one of another.
TwoHosts == {api1, api2}
OneOfThree == [t \in ThreeThreads |-> IF t = t3 THEN api2 ELSE api1]
OneEntry == {entry}

\* The alerts: d2 comes as late as still belongs to the incident of d1.
D12 == {d1, d2}
D1 == {d1}
BothPaths == {"batch", "stream"}
Times == [d \in D12 |-> IF d = d1 THEN 0 ELSE 2]

T12 == {t1, t2}
P12 == {p1, p2}
E12 == {e1, e2}
BothDrivers == {"local", "minio"}

\* Every call; and those that the endpoints make, all but the worker's statistics.
Programs == INSTANCE LockPrograms
EveryCall == Programs!AllCalls
EndpointCalls == Programs!AllCalls \ {"stats"}

\* t1 and t2 are alike wherever they appear.
SameProcess == Permutations({t1, t2})
=============================================================================
