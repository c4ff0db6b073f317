------------------------------ MODULE MCCameras ------------------------------
(* An instance of CameraSystem for TLC. *)
EXTENDS CameraSystem, TLC

CONSTANTS v1, v2, c1, c2, c3, k1, k2, t1, t2, s1, s2, s3, a1, a2

TwoViewers == {v1, v2}
ThreeCameras == {c1, c2, c3}
C3 == {c3}
T12 == {t1, t2}

\* A camera that was seeded and one to be onboarded with a URL of this host, near
\* each other.
K12 == {k1, k2}
K1 == {k1}
K2 == {k2}
BothWays == {<<k1, k2>>, <<k2, k1>>}

S123 == {s1, s2, s3}
A12 == {a1, a2}

ASSUME Instances == Registry!RegistryAssumption /\ Topology!GraphAssumption

\* The broadcasts alone.
BroadcastSpec == RealtimeInit /\ [][RealtimeNext]_allVars

\* Alike are the viewers, the cameras with a supported codec, and the threads.
Alike == Permutations({v1, v2}) \union Permutations({c1, c2}) \union Permutations({t1, t2})
-----------------------------------------------------------------------------
\* "Real-time WebSocket broadcast for hotlist alerts" (Realtime, event_bus.py:243)
AlertsAreBroadcast == part = "broadcasts" => Broadcast!AlertsAreBroadcast
=============================================================================
