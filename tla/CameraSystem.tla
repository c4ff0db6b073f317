---------------------------- MODULE CameraSystem ----------------------------
(***************************************************************************)
(* What stands between cameras and dashboards, one component at a time:    *)
(* the stream pool (StreamPool, whose own variables and properties these   *)
(* are), the camera registry, the camera graph over the registry, and the  *)
(* broadcast of alerts.  `part` is the one that runs; the variables of the *)
(* others stay Off, those of the pool as they start.                       *)
(***************************************************************************)
EXTENDS StreamPool

CONSTANTS
  Threads,        \* that serve requests to the registry and the graph
  Sites,          \* the cameras of these two
  Seeded, Local, MaxReports,                                  \* of CameraRegistry
  Near, MaxBuilds,                                            \* of CameraGraph
  MaxMeanwhile,   \* bound: reports while the graph is in use
  Dashboards, Alerts,                                         \* of Realtime
  Off             \* the value of a variable of a component that does not run

VARIABLES
  part,
  status, health, bound, request, reports, told, crossed,     \* CameraRegistry
  nodes, out, edges, weighed, work, builds, seen, raced,      \* CameraGraph
  socket, joined, clients, task, left, dead, got, meant       \* Realtime

registryVars == <<status, health, bound, request, reports, told, crossed>>
graphVars == <<nodes, out, edges, weighed, work, builds, seen, raced>>
realtimeVars == <<socket, joined, clients, task, left, dead, got, meant>>
allVars == <<part, vars, registryVars, graphVars, realtimeVars>>

Registry == INSTANCE CameraRegistry WITH Cameras <- Sites
Topology == INSTANCE CameraGraph WITH Cameras <- Sites
Broadcast == INSTANCE Realtime

RegistryOff ==
  /\ status = Off /\ health = Off /\ bound = Off /\ request = Off /\ reports = Off
  /\ told = Off /\ crossed = Off
GraphOff ==
  /\ nodes = Off /\ out = Off /\ edges = Off /\ weighed = Off /\ work = Off
  /\ builds = Off /\ seen = Off /\ raced = Off
RealtimeOff ==
  /\ socket = Off /\ joined = Off /\ clients = Off /\ task = Off /\ left = Off
  /\ dead = Off /\ got = Off /\ meant = Off

RealtimeInit ==
  part = "broadcasts" /\ Broadcast!Init /\ Init /\ RegistryOff /\ GraphOff

AnyInit ==
  \/ part = "streams" /\ Init /\ RegistryOff /\ GraphOff /\ RealtimeOff
  \/ part = "registry" /\ Registry!Init /\ Init /\ GraphOff /\ RealtimeOff
  \/ part = "topology" /\ Registry!Init /\ Topology!Init /\ Init /\ RealtimeOff
  \/ RealtimeInit

\* Reports change the statuses while requests build and read the graph.
TopologyNext ==
  \/ Registry!Next /\ reports' <= MaxMeanwhile /\ UNCHANGED graphVars
  \/ Topology!Next /\ UNCHANGED <<health, bound, request, reports, told, crossed>>

RealtimeNext ==
  part = "broadcasts" /\ Broadcast!Next /\ UNCHANGED <<part, vars, registryVars, graphVars>>

AnyNext ==
  \/ part = "streams" /\ Next /\ UNCHANGED <<part, registryVars, graphVars, realtimeVars>>
  \/ part = "registry" /\ Registry!Next /\ UNCHANGED <<part, vars, graphVars, realtimeVars>>
  \/ part = "topology" /\ TopologyNext /\ UNCHANGED <<part, vars, realtimeVars>>
  \/ RealtimeNext

AnySpec == AnyInit /\ [][AnyNext]_allVars
-----------------------------------------------------------------------------
\* The types of each component.
TypesOK ==
  /\ TypeOK
  /\ part \in {"registry", "topology"} => Registry!TypeOK
  /\ part = "topology" => Topology!TypeOK
  /\ part = "broadcasts" => Broadcast!TypeOK

\* A report that no other one overlapped is in force as a whole (CameraRegistry).
ReportInForce == part \in {"registry", "topology"} => Registry!ReportInForce

\* Requests that overlap no build find the links of one reading (CameraGraph).
TopologyOfOneReading == part = "topology" => Topology!TopologyOfOneReading

\* A dashboard whose connection holds gets what it was to get (Realtime).
EveryClientServed == part = "broadcasts" => Broadcast!EveryClientServed
=============================================================================
