---------------------------- MODULE CameraGraph ----------------------------
(***************************************************************************)
(* The topology of the cameras (backend/app/services/camera_graph.py): one *)
(* object of the process, built on the first request that finds it empty,  *)
(* or finds no node of the camera it asks for, and read by every request.  *)
(* Nothing guards it.  A node stands for a key of _adjacency_map; links    *)
(* carry the build that made them, since two builds make distinct ones.    *)
(* Distances, corridors and weights are reduced to which cameras are near. *)
(***************************************************************************)
EXTENDS Naturals, FiniteSets

CONSTANTS
  Threads, Cameras,
  Near,        \* the pairs of cameras within max_hop_distance_km
  MaxBuilds    \* bound

GraphAssumption ==
  /\ IsFiniteSet(Cameras)
  /\ Near \subseteq {p \in Cameras \X Cameras : p[1] # p[2]}
  /\ MaxBuilds \in Nat

VARIABLES
  status,   \* the registry's, which this component reads
  nodes,    \* keys of _adjacency_map
  out,      \* the links in its lists
  edges,    \* the links of _all_edges
  weighed,  \* the links that have a transition_probability
  work,     \* thread -> its request and where the build is
  builds,
  seen,     \* history: the cameras the last build read
  raced     \* history: a build overlapped another request

graph == <<nodes, out, edges, weighed, builds, seen>>
vars == <<status, graph, work, raced>>

Links == [of : Near, by : 1 .. MaxBuilds]
Pairs(cs) == {p \in Near : p[1] \in cs /\ p[2] \in cs}
None == <<>>
Summary == "summary"
Unknown == "unknown"   \* an id that no camera has
Idle == [at |-> "idle"]
Places == {"idle", "clear", "clear edges", "nodes", "link", "list", "weigh", "rank", "failed"}

TypeOK ==
  /\ nodes \subseteq Cameras /\ seen \subseteq Cameras
  /\ out \subseteq Links /\ edges \subseteq Links /\ weighed \subseteq Links
  /\ \A t \in Threads : work[t].at \in Places
  /\ builds \in 0 .. MaxBuilds /\ raced \in BOOLEAN

Init ==
  /\ nodes = {} /\ out = {} /\ edges = {} /\ weighed = {}
  /\ work = [t \in Threads |-> Idle]
  /\ builds = 0 /\ seen = {} /\ raced = FALSE

At(t, place) == work[t].at = place
Goes(t, place) == work' = [work EXCEPT ![t].at = place]
Ends(t, place) == work' = [work EXCEPT ![t] = [at |-> place]]
Busy(t) == ~At(t, "idle") /\ ~At(t, "failed")
Building(t) == Busy(t) /\ ~At(t, "rank")
\* The list of a camera that has a node
Of(c) == {l \in out : l.of[1] = c}
-----------------------------------------------------------------------------
\* A request: for the summary, or for what lies downstream of some id.  It may have
\* to build the graph, from the cameras active now.  A summary that finds a graph
\* only copies it.
Ask(t) ==
  /\ ~Busy(t) /\ UNCHANGED status
  /\ \E c \in Cameras \union {Summary, Unknown} :
       IF nodes = {} \/ c \notin nodes \union {Summary}
       THEN LET active == {d \in Cameras : status[d] = "ACTIVE"}
            IN  /\ builds < MaxBuilds /\ builds' = builds + 1
                /\ seen' = active
                /\ work' = [work EXCEPT ![t] =
                     [at |-> "clear", camera |-> c, found |-> active, todo |-> active,
                      link |-> None, by |-> builds + 1]]
                /\ raced' = (raced \/ \E u \in Threads \ {t} : Busy(u))
                /\ UNCHANGED <<nodes, out, edges, weighed>>
       ELSE /\ c # Summary
            /\ work' = [work EXCEPT ![t] = [at |-> "rank", camera |-> c]]
            /\ raced' = (raced \/ \E u \in Threads \ {t} : Building(u))
            /\ UNCHANGED graph

\* The lists are emptied one after the other.
Clear(t) ==
  /\ At(t, "clear") /\ Goes(t, "clear edges")
  /\ nodes' = {} /\ out' = {}
  /\ UNCHANGED <<status, edges, weighed, builds, seen, raced>>

\* Mutant of ClearEdges: the list of all edges is not emptied.
ClearNoEdges(t) ==
  /\ At(t, "clear edges") /\ Goes(t, "nodes")
  /\ UNCHANGED <<status, graph, raced>>

ClearEdges(t) ==
  /\ At(t, "clear edges") /\ Goes(t, "nodes")
  /\ edges' = {}
  /\ UNCHANGED <<status, nodes, out, weighed, builds, seen, raced>>

\* A camera gets a node and an empty list, which may replace one in use.
AddNode(t) ==
  /\ At(t, "nodes") /\ UNCHANGED <<status, edges, weighed, builds, seen, raced>>
  /\ \/ /\ work[t].todo = {} /\ UNCHANGED <<nodes, out>>
        /\ work' = [work EXCEPT ![t].at = "link", ![t].todo = Pairs(work[t].found),
                                      ![t].found = {}]
     \/ \E c \in work[t].todo :
          /\ nodes' = nodes \union {c} /\ out' = out \ Of(c)
          /\ work' = [work EXCEPT ![t].todo = @ \ {c}]

\* A link joins the list of its camera, which may have gone by now.
AddLink(t) ==
  /\ At(t, "link") /\ UNCHANGED <<status, nodes, edges, weighed, builds, seen, raced>>
  /\ \/ /\ work[t].todo = {} /\ UNCHANGED out
        /\ work' = [work EXCEPT ![t].at = "weigh", ![t].todo = nodes, ![t].found = nodes]
     \/ \E p \in work[t].todo :
          IF p[1] \notin nodes THEN Ends(t, "failed") /\ UNCHANGED out
          ELSE /\ out' = out \union {[of |-> p, by |-> work[t].by]}
               /\ work' = [work EXCEPT ![t].at = "list", ![t].todo = @ \ {p},
                                      ![t].link = p]

\* Then it joins the list of all.
ListLink(t) ==
  /\ At(t, "list")
  /\ work' = [work EXCEPT ![t].at = "link", ![t].link = None]
  /\ edges' = edges \union {[of |-> work[t].link, by |-> work[t].by]}
  /\ UNCHANGED <<status, nodes, out, weighed, builds, seen, raced>>

\* The links of each node are weighed in a loop over the nodes, which fails when
\* their number has changed under it.
Weigh(t) ==
  /\ At(t, "weigh") /\ UNCHANGED <<status, nodes, out, edges, builds, seen, raced>>
  /\ \/ /\ Cardinality(nodes) # Cardinality(work[t].found)
        /\ Ends(t, "failed") /\ UNCHANGED weighed
     \/ /\ Cardinality(nodes) = Cardinality(work[t].found)
        /\ \/ /\ work[t].todo = {} /\ UNCHANGED weighed
              /\ IF work[t].camera = Summary THEN Ends(t, "idle")
                 ELSE work' = [work EXCEPT ![t] = [at |-> "rank", camera |-> @.camera]]
           \/ \E c \in work[t].todo :
                /\ weighed' = weighed \union Of(c)
                /\ work' = [work EXCEPT ![t].todo = @ \ {c}]

\* get_downstream_cameras scores the links of its camera; one that has not been
\* weighed has no such key.
Rank(t) ==
  /\ At(t, "rank")
  /\ Ends(t, IF Of(work[t].camera) \subseteq weighed THEN "idle" ELSE "failed")
  /\ UNCHANGED <<status, graph, raced>>

Next ==
  \E t \in Threads : \/ Ask(t) \/ Clear(t) \/ ClearEdges(t) \/ AddNode(t)
                     \/ AddLink(t) \/ ListLink(t) \/ Weigh(t) \/ Rank(t)
-----------------------------------------------------------------------------
(* Requests that do not overlap a build never fail, and find the links      *)
(* between the cameras that were active when the last build read them, each *)
(* once and weighed, however often the graph was built and whatever the     *)
(* cameras' statuses have become.  Two builds at once leave links listed    *)
(* twice or lost, for good: only an empty graph is built again              *)
(* (camera_graph.py:59-61, 153).                                            *)
TopologyOfOneReading ==
  ~raced =>
    /\ \A t \in Threads : ~At(t, "failed")
    /\ (\A t \in Threads : ~Building(t)) =>
         /\ nodes = seen /\ out = edges /\ edges \subseteq weighed
         /\ {l.of : l \in edges} = Pairs(seen)
         /\ Cardinality(edges) = Cardinality(Pairs(seen))
=============================================================================
