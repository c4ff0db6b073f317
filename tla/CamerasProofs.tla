---------------------------- MODULE CamerasProofs ----------------------------
(***************************************************************************)
(* What holds of the components of CameraSystem for any connections,       *)
(* alerts, threads and cameras: the broadcast of alerts (Realtime), the    *)
(* camera registry (CameraRegistry) and the camera graph (CameraGraph).    *)
(***************************************************************************)
EXTENDS CameraSystem, StreamPoolProofs

-----------------------------------------------------------------------------
(* The broadcast.  EveryClientServed is not inductive.  That a connection  *)
(* that holds is in nobody's list of the dead needs that it was open at    *)
(* every send so far, hence that it never appears in a snapshot before it  *)
(* has joined; and what was sent is known only together with what is left. *)

\* A connection that waits for messages is struck off no list while it is open.
Unharmed ==
  \A c \in joined : socket[c] = "open" =>
    c \in clients /\ \A a \in Alerts : c \notin dead[a]

\* Whom a broadcast was meant for has got it or is still to get it.
Underway ==
  /\ \A c \in joined : socket[c] = "open" =>
       \A a \in Alerts : task[a] \in {"sending", "sent"} /\ c \in meant[a] =>
         c \in left[a] \/ a \in got[c]
  /\ \A a \in Alerts : task[a] = "sent" => left[a] = {}

\* A connection that has not joined yet is in no snapshot, and joins once opened.
Newcomer ==
  /\ \A c \in Dashboards \ joined : socket[c] # "closed" =>
       \A a \in Alerts : c \notin meant[a]
  /\ \A c \in joined : socket[c] # "new"

\* A broadcast that has not begun has nobody left and nobody dead.
Untouched ==
  \A a \in Alerts : task[a] \notin {"sending", "sent"} => left[a] = {} /\ dead[a] = {}

ServedInv == Broadcast!TypeOK /\ Unharmed /\ Underway /\ Newcomer /\ Untouched

\* Every step of the broadcast keeps the clients served.
LEMMA ServedStep == ServedInv /\ [Broadcast!Next]_(Broadcast!vars) => ServedInv'
<1> SUFFICES ASSUME ServedInv, [Broadcast!Next]_(Broadcast!vars)
             PROVE  ServedInv'
  OBVIOUS
<1> USE DEF ServedInv, Broadcast!TypeOK, Broadcast!Places
<1>1. ASSUME NEW c \in Dashboards, Broadcast!Open(c)
      PROVE  ServedInv'
  BY <1>1 DEF Broadcast!Open, Broadcast!broadcasts, Unharmed, Underway, Newcomer, Untouched
<1>2. ASSUME NEW c \in Dashboards, Broadcast!Join(c)
      PROVE  ServedInv'
  BY <1>2 DEF Broadcast!Join, Broadcast!broadcasts, Unharmed, Underway, Newcomer, Untouched
<1>3. ASSUME NEW c \in Dashboards, Broadcast!Drop(c)
      PROVE  ServedInv'
  BY <1>3 DEF Broadcast!Drop, Broadcast!broadcasts, Unharmed, Underway, Newcomer, Untouched
<1>4. ASSUME NEW c \in Dashboards, Broadcast!Leave(c)
      PROVE  ServedInv'
  BY <1>4 DEF Broadcast!Leave, Broadcast!broadcasts, Unharmed, Underway, Newcomer, Untouched
<1>5. ASSUME NEW a \in Alerts, Broadcast!Await(a) \/ Broadcast!Publish(a)
      PROVE  ServedInv'
  BY <1>5 DEF Broadcast!Await, Broadcast!Publish, Broadcast!Hand, Unharmed, Underway, Newcomer, Untouched
<1>6. ASSUME NEW a \in Alerts, Broadcast!Snapshot(a)
      PROVE  ServedInv'
  BY <1>6 DEF Broadcast!Snapshot, Unharmed, Underway, Newcomer, Untouched
<1>7. ASSUME NEW a \in Alerts, Broadcast!Purge(a)
      PROVE  ServedInv'
  BY <1>7 DEF Broadcast!Purge, Unharmed, Underway, Newcomer, Untouched
<1>8. ASSUME NEW a \in Alerts, NEW c \in Dashboards, Broadcast!Send(a, c)
      PROVE  ServedInv'
  BY <1>8 DEF Broadcast!Send, Unharmed, Underway, Newcomer, Untouched
<1>9. CASE UNCHANGED Broadcast!vars
  BY <1>9 DEF Broadcast!vars, Unharmed, Underway, Newcomer, Untouched
<1> QED BY <1>1, <1>2, <1>3, <1>4, <1>5, <1>6, <1>7, <1>8, <1>9 DEF Broadcast!Next

\* They are at first.
LEMMA ServedStart == Broadcast!Init => ServedInv
BY DEF Broadcast!Init, ServedInv, Broadcast!TypeOK, Broadcast!Places, Unharmed, Underway,
       Newcomer, Untouched

-----------------------------------------------------------------------------
(* The registry.  ReportInForce is not inductive: that the columns a       *)
(* commit leaves alone already say what the report says is known only      *)
(* because nobody committed since the request read them (Current).         *)

\* The requests by where they are, and what they carry there.
Onboards == [at : {"onboard"}, camera : Sites, status : Registry!Statuses \ {"none"},
             health : {"ONLINE"}, stale : BOOLEAN]
Probes == [at : {"probe"}, camera : Sites, read : Registry!Statuses, stale : BOOLEAN]
HealthReads ==
  [at : {"health"}, camera : Sites, read : Registry!Statuses,
   health : Registry!Healths \ {"none"}, status : Registry!Statuses \ {"none"},
   stale : BOOLEAN]
Writes ==
  [at : {"commit"}, camera : Sites, read : Registry!Statuses,
   readHealth : Registry!Healths, health : Registry!Healths \ {"none"},
   status : Registry!Statuses \ {"none"}, stale : BOOLEAN]
Requests == {Registry!Idle} \union Onboards \union Probes \union HealthReads \union Writes

\* What a request has read is what the database holds, unless another one has
\* committed on its camera since; and the rows it found are still there.
Current(r) ==
  /\ r.at \in {"probe", "health", "commit"} => status[r.camera] # "none"
  /\ r.at \in {"probe", "health", "commit"} /\ ~r.stale => r.read = status[r.camera]
  /\ r.at = "commit" /\ ~r.stale => r.readHealth = health[r.camera]
  /\ r.at = "commit" /\ r.readHealth # "none" => health[r.camera] # "none"

RegistryInv ==
  /\ Registry!TypeOK
  /\ request \in [Threads -> Requests]
  /\ \A t \in Threads : Current(request[t])
  /\ Registry!ReportInForce

\* A commit of t on camera c.
LEMMA CommitKeeps ==
  ASSUME RegistryInv, NEW t \in Threads, request[t].at \in {"onboard", "commit"},
         NEW s \in Registry!Statuses \ {"none"}, NEW h \in Registry!Healths \ {"none"},
         ~request[t].stale => s = request[t].status /\ h = request[t].health,
         Registry!Commits(t, s, h)
  PROVE  RegistryInv'
<1> DEFINE c == request[t].camera
<1>1. c \in Sites /\ request[t].status \in Registry!Statuses
        /\ request[t].health \in Registry!Healths /\ request[t].stale \in BOOLEAN
  <2>1. request[t] \in Onboards \union Writes
    BY DEF RegistryInv, Requests, Onboards, Probes, HealthReads, Writes, Registry!Idle
  <2> QED BY <2>1 DEF Onboards, Writes, Registry!Healths, Registry!Reported
<1>2. /\ status' = [status EXCEPT ![c] = s] /\ health' = [health EXCEPT ![c] = h]
      /\ told' = [told EXCEPT ![c] = <<request[t].status, request[t].health>>]
      /\ crossed' = IF request[t].stale THEN crossed \union {c} ELSE crossed \ {c}
      /\ UNCHANGED <<bound, reports>>
  BY DEF Registry!Commits
<1>3. \A u \in Threads :
        request'[u] = CASE u = t -> Registry!Idle
                        [] u # t /\ request[u].at # "idle" /\ request[u].camera = c ->
                             [request[u] EXCEPT !.stale = TRUE]
                        [] OTHER -> request[u]
  BY DEF Registry!Commits, Registry!At
<1>4. ASSUME NEW u \in Threads
      PROVE  request'[u] \in Requests /\ Current(request[u])'
  <2>1. CASE u = t
    <3>1. request'[u] = Registry!Idle
      BY <1>3, <2>1
    <3> QED BY <3>1 DEF Requests, Registry!Idle, Current
  <2>2. CASE u # t /\ request[u].at # "idle" /\ request[u].camera = c
    <3>1. request'[u] = [request[u] EXCEPT !.stale = TRUE]
      BY <1>3, <2>2
    <3>2. request[u] \in Requests /\ Current(request[u])
      BY DEF RegistryInv
    <3>3. CASE request[u] \in Onboards
      BY <3>1, <3>3 DEF Requests, Onboards, Current
    <3>4. CASE request[u] \in Probes
      BY <1>1, <1>2, <2>2, <3>1, <3>2, <3>4 DEF RegistryInv, Registry!TypeOK, Requests, Probes, Current
    <3>5. CASE request[u] \in HealthReads
      BY <1>1, <1>2, <2>2, <3>1, <3>2, <3>5
         DEF RegistryInv, Registry!TypeOK, Requests, HealthReads, Current
    <3>6. CASE request[u] \in Writes
      BY <1>1, <1>2, <2>2, <3>1, <3>2, <3>6
         DEF RegistryInv, Registry!TypeOK, Requests, Writes, Current
    <3> QED BY <2>2, <3>2, <3>3, <3>4, <3>5, <3>6 DEF Requests, Registry!Idle
  <2>3. CASE u # t /\ ~(request[u].at # "idle" /\ request[u].camera = c)
    <3>1. request'[u] = request[u]
      BY <1>3, <2>3
    <3> QED BY <1>1, <1>2, <2>3, <3>1 DEF RegistryInv, Requests, Onboards, Probes,
               HealthReads, Writes, Registry!Idle, Current, Registry!TypeOK
  <2> QED BY <2>1, <2>2, <2>3
<1>5. request' \in [Threads -> Requests]
  BY <1>4 DEF Registry!Commits
<1>6. Registry!TypeOK'
  <2>1. \A u \in Threads :
          request'[u].at \in {"idle", "onboard", "probe", "health", "commit"}
    BY <1>4 DEF Requests, Onboards, Probes, HealthReads, Writes, Registry!Idle
  <2> HIDE DEF c
  <2>2. told' \in [Sites -> Registry!Statuses \X Registry!Healths]
    BY <1>1, <1>2 DEF RegistryInv, Registry!TypeOK
  <2>3. /\ status' \in [Sites -> Registry!Statuses]
        /\ health' \in [Sites -> Registry!Healths]
        /\ bound' \subseteq Sites /\ crossed' \subseteq Sites
        /\ reports' \in 0 .. MaxReports
    BY <1>1, <1>2 DEF RegistryInv, Registry!TypeOK
  <2>4. \A d \in Sites : status'[d] = "none" => health'[d] = "none"
    BY <1>1, <1>2 DEF RegistryInv, Registry!TypeOK, Registry!None
  <2> QED BY <2>1, <2>2, <2>3, <2>4 DEF Registry!TypeOK, Registry!None
<1>7. Registry!ReportInForce'
  <2> HIDE DEF c
  <2> QED BY <1>1, <1>2 DEF RegistryInv, Registry!ReportInForce, Registry!TypeOK
<1> QED BY <1>4, <1>5, <1>6, <1>7 DEF RegistryInv

\* A step that moves t to a request r and leaves the database alone.
LEMMA RequestMoves ==
  ASSUME RegistryInv, NEW t \in Threads, NEW r \in Requests, Current(r),
         request' = [request EXCEPT ![t] = r],
         UNCHANGED <<status, health, told, crossed>>,
         bound' \subseteq Sites, reports' \in 0 .. MaxReports
  PROVE  RegistryInv'
<1>1. \A u \in Threads : request'[u] \in Requests /\ Current(request[u])'
  BY DEF RegistryInv, Current
<1>2. \A u \in Threads :
        request'[u].at \in {"idle", "onboard", "probe", "health", "commit"}
  BY <1>1 DEF Requests, Onboards, Probes, HealthReads, Writes, Registry!Idle
<1> QED BY <1>1, <1>2 DEF RegistryInv, Registry!TypeOK, Registry!ReportInForce

\* Every step of the registry keeps the report in force.
LEMMA RegistryStep ==
  ASSUME Registry!RegistryAssumption, RegistryInv, [Registry!Next]_(Registry!vars)
  PROVE  RegistryInv'
<1> USE DEF Registry!RegistryAssumption
<1>1. ASSUME NEW t \in Threads, NEW r \in Requests, Current(r), Registry!Starts(t, r)
      PROVE  RegistryInv'
  <2>1. reports' \in 0 .. MaxReports
    BY <1>1 DEF Registry!Starts, RegistryInv, Registry!TypeOK
  <2> QED BY <1>1, <2>1, RequestMoves DEF Registry!Starts, Registry!Goes, RegistryInv,
             Registry!TypeOK
<1>2. Registry!Idle \in Requests /\ Current(Registry!Idle)
  BY DEF Requests, Current, Registry!Idle
<1>3. ASSUME NEW t \in Threads, Registry!Fails(t)
      PROVE  RegistryInv'
  BY <1>2, <1>3, RequestMoves DEF Registry!Fails, Registry!Goes, RegistryInv, Registry!TypeOK
<1>4. ASSUME NEW t \in Threads, NEW c \in Sites, Registry!Onboard(t, c)
      PROVE  RegistryInv'
  <2>1. PICK s \in Registry!Statuses \ {"none"} :
          Registry!Starts(t, [at |-> "onboard", camera |-> c, status |-> s,
                              health |-> "ONLINE", stale |-> FALSE])
    BY <1>4 DEF Registry!Onboard, Registry!None
  <2>2. [at |-> "onboard", camera |-> c, status |-> s, health |-> "ONLINE",
         stale |-> FALSE] \in Requests
    BY DEF Requests, Onboards
  <2> QED BY <1>1, <2>1, <2>2 DEF Current
<1>5. ASSUME NEW t \in Threads, NEW c \in Sites, Registry!Heartbeat(t, c)
      PROVE  RegistryInv'
  <2>1. PICK s \in Registry!Reported :
          Registry!Starts(t, [at |-> "health", camera |-> c, read |-> status[c],
             health |-> s, status |-> IF s = "ONLINE" THEN "ACTIVE" ELSE s,
             stale |-> FALSE])
    BY <1>5 DEF Registry!Heartbeat
  <2>2. [at |-> "health", camera |-> c, read |-> status[c], health |-> s,
         status |-> IF s = "ONLINE" THEN "ACTIVE" ELSE s, stale |-> FALSE] \in Requests
    BY DEF Requests, HealthReads, Registry!Statuses, Registry!Healths, Registry!Reported,
           RegistryInv, Registry!TypeOK, Registry!None
  <2>3. status[c] # "none"
    BY <1>5 DEF Registry!Heartbeat, Registry!None
  <2> QED BY <1>1, <2>1, <2>2, <2>3 DEF Current
<1>6. ASSUME NEW t \in Threads, NEW c \in Sites, Registry!Validate(t, c)
      PROVE  RegistryInv'
  <2> DEFINE r == [at |-> "probe", camera |-> c, read |-> status[c], stale |-> FALSE]
  <2>1. r \in Requests /\ Current(r) /\ Registry!Starts(t, r)
    BY <1>6 DEF Registry!Validate, Requests, Probes, Current, RegistryInv, Registry!TypeOK,
                Registry!None
  <2> HIDE DEF r
  <2> QED BY <1>1, <2>1
<1>7. ASSUME NEW t \in Threads, Registry!Insert(t)
      PROVE  RegistryInv'
  <2>1. /\ request[t].at = "onboard"
        /\ request[t].status \in Registry!Statuses \ {"none"}
        /\ request[t].health \in Registry!Healths \ {"none"}
    BY <1>7 DEF Registry!Insert, Registry!At, RegistryInv, Requests, Onboards, Probes,
                HealthReads, Writes, Registry!Idle, Registry!Healths, Registry!Reported
  <2>2. Registry!Commits(t, request[t].status, request[t].health) \/ Registry!Fails(t)
    BY <1>7 DEF Registry!Insert
  <2> QED BY <1>3, <2>1, <2>2, CommitKeeps
<1>8. ASSUME NEW t \in Threads, Registry!Probe(t)
      PROVE  RegistryInv'
  <2>1. request[t] \in Probes
    BY <1>8 DEF Registry!Probe, Registry!At, RegistryInv, Requests, Onboards, Probes,
                HealthReads, Writes, Registry!Idle
  <2> DEFINE q == request[t]
             r(h) == [at |-> "health", camera |-> q.camera, read |-> q.read, health |-> h,
                      status |-> "ACTIVE", stale |-> q.stale]
  <2>2. PICK h \in {"ONLINE", "UNCONFIGURED"} :
          request' = [request EXCEPT ![t] = Registry!Idle]
            \/ request' = [request EXCEPT ![t] = r(h)]
    BY <1>8 DEF Registry!Probe, Registry!Goes
  <2>3. r(h) \in Requests
    BY <2>1, <2>2 DEF Requests, HealthReads, Probes, Registry!Statuses, Registry!Healths,
                      Registry!Reported, Registry!None
  <2>4. Current(r(h))
    BY <2>1 DEF RegistryInv, Current, Probes
  <2>5. /\ UNCHANGED <<status, health, reports, told, crossed>>
        /\ bound' \subseteq Sites
    BY <1>8, <2>1 DEF Registry!Probe, Probes, RegistryInv, Registry!TypeOK
  <2>6. reports' \in 0 .. MaxReports
    BY <2>5 DEF RegistryInv, Registry!TypeOK
  <2> HIDE DEF r
  <2> QED BY <1>2, <2>2, <2>3, <2>4, <2>5, <2>6, RequestMoves
<1>9. ASSUME NEW t \in Threads, Registry!ReadHealth(t)
      PROVE  RegistryInv'
  <2>1. request[t] \in HealthReads
    BY <1>9 DEF Registry!ReadHealth, Registry!At, RegistryInv, Requests, Onboards, Probes,
                HealthReads, Writes, Registry!Idle
  <2> DEFINE q == request[t]
             r == [at |-> "commit", camera |-> q.camera, read |-> q.read,
                   readHealth |-> health[q.camera], status |-> q.status,
                   health |-> q.health, stale |-> q.stale]
  <2>2. request' = [request EXCEPT ![t] = r]
          /\ UNCHANGED <<status, health, bound, reports, told, crossed>>
    BY <1>9 DEF Registry!ReadHealth, Registry!Goes
  <2>3. r \in Requests
    BY <2>1 DEF Requests, HealthReads, Writes, RegistryInv, Registry!TypeOK
  <2>4. Current(r)
    BY <2>1 DEF RegistryInv, Current, HealthReads
  <2> HIDE DEF r
  <2> QED BY <2>2, <2>3, <2>4, RequestMoves DEF RegistryInv, Registry!TypeOK
<1>10. ASSUME NEW t \in Threads, Registry!Commit(t)
       PROVE  RegistryInv'
  <2> DEFINE r == request[t]
             s == Registry!Written(r.read, r.status, status[r.camera])
             h == Registry!Written(r.readHealth, r.health, health[r.camera])
  <2>1. r \in Writes /\ r.at = "commit"
    BY <1>10 DEF Registry!Commit, Registry!At, RegistryInv, Requests, Onboards, Probes,
                 HealthReads, Writes, Registry!Idle
  <2>2. CASE Registry!Fails(t)
    BY <1>3, <2>2
  <2>3. CASE ~(r.readHealth = "none" /\ health[r.camera] # "none")
               /\ Registry!Commits(t, s, h)
    <3>1. s \in Registry!Statuses \ {"none"}
      BY <2>1 DEF Registry!Written, Writes, RegistryInv, Current, Registry!TypeOK
    <3>2. h \in Registry!Healths \ {"none"}
      BY <2>1, <2>3 DEF Registry!Written, Writes, RegistryInv, Current, Registry!TypeOK
    <3>3. ~r.stale => s = r.status /\ h = r.health
      BY <2>1 DEF Registry!Written, RegistryInv, Current, Writes
    <3> HIDE DEF s, h
    <3> QED BY <2>1, <2>3, <3>1, <3>2, <3>3, CommitKeeps
  <2> QED BY <1>10, <2>2, <2>3 DEF Registry!Commit, Registry!None
<1>11. ASSUME Registry!Restart
       PROVE  RegistryInv'
  BY <1>2, <1>11 DEF Registry!Restart, RegistryInv, Registry!TypeOK, Registry!ReportInForce,
                     Registry!Idle, Current
<1>12. CASE UNCHANGED Registry!vars
  BY <1>12 DEF Registry!vars, RegistryInv, Registry!TypeOK, Registry!ReportInForce, Current
<1> QED BY <1>4, <1>5, <1>6, <1>7, <1>8, <1>9, <1>10, <1>11, <1>12 DEF Registry!Next

\* It holds at first.
LEMMA RegistryStart ==
  ASSUME Registry!RegistryAssumption
  PROVE  Registry!Init => RegistryInv
BY DEF Registry!Init, RegistryInv, Registry!TypeOK, Registry!ReportInForce, Current,
       Requests, Registry!Idle, Registry!Statuses, Registry!Healths, Registry!None,
       Registry!RegistryAssumption

-----------------------------------------------------------------------------
(* The camera graph, over the registry whose statuses it reads.            *)
(*                                                                         *)
(* TopologyOfOneReading speaks of the graph between builds.  BuildOK says  *)
(* what the builder has done at each place, as long as nobody raced with   *)
(* it: until then it is alone (Solitary).                                  *)

\* Where a request to the graph is, and what it carries there.
Askers == Sites \union {"summary", "unknown"}
Clearings == [at : {"clear", "clear edges", "nodes"}, camera : Askers,
              found : SUBSET Sites, todo : SUBSET Sites,
              link : Near \union {<<>>}, by : 1 .. MaxBuilds]
Linkings == [at : {"link"}, camera : Askers, found : SUBSET Sites, todo : SUBSET Near,
             link : Near \union {<<>>}, by : 1 .. MaxBuilds]
Listings == [at : {"list"}, camera : Askers, found : SUBSET Sites, todo : SUBSET Near,
             link : Near, by : 1 .. MaxBuilds]
Weighings == [at : {"weigh"}, camera : Askers, found : SUBSET Sites,
              todo : SUBSET Sites, link : Near \union {<<>>}, by : 1 .. MaxBuilds]
Rankings == [at : {"rank"}, camera : Askers]
Ends == [at : {"idle", "failed"}]
Works == Clearings \union Linkings \union Listings \union Weighings \union Rankings \union Ends

\* The links ls are those of the pairs ps, made by the last build.
LinkOf(p, b) == [of |-> p, by |-> b]
LinksOf(ps, b) == [of : ps, by : {b}]
Exactly(ls, ps) == ls = LinksOf(ps, builds)

\* What a builder has achieved.
BuildOK(w) ==
  /\ w \notin Rankings \union Ends => w.by = builds
  /\ w.at \in {"clear", "clear edges", "nodes"} => w.found = seen /\ w.todo \subseteq seen
  /\ w.at \in {"clear", "clear edges"} => w.todo = seen
  /\ w.at = "clear edges" => nodes = {} /\ out = {}
  /\ w.at = "nodes" => nodes = seen \ w.todo /\ out = {} /\ edges = {}
  /\ w.at \in {"link", "list"} => nodes = seen /\ w.todo \subseteq Topology!Pairs(seen)
  /\ w.at = "link" => out = edges /\ Exactly(edges, Topology!Pairs(seen) \ w.todo)
  /\ w.at = "list" =>
       /\ w.link \in Topology!Pairs(seen) \ w.todo
       /\ Exactly(out, Topology!Pairs(seen) \ w.todo)
       /\ Exactly(edges, (Topology!Pairs(seen) \ w.todo) \ {w.link})
  /\ w.at = "weigh" =>
       /\ nodes = seen /\ w.found = nodes /\ w.todo \subseteq nodes
       /\ out = edges /\ Exactly(edges, Topology!Pairs(seen))
       /\ \A l \in out : l.of[1] \in w.todo \/ l \in weighed

\* The graph when nobody builds it.
Settled ==
  /\ nodes = seen /\ out = edges /\ edges \subseteq weighed
  /\ Exactly(edges, Topology!Pairs(seen))

Solitary ==
  /\ \A t \in Threads : ~Topology!At(t, "failed")
  /\ \A t, u \in Threads : t # u /\ Topology!Building(t) => ~Topology!Busy(u)

GraphInv ==
  /\ Topology!TypeOK
  /\ work \in [Threads -> Works]
  /\ ~raced =>
       /\ Solitary
       /\ \A t \in Threads : BuildOK(work[t])
       /\ (\A t \in Threads : ~Topology!Building(t)) => Settled

\* The builder of a graph nobody races for moves on to w, which is not a failure.
LEMMA BuilderMoves ==
  ASSUME GraphInv, ~raced, NEW t \in Threads, Topology!Building(t),
         NEW w \in Works, w.at # "failed", work' = [work EXCEPT ![t] = w],
         Topology!TypeOK', BuildOK(w)', w.at \in {"rank", "idle"} => Settled',
         UNCHANGED raced
  PROVE  GraphInv'
<1>1. work' \in [Threads -> Works] /\ work'[t] = w
  BY DEF GraphInv
<1>2. ASSUME NEW u \in Threads, u # t
      PROVE  work'[u] = work[u] /\ work[u].at = "idle" /\ work[u] \in Ends
  <2>1. ~Topology!Busy(u) /\ ~Topology!At(u, "failed") /\ work[u] \in Works
    BY <1>2 DEF GraphInv, Solitary
  <2>2. work[u].at = "idle"
    BY <2>1 DEF Topology!Busy, Topology!At
  <2> QED BY <1>2, <2>1, <2>2 DEF GraphInv, Works, Clearings, Linkings, Listings,
             Weighings, Rankings, Ends
<1>3. Solitary'
  BY <1>1, <1>2 DEF Solitary, Topology!Building, Topology!Busy, Topology!At
<1>4. ASSUME NEW u \in Threads
      PROVE  BuildOK(work[u])'
  <2>1. CASE u = t
    BY <1>1, <2>1
  <2>2. CASE u # t
    BY <1>2, <2>2 DEF BuildOK
  <2> QED BY <2>1, <2>2
<1>5. (\A u \in Threads : ~Topology!Building(u)') => Settled'
  <2>1. ~Topology!Building(t)' => w.at \in {"rank", "idle"}
    BY <1>1 DEF Topology!Building, Topology!Busy, Topology!At
  <2> QED BY <2>1
<1> QED BY <1>1, <1>3, <1>4, <1>5 DEF GraphInv

\* The types of where a request may be.
LEMMA WorkPlaces ==
  ASSUME NEW t \in Threads, work[t] \in Works
  PROVE  /\ work[t].at \in Topology!Places
         /\ Topology!At(t, "clear") \/ Topology!At(t, "clear edges")
              \/ Topology!At(t, "nodes") => work[t] \in Clearings
         /\ Topology!At(t, "link") => work[t] \in Linkings
         /\ Topology!At(t, "list") => work[t] \in Listings
         /\ Topology!At(t, "weigh") => work[t] \in Weighings
         /\ Topology!At(t, "rank") => work[t] \in Rankings
         /\ Topology!Building(t) <=> work[t] \notin Rankings \union Ends
BY DEF Works, Clearings, Linkings, Listings, Weighings, Rankings, Ends, Topology!At,
       Topology!Places, Topology!Building, Topology!Busy

\* A step of t that goes to w, once somebody has raced: only types are left to show.
LEMMA RacedMoves ==
  ASSUME GraphInv, NEW t \in Threads, NEW w \in Works, raced',
         work' = [work EXCEPT ![t] = w],
         nodes' \subseteq Sites, seen' \subseteq Sites, out' \subseteq Topology!Links,
         edges' \subseteq Topology!Links, weighed' \subseteq Topology!Links,
         builds' \in 0 .. MaxBuilds, raced' \in BOOLEAN
  PROVE  GraphInv'
<1>1. work' \in [Threads -> Works]
  BY DEF GraphInv
<1>2. \A u \in Threads : work'[u].at \in Topology!Places
  BY <1>1 DEF Works, Clearings, Linkings, Listings, Weighings, Rankings, Ends,
              Topology!Places
<1> QED BY <1>1, <1>2 DEF GraphInv, Topology!TypeOK

\* The same for a step of the builder, raced for or not.
LEMMA BuildStep ==
  ASSUME GraphInv, NEW t \in Threads, Topology!Building(t),
         NEW w \in Works, work' = [work EXCEPT ![t] = w],
         nodes' \subseteq Sites, out' \subseteq Topology!Links,
         edges' \subseteq Topology!Links, weighed' \subseteq Topology!Links,
         UNCHANGED <<builds, seen, raced>>,
         ~raced => /\ w.at # "failed" /\ BuildOK(w)'
                   /\ w.at \in {"rank", "idle"} => Settled'
  PROVE  GraphInv'
<1>1. builds' \in 0 .. MaxBuilds /\ seen' \subseteq Sites /\ raced' \in BOOLEAN
  BY DEF GraphInv, Topology!TypeOK
<1>2. CASE raced
  BY <1>1, <1>2, RacedMoves
<1>3. CASE ~raced
  <2>1. \A u \in Threads : work'[u].at \in Topology!Places
    BY DEF GraphInv, Works, Clearings, Linkings, Listings, Weighings, Rankings, Ends,
           Topology!Places
  <2>2. Topology!TypeOK'
    BY <1>1, <2>1 DEF Topology!TypeOK
  <2> QED BY <1>3, <2>2, BuilderMoves
<1> QED BY <1>2, <1>3

\* Near pairs are of cameras, and a camera's links start there.
LEMMA PairFacts ==
  ASSUME Topology!GraphAssumption, NEW cs \in SUBSET Sites
  PROVE  /\ Topology!Pairs(cs) \subseteq Near
         /\ \A p \in Near : p[1] \in Sites /\ p[2] \in Sites
         /\ \A p \in Topology!Pairs(cs) : p[1] \in cs
         /\ IsFiniteSet(Topology!Pairs(cs))
<1>1. Topology!Pairs(cs) \subseteq Near /\ \A p \in Topology!Pairs(cs) : p[1] \in cs
  BY DEF Topology!Pairs
<1>2. \A p \in Near : p \in Sites \X Sites
  BY DEF Topology!GraphAssumption
<1>3. IsFiniteSet(Sites \X Sites)
  <2>1. IsFiniteSet(Sites)
    BY DEF Topology!GraphAssumption, Topology!IsFiniteSet, IsFiniteSet
  <2> QED BY <2>1, FS_Product
<1>4. IsFiniteSet(Topology!Pairs(cs))
  BY <1>1, <1>2, <1>3, FS_Subset
<1> QED BY <1>1, <1>2, <1>4

\* Asking either begins to build or to rank.
LEMMA AskStep ==
  ASSUME Topology!GraphAssumption, GraphInv, NEW t \in Threads, Topology!Ask(t)
  PROVE  GraphInv'
<1> DEFINE active == {d \in Sites : status[d] = "ACTIVE"}
           building(c) == [at |-> "clear", camera |-> c, found |-> active, todo |-> active,
                           link |-> <<>>, by |-> builds + 1]
           ranking(c) == [at |-> "rank", camera |-> c]
<1>1. PICK c \in Askers :
        \/ /\ builds < MaxBuilds /\ builds' = builds + 1 /\ seen' = active
           /\ work' = [work EXCEPT ![t] = building(c)]
           /\ raced' = (raced \/ \E u \in Threads \ {t} : Topology!Busy(u))
           /\ UNCHANGED <<nodes, out, edges, weighed>>
        \/ /\ work' = [work EXCEPT ![t] = ranking(c)]
           /\ raced' = (raced \/ \E u \in Threads \ {t} : Topology!Building(u))
           /\ UNCHANGED <<nodes, out, edges, weighed, builds, seen>>
  BY Zenon DEF Topology!Ask, Askers, Topology!Summary, Topology!Unknown, Topology!graph,
               Topology!None
<1>2. ~Topology!Busy(t)
  BY DEF Topology!Ask
<1>3. CASE /\ builds < MaxBuilds /\ builds' = builds + 1 /\ seen' = active
           /\ work' = [work EXCEPT ![t] = building(c)]
           /\ raced' = (raced \/ \E u \in Threads \ {t} : Topology!Busy(u))
           /\ UNCHANGED <<nodes, out, edges, weighed>>
  <2>1. builds + 1 \in 1 .. MaxBuilds
    BY <1>3 DEF GraphInv, Topology!TypeOK, Topology!GraphAssumption
  <2>2. building(c) \in Clearings /\ building(c).at = "clear"
    BY <2>1 DEF Clearings
  <2>3. /\ nodes' \subseteq Sites /\ seen' \subseteq Sites /\ out' \subseteq Topology!Links
        /\ edges' \subseteq Topology!Links /\ weighed' \subseteq Topology!Links
        /\ builds' \in 0 .. MaxBuilds /\ raced' \in BOOLEAN
    BY <1>3, <2>1 DEF GraphInv, Topology!TypeOK
  <2>4. CASE raced'
    <3>1. building(c) \in Works
      BY <2>2 DEF Works
    <3> HIDE DEF building
    <3> QED BY <1>3, <2>3, <2>4, <3>1, RacedMoves
  <2>5. CASE ~raced'
    <3>1. ~raced /\ \A u \in Threads \ {t} : ~Topology!Busy(u)
      BY <1>3, <2>5
    <3>2. building(c).found = seen' /\ building(c).todo = seen' /\ building(c).by = builds'
      BY <1>3
    <3> HIDE DEF building
    <3>3. work' \in [Threads -> Works] /\ work'[t] = building(c)
      BY <1>3, <2>2 DEF GraphInv, Works
    <3>4. \A u \in Threads \ {t} : work'[u] = work[u] /\ work[u].at = "idle"
            /\ work[u] \in Ends
      <4> SUFFICES ASSUME NEW u \in Threads \ {t}
                   PROVE  work'[u] = work[u] /\ work[u].at = "idle" /\ work[u] \in Ends
        OBVIOUS
      <4>1. work'[u] = work[u] /\ work[u] \in Works
        BY <1>3 DEF GraphInv
      <4>2. work[u].at = "idle"
        BY <3>1 DEF GraphInv, Solitary, Topology!Busy, Topology!At
      <4> QED BY <4>1, <4>2 DEF Works, Clearings, Linkings, Listings, Weighings,
                 Rankings, Ends
    <3>5. Solitary'
      BY <2>2, <3>3, <3>4 DEF Solitary, Topology!At, Topology!Busy, Topology!Building
    <3>6. \A u \in Threads : BuildOK(work[u])'
      BY <2>2, <3>2, <3>3, <3>4 DEF BuildOK
    <3>7. Topology!Building(t)'
      BY <2>2, <3>3 DEF Topology!At, Topology!Busy, Topology!Building
    <3>8. \A u \in Threads : work'[u].at \in Topology!Places
      BY <2>2, <3>3, <3>4 DEF Topology!Places
    <3> QED BY <2>3, <3>3, <3>5, <3>6, <3>7, <3>8 DEF GraphInv, Topology!TypeOK
  <2> QED BY <2>4, <2>5
<1>4. CASE /\ work' = [work EXCEPT ![t] = ranking(c)]
           /\ raced' = (raced \/ \E u \in Threads \ {t} : Topology!Building(u))
           /\ UNCHANGED <<nodes, out, edges, weighed, builds, seen>>
  <2>1. ranking(c) \in Rankings /\ ranking(c).at = "rank"
    BY DEF Rankings
  <2> HIDE DEF ranking
  <2>2. /\ nodes' \subseteq Sites /\ seen' \subseteq Sites /\ out' \subseteq Topology!Links
        /\ edges' \subseteq Topology!Links /\ weighed' \subseteq Topology!Links
        /\ builds' \in 0 .. MaxBuilds /\ raced' \in BOOLEAN
    BY <1>4 DEF GraphInv, Topology!TypeOK
  <2>3. work' \in [Threads -> Works] /\ work'[t] = ranking(c)
    BY <1>4, <2>1 DEF GraphInv, Works
  <2>4. CASE raced'
    BY <1>4, <2>1, <2>2, <2>4, RacedMoves DEF Works
  <2>5. CASE ~raced'
    <3>1. ~raced /\ \A u \in Threads \ {t} : ~Topology!Building(u)
      BY <1>4, <2>5
    <3>2. \A u \in Threads : ~Topology!Building(u)
      BY <1>2, <3>1 DEF Topology!Building
    <3>3. \A u \in Threads : ~Topology!Building(u)' /\ ~Topology!At(u, "failed")'
      BY <1>4, <2>1, <2>3, <3>1, <3>2
         DEF GraphInv, Solitary, Topology!Building, Topology!Busy, Topology!At
    <3>4. Settled'
      BY <1>4, <3>1, <3>2 DEF GraphInv, Settled, Exactly
    <3>5. \A u \in Threads : BuildOK(work[u])'
      <4> SUFFICES ASSUME NEW u \in Threads
                   PROVE  BuildOK(work[u])'
        OBVIOUS
      <4>1. CASE u = t
        BY <2>1, <2>3, <4>1 DEF BuildOK
      <4>2. CASE u # t
        <5>1. work'[u] = work[u] /\ work[u] \in Rankings \union Ends
          BY <1>4, <3>2, <4>2, WorkPlaces DEF GraphInv
        <5> QED BY <5>1 DEF BuildOK, Rankings, Ends
      <4> QED BY <4>1, <4>2
    <3>6. \A u \in Threads : work'[u].at \in Topology!Places
      BY <2>3 DEF Works, Clearings, Linkings, Listings, Weighings, Rankings, Ends,
                  Topology!Places
    <3> QED BY <2>2, <2>3, <3>3, <3>4, <3>5, <3>6 DEF GraphInv, Topology!TypeOK, Solitary
  <2> QED BY <2>4, <2>5
<1> QED BY <1>1, <1>3, <1>4

\* The builder empties one list and then the other.
LEMMA ClearStep ==
  ASSUME GraphInv, NEW t \in Threads, Topology!Clear(t) \/ Topology!ClearEdges(t)
  PROVE  GraphInv'
<1> PICK place \in {IF Topology!At(t, "clear") THEN "clear edges" ELSE "nodes"} : TRUE
  OBVIOUS
<1> PICK w \in {[work[t] EXCEPT !.at = place]} : TRUE
  OBVIOUS
<1>1. work[t] \in Clearings /\ work[t].at \in {"clear", "clear edges"}
  BY WorkPlaces DEF Topology!Clear, Topology!ClearEdges, Topology!At, GraphInv
<1>2. Topology!Building(t)
  BY <1>1 DEF Topology!Building, Topology!Busy, Topology!At
<1>3. work' = [work EXCEPT ![t] = w]
  BY DEF Topology!Clear, Topology!ClearEdges, Topology!At, Topology!Goes
<1>4. w \in Clearings /\ w.at = place /\ w.by = work[t].by
        /\ w.found = work[t].found /\ w.todo = work[t].todo
  BY <1>1 DEF Clearings
<1>5. /\ nodes' \subseteq Sites /\ out' \subseteq Topology!Links
      /\ edges' \subseteq Topology!Links /\ weighed' \subseteq Topology!Links
      /\ UNCHANGED <<builds, seen, raced>>
  BY DEF Topology!Clear, Topology!ClearEdges, GraphInv, Topology!TypeOK
<1>6. ASSUME ~raced
      PROVE  BuildOK(w)'
  <2>1. BuildOK(work[t])
    BY <1>6 DEF GraphInv
  <2>2. work[t] \notin Rankings \union Ends
    BY <1>1 DEF Clearings, Rankings, Ends
  <2>3. work[t].by = builds /\ work[t].found = seen /\ work[t].todo = seen
    BY <1>1, <2>1, <2>2 DEF BuildOK
  <2>4. CASE place = "clear edges"
    <3>1. nodes' = {} /\ out' = {}
      BY <2>4 DEF Topology!Clear, Topology!ClearEdges, Topology!At
    <3> QED BY <1>4, <1>5, <2>3, <2>4, <3>1 DEF BuildOK
  <2>5. CASE place = "nodes"
    <3>1. work[t].at = "clear edges" /\ edges' = {} /\ UNCHANGED <<nodes, out>>
      BY <2>5 DEF Topology!Clear, Topology!ClearEdges, Topology!At
    <3>2. nodes' = {} /\ out' = {}
      BY <2>1, <3>1 DEF BuildOK
    <3> QED BY <1>4, <1>5, <2>3, <2>5, <3>1, <3>2 DEF BuildOK
  <2> QED BY <2>4, <2>5
<1>7. w \in Works /\ w.at \notin {"failed", "rank", "idle"}
  <2>1. place \in {"clear edges", "nodes"}
    OBVIOUS
  <2> QED BY <1>4, <2>1 DEF Works
<1> QED BY <1>2, <1>3, <1>5, <1>6, <1>7, BuildStep

\* The builder gives the cameras their nodes.
LEMMA AddNodeStep ==
  ASSUME Topology!GraphAssumption, GraphInv, NEW t \in Threads, Topology!AddNode(t)
  PROVE  GraphInv'
<1>1. work[t] \in Clearings /\ work[t].at = "nodes" /\ Topology!Building(t)
  BY WorkPlaces DEF Topology!AddNode, Topology!At, GraphInv, Topology!Building,
                    Topology!Busy
<1>2. edges' \subseteq Topology!Links /\ weighed' \subseteq Topology!Links
        /\ UNCHANGED <<edges, weighed, builds, seen, raced>>
  BY DEF Topology!AddNode, GraphInv, Topology!TypeOK
<1>3. ASSUME ~raced
      PROVE  /\ work[t].by = builds /\ work[t].found = seen /\ work[t].todo \subseteq seen
             /\ nodes = seen \ work[t].todo /\ out = {} /\ edges = {}
  <2>1. BuildOK(work[t])
    BY <1>3 DEF GraphInv
  <2>2. work[t] \notin Rankings \union Ends
    BY <1>1 DEF Clearings, Rankings, Ends
  <2> QED BY <1>1, <2>1, <2>2 DEF BuildOK
<1>4. CASE /\ work[t].todo = {} /\ UNCHANGED <<nodes, out>>
           /\ work' = [work EXCEPT ![t].at = "link",
                         ![t].todo = Topology!Pairs(work[t].found), ![t].found = {}]
  <2>0. PICK w \in Linkings : w = [work[t] EXCEPT !.at = "link",
                       !.todo = Topology!Pairs(work[t].found), !.found = {}]
    BY <1>1, PairFacts DEF Clearings, Linkings
  <2>1. work' = [work EXCEPT ![t] = w]
    BY <1>4, <2>0
  <2>2. w \in Linkings /\ w.at = "link" /\ w.by = work[t].by
          /\ w.todo = Topology!Pairs(work[t].found)
    BY <1>1, <2>0 DEF Clearings
  <2>3. w \in Works /\ w.at \notin {"failed", "rank", "idle"}
    BY <2>2 DEF Works
  <2>4. ~raced => BuildOK(w)'
    BY <1>2, <1>3, <1>4, <2>2 DEF BuildOK, Exactly, LinksOf
  <2>5. nodes' \subseteq Sites /\ out' \subseteq Topology!Links
    BY <1>4 DEF GraphInv, Topology!TypeOK
  <2> QED BY <1>1, <1>2, <2>1, <2>3, <2>4, <2>5, BuildStep
<1>5. ASSUME NEW c \in work[t].todo, nodes' = nodes \union {c},
             out' = out \ Topology!Of(c), work' = [work EXCEPT ![t].todo = @ \ {c}]
      PROVE  GraphInv'
  <2> PICK w \in {[work[t] EXCEPT !.todo = @ \ {c}]} : TRUE
    OBVIOUS
  <2>1. work' = [work EXCEPT ![t] = w]
    BY <1>5
  <2>2. w \in Clearings /\ w.at = "nodes" /\ w.by = work[t].by
          /\ w.found = work[t].found /\ w.todo = work[t].todo \ {c}
    BY <1>1 DEF Clearings
  <2>3. w \in Works /\ w.at \notin {"failed", "rank", "idle"}
    BY <2>2 DEF Works
  <2>4. ~raced => BuildOK(w)'
    BY <1>2, <1>3, <1>5, <2>2 DEF BuildOK
  <2>5. nodes' \subseteq Sites /\ out' \subseteq Topology!Links
    <3>1. nodes \subseteq Sites /\ out \subseteq Topology!Links
      BY DEF GraphInv, Topology!TypeOK
    <3>2. c \in Sites
      BY <1>1, <1>5 DEF Clearings
    <3> QED BY <1>5, <3>1, <3>2
  <2> QED BY <1>1, <1>2, <2>1, <2>3, <2>4, <2>5, BuildStep
<1> QED BY <1>4, <1>5 DEF Topology!AddNode

\* The builder puts a link in the list of its camera.
LEMMA AddLinkStep ==
  ASSUME Topology!GraphAssumption, GraphInv, NEW t \in Threads, Topology!AddLink(t)
  PROVE  GraphInv'
<1>1. work[t] \in Linkings /\ work[t].at = "link" /\ Topology!Building(t)
  BY WorkPlaces DEF Topology!AddLink, Topology!At, GraphInv, Topology!Building,
                    Topology!Busy
<1>2. /\ nodes' \subseteq Sites /\ edges' \subseteq Topology!Links
      /\ weighed' \subseteq Topology!Links
      /\ UNCHANGED <<nodes, edges, weighed, builds, seen, raced>>
  BY DEF Topology!AddLink, GraphInv, Topology!TypeOK
<1>3. ASSUME ~raced
      PROVE  /\ work[t].by = builds /\ nodes = seen /\ out = edges
             /\ work[t].todo \subseteq Topology!Pairs(seen)
             /\ Exactly(edges, Topology!Pairs(seen) \ work[t].todo)
  <2>1. BuildOK(work[t])
    BY <1>3 DEF GraphInv
  <2>2. work[t] \notin Rankings \union Ends
    BY <1>1 DEF Linkings, Rankings, Ends
  <2> QED BY <1>1, <2>1, <2>2 DEF BuildOK
<1>4. \A p \in Topology!Pairs(seen) : p[1] \in seen
  BY PairFacts DEF GraphInv, Topology!TypeOK
<1>5. CASE /\ work[t].todo = {} /\ UNCHANGED out
           /\ work' = [work EXCEPT ![t].at = "weigh", ![t].todo = nodes, ![t].found = nodes]
  <2> PICK w \in {[work[t] EXCEPT !.at = "weigh", !.todo = nodes, !.found = nodes]} : TRUE
    OBVIOUS
  <2>1. work' = [work EXCEPT ![t] = w]
    BY <1>5
  <2>2. w \in Weighings /\ w.at = "weigh" /\ w.by = work[t].by
          /\ w.todo = nodes /\ w.found = nodes
    BY <1>1 DEF Linkings, Weighings, GraphInv, Topology!TypeOK
  <2>3. w \in Works /\ w.at \notin {"failed", "rank", "idle"}
    BY <2>2 DEF Works
  <2>4. ~raced => BuildOK(w)'
    <3> SUFFICES ASSUME ~raced PROVE BuildOK(w)'
      OBVIOUS
    <3>1. Exactly(edges, Topology!Pairs(seen))
      BY <1>3, <1>5 DEF Exactly
    <3>2. \A l \in out : l.of[1] \in nodes
      <4>1. \A l \in out : l.of \in Topology!Pairs(seen)
        <5>1. out = LinksOf(Topology!Pairs(seen), builds)
          BY <1>3, <3>1 DEF Exactly
        <5> QED BY <5>1 DEF LinksOf
      <4> QED BY <1>3, <1>4, <4>1
    <3> QED BY <1>2, <1>3, <1>5, <2>2, <3>1, <3>2 DEF BuildOK, Exactly
  <2>5. out' \subseteq Topology!Links
    BY <1>5 DEF GraphInv, Topology!TypeOK
  <2> QED BY <1>1, <1>2, <2>1, <2>3, <2>4, <2>5, BuildStep
<1>6. ASSUME NEW p \in work[t].todo, p[1] \notin nodes, Topology!Ends(t, "failed"),
             UNCHANGED out
      PROVE  GraphInv'
  <2>1. raced
    BY <1>3, <1>4, <1>6
  <2>2. [at |-> "failed"] \in Works
    BY DEF Works, Ends
  <2>3. out' \subseteq Topology!Links
    BY <1>6 DEF GraphInv, Topology!TypeOK
  <2> QED BY <1>1, <1>2, <1>6, <2>1, <2>2, <2>3, BuildStep DEF Topology!Ends
<1>7. ASSUME NEW p \in work[t].todo,
             out' = out \union {[of |-> p, by |-> work[t].by]},
             work' = [work EXCEPT ![t].at = "list", ![t].todo = @ \ {p}, ![t].link = p]
      PROVE  GraphInv'
  <2> PICK w \in {[work[t] EXCEPT !.at = "list", !.todo = @ \ {p}, !.link = p]} : TRUE
    OBVIOUS
  <2>1. work' = [work EXCEPT ![t] = w]
    BY <1>7
  <2>2. w \in Listings /\ w.at = "list" /\ w.by = work[t].by /\ w.link = p
          /\ w.todo = work[t].todo \ {p}
    <3>1. work[t] \in Linkings
      BY <1>1
    <3>2. p \in Near /\ work[t].todo \ {p} \subseteq Near
      BY <1>7, <3>1 DEF Linkings
    <3> QED BY <3>1, <3>2 DEF Linkings, Listings
  <2>3. w \in Works /\ w.at \notin {"failed", "rank", "idle"}
    BY <2>2 DEF Works
  <2>4. ~raced => BuildOK(w)'
    <3> SUFFICES ASSUME ~raced PROVE BuildOK(w)'
      OBVIOUS
    <3>1. p \in Topology!Pairs(seen) /\ p \notin Topology!Pairs(seen) \ work[t].todo
      BY <1>3, <1>7
    <3>2. Topology!Pairs(seen) \ w.todo = (Topology!Pairs(seen) \ work[t].todo) \union {p}
      BY <2>2, <3>1
    <3>3. Exactly(out, Topology!Pairs(seen) \ w.todo)'
      <4>1. out = LinksOf(Topology!Pairs(seen) \ work[t].todo, builds)
        BY <1>3 DEF Exactly
      <4>2. out' = out \union {LinkOf(p, builds)}
        BY <1>3, <1>7 DEF LinkOf
      <4>3. \A l \in LinksOf(Topology!Pairs(seen) \ w.todo, builds) : l \in out'
        <5> TAKE l \in LinksOf(Topology!Pairs(seen) \ w.todo, builds)
        <5>1. /\ l = [of |-> l.of, by |-> l.by] /\ l.of \in Topology!Pairs(seen) \ w.todo
              /\ l.by = builds
          BY DEF LinksOf
        <5>2. CASE l.of = p
          BY <4>2, <5>1, <5>2 DEF LinkOf
        <5>3. CASE l.of # p
          BY <3>2, <4>1, <4>2, <5>1, <5>3 DEF LinksOf
        <5> QED BY <5>2, <5>3
      <4>4. \A l \in out' : l \in LinksOf(Topology!Pairs(seen) \ w.todo, builds)
        BY <3>2, <4>1, <4>2 DEF LinksOf, LinkOf
      <4>5. out' = LinksOf(Topology!Pairs(seen) \ w.todo, builds)
        BY <4>3, <4>4
      <4> QED BY <1>2, <4>5 DEF Exactly, LinksOf, Topology!Pairs
    <3>4. Exactly(edges, (Topology!Pairs(seen) \ w.todo) \ {p})'
      BY <1>2, <1>3, <3>1, <3>2 DEF Exactly, Topology!Pairs
    <3> QED BY <1>2, <1>3, <2>2, <3>1, <3>2, <3>3, <3>4 DEF BuildOK
  <2>5. out' \subseteq Topology!Links
    BY <1>1, <1>7 DEF GraphInv, Topology!TypeOK, Topology!Links, Linkings
  <2> QED BY <1>1, <1>2, <2>1, <2>3, <2>4, <2>5, BuildStep
<1> QED BY <1>5, <1>6, <1>7 DEF Topology!AddLink

\* The builder puts the link in the list of all.
LEMMA ListLinkStep ==
  ASSUME GraphInv, NEW t \in Threads, Topology!ListLink(t)
  PROVE  GraphInv'
<1>1. work[t] \in Listings /\ work[t].at = "list" /\ Topology!Building(t)
  BY WorkPlaces DEF Topology!ListLink, Topology!At, GraphInv, Topology!Building,
                    Topology!Busy
<1>2. /\ nodes' \subseteq Sites /\ out' \subseteq Topology!Links
      /\ weighed' \subseteq Topology!Links
      /\ UNCHANGED <<nodes, out, weighed, builds, seen, raced>>
      /\ edges' = edges \union {LinkOf(work[t].link, work[t].by)}
  BY DEF Topology!ListLink, GraphInv, Topology!TypeOK, LinkOf
<1>3. edges' \subseteq Topology!Links
  BY <1>1, <1>2 DEF GraphInv, Topology!TypeOK, Topology!Links, Listings, LinkOf
<1> PICK w \in {[work[t] EXCEPT !.at = "link", !.link = <<>>]} : TRUE
  OBVIOUS
<1>4. work' = [work EXCEPT ![t] = w]
  BY DEF Topology!ListLink, Topology!None
<1>5. w \in Linkings /\ w.at = "link" /\ w.by = work[t].by /\ w.todo = work[t].todo
  BY <1>1 DEF Listings, Linkings
<1>6. w \in Works /\ w.at \notin {"failed", "rank", "idle"}
  BY <1>5 DEF Works
<1>7. ASSUME ~raced
      PROVE  BuildOK(w)'
  <2>1. BuildOK(work[t])
    BY <1>7 DEF GraphInv
  <2>2. work[t] \notin Rankings \union Ends
    BY <1>1 DEF Listings, Rankings, Ends
  <2> PICK ps \in {Topology!Pairs(seen) \ work[t].todo} : TRUE
    OBVIOUS
  <2> PICK q \in {work[t].link} : TRUE
    OBVIOUS
  <2>3. /\ work[t].by = builds /\ nodes = seen
        /\ work[t].todo \subseteq Topology!Pairs(seen) /\ q \in ps
        /\ out = LinksOf(ps, builds) /\ edges = LinksOf(ps \ {q}, builds)
    BY <1>1, <2>1, <2>2 DEF BuildOK, Exactly
  <2>4. edges' = edges \union {LinkOf(q, builds)}
    BY <1>2, <2>3
  <2>5. \A l \in LinksOf(ps, builds) : l \in edges'
    <3> TAKE l \in LinksOf(ps, builds)
    <3>1. l = [of |-> l.of, by |-> l.by] /\ l.of \in ps /\ l.by = builds
      BY DEF LinksOf
    <3>2. CASE l.of = q
      BY <2>4, <3>1, <3>2 DEF LinkOf
    <3>3. CASE l.of # q
      BY <2>3, <2>4, <3>1, <3>3 DEF LinksOf
    <3> QED BY <3>2, <3>3
  <2>6. \A l \in edges' : l \in LinksOf(ps, builds)
    BY <2>3, <2>4 DEF LinksOf, LinkOf
  <2>7. out' = edges' /\ edges' = LinksOf(ps, builds)
    BY <1>2, <2>3, <2>5, <2>6
  <2>8. Exactly(edges, Topology!Pairs(seen) \ w.todo)'
    BY <1>2, <1>5, <2>7 DEF Exactly, LinksOf, Topology!Pairs
  <2>9. w.todo \subseteq Topology!Pairs(seen)'
    BY <1>2, <1>5, <2>3 DEF Topology!Pairs
  <2> QED BY <1>2, <1>5, <2>3, <2>7, <2>8, <2>9 DEF BuildOK
<1> QED BY <1>1, <1>2, <1>3, <1>4, <1>6, <1>7, BuildStep

\* The builder weighs the links, node by node.
LEMMA WeighStep ==
  ASSUME GraphInv, NEW t \in Threads, Topology!Weigh(t)
  PROVE  GraphInv'
<1>1. work[t] \in Weighings /\ work[t].at = "weigh" /\ Topology!Building(t)
  BY WorkPlaces DEF Topology!Weigh, Topology!At, GraphInv, Topology!Building,
                    Topology!Busy
<1>2. /\ nodes' \subseteq Sites /\ out' \subseteq Topology!Links
      /\ edges' \subseteq Topology!Links
      /\ UNCHANGED <<nodes, out, edges, builds, seen, raced>>
  BY DEF Topology!Weigh, GraphInv, Topology!TypeOK
<1>3. ASSUME ~raced
      PROVE  /\ work[t].by = builds /\ nodes = seen /\ work[t].found = nodes
             /\ work[t].todo \subseteq nodes /\ out = edges
             /\ Exactly(edges, Topology!Pairs(seen))
             /\ \A l \in out : l.of[1] \in work[t].todo \/ l \in weighed
  <2>1. BuildOK(work[t])
    BY <1>3 DEF GraphInv
  <2>2. work[t] \notin Rankings \union Ends
    BY <1>1 DEF Weighings, Rankings, Ends
  <2> QED BY <1>1, <2>1, <2>2 DEF BuildOK
<1>4. CASE /\ Topology!Cardinality(nodes) # Topology!Cardinality(work[t].found)
           /\ Topology!Ends(t, "failed") /\ UNCHANGED weighed
  <2>1. raced
    BY <1>3, <1>4
  <2>2. [at |-> "failed"] \in Works
    BY DEF Works, Ends
  <2>3. weighed' \subseteq Topology!Links
    BY <1>4 DEF GraphInv, Topology!TypeOK
  <2> QED BY <1>1, <1>2, <1>4, <2>1, <2>2, <2>3, BuildStep DEF Topology!Ends
<1>5. ASSUME NEW w \in Rankings \union Ends, w.at \in {"rank", "idle"},
             work' = [work EXCEPT ![t] = w], work[t].todo = {}, UNCHANGED weighed
      PROVE  GraphInv'
  <2>1. w \in Works /\ w.at # "failed"
    BY <1>5 DEF Works
  <2>2. weighed' \subseteq Topology!Links
    BY <1>5 DEF GraphInv, Topology!TypeOK
  <2>3. ~raced => Settled'
    BY <1>2, <1>3, <1>5 DEF Settled, Exactly, LinksOf, Topology!Pairs
  <2>4. BuildOK(w)'
    BY <1>5 DEF BuildOK, Rankings, Ends
  <2> QED BY <1>1, <1>2, <1>5, <2>1, <2>2, <2>3, <2>4, BuildStep
<1>6. ASSUME NEW c \in work[t].todo, weighed' = weighed \union Topology!Of(c),
             work' = [work EXCEPT ![t].todo = @ \ {c}]
      PROVE  GraphInv'
  <2> PICK w \in {[work[t] EXCEPT !.todo = @ \ {c}]} : TRUE
    OBVIOUS
  <2>1. work' = [work EXCEPT ![t] = w]
    BY <1>6
  <2>2. w \in Weighings /\ w.at = "weigh" /\ w.by = work[t].by
          /\ w.found = work[t].found /\ w.todo = work[t].todo \ {c}
    BY <1>1 DEF Weighings
  <2>3. w \in Works /\ w.at \notin {"failed", "rank", "idle"}
    BY <2>2 DEF Works
  <2>4. weighed' \subseteq Topology!Links
    BY <1>6 DEF GraphInv, Topology!TypeOK, Topology!Of
  <2>5. ASSUME ~raced
        PROVE  BuildOK(w)'
    <3>1. \A l \in out : l.of[1] \in w.todo \/ l \in weighed'
      BY <1>3, <1>6, <2>2, <2>5 DEF Topology!Of
    <3>2. Exactly(edges, Topology!Pairs(seen))'
      BY <1>2, <1>3, <2>5 DEF Exactly, LinksOf, Topology!Pairs
    <3> QED BY <1>2, <1>3, <2>2, <2>5, <3>1, <3>2 DEF BuildOK
  <2> QED BY <1>1, <1>2, <2>1, <2>3, <2>4, <2>5, BuildStep
<1>7. CASE work[t].todo = {} /\ UNCHANGED weighed
           /\ IF work[t].camera = Topology!Summary THEN Topology!Ends(t, "idle")
              ELSE work' = [work EXCEPT ![t] = [at |-> "rank", camera |-> @.camera]]
  <2>1. [at |-> "idle"] \in Ends /\ [at |-> "rank", camera |-> work[t].camera] \in Rankings
    BY <1>1 DEF Ends, Rankings, Weighings
  <2>2. CASE work' = [work EXCEPT ![t] = [at |-> "idle"]]
    BY <1>5, <1>7, <2>1, <2>2
  <2>3. CASE work' = [work EXCEPT ![t] = [at |-> "rank", camera |-> work[t].camera]]
    BY <1>5, <1>7, <2>1, <2>3
  <2> QED BY <1>7, <2>2, <2>3 DEF Topology!Ends
<1> QED BY <1>4, <1>6, <1>7 DEF Topology!Weigh

\* A request that ranks finds the links of its camera weighed, unless somebody raced.
LEMMA RankStep ==
  ASSUME GraphInv, NEW t \in Threads, Topology!Rank(t)
  PROVE  GraphInv'
<1>1. Topology!At(t, "rank") /\ Topology!Busy(t) /\ ~Topology!Building(t)
  BY DEF Topology!Rank, Topology!Busy, Topology!At, Topology!Building
<1>2. UNCHANGED <<nodes, out, edges, weighed, builds, seen, raced>>
  BY DEF Topology!Rank, Topology!graph
<1>3. /\ nodes' \subseteq Sites /\ seen' \subseteq Sites /\ out' \subseteq Topology!Links
      /\ edges' \subseteq Topology!Links /\ weighed' \subseteq Topology!Links
      /\ builds' \in 0 .. MaxBuilds /\ raced' \in BOOLEAN
  BY <1>2 DEF GraphInv, Topology!TypeOK
<1>4. PICK w \in Ends : /\ work' = [work EXCEPT ![t] = w]
                        /\ Topology!Of(work[t].camera) \subseteq weighed => w.at = "idle"
  <2> DEFINE place == IF Topology!Of(work[t].camera) \subseteq weighed
                      THEN "idle" ELSE "failed"
  <2>1. [at |-> place] \in Ends
    BY DEF Ends
  <2> QED BY <2>1 DEF Topology!Rank, Topology!Ends
<1>5. CASE raced
  BY <1>2, <1>3, <1>4, <1>5, RacedMoves DEF Works
<1>6. CASE ~raced
  <2>1. \A u \in Threads : ~Topology!Building(u)
    BY <1>1, <1>6 DEF GraphInv, Solitary, Topology!Building
  <2>2. Settled
    BY <1>6, <2>1 DEF GraphInv
  <2>3. w.at = "idle"
    BY <1>4, <2>2 DEF Settled, Topology!Of
  <2>4. work' \in [Threads -> Works] /\ work'[t] = w
    BY <1>4 DEF GraphInv, Works
  <2>5. \A u \in Threads : ~Topology!Building(u)' /\ ~Topology!At(u, "failed")'
    BY <1>4, <1>6, <2>1, <2>3, <2>4
       DEF GraphInv, Solitary, Topology!Building, Topology!Busy, Topology!At
  <2>6. Settled'
    BY <1>2, <2>2 DEF Settled, Exactly, LinksOf, Topology!Pairs
  <2>7. \A u \in Threads : BuildOK(work[u])'
    <3> SUFFICES ASSUME NEW u \in Threads
                 PROVE  BuildOK(work[u])'
      OBVIOUS
    <3>1. CASE u = t
      BY <2>3, <2>4, <3>1 DEF BuildOK, Ends
    <3>2. CASE u # t
      <4>1. work'[u] = work[u] /\ work[u] \in Rankings \union Ends
        BY <1>4, <2>1, <3>2, WorkPlaces DEF GraphInv
      <4> QED BY <4>1 DEF BuildOK, Rankings, Ends
    <3> QED BY <3>1, <3>2
  <2>8. \A u \in Threads : work'[u].at \in Topology!Places
    BY <2>4 DEF Works, Clearings, Linkings, Listings, Weighings, Rankings, Ends,
                Topology!Places
  <2> QED BY <1>3, <2>4, <2>5, <2>6, <2>7, <2>8 DEF GraphInv, Topology!TypeOK, Solitary
<1> QED BY <1>5, <1>6

\* The links of the pairs ps, made by one build, are as many as the pairs.
LEMMA OneLinkPerPair ==
  ASSUME NEW ps, NEW b, IsFiniteSet(ps)
  PROVE  Cardinality(LinksOf(ps, b)) = Cardinality(ps)
<1> DEFINE f == [p \in ps |-> [of |-> p, by |-> b]]
<1>1. f \in [ps -> LinksOf(ps, b)]
  BY DEF LinksOf
<1>2. \A p, q \in ps : f[p] = f[q] => p = q
  OBVIOUS
<1>3. \A l \in LinksOf(ps, b) : \E p \in ps : f[p] = l
  BY DEF LinksOf
<1>4. f \in Bijection(ps, LinksOf(ps, b))
  BY <1>1, <1>2, <1>3 DEF Bijection, Injection, Surjection, IsInjective
<1> QED BY <1>4, FS_Bijection DEF ExistsBijection

\* The invariant holds at first.
LEMMA GraphStart ==
  ASSUME Topology!GraphAssumption
  PROVE  Topology!Init => GraphInv
<1> SUFFICES ASSUME Topology!Init PROVE GraphInv
  OBVIOUS
<1>1. nodes = {} /\ out = {} /\ edges = {} /\ weighed = {} /\ seen = {} /\ builds = 0
        /\ raced = FALSE /\ work = [t \in Threads |-> [at |-> "idle"]]
  BY DEF Topology!Init, Topology!Idle
<1>2. work \in [Threads -> Works] /\ \A t \in Threads : work[t].at = "idle"
  BY <1>1 DEF Works, Ends
<1>3. Topology!TypeOK
  <2>1. 0 \in 0 .. MaxBuilds
    BY DEF Topology!GraphAssumption
  <2> QED BY <1>1, <1>2, <2>1 DEF Topology!TypeOK, Topology!Places
<1>4. Settled
  BY <1>1 DEF Settled, Exactly, LinksOf, Topology!Pairs
<1>5. \A t \in Threads : BuildOK(work[t])
  BY <1>2, <1>1 DEF BuildOK, Ends
<1>6. Solitary
  BY <1>2 DEF Solitary, Topology!At, Topology!Building, Topology!Busy
<1> QED BY <1>2, <1>3, <1>4, <1>5, <1>6 DEF GraphInv

\* Steps of the registry leave it alone.
LEMMA GraphStays ==
  ASSUME GraphInv, UNCHANGED <<nodes, out, edges, weighed, work, builds, seen, raced>>
  PROVE  GraphInv'
<1>1. Topology!TypeOK' /\ work' \in [Threads -> Works]
  BY DEF GraphInv, Topology!TypeOK
<1>2. Solitary' = Solitary
  BY DEF Solitary, Topology!At, Topology!Building, Topology!Busy
<1>3. Settled' = Settled
  BY DEF Settled, Exactly, LinksOf, Topology!Pairs
<1>4. \A t \in Threads : BuildOK(work[t]) => BuildOK(work[t])'
  <2> TAKE t \in Threads
  <2> PICK w \in {work[t]} : TRUE
    OBVIOUS
  <2>1. BuildOK(w) => BuildOK(w)'
    BY DEF BuildOK, Exactly, LinksOf, Topology!Pairs
  <2> QED BY <2>1
<1>5. \A t \in Threads : Topology!Building(t)' = Topology!Building(t)
  BY DEF Topology!At, Topology!Building, Topology!Busy
<1> QED BY <1>1, <1>2, <1>3, <1>4, <1>5 DEF GraphInv

\* And each step of the graph keeps it.
LEMMA GraphStep ==
  ASSUME Topology!GraphAssumption
  PROVE  GraphInv /\ Topology!Next => GraphInv'
BY AskStep, ClearStep, AddNodeStep, AddLinkStep, ListLinkStep, WeighStep, RankStep
   DEF Topology!Next

\* What the invariant says of a graph nobody builds and nobody has raced for.
LEMMA GraphSound ==
  ASSUME Topology!GraphAssumption, GraphInv
  PROVE  Topology!TopologyOfOneReading
<1> SUFFICES ASSUME ~raced, \A t \in Threads : ~Topology!Building(t)
             PROVE  /\ {l.of : l \in edges} = Topology!Pairs(seen)
                    /\ Topology!Cardinality(edges)
                         = Topology!Cardinality(Topology!Pairs(seen))
  BY DEF Topology!TopologyOfOneReading, GraphInv, Solitary, Settled
<1>1. edges = LinksOf(Topology!Pairs(seen), builds)
  BY DEF GraphInv, Settled, Exactly
<1>2. {l.of : l \in edges} = Topology!Pairs(seen)
  <2>1. \A p \in Topology!Pairs(seen) : LinkOf(p, builds) \in edges
                                          /\ LinkOf(p, builds).of = p
    BY <1>1 DEF LinksOf, LinkOf
  <2>2. \A l \in edges : l.of \in Topology!Pairs(seen)
    BY <1>1 DEF LinksOf
  <2> QED BY <2>1, <2>2
<1>3. IsFiniteSet(Topology!Pairs(seen))
  BY PairFacts DEF GraphInv, Topology!TypeOK
<1>4. Cardinality(edges) = Cardinality(Topology!Pairs(seen))
  BY <1>1, <1>3, OneLinkPerPair
<1>5. \A S : Topology!Cardinality(S) = Cardinality(S)
  BY DEF Topology!Cardinality, Cardinality
<1> QED BY <1>2, <1>4, <1>5

-----------------------------------------------------------------------------
(* The components beside one another                                       *)

SystemAssumption == Registry!RegistryAssumption /\ Topology!GraphAssumption

SystemInv ==
  /\ part \in {"registry", "topology"} => RegistryInv
  /\ part = "topology" => GraphInv
  /\ part = "broadcasts" => ServedInv

\* Each component keeps its own invariant.
LEMMA SystemInvariant ==
  ASSUME SystemAssumption
  PROVE  AnySpec => []SystemInv
<1>1. AnyInit => SystemInv
  BY ServedStart, RegistryStart, GraphStart
     DEF AnyInit, RealtimeInit, SystemInv, SystemAssumption
<1>2. SystemInv /\ [AnyNext]_allVars => SystemInv'
  <2> SUFFICES ASSUME SystemInv, [AnyNext]_allVars PROVE SystemInv'
    OBVIOUS
  <2>1. part' = part
    BY DEF AnyNext, RealtimeNext, allVars
  <2>2. ASSUME part \in {"registry", "topology"} PROVE RegistryInv'
    <3>1. RegistryInv /\ Registry!RegistryAssumption
      BY <2>2 DEF SystemInv, SystemAssumption
    <3>2. Topology!Next => status' = status
      BY DEF Topology!Next, Topology!Ask, Topology!Clear, Topology!ClearEdges, Topology!AddNode,
             Topology!AddLink, Topology!ListLink, Topology!Weigh, Topology!Rank
    <3>3. Registry!Next \/ UNCHANGED registryVars
      BY <2>2, <3>2 DEF AnyNext, RealtimeNext, TopologyNext, allVars, registryVars
    <3> QED BY <3>1, <3>3, RegistryStep DEF registryVars, Registry!vars
  <2>3. ASSUME part = "topology" PROVE GraphInv'
    <3>1. Topology!Next \/ UNCHANGED graphVars
      BY <2>3 DEF AnyNext, RealtimeNext, TopologyNext, allVars
    <3> QED BY <2>3, <3>1, GraphStep, GraphStays DEF graphVars, SystemInv, SystemAssumption
  <2>4. ASSUME part = "broadcasts" PROVE ServedInv'
    <3>1. Broadcast!Next \/ UNCHANGED realtimeVars
      BY <2>4 DEF AnyNext, RealtimeNext, allVars
    <3> QED BY <2>4, <3>1, ServedStep DEF realtimeVars, Broadcast!vars, SystemInv
  <2> QED BY <2>1, <2>2, <2>3, <2>4 DEF SystemInv
<1> QED BY <1>1, <1>2, PTL DEF AnySpec

\* The variables of the gateway, the registry, the graph and the broadcaster keep
\* their types, for any connections, alerts, threads and cameras.
THEOREM TypesKept ==
  ASSUME SystemAssumption
  PROVE  AnySpec => []TypesOK
<1>1. AnyInit => TypeOK
  BY PoolStart DEF AnyInit, RealtimeInit
<1>2. TypeOK /\ [AnyNext]_allVars => TypeOK'
  <2>1. [AnyNext]_allVars => [Next]_vars
    BY DEF AnyNext, RealtimeNext, allVars
  <2> QED BY <2>1, PoolTypeStep
<1>3. TypeOK /\ SystemInv => TypesOK
  BY DEF TypesOK, SystemInv, RegistryInv, GraphInv, ServedInv
<1> QED BY <1>1, <1>2, <1>3, SystemInvariant, PTL DEF AnySpec

\* A report that nobody overlapped is in force as a whole, for any threads and
\* cameras, whatever was mixed before and wherever the process restarted
\* (record_camera_heartbeat and validate_camera_lifecycle, api/cameras.py).
THEOREM ReportsInForce ==
  ASSUME SystemAssumption
  PROVE  AnySpec => []ReportInForce
<1>1. SystemInv => ReportInForce
  BY DEF SystemInv, RegistryInv, ReportInForce
<1> QED BY <1>1, SystemInvariant, PTL

\* Requests that no build overlaps never fail and find each link of the last
\* reading once and weighed, for any threads and cameras and any number of builds
\* (build_graph, services/camera_graph.py).
THEOREM TopologySound ==
  ASSUME SystemAssumption
  PROVE  AnySpec => []TopologyOfOneReading
<1>1. SystemInv => TopologyOfOneReading
  BY GraphSound DEF SystemInv, TopologyOfOneReading, SystemAssumption
<1> QED BY <1>1, SystemInvariant, PTL

\* However connections come, break and go while alerts are sent, a dashboard
\* whose connection holds stays registered and gets every alert it was to get
\* (AlertBroadcaster.broadcast, core/realtime.py).
THEOREM DashboardsServed ==
  ASSUME SystemAssumption
  PROVE  AnySpec => []EveryClientServed
<1>1. SystemInv => EveryClientServed
  BY DEF SystemInv, ServedInv, Unharmed, Underway, Broadcast!EveryClientServed,
         EveryClientServed
<1> QED BY <1>1, SystemInvariant, PTL
=============================================================================
