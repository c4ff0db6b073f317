--------------------------- MODULE CameraRegistry ---------------------------
(***************************************************************************)
(* Cameras and their health: onboarding, heartbeats and the validation of  *)
(* a camera's lifecycle (backend/app/api/cameras.py), and the set of       *)
(* cameras bound to the vision pipeline of the process.                    *)
(*                                                                         *)
(* A request reads the camera and, later, its health row, and commits both *)
(* at its end; of a row it read, the ORM writes the columns it gave        *)
(* another value.  Telemetry other than the two statuses is left out.      *)
(***************************************************************************)
EXTENDS Naturals

CONSTANTS
  Threads, Cameras,
  Seeded,      \* cameras in the database at the start, with no health row
  Local,       \* cameras whose stream URL names no host, or this one
  MaxReports   \* bound: onboardings, heartbeats and validations

RegistryAssumption ==
  Seeded \subseteq Cameras /\ Local \subseteq Cameras /\ MaxReports \in Nat

None == "none"
Reported == {"ONLINE", "DEGRADED", "OFFLINE"}

VARIABLES
  status,   \* camera -> cameras.status, or None
  health,   \* camera -> camera_health.status, or None
  bound,    \* vision_pipeline._active_cameras
  request,  \* thread -> the request it serves and what it has read
  reports,
  told,     \* history: camera -> what the last report to commit said of it
  crossed   \* history: cameras on which another committed while that report was made

vars == <<status, health, bound, request, reports, told, crossed>>

Idle == [at |-> "idle"]
Statuses == {None, "ACTIVE", "DEGRADED", "OFFLINE"}
Healths == Reported \union {None, "UNCONFIGURED"}

TypeOK ==
  /\ status \in [Cameras -> Statuses] /\ health \in [Cameras -> Healths]
  /\ bound \subseteq Cameras /\ crossed \subseteq Cameras
  /\ \A t \in Threads :
       request[t].at \in {"idle", "onboard", "probe", "health", "commit"}
  /\ reports \in 0 .. MaxReports
  /\ told \in [Cameras -> Statuses \X Healths]
  /\ \A c \in Cameras : status[c] = None => health[c] = None

Init ==
  /\ status = [c \in Cameras |-> IF c \in Seeded THEN "ACTIVE" ELSE None]
  /\ health = [c \in Cameras |-> None]
  /\ bound = {} /\ reports = 0 /\ crossed = {}
  /\ request = [t \in Threads |-> Idle]
  /\ told = [c \in Cameras |-> <<status[c], None>>]

At(t, place) == request[t].at = place
Goes(t, r) == request' = [request EXCEPT ![t] = r]

\* The request of t commits s and h; the others on the camera have stale reads.
Commits(t, s, h) ==
  LET r == request[t]  c == r.camera
  IN  /\ status' = [status EXCEPT ![c] = s] /\ health' = [health EXCEPT ![c] = h]
      /\ told' = [told EXCEPT ![c] = <<r.status, r.health>>]
      /\ crossed' = IF r.stale THEN crossed \union {c} ELSE crossed \ {c}
      /\ request' = [u \in Threads |->
           CASE u = t -> Idle
             [] u # t /\ ~At(u, "idle") /\ request[u].camera = c ->
                  [request[u] EXCEPT !.stale = TRUE]
             [] OTHER -> request[u]]
      /\ UNCHANGED <<bound, reports>>

Starts(t, r) ==
  /\ At(t, "idle") /\ reports < MaxReports
  /\ reports' = reports + 1
  /\ Goes(t, r)
  /\ UNCHANGED <<status, health, bound, told, crossed>>

Fails(t) == Goes(t, Idle) /\ UNCHANGED <<status, health, bound, reports, told, crossed>>
-----------------------------------------------------------------------------
\* onboard_camera finds no camera of that name.
Onboard(t, c) ==
  /\ status[c] = None
  /\ \E s \in Statuses \ {None} :
       Starts(t, [at |-> "onboard", camera |-> c, status |-> s, health |-> "ONLINE",
                  stale |-> FALSE])

\* The name is unique: of two requests that found none, one fails.
Insert(t) ==
  LET r == request[t]
  IN  /\ At(t, "onboard")
      /\ IF status[r.camera] = None THEN Commits(t, r.status, r.health) ELSE Fails(t)

\* record_camera_heartbeat reads the camera.
Heartbeat(t, c) ==
  /\ status[c] # None
  /\ \E s \in Reported :
       Starts(t, [at |-> "health", camera |-> c, read |-> status[c], health |-> s,
                  status |-> IF s = "ONLINE" THEN "ACTIVE" ELSE s, stale |-> FALSE])

\* validate_camera_lifecycle reads it, and spends time on its endpoint.
Validate(t, c) ==
  /\ status[c] # None
  /\ Starts(t, [at |-> "probe", camera |-> c, read |-> status[c], stale |-> FALSE])

\* cameras.py imports no module `time`: reading its clock raises before the
\* connection is attempted, whatever the endpoint would have answered.
ClockRead == FALSE

\* The camera is bound.  Then the report is composed, of fields that neither
\* branch has set when the endpoint is not one to probe.
Probe(t) ==
  LET r == request[t]
  IN  /\ At(t, "probe")
      /\ bound' = bound \union {r.camera}
      /\ \E answers \in BOOLEAN :
           Goes(t, IF r.camera \in Local THEN Idle
                   ELSE [at |-> "health", camera |-> r.camera, read |-> r.read,
                         health |-> IF ClockRead /\ answers THEN "ONLINE" ELSE "UNCONFIGURED",
                         status |-> "ACTIVE", stale |-> r.stale])
      /\ UNCHANGED <<status, health, reports, told, crossed>>

\* cam.health is loaded when it is first used.
ReadHealth(t) ==
  LET r == request[t]
  IN  /\ At(t, "health")
      /\ Goes(t, [at |-> "commit", camera |-> r.camera, read |-> r.read,
                  readHealth |-> health[r.camera], status |-> r.status,
                  health |-> r.health, stale |-> r.stale])
      /\ UNCHANGED <<status, health, bound, reports, told, crossed>>

Written(read, new, stored) == IF new # read THEN new ELSE stored

\* Mutant of Commit: a report that adds the health row leaves the camera alone.
CommitRowOnly(t) ==
  LET r == request[t]  c == r.camera
  IN  /\ At(t, "commit")
      /\ IF r.readHealth = None /\ health[c] # None THEN Fails(t)
         ELSE Commits(t, IF r.readHealth = None THEN status[c]
                         ELSE Written(r.read, r.status, status[c]),
                      Written(r.readHealth, r.health, health[c]))

\* A camera has one health row: a request that would add a second fails whole.
Commit(t) ==
  LET r == request[t]  c == r.camera
  IN  /\ At(t, "commit")
      /\ IF r.readHealth = None /\ health[c] # None THEN Fails(t)
         ELSE Commits(t, Written(r.read, r.status, status[c]),
                      Written(r.readHealth, r.health, health[c]))

\* The process and its requests start again; the database stays.
Restart ==
  /\ bound # {} /\ bound' = {}
  /\ request' = [t \in Threads |-> Idle]
  /\ UNCHANGED <<status, health, reports, told, crossed>>

Next ==
  \/ \E t \in Threads, c \in Cameras : Onboard(t, c) \/ Heartbeat(t, c) \/ Validate(t, c)
  \/ \E t \in Threads : Insert(t) \/ Probe(t) \/ ReadHealth(t) \/ Commit(t)
  \/ Restart

Spec == Init /\ [][Next]_vars
-----------------------------------------------------------------------------
(* A report that no other one overlapped is in force as a whole: the camera *)
(* and its health row say together what it said, though only the columns it *)
(* changed are written, and whatever overlapping reports had mixed before   *)
(* (cameras.py:307-321, 348-365).                                           *)
ReportInForce ==
  \A c \in Cameras : c \notin crossed => <<status[c], health[c]>> = told[c]
=============================================================================
