----------------------------- MODULE SchemaTables -----------------------------
(***************************************************************************)
(* The tables of the database, as the migration                            *)
(* db/migrations/versions/0001_initial_schema.py creates them and as the   *)
(* entities of backend/app/models/orm.py declare them.                     *)
(*                                                                         *)
(* A table is its name and the tables its foreign keys name.  Columns are  *)
(* left out, but for those that the entities have and the migration does   *)
(* not create: a table is Late when it has them.                           *)
(***************************************************************************)
EXTENDS Naturals, Sequences, SequencesExt, TLC

-----------------------------------------------------------------------------
(* The migration: its tables in the order upgrade creates them.            *)

Table(name, refs) == [name |-> name, refs |-> refs]

IdentityTables == <<
  Table("districts", {}), Table("departments", {}), Table("roles", {}),
  Table("permissions", {}), Table("role_permissions", {"roles", "permissions"}),
  Table("users", {}), Table("user_roles", {"users", "roles"}) >>

CameraTables == <<
  Table("cameras", {"departments"}), Table("camera_credentials", {"cameras"}),
  Table("camera_configurations", {"cameras"}), Table("camera_health", {"cameras"}),
  Table("federation_access_requests", {"users", "cameras"}) >>

VisionTables == <<
  Table("ai_models", {}), Table("ai_model_deployments", {"ai_models"}),
  Table("vehicle_tracks", {"cameras"}), Table("plate_detections", {"cameras"}),
  Table("anpr_results", {"plate_detections"}), Table("vehicle_sightings", {"cameras"}),
  Table("vehicle_embeddings", {"vehicle_sightings"}) >>

WatchTables == <<
  Table("watchlists", {}), Table("watchlist_entries", {"watchlists"}),
  Table("alerts", {"watchlists", "vehicle_sightings", "cameras"}),
  Table("alert_events", {"alerts"}) >>

CaseTables == <<
  Table("cases", {}), Table("case_assignments", {"cases", "users"}),
  Table("case_notes", {"cases"}), Table("case_timeline_entries", {"cases"}),
  Table("case_evidence", {"cases", "vehicle_sightings"}),
  Table("evidence", {"vehicle_sightings", "cameras"}),
  Table("evidence_access_logs", {"evidence"}), Table("evidence_exports", {"cases"}) >>

SystemTables == <<
  Table("audit_logs", {}), Table("audit_events", {}), Table("integrations", {}),
  Table("integration_credentials", {"integrations"}), Table("system_health_nodes", {}) >>

Migration == IdentityTables \o CameraTables \o VisionTables
               \o WatchTables \o CaseTables \o SystemTables

Created == [i \in DOMAIN Migration |-> Migration[i].name]

TakenDown == <<
  "system_health_nodes", "integration_credentials", "integrations", "audit_events",
  "audit_logs", "evidence_exports", "evidence_access_logs", "evidence",
  "case_evidence", "case_timeline_entries", "case_notes", "case_assignments",
  "cases", "alert_events", "alerts", "watchlist_entries", "watchlists",
  "vehicle_embeddings", "vehicle_sightings", "anpr_results", "plate_detections",
  "vehicle_tracks", "ai_model_deployments", "ai_models",
  "federation_access_requests", "camera_health", "camera_configurations",
  "camera_credentials", "cameras", "user_roles", "users", "role_permissions",
  "permissions", "roles", "departments", "districts" >>

-----------------------------------------------------------------------------
(* The entities: the tables each one's foreign keys name.                  *)

IdentityEntities ==
  [districts |-> {}, departments |-> {}, roles |-> {}, permissions |-> {},
   role_permissions |-> {"roles", "permissions"}, user_roles |-> {"users", "roles"},
   users |-> {}]

CameraEntities ==
  [cameras |-> {"departments"}, federation_access_requests |-> {"users", "cameras"},
   camera_credentials |-> {"cameras"}, camera_configurations |-> {"cameras"},
   camera_health |-> {"cameras"}]

VisionEntities ==
  [ai_models |-> {}, ai_model_deployments |-> {"ai_models"},
   vehicle_tracks |-> {"cameras"}, plate_detections |-> {"cameras"},
   anpr_results |-> {"plate_detections"}, vehicle_sightings |-> {"cameras"},
   vehicle_embeddings |-> {"vehicle_sightings"}]

WatchEntities ==
  [watchlists |-> {}, watchlist_entries |-> {"watchlists"},
   alerts |-> {"watchlists", "vehicle_sightings", "cameras"}, alert_events |-> {"alerts"}]

CaseEntities ==
  [cases |-> {}, case_assignments |-> {"cases", "users"}, case_notes |-> {"cases"},
   case_timeline_entries |-> {"cases"}, case_evidence |-> {"cases", "vehicle_sightings"},
   evidence |-> {"vehicle_sightings", "cameras"}, evidence_access_logs |-> {"evidence"},
   evidence_exports |-> {"cases"}]

SystemEntities ==
  [audit_logs |-> {}, audit_events |-> {}, integrations |-> {},
   integration_credentials |-> {"integrations"}, system_health_nodes |-> {}]

Entities == IdentityEntities @@ CameraEntities @@ VisionEntities
              @@ WatchEntities @@ CaseEntities @@ SystemEntities

\* frame_pts, the confidences, track_id, evidence_reference, model_version and
\* processing_provenance of a sighting; the review of an alert.
Late == {"vehicle_sightings", "alerts"}

(* metadata.sorted_tables: a table follows those its foreign keys name.     *)
Level[t \in DOMAIN Entities] ==
  LET below == {Level[r] : r \in Entities[t]}
  IN  IF below = {} THEN 0 ELSE 1 + CHOOSE n \in below : \A m \in below : m <= n

AtLevel(n) ==
  FoldSet(LAMBDA t, order : Append(order, t), <<>>, {t \in DOMAIN Entities : Level[t] = n})

SortedEntities == AtLevel(0) \o AtLevel(1) \o AtLevel(2) \o AtLevel(3) \o AtLevel(4)
==============================================================================
