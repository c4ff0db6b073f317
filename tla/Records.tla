------------------------------- MODULE Records -------------------------------
(***************************************************************************)
(* Components that keep records, one at a time: the schema, the scripts    *)
(* that seed it, the access requests for cameras, and the adapters of the  *)
(* registries.  `part` is the one that runs; the variables of the others   *)
(* stay Off.                                                               *)
(***************************************************************************)
EXTENDS Naturals, Sequences, FiniteSets

CONSTANTS
  Processes,                                                    \* of the first two
  References, LateTables, SortedTables, UpgradeOrder, DowngradeOrder, MaxStarts,
                                                                \* of Schema
  Drawn, SeedScopes,                                            \* of Seeding
  Threads,                                                      \* of the other two
  Users, Cameras, Requests, Statewide, Approvers, UserOf, CameraOf, Durations, MaxTime,
  MaxFeeds, MaxDecisions,                                       \* of Federation
  Adapters, Window, Ttl, GovScopes,                             \* of GovAdapter
  Off   \* the value of a variable of a component that does not run

VARIABLES
  part,
  transactional, schema,                                        \* Schema
  db, raced,                                                    \* Seeding
  proc, starts,                                                 \* of both
  rows, feeds, decisions,                                       \* Federation
  mode, ready, stamps, cache, given, admitted, crossed, calls, switches, \* GovAdapter
  now, work,                                                    \* of both
  scope                                                         \* Seeding, GovAdapter

hostVars == <<proc, starts>>
schemaVars == <<transactional, schema>>
seedVars == <<db, raced>>
servingVars == <<now, work>>
federationVars == <<rows, feeds, decisions>>
govVars == <<mode, ready, stamps, cache, given, admitted, crossed, calls, switches>>
allVars == <<part, scope, hostVars, schemaVars, seedVars, servingVars, federationVars,
             govVars>>

Tables == INSTANCE Schema
Seeds == INSTANCE Seeding
Access == INSTANCE Federation
Registries == INSTANCE GovAdapter

ASSUME Instances ==
  /\ Tables!SchemaAssumption /\ Seeds!SeedingAssumption
  /\ Access!FederationAssumption /\ Registries!GovAssumption

HostsOff == proc = Off /\ starts = Off
SchemaOff == transactional = Off /\ schema = Off
SeedsOff == db = Off /\ raced = Off
ServingOff == now = Off /\ work = Off
FederationOff == rows = Off /\ feeds = Off /\ decisions = Off
GovOff ==
  /\ mode = Off /\ ready = Off /\ stamps = Off /\ cache = Off /\ given = Off
  /\ admitted = Off /\ crossed = Off /\ calls = Off /\ switches = Off

SchemaInit ==
  /\ part = "schema" /\ Tables!Init
  /\ SeedsOff /\ ServingOff /\ FederationOff /\ GovOff /\ scope = Off
SeedsInit ==
  /\ part = "seeds" /\ Seeds!Init
  /\ SchemaOff /\ ServingOff /\ FederationOff /\ GovOff
FederationInit ==
  /\ part = "federation" /\ Access!Init
  /\ HostsOff /\ SchemaOff /\ SeedsOff /\ GovOff /\ scope = Off
GovInit ==
  /\ part = "registries" /\ Registries!Init
  /\ HostsOff /\ SchemaOff /\ SeedsOff /\ FederationOff

AnyInit == SchemaInit \/ SeedsInit \/ FederationInit \/ GovInit

SchemaNext ==
  /\ part = "schema" /\ Tables!Next
  /\ UNCHANGED <<part, scope, seedVars, servingVars, federationVars, govVars>>
SeedsNext ==
  /\ part = "seeds" /\ Seeds!Next
  /\ UNCHANGED <<part, schemaVars, servingVars, federationVars, govVars>>
FederationNext ==
  /\ part = "federation" /\ Access!Next
  /\ UNCHANGED <<part, scope, hostVars, schemaVars, seedVars, govVars>>
GovNext ==
  /\ part = "registries" /\ Registries!Next
  /\ UNCHANGED <<part, hostVars, schemaVars, seedVars, federationVars>>

AnyNext == SchemaNext \/ SeedsNext \/ FederationNext \/ GovNext

AnySpec == AnyInit /\ [][AnyNext]_allVars

\* The scripts alone.
SeedsSpec == SeedsInit /\ [][SeedsNext]_allVars
-----------------------------------------------------------------------------
\* The types of each component (Schema, Seeding, Federation, GovAdapter).
TypesOK ==
  /\ part = "schema" => Tables!TypeOK
  /\ part = "seeds" => Seeds!TypeOK
  /\ part = "federation" => Access!TypeOK
  /\ part = "registries" => Registries!TypeOK

\* No table is in the database without those its foreign keys name (Schema).
NoDanglingReference == part = "schema" => Tables!NoDanglingReference

\* A process that started undisturbed serves every table and column (Schema).
ServesWholeSchema == part = "schema" => Tables!ServesWholeSchema

\* What seed_database is to seed is there when it returns (Seeding).
SeedIsComplete == part = "seeds" => Seeds!SeedIsComplete

\* Scripts run one after another seed nothing twice and leave no orphan (Seeding).
SerialScriptsTidy == part = "seeds" => Seeds!SerialScriptsTidy

\* "Safely purges demonstration alerts, sightings, cases, and evidence" (Seeding;
\* scripts/demo_reset.py:3).
ResetPurgesDemo == part = "seeds" => Seeds!ResetPurgesDemo

\* A feed is opened by right, or on an approval that covers it (Federation).
PermitHonoured == part = "federation" => Access!PermitHonoured

\* A registry is asked no oftener than its limit (GovAdapter; base.py:77).
WithinLimit == part = "registries" => Registries!WithinLimit

\* An answer is fresh, and a production answer guarded (GovAdapter; base.py:101).
AnswerGuarded == part = "registries" => Registries!AnswerGuarded
=============================================================================
