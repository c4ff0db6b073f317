-------------------------------- MODULE Schema --------------------------------
(***************************************************************************)
(* The processes that build the database schema: alembic with the          *)
(* migration, create_all with the entities, and                            *)
(* backend/app/core/database.py, which adds, when it is imported, the      *)
(* columns that a table lacks.                                             *)
(*                                                                         *)
(* A DDL statement takes effect at once under SQLite, where pysqlite opens *)
(* no transaction for it, and with its transaction under PostgreSQL.       *)
(* SchemaTables has the tables of this database.                           *)
(***************************************************************************)
EXTENDS Naturals, FiniteSets, Sequences, Functions

CONSTANTS
  Processes,      \* the processes of the hosts that share the database
  References,     \* table -> the tables its foreign keys name
  LateTables,     \* the tables with columns that the migration does not create
  SortedTables,   \* metadata.sorted_tables
  UpgradeOrder,   \* the tables as upgrade creates them
  DowngradeOrder, \* the tables as downgrade drops them
  MaxStarts       \* bound on the processes started

Entities == DOMAIN References

\* A list of all tables that names each once.
Lists(list) ==
  /\ list \in Seq(Entities) /\ Range(list) = Entities
  /\ \A i, j \in DOMAIN list : list[i] = list[j] => i = j

\* A table comes after those it refers to.
Follows(list) == \A i, j \in DOMAIN list : list[i] \in References[list[j]] => i < j

SchemaAssumption ==
  /\ MaxStarts \in Nat
  /\ LateTables \subseteq Entities
  /\ \A t \in Entities : References[t] \subseteq Entities
  /\ Lists(SortedTables) /\ Lists(UpgradeOrder) /\ Lists(DowngradeOrder)
  /\ Follows(SortedTables) /\ Follows(UpgradeOrder)
  /\ \A i, j \in DOMAIN DowngradeOrder :
       DowngradeOrder[i] \in References[DowngradeOrder[j]] => j < i

VARIABLES
  transactional,  \* whether DDL belongs to a transaction (PostgreSQL)
  schema,         \* [tables, late, head]: the tables, those with the late columns,
                  \* and whether the migration is recorded as applied
  proc,           \* process -> [todo, looked, left, own, alone]
  starts          \* the processes started so far

vars == <<transactional, schema, proc, starts>>

-----------------------------------------------------------------------------
(* A process imports database.py, which synchronises columns, and then does *)
(* what it is for.  Serving it ends at "up".                               *)
Scripts == {
  <<"sync", "create", "up">>,            \* run_server
  <<"sync", "create", "sync", "up">>,    \* bootstrap_demo
  <<"sync", "upgrade", "gone">>, <<"sync", "downgrade", "gone">> }   \* alembic

Phases == {"sync", "create", "upgrade", "downgrade", "up", "gone"}

None == [tables |-> {}, late |-> {}, dropped |-> {}]

\* A process that is to begin the first phase of todo.
Beginning(todo, alone) ==
  [todo |-> todo, looked |-> FALSE, left |-> {}, own |-> None, alone |-> alone]

Gone == Beginning(<<"gone">>, TRUE)

Changes == [tables : SUBSET Entities, late : SUBSET LateTables, dropped : SUBSET Entities]

TypeOK ==
  /\ transactional \in BOOLEAN
  /\ schema \in [tables : SUBSET Entities, late : SUBSET LateTables, head : BOOLEAN]
  /\ schema.late \subseteq schema.tables
  /\ proc \in [Processes -> [todo : Seq(Phases) \ {<<>>}, looked : BOOLEAN,
                            left : SUBSET Nat, own : Changes, alone : BOOLEAN]]
  /\ \A p \in Processes :
       /\ proc[p].own.late \subseteq schema.tables \cup proc[p].own.tables
       /\ ~transactional => proc[p].own = None
  /\ starts \in 0..MaxStarts

Init ==
  /\ transactional \in BOOLEAN
  /\ schema = [tables |-> {}, late |-> {}, head |-> FALSE]
  /\ proc = [p \in Processes |-> Gone]
  /\ starts = 0

At(p, phase) == Head(proc[p].todo) = phase
Working(p) == ~(At(p, "gone") \/ At(p, "up"))

\* What p works on: the committed schema, and its own transaction over it.
Tables(p) == (schema.tables \cup proc[p].own.tables) \ proc[p].own.dropped

\* The lock on a table that another process's transaction has created or altered.
Locked(p, t) ==
  \E q \in Processes \ {p} :
    t \in proc[q].own.tables \cup proc[q].own.late \cup proc[q].own.dropped

Applied(change) ==
  [schema EXCEPT !.tables = (@ \cup change.tables) \ change.dropped,
                 !.late = (@ \cup change.late) \ change.dropped]

Joined(own, change) ==
  [tables |-> own.tables \cup change.tables, late |-> own.late \cup change.late,
   dropped |-> own.dropped \cup change.dropped]

\* p executes the DDL statement at place i of its list: it takes effect, or joins p's
\* transaction.
Execute(p, change, i) ==
  IF transactional
  THEN /\ proc' = [proc EXCEPT ![p].left = @ \ {i}, ![p].own = Joined(@, change)]
       /\ UNCHANGED schema
  ELSE /\ schema' = Applied(change)
       /\ proc' = [proc EXCEPT ![p].left = @ \ {i}]

\* p reads the schema, and remembers the places of the tables it has to change.
Look(p, left) ==
  /\ ~proc[p].looked
  /\ proc' = [proc EXCEPT ![p].looked = TRUE, ![p].left = left]
  /\ UNCHANGED schema

\* The first of them.
Due(p) == {i \in proc[p].left : \A j \in proc[p].left : i <= j}

Finished(p) == proc[p].looked /\ proc[p].left = {}

\* The transaction of p ends, and p goes on with the next phase.
Proceed(p) ==
  proc' = [proc EXCEPT ![p] = Beginning(Tail(proc[p].todo), proc[p].alone)]

Commit(p, head) ==
  schema' = [Applied(proc[p].own) EXCEPT !.head = head] /\ Proceed(p)

Abort(p) == proc' = [proc EXCEPT ![p] = Gone] /\ UNCHANGED schema
-----------------------------------------------------------------------------
(* A process starts.  alembic takes the schema down only when nothing else  *)
(* uses it.                                                                *)
Start(p) ==
  /\ At(p, "gone") /\ starts < MaxStarts
  /\ \E script \in Scripts :
       /\ "downgrade" \in Range(script) => \A q \in Processes : At(q, "gone")
       /\ \A q \in Processes : Working(q) => "downgrade" \notin Range(proc[q].todo)
       /\ LET alone == \A q \in Processes : ~Working(q)
          IN  proc' = [q \in Processes |->
                CASE q = p -> Beginning(script, alone)
                  [] q # p /\ Working(q) -> [proc[q] EXCEPT !.alone = FALSE]
                  [] OTHER -> proc[q]]
  /\ starts' = starts + 1
  /\ UNCHANGED schema

\* get_table_names, before the transaction of sync_schema_columns begins.
SyncLook(p) ==
  /\ At(p, "sync")
  /\ Look(p, {i \in DOMAIN SortedTables :
               SortedTables[i] \in (schema.tables \cap LateTables) \ schema.late})

\* ALTER TABLE ADD COLUMN: an error, a column another process has added meanwhile
\* or a table that is gone, ends the synchronisation and is swallowed.
SyncAlter(p) ==
  /\ At(p, "sync")
  /\ \E i \in Due(p) :
       LET t == SortedTables[i]
       IN  /\ ~Locked(p, t)
           /\ IF t \in Tables(p) \ schema.late
              THEN Execute(p, [None EXCEPT !.late = {t}], i)
              ELSE Proceed(p) /\ UNCHANGED schema

SyncEnd(p) ==
  /\ At(p, "sync") /\ Finished(p) /\ Commit(p, schema.head)

\* Mutant of CreateLook: an existing database is taken for a complete one.
CreateLookEmpty(p) ==
  /\ At(p, "create")
  /\ Look(p, IF schema.tables = {} THEN DOMAIN SortedTables ELSE {})

\* create_all: the tables that are missing when it looks, with all their columns.
CreateLook(p) ==
  /\ At(p, "create")
  /\ Look(p, {i \in DOMAIN SortedTables : SortedTables[i] \notin schema.tables})

CreateTable(p) ==
  /\ At(p, "create")
  /\ \E i \in Due(p) :
       LET t == SortedTables[i]
       IN  /\ ~Locked(p, t)
           /\ IF t \in Tables(p) \/ (transactional /\ ~(References[t] \subseteq Tables(p)))
              THEN Abort(p)
              ELSE Execute(p, [None EXCEPT !.tables = {t}, !.late = {t} \cap LateTables], i)

CreateEnd(p) ==
  /\ At(p, "create") /\ Finished(p) /\ Commit(p, schema.head)

\* alembic runs a revision that the database does not record, or records.
MigrateLook(p) ==
  \/ At(p, "upgrade") /\ Look(p, IF schema.head THEN {} ELSE DOMAIN UpgradeOrder)
  \/ At(p, "downgrade") /\ Look(p, IF schema.head THEN DOMAIN DowngradeOrder ELSE {})

UpgradeTable(p) ==
  /\ At(p, "upgrade")
  /\ \E i \in Due(p) :
       LET t == UpgradeOrder[i]
       IN  /\ ~Locked(p, t)
           /\ IF t \in Tables(p) \/ (transactional /\ ~(References[t] \subseteq Tables(p)))
              THEN Abort(p)
              ELSE Execute(p, [None EXCEPT !.tables = {t}], i)

\* Mutant of DowngradeTable: the tables are dropped in the order they were created.
DowngradeTableForward(p) ==
  /\ At(p, "downgrade")
  /\ \E i \in Due(p) :
       LET t == UpgradeOrder[i]
       IN  IF t \notin Tables(p) THEN Abort(p) ELSE Execute(p, [None EXCEPT !.dropped = {t}], i)

DowngradeTable(p) ==
  /\ At(p, "downgrade")
  /\ \E i \in Due(p) :
       LET t == DowngradeOrder[i]
       IN  IF \/ t \notin Tables(p)
              \/ transactional /\ \E u \in Tables(p) \ {t} : t \in References[u]
           THEN Abort(p)
           ELSE Execute(p, [None EXCEPT !.dropped = {t}], i)

MigrateEnd(p) ==
  /\ Finished(p)
  /\ \/ At(p, "upgrade") /\ Commit(p, TRUE)
     \/ At(p, "downgrade") /\ Commit(p, FALSE)

\* A process ends: its transaction with it.
Crash(p) == ~At(p, "gone") /\ Abort(p)

Next ==
  /\ \E p \in Processes :
       \/ Start(p)
       \/ /\ \/ SyncLook(p) \/ SyncAlter(p) \/ SyncEnd(p)
             \/ CreateLook(p) \/ CreateTable(p) \/ CreateEnd(p)
             \/ MigrateLook(p) \/ UpgradeTable(p) \/ DowngradeTable(p) \/ MigrateEnd(p)
             \/ Crash(p)
          /\ UNCHANGED starts
  /\ UNCHANGED transactional

Spec == Init /\ [][Next]_vars
-----------------------------------------------------------------------------
(* A table is never in the database without a table that its foreign keys   *)
(* name: upgrade and create_all create it after them and downgrade drops it *)
(* before them, wherever one of them stops.                                *)
NoDanglingReference == \A t \in schema.tables : References[t] \subseteq schema.tables

(* A process that started undisturbed serves every table with every column, *)
(* whatever the processes before it left half done: create_all makes the    *)
(* tables that are missing, sync_schema_columns the columns of the others.  *)
ServesWholeSchema ==
  \A p \in Processes :
    At(p, "up") /\ proc[p].alone =>
      schema.tables = Entities /\ schema.late = LateTables
=============================================================================
