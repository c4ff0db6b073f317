------------------------------- MODULE Seeding -------------------------------
(***************************************************************************)
(* The rows the system starts with, and the scripts that write and purge   *)
(* them: backend/app/seed_data.py, which run_server calls before it serves, *)
(* scripts/demo_reset.py, demo_seed.py, run_demo.py and bootstrap_demo.py,  *)
(* db/seed/seed_data.py; and the cases officers open meanwhile.            *)
(*                                                                         *)
(* A script is a sequence of steps; a step queries and then commits, or    *)
(* fails with the script.  A row is what identifies it (SeedRows) and what *)
(* refers to others; an alert is the sighting it is about.                 *)
(* Left out: the audit row that ends each script (AuditChain models the    *)
(* log), the children written with a camera or a case, and what a sighting *)
(* or an alert says.  Foreign keys are not enforced, as under SQLite.      *)
(***************************************************************************)
EXTENDS Naturals, FiniteSets, Sequences, Functions, SeedRows

CONSTANTS
  Processes,   \* the processes that run scripts
  Drawn,       \* the plate that run_demo draws from the clock in the n-th script
  SeedScopes   \* the scripts that may run at once, the plates officers put on the
               \* hotlist before anything is seeded, bound on the scripts started

SeedingAssumption ==
  /\ \A s \in SeedScopes :
       /\ s.processes \subseteq Processes
       /\ IsFiniteSet(s.others) /\ s.starts \in Nat
       /\ 1 .. s.starts \subseteq DOMAIN Drawn
  /\ \A n \in DOMAIN Drawn : Drawn[n] # DemoPlate

VARIABLES
  scope,   \* which scripts may run in this behaviour
  db,      \* the committed rows
  proc,    \* process -> the steps it has to do, the last it did, whether it has
           \* looked for the next one, what it saw and remembers, its number
  starts,  \* the scripts started so far
  raced    \* whether a script ever ran while another did

vars == <<scope, db, proc, starts, raced>>

-----------------------------------------------------------------------------
(* The scripts.                                                            *)

SeedSteps == <<"users", "case", "departments", "cameras", "grid", "watchlists",
               "journey", "alert", "rest">>

DemoSteps == <<"department", "investigator", "corridor", "target", "seed-if-short">>

RunSteps == <<"department", "investigator", "iscon", "stadium", "enrol",
              "first-sighting", "second-sighting", "raise-alert", "open-case",
              "attach-evidence">>

ResetSteps == <<"purge-cases", "purge-alerts", "purge-sightings">>

\* run_server; db/seed; bootstrap_demo; run_demo; demo_reset; and two requests of
\* officers, POST /cases and POST /cases/from-alert.
Scripts == {SeedSteps, <<"foundation">>, ResetSteps \o DemoSteps \o RunSteps,
            RunSteps, ResetSteps, <<"case-of-plate">>, <<"case-from-alert">>}

Sighting(plate, cam, by, demo) == [plate |-> plate, cam |-> cam, by |-> by, demo |-> demo]
Entry(plate, by) == [plate |-> plate, by |-> by]
\* by: the number of the script that wrote it, 0 for another; demo: run_demo did.
\* named: whether the title of the case holds DemoPlate.
Case(kind, by, plate, named) == [kind |-> kind, by |-> by, plate |-> plate, named |-> named]

SampleCase == Case("sample", 0, DemoPlate, FALSE)

NoCameras == [c \in {} |-> ""]

Empty == [users |-> {}, depts |-> {}, cams |-> NoCameras, list |-> {}, sights |-> {},
          alerts |-> {}, cases |-> {}, custody |-> {}]

Idle == [todo |-> <<>>, last |-> "", looked |-> FALSE, view |-> Empty,
         depts |-> {}, cams |-> {}, list |-> {}, no |-> 0]

\* The cameras cams and those of new.
Joined(cams, new) ==
  [c \in DOMAIN cams \cup DOMAIN new |-> IF c \in DOMAIN cams THEN cams[c] ELSE new[c]]

Plates(list) == {e.plate : e \in list}
Seen(rows, plate) == {s \in rows.sights : s.plate = plate}
AlertsOn(rows, plate) == {s \in rows.alerts : s.plate = plate}

Init ==
  /\ scope \in SeedScopes
  /\ \E given \in {{}, scope.others} :
       db = [Empty EXCEPT !.list = {Entry(o, 0) : o \in given}]
  /\ proc = [p \in Processes |-> Idle]
  /\ starts = 0 /\ raced = FALSE

Running(p) == proc[p].todo # <<>>
At(p, step) == Running(p) /\ Head(proc[p].todo) = step /\ proc[p].looked
Run(p) == Drawn[proc[p].no]

\* A script starts.
Start(p) ==
  /\ ~Running(p) /\ starts < scope.starts
  /\ \E script \in Scripts :
       proc' = [proc EXCEPT ![p] = [Idle EXCEPT !.todo = script, !.no = starts + 1]]
  /\ starts' = starts + 1
  /\ raced' = (raced \/ \E q \in Processes : Running(q))
  /\ UNCHANGED db

\* The queries of a step.
Look(p) ==
  /\ Running(p) /\ ~proc[p].looked
  /\ proc' = [proc EXCEPT ![p].looked = TRUE, ![p].view = db]
  /\ UNCHANGED <<db, starts, raced>>

\* The step of p commits: rows is the database after it, mind what p remembers.
Commit(p, rows, mind) ==
  /\ db' = rows
  /\ proc' = [proc EXCEPT ![p] =
       [mind EXCEPT !.todo = Tail(@), !.last = Head(mind.todo), !.looked = FALSE, !.view = Empty]]

\* An exception: the transaction is rolled back and the script ends.
Fail(p) == proc' = [proc EXCEPT ![p] = Idle] /\ UNCHANGED db

\* New rows under a key that must be unique.
CommitUnique(p, new, present, rows, mind) ==
  IF new \cap present = {} THEN Commit(p, rows, mind) ELSE Fail(p)

-----------------------------------------------------------------------------
(* seed_database.                                                          *)

SeedUsers(p) ==
  /\ At(p, "users")
  /\ LET new == IF proc[p].view.users = {} THEN DefaultUsers ELSE {}
     IN  CommitUnique(p, new, db.users, [db EXCEPT !.users = @ \cup new], proc[p])

SeedCase(p) ==
  /\ At(p, "case")
  /\ LET new == IF proc[p].view.cases = {} THEN {SampleCase} ELSE {}
     IN  CommitUnique(p, new, db.cases, [db EXCEPT !.cases = @ \cup new], proc[p])

SeedDepartments(p) ==
  /\ At(p, "departments")
  /\ LET known == proc[p].view.depts
         new == IF known = {} THEN DepartmentsData ELSE {}
     IN  CommitUnique(p, new, db.depts, [db EXCEPT !.depts = @ \cup new],
                      [proc[p] EXCEPT !.depts = known \cup new])

\* The department of the data, or the first that there is.
DepartmentFor(p, dept) ==
  IF dept \in proc[p].depts THEN dept ELSE CHOOSE d \in proc[p].depts : TRUE

\* Mutant of SeedCameras: a database with cameras is taken for a seeded one.
SeedCamerasOnce(p) ==
  /\ At(p, "cameras")
  /\ LET known == DOMAIN proc[p].view.cams
         new == [c \in IF known = {} THEN DOMAIN CamerasData ELSE {} |->
                   DepartmentFor(p, CamerasData[c])]
     IN  CommitUnique(p, DOMAIN new, DOMAIN db.cams, [db EXCEPT !.cams = Joined(@, new)],
                      [proc[p] EXCEPT !.cams = known \cup DOMAIN new])

SeedCameras(p) ==
  /\ At(p, "cameras")
  /\ LET known == DOMAIN proc[p].view.cams
         new == [c \in DOMAIN CamerasData \ known |-> DepartmentFor(p, CamerasData[c])]
     IN  CommitUnique(p, DOMAIN new, DOMAIN db.cams, [db EXCEPT !.cams = Joined(@, new)],
                      [proc[p] EXCEPT !.cams = known \cup DOMAIN new])

SeedGrid(p) ==
  /\ At(p, "grid")
  /\ LET new == [c \in SentinelGrid \ proc[p].cams |-> DepartmentFor(p, "HOME_POLICE")]
     IN  CommitUnique(p, DOMAIN new, DOMAIN db.cams, [db EXCEPT !.cams = Joined(@, new)],
                      [proc[p] EXCEPT !.cams = @ \cup DOMAIN new])

SeedWatchlists(p) ==
  /\ At(p, "watchlists")
  /\ LET list == proc[p].view.list
         missing == IF Cardinality(Plates(list)) < Cardinality(WatchlistData)
                    THEN WatchlistData \ Plates(list) ELSE {}
         new == {Entry(w, proc[p].no) : w \in missing}
     IN  Commit(p, [db EXCEPT !.list = @ \cup new], [proc[p] EXCEPT !.list = list \cup new])

SeedJourney(p) ==
  /\ At(p, "journey")
  /\ LET list == proc[p].list
         corridor == {Sighting(DemoPlate, c, proc[p].no, FALSE) : c \in Journey \cap proc[p].cams}
         others == {Sighting(v, Traffic[v], proc[p].no, FALSE) :
                      v \in {u \in DOMAIN Traffic : Traffic[u] \in proc[p].cams}}
         alarming == {s \in others : s.plate \in Risky \cap Plates(list)}
                       \cup IF DemoPlate \in Plates(list)
                            THEN {s \in corridor : s.cam = "VLS-01"} ELSE {}
     IN  IF Cardinality(Seen(proc[p].view, DemoPlate)) < 5
         THEN Commit(p, [db EXCEPT !.sights = @ \cup corridor \cup others,
                           !.alerts = @ \cup alarming], proc[p])
         ELSE Commit(p, db, proc[p])

SeedAlert(p) ==
  /\ At(p, "alert")
  /\ LET view == proc[p].view
     IN  IF AlertsOn(view, DemoPlate) = {} /\ Seen(view, DemoPlate) # {}
            /\ DemoPlate \in Plates(view.list)
         THEN \E s \in Seen(view, DemoPlate) :
                /\ s.cam = "VLS-01"      \* the last of the journey
                /\ Commit(p, [db EXCEPT !.alerts = @ \cup {s}], proc[p])
         ELSE Commit(p, db, proc[p])

SeedRest(p) ==
  /\ At(p, "rest")
  /\ LET users == DefaultUsers \ proc[p].view.users
         cases == {SampleCase} \ proc[p].view.cases
     IN  IF users \cap db.users = {} /\ cases \cap db.cases = {}
         THEN Commit(p, [db EXCEPT !.users = @ \cup users, !.cases = @ \cup cases], proc[p])
         ELSE Fail(p)

\* db/seed/seed_data.py.
SeedFoundation(p) ==
  /\ At(p, "foundation")
  /\ LET new == FoundationDepartments \ proc[p].view.depts
     IN  CommitUnique(p, new, db.depts, [db EXCEPT !.depts = @ \cup new], proc[p])

-----------------------------------------------------------------------------
(* demo_seed, run_demo and demo_reset.                                     *)

DemoDepartment(p) ==
  /\ At(p, "department")
  /\ LET new == {"HOME_POLICE"} \ proc[p].view.depts
     IN  CommitUnique(p, new, db.depts, [db EXCEPT !.depts = @ \cup new], proc[p])

DemoInvestigator(p) ==
  /\ At(p, "investigator")
  /\ LET new == {"demo_investigator"} \ proc[p].view.users
     IN  CommitUnique(p, new, db.users, [db EXCEPT !.users = @ \cup new], proc[p])

\* demo_seed adds two cameras in one transaction, run_demo in one each.
DemoCameras(p) ==
  \E step \in {"corridor", "iscon", "stadium"} :
    /\ At(p, step)
    /\ LET wanted == CASE step = "corridor" -> {"AHM-01", "AHM-02"}
                       [] step = "iscon" -> {"AHM-01"}
                       [] step = "stadium" -> {"AHM-02"}
           new == [c \in wanted \ DOMAIN proc[p].view.cams |-> "HOME_POLICE"]
       IN  CommitUnique(p, DOMAIN new, DOMAIN db.cams, [db EXCEPT !.cams = Joined(@, new)], proc[p])

\* demo_seed lists DemoPlate, run_demo the plate of its run.
DemoTarget(p) ==
  \E step \in {"target", "enrol"} :
    /\ At(p, step)
    /\ LET plate == IF step = "target" THEN DemoPlate ELSE Run(p)
           new == IF plate \in Plates(proc[p].view.list) THEN {} ELSE {Entry(plate, proc[p].no)}
       IN  Commit(p, [db EXCEPT !.list = @ \cup new], proc[p])

DemoSeeds(p) ==
  /\ At(p, "seed-if-short")
  /\ LET seeding == IF Cardinality(Seen(proc[p].view, DemoPlate)) < 5
                    THEN SeedSteps ELSE <<>>
     IN  Commit(p, db, [proc[p] EXCEPT !.todo = <<Head(@)>> \o seeding \o Tail(@)])

SightOf(p, cam) == Sighting(Run(p), cam, proc[p].no, TRUE)

DemoSights(p) ==
  \E cam \in {"AHM-01", "AHM-02"} :
    /\ At(p, IF cam = "AHM-01" THEN "first-sighting" ELSE "second-sighting")
    /\ Commit(p, [db EXCEPT !.sights = @ \cup {SightOf(p, cam)}], proc[p])

\* check_plate and trigger_alert_if_matched on the first sighting.
DemoAlert(p) ==
  /\ At(p, "raise-alert")
  /\ LET view == proc[p].view
     IN  IF SightOf(p, "AHM-01") \in view.sights /\ Run(p) \in Plates(view.list)
         THEN Commit(p, [db EXCEPT !.alerts = @ \cup {SightOf(p, "AHM-01")}], proc[p])
         ELSE Fail(p)

RunCase(p) == Case("demo", proc[p].no, Run(p), FALSE)

DemoCase(p) ==
  At(p, "open-case") /\ Commit(p, [db EXCEPT !.cases = @ \cup {RunCase(p)}], proc[p])

DemoEvidence(p) ==
  /\ At(p, "attach-evidence")
  /\ IF SightOf(p, "AHM-01") \in proc[p].view.sights /\ RunCase(p) \in proc[p].view.cases
     THEN Commit(p, [db EXCEPT !.custody = @ \cup
                       {[case |-> RunCase(p), sight |-> SightOf(p, "AHM-01")]}], proc[p])
     ELSE Fail(p)

ResetCases(p) ==
  /\ At(p, "purge-cases")
  /\ LET gone == {c \in proc[p].view.cases : c.named}
     IN  Commit(p, [db EXCEPT !.cases = @ \ gone,
                              !.custody = {e \in @ : e.case \notin gone}], proc[p])

ResetAlerts(p) ==
  /\ At(p, "purge-alerts")
  /\ Commit(p, [db EXCEPT !.alerts = @ \ AlertsOn(proc[p].view, DemoPlate)], proc[p])

\* Mutant of ResetSightings: what depends on the sightings stays.
ResetSightingsOnly(p) ==
  /\ At(p, "purge-sightings")
  /\ Commit(p, [db EXCEPT !.sights = {s \in @ : ~s.demo}], proc[p])

ResetSightings(p) ==
  /\ At(p, "purge-sightings")
  /\ LET gone == {s \in proc[p].view.sights : s.demo}
     IN  Commit(p, [db EXCEPT !.sights = @ \ gone,
                              !.custody = {e \in @ : e.sight \notin gone},
                              !.alerts = @ \ gone], proc[p])

-----------------------------------------------------------------------------
(* The requests of officers.  create_case attaches the sightings of the     *)
(* plate, which it reads under the lock of its own insert.                 *)
CreateCase(p) ==
  /\ At(p, "case-of-plate")
  /\ \E plate \in {s.plate : s \in db.sights}, named \in BOOLEAN :
       LET case == Case("desk", proc[p].no, plate, named)
       IN  Commit(p, [db EXCEPT !.cases = @ \cup {case},
                                !.custody = @ \cup {[case |-> case, sight |-> s] :
                                                      s \in Seen(db, plate)}], proc[p])

CreateCaseFromAlert(p) ==
  /\ At(p, "case-from-alert")
  /\ \/ /\ proc[p].view.alerts = {}
        /\ Fail(p)
     \/ \E s \in proc[p].view.alerts :
          LET case == Case("desk", proc[p].no, s.plate, s.plate = DemoPlate)
          IN  Commit(p, [db EXCEPT !.cases = @ \cup {case}], proc[p])

-----------------------------------------------------------------------------
SeedStep(p) ==
  \/ SeedUsers(p) \/ SeedCase(p) \/ SeedDepartments(p) \/ SeedCameras(p) \/ SeedGrid(p)
  \/ SeedWatchlists(p) \/ SeedJourney(p) \/ SeedAlert(p) \/ SeedRest(p) \/ SeedFoundation(p)

DemoStep(p) ==
  \/ DemoDepartment(p) \/ DemoInvestigator(p) \/ DemoCameras(p) \/ DemoTarget(p)
  \/ DemoSeeds(p) \/ DemoSights(p) \/ DemoAlert(p) \/ DemoCase(p) \/ DemoEvidence(p)
  \/ ResetCases(p) \/ ResetAlerts(p) \/ ResetSightings(p)

\* The process is killed.
Crash(p) == Running(p) /\ Fail(p)

Next ==
  /\ \E p \in scope.processes :
       \/ Start(p) \/ Look(p)
       \/ /\ SeedStep(p) \/ DemoStep(p) \/ CreateCase(p) \/ CreateCaseFromAlert(p) \/ Crash(p)
          /\ UNCHANGED <<starts, raced>>
  /\ UNCHANGED scope

Spec == Init /\ [][Next]_vars
-----------------------------------------------------------------------------
Steps ==
  Range(SeedSteps) \cup Range(DemoSteps) \cup Range(RunSteps) \cup Range(ResetSteps)
    \cup {"foundation", "case-of-plate", "case-from-alert"}

AllUsers == DefaultUsers \cup {"demo_investigator"}
AllDepartments == DepartmentsData \cup FoundationDepartments
AllCameras == DOMAIN CamerasData \cup SentinelGrid

TypedRows(rows) ==
  /\ DOMAIN rows = DOMAIN Empty
  /\ rows.users \subseteq AllUsers /\ rows.depts \subseteq AllDepartments
  /\ DOMAIN rows.cams \subseteq AllCameras /\ IsFiniteSet(rows.list)
  /\ \A s \in rows.sights : s.demo \in BOOLEAN /\ s.cam \in DOMAIN CamerasData

TypeOK ==
  /\ scope \in SeedScopes /\ starts \in 0..scope.starts /\ raced \in BOOLEAN
  /\ TypedRows(db)
  /\ DOMAIN proc = Processes
  /\ \A p \in Processes :
       /\ DOMAIN proc[p] = DOMAIN Idle /\ TypedRows(proc[p].view)
       /\ proc[p].todo \in Seq(Steps) /\ proc[p].last \in Steps \cup {""}
       /\ proc[p].looked \in BOOLEAN /\ proc[p].no \in 0..starts
       /\ proc[p].depts \subseteq AllDepartments /\ proc[p].cams \subseteq AllCameras

(* When seed_database returns, what it looks for is there, whatever scripts *)
(* ended half way before it, beside it, or purged meanwhile: a step looks   *)
(* for what is missing, or clashes with another and raises.  A hotlist that *)
(* holds seven plates already counts as seeded, and so do departments of    *)
(* which there is one: there are all 26, or no more than other scripts      *)
(* wrote.  The plate of the journey, if it is listed, has its alert when no *)
(* other script ran beside this one or after it.                            *)
SeedIsComplete ==
  \A p \in Processes :
    proc[p].last = "rest" =>
      /\ DefaultUsers \subseteq db.users /\ SampleCase \in db.cases
      /\ db.depts # {}
      /\ DepartmentsData \subseteq db.depts \/ db.depts \subseteq FoundationDepartments
      /\ DOMAIN CamerasData \cup SentinelGrid \subseteq DOMAIN db.cams
      /\ \/ WatchlistData \subseteq Plates(db.list)
         \/ Cardinality(Plates(db.list)) >= Cardinality(WatchlistData)
      /\ {s.cam : s \in Seen(db, DemoPlate)} = Journey
      /\ ~raced /\ proc[p].no = starts /\ DemoPlate \in Plates(db.list)
           => AlertsOn(db, DemoPlate) # {}

(* What its docstring says (seed_data.py:232) and the audit row it ends     *)
(* with (:729), which fails after a script that left a department: all 26   *)
(* are there when seed_database returns.                                   *)
DepartmentsSeeded ==
  \A p \in Processes : proc[p].last = "rest" => DepartmentsData \subseteq db.depts

(* Scripts that ran one after another, each ending anywhere, list a plate   *)
(* once, seed one journey and at most one alert on it, and leave no row     *)
(* that refers to a row that is gone: the reset removes the evidence and    *)
(* the alerts of the sightings it purges with them.                        *)
SerialScriptsTidy ==
  ~raced =>
    /\ \A e, f \in db.list : e.plate = f.plate => e = f
    /\ Cardinality(Seen(db, DemoPlate)) <= Cardinality(Journey)
    /\ Cardinality(AlertsOn(db, DemoPlate)) <= 1
    /\ \A c \in DOMAIN db.cams : db.cams[c] \in db.depts
    /\ \A s \in db.sights : s.cam \in DOMAIN db.cams
    /\ db.alerts \subseteq db.sights
    /\ \A e \in db.custody : e.case \in db.cases /\ e.sight \in db.sights

(* A reset that ran alone leaves no record of a demonstration: "Safely      *)
(* purges demonstration alerts, sightings, cases, and evidence generated    *)
(* during demo runs" (scripts/demo_reset.py:3).  It looks for cases titled  *)
(* with GJ01AB1234, and run_demo titles them with the plate of its run.     *)
ResetPurgesDemo ==
  \A p \in Processes :
    proc[p].last = "purge-sightings" /\ ~raced =>
      /\ \A c \in db.cases : c.kind # "demo"
      /\ \A s \in db.sights : ~s.demo
=============================================================================
