----------------------------- MODULE AlertDedup -----------------------------
(***************************************************************************)
(* Alerts for watchlisted plates: trigger_alert_if_matched                 *)
(* (services/watchlist_matcher.py), called for every sighting from the     *)
(* micro-batch worker and from the watchlist stream worker                 *)
(* (services/stream_workers.py), and the operators' take_alert_action      *)
(* (api/alerts.py).                                                        *)
(*                                                                         *)
(* All detections are of one watchlisted plate on one camera.  The         *)
(* database does not enforce foreign keys (SQLite, the default).           *)
(***************************************************************************)
EXTENDS Naturals

CONSTANTS
  Threads,
  Detections,  \* detections of the plate, each processed once by each path
  Keyed,       \* detections whose payload carries an "id"
  Paths,       \* a subset of {"batch", "stream"}
  SeenAt,      \* when each detection was made
  Window,      \* the 30 seconds of the collapse rule
  MaxActions   \* bound: operator actions

AlertAssumption ==
  /\ Paths \subseteq {"batch", "stream"} /\ Paths # {}
  /\ Detections # {} /\ Keyed \subseteq Detections
  /\ SeenAt \in [Detections -> Nat]
  /\ Window \in Nat \ {0}
  /\ MaxActions \in Nat

Open == {"NEW", "ACKNOWLEDGED", "INVESTIGATING"}
Statuses == Open \union {"UNDER_REVIEW", "DISPATCHED", "RESOLVED",
                         "FALSE_POSITIVE", "ESCALATED", "DISMISSED"}
Tasks == [of : Detections, by : Paths]

\* The primary key of the task's sighting: the payload's, or a fresh one.
Id(s) == [of |-> s.of, by |-> IF s.of \in Keyed THEN "payload" ELSE s.by]
Ids == {Id(s) : s \in Tasks}

Alerts == [task : Tasks, status : Statuses, closed : BOOLEAN]

VARIABLES
  handled,     \* tasks that have been taken up
  saved,       \* ids of the committed vehicle_sightings rows
  alerts,      \* alerts rows; `closed`: history, it was once not open
  pc,          \* each thread's place in trigger_alert_if_matched
  task,        \* the detection and path it works on
  actions,     \* operator actions so far
  crossed      \* history: pairs of tasks that were worked on at the same time

vars == <<handled, saved, alerts, pc, task, actions, crossed>>

Init ==
  /\ handled = {}
  /\ saved = {}
  /\ alerts = {}
  /\ pc = [t \in Threads |-> "idle"]
  /\ task = [t \in Threads |-> CHOOSE s \in Tasks : TRUE]
  /\ actions = 0
  /\ crossed = {}

Time(s) == SeenAt[s.of]
Own(t) == task[t]

\* The batch path has flushed its row; the stream path never adds one.
Visible(t) == saved \union (IF Own(t).by = "batch" THEN {Id(Own(t))} ELSE {})

-----------------------------------------------------------------------------
\* A worker takes up a detection.
Begin(t, s) ==
  /\ pc[t] = "idle"
  /\ s \notin handled
  /\ handled' = handled \union {s}
  /\ task' = [task EXCEPT ![t] = s]
  /\ pc' = [pc EXCEPT ![t] = "check"]
  /\ crossed' = crossed \union {{task[u], s} : u \in {v \in Threads : pc[v] # "idle"}}
  /\ UNCHANGED <<saved, alerts, actions>>

\* Mutant of Recent: acknowledged alerts are no longer collapsed into.
RecentNewOnly(t) ==
  {a \in alerts : /\ a.status = "NEW"
                  /\ Id(a.task) \in Visible(t)
                  /\ Time(a.task) + Window >= Time(Own(t))}

\* The open alerts of the last 30 seconds; the join needs the sighting's row.
Recent(t) ==
  {a \in alerts : /\ a.status \in Open
                  /\ Id(a.task) \in Visible(t)
                  /\ Time(a.task) + Window >= Time(Own(t))}

\* The batch path's session commits the flushed row with the alert.
Commits(t) == saved' = Visible(t)

\* Mutant of Existing: the look-up by sighting is left out.
ExistingIgnored(t) == {a \in alerts : FALSE}

Existing(t) == {a \in alerts : Id(a.task) = Id(Own(t))}

\* The sighting has its alert already: return it.  The batch goes on to its
\* final commit.
AlreadyRaised(t) ==
  /\ pc[t] = "check"
  /\ Existing(t) # {}
  /\ pc' = [pc EXCEPT ![t] = "flushed"]
  /\ UNCHANGED <<handled, saved, alerts, task, actions>>

\* A recent alert gets a remark, and the session commits.
Collapse(t) ==
  /\ pc[t] = "check"
  /\ Existing(t) = {}
  /\ Recent(t) # {}
  /\ Commits(t)
  /\ pc' = [pc EXCEPT ![t] = "idle"]
  /\ UNCHANGED <<handled, alerts, task, actions>>

NoneRecent(t) ==
  /\ pc[t] = "check"
  /\ Existing(t) = {}
  /\ Recent(t) = {}
  /\ pc' = [pc EXCEPT ![t] = "raise"]
  /\ UNCHANGED <<handled, saved, alerts, task, actions>>

\* Mutant of NewAlert: a status the rest of the code does not know.
NewAlertOpen(t) == [task |-> Own(t), status |-> "OPEN", closed |-> FALSE]

NewAlert(t) == [task |-> Own(t), status |-> "NEW", closed |-> FALSE]

\* The alert is inserted and committed, in a step of its own.
Raise(t) ==
  /\ pc[t] = "raise"
  /\ alerts' = alerts \union {NewAlert(t)}
  /\ Commits(t)
  /\ pc' = [pc EXCEPT ![t] = "idle"]
  /\ UNCHANGED <<handled, task, actions>>

\* flush, commit or refresh raises: no alert, and no row either
RaiseFails(t) ==
  /\ pc[t] = "raise"
  /\ pc' = [pc EXCEPT ![t] = "idle"]
  /\ UNCHANGED <<handled, saved, alerts, task, actions>>

CommitBatch(t) ==
  /\ pc[t] = "flushed"
  /\ Commits(t)
  /\ pc' = [pc EXCEPT ![t] = "idle"]
  /\ UNCHANGED <<handled, alerts, task, actions>>

\* take_alert_action: any status may follow any other.
Act(a, status) ==
  /\ actions < MaxActions
  /\ actions' = actions + 1
  /\ alerts' = (alerts \ {a}) \union
       {[a EXCEPT !.status = status, !.closed = @ \/ status \notin Open]}
  /\ UNCHANGED <<handled, saved, pc, task>>

-----------------------------------------------------------------------------
Step(t) ==
  \/ AlreadyRaised(t) \/ Collapse(t) \/ NoneRecent(t)
  \/ Raise(t) \/ RaiseFails(t) \/ CommitBatch(t)

Next ==
  \/ \E t \in Threads, s \in Tasks : Begin(t, s)
  \/ /\ \/ \E t \in Threads : Step(t)
        \/ \E a \in alerts, status \in Statuses : Act(a, status)
     /\ UNCHANGED crossed

Spec == Init /\ [][Next]_vars
-----------------------------------------------------------------------------
(* Properties *)

\* Every variable keeps its type.
TypeOK ==
  /\ handled \subseteq Tasks
  /\ saved \subseteq Ids
  /\ alerts \subseteq Alerts
  /\ pc \in [Threads -> {"idle", "check", "raise", "flushed"}]
  /\ task \in [Threads -> Tasks]
  /\ actions \in 0 .. MaxActions
  /\ crossed \subseteq SUBSET Tasks

Close(a, b) ==
  /\ Time(a.task) <= Time(b.task) + Window
  /\ Time(b.task) <= Time(a.task) + Window

\* "NO DUPLICATE CRITICAL ALERTS": two alerts for the same vehicle on the same
\* camera within 30 seconds exist only if an operator had closed one of them.
\* The code does not keep this one; no run checks it, and the README shows the
\* instance in which it fails.
OneAlertPerIncident ==
  \A a, b \in alerts : a # b /\ Close(a, b) => a.closed \/ b.closed

\* Two alerts that were not raised at the same time.
InTurn(a, b) == {a.task, b.task} \notin crossed

\* The same for the alerts that batches raise in turn, whatever alerts the stream
\* path adds for the same incident.
OneBatchAlertPerIncident ==
  \A a, b \in alerts :
    a # b /\ a.task.by = "batch" /\ b.task.by = "batch" /\ Close(a, b) /\ InTurn(a, b)
      => a.closed \/ b.closed

\* A sighting that both paths process under one id, in turn, raises one alert, even
\* if an operator closed it in between.
OneAlertPerSighting ==
  \A a, b \in alerts : Id(a.task) = Id(b.task) /\ InTurn(a, b) => a = b
=============================================================================
