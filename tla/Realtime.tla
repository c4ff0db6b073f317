------------------------------ MODULE Realtime ------------------------------
(***************************************************************************)
(* The broadcast of alerts to dashboards: backend/app/core/realtime.py,    *)
(* the websocket endpoint of backend/app/main.py and the callers that hand *)
(* it alerts.  One event loop runs the endpoint of every client and every  *)
(* broadcast; they take turns where they await.  The lock of the           *)
(* broadcaster is held over no await, so a section under it is one step.   *)
(***************************************************************************)
EXTENDS FiniteSets

CONSTANTS
  Dashboards,  \* websocket connections
  Alerts       \* each raised once

VARIABLES
  socket,   \* connection -> "new", "open", "broken", "closed"
  joined,   \* connections whose endpoint waits for messages
  clients,  \* _clients
  task,     \* alert -> its broadcast: "none", "due", "sending", "sent"; or "unsent"
  left,     \* alert -> the clients of its snapshot still to be sent to
  dead,     \* alert -> those that could not be
  got,      \* connection -> the alerts it received
  meant     \* history: alert -> the clients when it was handed over, then the snapshot

vars == <<socket, joined, clients, task, left, dead, got, meant>>

Places == {"none", "due", "sending", "sent", "unsent"}

TypeOK ==
  /\ socket \in [Dashboards -> {"new", "open", "broken", "closed"}]
  /\ joined \subseteq Dashboards /\ clients \subseteq joined
  /\ task \in [Alerts -> Places]
  /\ left \in [Alerts -> SUBSET Dashboards] /\ dead \in [Alerts -> SUBSET Dashboards]
  /\ meant \in [Alerts -> SUBSET Dashboards]
  /\ \A a \in Alerts : left[a] \union dead[a] \subseteq meant[a]
  /\ got \in [Dashboards -> SUBSET Alerts]

Init ==
  /\ socket = [c \in Dashboards |-> "new"]
  /\ joined = {} /\ clients = {}
  /\ task = [a \in Alerts |-> "none"]
  /\ left = [a \in Alerts |-> {}] /\ dead = [a \in Alerts |-> {}]
  /\ got = [c \in Dashboards |-> {}]
  /\ meant = [a \in Alerts |-> {}]

broadcasts == <<task, left, dead, got, meant>>
-----------------------------------------------------------------------------
(* Connections *)

Open(c) ==
  /\ socket[c] = "new" /\ socket' = [socket EXCEPT ![c] = "open"]
  /\ UNCHANGED <<joined, clients, broadcasts>>

\* connect: the connection is accepted and registered, broken or not by now.
Join(c) ==
  /\ socket[c] \in {"open", "broken"} /\ c \notin joined
  /\ joined' = joined \union {c} /\ clients' = clients \union {c}
  /\ UNCHANGED <<socket, broadcasts>>

Drop(c) ==
  /\ socket[c] = "open" /\ socket' = [socket EXCEPT ![c] = "broken"]
  /\ UNCHANGED <<joined, clients, broadcasts>>

\* receive_text, or the answer to a ping, raises: disconnect.
Leave(c) ==
  /\ c \in joined /\ socket[c] = "broken"
  /\ socket' = [socket EXCEPT ![c] = "closed"]
  /\ joined' = joined \ {c} /\ clients' = clients \ {c}
  /\ UNCHANGED broadcasts
-----------------------------------------------------------------------------
(* Alerts *)

Hand(a, place) ==
  /\ task[a] = "none"
  /\ task' = [task EXCEPT ![a] = place]
  /\ meant' = [meant EXCEPT ![a] = clients]
  /\ UNCHANGED <<socket, joined, clients, left, dead, got>>

\* process_video_frame awaits the broadcast itself.
Await(a) == Hand(a, "due")

\* publish schedules it on the running loop.  In a thread there is none, and both
\* its callers (stream_workers.py:484, anomaly_engine.py:199) run in threads.
Publish(a) == \E inLoop \in BOOLEAN : Hand(a, IF inLoop THEN "due" ELSE "unsent")

Snapshot(a) ==
  /\ task[a] = "due"
  /\ task' = [task EXCEPT ![a] = "sending"]
  /\ left' = [left EXCEPT ![a] = clients] /\ meant' = [meant EXCEPT ![a] = clients]
  /\ UNCHANGED <<socket, joined, clients, dead, got>>

\* Mutant of Send: the first send that raises ends the broadcast.
SendToFirstDead(a, c) ==
  /\ task[a] = "sending" /\ c \in left[a]
  /\ IF socket[c] = "open"
     THEN /\ got' = [got EXCEPT ![c] = @ \union {a}] /\ UNCHANGED dead
          /\ left' = [left EXCEPT ![a] = @ \ {c}]
     ELSE /\ dead' = [dead EXCEPT ![a] = @ \union {c}] /\ UNCHANGED got
          /\ left' = [left EXCEPT ![a] = {}]
  /\ UNCHANGED <<socket, joined, clients, task, meant>>

\* A send to a connection that is gone raises, or is lost in a buffer.
Send(a, c) ==
  /\ task[a] = "sending" /\ c \in left[a]
  /\ left' = [left EXCEPT ![a] = @ \ {c}]
  /\ IF socket[c] = "open"
     THEN got' = [got EXCEPT ![c] = @ \union {a}] /\ UNCHANGED dead
     ELSE UNCHANGED got /\ (UNCHANGED dead \/ dead' = [dead EXCEPT ![a] = @ \union {c}])
  /\ UNCHANGED <<socket, joined, clients, task, meant>>

\* The dead leave the set; their endpoints discard them once more.
Purge(a) ==
  /\ task[a] = "sending" /\ left[a] = {}
  /\ task' = [task EXCEPT ![a] = "sent"]
  /\ clients' = clients \ dead[a]
  /\ UNCHANGED <<socket, joined, left, dead, got, meant>>

Next ==
  \/ \E c \in Dashboards : Open(c) \/ Join(c) \/ Drop(c) \/ Leave(c)
  \/ \E a \in Alerts : Await(a) \/ Publish(a) \/ Snapshot(a) \/ Purge(a)
  \/ \E a \in Alerts, c \in Dashboards : Send(a, c)

Spec == Init /\ [][Next]_vars
-----------------------------------------------------------------------------
(* A dashboard whose connection holds is not struck off because others      *)
(* break while alerts are sent, and when a broadcast is over it has what    *)
(* every dashboard registered at its start was to get (realtime.py:32-42).  *)
EveryClientServed ==
  \A c \in joined : socket[c] = "open" =>
    /\ c \in clients
    /\ \A a \in Alerts : task[a] = "sent" /\ c \in meant[a] => a \in got[c]

(* "Real-time WebSocket broadcast for hotlist alerts" (event_bus.py:243): no *)
(* alert is handed to the bus while dashboards are connected and then sent   *)
(* to none of them.  The code does not keep this one.                        *)
AlertsAreBroadcast == \A a \in Alerts : task[a] = "unsent" => meant[a] = {}
=============================================================================
