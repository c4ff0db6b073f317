----------------------------- MODULE Federation -----------------------------
(***************************************************************************)
(* Who may watch a camera of another department: the access requests of    *)
(* backend/app/services/federation.py, their decisions, and the feeds that *)
(* backend/app/api/cameras.py opens.                                       *)
(*                                                                         *)
(* A thread serves one request at a time.  The ORM writes back only the    *)
(* columns of a row whose value differs from the one it read.  log_action  *)
(* (AuditChain) may raise, and the request with it.                        *)
(***************************************************************************)
EXTENDS Naturals, Sequences, FiniteSets

CONSTANTS
  Threads, Users, Cameras,
  Requests,     \* the access requests that may be filed
  Statewide,    \* the users with a role of STATEWIDE_ROLES
  Approvers,    \* the users with the permission "cameras:federation"
  UserOf,       \* user -> [department, district]
  CameraOf,     \* camera -> [department, district, scope]
  Durations,    \* the hours an approval may give
  MaxTime,      \* bound on the clock
  MaxFeeds,     \* bound on the feeds opened
  MaxDecisions  \* bound on the decisions on one request

FederationAssumption ==
  /\ Statewide \subseteq Users /\ Approvers \subseteq Users
  /\ UserOf \in [Users -> [department : STRING, district : STRING]]
  /\ CameraOf \in [Cameras -> [department : STRING, district : STRING,
                     scope : {"STATEWIDE_FEDERATED", "DISTRICT_WIDE", "INTERNAL_ONLY"}]]
  /\ Durations \subseteq Nat \ {0} /\ MaxTime \in Nat /\ MaxFeeds \in Nat
  /\ MaxDecisions \in Nat

VARIABLES
  now,
  rows,       \* request -> [user, camera, status, approvedBy, until], once filed
  work,       \* thread -> what it has read and is about to do
  feeds,      \* the feeds opened: who, what, when allowed and after which decisions
  decisions   \* request -> the decisions committed, in that order

vars == <<now, rows, work, feeds, decisions>>

Verdicts == {"APPROVED", "REJECTED"}
Idle == [at |-> "idle"]

Rows == [user : Users, camera : Cameras, status : Verdicts \cup {"PENDING"},
         approvedBy : Approvers \cup {""}, until : Nat]
Decisions == [verdict : Verdicts, until : Nat, seen : Nat]
Decidings == [at : {"decide"}, request : Requests, row : Rows, verdict : Verdicts,
              by : Approvers, until : Nat, seen : Nat]
Openings == [at : {"open"}, user : Users, camera : Cameras, allowed : Nat,
             after : [Requests -> Nat]]

TypeOK ==
  /\ now \in 0..MaxTime
  /\ DOMAIN rows \subseteq Requests /\ rows \in [DOMAIN rows -> Rows]
  /\ work \in [Threads -> [at : {"idle", "log"}] \cup Decidings \cup Openings]
  /\ feeds \subseteq Openings /\ IsFiniteSet(feeds) /\ Cardinality(feeds) <= MaxFeeds
  /\ decisions \in [Requests -> Seq(Decisions)]

Init ==
  /\ now = 0 /\ rows = [r \in {} |-> Idle] /\ feeds = {}
  /\ work = [t \in Threads |-> Idle]
  /\ decisions = [r \in Requests |-> <<>>]

At(t, phase) == work[t].at = phase
-----------------------------------------------------------------------------
\* Rules 1 to 4 of can_user_access_camera.
Standing(u, c) ==
  \/ u \in Statewide
  \/ UserOf[u].department # "" /\ UserOf[u].department = CameraOf[c].department
  \/ CameraOf[c].scope = "STATEWIDE_FEDERATED"
  \/ /\ CameraOf[c].scope = "DISTRICT_WIDE" /\ UserOf[u].district # ""
     /\ UserOf[u].district = CameraOf[c].district

\* Mutant of Permit: the permit of a request does not run out.
PermitForever(u, c) ==
  \E r \in DOMAIN rows : rows[r].camera = c /\ rows[r].user = u /\ rows[r].status = "APPROVED"

\* Rule 5: an approved request of the user for the camera that has not run out.
Permit(u, c) ==
  \E r \in DOMAIN rows :
    /\ rows[r].camera = c /\ rows[r].user = u
    /\ rows[r].status = "APPROVED" /\ rows[r].until > now

\* create_access_request
File(t) ==
  /\ At(t, "idle")
  /\ \E r \in Requests \ DOMAIN rows, u \in Users, c \in Cameras :
       rows' = [q \in DOMAIN rows \cup {r} |->
                  IF q = r THEN [user |-> u, camera |-> c, status |-> "PENDING",
                                 approvedBy |-> "", until |-> 0]
                  ELSE rows[q]]
  /\ work' = [work EXCEPT ![t] = [at |-> "log"]]
  /\ UNCHANGED <<now, feeds, decisions>>

\* Mutant of ReadRequest: anyone may decide.
ReadRequestOfAnyone(t) ==
  /\ At(t, "idle")
  /\ \E r \in DOMAIN rows, verdict \in Verdicts, by \in Users, hours \in Durations :
       /\ Len(decisions[r]) < MaxDecisions
       /\ work' = [work EXCEPT ![t] =
            [at |-> "decide", request |-> r, row |-> rows[r], verdict |-> verdict,
             by |-> by, until |-> now + hours, seen |-> Len(decisions[r])]]
  /\ UNCHANGED <<now, rows, feeds, decisions>>

\* approve_access_request reads the request, and the clock.
ReadRequest(t) ==
  /\ At(t, "idle")
  /\ \E r \in DOMAIN rows, verdict \in Verdicts, by \in Approvers, hours \in Durations :
       /\ Len(decisions[r]) < MaxDecisions
       /\ work' = [work EXCEPT ![t] =
            [at |-> "decide", request |-> r, row |-> rows[r], verdict |-> verdict,
             by |-> by, until |-> now + hours, seen |-> Len(decisions[r])]]
  /\ UNCHANGED <<now, rows, feeds, decisions>>

\* It commits what it has changed of the row it read.
Decide(t) ==
  /\ At(t, "decide")
  /\ LET w == work[t]
     IN  /\ rows' = [rows EXCEPT
              ![w.request].status = IF w.verdict # w.row.status THEN w.verdict ELSE @,
              ![w.request].approvedBy = IF w.by # w.row.approvedBy THEN w.by ELSE @,
              ![w.request].until = IF w.verdict = "APPROVED" THEN w.until ELSE @]
         /\ decisions' = [decisions EXCEPT ![w.request] =
              Append(@, [verdict |-> w.verdict, until |-> w.until, seen |-> w.seen])]
  /\ work' = [work EXCEPT ![t] = [at |-> "log"]]
  /\ UNCHANGED <<now, feeds>>

\* stream_camera_feed lets the user in, or answers 403.
CheckAccess(t) ==
  /\ At(t, "idle")
  /\ \E u \in Users, c \in Cameras :
       /\ Standing(u, c) \/ Permit(u, c)
       /\ work' = [work EXCEPT ![t] =
            [at |-> "open", user |-> u, camera |-> c, allowed |-> now,
             after |-> [r \in Requests |-> Len(decisions[r])]]]
  /\ UNCHANGED <<now, rows, feeds, decisions>>

\* It has logged the observation, and starts the stream.
OpenFeed(t) ==
  /\ At(t, "open") /\ Cardinality(feeds) < MaxFeeds
  /\ feeds' = feeds \cup {work[t]}
  /\ work' = [work EXCEPT ![t] = Idle]
  /\ UNCHANGED <<now, rows, decisions>>

\* The request is logged and answered; or logging raises, or the gateway has no
\* slot for the stream; or the client ends the stream.
Finish(t) ==
  /\ \/ ~At(t, "idle") /\ work' = [work EXCEPT ![t] = Idle] /\ UNCHANGED feeds
     \/ \E f \in feeds : feeds' = feeds \ {f} /\ UNCHANGED work
  /\ UNCHANGED <<now, rows, decisions>>

Tick == now < MaxTime /\ now' = now + 1 /\ UNCHANGED <<rows, work, feeds, decisions>>

Next ==
  \/ \E t \in Threads :
       File(t) \/ ReadRequest(t) \/ Decide(t) \/ CheckAccess(t) \/ OpenFeed(t) \/ Finish(t)
  \/ Tick

Spec == Init /\ [][Next]_vars
-----------------------------------------------------------------------------
\* No decision on r was read before the one it follows was committed.
OneAtATime(r) == \A i \in DOMAIN decisions[r] : decisions[r][i].seen = i - 1

(* A feed of a camera the user has no standing right to was opened on a     *)
(* request of that user for that camera whose last decision, when access   *)
(* was checked, was an approval that had not run out.  It is not so of a    *)
(* request two approvers decide at once: a verdict equal to the one its     *)
(* approver read is not written, and the other's stays (federation.py:149). *)
PermitHonoured ==
  \A f \in feeds :
    \/ Standing(f.user, f.camera)
    \/ \E r \in DOMAIN rows :
         /\ rows[r].user = f.user /\ rows[r].camera = f.camera
         /\ f.after[r] > 0
         /\ OneAtATime(r) =>
              LET last == decisions[r][f.after[r]]
              IN  last.verdict = "APPROVED" /\ f.allowed < last.until
=============================================================================
