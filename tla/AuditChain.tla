----------------------------- MODULE AuditChain -----------------------------
(***************************************************************************)
(* The hash-chained audit log (services/audit_service.py) and the          *)
(* endpoints that write audit rows without it (api/alerts.py, cases.py,    *)
(* watchlist.py, tracking.py).                                             *)
(*                                                                         *)
(* Timestamps have microsecond resolution and every one is followed by a   *)
(* database write, so no two rows share one and they order the rows.  The  *)
(* hash of a logged row covers its timestamp, which therefore stands for   *)
(* it.  The hash of a direct row covers some of its contents only and      *)
(* recurs.  The genesis hash is 0.                                         *)
(***************************************************************************)
EXTENDS Naturals

CONSTANTS
  Threads,      \* request threads
  Processes,    \* API processes, each with its own _audit_lock
  ProcessOf,    \* the process of each thread
  NoThread,
  NoPrev,       \* prev_signature_hash is NULL
  DirectHashes, \* signature_hash of the rows written without log_action
  MaxClock      \* bound: last timestamp handed out

Genesis == 0

ASSUME AuditAssumption ==
  /\ NoThread \notin Threads
  /\ ProcessOf \in [Threads -> Processes]
  /\ NoPrev \notin Nat \union DirectHashes
  /\ DirectHashes \intersect Nat = {}
  /\ MaxClock \in Nat

VARIABLES
  rows,         \* committed audit_logs rows
  clock,        \* the last timestamp handed out
  lock,         \* _audit_lock of each process
  pc,           \* each thread's place in log_action or in a direct write
  prev,         \* the thread's prev_hash
  stamp         \* the thread's timestamp

vars == <<rows, clock, lock, pc, prev, stamp>>

Hashes == Nat \union DirectHashes
Rows == [ts : Nat, hash : Hashes, prev : Hashes \union {NoPrev}]
Logged == {r \in rows : r.prev # NoPrev}

Init ==
  /\ rows = {}
  /\ clock = Genesis
  /\ lock = [p \in Processes |-> NoThread]
  /\ pc = [t \in Threads |-> "idle"]
  /\ prev = [t \in Threads |-> NoPrev]
  /\ stamp = [t \in Threads |-> Genesis]

\* h is the hash of the last of the rows older than ts.
IsHashBefore(h, ts) ==
  \/ h = Genesis /\ \A q \in rows : ts <= q.ts
  \/ \E r \in rows : /\ r.hash = h
                     /\ r.ts < ts
                     /\ \A q \in rows : q.ts < ts => q.ts <= r.ts

TakeStamp(t) ==
  /\ clock < MaxClock
  /\ clock' = clock + 1
  /\ stamp' = [stamp EXCEPT ![t] = clock + 1]

-----------------------------------------------------------------------------
(* log_action *)

Lock(t) ==
  /\ pc[t] = "idle"
  /\ lock[ProcessOf[t]] = NoThread
  /\ lock' = [lock EXCEPT ![ProcessOf[t]] = t]
  /\ pc' = [pc EXCEPT ![t] = "locked"]
  /\ UNCHANGED <<rows, clock, prev, stamp>>

\* Mutant of ReadHead: the rows are read in ascending order.
ReadHeadOldest(t) ==
  /\ pc[t] = "locked"
  /\ \/ rows = {} /\ prev' = [prev EXCEPT ![t] = Genesis]
     \/ \E r \in rows : /\ \A q \in rows : r.ts <= q.ts
                        /\ prev' = [prev EXCEPT ![t] = r.hash]
  /\ pc' = [pc EXCEPT ![t] = "linked"]
  /\ UNCHANGED <<rows, clock, lock, stamp>>

\* the latest row's hash, whichever endpoint wrote it
ReadHead(t) ==
  /\ pc[t] = "locked"
  /\ \E h \in {Genesis} \union {r.hash : r \in rows} :
       IsHashBefore(h, clock + 1) /\ prev' = [prev EXCEPT ![t] = h]
  /\ pc' = [pc EXCEPT ![t] = "linked"]
  /\ UNCHANGED <<rows, clock, lock, stamp>>

Stamp(t) ==
  /\ pc[t] = "linked"
  /\ TakeStamp(t)
  /\ pc' = [pc EXCEPT ![t] = "signed"]
  /\ UNCHANGED <<rows, lock, prev>>

Unlock(t) ==
  /\ lock' = [lock EXCEPT ![ProcessOf[t]] = NoThread]
  /\ pc' = [pc EXCEPT ![t] = "idle"]

\* Mutant of Commit: the row stores no link to its predecessor.
CommitUnlinked(t) ==
  /\ pc[t] = "signed"
  /\ rows' = rows \union {[ts |-> stamp[t], hash |-> stamp[t], prev |-> Genesis]}
  /\ Unlock(t)
  /\ UNCHANGED <<clock, prev, stamp>>

Commit(t) ==
  /\ pc[t] = "signed"
  /\ rows' = rows \union {[ts |-> stamp[t], hash |-> stamp[t], prev |-> prev[t]]}
  /\ Unlock(t)
  /\ UNCHANGED <<clock, prev, stamp>>

\* commit() raises and "with" releases the lock.
CommitFails(t) ==
  /\ pc[t] = "signed"
  /\ Unlock(t)
  /\ UNCHANGED <<rows, clock, prev, stamp>>

-----------------------------------------------------------------------------
(* take_alert_action, create_case, add_to_watchlist, search: the row is    *)
(* stamped when it is flushed, has no link and is committed without a lock *)

DirectStamp(t) ==
  /\ pc[t] = "idle"
  /\ TakeStamp(t)
  /\ pc' = [pc EXCEPT ![t] = "direct"]
  /\ UNCHANGED <<rows, lock, prev>>

DirectCommit(t) ==
  /\ pc[t] = "direct"
  /\ \E h \in DirectHashes :
       rows' = rows \union {[ts |-> stamp[t], hash |-> h, prev |-> NoPrev]}
  /\ pc' = [pc EXCEPT ![t] = "idle"]
  /\ UNCHANGED <<clock, lock, prev, stamp>>

DirectFails(t) ==
  /\ pc[t] = "direct"
  /\ pc' = [pc EXCEPT ![t] = "idle"]
  /\ UNCHANGED <<rows, clock, lock, prev, stamp>>

-----------------------------------------------------------------------------
LogStep(t) ==
  ReadHead(t) \/ Stamp(t) \/ Commit(t) \/ CommitFails(t)

\* every audited action goes through log_action
LogNext == \E t \in Threads : Lock(t) \/ LogStep(t)

Next ==
  \/ LogNext
  \/ \E t \in Threads : DirectStamp(t) \/ DirectCommit(t) \/ DirectFails(t)

LogSpec == Init /\ [][LogNext]_vars
Spec == Init /\ [][Next]_vars

-----------------------------------------------------------------------------
\* verify_chain: every row that has a link points to the row before it.
VerifiedIntact == \A r \in Logged : IsHashBefore(r.prev, r.ts)

-----------------------------------------------------------------------------
(* Properties *)

\* Every variable keeps its type; no row is from the future; a logged row has a
\* hash of its own and a direct row does not.
TypeOK ==
  /\ rows \in SUBSET Rows
  /\ \A r \in rows : Genesis < r.ts /\ r.ts <= clock
  /\ \A r \in rows : IF r \in Logged THEN r.hash = r.ts ELSE r.hash \in DirectHashes
  /\ clock \in 0 .. MaxClock
  /\ lock \in [Processes -> Threads \union {NoThread}]
  /\ pc \in [Threads -> {"idle", "locked", "linked", "signed", "direct"}]
  /\ prev \in [Threads -> Hashes \union {NoPrev}]
  /\ stamp \in [Threads -> 0 .. clock]

\* verify_chain answers VERIFIED_INTACT.  Nobody tampers here, so any other
\* answer is an alarm about rows the service wrote itself.  It holds while every
\* row is written by log_action (proved in AuditChainProofs) and fails with the
\* direct writers (README).
ChainVerifies == VerifiedIntact

\* Whoever else writes rows, a logged row links to the hash of a row before it,
\* or to genesis, and no row that was itself logged lies between the two.
LinksSkipNoLoggedRow ==
  \A r \in Logged :
    \/ r.prev = Genesis /\ \A q \in Logged : r.ts <= q.ts
    \/ \E d \in rows : /\ d.hash = r.prev
                       /\ d.ts < r.ts
                       /\ \A q \in Logged : q.ts < r.ts => q.ts <= d.ts

\* "Thread-safe to prevent branching forks during concurrent requests": no two
\* blocks link to the same logged block, and only one links to genesis.
NoFork ==
  \A q, r \in Logged : q.prev \notin DirectHashes /\ q.prev = r.prev => q = r

\* The same for every link, those to rows written directly included.
\* The code does not keep this one; no run checks it, and the README shows the
\* instance in which it fails.
NoForkAtAll == \A q, r \in Logged : q.prev = r.prev => q = r

\* A thread is inside log_action exactly while it holds its process's lock,
\* whatever way the calls before it ended.
LockDiscipline ==
  \A t \in Threads :
    lock[ProcessOf[t]] = t <=> pc[t] \in {"locked", "linked", "signed"}
=============================================================================
