-------------------------- MODULE AuditChainProofs --------------------------
(***************************************************************************)
(* With one API process, no two links of the audit log meet in one logged  *)
(* row and none passes over one, whoever writes to it; and if every action *)
(* goes through log_action its chain always verifies.                      *)
(***************************************************************************)
EXTENDS AuditChain, TLAPS

Inside == {"locked", "linked", "signed"}

\* One process: its lock is the lock of every thread.
OneProcess == \A t, u \in Threads : ProcessOf[t] = ProcessOf[u]

\* A row is stamped, and a logged row has its link, before it is written.
Ready ==
  \A t \in Threads :
    /\ pc[t] \in {"signed", "direct"} => stamp[t] > Genesis
    /\ pc[t] \in {"linked", "signed"} => prev[t] \in Hashes

\* The head in hand is the hash of a row, or genesis, and no logged row is
\* younger than it.
HandInv ==
  \A t \in Threads : pc[t] \in {"linked", "signed"} =>
    \/ prev[t] = Genesis /\ Logged = {}
    \/ \E d \in rows : /\ d.hash = prev[t]
                       /\ pc[t] = "signed" => d.ts < stamp[t]
                       /\ \A q \in Logged : q.ts <= d.ts

LoggedUnique == \A q, r \in Logged : q.ts = r.ts => q = r

\* The head in hand is the hash of the row before the one to be written, and
\* nobody writes directly.
HeadInv ==
  \A t \in Threads :
    /\ pc[t] = "linked" => IsHashBefore(prev[t], clock + 1)
    /\ pc[t] = "signed" => /\ IsHashBefore(prev[t], stamp[t])
                           /\ \A q \in rows : q.ts < stamp[t]
    /\ pc[t] # "direct"

SkipInv ==
  TypeOK /\ LockDiscipline /\ Ready /\ HandInv /\ LoggedUnique /\ LinksSkipNoLoggedRow
ChainInv == TypeOK /\ LockDiscipline /\ Ready /\ HeadInv /\ ChainVerifies

-----------------------------------------------------------------------------
(* Types and the lock *)

LEMMA Start == Init => SkipInv /\ ChainInv
BY AuditAssumption
   DEF Init, SkipInv, ChainInv, TypeOK, LockDiscipline, Ready, HandInv, HeadInv,
       LoggedUnique, LinksSkipNoLoggedRow, ChainVerifies, VerifiedIntact, Logged, Rows,
       Hashes, Genesis

\* Every step keeps the types; a direct write needs a stamp of its own.
LEMMA TypeStep ==
  ASSUME TypeOK, Ready, [Next]_vars
  PROVE  TypeOK'
<1> USE AuditAssumption DEF TypeOK, Ready, Rows, Hashes, Logged, Genesis
<1>1. ASSUME NEW t \in Threads, Lock(t)
      PROVE  TypeOK'
  BY <1>1 DEF Lock
<1>2. ASSUME NEW t \in Threads, ReadHead(t)
      PROVE  TypeOK'
  BY <1>2 DEF ReadHead
<1>3. ASSUME NEW t \in Threads, Stamp(t)
      PROVE  TypeOK'
  BY <1>3 DEF Stamp, TakeStamp
<1>4. ASSUME NEW t \in Threads, Commit(t)
      PROVE  TypeOK'
  BY <1>4 DEF Commit, Unlock
<1>5. ASSUME NEW t \in Threads, CommitFails(t)
      PROVE  TypeOK'
  BY <1>5 DEF CommitFails, Unlock
<1>6. ASSUME NEW t \in Threads, DirectStamp(t)
      PROVE  TypeOK'
  BY <1>6 DEF DirectStamp, TakeStamp
<1>7. ASSUME NEW t \in Threads, DirectCommit(t)
      PROVE  TypeOK'
  BY <1>7 DEF DirectCommit
<1>8. ASSUME NEW t \in Threads, DirectFails(t)
      PROVE  TypeOK'
  BY <1>8 DEF DirectFails
<1>9. CASE UNCHANGED vars
  BY <1>9 DEF vars
<1> QED BY <1>1, <1>2, <1>3, <1>4, <1>5, <1>6, <1>7, <1>8, <1>9
        DEF Next, LogNext, LogStep

\* Every step keeps the lock discipline, in any number of processes.
LEMMA LockStep ==
  ASSUME TypeOK, LockDiscipline, [Next]_vars
  PROVE  LockDiscipline'
<1> USE AuditAssumption DEF TypeOK, LockDiscipline
<1>1. ASSUME NEW t \in Threads, Lock(t)
      PROVE  LockDiscipline'
  BY <1>1 DEF Lock
<1>2. ASSUME NEW t \in Threads, ReadHead(t) \/ Stamp(t)
      PROVE  LockDiscipline'
  BY <1>2 DEF ReadHead, Stamp
<1>3. ASSUME NEW t \in Threads, Commit(t) \/ CommitFails(t)
      PROVE  LockDiscipline'
  <2>1. Unlock(t) /\ pc[t] = "signed"
    BY <1>3 DEF Commit, CommitFails
  <2>2. lock[ProcessOf[t]] = t
    BY <2>1
  <2> QED BY <2>1, <2>2 DEF Unlock
<1>4. ASSUME NEW t \in Threads, DirectStamp(t) \/ DirectCommit(t) \/ DirectFails(t)
      PROVE  LockDiscipline'
  BY <1>4 DEF DirectStamp, DirectCommit, DirectFails
<1>5. CASE UNCHANGED vars
  BY <1>5 DEF vars
<1> QED BY <1>1, <1>2, <1>3, <1>4, <1>5 DEF Next, LogNext, LogStep

\* With one process at most one thread is inside log_action.
LEMMA OneInside ==
  ASSUME OneProcess, LockDiscipline, NEW t \in Threads, NEW u \in Threads,
         pc[t] \in Inside, pc[u] \in Inside
  PROVE  t = u
BY DEF OneProcess, LockDiscipline, Inside

LEMMA ReadyStep ==
  ASSUME TypeOK, Ready, [Next]_vars
  PROVE  Ready'
<1> USE AuditAssumption DEF TypeOK, Ready, Rows, Hashes, Genesis
<1>1. ASSUME NEW t \in Threads, Lock(t) \/ ReadHead(t)
      PROVE  Ready'
  BY <1>1 DEF Lock, ReadHead
<1>2. ASSUME NEW t \in Threads, Stamp(t) \/ DirectStamp(t)
      PROVE  Ready'
  BY <1>2 DEF Stamp, DirectStamp, TakeStamp
<1>3. ASSUME NEW t \in Threads,
             Commit(t) \/ CommitFails(t) \/ DirectCommit(t) \/ DirectFails(t)
      PROVE  Ready'
  BY <1>3 DEF Commit, CommitFails, Unlock, DirectCommit, DirectFails
<1>4. CASE UNCHANGED vars
  BY <1>4 DEF vars
<1> QED BY <1>1, <1>2, <1>3, <1>4 DEF Next, LogNext, LogStep

\* In any number of processes every variable keeps its type and a thread holds
\* its process's audit lock exactly while it is inside log_action, so that a
\* commit that fails never leaves the lock behind.
THEOREM LockGivenBack == Spec => [](TypeOK /\ LockDiscipline)
<1> DEFINE Inv == TypeOK /\ LockDiscipline /\ Ready
<1>1. Init => Inv
  BY Start DEF SkipInv
<1>2. Inv /\ [Next]_vars => Inv'
  BY TypeStep, LockStep, ReadyStep
<1>3. Inv => TypeOK /\ LockDiscipline
  OBVIOUS
<1> QED BY <1>1, <1>2, <1>3, PTL DEF Spec

-----------------------------------------------------------------------------
(* Links and forks *)

LEMMA SkipStep ==
  ASSUME OneProcess, SkipInv, [Next]_vars
  PROVE  SkipInv'
<1> USE AuditAssumption DEF Genesis, Logged
<1> DEFINE Links == HandInv /\ LoggedUnique /\ LinksSkipNoLoggedRow
<1>1. TypeOK' /\ LockDiscipline' /\ Ready'
  BY TypeStep, LockStep, ReadyStep DEF SkipInv
<1>2. ASSUME NEW t \in Threads, Lock(t)
      PROVE  Links'
  BY <1>2 DEF Lock, SkipInv, HandInv, LoggedUnique, LinksSkipNoLoggedRow, TypeOK
<1>3. ASSUME NEW t \in Threads, ReadHead(t)
      PROVE  Links'
  <2>1. PICK h \in {Genesis} \union {r.hash : r \in rows} :
          IsHashBefore(h, clock + 1) /\ prev' = [prev EXCEPT ![t] = h]
    BY <1>3 DEF ReadHead
  <2>2. clock \in Nat /\ \A q \in rows : q.ts \in Nat /\ q.ts < clock + 1
    BY DEF SkipInv, TypeOK, Rows
  <2>3. \/ h = Genesis /\ rows = {}
        \/ \E d \in rows : d.hash = h /\ \A q \in rows : q.ts <= d.ts
    BY <2>1, <2>2 DEF IsHashBefore
  <2>4. HandInv'
    BY <1>3, <2>1, <2>3 DEF ReadHead, SkipInv, HandInv, TypeOK
  <2>5. LoggedUnique' /\ LinksSkipNoLoggedRow'
    BY <1>3 DEF ReadHead, SkipInv, LoggedUnique, LinksSkipNoLoggedRow
  <2> QED BY <2>4, <2>5
<1>4. ASSUME NEW t \in Threads, Stamp(t) \/ DirectStamp(t)
      PROVE  Links'
  <2>1. UNCHANGED <<rows, prev>> /\ TakeStamp(t)
    BY <1>4 DEF Stamp, DirectStamp
  <2>2. /\ clock \in Nat /\ stamp'[t] = clock + 1
        /\ \A q \in rows : q.ts \in Nat /\ q.ts <= clock
    BY <2>1 DEF SkipInv, TypeOK, TakeStamp, Rows
  <2>3. ASSUME NEW u \in Threads, pc'[u] \in {"linked", "signed"}
        PROVE  \/ prev[u] = Genesis /\ Logged = {}
               \/ \E d \in rows : /\ d.hash = prev[u]
                                  /\ pc'[u] = "signed" => d.ts < stamp'[u]
                                  /\ \A q \in Logged : q.ts <= d.ts
    <3>1. pc[u] \in {"linked", "signed"}
      BY <1>4, <2>3 DEF Stamp, DirectStamp, SkipInv, TypeOK
    <3>2. CASE u = t
      BY <2>2, <3>1, <3>2 DEF SkipInv, HandInv
    <3>3. CASE u # t
      BY <1>4, <2>1, <3>1, <3>3
         DEF Stamp, DirectStamp, TakeStamp, SkipInv, HandInv, TypeOK
    <3> QED BY <3>2, <3>3
  <2>4. HandInv'
    BY <2>1, <2>3 DEF HandInv
  <2> QED BY <2>1, <2>4 DEF SkipInv, LoggedUnique, LinksSkipNoLoggedRow
<1>5. ASSUME NEW t \in Threads, Commit(t)
      PROVE  Links'
  <2> DEFINE new == [ts |-> stamp[t], hash |-> stamp[t], prev |-> prev[t]]
  <2>1. /\ rows' = rows \union {new} /\ pc' = [pc EXCEPT ![t] = "idle"]
        /\ UNCHANGED <<clock, prev, stamp>> /\ pc[t] = "signed"
    BY <1>5 DEF Commit, Unlock
  <2>2. \A u \in Threads : pc'[u] \notin Inside
    <3>1. \A u \in Threads \ {t} : pc[u] \notin Inside
      BY <2>1, OneInside DEF SkipInv, Inside
    <3> QED BY <2>1, <3>1 DEF SkipInv, TypeOK, Inside
  <2>3. HandInv'
    BY <2>2 DEF HandInv, Inside
  <2>4. stamp[t] \in Nat /\ \A q \in rows : q.ts \in Nat
    BY DEF SkipInv, TypeOK, Rows
  <2>5. \/ prev[t] = Genesis /\ Logged = {}
        \/ \E d \in rows : /\ d.hash = prev[t]
                           /\ d.ts < stamp[t]
                           /\ \A q \in Logged : q.ts <= d.ts
    BY <2>1 DEF SkipInv, HandInv
  <2>6. \A q \in Logged : q.ts < stamp[t]
    BY <2>4, <2>5
  <2>7. \A q \in Logged' : q \in Logged \/ q = new
    BY <2>1
  <2>8. LoggedUnique'
    BY <2>4, <2>6, <2>7 DEF SkipInv, LoggedUnique
  <2>9. ASSUME NEW r \in Logged'
        PROVE  \/ r.prev = Genesis /\ \A q \in Logged' : r.ts <= q.ts
               \/ \E d \in rows' : /\ d.hash = r.prev
                                   /\ d.ts < r.ts
                                   /\ \A q \in Logged' : q.ts < r.ts => q.ts <= d.ts
    <3>1. CASE r = new
      BY <2>1, <2>4, <2>5, <2>7, <3>1
    <3>2. CASE r \in Logged
      <4>1. r.ts < new.ts /\ r.ts \in Nat
        BY <2>4, <2>6, <3>2
      <4> QED BY <2>1, <2>4, <2>7, <3>2, <4>1 DEF SkipInv, LinksSkipNoLoggedRow
    <3> QED BY <2>7, <3>1, <3>2
  <2>10. LinksSkipNoLoggedRow'
    BY <2>9 DEF LinksSkipNoLoggedRow
  <2> QED BY <2>3, <2>8, <2>10
<1>6. ASSUME NEW t \in Threads, CommitFails(t) \/ DirectFails(t)
      PROVE  Links'
  BY <1>6 DEF CommitFails, DirectFails, Unlock, SkipInv, HandInv, LoggedUnique,
              LinksSkipNoLoggedRow, TypeOK
<1>7. ASSUME NEW t \in Threads, DirectCommit(t)
      PROVE  Links'
  <2>1. PICK h \in DirectHashes :
          rows' = rows \union {[ts |-> stamp[t], hash |-> h, prev |-> NoPrev]}
    BY <1>7 DEF DirectCommit
  <2>2. Logged' = Logged /\ rows \subseteq rows'
    BY <2>1
  <2>3. HandInv'
    BY <1>7, <2>2 DEF DirectCommit, SkipInv, HandInv, TypeOK
  <2> QED BY <2>2, <2>3 DEF SkipInv, LoggedUnique, LinksSkipNoLoggedRow
<1>8. CASE UNCHANGED vars
  BY <1>1, <1>8 DEF vars, SkipInv, HandInv, LoggedUnique, LinksSkipNoLoggedRow
<1>9. Links'
  BY <1>2, <1>3, <1>4, <1>5, <1>6, <1>7, <1>8 DEF SkipInv, Next, LogNext, LogStep
<1> QED BY <1>1, <1>9 DEF SkipInv

\* Links that pass over no logged row never meet in one: the later of two blocks
\* with the same link would have passed over the earlier.
LEMMA NoForkFromLinks ==
  ASSUME SkipInv
  PROVE  NoFork
<1> USE AuditAssumption DEF Genesis
<1>1. \A r \in rows : /\ r.ts \in Nat /\ r.ts > 0
                      /\ r.hash \in Nat => r.hash = r.ts
  BY DEF SkipInv, TypeOK, Rows
<1>2. ASSUME NEW q \in Logged, NEW r \in Logged,
             q.prev \notin DirectHashes, q.prev = r.prev, q.ts < r.ts
      PROVE  FALSE
  <2>1. q \in rows /\ r \in rows /\ q.prev \in Nat
    BY <1>2 DEF Logged, SkipInv, TypeOK, Rows, Hashes
  <2>2. ~(\A p \in Logged : r.ts <= p.ts)
    BY <1>1, <1>2, <2>1
  <2>3. PICK d \in rows : d.hash = r.prev /\ q.ts <= d.ts
    BY <1>2, <2>2 DEF SkipInv, LinksSkipNoLoggedRow
  <2>4. d.ts = q.prev /\ d.ts > 0
    BY <1>1, <1>2, <2>1, <2>3
  <2>5. PICK e \in rows : e.hash = q.prev /\ e.ts < q.ts
    BY <2>4 DEF SkipInv, LinksSkipNoLoggedRow
  <2>6. e.ts = d.ts
    BY <1>1, <2>1, <2>4, <2>5
  <2> QED BY <1>1, <2>1, <2>3, <2>5, <2>6
<1> SUFFICES ASSUME NEW q \in Logged, NEW r \in Logged,
                    q.prev \notin DirectHashes, q.prev = r.prev
             PROVE  q = r
  BY DEF NoFork
<1>3. q.ts \in Nat /\ r.ts \in Nat
  BY <1>1 DEF Logged
<1>4. q.ts = r.ts
  BY <1>2, <1>3
<1> QED BY <1>4 DEF SkipInv, LoggedUnique

LEMMA SkipInvariant == OneProcess => (Spec => []SkipInv)
<1> SUFFICES ASSUME OneProcess
             PROVE  Spec => []SkipInv
  OBVIOUS
<1>1. Init => SkipInv
  BY Start
<1>2. SkipInv /\ [Next]_vars => SkipInv'
  BY SkipStep
<1> QED BY <1>1, <1>2, PTL DEF Spec

\* In one process the link of a logged row passes over no logged row, however
\* many rows the other endpoints write in between and whatever fails.
THEOREM LinksReachTheLastLoggedRow ==
  ASSUME OneProcess
  PROVE  Spec => []LinksSkipNoLoggedRow
<1>1. Spec => []SkipInv
  BY SkipInvariant
<1>2. SkipInv => LinksSkipNoLoggedRow
  BY DEF SkipInv
<1> QED BY <1>1, <1>2, PTL

\* In one process no two audit blocks link to the same logged block or both to
\* genesis, however log_action calls, direct writes and failed commits interleave.
THEOREM LogNeverForks ==
  ASSUME OneProcess
  PROVE  Spec => []NoFork
<1>1. Spec => []SkipInv
  BY SkipInvariant
<1>2. SkipInv => NoFork
  BY NoForkFromLinks
<1> QED BY <1>1, <1>2, PTL

-----------------------------------------------------------------------------
(* The chain verifies *)

\* A row written after every other leaves the links of the others intact.
LEMMA YoungerRow ==
  ASSUME rows \subseteq Rows, NEW new \in Rows, rows' = rows \union {new},
         NEW h, NEW ts \in Nat, ts <= new.ts, IsHashBefore(h, ts)
  PROVE  IsHashBefore(h, ts)'
BY DEF IsHashBefore, Rows, Genesis

LEMMA ChainStep ==
  ASSUME OneProcess, ChainInv, [LogNext]_vars
  PROVE  ChainInv'
<1> USE AuditAssumption DEF Genesis, VerifiedIntact, Logged
<1>1. TypeOK' /\ LockDiscipline' /\ Ready'
  <2>1. [Next]_vars
    BY DEF Next
  <2> QED BY <2>1, TypeStep, LockStep, ReadyStep DEF ChainInv
<1>2. ASSUME NEW t \in Threads, Lock(t)
      PROVE  HeadInv' /\ ChainVerifies'
  BY <1>2 DEF Lock, ChainInv, HeadInv, ChainVerifies, TypeOK, IsHashBefore
<1>3. ASSUME NEW t \in Threads, ReadHead(t)
      PROVE  HeadInv' /\ ChainVerifies'
  BY <1>3 DEF ReadHead, ChainInv, HeadInv, ChainVerifies, TypeOK, IsHashBefore
<1>4. ASSUME NEW t \in Threads, Stamp(t)
      PROVE  HeadInv' /\ ChainVerifies'
  <2>1. \A u \in Threads \ {t} : pc[u] \notin Inside
    BY <1>4, OneInside DEF Stamp, ChainInv, Inside
  <2>2. clock \in Nat /\ \A q \in rows : q.ts \in Nat /\ q.ts <= clock
    BY DEF ChainInv, TypeOK, Rows
  <2>3. IsHashBefore(prev[t], clock + 1)
    BY <1>4 DEF Stamp, ChainInv, HeadInv
  <2>4. HeadInv'
    BY <1>4, <2>1, <2>2, <2>3
       DEF Stamp, TakeStamp, ChainInv, HeadInv, TypeOK, IsHashBefore, Inside
  <2>5. ChainVerifies'
    BY <1>4 DEF Stamp, ChainInv, ChainVerifies, IsHashBefore
  <2> QED BY <2>4, <2>5
<1>5. ASSUME NEW t \in Threads, Commit(t)
      PROVE  HeadInv' /\ ChainVerifies'
  <2> DEFINE new == [ts |-> stamp[t], hash |-> stamp[t], prev |-> prev[t]]
  <2>1. /\ rows' = rows \union {new} /\ pc' = [pc EXCEPT ![t] = "idle"]
        /\ UNCHANGED <<clock, prev, stamp>> /\ pc[t] = "signed"
    BY <1>5 DEF Commit, Unlock
  <2>2. \A u \in Threads : pc'[u] \notin Inside
    <3>1. \A u \in Threads \ {t} : pc[u] \notin Inside
      BY <2>1, OneInside DEF ChainInv, Inside
    <3> QED BY <2>1, <3>1 DEF ChainInv, TypeOK, Inside
  <2>3. HeadInv'
    <3>1. \A u \in Threads : pc'[u] # "direct"
      BY <2>1 DEF ChainInv, HeadInv, TypeOK
    <3> QED BY <2>2, <3>1 DEF HeadInv, Inside
  <2>4. /\ rows \subseteq Rows /\ stamp[t] \in Nat /\ prev[t] \in Hashes \union {NoPrev}
        /\ \A q \in rows : q.ts \in Nat /\ q.ts < stamp[t]
        /\ IsHashBefore(prev[t], stamp[t])
    BY <2>1 DEF ChainInv, HeadInv, TypeOK, Rows
  <2>5. new \in Rows
    BY <2>4 DEF Rows, Hashes
  <2>6. IsHashBefore(new.prev, new.ts)'
    BY <2>1, <2>4 DEF IsHashBefore
  <2>7. ASSUME NEW r \in rows, r.prev # NoPrev
        PROVE  IsHashBefore(r.prev, r.ts)'
    BY <2>1, <2>4, <2>5, <2>7, YoungerRow DEF ChainInv, ChainVerifies, Rows
  <2>8. ChainVerifies'
    BY <2>1, <2>6, <2>7 DEF ChainVerifies, IsHashBefore
  <2> QED BY <2>3, <2>8
<1>6. ASSUME NEW t \in Threads, CommitFails(t)
      PROVE  HeadInv' /\ ChainVerifies'
  BY <1>6 DEF CommitFails, Unlock, ChainInv, HeadInv, ChainVerifies, TypeOK,
              IsHashBefore
<1>7. CASE UNCHANGED vars
  BY <1>1, <1>7 DEF vars, ChainInv, HeadInv, ChainVerifies, IsHashBefore
<1> QED BY <1>1, <1>2, <1>3, <1>4, <1>5, <1>6, <1>7
        DEF LogNext, LogStep, ChainInv

\* In one process, while every audited action goes through log_action, the
\* verification endpoint never raises an alarm about the service's own rows.
THEOREM LoggedChainVerifies ==
  ASSUME OneProcess
  PROVE  LogSpec => []ChainVerifies
<1>1. Init => ChainInv
  BY Start
<1>2. ChainInv /\ [LogNext]_vars => ChainInv'
  BY ChainStep
<1>3. ChainInv => ChainVerifies
  BY DEF ChainInv
<1> QED BY <1>1, <1>2, <1>3, PTL DEF LogSpec
=============================================================================
