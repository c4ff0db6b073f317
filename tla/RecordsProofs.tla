---------------------------- MODULE RecordsProofs ----------------------------
(***************************************************************************)
(* What holds of the access requests, the adapters of the registries, the  *)
(* schema and the scripts that seed it (Records) for any data and any      *)
(* number of threads, processes and scripts.                               *)
(***************************************************************************)
EXTENDS Records, FiniteSetTheorems, SequenceTheorems, TLAPS

-----------------------------------------------------------------------------
(* The access requests.  PermitHonoured is not inductive: that an approved *)
(* row says what the last decision on it said is known only together with  *)
(* what the threads still deciding have read, and what a feed rests on has *)
(* to be known of the thread that was let in before the feed is opened.    *)

\* No decision is made on a request that is not filed, a row without decisions
\* is pending, and one decided one decision at a time says what the last of them did.
RowOfLast ==
  \A r \in Requests :
    /\ r \notin DOMAIN rows => decisions[r] = <<>>
    /\ r \in DOMAIN rows =>
         LET made == decisions[r]
         IN  /\ made = <<>> => rows[r].status = "PENDING"
             /\ made # <<>> /\ Access!OneAtATime(r) =>
                  /\ rows[r].status = made[Len(made)].verdict
                  /\ rows[r].status = "APPROVED" => rows[r].until = made[Len(made)].until

\* A thread that decides has read the row, and reads it still as it is when no
\* decision was made since.
ReadRow ==
  \A t \in Threads :
    LET w == work[t]
    IN  w.at = "decide" =>
          /\ w.request \in DOMAIN rows
          /\ w.seen <= Len(decisions[w.request])
          /\ w.seen = Len(decisions[w.request]) => w.row = rows[w.request]

\* What a feed, or a thread about to open one, rests on.
RestsOn(f, r) ==
  /\ rows[r].user = f.user /\ rows[r].camera = f.camera
  /\ 0 < f.after[r] /\ f.after[r] <= Len(decisions[r])
  /\ Access!OneAtATime(r) =>
       LET last == decisions[r][f.after[r]]
       IN  last.verdict = "APPROVED" /\ f.allowed < last.until

Honoured(f) == Access!Standing(f.user, f.camera) \/ \E r \in DOMAIN rows : RestsOn(f, r)

FeedsHonoured ==
  /\ \A f \in feeds : Honoured(f)
  /\ \A t \in Threads : work[t].at = "open" => Honoured(work[t])

PermitInv == Access!TypeOK /\ RowOfLast /\ ReadRow /\ FeedsHonoured

\* Finite sets and their sizes are the same in every component.
LEMMA SameFinite == ASSUME NEW S PROVE Access!IsFiniteSet(S) <=> IsFiniteSet(S)
BY DEF IsFiniteSet, Access!IsFiniteSet

LEMMA SameSize == ASSUME NEW S PROVE Access!Cardinality(S) = Cardinality(S)
BY DEF Cardinality, Access!Cardinality

\* What appending to a sequence does.
LEMMA Appended ==
  ASSUME NEW S, NEW s \in Seq(S), NEW e \in S
  PROVE  /\ Append(s, e) \in Seq(S) /\ Append(s, e) # <<>> /\ Len(s) \in Nat
         /\ Len(Append(s, e)) = Len(s) + 1 /\ Append(s, e)[Len(s) + 1] = e
         /\ DOMAIN Append(s, e) = 1..Len(s) + 1 /\ DOMAIN s = 1..Len(s)
         /\ \A i \in 1..Len(s) : Append(s, e)[i] = s[i]
OBVIOUS

\* A step that keeps the identity of the filed requests, and only adds to the
\* decisions, takes nothing from under a feed.
LEMMA RestKept ==
  ASSUME Access!TypeOK, NEW f \in Access!Openings,
         DOMAIN rows \subseteq DOMAIN rows',
         \A r \in DOMAIN rows : rows'[r].user = rows[r].user /\ rows'[r].camera = rows[r].camera,
         decisions' \in [Requests -> Seq(Access!Decisions)],
         \A r \in Requests : /\ Len(decisions[r]) <= Len(decisions'[r])
                             /\ \A i \in DOMAIN decisions[r] : decisions'[r][i] = decisions[r][i],
         Honoured(f)
  PROVE  \A d : d = f => Honoured(d)'
<1> SUFFICES ASSUME ~Access!Standing(f.user, f.camera)
             PROVE  \E r \in DOMAIN rows' : RestsOn(f, r)'
  BY DEF Honoured, Access!Standing
<1>1. PICK r \in DOMAIN rows : RestsOn(f, r)
  BY DEF Honoured
<1>2. /\ r \in Requests /\ decisions[r] \in Seq(Access!Decisions)
      /\ decisions'[r] \in Seq(Access!Decisions) /\ f.after[r] \in Nat
  BY DEF Access!TypeOK, Access!Openings
<1>3. Access!OneAtATime(r)' => Access!OneAtATime(r)
  BY <1>2 DEF Access!OneAtATime
<1>4. RestsOn(f, r)'
  BY <1>1, <1>2, <1>3 DEF RestsOn
<1> QED BY <1>4, <1>1


\* Every step of the requests keeps PermitInv.
LEMMA PermitStep ==
  ASSUME Access!FederationAssumption, PermitInv, [Access!Next]_(Access!vars)
  PROVE  PermitInv'
<1> USE DEF Access!FederationAssumption
<1>0. /\ Access!TypeOK /\ RowOfLast /\ ReadRow /\ FeedsHonoured
      /\ \A f \in feeds : f \in Access!Openings /\ Honoured(f)
      /\ \A t \in Threads : /\ work[t].at = "open" => work[t] \in Access!Openings
                            /\ work[t].at = "decide" => work[t] \in Access!Decidings
  BY DEF PermitInv, FeedsHonoured, Access!TypeOK, Access!Openings, Access!Decidings
<1>1. ASSUME NEW t \in Threads, Access!File(t)
      PROVE  PermitInv'
  <2>0. PICK r \in Requests \ DOMAIN rows, u \in Users, c \in Cameras :
          rows' = [q \in DOMAIN rows \cup {r} |->
                     IF q = r THEN [user |-> u, camera |-> c, status |-> "PENDING",
                                    approvedBy |-> "", until |-> 0]
                     ELSE rows[q]]
    BY <1>1 DEF Access!File
  <2>1. /\ work' = [work EXCEPT ![t] = [at |-> "log"]] /\ UNCHANGED <<now, feeds, decisions>>
        /\ work[t].at = "idle"
    BY <1>1 DEF Access!File, Access!At
  <2>2. Access!TypeOK'
    BY <1>0, <2>0, <2>1 DEF Access!TypeOK, Access!Rows
  <2>3. RowOfLast'
    BY <1>0, <2>0, <2>1 DEF RowOfLast, Access!TypeOK, Access!OneAtATime
  <2>4. ReadRow'
    BY <1>0, <2>0, <2>1 DEF ReadRow, Access!TypeOK
  <2>5. ASSUME NEW f \in Access!Openings, Honoured(f)
        PROVE  \A d : d = f => Honoured(d)'
    <3>1. /\ DOMAIN rows \subseteq DOMAIN rows'
          /\ \A q \in DOMAIN rows : rows'[q].user = rows[q].user /\ rows'[q].camera = rows[q].camera
      BY <2>0
    <3>2. /\ decisions' \in [Requests -> Seq(Access!Decisions)]
          /\ \A q \in Requests : Len(decisions[q]) \in Nat
      BY <1>0, <2>1 DEF Access!TypeOK
    <3> QED BY <1>0, <2>1, <2>5, <3>1, <3>2, RestKept
  <2>6. FeedsHonoured'
    BY <1>0, <2>1, <2>5 DEF FeedsHonoured, Access!TypeOK
  <2> QED BY <2>2, <2>3, <2>4, <2>6 DEF PermitInv
<1>2. ASSUME NEW t \in Threads, Access!ReadRequest(t)
      PROVE  PermitInv'
  <2>0. PICK r \in DOMAIN rows, verdict \in Access!Verdicts, by \in Approvers,
             hours \in Durations :
          work' = [work EXCEPT ![t] =
            [at |-> "decide", request |-> r, row |-> rows[r], verdict |-> verdict,
             by |-> by, until |-> now + hours, seen |-> Len(decisions[r])]]
    BY <1>2 DEF Access!ReadRequest
  <2>1. UNCHANGED <<now, rows, feeds, decisions>>
    BY <1>2 DEF Access!ReadRequest
  <2>2. r \in Requests /\ rows[r] \in Access!Rows /\ Len(decisions[r]) \in Nat
    BY <1>0 DEF Access!TypeOK
  <2>3. Access!TypeOK'
    BY <1>0, <2>0, <2>1, <2>2 DEF Access!TypeOK, Access!Decidings
  <2>4. RowOfLast' /\ ReadRow'
    BY <1>0, <2>0, <2>1, <2>2 DEF RowOfLast, ReadRow, Access!TypeOK, Access!OneAtATime
  <2>5. \A f : Honoured(f) => \A d : d = f => Honoured(d)'
    BY <2>1 DEF Honoured, RestsOn, Access!OneAtATime, Access!Standing
  <2>6. FeedsHonoured'
    BY <1>0, <2>0, <2>1, <2>5 DEF FeedsHonoured, Access!TypeOK
  <2> QED BY <2>3, <2>4, <2>6 DEF PermitInv
<1>3. ASSUME NEW t \in Threads, Access!Decide(t)
      PROVE  PermitInv'
  <2> DEFINE w == work[t]
             r == w.request
             made == [verdict |-> w.verdict, until |-> w.until, seen |-> w.seen]
  <2>0. /\ w \in Access!Decidings /\ r \in DOMAIN rows /\ r \in Requests
        /\ w.seen <= Len(decisions[r])
        /\ w.seen = Len(decisions[r]) => w.row = rows[r]
    BY <1>0, <1>3 DEF Access!Decide, Access!At, ReadRow, Access!TypeOK
  <2>1. /\ rows' = [rows EXCEPT
              ![r].status = IF w.verdict # w.row.status THEN w.verdict ELSE @,
              ![r].approvedBy = IF w.by # w.row.approvedBy THEN w.by ELSE @,
              ![r].until = IF w.verdict = "APPROVED" THEN w.until ELSE @]
        /\ decisions' = [decisions EXCEPT ![r] = Append(@, made)]
        /\ work' = [work EXCEPT ![t] = [at |-> "log"]]
        /\ UNCHANGED <<now, feeds>>
    BY <1>3 DEF Access!Decide
  <2>2. made \in Access!Decisions /\ rows[r] \in Access!Rows
    BY <2>0, <1>0 DEF Access!Decisions, Access!Decidings, Access!TypeOK
  <2>3. /\ DOMAIN rows' = DOMAIN rows
        /\ \A q \in DOMAIN rows : q # r => rows'[q] = rows[q]
        /\ rows'[r] = [rows[r] EXCEPT
             !.status = IF w.verdict # w.row.status THEN w.verdict ELSE @,
             !.approvedBy = IF w.by # w.row.approvedBy THEN w.by ELSE @,
             !.until = IF w.verdict = "APPROVED" THEN w.until ELSE @]
        /\ rows' \in [DOMAIN rows -> Access!Rows]
    <3> DEFINE row == [rows[r] EXCEPT
             !.status = IF w.verdict # w.row.status THEN w.verdict ELSE @,
             !.approvedBy = IF w.by # w.row.approvedBy THEN w.by ELSE @,
             !.until = IF w.verdict = "APPROVED" THEN w.until ELSE @]
    <3>1. rows \in [DOMAIN rows -> Access!Rows]
      BY <1>0 DEF Access!TypeOK
    <3>2. row \in Access!Rows
      <4>1. w.verdict \in Access!Verdicts /\ w.by \in Approvers /\ w.until \in Nat
        BY <2>0 DEF Access!Decidings
      <4> HIDE DEF w, r
      <4> QED BY <2>2, <4>1 DEF Access!Rows
    <3>3. rows' = [rows EXCEPT ![r] = row]
      BY <2>1
    <3> HIDE DEF row, r, w
    <3>4. /\ DOMAIN rows' = DOMAIN rows /\ rows'[r] = row
          /\ \A q \in DOMAIN rows : q # r => rows'[q] = rows[q]
          /\ rows' \in [DOMAIN rows -> Access!Rows]
      BY <2>0, <3>1, <3>2, <3>3
    <3> QED BY <3>4 DEF row
  <2>4. /\ \A q \in Requests : q # r => decisions'[q] = decisions[q]
        /\ decisions'[r] = Append(decisions[r], made)
        /\ decisions' \in [Requests -> Seq(Access!Decisions)]
    BY <1>0, <2>0, <2>1, <2>2 DEF Access!TypeOK
  <2>13. /\ made.verdict = w.verdict /\ made.until = w.until /\ made.seen = w.seen
         /\ decisions[r] \in Seq(Access!Decisions) /\ rows[r] \in Access!Rows
         /\ w.seen \in Nat
    BY <1>0, <2>0 DEF Access!TypeOK, Access!Decidings
  <2>14. /\ decisions'[r] # <<>> /\ Len(decisions[r]) \in Nat
         /\ Len(decisions'[r]) = Len(decisions[r]) + 1 /\ decisions'[r][Len(decisions[r]) + 1] = made
         /\ DOMAIN decisions'[r] = 1..Len(decisions[r]) + 1
         /\ DOMAIN decisions[r] = 1..Len(decisions[r])
         /\ \A i \in 1..Len(decisions[r]) : decisions'[r][i] = decisions[r][i]
    <3> HIDE DEF w, r, made
    <3>1. PICK old : old = decisions[r]
      OBVIOUS
    <3>2. old \in Seq(Access!Decisions) /\ decisions'[r] = Append(old, made)
      BY <2>4, <2>13, <3>1
    <3>3. /\ Append(old, made) # <<>> /\ Len(old) \in Nat
          /\ Len(Append(old, made)) = Len(old) + 1 /\ Append(old, made)[Len(old) + 1] = made
          /\ DOMAIN Append(old, made) = 1..Len(old) + 1 /\ DOMAIN old = 1..Len(old)
          /\ \A i \in 1..Len(old) : Append(old, made)[i] = old[i]
      BY <2>2, <3>2, Appended
    <3> QED BY <3>1, <3>2, <3>3
  <2> HIDE DEF w, r, made
  <2>5. Access!TypeOK'
    BY <1>0, <2>1, <2>3, <2>4 DEF Access!TypeOK
  <2>6. RowOfLast'
    <3> SUFFICES ASSUME NEW q \in Requests
                 PROVE /\ q \notin DOMAIN rows => decisions'[q] = <<>>
                       /\ q \in DOMAIN rows =>
                            /\ decisions'[q] = <<>> => rows'[q].status = "PENDING"
                            /\ decisions'[q] # <<>> /\ Access!OneAtATime(q)' =>
                                 LET last == decisions'[q][Len(decisions'[q])]
                                 IN  /\ rows'[q].status = last.verdict
                                     /\ rows'[q].status = "APPROVED" =>
                                          rows'[q].until = last.until
      BY <2>3 DEF RowOfLast
    <3>1. CASE q # r
      <4>1. decisions'[q] = decisions[q] /\ (q \in DOMAIN rows => rows'[q] = rows[q])
        BY <3>1, <2>3, <2>4
      <4>2. Access!OneAtATime(q)' => Access!OneAtATime(q)
        BY <4>1 DEF Access!OneAtATime
      <4> QED BY <1>0, <4>1, <4>2 DEF RowOfLast
    <3>2. CASE q = r
      <4>1. Access!OneAtATime(q)' => \A i \in DOMAIN decisions'[r] : decisions'[r][i].seen = i - 1
        BY <3>2 DEF Access!OneAtATime
      <4>2. ASSUME Access!OneAtATime(q)'
            PROVE  w.row = rows[r]
        <5>1. Len(decisions[r]) + 1 \in DOMAIN decisions'[r]
          BY <2>14
        <5>2. made.seen = (Len(decisions[r]) + 1) - 1
          BY <4>1, <4>2, <5>1, <2>14
        <5> QED BY <5>2, <2>0, <2>13, <2>14
      <4>3. ASSUME Access!OneAtATime(q)'
            PROVE  rows'[r].status = w.verdict /\ (w.verdict = "APPROVED" => rows'[r].until = w.until)
        BY <4>2, <4>3, <2>3, <2>13 DEF Access!Rows
      <4>4. decisions'[q] # <<>> /\ decisions'[q][Len(decisions'[q])] = made
        BY <3>2, <2>14
      <4> QED BY <3>2, <4>3, <4>4, <2>0, <2>13
    <3> QED BY <3>1, <3>2
  <2>7. ReadRow'
    <3> SUFFICES ASSUME NEW u \in Threads, work'[u].at = "decide"
                 PROVE  /\ work'[u].request \in DOMAIN rows'
                        /\ work'[u].seen <= Len(decisions'[work'[u].request])
                        /\ work'[u].seen = Len(decisions'[work'[u].request]) =>
                             work'[u].row = rows'[work'[u].request]
      BY DEF ReadRow
    <3>1. u # t /\ work'[u] = work[u] /\ work[u] \in Access!Decidings
      BY <2>1, <1>0 DEF Access!TypeOK
    <3>2. /\ work[u].request \in DOMAIN rows /\ work[u].seen <= Len(decisions[work[u].request])
          /\ work[u].seen = Len(decisions[work[u].request]) => work[u].row = rows[work[u].request]
      BY <3>1, <1>0 DEF ReadRow
    <3>3. CASE work[u].request # r
      BY <3>1, <3>2, <3>3, <2>3, <2>4 DEF Access!Decidings
    <3>4. CASE work[u].request = r
      BY <2>14, <3>1, <3>2, <3>4, <2>3 DEF Access!Decidings
    <3> QED BY <3>3, <3>4
  <2>8. /\ DOMAIN rows \subseteq DOMAIN rows'
        /\ \A q \in DOMAIN rows : rows'[q].user = rows[q].user /\ rows'[q].camera = rows[q].camera
        /\ \A q \in Requests :
             /\ Len(decisions[q]) <= Len(decisions'[q])
             /\ \A i \in DOMAIN decisions[q] : decisions'[q][i] = decisions[q][i]
    <3>1. \A q \in DOMAIN rows : rows'[q].user = rows[q].user /\ rows'[q].camera = rows[q].camera
      <4>1. rows'[r].user = rows[r].user /\ rows'[r].camera = rows[r].camera
        BY <2>3, <2>13 DEF Access!Rows
      <4> QED BY <2>3, <4>1
    <3>2. ASSUME NEW q \in Requests
          PROVE  /\ Len(decisions[q]) <= Len(decisions'[q])
                 /\ \A i \in DOMAIN decisions[q] : decisions'[q][i] = decisions[q][i]
      <4>1. Len(decisions[q]) \in Nat
        BY <1>0 DEF Access!TypeOK
      <4>2. CASE q # r
        BY <4>1, <4>2, <2>4
      <4>3. CASE q = r
        BY <4>3, <2>14
      <4> QED BY <4>2, <4>3
    <3> QED BY <3>1, <3>2, <2>3
  <2>9. ASSUME NEW f \in Access!Openings, Honoured(f)
        PROVE  \A d : d = f => Honoured(d)'
    BY <1>0, <2>4, <2>8, <2>9, RestKept
  <2>10. FeedsHonoured'
    BY <1>0, <2>1, <2>9 DEF FeedsHonoured, Access!TypeOK
  <2> QED BY <2>5, <2>6, <2>7, <2>10 DEF PermitInv
<1>4. ASSUME NEW t \in Threads, Access!CheckAccess(t)
      PROVE  PermitInv'
  <2>0. PICK u \in Users, c \in Cameras :
          /\ Access!Standing(u, c) \/ Access!Permit(u, c)
          /\ work' = [work EXCEPT ![t] =
               [at |-> "open", user |-> u, camera |-> c, allowed |-> now,
                after |-> [r \in Requests |-> Len(decisions[r])]]]
    BY <1>4 DEF Access!CheckAccess
  <2>1. UNCHANGED <<now, rows, feeds, decisions>>
    BY <1>4 DEF Access!CheckAccess
  <2> DEFINE f == [at |-> "open", user |-> u, camera |-> c, allowed |-> now,
                   after |-> [r \in Requests |-> Len(decisions[r])]]
  <2>2. f \in Access!Openings
    BY <1>0 DEF Access!Openings, Access!TypeOK
  <2>3. Honoured(f)
    <3>1. CASE Access!Standing(u, c)
      BY <3>1 DEF Honoured
    <3>2. CASE Access!Permit(u, c)
      <4>1. PICK r \in DOMAIN rows : /\ rows[r].camera = c /\ rows[r].user = u
                                     /\ rows[r].status = "APPROVED" /\ rows[r].until > now
        BY <3>2 DEF Access!Permit
      <4>2. r \in Requests /\ decisions[r] \in Seq(Access!Decisions) /\ decisions[r] # <<>>
        BY <4>1, <1>0 DEF Access!TypeOK, RowOfLast
      <4>3. f.after[r] = Len(decisions[r]) /\ 0 < f.after[r]
        BY <4>2
      <4>4. RestsOn(f, r)
        BY <4>1, <4>2, <4>3, <1>0 DEF RestsOn, RowOfLast
      <4> QED BY <4>4 DEF Honoured
    <3> QED BY <2>0, <3>1, <3>2
  <2>4. Access!TypeOK'
    BY <1>0, <2>0, <2>1, <2>2 DEF Access!TypeOK
  <2>5. RowOfLast' /\ ReadRow'
    BY <1>0, <2>0, <2>1, <2>2 DEF RowOfLast, ReadRow, Access!TypeOK, Access!OneAtATime
  <2>6. \A d : Honoured(d) => \A e : e = d => Honoured(e)'
    BY <2>1 DEF Honoured, RestsOn, Access!OneAtATime, Access!Standing
  <2>7. FeedsHonoured'
    <3>1. work' = [work EXCEPT ![t] = f]
      BY <2>0
    <3> HIDE DEF f
    <3> QED BY <1>0, <2>1, <2>2, <2>3, <2>6, <3>1 DEF FeedsHonoured, Access!TypeOK
  <2> QED BY <2>4, <2>5, <2>7 DEF PermitInv
<1>8. ASSUME NEW t \in Threads, UNCHANGED <<now, rows, decisions>>,
             work' = work \/ work' = [work EXCEPT ![t] = Access!Idle],
             \/ feeds' \subseteq feeds
             \/ /\ work[t].at = "open" /\ feeds' = feeds \cup {work[t]}
                /\ Cardinality(feeds) < MaxFeeds
      PROVE  PermitInv'
  <2>1. IsFiniteSet(feeds) /\ Cardinality(feeds) <= MaxFeeds
    BY <1>0, SameFinite, SameSize DEF Access!TypeOK
  <2>2. IsFiniteSet(feeds') /\ Cardinality(feeds') <= MaxFeeds
    <3>1. CASE feeds' \subseteq feeds
      BY <2>1, <3>1, FS_Subset, FS_CardinalityType
    <3>2. CASE feeds' = feeds \cup {work[t]} /\ Cardinality(feeds) < MaxFeeds
      <4>1. Cardinality(feeds) \in Nat /\ MaxFeeds \in Nat
        BY <2>1, FS_CardinalityType
      <4>2. /\ IsFiniteSet(feeds \cup {work[t]})
            /\ Cardinality(feeds \cup {work[t]}) \in {Cardinality(feeds), Cardinality(feeds) + 1}
        BY <2>1, FS_AddElement
      <4> QED BY <3>2, <4>1, <4>2
    <3> QED BY <1>8, <3>1, <3>2
  <2>3. Access!IsFiniteSet(feeds') /\ Access!Cardinality(feeds') <= MaxFeeds
    BY <2>2, SameFinite, SameSize
  <2>4. Access!TypeOK'
    <3>1. feeds' \subseteq Access!Openings
      BY <1>0, <1>8
    <3>2. /\ now' \in 0..MaxTime /\ DOMAIN rows' \subseteq Requests
          /\ rows' \in [DOMAIN rows' -> Access!Rows]
          /\ decisions' \in [Requests -> Seq(Access!Decisions)]
      BY <1>0, <1>8 DEF Access!TypeOK
    <3>3. work' \in [Threads -> [at : {"idle", "log"}] \cup Access!Decidings \cup Access!Openings]
      BY <1>0, <1>8 DEF Access!TypeOK, Access!Idle
    <3> QED BY <2>3, <3>1, <3>2, <3>3 DEF Access!TypeOK
  <2>5. RowOfLast' /\ ReadRow'
    <3>1. \A u \in Threads : work'[u].at = "decide" => work'[u] = work[u]
      BY <1>0, <1>8 DEF Access!TypeOK, Access!Idle
    <3> QED BY <1>0, <1>8, <3>1 DEF RowOfLast, ReadRow, Access!OneAtATime
  <2>6. \A d : Honoured(d) => \A e : e = d => Honoured(e)'
    BY <1>8 DEF Honoured, RestsOn, Access!OneAtATime, Access!Standing
  <2>7. FeedsHonoured'
    BY <1>0, <1>8, <2>6 DEF FeedsHonoured, Access!Idle, Access!TypeOK
  <2> QED BY <2>4, <2>5, <2>7 DEF PermitInv
<1>5. ASSUME NEW t \in Threads, Access!OpenFeed(t)
      PROVE  PermitInv'
  <2>1. /\ work[t].at = "open" /\ Cardinality(feeds) < MaxFeeds
        /\ feeds' = feeds \cup {work[t]} /\ work' = [work EXCEPT ![t] = Access!Idle]
        /\ UNCHANGED <<now, rows, decisions>>
    BY <1>5, SameSize DEF Access!OpenFeed, Access!At
  <2> QED BY <2>1, <1>8
<1>6. ASSUME NEW t \in Threads, Access!Finish(t)
      PROVE  PermitInv'
  <2>1. /\ feeds' \subseteq feeds /\ UNCHANGED <<now, rows, decisions>>
        /\ work' = work \/ work' = [work EXCEPT ![t] = Access!Idle]
    BY <1>6 DEF Access!Finish
  <2> QED BY <2>1, <1>8
<1>7. CASE Access!Tick \/ UNCHANGED Access!vars
  <2>1. UNCHANGED <<rows, work, feeds, decisions>> /\ now' \in 0..MaxTime
    BY <1>0, <1>7 DEF Access!Tick, Access!vars, Access!TypeOK
  <2>2. \A d : Honoured(d) => \A e : e = d => Honoured(e)'
    BY <2>1 DEF Honoured, RestsOn, Access!OneAtATime, Access!Standing
  <2> QED
    BY <1>0, <2>1, <2>2 DEF PermitInv, Access!TypeOK, RowOfLast, ReadRow, FeedsHonoured,
       Access!OneAtATime
<1> QED BY <1>1, <1>2, <1>3, <1>4, <1>5, <1>6, <1>7 DEF Access!Next

\* It holds at first.
LEMMA PermitStart == Access!FederationAssumption /\ Access!Init => PermitInv
<1> SUFFICES ASSUME Access!FederationAssumption, Access!Init
             PROVE  PermitInv
  OBVIOUS
<1>1. Access!IsFiniteSet({}) /\ Access!Cardinality({}) = 0
  BY FS_EmptySet, SameFinite, SameSize
<1> QED
  BY <1>1 DEF Access!FederationAssumption, Access!Init, Access!Idle, PermitInv, Access!TypeOK,
     RowOfLast, ReadRow, FeedsHonoured

LEMMA PermitFollows == PermitInv => Access!PermitHonoured
BY DEF PermitInv, FeedsHonoured, Honoured, RestsOn, Access!PermitHonoured

-----------------------------------------------------------------------------
(* The registries.  WithinLimit is not inductive: it rests on what the     *)
(* list of stamps, or the list a thread has just rebuilt, still holds of   *)
(* the queries admitted, and on no other thread being between the          *)
(* rebuilding and the append; AnswerGuarded on what a thread past the      *)
(* guard knows of the mode, unless that changed.                           *)

LEMMA SameFiniteThere == ASSUME NEW S PROVE Registries!IsFiniteSet(S) <=> IsFiniteSet(S)
BY DEF IsFiniteSet, Registries!IsFiniteSet

LEMMA SameSizeThere == ASSUME NEW S PROVE Registries!Cardinality(S) = Cardinality(S)
BY DEF Cardinality, Registries!Cardinality

\* t is between the rebuilding of the list of s and the append to it.
Rebuilding(t, s) ==
  Registries!Asks(t, s) /\ work[t].at \in {"replace", "check", "append"}

\* What an adapter asked by one thread at a time keeps of its queries.
StampsKept(s) ==
  /\ \A q \in admitted[s] : now <= q.at + Window => q \in stamps[s]
  /\ \A t \in Threads : Rebuilding(t, s) =>
       /\ work[t].asked <= now
       /\ \A q \in admitted[s] :
            work[t].asked <= q.at + Window =>
              q \in IF work[t].at = "replace" THEN work[t].recent ELSE stamps[s]
       /\ work[t].at = "append" => Cardinality(stamps[s]) < scope.limit
       /\ \A u \in Threads : Rebuilding(u, s) => u = t

InWindow(s, from) == {q \in admitted[s] : from <= q.at /\ q.at <= from + Window}

LimitKept(s) == \A from \in Nat : Cardinality(InWindow(s, from)) <= scope.limit

\* A thread past the guard is past it rightly, unless something changed since;
\* and so is every answer.
PastGuard ==
  \A t \in Threads :
    work[t].todo # <<>> /\ work[t].at \in {"look", "fetch", "label"} /\ work[t].steady =>
      ready \/ mode[Head(work[t].todo)] # "AUTHORIZED_PRODUCTION"

LimitInv == \A s \in Registries!Services \ crossed : StampsKept(s) /\ LimitKept(s)

GovInv ==
  /\ Registries!GovAssumption /\ Registries!TypeOK
  /\ LimitInv /\ PastGuard /\ Registries!AnswerGuarded

\* A step that leaves the lists of s alone, and begins no rebuilding of them.
LEMMA StampsUntouched ==
  ASSUME Registries!TypeOK, Registries!GovAssumption, NEW s \in Registries!Services,
         StampsKept(s), LimitKept(s),
         UNCHANGED <<scope, admitted, stamps>>, now' \in Nat, now <= now',
         \A t \in Threads : Rebuilding(t, s)' => Rebuilding(t, s) /\ work'[t] = work[t]
  PROVE  StampsKept(s)' /\ LimitKept(s)'
<1>1. LimitKept(s)'
  BY DEF LimitKept, InWindow
<1>2. \A q \in admitted[s] : q.at \in Nat
  BY DEF Registries!TypeOK, Registries!Queries
<1>3. now \in Nat /\ Window \in Nat
  BY DEF Registries!TypeOK, Registries!GovAssumption
<1>4. \A q \in admitted'[s] : now' <= q.at + Window => q \in stamps'[s]
  BY <1>2, <1>3 DEF StampsKept
<1>5. \A t \in Threads : work[t].asked \in Nat
  BY DEF Registries!TypeOK
<1>6. StampsKept(s)'
  BY <1>2, <1>3, <1>4, <1>5 DEF StampsKept
<1> QED BY <1>1, <1>6

Entries == [todo : Seq(Registries!Services), at : Registries!Phases,
            recent : SUBSET Registries!Queries, asked : Nat, steady : BOOLEAN]

\* Every step keeps the types.
LEMMA GovTypes ==
  ASSUME Registries!GovAssumption, Registries!TypeOK, [Registries!Next]_(Registries!vars)
  PROVE  Registries!TypeOK'
<1> USE DEF Registries!GovAssumption
<1>0. /\ scope \in Registries!Deployments /\ scope.time \in Nat /\ scope.calls \in Nat
      /\ scope.switches \in Nat /\ scope.threads \subseteq Threads
      /\ now \in Nat /\ now <= scope.time
  BY DEF Registries!TypeOK, Registries!Deployments
<1>1. CASE UNCHANGED Registries!vars
  BY <1>1 DEF Registries!TypeOK, Registries!vars, Registries!Services, Entries
<1> SUFFICES ASSUME Registries!Next PROVE Registries!TypeOK'
  BY <1>1
<1>2. /\ UNCHANGED scope /\ Registries!Services' = Registries!Services
      /\ scope \in GovScopes
  BY DEF Registries!Next, Registries!Services, Registries!TypeOK
<1>3. work \in [Threads -> Entries] /\ \A t \in Threads : Registries!IsFiniteSet(work[t].recent)
  BY DEF Registries!TypeOK, Entries
<1>4. Registries!Idle \in Entries /\ Registries!IsFiniteSet(Registries!Idle.recent)
  BY FS_EmptySet, SameFiniteThere DEF Registries!Idle, Entries, Registries!Phases
<1>5. ASSUME NEW t \in Threads, NEW e \in Entries, Registries!IsFiniteSet(e.recent),
             work' = [work EXCEPT ![t] = e]
      PROVE  /\ work' \in [Threads -> Entries]
             /\ \A u \in Threads : Registries!IsFiniteSet(work'[u].recent)
  BY <1>3, <1>5
<1>6. ASSUME NEW t \in Threads, NEW at \in Registries!Phases,
             work' = [work EXCEPT ![t].at = at]
      PROVE  /\ work' \in [Threads -> Entries]
             /\ \A u \in Threads : Registries!IsFiniteSet(work'[u].recent)
  <2>1. [work[t] EXCEPT !.at = at] \in Entries
    BY <1>3 DEF Entries
  <2> QED BY <1>3, <1>6, <2>1 DEF Entries
<1>7. ASSUME NEW t \in Threads, Registries!Call(t)
      PROVE  Registries!TypeOK'
  <2>1. PICK todo \in {scope.bundle} \cup {<<s>> : s \in Registries!Services} :
          work' = [work EXCEPT ![t] = [Registries!Idle EXCEPT !.todo = todo]]
    BY <1>7 DEF Registries!Call
  <2>2. todo \in Seq(Registries!Services)
    <3>1. CASE todo = scope.bundle
      <4>1. todo \in [1..Len(todo) -> Registries!Services]
        BY <1>0, <3>1 DEF Registries!Services, Registries!Range, Registries!Deployments
      <4>2. Len(todo) \in Nat
        BY <1>0, <3>1 DEF Registries!Deployments
      <4> QED BY <4>1, <4>2, SeqDef
    <3>2. CASE \E s \in Registries!Services : todo = <<s>>
      BY <3>2
    <3> QED BY <2>1, <3>1, <3>2
  <2>3. [Registries!Idle EXCEPT !.todo = todo] \in Entries
    BY <1>4, <2>2 DEF Entries
  <2>4. Registries!IsFiniteSet([Registries!Idle EXCEPT !.todo = todo].recent)
    BY <1>4 DEF Registries!Idle
  <2>5. /\ work' \in [Threads -> Entries]
        /\ \A u \in Threads : Registries!IsFiniteSet(work'[u].recent)
    BY <1>5, <2>1, <2>3, <2>4
  <2>6. calls' \in 0..scope.calls
    BY <1>0, <1>7 DEF Registries!Call, Registries!TypeOK
  <2> QED BY <1>2, <1>7, <2>5, <2>6 DEF Registries!Call, Registries!TypeOK, Entries
<1>8. ASSUME NEW t \in Threads, NEW s \in Registries!Services, Registries!RateLimit(t, s)
      PROVE  Registries!TypeOK'
  <2> DEFINE query == [no |-> Registries!Cardinality(admitted[s]) + 1, at |-> work[t].asked]
  <2>0. UNCHANGED <<now, mode, ready, cache, given, calls, switches>>
    BY <1>8 DEF Registries!RateLimit
  <2>1. /\ query \in Registries!Queries
    <3>1. Registries!Cardinality(admitted[s]) \in Nat
      BY FS_CardinalityType, SameFiniteThere, SameSizeThere DEF Registries!TypeOK
    <3> QED BY <1>3, <3>1 DEF Registries!Queries, Entries
  <2>2. CASE /\ work' = [work EXCEPT ![t].at = "replace", ![t].recent = Registries!Recent(s),
                                     ![t].asked = now]
             /\ crossed' \in {crossed, crossed \cup {s}} /\ UNCHANGED <<stamps, admitted>>
    <3>1. /\ Registries!Recent(s) \subseteq stamps[s] /\ stamps[s] \subseteq Registries!Queries
          /\ IsFiniteSet(stamps[s])
      BY SameFiniteThere DEF Registries!Recent, Registries!TypeOK
    <3>2. Registries!IsFiniteSet(Registries!Recent(s))
      BY <3>1, FS_Subset, SameFiniteThere
    <3> DEFINE e == [work[t] EXCEPT !.at = "replace", !.recent = Registries!Recent(s), !.asked = now]
    <3>3. e \in Entries /\ e.recent = Registries!Recent(s)
      BY <1>0, <1>3, <3>1 DEF Entries, Registries!Phases
    <3>4. work' = [work EXCEPT ![t] = e]
      BY <1>3, <2>2
    <3>5. /\ work' \in [Threads -> Entries]
          /\ \A u \in Threads : Registries!IsFiniteSet(work'[u].recent)
      BY <1>5, <3>2, <3>3, <3>4
    <3> QED BY <1>2, <2>0, <2>2, <3>5 DEF Registries!TypeOK, Entries
  <2>3. CASE /\ work' = [work EXCEPT ![t].at = "check"]
             /\ stamps' = [stamps EXCEPT ![s] = work[t].recent] /\ UNCHANGED <<admitted, crossed>>
    <3>1. /\ work' \in [Threads -> Entries]
          /\ \A u \in Threads : Registries!IsFiniteSet(work'[u].recent)
      BY <1>6, <2>3 DEF Registries!Phases
    <3>2. /\ stamps' \in [Registries!Services -> SUBSET Registries!Queries]
          /\ \A z \in Registries!Services : Registries!IsFiniteSet(stamps'[z])
      BY <1>3, <2>3 DEF Registries!TypeOK, Entries
    <3> QED BY <1>2, <2>0, <2>3, <3>1, <3>2 DEF Registries!TypeOK, Entries
  <2>4. CASE /\ Registries!Raise(t) \/ Registries!Go(t, "append")
             /\ UNCHANGED <<stamps, admitted, crossed>>
    <3>1. /\ work' \in [Threads -> Entries]
          /\ \A u \in Threads : Registries!IsFiniteSet(work'[u].recent)
      BY <1>4, <1>5, <1>6, <2>4 DEF Registries!Phases, Registries!Raise, Registries!Go
    <3> QED BY <1>2, <2>0, <2>4, <3>1 DEF Registries!TypeOK, Entries
  <2>5. CASE /\ work' = [work EXCEPT ![t].at = "verify"]
             /\ stamps' = [stamps EXCEPT ![s] = @ \cup {query}]
             /\ admitted' = [admitted EXCEPT ![s] = @ \cup {query}]
             /\ UNCHANGED crossed
    <3>1. /\ work' \in [Threads -> Entries]
          /\ \A u \in Threads : Registries!IsFiniteSet(work'[u].recent)
      BY <1>6, <2>5 DEF Registries!Phases
    <3> HIDE DEF query
    <3>2. \A S : Registries!IsFiniteSet(S) => Registries!IsFiniteSet(S \cup {query})
      BY FS_AddElement, SameFiniteThere
    <3>3. /\ stamps' \in [Registries!Services -> SUBSET Registries!Queries]
          /\ admitted' \in [Registries!Services -> SUBSET Registries!Queries]
      BY <2>1, <2>5 DEF Registries!TypeOK
    <3>4. \A z \in Registries!Services :
            Registries!IsFiniteSet(stamps'[z]) /\ Registries!IsFiniteSet(admitted'[z])
      BY <2>5, <3>2 DEF Registries!TypeOK
    <3> QED BY <1>2, <2>0, <2>5, <3>1, <3>3, <3>4 DEF Registries!TypeOK, Entries
  <2> QED BY <1>8, <2>2, <2>3, <2>4, <2>5 DEF Registries!RateLimit, Registries!Go
<1>9. ASSUME NEW t \in Threads, NEW s \in Registries!Services,
             Registries!Verify(t, s) \/ Registries!Fetch(t, s)
      PROVE  Registries!TypeOK'
  <2>1. /\ work' \in [Threads -> Entries]
        /\ \A u \in Threads : Registries!IsFiniteSet(work'[u].recent)
    BY <1>4, <1>5, <1>6, <1>9 DEF Registries!Phases, Registries!Raise, Registries!Go,
       Registries!Verify, Registries!Fetch
  <2> QED BY <1>2, <1>9, <2>1 DEF Registries!Verify, Registries!Fetch, Registries!TypeOK, Entries
<1>10. ASSUME NEW t \in Threads, NEW s \in Registries!Services, NEW answer,
              answer.retrieved \in Nat, Registries!Answer(t, s, answer), work[t].todo # <<>>
       PROVE  /\ work' \in [Threads -> Entries]
              /\ \A u \in Threads : Registries!IsFiniteSet(work'[u].recent)
              /\ given' \in [Threads -> Registries!Given]
  <2> DEFINE e == [Registries!Idle EXCEPT !.todo = Tail(work[t].todo), !.steady = work[t].steady]
  <2>1. Tail(work[t].todo) \in Seq(Registries!Services) /\ work[t].steady \in BOOLEAN
    BY <1>3, <1>10 DEF Entries
  <2>2. e \in Entries
    BY <1>4, <2>1 DEF Entries
  <2>3. e.recent = Registries!Idle.recent
    BY DEF Registries!Idle
  <2>4. work' = [work EXCEPT ![t] = e]
    BY <1>10 DEF Registries!Answer
  <2>5. given' \in [Threads -> Registries!Given]
    <3>1. (ready \/ mode[s] # "AUTHORIZED_PRODUCTION") \in BOOLEAN
      OBVIOUS
    <3> QED BY <1>0, <1>10, <2>1, <3>1 DEF Registries!Answer, Registries!Given, Registries!TypeOK
  <2> HIDE DEF e
  <2> QED BY <1>4, <1>5, <2>2, <2>3, <2>4, <2>5
<1>11. ASSUME NEW t \in Threads, NEW s \in Registries!Services, Registries!Look(t, s)
       PROVE  Registries!TypeOK'
  <2>1. CASE \E k \in Registries!Stores :
               Registries!Live(s, k) /\ Registries!Answer(t, s, cache[<<s, k>>])
    <3>1. PICK k \in Registries!Stores :
            Registries!Live(s, k) /\ Registries!Answer(t, s, cache[<<s, k>>])
      BY <2>1
    <3>2. cache[<<s, k>>].retrieved \in Nat
      BY <3>1 DEF Registries!Live, Registries!TypeOK, Registries!Answers, Registries!Stores
    <3> QED BY <1>2, <1>10, <1>11, <3>1, <3>2 DEF Registries!Look, Registries!At, Registries!Asks,
       Registries!TypeOK, Entries
  <2>2. CASE Registries!Go(t, "fetch") /\ UNCHANGED given
    BY <1>2, <1>6, <1>11, <2>2 DEF Registries!Look, Registries!Go, Registries!TypeOK, Entries,
       Registries!Phases
  <2> QED BY <1>11, <2>1, <2>2 DEF Registries!Look
<1>12. ASSUME NEW t \in Threads, NEW s \in Registries!Services, Registries!Label(t, s)
       PROVE  Registries!TypeOK'
  <2>1. /\ Registries!Answer(t, s, [status |-> "found", retrieved |-> now])
        /\ work[t].todo # <<>>
    BY <1>12 DEF Registries!Label, Registries!At, Registries!Asks
  <2>2. /\ work' \in [Threads -> Entries] /\ given' \in [Threads -> Registries!Given]
        /\ \A u \in Threads : Registries!IsFiniteSet(work'[u].recent)
    BY <1>0, <1>10, <2>1
  <2>3. cache' \in [Registries!Services \X Registries!Stores -> Registries!Answers]
    BY <1>0, <1>12 DEF Registries!Label, Registries!TypeOK, Registries!Answers
  <2> QED BY <1>2, <1>12, <2>2, <2>3 DEF Registries!Label, Registries!TypeOK, Entries
<1>13. ASSUME Registries!Switch
       PROVE  Registries!TypeOK'
  <2>1. work' = [t \in Threads |-> [work[t] EXCEPT !.steady = FALSE]]
    BY <1>13 DEF Registries!Switch
  <2>2. /\ work' \in [Threads -> Entries]
        /\ \A u \in Threads : Registries!IsFiniteSet(work'[u].recent)
    BY <1>3, <2>1 DEF Entries
  <2>3. /\ mode' \in [Registries!Services -> Registries!Modes] /\ ready' \in BOOLEAN
        /\ switches' \in 0..scope.switches
    <3>1. switches' \in 0..scope.switches
      BY <1>0, <1>13 DEF Registries!Switch, Registries!TypeOK
    <3>2. CASE \E s \in Registries!Services, m \in Registries!Modes :
                 mode' = [mode EXCEPT ![s] = m] /\ UNCHANGED ready
      BY <3>1, <3>2 DEF Registries!TypeOK
    <3>3. CASE ready' = ~ready /\ UNCHANGED mode
      <4>1. ready' \in BOOLEAN
        BY <3>3
      <4> QED BY <3>1, <3>3, <4>1 DEF Registries!TypeOK
    <3> QED BY <1>13, <3>2, <3>3 DEF Registries!Switch
  <2> QED BY <1>2, <1>13, <2>2, <2>3 DEF Registries!Switch, Registries!TypeOK, Entries
<1>14. ASSUME Registries!Tick
       PROVE  Registries!TypeOK'
  <2>1. now' \in 0..scope.time
    BY <1>0, <1>14 DEF Registries!Tick
  <2> QED BY <1>2, <1>14, <2>1 DEF Registries!Tick, Registries!TypeOK
<1>15. \A t \in scope.threads : t \in Threads
  BY <1>0
<1> QED BY <1>7, <1>8, <1>9, <1>11, <1>12, <1>13, <1>14, <1>15 DEF Registries!Next, Registries!Query

\* The rate limit of an adapter that one thread asks at a time admits a query only
\* when the window that ends with it, and so every window it falls in, has room.
LEMMA RateLimitKeeps ==
  ASSUME GovInv, UNCHANGED scope,
         NEW t \in Threads, NEW s \in Registries!Services, Registries!RateLimit(t, s)
  PROVE  LimitInv'
<1>1. /\ Registries!GovAssumption /\ Registries!TypeOK /\ LimitInv
      /\ now \in Nat /\ Window \in Nat /\ UNCHANGED now /\ work \in [Threads -> Entries]
      /\ stamps \in [Registries!Services -> SUBSET Registries!Queries]
      /\ admitted \in [Registries!Services -> SUBSET Registries!Queries]
      /\ Registries!Services' = Registries!Services
  BY DEF GovInv, Registries!TypeOK, Registries!GovAssumption, Entries, Registries!RateLimit,
     Registries!Services
<1>2. /\ scope.limit \in Nat
      /\ \A z \in Registries!Services :
           /\ \A q \in admitted[z] : q.at \in Nat
           /\ IsFiniteSet(admitted[z])
  BY <1>1, SameFiniteThere DEF Registries!GovAssumption, Registries!TypeOK, Registries!Deployments,
     Registries!Queries
<1>3. crossed \subseteq crossed' /\ Registries!Asks(t, s)
  BY DEF Registries!RateLimit, Registries!At
<1>4. \A u \in Threads \ {t} : work'[u] = work[u]
  BY <1>1 DEF Registries!RateLimit, Registries!Raise, Registries!Go
\* The other adapters.
<1>5. ASSUME NEW z \in Registries!Services \ crossed', z # s
      PROVE  StampsKept(z)' /\ LimitKept(z)'
  <2>1. admitted'[z] = admitted[z] /\ stamps'[z] = stamps[z]
    BY <1>1, <1>5 DEF Registries!RateLimit
  <2>2. \A u \in Threads : Rebuilding(u, z)' => Rebuilding(u, z) /\ work'[u] = work[u]
    <3>1. ~Rebuilding(t, z)'
      BY <1>1, <1>3, <1>5 DEF Rebuilding, Registries!Asks, Registries!RateLimit, Registries!Raise,
         Registries!Go, Registries!Idle, Entries
    <3> QED BY <1>4, <3>1 DEF Rebuilding, Registries!Asks
  <2>3. StampsKept(z) /\ LimitKept(z)
    BY <1>1, <1>3, <1>5 DEF LimitInv
  <2> QED BY <1>1, <2>1, <2>2, <2>3 DEF StampsKept, LimitKept, InWindow
\* The adapter whose list is rebuilt.
<1>6. ASSUME s \notin crossed'
      PROVE  StampsKept(s)' /\ LimitKept(s)'
  <2>0. StampsKept(s) /\ LimitKept(s)
    BY <1>1, <1>3, <1>6 DEF LimitInv
  <2>1. CASE Registries!At(t, s, "rebuild")
    <3>1. /\ work' = [work EXCEPT ![t].at = "replace", ![t].recent = Registries!Recent(s),
                                  ![t].asked = now]
          /\ UNCHANGED <<stamps, admitted>>
          /\ crossed' = IF \E u \in Threads \ {t}, at \in {"replace", "check", "append"} :
                             Registries!At(u, s, at)
                        THEN crossed \cup {s} ELSE crossed
      BY <2>1 DEF Registries!RateLimit, Registries!At
    <3>2. \A u \in Threads \ {t} : ~Rebuilding(u, s)
      BY <1>6, <3>1 DEF Rebuilding, Registries!At
    <3>3. work'[t].at = "replace" /\ work'[t].recent = Registries!Recent(s) /\ work'[t].asked = now
      BY <1>1, <3>1 DEF Entries
    <3>4. \A u \in Threads \ {t} : ~Rebuilding(u, s)'
      BY <1>4, <3>2 DEF Rebuilding, Registries!Asks
    <3>5. \A q \in admitted[s] : now <= q.at + Window => q \in Registries!Recent(s)
      BY <2>0 DEF StampsKept, Registries!Recent
    <3>6. StampsKept(s)'
      BY <1>1, <2>0, <3>1, <3>3, <3>4, <3>5 DEF StampsKept
    <3> QED BY <2>0, <3>1, <3>6 DEF LimitKept, InWindow
  <2>2. CASE Registries!At(t, s, "replace")
    <3>1. /\ work' = [work EXCEPT ![t].at = "check"]
          /\ stamps' = [stamps EXCEPT ![s] = work[t].recent] /\ UNCHANGED <<admitted, crossed>>
      BY <2>2 DEF Registries!RateLimit, Registries!At, Registries!Go
    <3>2. /\ work'[t].at = "check" /\ work'[t].asked = work[t].asked /\ work[t].asked \in Nat
          /\ stamps'[s] = work[t].recent /\ admitted'[s] = admitted[s]
      BY <1>1, <3>1 DEF Entries
    <3>3. Rebuilding(t, s) /\ work[t].at = "replace"
      BY <2>2 DEF Rebuilding, Registries!At
    <3>4. /\ work[t].asked <= now
          /\ \A q \in admitted[s] : work[t].asked <= q.at + Window => q \in work[t].recent
          /\ \A u \in Threads \ {t} : ~Rebuilding(u, s)
      BY <2>0, <3>3 DEF StampsKept
    <3>5. \A u \in Threads \ {t} : ~Rebuilding(u, s)'
      BY <1>4, <3>4 DEF Rebuilding, Registries!Asks
    <3>6. \A q \in admitted[s] : now <= q.at + Window => q \in work[t].recent
      BY <1>1, <1>2, <3>2, <3>4
    <3>7. StampsKept(s)'
      BY <1>1, <3>2, <3>4, <3>5, <3>6 DEF StampsKept
    <3> QED BY <2>0, <3>2, <3>7 DEF LimitKept, InWindow
  <2>3. CASE Registries!At(t, s, "check")
    <3>1. UNCHANGED <<stamps, admitted, crossed>>
      BY <2>3 DEF Registries!RateLimit, Registries!At
    <3>2. Rebuilding(t, s) /\ work[t].at = "check"
      BY <2>3 DEF Rebuilding, Registries!At
    <3>3. /\ work[t].asked <= now
          /\ \A q \in admitted[s] : work[t].asked <= q.at + Window => q \in stamps[s]
          /\ \A u \in Threads \ {t} : ~Rebuilding(u, s)
      BY <2>0, <3>2 DEF StampsKept
    <3>4. \A u \in Threads \ {t} : ~Rebuilding(u, s)'
      BY <1>4, <3>3 DEF Rebuilding, Registries!Asks
    <3>5. CASE Registries!Cardinality(stamps[s]) >= scope.limit
      <4>1. work' = [work EXCEPT ![t] = Registries!Idle]
        BY <2>3, <3>5 DEF Registries!RateLimit, Registries!At, Registries!Raise
      <4>2. ~Rebuilding(t, s)'
        BY <1>1, <4>1 DEF Rebuilding, Registries!Asks, Registries!Idle
      <4> QED BY <1>1, <2>0, <3>1, <3>4, <4>2 DEF StampsKept, LimitKept, InWindow
    <3>6. CASE ~(Registries!Cardinality(stamps[s]) >= scope.limit)
      <4>1. work' = [work EXCEPT ![t].at = "append"]
        BY <2>3, <3>6 DEF Registries!RateLimit, Registries!At, Registries!Go
      <4>2. work'[t].at = "append" /\ work'[t].asked = work[t].asked
        BY <1>1, <4>1 DEF Entries
      <4>3. Cardinality(stamps[s]) < scope.limit
        <5>1. Cardinality(stamps[s]) \in Nat
          BY <1>1, FS_CardinalityType, SameFiniteThere DEF Registries!TypeOK
        <5> QED BY <1>2, <3>6, <5>1, SameSizeThere
      <4>4. StampsKept(s)'
        BY <1>1, <2>0, <3>1, <3>3, <3>4, <4>2, <4>3 DEF StampsKept
      <4> QED BY <2>0, <3>1, <4>4 DEF LimitKept, InWindow
    <3> QED BY <3>5, <3>6
  <2>4. CASE Registries!At(t, s, "append")
    <3>1. PICK query : /\ query.at = work[t].asked
                       /\ work' = [work EXCEPT ![t].at = "verify"]
                       /\ stamps' = [stamps EXCEPT ![s] = @ \cup {query}]
                       /\ admitted' = [admitted EXCEPT ![s] = @ \cup {query}]
      BY <2>4 DEF Registries!RateLimit, Registries!At, Registries!Go
    <3>2. Rebuilding(t, s) /\ work[t].at = "append" /\ work[t].asked \in Nat
      BY <1>1, <2>4 DEF Rebuilding, Registries!At, Entries
    <3>3. /\ work[t].asked <= now /\ Cardinality(stamps[s]) < scope.limit
          /\ \A q \in admitted[s] : work[t].asked <= q.at + Window => q \in stamps[s]
          /\ \A u \in Threads \ {t} : ~Rebuilding(u, s)
      BY <2>0, <3>2 DEF StampsKept
    <3>4. /\ stamps'[s] = stamps[s] \cup {query} /\ admitted'[s] = admitted[s] \cup {query}
          /\ work'[t].at = "verify"
      BY <1>1, <3>1 DEF Entries
    <3>5. \A u \in Threads : ~Rebuilding(u, s)'
      BY <1>4, <3>3, <3>4 DEF Rebuilding, Registries!Asks
    <3>6. StampsKept(s)'
      BY <1>1, <2>0, <3>4, <3>5 DEF StampsKept
    <3>7. ASSUME NEW from \in Nat
          PROVE  Cardinality(InWindow(s, from)') <= scope.limit
      <4>0. IsFiniteSet(stamps[s]) /\ Cardinality(stamps[s]) \in Nat
        BY <1>1, FS_CardinalityType, SameFiniteThere DEF Registries!TypeOK
      <4>1. CASE ~(from <= query.at /\ query.at <= from + Window)
        <5>1. InWindow(s, from)' = InWindow(s, from)
          BY <3>4, <4>1 DEF InWindow
        <5> QED BY <2>0, <5>1 DEF LimitKept
      <4>2. CASE from <= query.at /\ query.at <= from + Window
        <5>1. \A q \in InWindow(s, from) : q \in stamps[s]
          BY <1>1, <1>2, <3>1, <3>2, <3>3, <4>2 DEF InWindow
        <5>2. InWindow(s, from)' = InWindow(s, from) \cup {query}
          BY <3>4, <4>2 DEF InWindow
        <5>3. InWindow(s, from)' \subseteq stamps[s] \cup {query}
          BY <5>1, <5>2
        <5>4. /\ IsFiniteSet(stamps[s] \cup {query})
              /\ Cardinality(stamps[s] \cup {query}) \in {Cardinality(stamps[s]), Cardinality(stamps[s]) + 1}
          BY <4>0, FS_AddElement
        <5>5. IsFiniteSet(InWindow(s, from)')
              /\ Cardinality(InWindow(s, from)') <= Cardinality(stamps[s] \cup {query})
          BY <5>3, <5>4, FS_Subset
        <5>6. Cardinality(InWindow(s, from)') \in Nat
          BY <5>5, FS_CardinalityType
        <5> QED BY <1>2, <3>3, <4>0, <5>4, <5>5, <5>6
      <4> QED BY <4>1, <4>2
    <3> QED BY <3>6, <3>7 DEF LimitKept
  <2> QED BY <2>1, <2>2, <2>3, <2>4 DEF Registries!RateLimit
<1> QED BY <1>1, <1>3, <1>5, <1>6 DEF LimitInv

-----------------------------------------------------------------------------
\* Every step keeps the guard and the limit.
LEMMA GovStep == GovInv /\ [Registries!Next]_(Registries!vars) => GovInv'
<1> SUFFICES ASSUME GovInv, [Registries!Next]_(Registries!vars)
             PROVE  GovInv'
  OBVIOUS
<1>0. /\ Registries!GovAssumption /\ Registries!TypeOK /\ Registries!TypeOK'
      /\ LimitInv /\ PastGuard /\ Registries!AnswerGuarded
  BY GovTypes DEF GovInv
<1>1. /\ now \in Nat /\ Window \in Nat /\ Ttl \in Nat
      /\ work \in [Threads -> Entries] /\ given \in [Threads -> Registries!Given]
      /\ \A s \in Registries!Services :
           /\ \A q \in admitted[s] : q.at \in Nat
           /\ IsFiniteSet(stamps[s]) /\ IsFiniteSet(admitted[s])
           /\ Cardinality(stamps[s]) \in Nat /\ Cardinality(admitted[s]) \in Nat
      /\ scope.limit \in Nat \ {0} /\ scope.threads \subseteq Threads
  <2>1. /\ now \in Nat /\ Window \in Nat /\ Ttl \in Nat
        /\ work \in [Threads -> Entries] /\ given \in [Threads -> Registries!Given]
        /\ scope.limit \in Nat \ {0} /\ scope.threads \subseteq Threads
    <3>1. scope \in Registries!Deployments /\ Window \in Nat /\ Ttl \in Nat
      BY <1>0 DEF Registries!TypeOK, Registries!GovAssumption
    <3>2. scope.limit \in Nat \ {0} /\ scope.threads \subseteq Threads /\ scope.time \in Nat
      BY <3>1 DEF Registries!Deployments
    <3>3. now \in 0 .. scope.time
      BY <1>0 DEF Registries!TypeOK
    <3>4. work \in [Threads -> Entries] /\ given \in [Threads -> Registries!Given]
      BY <1>0 DEF Registries!TypeOK, Entries
    <3> QED BY <3>1, <3>2, <3>3, <3>4
  <2>2. ASSUME NEW s \in Registries!Services
        PROVE  /\ \A q \in admitted[s] : q.at \in Nat
               /\ IsFiniteSet(stamps[s]) /\ IsFiniteSet(admitted[s])
    BY <1>0, SameFiniteThere DEF Registries!TypeOK, Registries!Queries
  <2> QED BY <2>1, <2>2, FS_CardinalityType
<1> SUFFICES PastGuard' /\ Registries!AnswerGuarded' /\ LimitInv'
  BY <1>0 DEF GovInv, Registries!GovAssumption
\* A step of threads that neither rebuild a list nor begin to.
<1>2. ASSUME UNCHANGED <<scope, admitted, stamps, crossed>>, now' \in Nat, now <= now',
             \A t \in Threads, s \in Registries!Services :
               Rebuilding(t, s)' => Rebuilding(t, s) /\ work'[t] = work[t]
      PROVE  LimitInv'
  <2>1. Registries!Services' = Registries!Services
    BY <1>2 DEF Registries!Services
  <2> QED BY <1>0, <1>2, <2>1, StampsUntouched DEF LimitInv
<1>3. ASSUME UNCHANGED <<scope, now, admitted, stamps, crossed>>, NEW t \in Threads,
             \A u \in Threads \ {t} : work'[u] = work[u],
             work'[t].at \notin {"replace", "check", "append"}
      PROVE  LimitInv'
  BY <1>1, <1>2, <1>3 DEF Rebuilding, Registries!Asks
<1>4. ASSUME UNCHANGED <<ready, mode>>, NEW t \in Threads,
             \A u \in Threads \ {t} : work'[u] = work[u],
             \/ work'[t].at \notin {"look", "fetch", "label"}
             \/ /\ work[t].at \in {"look", "fetch", "label"}
                /\ work'[t].todo = work[t].todo /\ work'[t].steady = work[t].steady
             \/ /\ work[t].todo # <<>> /\ work'[t].todo = work[t].todo
                /\ ready \/ mode[Head(work[t].todo)] # "AUTHORIZED_PRODUCTION"
      PROVE  PastGuard'
  BY <1>0, <1>4 DEF PastGuard
<1>5. ASSUME UNCHANGED given
      PROVE  Registries!AnswerGuarded'
  BY <1>0, <1>5 DEF Registries!AnswerGuarded
<1>6. ASSUME NEW t \in Threads, Registries!Call(t), UNCHANGED scope
      PROVE  PastGuard' /\ Registries!AnswerGuarded' /\ LimitInv'
  <2>1. PICK todo \in {scope.bundle} \cup {<<s>> : s \in Registries!Services} :
          work' = [work EXCEPT ![t] = [Registries!Idle EXCEPT !.todo = todo]]
    BY <1>6 DEF Registries!Call
  <2>2. work'[t].at = "rebuild" /\ work'[t].todo = todo
    BY <1>1, <2>1 DEF Registries!Idle
  <2>3. \A u \in Threads \ {t} : work'[u] = work[u]
    BY <1>1, <2>1
  <2>4. UNCHANGED <<now, mode, ready, stamps, cache, given, admitted, crossed, switches>>
    BY <1>6 DEF Registries!Call
  <2>5. \A u \in Threads, s \in Registries!Services :
          Rebuilding(u, s)' => Rebuilding(u, s) /\ work'[u] = work[u]
    BY <2>2, <2>3 DEF Rebuilding, Registries!Asks
  <2> QED BY <1>1, <1>2, <1>4, <1>5, <1>6, <2>2, <2>3, <2>4, <2>5
<1>7. ASSUME NEW t \in Threads, NEW s \in Registries!Services, Registries!RateLimit(t, s),
             UNCHANGED scope
      PROVE  PastGuard' /\ Registries!AnswerGuarded' /\ LimitInv'
  <2>1. UNCHANGED <<now, mode, ready, cache, given, calls, switches>>
    BY <1>7 DEF Registries!RateLimit
  <2>2. /\ \A u \in Threads \ {t} : work'[u] = work[u]
        /\ work'[t].at \notin {"look", "fetch", "label"}
    BY <1>1, <1>7 DEF Registries!RateLimit, Registries!Raise, Registries!Go, Registries!Idle, Entries
  <2>3. PastGuard' /\ Registries!AnswerGuarded'
    BY <1>4, <1>5, <2>1, <2>2
  <2>4. LimitInv'
    BY <1>7, RateLimitKeeps DEF GovInv
  <2> QED BY <2>3, <2>4
<1>8. ASSUME NEW t \in Threads, NEW s \in Registries!Services,
             Registries!Verify(t, s) \/ Registries!Fetch(t, s), UNCHANGED scope
      PROVE  PastGuard' /\ Registries!AnswerGuarded' /\ LimitInv'
  <2>1. UNCHANGED <<now, mode, ready, stamps, cache, given, admitted, crossed, calls, switches>>
    BY <1>8 DEF Registries!Verify, Registries!Fetch
  <2>2. LimitInv'
    <3>1. /\ \A u \in Threads \ {t} : work'[u] = work[u]
          /\ work'[t].at \notin {"replace", "check", "append"}
      BY <1>1, <1>8 DEF Registries!Verify, Registries!Fetch, Registries!Raise, Registries!Go,
         Registries!Idle, Entries
    <3> QED BY <1>3, <1>8, <2>1, <3>1
  <2>3. CASE Registries!Fetch(t, s)
    BY <1>1, <1>4, <1>5, <2>1, <2>2, <2>3 DEF Registries!Fetch, Registries!Go, Registries!At,
       Registries!Asks, Entries
  <2>4. CASE Registries!Verify(t, s)
    <3>1. CASE mode[s] = "AUTHORIZED_PRODUCTION" /\ ~ready
      <4>1. work' = [work EXCEPT ![t] = Registries!Idle]
        BY <2>4, <3>1 DEF Registries!Verify, Registries!Raise
      <4> QED BY <1>1, <1>4, <1>5, <2>1, <2>2, <4>1 DEF Registries!Idle
    <3>2. CASE ~(mode[s] = "AUTHORIZED_PRODUCTION" /\ ~ready)
      <4>1. /\ work' = [work EXCEPT ![t].at = "look"]
            /\ work[t].todo # <<>> /\ Head(work[t].todo) = s
        BY <2>4, <3>2 DEF Registries!Verify, Registries!Go, Registries!At, Registries!Asks
      <4> QED BY <1>1, <1>4, <1>5, <2>1, <2>2, <3>2, <4>1 DEF Entries
    <3> QED BY <3>1, <3>2
  <2> QED BY <1>8, <2>3, <2>4
<1>9. ASSUME NEW t \in Threads, NEW s \in Registries!Services, NEW answer,
             Registries!Answer(t, s, answer), answer.retrieved \in Nat,
             now <= answer.retrieved + Ttl, Registries!Asks(t, s),
             work[t].at \in {"look", "fetch", "label"},
             UNCHANGED <<scope, now, mode, ready, stamps, admitted, crossed, calls, switches>>
      PROVE  PastGuard' /\ Registries!AnswerGuarded' /\ LimitInv'
  <2> DEFINE g == [status |-> "found", retrieved |-> answer.retrieved, at |-> now,
                   guarded |-> ready \/ mode[s] # "AUTHORIZED_PRODUCTION",
                   steady |-> work[t].steady]
  <2>1. /\ given' = [given EXCEPT ![t] = g]
        /\ work' = [work EXCEPT ![t] =
             [Registries!Idle EXCEPT !.todo = Tail(work[t].todo), !.steady = work[t].steady]]
    BY <1>9 DEF Registries!Answer
  <2>2. work[t].steady \in BOOLEAN
    BY <1>1 DEF Entries
  <2>3. g.steady => g.guarded
    BY <1>0, <1>9 DEF PastGuard, Registries!Asks
  <2>4. g.at <= g.retrieved + Ttl
    BY <1>9
  <2>6. work'[t].at = "rebuild" /\ \A u \in Threads \ {t} : work'[u] = work[u]
    BY <1>1, <2>1 DEF Registries!Idle
  <2>5. LimitInv'
    BY <1>3, <1>9, <2>6
  <2>7. PastGuard'
    BY <1>4, <1>9, <2>6
  <2> HIDE DEF g
  <2>8. Registries!AnswerGuarded'
    BY <1>0, <1>1, <2>1, <2>3, <2>4 DEF Registries!AnswerGuarded
  <2> QED BY <2>5, <2>7, <2>8
<1>10. ASSUME NEW t \in Threads, NEW s \in Registries!Services, Registries!Look(t, s),
              UNCHANGED scope
       PROVE  PastGuard' /\ Registries!AnswerGuarded' /\ LimitInv'
  <2>0. /\ Registries!Asks(t, s) /\ work[t].at = "look"
        /\ UNCHANGED <<now, mode, ready, stamps, cache, admitted, crossed, calls, switches>>
    BY <1>10 DEF Registries!Look, Registries!At
  <2>1. ASSUME NEW k \in Registries!Stores, Registries!Live(s, k),
               Registries!Answer(t, s, cache[<<s, k>>])
        PROVE  PastGuard' /\ Registries!AnswerGuarded' /\ LimitInv'
    <3>1. /\ cache[<<s, k>>].retrieved \in Nat /\ now <= cache[<<s, k>>].retrieved + Ttl
      BY <1>0, <2>1 DEF Registries!Live, Registries!TypeOK, Registries!Answers
    <3> QED BY <1>9, <1>10, <2>0, <2>1, <3>1
  <2>2. CASE Registries!Go(t, "fetch") /\ UNCHANGED given
    <3>1. work' = [work EXCEPT ![t].at = "fetch"]
      BY <2>2 DEF Registries!Go
    <3>2. /\ work'[t].todo = work[t].todo /\ work'[t].steady = work[t].steady
          /\ work'[t].at = "fetch"
          /\ \A u \in Threads \ {t} : work'[u] = work[u]
      BY <1>1, <3>1 DEF Entries
    <3> QED BY <1>3, <1>4, <1>5, <1>10, <2>0, <2>2, <3>1, <3>2
  <2> QED BY <1>10, <2>1, <2>2 DEF Registries!Look
<1>11. ASSUME NEW t \in Threads, NEW s \in Registries!Services, Registries!Label(t, s),
              UNCHANGED scope
       PROVE  PastGuard' /\ Registries!AnswerGuarded' /\ LimitInv'
  <2>1. /\ Registries!Asks(t, s) /\ work[t].at = "label"
        /\ Registries!Answer(t, s, [status |-> "found", retrieved |-> now])
        /\ UNCHANGED <<now, mode, ready, stamps, admitted, crossed, calls, switches>>
    BY <1>11 DEF Registries!Label, Registries!At
  <2> QED BY <1>1, <1>9, <1>11, <2>1
<1>12. ASSUME Registries!Switch, UNCHANGED scope
       PROVE  PastGuard' /\ Registries!AnswerGuarded' /\ LimitInv'
  <2>1. /\ UNCHANGED <<now, stamps, cache, given, admitted, crossed, calls>>
        /\ work' = [t \in Threads |-> [work[t] EXCEPT !.steady = FALSE]]
    BY <1>12 DEF Registries!Switch
  <2>2. \A t \in Threads : /\ work'[t].steady = FALSE /\ work'[t].todo = work[t].todo
                           /\ work'[t].at = work[t].at /\ work'[t].asked = work[t].asked
                           /\ work'[t].recent = work[t].recent
    BY <1>1, <2>1 DEF Entries
  <2>3. PastGuard' /\ Registries!AnswerGuarded'
    BY <1>5, <2>1, <2>2 DEF PastGuard
  <2>4. LimitInv'
    <3>1. Registries!Services' = Registries!Services
      BY <1>12 DEF Registries!Services
    <3>2. \A t \in Threads, s \in Registries!Services : Rebuilding(t, s)' <=> Rebuilding(t, s)
      BY <2>2 DEF Rebuilding, Registries!Asks
    <3>3. ASSUME NEW s \in Registries!Services \ crossed
          PROVE  StampsKept(s)' /\ LimitKept(s)'
      <4>1. StampsKept(s) /\ LimitKept(s)
        BY <1>0 DEF LimitInv
      <4> QED BY <1>12, <2>1, <2>2, <3>2, <4>1 DEF StampsKept, LimitKept, InWindow
    <3> QED BY <2>1, <3>1, <3>3 DEF LimitInv
  <2> QED BY <2>3, <2>4
<1>13. ASSUME Registries!Tick, UNCHANGED scope
       PROVE  PastGuard' /\ Registries!AnswerGuarded' /\ LimitInv'
  <2>1. UNCHANGED <<mode, ready, stamps, cache, work, given, admitted, crossed, calls, switches>>
        /\ now' = now + 1
    BY <1>13 DEF Registries!Tick
  <2>2. PastGuard' /\ Registries!AnswerGuarded'
    BY <1>0, <1>5, <2>1 DEF PastGuard
  <2>3. LimitInv'
    BY <1>1, <1>2, <1>13, <2>1 DEF Rebuilding, Registries!Asks
  <2> QED BY <2>2, <2>3
<1>14. CASE UNCHANGED Registries!vars
  <2>1. UNCHANGED <<scope, now, mode, ready, stamps, work, given, admitted, crossed>>
    BY <1>14 DEF Registries!vars
  <2>2. PastGuard' /\ Registries!AnswerGuarded'
    BY <1>0, <1>5, <2>1 DEF PastGuard
  <2>3. LimitInv'
    BY <1>1, <1>2, <2>1 DEF Rebuilding, Registries!Asks
  <2> QED BY <2>2, <2>3
<1>15. CASE Registries!Next
  <2>1. UNCHANGED scope
    BY <1>15 DEF Registries!Next
  <2>2. \A t \in scope.threads : t \in Threads
    BY <1>1
  <2>3. \/ \E t \in Threads : Registries!Call(t) \/ \E s \in Registries!Services : Registries!Query(t, s)
        \/ Registries!Switch \/ Registries!Tick
    BY <1>15, <2>2 DEF Registries!Next
  <2> QED BY <2>1, <2>3, <1>6, <1>7, <1>8, <1>10, <1>11, <1>12, <1>13 DEF Registries!Query
<1> QED BY <1>14, <1>15

\* They hold at first.
LEMMA GovStart == Registries!GovAssumption /\ Registries!Init => GovInv
<1> SUFFICES ASSUME Registries!GovAssumption, Registries!Init
             PROVE  GovInv
  OBVIOUS
<1>0. Registries!IsFiniteSet({}) /\ Registries!Cardinality({}) = 0 /\ Cardinality({}) = 0
  BY FS_EmptySet, SameFiniteThere, SameSizeThere
<1>1. scope \in GovScopes /\ scope \in Registries!Deployments
  BY DEF Registries!Init, Registries!GovAssumption
<1>2. Registries!TypeOK
  <2>1. /\ scope.time \in Nat /\ scope.calls \in Nat /\ scope.switches \in Nat
    BY <1>1 DEF Registries!Deployments
  <2>2. work \in [Threads -> Entries] /\ \A t \in Threads : Registries!IsFiniteSet(work[t].recent)
    <3>1. Registries!Idle \in Entries /\ Registries!IsFiniteSet(Registries!Idle.recent)
      BY <1>0 DEF Registries!Idle, Entries, Registries!Phases
    <3> QED BY <3>1 DEF Registries!Init
  <2>3. /\ given \in [Threads -> Registries!Given]
        /\ cache \in [Registries!Services \X Registries!Stores -> Registries!Answers]
    BY DEF Registries!Init, Registries!Given, Registries!Answers
  <2>4. /\ stamps \in [Registries!Services -> SUBSET Registries!Queries]
        /\ admitted \in [Registries!Services -> SUBSET Registries!Queries]
        /\ \A s \in Registries!Services :
             Registries!IsFiniteSet(stamps[s]) /\ Registries!IsFiniteSet(admitted[s])
    BY <1>0 DEF Registries!Init
  <2>5. /\ now = 0 /\ ready = FALSE /\ calls = 0 /\ switches = 0 /\ crossed = {}
        /\ mode \in [Registries!Services -> Registries!Modes]
    BY DEF Registries!Init
  <2>6. /\ now \in 0..scope.time /\ calls \in 0..scope.calls /\ switches \in 0..scope.switches
        /\ crossed \subseteq Registries!Services /\ ready \in BOOLEAN
    <3>1. \A n \in Nat : 0 \in 0..n
      OBVIOUS
    <3> QED BY <2>1, <2>5, <3>1, Zenon
  <2> QED BY <1>1, <2>2, <2>3, <2>4, <2>5, <2>6, Zenon DEF Registries!TypeOK, Entries
<1>3. LimitInv
  <2> SUFFICES ASSUME NEW s \in Registries!Services
               PROVE  StampsKept(s) /\ LimitKept(s)
    BY DEF LimitInv
  <2>1. admitted[s] = {} /\ \A t \in Threads : ~Rebuilding(t, s)
    BY DEF Registries!Init, Registries!Idle, Rebuilding, Registries!Asks
  <2>2. \A from \in Nat : InWindow(s, from) = {}
    BY <2>1 DEF InWindow
  <2>3. scope.limit \in Nat
    BY <1>1 DEF Registries!Deployments
  <2> QED BY <1>0, <2>1, <2>2, <2>3 DEF StampsKept, LimitKept
<1>4. PastGuard /\ Registries!AnswerGuarded
  BY DEF Registries!Init, Registries!Idle, Registries!NoAnswer, PastGuard, Registries!AnswerGuarded
<1> QED BY <1>2, <1>3, <1>4 DEF GovInv

LEMMA GovFollows == GovInv => Registries!WithinLimit /\ Registries!AnswerGuarded
<1> SUFFICES ASSUME GovInv
             PROVE  Registries!WithinLimit
  BY DEF GovInv
<1>1. now \in Nat
  BY DEF GovInv, Registries!TypeOK, Registries!GovAssumption, Registries!Deployments
<1> QED BY <1>1, SameSizeThere DEF GovInv, LimitInv, LimitKept, InWindow, Registries!WithinLimit

-----------------------------------------------------------------------------
(* The schema.  Neither property is inductive.  That no statement leaves a *)
(* reference dangling rests on what a process has already created, or      *)
(* dropped, of the list it works through, and on a downgrade having the    *)
(* database to itself; that the schema served is whole rests on what the   *)
(* phases before have left to do, and on a process alone having seen it.   *)

\* What a process still has to do: the phases left of its script.
Opening == {<<"sync", "create", "up">>, <<"sync", "create", "sync", "up">>}
Making == {<<"create", "up">>, <<"create", "sync", "up">>}
Made == {<<"sync", "up">>, <<"up">>}
Migrating == {<<"sync", "upgrade", "gone">>, <<"upgrade", "gone">>, <<"gone">>}
TakingDown == {<<"sync", "downgrade", "gone">>, <<"downgrade", "gone">>}
Agendas == Opening \cup Making \cup Made \cup Migrating \cup TakingDown

LEMMA AgendasDiffer ==
  ASSUME NEW todo \in Agendas
  PROVE  /\ todo \in Opening => todo \notin Making \cup Made \cup Migrating \cup TakingDown
         /\ todo \in Making => todo \notin Made \cup Migrating \cup TakingDown
         /\ todo \in Made => todo \notin Migrating \cup TakingDown
         /\ todo \in Migrating => todo \notin TakingDown
<1> USE DEF Opening, Making, Made, Migrating, TakingDown, Agendas
<1> QED OBVIOUS

LEMMA AgendaHeads ==
  ASSUME NEW todo \in Agendas
  PROVE  /\ todo \in Seq(Tables!Phases) \ {<<>>}
         /\ todo \in Opening => Head(todo) = "sync" /\ Tail(todo) \in Making
         /\ todo \in Making => Head(todo) = "create" /\ Tail(todo) \in Made
         /\ todo \in Made => /\ Head(todo) \in {"sync", "up"}
                             /\ Head(todo) = "sync" => Tail(todo) \in Made
         /\ todo \in Migrating => /\ Head(todo) \in {"sync", "upgrade", "gone"}
                                  /\ Head(todo) # "gone" => Tail(todo) \in Migrating
         /\ todo \in TakingDown => /\ Head(todo) \in {"sync", "downgrade"}
                                   /\ Head(todo) = "sync" => Tail(todo) \in TakingDown
                                   /\ Head(todo) = "downgrade" => Tail(todo) = <<"gone">>
<1>1. /\ <<"sync", "create", "up">> \in Seq(Tables!Phases) \ {<<>>} /\ Head(<<"sync", "create", "up">>) = "sync"
      /\ Tail(<<"sync", "create", "up">>) = <<"create", "up">>
  BY DEF Tables!Phases
<1>2. /\ <<"sync", "create", "sync", "up">> \in Seq(Tables!Phases) \ {<<>>} /\ Head(<<"sync", "create", "sync", "up">>) = "sync"
      /\ Tail(<<"sync", "create", "sync", "up">>) = <<"create", "sync", "up">>
  BY DEF Tables!Phases
<1>3. /\ <<"create", "up">> \in Seq(Tables!Phases) \ {<<>>} /\ Head(<<"create", "up">>) = "create"
      /\ Tail(<<"create", "up">>) = <<"up">>
  BY DEF Tables!Phases
<1>4. /\ <<"create", "sync", "up">> \in Seq(Tables!Phases) \ {<<>>} /\ Head(<<"create", "sync", "up">>) = "create"
      /\ Tail(<<"create", "sync", "up">>) = <<"sync", "up">>
  BY DEF Tables!Phases
<1>5. /\ <<"sync", "up">> \in Seq(Tables!Phases) \ {<<>>} /\ Head(<<"sync", "up">>) = "sync"
      /\ Tail(<<"sync", "up">>) = <<"up">>
  BY DEF Tables!Phases
<1>6. /\ <<"up">> \in Seq(Tables!Phases) \ {<<>>} /\ Head(<<"up">>) = "up"
      /\ Tail(<<"up">>) = <<>>
  BY DEF Tables!Phases
<1>7. /\ <<"sync", "upgrade", "gone">> \in Seq(Tables!Phases) \ {<<>>} /\ Head(<<"sync", "upgrade", "gone">>) = "sync"
      /\ Tail(<<"sync", "upgrade", "gone">>) = <<"upgrade", "gone">>
  BY DEF Tables!Phases
<1>8. /\ <<"upgrade", "gone">> \in Seq(Tables!Phases) \ {<<>>} /\ Head(<<"upgrade", "gone">>) = "upgrade"
      /\ Tail(<<"upgrade", "gone">>) = <<"gone">>
  BY DEF Tables!Phases
<1>9. /\ <<"gone">> \in Seq(Tables!Phases) \ {<<>>} /\ Head(<<"gone">>) = "gone"
      /\ Tail(<<"gone">>) = <<>>
  BY DEF Tables!Phases
<1>10. /\ <<"sync", "downgrade", "gone">> \in Seq(Tables!Phases) \ {<<>>} /\ Head(<<"sync", "downgrade", "gone">>) = "sync"
      /\ Tail(<<"sync", "downgrade", "gone">>) = <<"downgrade", "gone">>
  BY DEF Tables!Phases
<1>11. /\ <<"downgrade", "gone">> \in Seq(Tables!Phases) \ {<<>>} /\ Head(<<"downgrade", "gone">>) = "downgrade"
      /\ Tail(<<"downgrade", "gone">>) = <<"gone">>
  BY DEF Tables!Phases
<1>12. todo \in Seq(Tables!Phases) \ {<<>>}
  BY <1>1, <1>2, <1>3, <1>4, <1>5, <1>6, <1>7, <1>8, <1>9, <1>10, <1>11
     DEF Opening, Making, Made, Migrating, TakingDown, Agendas
<1>13. CASE todo \in Opening
  BY <1>1, <1>2, <1>12, <1>13, AgendasDiffer DEF Opening, Making
<1>14. CASE todo \in Making
  BY <1>3, <1>4, <1>12, <1>14, AgendasDiffer DEF Making, Made
<1>15. CASE todo \in Made
  BY <1>5, <1>6, <1>12, <1>15, AgendasDiffer DEF Made
<1>16. CASE todo \in Migrating
  BY <1>7, <1>8, <1>9, <1>12, <1>16, AgendasDiffer DEF Migrating
<1>17. CASE todo \in TakingDown
  BY <1>10, <1>11, <1>12, <1>17, AgendasDiffer DEF TakingDown
<1> QED BY <1>13, <1>14, <1>15, <1>16, <1>17 DEF Agendas

LEMMA AgendaOfHead ==
  ASSUME NEW todo \in Agendas
  PROVE  /\ Head(todo) \in Tables!Phases
         /\ Head(todo) = "create" => todo \in Making
         /\ Head(todo) = "upgrade" => todo \in Migrating
         /\ Head(todo) = "downgrade" => todo \in TakingDown
         /\ Head(todo) = "up" => todo \in Made
         /\ Head(todo) = "gone" => todo \in Migrating
BY AgendaHeads DEF Agendas, Tables!Phases

\* Only a script that takes the schema down has a downgrade in it.
LEMMA AgendaOfScript ==
  /\ Tables!Scripts \subseteq Opening \cup Migrating \cup TakingDown
  /\ \A todo \in Agendas : "downgrade" \in Tables!Range(todo) <=> todo \in TakingDown
<1>1. Tables!Scripts \subseteq Opening \cup Migrating \cup TakingDown
  BY DEF Tables!Scripts, Opening, Migrating, TakingDown
<1>2. ASSUME NEW todo \in Agendas
      PROVE  "downgrade" \in Tables!Range(todo) <=> todo \in TakingDown
  <2>1. CASE todo \in TakingDown
    <3>1. \E i \in DOMAIN todo : todo[i] = "downgrade"
      BY <2>1 DEF TakingDown
    <3> QED BY <2>1, <3>1 DEF Tables!Range
  <2>2. CASE todo \notin TakingDown
    <3>1. \A i \in DOMAIN todo : todo[i] # "downgrade"
      BY <2>2 DEF Opening, Making, Made, Migrating, TakingDown, Agendas
    <3> QED BY <2>2, <3>1 DEF Tables!Range
  <2> QED BY <2>1, <2>2
<1> QED BY <1>1, <1>2

Entry == [todo : Seq(Tables!Phases) \ {<<>>}, looked : BOOLEAN, left : SUBSET Nat,
          own : Tables!Changes, alone : BOOLEAN]

Schemas == [tables : SUBSET Tables!Entities, late : SUBSET LateTables, head : BOOLEAN]

\* The list a phase works through.
ListOf(phase) == IF phase = "upgrade" THEN UpgradeOrder
                 ELSE IF phase = "downgrade" THEN DowngradeOrder ELSE SortedTables

\* What a process does is the rest of a script; it has changed nothing before it
\* looked, drops only in a downgrade, and creates nothing where it adds columns.
RestOfScript(e) ==
  /\ e.todo \in Agendas
  /\ e.left \subseteq DOMAIN ListOf(Head(e.todo))
  /\ Head(e.todo) = "sync" => \A i \in e.left : SortedTables[i] \in LateTables
  /\ ~e.looked => e.left = {} /\ e.own = Tables!None
  /\ Head(e.todo) \in {"gone", "up"} => ~e.looked
  /\ e.own.dropped # {} => Head(e.todo) = "downgrade"
  /\ e.own.tables # {} => Head(e.todo) \notin {"sync", "downgrade"}

\* One that is to take the schema down has the database to itself.
Exclusive(p) ==
  proc[p].todo \in TakingDown => \A q \in Processes \ {p} : Head(proc[q].todo) = "gone"

InOrder == Tables!TypeOK /\ \A p \in Processes : RestOfScript(proc[p]) /\ Exclusive(p)

Closed(tables) == \A t \in tables : References[t] \subseteq tables

\* The places of the list that p has passed are done.
Passed(p) ==
  proc[p].left # {} =>
    /\ Tables!At(p, "upgrade") =>
         \A i \in DOMAIN UpgradeOrder \ proc[p].left : UpgradeOrder[i] \in Tables!Tables(p)
    /\ Tables!At(p, "downgrade") =>
         \A i \in DOMAIN DowngradeOrder \ proc[p].left : DowngradeOrder[i] \notin Tables!Tables(p)
    /\ Tables!At(p, "create") =>
         \A i \in DOMAIN SortedTables \ proc[p].left : SortedTables[i] \in Tables!Tables(p)

Consistent ==
  /\ Closed(schema.tables)
  /\ \A p \in Processes : Closed(Tables!Tables(p)) /\ Passed(p)

Whole == schema.tables = Tables!Entities /\ schema.late = LateTables

\* What a process that works alone and will serve has still to do.
OnTheWay(p) ==
  proc[p].alone =>
    /\ Tables!Working(p) => \A q \in Processes \ {p} : ~Tables!Working(q)
    /\ proc[p].todo \in Opening /\ proc[p].looked =>
         /\ \A i \in proc[p].left : SortedTables[i] \in (schema.tables \cap LateTables) \ schema.late
         /\ \A t \in (schema.tables \cap LateTables) \ (schema.late \cup proc[p].own.late) :
              \E i \in proc[p].left : SortedTables[i] = t
    /\ proc[p].todo \in Making =>
         /\ (schema.tables \cup proc[p].own.tables) \cap LateTables
              \subseteq schema.late \cup proc[p].own.late
         /\ proc[p].looked =>
              \A t \in Tables!Entities \ (schema.tables \cup proc[p].own.tables) :
                \E i \in proc[p].left : SortedTables[i] = t
    /\ proc[p].todo \in Made => Whole /\ proc[p].left = {} /\ proc[p].own = Tables!None

SchemaInv ==
  /\ Tables!SchemaAssumption /\ InOrder /\ Consistent
  /\ \A p \in Processes : OnTheWay(p)

LEMMA NoneIsChange == Tables!None \in Tables!Changes
BY DEF Tables!None, Tables!Changes

LEMMA EntryOfTypeOK ==
  ASSUME Tables!TypeOK
  PROVE  /\ proc \in [Processes -> Entry] /\ schema \in Schemas
         /\ \A p \in Processes : proc[p] \in Entry /\ proc[p].own \in Tables!Changes
BY DEF Tables!TypeOK, Entry, Schemas

\* A step of p that is not a start keeps the processes in order.
LEMMA OrderKept ==
  ASSUME InOrder, NEW p \in Processes, NEW e \in Entry, Head(proc[p].todo) # "gone",
         proc' = [proc EXCEPT ![p] = e], UNCHANGED <<transactional, starts>>,
         schema' \in Schemas, schema'.late \subseteq schema'.tables,
         RestOfScript(e), e.todo \in TakingDown => proc[p].todo \in TakingDown,
         e.own.late \subseteq schema'.tables \cup e.own.tables,
         ~transactional => e.own = Tables!None,
         schema.tables \subseteq schema'.tables \/ proc[p].todo \in TakingDown
  PROVE  InOrder'
<1>1. /\ proc \in [Processes -> Entry] /\ schema \in Schemas
      /\ \A q \in Processes : RestOfScript(proc[q]) /\ Exclusive(q) /\ proc[q] \in Entry
  BY EntryOfTypeOK DEF InOrder
<1>2. proc' \in [Processes -> Entry] /\ proc'[p] = e /\ \A q \in Processes \ {p} : proc'[q] = proc[q]
  BY <1>1
<1>3. \A q \in Processes \ {p} : proc[q].todo \notin TakingDown
  BY <1>1 DEF Exclusive
<1>4. \A q \in Processes : RestOfScript(proc'[q])
  BY <1>1, <1>2
<1>5. \A q \in Processes : Exclusive(q)'
  BY <1>1, <1>2, <1>3 DEF Exclusive
<1>6. ASSUME NEW q \in Processes
      PROVE  /\ proc'[q].own.late \subseteq schema'.tables \cup proc'[q].own.tables
             /\ ~transactional' => proc'[q].own = Tables!None
  <2>1. CASE q = p
    BY <1>2, <2>1
  <2>2. CASE q # p
    <3>1. /\ proc[q].own.late \subseteq schema.tables \cup proc[q].own.tables
          /\ ~transactional => proc[q].own = Tables!None
      BY DEF InOrder, Tables!TypeOK
    <3>2. CASE schema.tables \subseteq schema'.tables
      BY <1>2, <2>2, <3>1, <3>2
    <3>3. CASE proc[p].todo \in TakingDown
      <4>1. proc[q].own = Tables!None
        BY <1>1, <2>2, <3>3 DEF Exclusive, RestOfScript
      <4>2. proc[q].own.late = {}
        BY <4>1 DEF Tables!None
      <4> QED BY <1>2, <2>2, <3>1, <4>2
    <3> QED BY <3>2, <3>3
  <2> QED BY <2>1, <2>2
<1>7. Tables!TypeOK'
  BY <1>2, <1>6 DEF InOrder, Tables!TypeOK, Entry, Schemas
<1>8. InOrder' <=> Tables!TypeOK' /\ \A q \in Processes : RestOfScript(proc[q])' /\ Exclusive(q)'
  BY DEF InOrder
<1>9. \A q \in Processes : RestOfScript(proc[q])'
  BY <1>4
<1> QED BY <1>5, <1>7, <1>8, <1>9

\* What becomes of a process and of the schema when it executes a statement.
Done(p, change, i) ==
  [proc[p] EXCEPT !.left = @ \ {i}, !.own = IF transactional THEN Tables!Joined(@, change) ELSE @]
After(change) == IF transactional THEN schema ELSE Tables!Applied(change)

LEMMA Executed ==
  ASSUME InOrder, NEW p \in Processes, NEW change \in Tables!Changes, NEW i,
         Tables!Execute(p, change, i)
  PROVE  /\ proc' = [proc EXCEPT ![p] = Done(p, change, i)] /\ schema' = After(change)
         /\ Done(p, change, i) \in Entry
         /\ Done(p, change, i).todo = proc[p].todo /\ Done(p, change, i).looked = proc[p].looked
         /\ Done(p, change, i).alone = proc[p].alone
         /\ Done(p, change, i).left = proc[p].left \ {i}
         /\ Done(p, change, i).own =
              IF transactional THEN Tables!Joined(proc[p].own, change) ELSE proc[p].own
         /\ After(change) \in Schemas
<1>1. proc \in [Processes -> Entry] /\ proc[p] \in Entry /\ schema \in Schemas
      /\ proc[p].own \in Tables!Changes /\ transactional \in BOOLEAN
  BY EntryOfTypeOK DEF InOrder, Tables!TypeOK
<1>2. After(change) \in Schemas
  BY <1>1 DEF After, Tables!Applied, Schemas, Tables!Changes
<1>3. Tables!Joined(proc[p].own, change) \in Tables!Changes
  BY <1>1 DEF Tables!Joined, Tables!Changes
<1>4. Done(p, change, i) \in Entry
  BY <1>1, <1>3 DEF Done, Entry
<1>5. schema' = After(change)
  BY DEF After, Tables!Execute
<1>6. CASE transactional
  <2>1. proc' = [proc EXCEPT ![p].left = @ \ {i}, ![p].own = Tables!Joined(@, change)]
    BY <1>6 DEF Tables!Execute
  <2>2. proc' = [proc EXCEPT ![p] = [proc[p] EXCEPT !.left = @ \ {i}, !.own = Tables!Joined(@, change)]]
    BY <1>1, <2>1 DEF Entry
  <2> QED BY <1>1, <1>2, <1>4, <1>5, <1>6, <2>2 DEF Done, Entry
<1>7. CASE ~transactional
  <2>1. proc' = [proc EXCEPT ![p].left = @ \ {i}]
    BY <1>7 DEF Tables!Execute
  <2>2. proc' = [proc EXCEPT ![p] = [proc[p] EXCEPT !.left = @ \ {i}, !.own = @]]
    BY <1>1, <2>1 DEF Entry
  <2> QED BY <1>1, <1>2, <1>4, <1>5, <1>7, <2>2 DEF Done, Entry
<1> QED BY <1>1, <1>6, <1>7

\* And when a phase of it ends.
Following(p) == Tables!Beginning(Tail(proc[p].todo), proc[p].alone)

LEMMA Proceeded ==
  ASSUME InOrder, NEW p \in Processes, Tables!Proceed(p), Tables!Working(p)
  PROVE  proc' = [proc EXCEPT ![p] = Following(p)] /\ Following(p) \in Entry /\ RestOfScript(Following(p))
<1>1. proc \in [Processes -> Entry] /\ proc[p] \in Entry /\ RestOfScript(proc[p])
  BY EntryOfTypeOK DEF InOrder
<1>2. Tail(proc[p].todo) \in Agendas
  BY <1>1, AgendaHeads DEF RestOfScript, Tables!Working, Tables!At, Agendas, Migrating
<1>3. Following(p) \in Entry
  BY <1>1, <1>2, AgendaHeads, NoneIsChange DEF Following, Entry, Tables!Beginning
<1>4. RestOfScript(Following(p))
  BY <1>2, <1>3 DEF Following, RestOfScript, Tables!Beginning, Tables!None
<1>5. proc' = [proc EXCEPT ![p] = Following(p)]
  BY DEF Following, Tables!Proceed
<1> QED BY <1>3, <1>4, <1>5

\* And when it ends.
LEMMA GoneInOrder == Tables!Gone \in Entry /\ RestOfScript(Tables!Gone) /\ Tables!Gone.todo \notin TakingDown
<1>1. <<"gone">> \in Migrating /\ <<"gone">> \in Agendas
  BY DEF Migrating, Agendas
<1>2. <<"gone">> \in Seq(Tables!Phases) \ {<<>>} /\ <<"gone">> \notin TakingDown
  BY <1>1, AgendaHeads, AgendasDiffer
<1> QED BY <1>1, <1>2, NoneIsChange DEF Tables!Gone, Tables!Beginning, Entry, RestOfScript, Tables!None

\* A statement that is executed keeps the processes in order.
LEMMA OrderExecuted ==
  ASSUME InOrder, NEW p \in Processes, NEW change \in Tables!Changes, NEW i \in proc[p].left,
         Tables!Execute(p, change, i), Tables!Working(p), UNCHANGED <<transactional, starts>>,
         change.late \subseteq schema.tables \cup proc[p].own.tables \cup change.tables,
         change.dropped # {} => Tables!At(p, "downgrade"),
         change.tables # {} => ~Tables!At(p, "sync") /\ ~Tables!At(p, "downgrade")
  PROVE  InOrder'
<1> DEFINE e == Done(p, change, i)
<1>0. /\ RestOfScript(proc[p]) /\ proc[p].looked /\ proc[p] \in Entry
      /\ Head(proc[p].todo) # "gone" /\ transactional \in BOOLEAN /\ schema \in Schemas
      /\ proc[p].own \in Tables!Changes
      /\ proc[p].own.late \subseteq schema.tables \cup proc[p].own.tables
      /\ ~transactional => proc[p].own = Tables!None
      /\ schema.late \subseteq schema.tables
  BY EntryOfTypeOK DEF InOrder, RestOfScript, Tables!Working, Tables!At, Tables!TypeOK
<1>1. /\ proc' = [proc EXCEPT ![p] = e] /\ schema' = After(change)
      /\ e \in Entry /\ e.todo = proc[p].todo /\ e.looked = proc[p].looked
      /\ e.left = proc[p].left \ {i}
      /\ e.own = IF transactional THEN Tables!Joined(proc[p].own, change) ELSE proc[p].own
      /\ After(change) \in Schemas
  BY Executed
<1> HIDE DEF e
<1>2. RestOfScript(e)
  <2>1. e.own.dropped # {} => Head(e.todo) = "downgrade"
    BY <1>0, <1>1 DEF RestOfScript, Tables!Joined, Tables!At
  <2>2. e.own.tables # {} => Head(e.todo) \notin {"sync", "downgrade"}
    BY <1>0, <1>1 DEF RestOfScript, Tables!Joined, Tables!At
  <2> QED BY <1>0, <1>1, <2>1, <2>2 DEF RestOfScript, Tables!Working, Tables!At
<1>3. CASE transactional
  <2>1. schema' = schema
    BY <1>1, <1>3 DEF After
  <2>2. e.own.late \subseteq schema'.tables \cup e.own.tables
    BY <1>0, <1>1, <1>3, <2>1 DEF Tables!Joined
  <2> QED BY <1>0, <1>1, <1>2, <1>3, <2>1, <2>2, OrderKept
<1>4. CASE ~transactional
  <2>1. /\ schema'.tables = (schema.tables \cup change.tables) \ change.dropped
        /\ schema'.late = (schema.late \cup change.late) \ change.dropped
    BY <1>0, <1>1, <1>4 DEF After, Tables!Applied, Schemas
  <2>2. proc[p].own.tables = {} /\ proc[p].own.late = {}
    BY <1>0, <1>4 DEF Tables!None
  <2>3. schema'.late \subseteq schema'.tables
    BY <1>0, <2>1, <2>2
  <2>4. schema.tables \subseteq schema'.tables \/ proc[p].todo \in TakingDown
    <3>1. CASE change.dropped = {}
      BY <2>1, <3>1
    <3>2. CASE change.dropped # {}
      BY <1>0, <3>2, AgendaOfHead DEF RestOfScript, Tables!At
    <3> QED BY <3>1, <3>2
  <2> QED BY <1>0, <1>1, <1>2, <1>4, <2>2, <2>3, <2>4, OrderKept
<1> QED BY <1>0, <1>3, <1>4

\* Every other step does.
LEMMA OrderProceeded ==
  ASSUME InOrder, NEW p \in Processes, Tables!Proceed(p), Tables!Working(p),
         UNCHANGED <<transactional, starts>>,
         \/ UNCHANGED schema
         \/ \E head \in BOOLEAN : schema' = [Tables!Applied(proc[p].own) EXCEPT !.head = head]
  PROVE  /\ InOrder' /\ schema' \in Schemas
         /\ \/ UNCHANGED schema
            \/ /\ schema'.tables = (schema.tables \cup proc[p].own.tables) \ proc[p].own.dropped
               /\ schema'.late = (schema.late \cup proc[p].own.late) \ proc[p].own.dropped
<1>0. /\ RestOfScript(proc[p]) /\ proc[p] \in Entry
      /\ Head(proc[p].todo) # "gone" /\ schema \in Schemas /\ proc[p].own \in Tables!Changes
      /\ proc[p].own.late \subseteq schema.tables \cup proc[p].own.tables
      /\ schema.late \subseteq schema.tables
  BY EntryOfTypeOK DEF InOrder, Tables!Working, Tables!At, Tables!TypeOK
<1>1. /\ proc' = [proc EXCEPT ![p] = Following(p)] /\ Following(p) \in Entry
      /\ RestOfScript(Following(p))
  BY Proceeded
<1>2. Following(p).own = Tables!None /\ Tables!None.late = {} /\ Following(p).todo = Tail(proc[p].todo)
  BY DEF Following, Tables!Beginning, Tables!None
<1>3. Tail(proc[p].todo) \in TakingDown => proc[p].todo \in TakingDown
  BY <1>0, AgendaHeads, AgendasDiffer DEF RestOfScript, Agendas, Tables!Working, Tables!At
<1>4. CASE UNCHANGED schema
  BY <1>0, <1>1, <1>2, <1>3, <1>4, OrderKept
<1>5. CASE \E head \in BOOLEAN : schema' = [Tables!Applied(proc[p].own) EXCEPT !.head = head]
  <2>1. /\ schema' \in Schemas
        /\ schema'.tables = (schema.tables \cup proc[p].own.tables) \ proc[p].own.dropped
        /\ schema'.late = (schema.late \cup proc[p].own.late) \ proc[p].own.dropped
    BY <1>0, <1>5 DEF Tables!Applied, Schemas, Tables!Changes
  <2>2. schema.tables \subseteq schema'.tables \/ proc[p].todo \in TakingDown
    <3>1. CASE proc[p].own.dropped = {}
      BY <2>1, <3>1
    <3>2. CASE proc[p].own.dropped # {}
      BY <1>0, <3>2, AgendaOfHead DEF RestOfScript
    <3> QED BY <3>1, <3>2
  <2> QED BY <1>0, <1>1, <1>2, <1>3, <2>1, <2>2, OrderKept
<1> QED BY <1>4, <1>5

LEMMA OrderAborted ==
  ASSUME InOrder, NEW p \in Processes, Tables!Abort(p), Head(proc[p].todo) # "gone",
         UNCHANGED <<transactional, starts>>
  PROVE  InOrder'
<1>1. schema \in Schemas /\ schema.late \subseteq schema.tables
  BY EntryOfTypeOK DEF InOrder, Tables!TypeOK
<1>2. Tables!Gone.own = Tables!None /\ Tables!None.late = {}
  BY DEF Tables!Gone, Tables!Beginning, Tables!None
<1>3. proc' = [proc EXCEPT ![p] = Tables!Gone] /\ UNCHANGED schema
  BY DEF Tables!Abort
<1> QED BY <1>1, <1>2, <1>3, GoneInOrder, OrderKept

LEMMA OrderLooked ==
  ASSUME InOrder, NEW p \in Processes, NEW left, Tables!Look(p, left), Tables!Working(p),
         UNCHANGED <<transactional, starts>>, left \subseteq Nat,
         left \subseteq DOMAIN ListOf(Head(proc[p].todo)),
         Tables!At(p, "sync") => \A i \in left : SortedTables[i] \in LateTables
  PROVE  /\ InOrder' /\ UNCHANGED schema /\ ~proc[p].looked
         /\ proc' = [proc EXCEPT ![p] = [proc[p] EXCEPT !.looked = TRUE, !.left = left]]
<1> DEFINE e == [proc[p] EXCEPT !.looked = TRUE, !.left = left]
<1>1. /\ RestOfScript(proc[p]) /\ proc[p] \in Entry /\ proc \in [Processes -> Entry]
      /\ Head(proc[p].todo) # "gone" /\ schema \in Schemas
      /\ proc[p].own.late \subseteq schema.tables \cup proc[p].own.tables
      /\ ~transactional => proc[p].own = Tables!None
      /\ schema.late \subseteq schema.tables
  BY EntryOfTypeOK DEF InOrder, Tables!Working, Tables!At, Tables!TypeOK
<1>2. /\ ~proc[p].looked /\ UNCHANGED schema
      /\ proc' = [proc EXCEPT ![p].looked = TRUE, ![p].left = left]
  BY DEF Tables!Look
<1>3. proc' = [proc EXCEPT ![p] = e]
  BY <1>1, <1>2 DEF Entry
<1>4. /\ e \in Entry /\ e.todo = proc[p].todo /\ e.left = left /\ e.looked /\ e.own = proc[p].own
  BY <1>1 DEF Entry
<1>5. proc' = [proc EXCEPT ![p] = e] /\ InOrder'
  <2> HIDE DEF e
  <2>1. RestOfScript(e)
    BY <1>1, <1>4 DEF RestOfScript, Tables!Working, Tables!At
  <2> QED BY <1>1, <1>2, <1>3, <1>4, <2>1, OrderKept
<1> QED BY <1>2, <1>5

\* So does a start; and it changes nothing of what the others do but that they are
\* no longer alone.
LEMMA OrderStarted ==
  ASSUME InOrder, MaxStarts \in Nat, NEW p \in Processes, Tables!Start(p), UNCHANGED transactional
  PROVE  /\ InOrder' /\ UNCHANGED schema
         /\ proc'[p] = Tables!Beginning(proc'[p].todo, \A q \in Processes : ~Tables!Working(q))
         /\ proc'[p].todo \in Opening \cup Migrating \cup TakingDown
         /\ \A q \in Processes \ {p} :
              \/ proc'[q] = proc[q] /\ ~Tables!Working(q)
              \/ Tables!Working(q) /\ proc'[q] = [proc[q] EXCEPT !.alone = FALSE]
         /\ \A q \in Processes \ {p} :
              /\ proc'[q].todo = proc[q].todo /\ proc'[q].looked = proc[q].looked
              /\ proc'[q].left = proc[q].left /\ proc'[q].own = proc[q].own
<1>0. /\ proc \in [Processes -> Entry] /\ Tables!TypeOK /\ UNCHANGED schema
      /\ \A q \in Processes : RestOfScript(proc[q]) /\ Exclusive(q) /\ proc[q] \in Entry
  BY EntryOfTypeOK DEF InOrder, Tables!Start
<1> DEFINE alone == \A q \in Processes : ~Tables!Working(q)
<1>1. PICK script \in Tables!Scripts :
        /\ "downgrade" \in Tables!Range(script) => \A q \in Processes : Tables!At(q, "gone")
        /\ \A q \in Processes : Tables!Working(q) => "downgrade" \notin Tables!Range(proc[q].todo)
        /\ proc' = [q \in Processes |->
             CASE q = p -> Tables!Beginning(script, alone)
               [] q # p /\ Tables!Working(q) -> [proc[q] EXCEPT !.alone = FALSE]
               [] OTHER -> proc[q]]
  BY DEF Tables!Start
<1>2. /\ script \in Agendas /\ script \in Opening \cup Migrating \cup TakingDown
      /\ script \in Seq(Tables!Phases) \ {<<>>}
  BY <1>1, AgendaOfScript, AgendaHeads DEF Agendas
<1>3. /\ script \in TakingDown => \A q \in Processes : Tables!At(q, "gone")
      /\ \A q \in Processes : proc[q].todo \notin TakingDown
  <2>1. script \in TakingDown => \A q \in Processes : Tables!At(q, "gone")
    BY <1>1, <1>2, AgendaOfScript
  <2>2. ASSUME NEW q \in Processes, proc[q].todo \in TakingDown PROVE FALSE
    <3>1. proc[q].todo \in Agendas /\ Tables!Working(q)
      BY <1>0, <2>2, AgendaHeads DEF RestOfScript, Tables!Working, Tables!At
    <3> QED BY <1>1, <2>2, <3>1, AgendaOfScript
  <2> QED BY <2>1, <2>2
<1>4. /\ proc'[p] = Tables!Beginning(script, alone)
      /\ \A q \in Processes \ {p} : Tables!Working(q) => proc'[q] = [proc[q] EXCEPT !.alone = FALSE]
      /\ \A q \in Processes \ {p} : ~Tables!Working(q) => proc'[q] = proc[q]
  BY <1>1, Zenon
<1>5. /\ proc'[p].todo = script /\ proc'[p].looked = FALSE /\ proc'[p].left = {}
      /\ proc'[p].own = Tables!None
  BY <1>4 DEF Tables!Beginning
<1>6. \A q \in Processes \ {p} :
        /\ proc'[q].todo = proc[q].todo /\ proc'[q].looked = proc[q].looked
        /\ proc'[q].left = proc[q].left /\ proc'[q].own = proc[q].own /\ proc'[q] \in Entry
  <2> SUFFICES ASSUME NEW q \in Processes \ {p}
               PROVE  /\ proc'[q].todo = proc[q].todo /\ proc'[q].looked = proc[q].looked
                      /\ proc'[q].left = proc[q].left /\ proc'[q].own = proc[q].own
                      /\ proc'[q] \in Entry
    OBVIOUS
  <2>1. proc[q] \in Entry
    BY <1>0
  <2>2. CASE Tables!Working(q)
    <3>1. proc'[q] = [proc[q] EXCEPT !.alone = FALSE]
      BY <1>4, <2>2
    <3> QED BY <2>1, <3>1 DEF Entry
  <2>3. CASE ~Tables!Working(q)
    BY <1>4, <2>1, <2>3
  <2> QED BY <2>2, <2>3
<1>7. proc'[p] \in Entry
  <2>1. alone \in BOOLEAN
    OBVIOUS
  <2> HIDE DEF alone
  <2> QED BY <1>2, <1>4, <2>1, NoneIsChange DEF Tables!Beginning, Entry
<1>8. proc' \in [Processes -> Entry]
  <2>1. DOMAIN proc' = Processes /\ proc' = [q \in Processes |-> proc'[q]]
    BY <1>1
  <2> QED BY <1>6, <1>7, <2>1
<1>9. \A q \in Processes : RestOfScript(proc'[q])
  BY <1>0, <1>2, <1>5, <1>6 DEF RestOfScript, Tables!None
<1>10. \A q \in Processes : Exclusive(q)'
  BY <1>3, <1>5, <1>6 DEF Exclusive, Tables!At
<1>11. Tables!TypeOK'
  <2>1. starts' \in 0..MaxStarts
    BY <1>0 DEF Tables!Start, Tables!TypeOK
  <2>2. \A q \in Processes :
          /\ proc'[q].own.late \subseteq schema.tables \cup proc'[q].own.tables
          /\ ~transactional => proc'[q].own = Tables!None
    <3>1. \A q \in Processes :
            /\ proc[q].own.late \subseteq schema.tables \cup proc[q].own.tables
            /\ ~transactional => proc[q].own = Tables!None
      BY <1>0 DEF Tables!TypeOK
    <3> QED BY <1>5, <1>6, <3>1 DEF Tables!None
  <2> QED BY <1>0, <1>8, <2>1, <2>2 DEF Tables!TypeOK, Entry
<1>12. InOrder'
  <2>1. \A q \in Processes : RestOfScript(proc[q])'
    BY <1>9
  <2> QED BY <1>10, <1>11, <2>1 DEF InOrder
<1> QED BY <1>0, <1>2, <1>4, <1>5, <1>6, <1>12

-----------------------------------------------------------------------------
\* The tables a process works on, after a statement.
LEMMA TablesExecuted ==
  ASSUME InOrder, NEW p \in Processes, NEW change \in Tables!Changes, NEW i,
         Tables!Execute(p, change, i),
         change.tables # {} => proc[p].own.dropped = {}
  PROVE  /\ Tables!Tables(p)' = (Tables!Tables(p) \cup change.tables) \ change.dropped
         /\ \/ transactional /\ UNCHANGED schema
               /\ \A q \in Processes \ {p} : Tables!Tables(q)' = Tables!Tables(q)
            \/ /\ schema'.tables = Tables!Tables(p)' /\ schema.tables = Tables!Tables(p)
               /\ \A q \in Processes \ {p} : /\ Tables!Tables(q)' = Tables!Tables(p)'
                                             /\ Tables!Tables(q) = Tables!Tables(p)
<1>0. /\ proc \in [Processes -> Entry] /\ schema \in Schemas /\ proc[p] \in Entry
      /\ proc[p].own \in Tables!Changes
      /\ \A q \in Processes : ~transactional => proc[q].own = Tables!None
  BY EntryOfTypeOK DEF InOrder, Tables!TypeOK
<1>1. /\ proc' = [proc EXCEPT ![p] = Done(p, change, i)] /\ schema' = After(change)
      /\ Done(p, change, i).own =
              IF transactional THEN Tables!Joined(proc[p].own, change) ELSE proc[p].own
  BY Executed
<1>2. proc'[p].own = Done(p, change, i).own /\ \A q \in Processes \ {p} : proc'[q] = proc[q]
  BY <1>0, <1>1
<1>3. CASE transactional
  <2>1. schema' = schema /\ proc'[p].own = Tables!Joined(proc[p].own, change)
    BY <1>1, <1>2, <1>3 DEF After
  <2>2. Tables!Tables(p)' = (Tables!Tables(p) \cup change.tables) \ change.dropped
    BY <2>1 DEF Tables!Tables, Tables!Joined
  <2>3. \A q \in Processes \ {p} : Tables!Tables(q)' = Tables!Tables(q)
    BY <1>2, <2>1 DEF Tables!Tables
  <2> QED BY <1>3, <2>1, <2>2, <2>3
<1>4. CASE ~transactional
  <2>1. \A q \in Processes : proc[q].own.tables = {} /\ proc[q].own.dropped = {}
    BY <1>0, <1>4 DEF Tables!None
  <2>2. \A q \in Processes : proc'[q].own.tables = {} /\ proc'[q].own.dropped = {}
    BY <1>1, <1>2, <1>4, <2>1
  <2>3. schema'.tables = (schema.tables \cup change.tables) \ change.dropped
    BY <1>0, <1>1, <1>4 DEF After, Tables!Applied, Schemas
  <2> QED BY <2>1, <2>2, <2>3 DEF Tables!Tables
<1> QED BY <1>3, <1>4

-----------------------------------------------------------------------------
(* No reference is left dangling.                                          *)

LEMMA ListedOnce ==
  ASSUME NEW list, Tables!Lists(list)
  PROVE  /\ DOMAIN list \subseteq Nat /\ \A i \in DOMAIN list : list[i] \in Tables!Entities
         /\ \A t \in Tables!Entities : \E i \in DOMAIN list : list[i] = t
         /\ \A i, j \in DOMAIN list : list[i] = list[j] => i = j
<1>1. list \in Seq(Tables!Entities) /\ Tables!Range(list) = Tables!Entities
  BY DEF Tables!Lists
<1>2. DOMAIN list \subseteq Nat /\ \A i \in DOMAIN list : list[i] \in Tables!Entities
  BY <1>1, ElementOfSeq, LenProperties
<1>3. \A t \in Tables!Entities : \E i \in DOMAIN list : list[i] = t
  BY <1>1 DEF Tables!Range
<1> QED BY <1>2, <1>3 DEF Tables!Lists

LEMMA TablesTyped ==
  ASSUME InOrder, NEW p \in Processes
  PROVE  /\ Tables!Tables(p) \subseteq Tables!Entities
         /\ proc[p] \in Entry /\ RestOfScript(proc[p]) /\ Exclusive(p)
         /\ ~transactional => Tables!Tables(p) = schema.tables /\ proc[p].own = Tables!None
         /\ Tables!Working(p) => \A q \in Processes : proc[q].todo \notin TakingDown \/ q = p
         /\ ~Tables!Working(p) => proc[p].left = {} /\ proc[p].own = Tables!None
<1>1. /\ proc[p] \in Entry /\ schema \in Schemas /\ proc[p].own \in Tables!Changes
      /\ \A q \in Processes : RestOfScript(proc[q]) /\ Exclusive(q)
  BY EntryOfTypeOK DEF InOrder
<1>2. Tables!Tables(p) \subseteq Tables!Entities
  BY <1>1 DEF Tables!Tables, Schemas, Tables!Changes
<1>3. ~transactional => Tables!Tables(p) = schema.tables /\ proc[p].own = Tables!None
  BY DEF InOrder, Tables!TypeOK, Tables!Tables, Tables!None
<1>4. Tables!Working(p) => \A q \in Processes : proc[q].todo \notin TakingDown \/ q = p
  BY <1>1 DEF Exclusive, Tables!Working, Tables!At
<1>5. ~Tables!Working(p) => proc[p].left = {} /\ proc[p].own = Tables!None
  BY <1>1 DEF RestOfScript, Tables!Working, Tables!At
<1> QED BY <1>1, <1>2, <1>3, <1>4, <1>5

\* A statement that leaves what its process works on closed leaves everything so.
LEMMA ClosedExecuted ==
  ASSUME InOrder, Consistent, NEW p \in Processes, NEW change \in Tables!Changes, NEW i,
         Tables!Execute(p, change, i), Tables!Working(p),
         change.tables # {} => proc[p].own.dropped = {},
         change.dropped # {} => Tables!At(p, "downgrade"),
         Closed((Tables!Tables(p) \cup change.tables) \ change.dropped), Passed(p)'
  PROVE  Consistent'
<1>1. Closed(Tables!Tables(p)')
  <2>1. Tables!Tables(p)' = (Tables!Tables(p) \cup change.tables) \ change.dropped
    BY TablesExecuted
  <2> QED BY <2>1
<1>2. \/ transactional /\ UNCHANGED schema
         /\ \A q \in Processes \ {p} : Tables!Tables(q)' = Tables!Tables(q)
      \/ /\ schema'.tables = Tables!Tables(p)' /\ schema.tables = Tables!Tables(p)
         /\ \A q \in Processes \ {p} : /\ Tables!Tables(q)' = Tables!Tables(p)'
                                       /\ Tables!Tables(q) = Tables!Tables(p)
  BY TablesExecuted
<1>3. \A q \in Processes \ {p} : proc'[q] = proc[q]
  <2>1. proc' = [proc EXCEPT ![p] = Done(p, change, i)]
    BY Executed
  <2> QED BY <2>1
<1>4. Closed(schema.tables)'
  BY <1>1, <1>2 DEF Consistent, Closed
<1>5. ASSUME NEW q \in Processes
      PROVE  Closed(Tables!Tables(q))' /\ Passed(q)'
  <2>1. CASE q = p
    <3>1. Closed(Tables!Tables(p))' <=> Closed(Tables!Tables(p)')
      BY DEF Closed
    <3> QED BY <1>1, <2>1, <3>1
  <2>2. CASE q # p
    <3>1. Closed(Tables!Tables(q)')
      BY <1>1, <1>2, <2>2 DEF Consistent
    <3>2. Passed(q) /\ proc'[q] = proc[q]
      BY <1>3, <2>2 DEF Consistent
    <3>3. Tables!At(q, "downgrade") => proc[q].left = {}
      <4>1. proc[q].todo \notin TakingDown /\ RestOfScript(proc[q])
        BY <2>2, TablesTyped
      <4> QED BY <4>1, AgendaOfHead DEF RestOfScript, Tables!At
    <3>4. proc[q].left # {} => Tables!Tables(q) \subseteq Tables!Tables(q)'
      <4>1. CASE change.dropped = {}
        <5>1. Tables!Tables(p)' = (Tables!Tables(p) \cup change.tables) \ change.dropped
          BY TablesExecuted
        <5> QED BY <1>2, <2>2, <4>1, <5>1
      <4>2. CASE change.dropped # {}
        <5>1. proc[p].todo \in TakingDown /\ Exclusive(p)
          BY <4>2, TablesTyped, AgendaOfHead DEF RestOfScript, Tables!At
        <5>2. ~Tables!Working(q)
          BY <2>2, <5>1 DEF Exclusive, Tables!Working, Tables!At
        <5> QED BY <5>2, TablesTyped
      <4> QED BY <4>1, <4>2
    <3>5. Passed(q)'
      <4>1. Passed(q)' <=>
             (proc'[q].left # {} =>
                /\ Tables!At(q, "upgrade")' =>
                     \A j \in DOMAIN UpgradeOrder \ proc'[q].left : UpgradeOrder[j] \in Tables!Tables(q)'
                /\ Tables!At(q, "downgrade")' =>
                     \A j \in DOMAIN DowngradeOrder \ proc'[q].left : DowngradeOrder[j] \notin Tables!Tables(q)'
                /\ Tables!At(q, "create")' =>
                     \A j \in DOMAIN SortedTables \ proc'[q].left : SortedTables[j] \in Tables!Tables(q)')
        BY DEF Passed
      <4> QED BY <3>2, <3>3, <3>4, <4>1 DEF Passed, Tables!At
    <3> QED BY <3>1, <3>5 DEF Closed
  <2> QED BY <2>1, <2>2
<1>6. Consistent' <=> /\ Closed(schema.tables)'
                      /\ \A q \in Processes : Closed(Tables!Tables(q))' /\ Passed(q)'
  BY DEF Consistent
<1> QED BY <1>4, <1>5, <1>6

\* What ends a phase, or a process, commits what its process works on, or nothing.
LEMMA ClosedEnded ==
  ASSUME InOrder, Consistent, NEW p \in Processes, NEW e,
         proc' = [proc EXCEPT ![p] = e], e.left = {}, e.own = Tables!None,
         \/ UNCHANGED schema
         \/ schema'.tables = Tables!Tables(p) /\ Tables!Working(p)
  PROVE  Consistent'
<1>1. proc'[p] = e /\ \A q \in Processes \ {p} : proc'[q] = proc[q]
  <2>1. proc \in [Processes -> Entry]
    BY EntryOfTypeOK DEF InOrder
  <2> QED BY <2>1
<1>2. Closed(schema.tables) /\ \A q \in Processes : Closed(Tables!Tables(q)) /\ Passed(q)
  BY DEF Consistent
<1>3. Closed(schema'.tables)
  BY <1>2
<1>4. Tables!Tables(p)' = schema'.tables /\ proc'[p].left = {}
  BY <1>1 DEF Tables!Tables, Tables!None
<1>5. ASSUME NEW q \in Processes \ {p}
      PROVE  Closed(Tables!Tables(q)') /\ Passed(q)'
  <2>0. Tables!Tables(q)' = (schema'.tables \cup proc[q].own.tables) \ proc[q].own.dropped
    BY <1>1 DEF Tables!Tables
  <2>1. CASE UNCHANGED schema
    <3>1. Tables!Tables(q)' = Tables!Tables(q)
      BY <2>0, <2>1 DEF Tables!Tables
    <3> QED BY <1>1, <1>2, <3>1 DEF Passed, Tables!At
  <2>2. CASE ~Tables!Working(q)
    <3>1. proc[q].left = {} /\ proc[q].own = Tables!None
      BY <2>2, TablesTyped
    <3>2. Tables!Tables(q)' = schema'.tables
      BY <2>0, <3>1 DEF Tables!None
    <3> QED BY <1>1, <1>3, <3>1, <3>2 DEF Passed
  <2>3. CASE Tables!Working(q) /\ schema'.tables = Tables!Tables(p) /\ Tables!Working(p)
    <3>1. /\ proc[q].todo \notin TakingDown /\ proc[p].todo \notin TakingDown
          /\ RestOfScript(proc[q]) /\ RestOfScript(proc[p])
      BY <2>3, TablesTyped
    <3>2. proc[q].own.dropped = {} /\ proc[p].own.dropped = {} /\ ~Tables!At(q, "downgrade")
      BY <3>1, AgendaOfHead DEF RestOfScript, Tables!At
    <3>3. /\ schema.tables \subseteq schema'.tables
          /\ Tables!Tables(q) = schema.tables \cup proc[q].own.tables
          /\ Tables!Tables(q)' = schema'.tables \cup proc[q].own.tables
      BY <2>0, <2>3, <3>2 DEF Tables!Tables
    <3>4. Closed(Tables!Tables(q)')
      BY <1>2, <1>3, <3>3 DEF Closed
    <3>5. Passed(q)'
      BY <1>1, <1>2, <3>2, <3>3 DEF Passed, Tables!At
    <3> QED BY <3>4, <3>5
  <2> QED BY <2>1, <2>2, <2>3
<1>6. Consistent' <=> /\ Closed(schema.tables)'
                      /\ \A q \in Processes : Closed(Tables!Tables(q))' /\ Passed(q)'
  BY DEF Consistent
<1>7. Closed(schema.tables)' /\ \A q \in Processes : Closed(Tables!Tables(q))' /\ Passed(q)'
  <2>1. \A q \in Processes \ {p} : Closed(Tables!Tables(q))' /\ Passed(q)'
    BY <1>5 DEF Closed
  <2>2. Closed(Tables!Tables(p))' /\ Passed(p)' /\ Closed(schema.tables)'
    BY <1>3, <1>4 DEF Closed, Passed
  <2> QED BY <2>1, <2>2
<1> QED BY <1>6, <1>7

\* Looking changes nothing; a migration has passed nothing yet, and create_all what
\* is there.
LEMMA ClosedLooked ==
  ASSUME InOrder, Consistent, NEW p \in Processes, NEW left,
         proc' = [proc EXCEPT ![p] = [proc[p] EXCEPT !.looked = TRUE, !.left = left]],
         UNCHANGED schema,
         Tables!At(p, "upgrade") => left \in {{}, DOMAIN UpgradeOrder},
         Tables!At(p, "downgrade") => left \in {{}, DOMAIN DowngradeOrder},
         Tables!At(p, "create") =>
           \A i \in DOMAIN SortedTables \ left : SortedTables[i] \in Tables!Tables(p)
  PROVE  Consistent'
<1>1. /\ proc'[p].left = left /\ proc'[p].todo = proc[p].todo /\ proc'[p].own = proc[p].own
      /\ \A q \in Processes \ {p} : proc'[q] = proc[q]
  <2>1. proc \in [Processes -> Entry] /\ proc[p] \in Entry
    BY EntryOfTypeOK DEF InOrder
  <2>2. proc'[p] = [proc[p] EXCEPT !.looked = TRUE, !.left = left]
    BY <2>1
  <2> QED BY <2>1, <2>2 DEF Entry
<1>2. \A q \in Processes : proc'[q].own = proc[q].own
  BY <1>1
<1>3. \A q \in Processes : Tables!Tables(q)' = Tables!Tables(q)
  BY <1>2 DEF Tables!Tables
<1>4. Passed(p)'
  BY <1>1, <1>3 DEF Passed, Tables!At
<1>5. \A q \in Processes \ {p} : Passed(q)'
  BY <1>1, <1>3 DEF Passed, Tables!At, Consistent
<1> QED BY <1>3, <1>4, <1>5 DEF Consistent, Closed

LEMMA ChangesTyped ==
  ASSUME NEW t \in Tables!Entities, LateTables \subseteq Tables!Entities
  PROVE  /\ t \in LateTables => [Tables!None EXCEPT !.late = {t}] \in Tables!Changes
         /\ [Tables!None EXCEPT !.tables = {t}, !.late = {t} \cap LateTables] \in Tables!Changes
         /\ [Tables!None EXCEPT !.tables = {t}] \in Tables!Changes
         /\ [Tables!None EXCEPT !.dropped = {t}] \in Tables!Changes
BY DEF Tables!None, Tables!Changes

\* A column that is added.
LEMMA Altered ==
  ASSUME Tables!SchemaAssumption, InOrder, NEW p \in Processes, NEW i \in Tables!Due(p),
         Tables!At(p, "sync"),
         NEW change, change = [Tables!None EXCEPT !.late = {SortedTables[i]}]
  PROVE  /\ i \in proc[p].left /\ Tables!Working(p) /\ i \in DOMAIN SortedTables
         /\ SortedTables[i] \in LateTables
         /\ change \in Tables!Changes /\ change.tables = {} /\ change.dropped = {}
         /\ change.late = {SortedTables[i]}
<1>1. i \in proc[p].left /\ Tables!Working(p)
  BY DEF Tables!Due, Tables!Working, Tables!At
<1>2. i \in DOMAIN SortedTables /\ SortedTables[i] \in LateTables
  BY <1>1, TablesTyped DEF RestOfScript, Tables!At, ListOf
<1>3. SortedTables[i] \in Tables!Entities /\ LateTables \subseteq Tables!Entities
  BY <1>2, ListedOnce DEF Tables!SchemaAssumption
<1>4. change \in Tables!Changes
  BY <1>2, <1>3, ChangesTyped
<1> QED BY <1>1, <1>2, <1>4 DEF Tables!None

\* A table that create_all makes: those it refers to come before it in the list.
LEMMA ReferencesMade ==
  ASSUME Tables!SchemaAssumption, InOrder, Consistent, NEW p \in Processes, NEW i \in Tables!Due(p),
         Tables!At(p, "create")
  PROVE  References[SortedTables[i]] \subseteq Tables!Tables(p)
<1>1. i \in proc[p].left /\ i \in DOMAIN SortedTables /\ proc[p].left \subseteq Nat
  BY TablesTyped DEF Tables!Due, RestOfScript, Tables!At, ListOf, Entry
<1>2. SortedTables[i] \in Tables!Entities
  BY <1>1, ListedOnce DEF Tables!SchemaAssumption
<1>3. SUFFICES ASSUME NEW u \in References[SortedTables[i]] PROVE u \in Tables!Tables(p)
  OBVIOUS
<1>4. PICK j \in DOMAIN SortedTables : SortedTables[j] = u
  BY <1>2, ListedOnce DEF Tables!SchemaAssumption
<1>5. j < i /\ j \in Nat /\ i \in Nat
  BY <1>1, <1>4, ListedOnce DEF Tables!SchemaAssumption, Tables!Follows
<1>6. j \notin proc[p].left
  BY <1>5 DEF Tables!Due
<1> QED BY <1>1, <1>4, <1>6 DEF Consistent, Passed

LEMMA Created ==
  ASSUME Tables!SchemaAssumption, InOrder, NEW p \in Processes, NEW i \in Tables!Due(p),
         Tables!At(p, "create"),
         NEW change, change = [Tables!None EXCEPT !.tables = {SortedTables[i]},
                                                  !.late = {SortedTables[i]} \cap LateTables]
  PROVE  /\ i \in proc[p].left /\ Tables!Working(p) /\ i \in DOMAIN SortedTables
         /\ SortedTables[i] \in Tables!Entities
         /\ change \in Tables!Changes /\ change.tables = {SortedTables[i]} /\ change.dropped = {}
         /\ change.late = {SortedTables[i]} \cap LateTables
         /\ proc[p].own.dropped = {}
<1>1. i \in proc[p].left /\ Tables!Working(p)
  BY DEF Tables!Due, Tables!Working, Tables!At
<1>2. i \in DOMAIN SortedTables
  BY <1>1, TablesTyped DEF RestOfScript, Tables!At, ListOf
<1>3. SortedTables[i] \in Tables!Entities /\ LateTables \subseteq Tables!Entities
  BY <1>2, ListedOnce DEF Tables!SchemaAssumption
<1>4. change \in Tables!Changes
  BY <1>3, ChangesTyped
<1>5. proc[p].own.dropped = {}
  BY TablesTyped DEF RestOfScript, Tables!At
<1> QED BY <1>1, <1>2, <1>3, <1>4, <1>5 DEF Tables!None

\* A table that upgrade makes: those it refers to come before it in the list.
LEMMA Upgraded ==
  ASSUME Tables!SchemaAssumption, InOrder, Consistent, NEW p \in Processes, NEW i \in Tables!Due(p),
         Tables!At(p, "upgrade"),
         NEW change, change = [Tables!None EXCEPT !.tables = {UpgradeOrder[i]}],
         transactional => References[UpgradeOrder[i]] \subseteq Tables!Tables(p)
  PROVE  /\ i \in proc[p].left /\ Tables!Working(p) /\ i \in DOMAIN UpgradeOrder
         /\ UpgradeOrder[i] \in Tables!Entities
         /\ change \in Tables!Changes /\ change.tables = {UpgradeOrder[i]} /\ change.dropped = {}
         /\ change.late = {} /\ proc[p].own.dropped = {}
         /\ References[UpgradeOrder[i]] \subseteq Tables!Tables(p)
<1>1. i \in proc[p].left /\ Tables!Working(p)
  BY DEF Tables!Due, Tables!Working, Tables!At
<1>2. i \in DOMAIN UpgradeOrder /\ proc[p].left \subseteq Nat
  BY <1>1, TablesTyped DEF RestOfScript, Tables!At, ListOf, Entry
<1>3. UpgradeOrder[i] \in Tables!Entities /\ LateTables \subseteq Tables!Entities
  BY <1>2, ListedOnce DEF Tables!SchemaAssumption
<1>4. change \in Tables!Changes
  BY <1>3, ChangesTyped
<1>5. proc[p].own.dropped = {}
  BY TablesTyped DEF RestOfScript, Tables!At
<1>6. ASSUME NEW u \in References[UpgradeOrder[i]]
      PROVE  u \in Tables!Tables(p)
  <2>1. u \in Tables!Entities
    BY <1>3 DEF Tables!SchemaAssumption
  <2>2. PICK j \in DOMAIN UpgradeOrder : UpgradeOrder[j] = u
    BY <2>1, ListedOnce DEF Tables!SchemaAssumption
  <2>3. j < i /\ j \in Nat /\ i \in Nat
    BY <1>2, <2>2, ListedOnce DEF Tables!SchemaAssumption, Tables!Follows
  <2>4. j \notin proc[p].left
    BY <2>3 DEF Tables!Due
  <2> QED BY <1>1, <2>2, <2>4 DEF Consistent, Passed
<1> QED BY <1>1, <1>2, <1>3, <1>4, <1>5, <1>6 DEF Tables!None

\* A table that downgrade drops: those that refer to it come before it.
LEMMA Downgraded ==
  ASSUME Tables!SchemaAssumption, InOrder, Consistent, NEW p \in Processes, NEW i \in Tables!Due(p),
         Tables!At(p, "downgrade"),
         NEW change, change = [Tables!None EXCEPT !.dropped = {DowngradeOrder[i]}],
         transactional =>
           ~\E u \in Tables!Tables(p) \ {DowngradeOrder[i]} : DowngradeOrder[i] \in References[u]
  PROVE  /\ i \in proc[p].left /\ Tables!Working(p) /\ i \in DOMAIN DowngradeOrder
         /\ DowngradeOrder[i] \in Tables!Entities
         /\ change \in Tables!Changes /\ change.dropped = {DowngradeOrder[i]} /\ change.tables = {}
         /\ change.late = {}
         /\ \A u \in Tables!Tables(p) \ {DowngradeOrder[i]} : DowngradeOrder[i] \notin References[u]
<1>1. i \in proc[p].left /\ Tables!Working(p)
  BY DEF Tables!Due, Tables!Working, Tables!At
<1>2. i \in DOMAIN DowngradeOrder /\ proc[p].left \subseteq Nat
  BY <1>1, TablesTyped DEF RestOfScript, Tables!At, ListOf, Entry
<1>3. DowngradeOrder[i] \in Tables!Entities /\ LateTables \subseteq Tables!Entities
  BY <1>2, ListedOnce DEF Tables!SchemaAssumption
<1>4. change \in Tables!Changes
  BY <1>3, ChangesTyped
<1>6. ASSUME NEW u \in Tables!Tables(p) \ {DowngradeOrder[i]}
      PROVE  DowngradeOrder[i] \notin References[u]
  <2>1. SUFFICES ASSUME DowngradeOrder[i] \in References[u] PROVE FALSE
    OBVIOUS
  <2>2. PICK j \in DOMAIN DowngradeOrder : DowngradeOrder[j] = u
    BY TablesTyped, ListedOnce DEF Tables!SchemaAssumption
  <2>3. j < i /\ j \in Nat /\ i \in Nat
    BY <1>2, <2>1, <2>2, ListedOnce DEF Tables!SchemaAssumption
  <2>4. j \notin proc[p].left
    BY <2>3 DEF Tables!Due
  <2> QED BY <1>1, <2>2, <2>4 DEF Consistent, Passed
<1> QED BY <1>1, <1>2, <1>3, <1>4, <1>6 DEF Tables!None

\* What executing a statement leaves of the process.
LEMMA ExecutedFields ==
  ASSUME InOrder, NEW p \in Processes, NEW change \in Tables!Changes, NEW i,
         Tables!Execute(p, change, i)
  PROVE  /\ proc'[p].todo = proc[p].todo /\ proc'[p].looked = proc[p].looked
         /\ proc'[p].alone = proc[p].alone /\ proc'[p].left = proc[p].left \ {i}
         /\ proc'[p].own = IF transactional THEN Tables!Joined(proc[p].own, change) ELSE proc[p].own
         /\ schema' = After(change) /\ schema' \in Schemas
         /\ \A q \in Processes \ {p} : proc'[q] = proc[q]
<1>1. proc' = [proc EXCEPT ![p] = Done(p, change, i)]
  BY Executed
<1>2. proc'[p] = Done(p, change, i) /\ \A q \in Processes \ {p} : proc'[q] = proc[q]
  BY <1>1, EntryOfTypeOK DEF InOrder
<1> QED BY <1>2, Executed

LEMMA AlterKeeps ==
  ASSUME Tables!SchemaAssumption, InOrder, Consistent, NEW p \in Processes, NEW i \in Tables!Due(p),
         Tables!At(p, "sync"), SortedTables[i] \in Tables!Tables(p),
         Tables!Execute(p, [Tables!None EXCEPT !.late = {SortedTables[i]}], i),
         UNCHANGED <<transactional, starts>>
  PROVE  InOrder' /\ Consistent'
<1> DEFINE change == [Tables!None EXCEPT !.late = {SortedTables[i]}]
<1>1. /\ i \in proc[p].left /\ Tables!Working(p)
      /\ change \in Tables!Changes /\ change.tables = {} /\ change.dropped = {}
      /\ change.late = {SortedTables[i]} /\ Tables!Execute(p, change, i)
  BY Altered
<1> HIDE DEF change
<1>2. InOrder'
  <2>1. change.late \subseteq schema.tables \cup proc[p].own.tables \cup change.tables
    BY <1>1 DEF Tables!Tables
  <2> QED BY <1>1, <2>1, OrderExecuted
<1>3. Passed(p)'
  <2>1. proc'[p].todo = proc[p].todo
    BY <1>1, ExecutedFields
  <2> QED BY <2>1 DEF Passed, Tables!At
<1>4. Closed((Tables!Tables(p) \cup change.tables) \ change.dropped)
  BY <1>1 DEF Consistent
<1>5. Consistent'
  BY <1>1, <1>3, <1>4, ClosedExecuted
<1> QED BY <1>2, <1>5

LEMMA CreateKeeps ==
  ASSUME Tables!SchemaAssumption, InOrder, Consistent, NEW p \in Processes, NEW i \in Tables!Due(p),
         Tables!At(p, "create"),
         Tables!Execute(p, [Tables!None EXCEPT !.tables = {SortedTables[i]},
                                               !.late = {SortedTables[i]} \cap LateTables], i),
         UNCHANGED <<transactional, starts>>
  PROVE  InOrder' /\ Consistent'
<1> DEFINE change == [Tables!None EXCEPT !.tables = {SortedTables[i]},
                                         !.late = {SortedTables[i]} \cap LateTables]
<1>1. /\ i \in proc[p].left /\ Tables!Working(p)
      /\ change \in Tables!Changes /\ change.tables = {SortedTables[i]} /\ change.dropped = {}
      /\ change.late = {SortedTables[i]} \cap LateTables /\ proc[p].own.dropped = {}
      /\ Tables!Execute(p, change, i)
  BY Created
<1> HIDE DEF change
<1>2. InOrder'
  BY <1>1, OrderExecuted DEF Tables!At
<1>3. Passed(p)'
  <2>1. proc'[p].todo = proc[p].todo /\ proc'[p].left = proc[p].left \ {i}
    BY <1>1, ExecutedFields
  <2>2. Tables!Tables(p)' = (Tables!Tables(p) \cup change.tables) \ change.dropped
    BY <1>1, TablesExecuted
  <2>3. \A j \in DOMAIN SortedTables \ proc'[p].left : SortedTables[j] \in Tables!Tables(p)'
    BY <1>1, <2>1, <2>2 DEF Consistent, Passed
  <2> QED BY <2>1, <2>3 DEF Passed, Tables!At
<1>4. Closed((Tables!Tables(p) \cup change.tables) \ change.dropped)
  BY <1>1, ReferencesMade DEF Consistent, Closed
<1>5. Consistent'
  BY <1>1, <1>3, <1>4, ClosedExecuted
<1> QED BY <1>2, <1>5

LEMMA UpgradeKeeps ==
  ASSUME Tables!SchemaAssumption, InOrder, Consistent, NEW p \in Processes, NEW i \in Tables!Due(p),
         Tables!At(p, "upgrade"),
         transactional => References[UpgradeOrder[i]] \subseteq Tables!Tables(p),
         Tables!Execute(p, [Tables!None EXCEPT !.tables = {UpgradeOrder[i]}], i),
         UNCHANGED <<transactional, starts>>
  PROVE  InOrder' /\ Consistent'
<1> DEFINE change == [Tables!None EXCEPT !.tables = {UpgradeOrder[i]}]
<1>1. /\ i \in proc[p].left /\ Tables!Working(p)
      /\ change \in Tables!Changes /\ change.tables = {UpgradeOrder[i]} /\ change.dropped = {}
      /\ change.late = {} /\ proc[p].own.dropped = {}
      /\ References[UpgradeOrder[i]] \subseteq Tables!Tables(p)
      /\ Tables!Execute(p, change, i)
  BY Upgraded
<1> HIDE DEF change
<1>2. InOrder'
  BY <1>1, OrderExecuted DEF Tables!At
<1>3. Passed(p)'
  <2>1. proc'[p].todo = proc[p].todo /\ proc'[p].left = proc[p].left \ {i}
    BY <1>1, ExecutedFields
  <2>2. Tables!Tables(p)' = (Tables!Tables(p) \cup change.tables) \ change.dropped
    BY <1>1, TablesExecuted
  <2>3. \A j \in DOMAIN UpgradeOrder \ proc'[p].left : UpgradeOrder[j] \in Tables!Tables(p)'
    BY <1>1, <2>1, <2>2 DEF Consistent, Passed
  <2> QED BY <2>1, <2>3 DEF Passed, Tables!At
<1>4. Closed((Tables!Tables(p) \cup change.tables) \ change.dropped)
  BY <1>1 DEF Consistent, Closed
<1>5. Consistent'
  BY <1>1, <1>3, <1>4, ClosedExecuted
<1> QED BY <1>2, <1>5

LEMMA DowngradeKeeps ==
  ASSUME Tables!SchemaAssumption, InOrder, Consistent, NEW p \in Processes, NEW i \in Tables!Due(p),
         Tables!At(p, "downgrade"),
         transactional =>
           ~\E u \in Tables!Tables(p) \ {DowngradeOrder[i]} : DowngradeOrder[i] \in References[u],
         Tables!Execute(p, [Tables!None EXCEPT !.dropped = {DowngradeOrder[i]}], i),
         UNCHANGED <<transactional, starts>>
  PROVE  InOrder' /\ Consistent'
<1> DEFINE change == [Tables!None EXCEPT !.dropped = {DowngradeOrder[i]}]
<1>1. /\ i \in proc[p].left /\ Tables!Working(p)
      /\ change \in Tables!Changes /\ change.dropped = {DowngradeOrder[i]} /\ change.tables = {}
      /\ change.late = {}
      /\ \A u \in Tables!Tables(p) \ {DowngradeOrder[i]} : DowngradeOrder[i] \notin References[u]
      /\ Tables!Execute(p, change, i)
  BY Downgraded
<1> HIDE DEF change
<1>2. InOrder'
  BY <1>1, OrderExecuted
<1>3. Passed(p)'
  <2>1. proc'[p].todo = proc[p].todo /\ proc'[p].left = proc[p].left \ {i}
    BY <1>1, ExecutedFields
  <2>2. Tables!Tables(p)' = (Tables!Tables(p) \cup change.tables) \ change.dropped
    BY <1>1, TablesExecuted
  <2>3. \A j \in DOMAIN DowngradeOrder \ proc'[p].left : DowngradeOrder[j] \notin Tables!Tables(p)'
    BY <1>1, <2>1, <2>2 DEF Consistent, Passed
  <2> QED BY <2>1, <2>3 DEF Passed, Tables!At
<1>4. Closed((Tables!Tables(p) \cup change.tables) \ change.dropped)
  <2>1. ASSUME NEW v \in Tables!Tables(p) \ {DowngradeOrder[i]}
        PROVE  References[v] \subseteq Tables!Tables(p) \ {DowngradeOrder[i]}
    BY <1>1 DEF Consistent, Closed
  <2> QED BY <1>1, <2>1 DEF Closed
<1>5. Consistent'
  BY <1>1, <1>3, <1>4, ClosedExecuted
<1> QED BY <1>2, <1>5

-----------------------------------------------------------------------------
(* The schema served is whole.                                             *)

\* Where p works, a process on its way that is not p serves already: nothing p does
\* takes anything from it, as p does not take the schema down.
LEMMA OthersOnTheWay ==
  ASSUME InOrder, \A q \in Processes : OnTheWay(q), NEW p \in Processes, Tables!Working(p),
         \A q \in Processes \ {p} : proc'[q] = proc[q], schema' \in Schemas,
         proc[p].todo \notin TakingDown =>
           schema.tables \subseteq schema'.tables /\ schema.late \subseteq schema'.late
  PROVE  \A q \in Processes \ {p} : OnTheWay(q)'
<1>1. SUFFICES ASSUME NEW q \in Processes \ {p}, proc[q].alone PROVE OnTheWay(q)'
  BY DEF OnTheWay
<1>2. ~Tables!Working(q)
  BY <1>1 DEF OnTheWay
<1>3. /\ RestOfScript(proc[q]) /\ proc[q].left = {} /\ proc[q].own = Tables!None
      /\ proc'[q] = proc[q] /\ ~proc[q].looked
  BY <1>2, TablesTyped DEF RestOfScript, Tables!Working, Tables!At
<1>4. proc[q].todo \notin Opening \cup Making
  BY <1>2, <1>3, AgendaHeads DEF RestOfScript, Tables!Working, Tables!At
<1>5. ~Tables!Working(q)'
  BY <1>2, <1>3 DEF Tables!Working, Tables!At
<1>6. ASSUME proc[q].todo \in Made PROVE Whole'
  <2>1. Whole
    BY <1>1, <1>6 DEF OnTheWay
  <2>2. proc[p].todo \notin TakingDown
    <3>1. Head(proc[q].todo) # "gone"
      BY <1>3, <1>6, AgendaHeads DEF RestOfScript
    <3> QED BY <3>1, TablesTyped DEF Exclusive
  <2> QED BY <2>1, <2>2 DEF Whole, Schemas
<1> QED BY <1>3, <1>4, <1>5, <1>6 DEF OnTheWay

\* When no other works: what the schema and the transaction of p come to.
LEMMA EffectExecuted ==
  ASSUME InOrder, NEW p \in Processes, NEW change \in Tables!Changes, NEW i,
         Tables!Execute(p, change, i), change.dropped = {}
  PROVE  /\ schema'.tables \cup proc'[p].own.tables
              = schema.tables \cup proc[p].own.tables \cup change.tables
         /\ schema'.late \cup proc'[p].own.late
              = schema.late \cup proc[p].own.late \cup change.late
         /\ schema.tables \subseteq schema'.tables /\ schema.late \subseteq schema'.late
         /\ schema'.tables \subseteq schema.tables \cup change.tables
         /\ \/ schema'.late = schema.late
            \/ schema'.late = schema.late \cup change.late
<1>1. /\ proc'[p].own = IF transactional THEN Tables!Joined(proc[p].own, change) ELSE proc[p].own
      /\ schema' = After(change)
  BY ExecutedFields
<1>2. schema \in Schemas
  BY EntryOfTypeOK DEF InOrder
<1>3. CASE transactional
  <2>1. schema' = schema /\ proc'[p].own = Tables!Joined(proc[p].own, change)
    BY <1>1, <1>3 DEF After
  <2> QED BY <2>1 DEF Tables!Joined
<1>4. CASE ~transactional
  <2>1. schema' = Tables!Applied(change) /\ proc'[p].own = proc[p].own
    BY <1>1, <1>4 DEF After
  <2>2. schema'.tables = schema.tables \cup change.tables /\ schema'.late = schema.late \cup change.late
    BY <1>2, <2>1 DEF Tables!Applied, Schemas
  <2> QED BY <2>1, <2>2
<1> QED BY <1>3, <1>4

\* A migration promises nothing of the schema it leaves.
LEMMA MigrationOnTheWay ==
  ASSUME NEW p \in Processes, OnTheWay(p), Tables!Working(p),
         \A q \in Processes \ {p} : proc'[q] = proc[q], proc'[p].alone = proc[p].alone,
         proc'[p].todo \in Migrating \cup TakingDown
  PROVE  OnTheWay(p)'
<1>1. proc'[p].todo \notin Opening \cup Making \cup Made
  BY AgendasDiffer DEF Agendas
<1>2. proc[p].alone => \A q \in Processes \ {p} : ~Tables!Working(q)'
  BY DEF OnTheWay, Tables!Working, Tables!At
<1> QED BY <1>1, <1>2 DEF OnTheWay

LEMMA AlterOnTheWay ==
  ASSUME Tables!SchemaAssumption, InOrder, \A q \in Processes : OnTheWay(q),
         NEW p \in Processes, NEW i \in Tables!Due(p), Tables!At(p, "sync"),
         Tables!Execute(p, [Tables!None EXCEPT !.late = {SortedTables[i]}], i)
  PROVE  \A q \in Processes : OnTheWay(q)'
<1> DEFINE change == [Tables!None EXCEPT !.late = {SortedTables[i]}]
<1>1. /\ i \in proc[p].left /\ Tables!Working(p) /\ i \in DOMAIN SortedTables
      /\ change \in Tables!Changes /\ change.tables = {} /\ change.dropped = {}
      /\ change.late = {SortedTables[i]} /\ Tables!Execute(p, change, i)
  BY Altered
<1> HIDE DEF change
<1>2. /\ proc'[p].todo = proc[p].todo /\ proc'[p].looked = proc[p].looked
      /\ proc'[p].alone = proc[p].alone /\ proc'[p].left = proc[p].left \ {i}
      /\ schema' \in Schemas /\ \A q \in Processes \ {p} : proc'[q] = proc[q]
  BY <1>1, ExecutedFields
<1>3. /\ schema'.late \cup proc'[p].own.late = schema.late \cup proc[p].own.late \cup {SortedTables[i]}
      /\ schema'.tables = schema.tables /\ schema.late \subseteq schema'.late
      /\ schema'.late \subseteq schema.late \cup {SortedTables[i]}
  BY <1>1, EffectExecuted
<1>4. \A q \in Processes \ {p} : OnTheWay(q)'
  BY <1>1, <1>2, <1>3, OthersOnTheWay
<1>5. OnTheWay(p)'
  <2>1. RestOfScript(proc[p]) /\ proc[p].todo \in Agendas /\ proc[p].left \subseteq DOMAIN SortedTables
    BY TablesTyped DEF RestOfScript, Tables!At, ListOf
  <2>2. CASE proc[p].todo \in Migrating \cup TakingDown
    BY <1>1, <1>2, <2>2, MigrationOnTheWay
  <2>3. CASE proc[p].todo \in Opening /\ proc[p].alone
    <3>1. /\ proc[p].looked /\ proc'[p].todo \notin Making \cup Made
      BY <1>1, <1>2, <2>1, <2>3, AgendasDiffer DEF RestOfScript
    <3>2. \A j \in proc[p].left \ {i} : SortedTables[j] # SortedTables[i]
      BY <1>1, <2>1, ListedOnce DEF Tables!SchemaAssumption
    <3>3. \A j \in proc'[p].left : SortedTables[j] \in (schema'.tables \cap LateTables) \ schema'.late
      BY <1>2, <1>3, <2>3, <3>1, <3>2 DEF OnTheWay
    <3>4. \A t \in (schema'.tables \cap LateTables) \ (schema'.late \cup proc'[p].own.late) :
            \E j \in proc'[p].left : SortedTables[j] = t
      BY <1>2, <1>3, <2>3, <3>1 DEF OnTheWay
    <3>5. \A q \in Processes \ {p} : ~Tables!Working(q)'
      BY <1>1, <1>2, <2>3 DEF OnTheWay, Tables!Working, Tables!At
    <3> QED BY <3>1, <3>3, <3>4, <3>5 DEF OnTheWay
  <2>4. CASE proc[p].todo \in Making
    BY <2>1, <2>4, AgendaHeads DEF Tables!At
  <2>5. CASE proc[p].todo \in Made /\ proc[p].alone
    BY <1>1, <2>5 DEF OnTheWay
  <2>6. CASE ~proc[p].alone
    BY <1>2, <2>6 DEF OnTheWay
  <2> QED BY <2>1, <2>2, <2>3, <2>4, <2>5, <2>6 DEF Agendas
<1> QED BY <1>4, <1>5

LEMMA CreateOnTheWay ==
  ASSUME Tables!SchemaAssumption, InOrder, \A q \in Processes : OnTheWay(q),
         NEW p \in Processes, NEW i \in Tables!Due(p), Tables!At(p, "create"),
         Tables!Execute(p, [Tables!None EXCEPT !.tables = {SortedTables[i]},
                                               !.late = {SortedTables[i]} \cap LateTables], i)
  PROVE  \A q \in Processes : OnTheWay(q)'
<1> DEFINE change == [Tables!None EXCEPT !.tables = {SortedTables[i]},
                                         !.late = {SortedTables[i]} \cap LateTables]
<1>1. /\ i \in proc[p].left /\ Tables!Working(p) /\ i \in DOMAIN SortedTables
      /\ change \in Tables!Changes /\ change.tables = {SortedTables[i]} /\ change.dropped = {}
      /\ change.late = {SortedTables[i]} \cap LateTables /\ Tables!Execute(p, change, i)
  BY Created
<1> HIDE DEF change
<1>2. /\ proc'[p].todo = proc[p].todo /\ proc'[p].looked = proc[p].looked
      /\ proc'[p].alone = proc[p].alone /\ proc'[p].left = proc[p].left \ {i}
      /\ schema' \in Schemas /\ \A q \in Processes \ {p} : proc'[q] = proc[q]
  BY <1>1, ExecutedFields
<1>3. /\ schema'.late \cup proc'[p].own.late
           = schema.late \cup proc[p].own.late \cup ({SortedTables[i]} \cap LateTables)
      /\ schema'.tables \cup proc'[p].own.tables
           = schema.tables \cup proc[p].own.tables \cup {SortedTables[i]}
      /\ schema.tables \subseteq schema'.tables /\ schema.late \subseteq schema'.late
  BY <1>1, EffectExecuted
<1>4. \A q \in Processes \ {p} : OnTheWay(q)'
  BY <1>1, <1>2, <1>3, OthersOnTheWay
<1>5. OnTheWay(p)'
  <2>1. RestOfScript(proc[p]) /\ proc[p].todo \in Making
    BY TablesTyped, AgendaOfHead DEF RestOfScript, Tables!At
  <2>2. /\ proc[p].looked
        /\ proc'[p].todo \in Making /\ proc'[p].todo \notin Opening \cup Made
    BY <1>1, <1>2, <2>1, AgendasDiffer DEF RestOfScript
  <2>3. CASE proc[p].alone
    <3>1. \A q \in Processes \ {p} : ~Tables!Working(q)'
      BY <1>1, <1>2, <2>3 DEF OnTheWay, Tables!Working, Tables!At
    <3>2. /\ (schema.tables \cup proc[p].own.tables) \cap LateTables
               \subseteq schema.late \cup proc[p].own.late
          /\ \A t \in Tables!Entities \ (schema.tables \cup proc[p].own.tables) :
                \E j \in proc[p].left : SortedTables[j] = t
      BY <2>1, <2>2, <2>3 DEF OnTheWay
    <3>3. (schema'.tables \cup proc'[p].own.tables) \cap LateTables
               \subseteq schema'.late \cup proc'[p].own.late
      BY <1>3, <3>2
    <3>4. \A t \in Tables!Entities \ (schema'.tables \cup proc'[p].own.tables) :
                \E j \in proc'[p].left : SortedTables[j] = t
      BY <1>2, <1>3, <3>2
    <3> QED BY <2>2, <3>1, <3>3, <3>4 DEF OnTheWay
  <2>4. CASE ~proc[p].alone
    BY <1>2, <2>4 DEF OnTheWay
  <2> QED BY <2>3, <2>4
<1> QED BY <1>4, <1>5

\* A statement of a migration.
LEMMA MigrateOnTheWay ==
  ASSUME InOrder, \A q \in Processes : OnTheWay(q),
         NEW p \in Processes, Tables!At(p, "upgrade") \/ Tables!At(p, "downgrade"),
         NEW change \in Tables!Changes, NEW i, Tables!Execute(p, change, i),
         Tables!At(p, "upgrade") => change.dropped = {}
  PROVE  \A q \in Processes : OnTheWay(q)'
<1>1. /\ proc'[p].todo = proc[p].todo /\ proc'[p].alone = proc[p].alone
      /\ schema' \in Schemas /\ \A q \in Processes \ {p} : proc'[q] = proc[q]
  BY ExecutedFields
<1>2. /\ proc[p].todo \in Migrating \cup TakingDown /\ Tables!Working(p)
      /\ Tables!At(p, "downgrade") => proc[p].todo \in TakingDown
  BY TablesTyped, AgendaOfHead DEF RestOfScript, Tables!At, Tables!Working
<1>3. Tables!At(p, "upgrade") =>
        schema.tables \subseteq schema'.tables /\ schema.late \subseteq schema'.late
  BY EffectExecuted
<1> QED BY <1>1, <1>2, <1>3, OthersOnTheWay, MigrationOnTheWay

-----------------------------------------------------------------------------
\* A phase that ends.
LEMMA ProceedOnTheWay ==
  ASSUME Tables!SchemaAssumption, InOrder, \A q \in Processes : OnTheWay(q), NEW p \in Processes,
         Tables!Proceed(p), Tables!Working(p), schema' \in Schemas,
         \/ /\ UNCHANGED schema
            /\ proc[p].alone => proc[p].todo \in Migrating \cup TakingDown
         \/ /\ schema'.tables = (schema.tables \cup proc[p].own.tables) \ proc[p].own.dropped
            /\ schema'.late = (schema.late \cup proc[p].own.late) \ proc[p].own.dropped
            /\ Tables!Finished(p)
  PROVE  \A q \in Processes : OnTheWay(q)'
<1>1. /\ RestOfScript(proc[p]) /\ proc[p] \in Entry /\ proc[p].todo \in Agendas
      /\ proc \in [Processes -> Entry]
  BY TablesTyped, EntryOfTypeOK DEF RestOfScript, InOrder
<1>2. proc'[p] = Following(p) /\ \A q \in Processes \ {p} : proc'[q] = proc[q]
  BY <1>1, Proceeded
<1>3. /\ proc'[p].todo = Tail(proc[p].todo) /\ ~proc'[p].looked /\ proc'[p].left = {}
      /\ proc'[p].own = Tables!None /\ proc'[p].alone = proc[p].alone
  BY <1>2 DEF Following, Tables!Beginning
<1>4. Tables!None.tables = {} /\ Tables!None.late = {} /\ Tables!None.dropped = {}
  BY DEF Tables!None
<1>5. proc[p].todo \notin TakingDown => proc[p].own.dropped = {}
  BY <1>1, AgendaOfHead DEF RestOfScript
<1>6. \A q \in Processes \ {p} : OnTheWay(q)'
  <2>1. proc[p].todo \notin TakingDown =>
           schema.tables \subseteq schema'.tables /\ schema.late \subseteq schema'.late
    BY <1>5
  <2> QED BY <1>2, <2>1, OthersOnTheWay
<1>7. OnTheWay(p)'
  <2>1. CASE ~proc[p].alone
    BY <1>3, <2>1 DEF OnTheWay
  <2>2. CASE proc[p].todo \in Migrating \cup TakingDown
    <3>1. proc'[p].todo \in Migrating \cup TakingDown
      <4>1. <<"gone">> \in Migrating
        BY DEF Migrating
      <4> QED BY <1>1, <1>3, <2>2, <4>1, AgendaHeads DEF Tables!Working, Tables!At
    <3> QED BY <1>2, <1>3, <3>1, MigrationOnTheWay
  <2>3. CASE proc[p].alone /\ proc[p].todo \notin Migrating \cup TakingDown
    <3>1. \A q \in Processes \ {p} : ~Tables!Working(q)'
      BY <1>2, <2>3 DEF OnTheWay, Tables!Working, Tables!At
    <3>2. /\ schema'.tables = schema.tables \cup proc[p].own.tables
          /\ schema'.late = schema.late \cup proc[p].own.late
          /\ proc[p].looked /\ proc[p].left = {}
      BY <1>5, <2>3 DEF Tables!Finished
    <3>3. CASE proc[p].todo \in Opening
      <4>1. /\ proc'[p].todo \in Making /\ proc'[p].todo \notin Opening \cup Made
            /\ Head(proc[p].todo) = "sync"
        BY <1>1, <1>3, <3>3, AgendaHeads, AgendasDiffer DEF Agendas
      <4>2. proc[p].own.tables = {}
        BY <1>1, <4>1 DEF RestOfScript
      <4>3. schema.tables \cap LateTables \subseteq schema.late \cup proc[p].own.late
        BY <2>3, <3>2, <3>3 DEF OnTheWay
      <4> QED BY <1>3, <1>4, <3>1, <3>2, <4>1, <4>2, <4>3 DEF OnTheWay
    <3>4. CASE proc[p].todo \in Making
      <4>1. proc'[p].todo \in Made /\ proc'[p].todo \notin Opening \cup Making
        BY <1>1, <1>3, <3>4, AgendaHeads, AgendasDiffer DEF Agendas
      <4>2. Tables!Entities \subseteq schema'.tables
        BY <2>3, <3>2, <3>4 DEF OnTheWay
      <4>3. schema'.tables \cap LateTables \subseteq schema'.late
        BY <2>3, <3>2, <3>4 DEF OnTheWay
      <4>4. LateTables \subseteq schema'.tables => Whole'
        BY <4>2, <4>3 DEF Whole, Schemas
      <4>5. LateTables \subseteq schema'.tables
        BY <4>2 DEF Tables!SchemaAssumption
      <4> QED BY <1>3, <3>1, <4>1, <4>4, <4>5 DEF OnTheWay
    <3>5. CASE proc[p].todo \in Made
      <4>1. proc'[p].todo \in Made /\ proc'[p].todo \notin Opening \cup Making
        <5>1. Head(proc[p].todo) = "sync"
          BY <1>1, <3>5, AgendaHeads DEF Tables!Working, Tables!At
        <5> QED BY <1>1, <1>3, <3>5, <5>1, AgendaHeads, AgendasDiffer DEF Agendas
      <4>2. Whole /\ proc[p].own = Tables!None
        BY <2>3, <3>5 DEF OnTheWay
      <4>3. Whole'
        BY <1>4, <3>2, <4>2 DEF Whole
      <4> QED BY <1>3, <3>1, <4>1, <4>3 DEF OnTheWay
    <3> QED BY <1>1, <2>3, <3>3, <3>4, <3>5 DEF Agendas
  <2> QED BY <2>1, <2>2, <2>3
<1> QED BY <1>6, <1>7

LEMMA AbortOnTheWay ==
  ASSUME InOrder, \A q \in Processes : OnTheWay(q), NEW p \in Processes, Tables!Abort(p)
  PROVE  \A q \in Processes : OnTheWay(q)'
<1>1. proc \in [Processes -> Entry]
  BY EntryOfTypeOK DEF InOrder
<1>2. UNCHANGED schema /\ proc'[p] = Tables!Gone /\ \A q \in Processes \ {p} : proc'[q] = proc[q]
  BY <1>1 DEF Tables!Abort
<1>3. Tables!Gone.todo = <<"gone">> /\ Head(<<"gone">>) = "gone"
  BY DEF Tables!Gone, Tables!Beginning
<1>4. <<"gone">> \notin Opening \cup Making \cup Made
  BY DEF Opening, Making, Made
<1>5. ~Tables!Working(p)'
  BY <1>2, <1>3 DEF Tables!Working, Tables!At
<1>6. OnTheWay(p)'
  BY <1>2, <1>3, <1>4, <1>5 DEF OnTheWay
<1>7. ASSUME NEW q \in Processes \ {p} PROVE OnTheWay(q)'
  <2>1. OnTheWay(q) /\ proc'[q] = proc[q]
    BY <1>2
  <2>2. \A r \in Processes \ {q} : Tables!Working(r)' => Tables!Working(r)
    BY <1>2, <1>5 DEF Tables!Working, Tables!At
  <2>3. Tables!Working(q)' <=> Tables!Working(q)
    BY <2>1 DEF Tables!Working, Tables!At
  <2> QED BY <1>2, <2>1, <2>2, <2>3 DEF OnTheWay, Whole
<1> QED BY <1>6, <1>7

LEMMA StartOnTheWay ==
  ASSUME InOrder, MaxStarts \in Nat, \A q \in Processes : OnTheWay(q), NEW p \in Processes,
         Tables!Start(p), UNCHANGED transactional
  PROVE  \A q \in Processes : OnTheWay(q)'
<1>1. /\ UNCHANGED schema
      /\ proc'[p] = Tables!Beginning(proc'[p].todo, \A q \in Processes : ~Tables!Working(q))
      /\ proc'[p].todo \in Opening \cup Migrating \cup TakingDown
      /\ \A q \in Processes \ {p} :
              \/ proc'[q] = proc[q] /\ ~Tables!Working(q)
              \/ Tables!Working(q) /\ proc'[q] = [proc[q] EXCEPT !.alone = FALSE]
      /\ \A q \in Processes \ {p} : proc'[q].todo = proc[q].todo
  BY OrderStarted
<1>2. \A q \in Processes \ {p} : Tables!Working(q)' <=> Tables!Working(q)
  BY <1>1 DEF Tables!Working, Tables!At
<1>3. OnTheWay(p)'
  <2>1. ~proc'[p].looked /\ (proc'[p].alone => \A q \in Processes : ~Tables!Working(q))
    BY <1>1 DEF Tables!Beginning
  <2>2. proc'[p].todo \notin Making \cup Made
    BY <1>1, AgendasDiffer DEF Agendas
  <2> QED BY <1>2, <2>1, <2>2 DEF OnTheWay
<1>4. ASSUME NEW q \in Processes \ {p} PROVE OnTheWay(q)'
  <2>1. CASE Tables!Working(q)
    <3>1. ~proc'[q].alone
      <4>1. proc[q] \in Entry
        BY EntryOfTypeOK DEF InOrder
      <4>2. proc'[q] = [proc[q] EXCEPT !.alone = FALSE]
        BY <1>1, <2>1
      <4> QED BY <4>1, <4>2 DEF Entry
    <3> QED BY <3>1 DEF OnTheWay
  <2>2. CASE ~Tables!Working(q)
    <3>1. proc'[q] = proc[q] /\ ~Tables!Working(q)' /\ OnTheWay(q)
      BY <1>1, <1>2, <2>2
    <3> QED BY <1>1, <3>1 DEF OnTheWay, Whole
  <2> QED BY <2>1, <2>2
<1> QED BY <1>3, <1>4

\* A process looks: what it has to do is what is missing.
LEMMA LookOnTheWay ==
  ASSUME Tables!SchemaAssumption, InOrder, \A q \in Processes : OnTheWay(q), NEW p \in Processes,
         NEW left, Tables!Working(p), UNCHANGED schema, ~proc[p].looked,
         proc' = [proc EXCEPT ![p] = [proc[p] EXCEPT !.looked = TRUE, !.left = left]],
         Tables!At(p, "sync") =>
           left = {i \in DOMAIN SortedTables :
                     SortedTables[i] \in (schema.tables \cap LateTables) \ schema.late},
         Tables!At(p, "create") =>
           left = {i \in DOMAIN SortedTables : SortedTables[i] \notin schema.tables}
  PROVE  \A q \in Processes : OnTheWay(q)'
<1>1. /\ proc \in [Processes -> Entry] /\ proc[p] \in Entry /\ schema \in Schemas
      /\ RestOfScript(proc[p]) /\ proc[p].todo \in Agendas /\ proc[p].own = Tables!None
  BY TablesTyped, EntryOfTypeOK DEF InOrder, RestOfScript
<1>2. /\ proc'[p].left = left /\ proc'[p].looked /\ proc'[p].todo = proc[p].todo
      /\ proc'[p].own = proc[p].own /\ proc'[p].alone = proc[p].alone
      /\ \A q \in Processes \ {p} : proc'[q] = proc[q]
  <2>1. proc'[p] = [proc[p] EXCEPT !.looked = TRUE, !.left = left]
    BY <1>1
  <2> QED BY <1>1, <2>1 DEF Entry
<1>3. \A q \in Processes \ {p} : OnTheWay(q)'
  BY <1>1, <1>2, OthersOnTheWay
<1>4. Tables!None.tables = {} /\ Tables!None.late = {}
  BY DEF Tables!None
<1>5. OnTheWay(p)'
  <2>1. CASE ~proc[p].alone
    BY <1>2, <2>1 DEF OnTheWay
  <2>2. CASE proc[p].todo \in Migrating \cup TakingDown
    BY <1>2, <2>2, MigrationOnTheWay
  <2>3. CASE proc[p].alone /\ proc[p].todo \notin Migrating \cup TakingDown
    <3>1. \A q \in Processes \ {p} : ~Tables!Working(q)'
      BY <1>2, <2>3 DEF OnTheWay, Tables!Working, Tables!At
    <3>2. \A t \in Tables!Entities : \E i \in DOMAIN SortedTables : SortedTables[i] = t
      BY ListedOnce DEF Tables!SchemaAssumption
    <3>3. CASE proc[p].todo \in Opening
      <4>1. Tables!At(p, "sync") /\ proc'[p].todo \notin Making \cup Made
        BY <1>1, <1>2, <3>3, AgendaHeads, AgendasDiffer DEF Tables!At
      <4>2. left = {i \in DOMAIN SortedTables :
                     SortedTables[i] \in (schema.tables \cap LateTables) \ schema.late}
        BY <4>1
      <4>3. \A t \in (schema.tables \cap LateTables) \ schema.late :
              \E i \in left : SortedTables[i] = t
        BY <1>1, <3>2, <4>2 DEF Schemas
      <4> QED BY <1>1, <1>2, <1>4, <3>1, <4>1, <4>2, <4>3 DEF OnTheWay
    <3>4. CASE proc[p].todo \in Making
      <4>1. Tables!At(p, "create") /\ proc'[p].todo \notin Opening \cup Made
        BY <1>1, <1>2, <3>4, AgendaHeads, AgendasDiffer DEF Tables!At
      <4>2. left = {i \in DOMAIN SortedTables : SortedTables[i] \notin schema.tables}
        BY <4>1
      <4>3. \A t \in Tables!Entities \ schema.tables : \E i \in left : SortedTables[i] = t
        BY <3>2, <4>2
      <4>4. (schema.tables \cup proc[p].own.tables) \cap LateTables
              \subseteq schema.late \cup proc[p].own.late
        BY <2>3, <3>4 DEF OnTheWay
      <4> QED BY <1>1, <1>2, <1>4, <3>1, <4>1, <4>3, <4>4 DEF OnTheWay
    <3>5. CASE proc[p].todo \in Made
      <4>1. Tables!At(p, "sync") /\ proc'[p].todo \notin Opening \cup Making
        BY <1>1, <1>2, <3>5, AgendaHeads, AgendasDiffer DEF Tables!At, Tables!Working
      <4>2. Whole /\ proc[p].own = Tables!None
        BY <2>3, <3>5 DEF OnTheWay
      <4>3. left = {}
        BY <4>1, <4>2 DEF Whole
      <4> QED BY <1>2, <3>1, <4>1, <4>2, <4>3 DEF OnTheWay, Whole
    <3> QED BY <1>1, <2>3, <3>3, <3>4, <3>5 DEF Agendas
  <2> QED BY <2>1, <2>2, <2>3
<1> QED BY <1>3, <1>5

-----------------------------------------------------------------------------
(* Every step keeps the invariant.                                         *)

LEMMA SchemaAborts ==
  ASSUME SchemaInv, NEW p \in Processes, Tables!Abort(p), ~Tables!At(p, "gone"),
         UNCHANGED <<transactional, starts>>
  PROVE  SchemaInv'
<1>1. InOrder'
  BY OrderAborted DEF SchemaInv, Tables!At
<1>2. Consistent'
  <2>1. /\ proc' = [proc EXCEPT ![p] = Tables!Gone] /\ UNCHANGED schema
        /\ Tables!Gone.left = {} /\ Tables!Gone.own = Tables!None
    BY DEF Tables!Abort, Tables!Gone, Tables!Beginning
  <2> HIDE DEF Tables!Gone
  <2> QED BY <2>1, ClosedEnded DEF SchemaInv
<1>3. \A q \in Processes : OnTheWay(q)'
  BY AbortOnTheWay DEF SchemaInv
<1> QED BY <1>1, <1>2, <1>3 DEF SchemaInv, Tables!SchemaAssumption, Tables!Lists, Tables!Follows

\* An invariant of the schema is one of its parts after the other.
LEMMA SchemaParts ==
  ASSUME SchemaInv, InOrder', Consistent', \A q \in Processes : OnTheWay(q)'
  PROVE  SchemaInv'
BY DEF SchemaInv, Tables!SchemaAssumption, Tables!Lists, Tables!Follows

LEMMA SchemaProceeds ==
  ASSUME SchemaInv, NEW p \in Processes, Tables!Proceed(p), Tables!Working(p),
         UNCHANGED <<transactional, starts>>,
         \/ /\ UNCHANGED schema
            /\ proc[p].alone => proc[p].todo \in Migrating \cup TakingDown
         \/ /\ \E head \in BOOLEAN : schema' = [Tables!Applied(proc[p].own) EXCEPT !.head = head]
            /\ Tables!Finished(p)
  PROVE  SchemaInv'
<1>1. /\ InOrder' /\ schema' \in Schemas
      /\ \/ UNCHANGED schema
         \/ /\ schema'.tables = (schema.tables \cup proc[p].own.tables) \ proc[p].own.dropped
            /\ schema'.late = (schema.late \cup proc[p].own.late) \ proc[p].own.dropped
  BY OrderProceeded DEF SchemaInv
<1>2. \/ /\ UNCHANGED schema
         /\ proc[p].alone => proc[p].todo \in Migrating \cup TakingDown
      \/ /\ schema'.tables = (schema.tables \cup proc[p].own.tables) \ proc[p].own.dropped
         /\ schema'.late = (schema.late \cup proc[p].own.late) \ proc[p].own.dropped
         /\ Tables!Finished(p)
  <2>1. schema \in Schemas
    BY EntryOfTypeOK DEF SchemaInv, InOrder
  <2>2. ASSUME NEW head \in BOOLEAN, schema' = [Tables!Applied(proc[p].own) EXCEPT !.head = head]
        PROVE  /\ schema'.tables = (schema.tables \cup proc[p].own.tables) \ proc[p].own.dropped
               /\ schema'.late = (schema.late \cup proc[p].own.late) \ proc[p].own.dropped
    BY <2>1, <2>2 DEF Tables!Applied, Schemas
  <2> QED BY <2>2
<1>3. Consistent'
  <2>1. proc' = [proc EXCEPT ![p] = Following(p)]
    BY Proceeded DEF SchemaInv
  <2>2. Following(p).left = {} /\ Following(p).own = Tables!None
    BY DEF Following, Tables!Beginning
  <2> HIDE DEF Following
  <2> QED BY <1>1, <2>1, <2>2, ClosedEnded DEF SchemaInv, Tables!Tables
<1>4. \A q \in Processes : OnTheWay(q)'
  BY <1>1, <1>2, ProceedOnTheWay DEF SchemaInv
<1> QED BY <1>1, <1>3, <1>4, SchemaParts

LEMMA SchemaLooks ==
  ASSUME SchemaInv, NEW p \in Processes, NEW left, Tables!Look(p, left), Tables!Working(p),
         UNCHANGED <<transactional, starts>>,
         Tables!At(p, "sync") =>
           left = {i \in DOMAIN SortedTables :
                     SortedTables[i] \in (schema.tables \cap LateTables) \ schema.late},
         Tables!At(p, "create") =>
           left = {i \in DOMAIN SortedTables : SortedTables[i] \notin schema.tables},
         Tables!At(p, "upgrade") => left \in {{}, DOMAIN UpgradeOrder},
         Tables!At(p, "downgrade") => left \in {{}, DOMAIN DowngradeOrder}
  PROVE  SchemaInv'
<1>1. /\ left \subseteq DOMAIN ListOf(Head(proc[p].todo)) /\ left \subseteq Nat
      /\ Tables!At(p, "sync") => \A i \in left : SortedTables[i] \in LateTables
  <2>1. /\ DOMAIN SortedTables \subseteq Nat /\ DOMAIN UpgradeOrder \subseteq Nat
        /\ DOMAIN DowngradeOrder \subseteq Nat
    BY ListedOnce DEF SchemaInv, Tables!SchemaAssumption
  <2>2. Head(proc[p].todo) \in {"sync", "create", "upgrade", "downgrade"}
    BY TablesTyped, AgendaOfHead DEF SchemaInv, RestOfScript, Tables!Working, Tables!At, Tables!Phases
  <2>3. CASE Tables!At(p, "sync")
    BY <2>1, <2>3 DEF ListOf, Tables!At
  <2>4. CASE Tables!At(p, "create")
    BY <2>1, <2>4 DEF ListOf, Tables!At
  <2>5. CASE Tables!At(p, "upgrade")
    BY <2>1, <2>5 DEF ListOf, Tables!At
  <2>6. CASE Tables!At(p, "downgrade")
    BY <2>1, <2>6 DEF ListOf, Tables!At
  <2> QED BY <2>2, <2>3, <2>4, <2>5, <2>6 DEF Tables!At
<1>2. /\ InOrder' /\ UNCHANGED schema /\ ~proc[p].looked
      /\ proc' = [proc EXCEPT ![p] = [proc[p] EXCEPT !.looked = TRUE, !.left = left]]
  BY <1>1, OrderLooked DEF SchemaInv
<1>3. Consistent'
  <2>1. Tables!At(p, "create") =>
          \A i \in DOMAIN SortedTables \ left : SortedTables[i] \in Tables!Tables(p)
    <3>1. proc[p].own = Tables!None
      BY <1>2, TablesTyped DEF SchemaInv, RestOfScript
    <3> QED BY <3>1 DEF Tables!Tables, Tables!None
  <2> QED BY <1>2, <2>1, ClosedLooked DEF SchemaInv
<1>4. \A q \in Processes : OnTheWay(q)'
  BY <1>2, LookOnTheWay DEF SchemaInv
<1> QED BY <1>2, <1>3, <1>4, SchemaParts

LEMMA SchemaStarts ==
  ASSUME SchemaInv, NEW p \in Processes, Tables!Start(p), UNCHANGED transactional
  PROVE  SchemaInv'
<1>1. MaxStarts \in Nat
  BY DEF SchemaInv, Tables!SchemaAssumption
<1>2. /\ InOrder' /\ UNCHANGED schema
      /\ proc'[p] = Tables!Beginning(proc'[p].todo, \A q \in Processes : ~Tables!Working(q))
      /\ \A q \in Processes \ {p} :
           /\ proc'[q].todo = proc[q].todo /\ proc'[q].looked = proc[q].looked
           /\ proc'[q].left = proc[q].left /\ proc'[q].own = proc[q].own
  BY <1>1, OrderStarted DEF SchemaInv
<1>3. Consistent'
  <2>1. proc'[p].left = {} /\ proc'[p].own = Tables!None
    BY <1>2 DEF Tables!Beginning
  <2>2. Tables!Tables(p)' = schema.tables
    BY <1>2, <2>1 DEF Tables!Tables, Tables!None
  <2>3. \A q \in Processes \ {p} : Tables!Tables(q)' = Tables!Tables(q)
    BY <1>2 DEF Tables!Tables
  <2>4. Passed(p)'
    BY <2>1 DEF Passed
  <2>5. \A q \in Processes \ {p} : Passed(q)'
    BY <1>2, <2>3 DEF SchemaInv, Consistent, Passed, Tables!At
  <2> QED BY <1>2, <2>2, <2>3, <2>4, <2>5 DEF SchemaInv, Consistent, Closed
<1>4. \A q \in Processes : OnTheWay(q)'
  BY <1>1, StartOnTheWay DEF SchemaInv
<1> QED BY <1>2, <1>3, <1>4, SchemaParts

LEMMA SchemaStep == SchemaInv /\ [Tables!Next]_(Tables!vars) => SchemaInv'
<1>1. SUFFICES ASSUME SchemaInv, [Tables!Next]_(Tables!vars) PROVE SchemaInv'
  OBVIOUS
<1>2. CASE UNCHANGED Tables!vars
  <2>1. UNCHANGED <<transactional, schema, proc, starts>>
    BY <1>2 DEF Tables!vars
  <2>2. InOrder'
    BY <1>1, <2>1 DEF SchemaInv, InOrder, Tables!TypeOK, Exclusive
  <2>3. Consistent'
    BY <1>1, <2>1 DEF SchemaInv, Consistent, Closed, Passed, Tables!Tables, Tables!At
  <2>4. \A q \in Processes : OnTheWay(q)'
    BY <1>1, <2>1 DEF SchemaInv, OnTheWay, Whole, Tables!Working, Tables!At
  <2> QED BY <1>1, <2>2, <2>3, <2>4, SchemaParts
<1>3. CASE Tables!Next
  <2>1. PICK p \in Processes :
          \/ Tables!Start(p)
          \/ /\ \/ Tables!SyncLook(p) \/ Tables!SyncAlter(p) \/ Tables!SyncEnd(p)
                \/ Tables!CreateLook(p) \/ Tables!CreateTable(p) \/ Tables!CreateEnd(p)
                \/ Tables!MigrateLook(p) \/ Tables!UpgradeTable(p) \/ Tables!DowngradeTable(p)
                \/ Tables!MigrateEnd(p) \/ Tables!Crash(p)
             /\ UNCHANGED starts
    BY <1>3 DEF Tables!Next
  <2>2. UNCHANGED transactional
    BY <1>3 DEF Tables!Next
  <2>3. /\ Tables!SchemaAssumption /\ InOrder /\ Consistent /\ \A q \in Processes : OnTheWay(q)
        /\ RestOfScript(proc[p]) /\ proc[p].todo \in Agendas
        /\ \A phase \in {"sync", "create", "upgrade", "downgrade"} :
             Tables!At(p, phase) => Tables!Working(p) /\ ~Tables!At(p, "gone")
    BY <1>1, TablesTyped DEF SchemaInv, RestOfScript, Tables!Working, Tables!At
  <2>4. CASE Tables!Start(p)
    BY <1>1, <2>2, <2>4, SchemaStarts
  <2>5. CASE Tables!SyncLook(p) /\ UNCHANGED starts
    BY <1>1, <2>2, <2>3, <2>5, SchemaLooks DEF Tables!SyncLook, Tables!At
  <2>6. CASE Tables!CreateLook(p) /\ UNCHANGED starts
    BY <1>1, <2>2, <2>3, <2>6, SchemaLooks DEF Tables!CreateLook, Tables!At
  <2>7. CASE Tables!MigrateLook(p) /\ UNCHANGED starts
    BY <1>1, <2>2, <2>3, <2>7, SchemaLooks DEF Tables!MigrateLook, Tables!At
  <2>8. CASE Tables!SyncAlter(p) /\ UNCHANGED starts
    <3>1. Tables!At(p, "sync") /\ Tables!Working(p)
      BY <2>3, <2>8 DEF Tables!SyncAlter
    <3>2. PICK i \in Tables!Due(p) :
            IF SortedTables[i] \in Tables!Tables(p) \ schema.late
            THEN Tables!Execute(p, [Tables!None EXCEPT !.late = {SortedTables[i]}], i)
            ELSE Tables!Proceed(p) /\ UNCHANGED schema
      BY <2>8 DEF Tables!SyncAlter
    <3>3. CASE SortedTables[i] \in Tables!Tables(p) \ schema.late
      <4>1. Tables!Execute(p, [Tables!None EXCEPT !.late = {SortedTables[i]}], i)
        BY <3>2, <3>3
      <4>2. InOrder' /\ Consistent'
        BY <2>2, <2>3, <2>8, <3>1, <3>3, <4>1, AlterKeeps
      <4>3. \A q \in Processes : OnTheWay(q)'
        BY <2>3, <3>1, <4>1, AlterOnTheWay
      <4> QED BY <1>1, <4>2, <4>3, SchemaParts
    <3>4. CASE SortedTables[i] \notin Tables!Tables(p) \ schema.late
      <4>1. proc[p].alone => proc[p].todo \in Migrating \cup TakingDown
        <5>1. SUFFICES ASSUME proc[p].alone, proc[p].todo \notin Migrating \cup TakingDown
                       PROVE  FALSE
          OBVIOUS
        <5>2. i \in proc[p].left /\ proc[p].looked
          BY <2>3 DEF Tables!Due, RestOfScript
        <5>3. proc[p].todo \notin Making /\ proc[p].todo \notin Made
          BY <2>3, <3>1, <5>1, <5>2, AgendaHeads DEF OnTheWay, Tables!At
        <5>4. proc[p].todo \in Opening
          BY <2>3, <5>1, <5>3 DEF Agendas
        <5>5. SortedTables[i] \in (schema.tables \cap LateTables) \ schema.late
          BY <2>3, <5>1, <5>2, <5>4 DEF OnTheWay
        <5>6. proc[p].own.dropped = {}
          BY <2>3, <3>1 DEF RestOfScript, Tables!At
        <5> QED BY <3>4, <5>5, <5>6 DEF Tables!Tables
      <4> QED BY <1>1, <2>2, <2>8, <3>1, <3>2, <3>4, <4>1, SchemaProceeds
    <3> QED BY <3>3, <3>4
  <2>9. CASE Tables!CreateTable(p) /\ UNCHANGED starts
    <3>1. Tables!At(p, "create") /\ Tables!Working(p) /\ ~Tables!At(p, "gone")
      BY <2>3, <2>9 DEF Tables!CreateTable
    <3>2. PICK i \in Tables!Due(p) :
            IF SortedTables[i] \in Tables!Tables(p)
               \/ (transactional /\ ~(References[SortedTables[i]] \subseteq Tables!Tables(p)))
            THEN Tables!Abort(p)
            ELSE Tables!Execute(p, [Tables!None EXCEPT !.tables = {SortedTables[i]},
                                      !.late = {SortedTables[i]} \cap LateTables], i)
      BY <2>9 DEF Tables!CreateTable
    <3>3. CASE Tables!Abort(p)
      BY <1>1, <2>2, <2>9, <3>1, <3>3, SchemaAborts
    <3>4. CASE ~Tables!Abort(p)
      <4>1. Tables!Execute(p, [Tables!None EXCEPT !.tables = {SortedTables[i]},
                                      !.late = {SortedTables[i]} \cap LateTables], i)
        BY <3>2, <3>4
      <4>2. InOrder' /\ Consistent'
        BY <2>2, <2>3, <2>9, <3>1, <4>1, CreateKeeps
      <4>3. \A q \in Processes : OnTheWay(q)'
        BY <2>3, <3>1, <4>1, CreateOnTheWay
      <4> QED BY <1>1, <4>2, <4>3, SchemaParts
    <3> QED BY <3>3, <3>4
  <2>10. CASE Tables!UpgradeTable(p) /\ UNCHANGED starts
    <3>1. Tables!At(p, "upgrade") /\ Tables!Working(p) /\ ~Tables!At(p, "gone")
      BY <2>3, <2>10 DEF Tables!UpgradeTable
    <3>2. PICK i \in Tables!Due(p) :
            IF UpgradeOrder[i] \in Tables!Tables(p)
               \/ (transactional /\ ~(References[UpgradeOrder[i]] \subseteq Tables!Tables(p)))
            THEN Tables!Abort(p)
            ELSE Tables!Execute(p, [Tables!None EXCEPT !.tables = {UpgradeOrder[i]}], i)
      BY <2>10 DEF Tables!UpgradeTable
    <3>3. CASE Tables!Abort(p)
      BY <1>1, <2>2, <2>10, <3>1, <3>3, SchemaAborts
    <3>4. CASE ~Tables!Abort(p)
      <4>1. /\ Tables!Execute(p, [Tables!None EXCEPT !.tables = {UpgradeOrder[i]}], i)
            /\ transactional => References[UpgradeOrder[i]] \subseteq Tables!Tables(p)
        BY <3>2, <3>4
      <4>2. InOrder' /\ Consistent'
        BY <2>2, <2>3, <2>10, <3>1, <4>1, UpgradeKeeps
      <4>3. \A q \in Processes : OnTheWay(q)'
        <5> DEFINE change == [Tables!None EXCEPT !.tables = {UpgradeOrder[i]}]
        <5>1. change \in Tables!Changes /\ change.dropped = {} /\ Tables!Execute(p, change, i)
          BY <2>3, <3>1, <4>1, Upgraded
        <5> HIDE DEF change
        <5> QED BY <2>3, <3>1, <5>1, MigrateOnTheWay
      <4> QED BY <1>1, <4>2, <4>3, SchemaParts
    <3> QED BY <3>3, <3>4
  <2>11. CASE Tables!DowngradeTable(p) /\ UNCHANGED starts
    <3>1. Tables!At(p, "downgrade") /\ Tables!Working(p) /\ ~Tables!At(p, "gone")
      BY <2>3, <2>11 DEF Tables!DowngradeTable
    <3>2. PICK i \in Tables!Due(p) :
            IF \/ DowngradeOrder[i] \notin Tables!Tables(p)
               \/ transactional /\ \E u \in Tables!Tables(p) \ {DowngradeOrder[i]} :
                                     DowngradeOrder[i] \in References[u]
            THEN Tables!Abort(p)
            ELSE Tables!Execute(p, [Tables!None EXCEPT !.dropped = {DowngradeOrder[i]}], i)
      BY <2>11 DEF Tables!DowngradeTable
    <3>3. CASE Tables!Abort(p)
      BY <1>1, <2>2, <2>11, <3>1, <3>3, SchemaAborts
    <3>4. CASE ~Tables!Abort(p)
      <4>1. /\ Tables!Execute(p, [Tables!None EXCEPT !.dropped = {DowngradeOrder[i]}], i)
            /\ transactional => ~\E u \in Tables!Tables(p) \ {DowngradeOrder[i]} :
                                     DowngradeOrder[i] \in References[u]
        BY <3>2, <3>4
      <4>2. InOrder' /\ Consistent'
        BY <2>2, <2>3, <2>11, <3>1, <4>1, DowngradeKeeps
      <4>3. \A q \in Processes : OnTheWay(q)'
        <5> DEFINE change == [Tables!None EXCEPT !.dropped = {DowngradeOrder[i]}]
        <5>1. change \in Tables!Changes /\ Tables!Execute(p, change, i)
          BY <2>3, <3>1, <4>1, Downgraded
        <5>2. ~Tables!At(p, "upgrade")
          BY <3>1 DEF Tables!At
        <5> HIDE DEF change
        <5> QED BY <2>3, <3>1, <5>1, <5>2, MigrateOnTheWay
      <4> QED BY <1>1, <4>2, <4>3, SchemaParts
    <3> QED BY <3>3, <3>4
  <2>12. CASE (Tables!SyncEnd(p) \/ Tables!CreateEnd(p) \/ Tables!MigrateEnd(p)) /\ UNCHANGED starts
    <3>1. /\ Tables!Finished(p) /\ Tables!Proceed(p) /\ Tables!Working(p)
          /\ \E head \in BOOLEAN : schema' = [Tables!Applied(proc[p].own) EXCEPT !.head = head]
      <4>1. schema.head \in BOOLEAN
        BY <2>3, EntryOfTypeOK DEF InOrder, Schemas
      <4> QED BY <2>3, <2>12, <4>1
              DEF Tables!SyncEnd, Tables!CreateEnd, Tables!MigrateEnd, Tables!Commit
    <3> QED BY <1>1, <2>2, <2>12, <3>1, SchemaProceeds
  <2>13. CASE Tables!Crash(p) /\ UNCHANGED starts
    BY <1>1, <2>2, <2>13, SchemaAborts DEF Tables!Crash
  <2> QED BY <2>1, <2>4, <2>5, <2>6, <2>7, <2>8, <2>9, <2>10, <2>11, <2>12, <2>13
<1> QED BY <1>1, <1>2, <1>3

LEMMA SchemaStart == Tables!SchemaAssumption /\ Tables!Init => SchemaInv
<1>1. SUFFICES ASSUME Tables!SchemaAssumption, Tables!Init PROVE SchemaInv
  OBVIOUS
<1>2. /\ schema = [tables |-> {}, late |-> {}, head |-> FALSE]
      /\ proc \in [Processes -> Entry] /\ \A p \in Processes : proc[p] = Tables!Gone
  BY <1>1, GoneInOrder DEF Tables!Init
<1>3. /\ Tables!Gone.todo = <<"gone">> /\ Head(<<"gone">>) = "gone" /\ ~Tables!Gone.looked
      /\ Tables!Gone.left = {} /\ Tables!Gone.own = Tables!None
      /\ Tables!None.tables = {} /\ Tables!None.late = {} /\ Tables!None.dropped = {}
  BY DEF Tables!Gone, Tables!Beginning, Tables!None
<1>4. <<"gone">> \notin TakingDown \cup Opening \cup Making \cup Made
  BY DEF TakingDown, Opening, Making, Made
<1> HIDE DEF Tables!Gone
<1>5. Tables!TypeOK
  <2>1. transactional \in BOOLEAN /\ starts = 0 /\ 0 \in 0 .. MaxStarts
    BY <1>1 DEF Tables!Init, Tables!SchemaAssumption
  <2> QED BY <1>2, <1>3, <2>1 DEF Tables!TypeOK, Entry
<1>6. InOrder
  BY <1>2, <1>3, <1>4, <1>5, GoneInOrder DEF InOrder, Exclusive
<1>7. Consistent
  BY <1>2, <1>3 DEF Consistent, Closed, Passed, Tables!Tables
<1>8. \A p \in Processes : OnTheWay(p)
  BY <1>2, <1>3, <1>4 DEF OnTheWay, Tables!Working, Tables!At
<1> QED BY <1>1, <1>6, <1>7, <1>8 DEF SchemaInv

LEMMA SchemaFollows ==
  SchemaInv => Tables!TypeOK /\ Tables!NoDanglingReference /\ Tables!ServesWholeSchema
<1>1. SUFFICES ASSUME SchemaInv
      PROVE  Tables!TypeOK /\ Tables!NoDanglingReference /\ Tables!ServesWholeSchema
  OBVIOUS
<1>2. Tables!TypeOK /\ Tables!NoDanglingReference
  BY <1>1 DEF SchemaInv, InOrder, Consistent, Closed, Tables!NoDanglingReference
<1>3. ASSUME NEW p \in Processes, Tables!At(p, "up"), proc[p].alone
      PROVE  schema.tables = Tables!Entities /\ schema.late = LateTables
  <2>1. proc[p].todo \in Made
    BY <1>1, <1>3, TablesTyped, AgendaOfHead DEF SchemaInv, RestOfScript, Tables!At
  <2> QED BY <1>1, <1>3, <2>1 DEF SchemaInv, OnTheWay, Whole
<1> QED BY <1>2, <1>3 DEF Tables!ServesWholeSchema

-----------------------------------------------------------------------------
(* The seed.  Its completeness is not inductive: that everything is there  *)
(* when seed_database returns rests on the steps a script has behind it,   *)
(* on what a step saw being there still when it commits, and on a journey  *)
(* being committed as a whole.  That scripts one after another leave the   *)
(* rows tidy rests on each step of such a script having seen the rows as   *)
(* they still are.                                                         *)

\* Step x comes before step y in every script.
Leads(x, y) ==
  \/ x = "departments" /\ y \in {"cameras", "grid", "rest"}
  \/ x = "cameras" /\ y = "journey"
  \/ x = "journey" /\ y = "alert"
  \/ x \in {"cameras", "grid", "watchlists", "journey"} /\ y = "rest"
  \/ x = "department" /\ y \in {"corridor", "iscon", "stadium"}
  \/ x = "iscon" /\ y = "first-sighting"
  \/ x = "stadium" /\ y = "second-sighting"

\* The hotlist counts as seeded.
Listed(list) ==
  \/ Seeds!WatchlistData \subseteq Seeds!Plates(list)
  \/ Cardinality(Seeds!Plates(list)) >= Cardinality(Seeds!WatchlistData)

\* What a step that is done has left: in the memory of its script, and in the rows.
Reached(x, mind, base) ==
  /\ x = "departments" => mind.depts # {}
  /\ x = "cameras" => DOMAIN Seeds!CamerasData \subseteq mind.cams
  /\ x = "grid" => Seeds!SentinelGrid \subseteq DOMAIN base.cams
  /\ x = "watchlists" => Listed(base.list)
  /\ x = "journey" => Seeds!Seen(base, Seeds!DemoPlate) # {}
  /\ x = "department" => "HOME_POLICE" \in base.depts
  /\ x = "iscon" => "AHM-01" \in DOMAIN base.cams
  /\ x = "stadium" => "AHM-02" \in DOMAIN base.cams

\* Each step to come has those it builds on behind it, or before it.
Prepared(todo, mind, base) ==
  \A i \in DOMAIN todo : \A x \in Seeds!Steps :
    Leads(x, todo[i]) =>
      Reached(x, mind, base) \/ \E j \in DOMAIN todo : j < i /\ todo[j] = x

\* The last step of the seed comes right after the one that raises the alert.
Chained(todo, last) ==
  \A i \in DOMAIN todo :
    todo[i] = "rest" => IF i = 1 THEN last = "alert" ELSE todo[i - 1] = "alert"

\* What is never removed from the rows.
Grown(old, base) ==
  /\ old.users \subseteq base.users /\ old.depts \subseteq base.depts
  /\ DOMAIN old.cams \subseteq DOMAIN base.cams /\ old.list \subseteq base.list
  /\ \A s \in Seeds!Seen(old, Seeds!DemoPlate) : s \in base.sights
  /\ Seeds!SampleCase \in old.cases => Seeds!SampleCase \in base.cases

\* The journeys are whole, no reference to a department or a camera dangles, and the
\* departments are those of the seed, or only what other scripts wrote.
Sound(base) ==
  /\ Seeds!TypedRows(base)
  /\ \/ Seeds!DepartmentsData \subseteq base.depts
     \/ base.depts \subseteq Seeds!FoundationDepartments
  /\ \A s \in Seeds!Seen(base, Seeds!DemoPlate) :
       /\ s.cam \in Seeds!Journey /\ s = Seeds!Sighting(Seeds!DemoPlate, s.cam, s.by, FALSE)
       /\ \A c \in Seeds!Journey :
            Seeds!Sighting(Seeds!DemoPlate, c, s.by, FALSE) \in base.sights
  /\ \A c \in DOMAIN base.cams : base.cams[c] \in base.depts
  /\ \A s \in base.sights : s.cam \in DOMAIN base.cams

Complete(base) ==
  /\ Seeds!DefaultUsers \subseteq base.users /\ Seeds!SampleCase \in base.cases
  /\ base.depts # {} /\ Seeds!AllCameras \subseteq DOMAIN base.cams
  /\ Listed(base.list) /\ Seeds!Seen(base, Seeds!DemoPlate) # {}

\* The plate of the journey has its alert, if it is listed.
Rung(base) ==
  Seeds!DemoPlate \in Seeds!Plates(base.list) => Seeds!AlertsOn(base, Seeds!DemoPlate) # {}

\* What the last two steps of the seed leave.
Finished(step, base) ==
  /\ step = "rest" => Complete(base)
  /\ ~raced /\ (step = "rest" => Rung(db)) => Rung(base)

\* What scripts that run one after another keep besides.
Tidy(base) ==
  /\ \A e, f \in base.list : e.plate = f.plate => e = f
  /\ \A s, t \in Seeds!Seen(base, Seeds!DemoPlate) : s.by = t.by
  /\ \A s, t \in Seeds!AlertsOn(base, Seeds!DemoPlate) : s = t
  /\ base.alerts \subseteq base.sights
  /\ \A e \in base.custody : e.case \in base.cases /\ e.sight \in base.sights

\* A script knows only what is there.
Informed(p) ==
  /\ proc[p].looked => Seeds!Running(p) /\ Grown(proc[p].view, db)
  /\ proc[p].cams \subseteq DOMAIN db.cams /\ proc[p].depts \subseteq db.depts
  /\ Seeds!Running(p) => proc[p].no \in 1 .. starts
  /\ Prepared(proc[p].todo, proc[p], db)
  /\ Chained(proc[p].todo, proc[p].last)
  /\ proc[p].last = "rest" => Complete(db)

\* Scripts one after another: only the latest runs, and what it saw is how things are.
Latest ==
  /\ \A p \in Processes : Seeds!Running(p) => proc[p].no = starts
  /\ \A p, q \in Processes : proc[p].no = starts /\ proc[q].no = starts /\ starts # 0 => p = q
  /\ \A p \in Processes : proc[p].no = starts /\ proc[p].last \in {"alert", "rest"} => Rung(db)

Serial ==
  /\ Tidy(db) /\ Latest
  /\ \A p, q \in Processes : Seeds!Running(p) /\ Seeds!Running(q) => p = q
  /\ \A p \in Processes : proc[p].looked => proc[p].view = db

SeedInv ==
  /\ Seeds!SeedingAssumption /\ Seeds!TypeOK /\ Sound(db)
  /\ \A p \in Processes : Informed(p)
  /\ ~raced => Serial

LEMMA CamerasOfJourney ==
  /\ Seeds!Journey \subseteq DOMAIN Seeds!CamerasData /\ "VLS-01" \in Seeds!Journey
  /\ {"AHM-01", "AHM-02"} \subseteq DOMAIN Seeds!CamerasData
BY DEF Seeds!Journey, Seeds!CamerasData, Seeds!CamerasBy, Seeds!Range

LEMMA CamerasOfTraffic ==
  /\ \A v \in DOMAIN Seeds!Traffic : Seeds!Traffic[v] \in DOMAIN Seeds!CamerasData
  /\ Seeds!DemoPlate \notin DOMAIN Seeds!Traffic
BY DEF Seeds!Traffic, Seeds!DemoPlate, Seeds!CamerasData, Seeds!CamerasBy, Seeds!Range

LEMMA JourneySize == IsFiniteSet(Seeds!Journey) /\ Cardinality(Seeds!Journey) = 5
<1>1. IsFiniteSet({}) /\ Cardinality({}) = 0
  BY FS_EmptySet
<1>2. IsFiniteSet({"AHM-01"}) /\ Cardinality({"AHM-01"}) = 1
  BY FS_Singleton
<1>3. IsFiniteSet({"AHM-01", "GND-01"}) /\ Cardinality({"AHM-01", "GND-01"}) = 2
  <2>1. {"AHM-01", "GND-01"} = {"AHM-01"} \cup {"GND-01"} /\ "GND-01" \notin {"AHM-01"}
    OBVIOUS
  <2> QED BY <1>2, <2>1, FS_AddElement
<1>4. /\ IsFiniteSet({"AHM-01", "GND-01", "BRC-01"})
      /\ Cardinality({"AHM-01", "GND-01", "BRC-01"}) = 3
  <2>1. /\ {"AHM-01", "GND-01", "BRC-01"} = {"AHM-01", "GND-01"} \cup {"BRC-01"}
        /\ "BRC-01" \notin {"AHM-01", "GND-01"}
    OBVIOUS
  <2> QED BY <1>3, <2>1, FS_AddElement
<1>5. /\ IsFiniteSet({"AHM-01", "GND-01", "BRC-01", "SRT-01"})
      /\ Cardinality({"AHM-01", "GND-01", "BRC-01", "SRT-01"}) = 4
  <2>1. /\ {"AHM-01", "GND-01", "BRC-01", "SRT-01"} = {"AHM-01", "GND-01", "BRC-01"} \cup {"SRT-01"}
        /\ "SRT-01" \notin {"AHM-01", "GND-01", "BRC-01"}
    OBVIOUS
  <2> QED BY <1>4, <2>1, FS_AddElement
<1>6. /\ Seeds!Journey = {"AHM-01", "GND-01", "BRC-01", "SRT-01"} \cup {"VLS-01"}
      /\ "VLS-01" \notin {"AHM-01", "GND-01", "BRC-01", "SRT-01"}
  BY DEF Seeds!Journey
<1> QED BY <1>5, <1>6, FS_AddElement

LEMMA WatchlistSize == IsFiniteSet(Seeds!WatchlistData) /\ Cardinality(Seeds!WatchlistData) \in Nat
<1>1. \A S, x : IsFiniteSet(S) => IsFiniteSet(S \cup {x})
  BY FS_AddElement
<1>2. IsFiniteSet({})
  BY FS_EmptySet
<1>3. Seeds!WatchlistData = ((((((({} \cup {Seeds!DemoPlate}) \cup {"GJ06XY9876"}) \cup {"GJ05CD5521"})
        \cup {"GJ27EF8890"}) \cup {"GJ18ZZ4321"}) \cup {"GJ03KL6654"}) \cup {"GJ10MN7711"})
  BY DEF Seeds!WatchlistData
<1>4. IsFiniteSet(Seeds!WatchlistData)
  BY <1>1, <1>2, <1>3
<1> QED BY <1>4, FS_CardinalityType

\* The library's cardinality and that of the component are one.
LEMMA SameSizeOfSeed ==
  ASSUME NEW S PROVE Seeds!Cardinality(S) = Cardinality(S) /\ Seeds!IsFiniteSet(S) = IsFiniteSet(S)
BY DEF Seeds!Cardinality, Cardinality, Seeds!IsFiniteSet, IsFiniteSet

-----------------------------------------------------------------------------
(* The scripts.                                                            *)

LEMMA StepsOfScripts ==
  /\ Seeds!Steps = {"users", "case", "departments", "cameras", "grid", "watchlists", "journey",
                    "alert", "rest", "department", "investigator", "corridor", "target",
                    "seed-if-short", "iscon", "stadium", "enrol", "first-sighting",
                    "second-sighting", "raise-alert", "open-case", "attach-evidence",
                    "purge-cases", "purge-alerts", "purge-sightings", "foundation",
                    "case-of-plate", "case-from-alert"}
  /\ Seeds!SeedSteps \in Seq(Seeds!Steps) /\ Seeds!DemoSteps \in Seq(Seeds!Steps)
  /\ Seeds!RunSteps \in Seq(Seeds!Steps) /\ Seeds!ResetSteps \in Seq(Seeds!Steps)
  /\ Seeds!Scripts \subseteq Seq(Seeds!Steps)
<1>1. Seeds!Range(Seeds!SeedSteps) = {"users", "case", "departments", "cameras", "grid",
                                      "watchlists", "journey", "alert", "rest"}
  BY DEF Seeds!Range, Seeds!SeedSteps
<1>2. Seeds!Range(Seeds!DemoSteps) = {"department", "investigator", "corridor", "target",
                                      "seed-if-short"}
  BY DEF Seeds!Range, Seeds!DemoSteps
<1>3. Seeds!Range(Seeds!RunSteps) = {"department", "investigator", "iscon", "stadium", "enrol",
              "first-sighting", "second-sighting", "raise-alert", "open-case", "attach-evidence"}
  BY DEF Seeds!Range, Seeds!RunSteps
<1>4. Seeds!Range(Seeds!ResetSteps) = {"purge-cases", "purge-alerts", "purge-sightings"}
  BY DEF Seeds!Range, Seeds!ResetSteps
<1>5. Seeds!Steps = {"users", "case", "departments", "cameras", "grid", "watchlists", "journey",
                    "alert", "rest", "department", "investigator", "corridor", "target",
                    "seed-if-short", "iscon", "stadium", "enrol", "first-sighting",
                    "second-sighting", "raise-alert", "open-case", "attach-evidence",
                    "purge-cases", "purge-alerts", "purge-sightings", "foundation",
                    "case-of-plate", "case-from-alert"}
  BY <1>1, <1>2, <1>3, <1>4, Zenon DEF Seeds!Steps
<1>6. Seeds!SeedSteps \in Seq(Seeds!Steps)
  BY <1>5 DEF Seeds!SeedSteps
<1>7. Seeds!DemoSteps \in Seq(Seeds!Steps)
  BY <1>5 DEF Seeds!DemoSteps
<1>8. Seeds!RunSteps \in Seq(Seeds!Steps)
  BY <1>5 DEF Seeds!RunSteps
<1>9. Seeds!ResetSteps \in Seq(Seeds!Steps)
  BY <1>5 DEF Seeds!ResetSteps
<1>10. /\ <<"foundation">> \in Seq(Seeds!Steps) /\ <<"case-of-plate">> \in Seq(Seeds!Steps)
       /\ <<"case-from-alert">> \in Seq(Seeds!Steps)
  BY <1>5
<1> HIDE DEF Seeds!Steps
<1>11. Seeds!ResetSteps \o Seeds!DemoSteps \o Seeds!RunSteps \in Seq(Seeds!Steps)
  BY <1>7, <1>8, <1>9
<1> QED BY <1>5, <1>6, <1>7, <1>8, <1>9, <1>10, <1>11 DEF Seeds!Scripts

\* A list of steps that has before each step those it builds on.
Ordered(todo) ==
  \A i \in DOMAIN todo :
    /\ \A x \in Seeds!Steps : Leads(x, todo[i]) => \E j \in DOMAIN todo : j < i /\ todo[j] = x
    /\ todo[i] = "rest" => i # 1 /\ todo[i - 1] = "alert"

LEMMA OrderedJoin ==
  ASSUME NEW s \in Seq(Seeds!Steps), NEW t \in Seq(Seeds!Steps), Ordered(s), Ordered(t)
  PROVE  Ordered(s \o t)
<1>1. /\ DOMAIN (s \o t) = 1 .. (Len(s) + Len(t)) /\ Len(s) \in Nat /\ Len(t) \in Nat
      /\ DOMAIN s = 1 .. Len(s) /\ DOMAIN t = 1 .. Len(t)
      /\ \A i \in 1 .. Len(s) : (s \o t)[i] = s[i]
      /\ \A i \in 1 .. Len(t) : (s \o t)[Len(s) + i] = t[i]
  OBVIOUS
<1>2. SUFFICES ASSUME NEW i \in DOMAIN (s \o t)
               PROVE  /\ \A x \in Seeds!Steps : Leads(x, (s \o t)[i]) =>
                           \E j \in DOMAIN (s \o t) : j < i /\ (s \o t)[j] = x
                      /\ (s \o t)[i] = "rest" => i # 1 /\ (s \o t)[i - 1] = "alert"
  BY DEF Ordered
<1>3. CASE i <= Len(s)
  <2>1. i \in 1 .. Len(s) /\ (s \o t)[i] = s[i]
    BY <1>1, <1>3
  <2>2. ASSUME NEW x \in Seeds!Steps, Leads(x, (s \o t)[i])
        PROVE  \E j \in DOMAIN (s \o t) : j < i /\ (s \o t)[j] = x
    <3>0. i \in DOMAIN s /\ Leads(x, s[i])
      BY <1>1, <2>1, <2>2
    <3>1. PICK j \in 1 .. Len(s) : j < i /\ s[j] = x
      <4>1. \A y \in Seeds!Steps : Leads(y, s[i]) => \E j \in DOMAIN s : j < i /\ s[j] = y
        BY <3>0, Zenon DEF Ordered
      <4> QED BY <1>1, <3>0, <4>1
    <3>2. j \in DOMAIN (s \o t) /\ (s \o t)[j] = x
      BY <1>1, <3>1
    <3> QED BY <3>1, <3>2
  <2>3. ASSUME (s \o t)[i] = "rest" PROVE i # 1 /\ (s \o t)[i - 1] = "alert"
    <3>1. i # 1 /\ s[i - 1] = "alert"
      BY <1>1, <2>1, <2>3 DEF Ordered
    <3>2. i - 1 \in 1 .. Len(s)
      BY <1>1, <2>1, <3>1
    <3> QED BY <1>1, <3>1, <3>2
  <2> QED BY <2>2, <2>3
<1>4. CASE i > Len(s)
  <2>1. i - Len(s) \in 1 .. Len(t) /\ i = Len(s) + (i - Len(s))
    BY <1>1, <1>4
  <2>2. (s \o t)[i] = t[i - Len(s)]
    BY <1>1, <2>1
  <2>3. ASSUME NEW x \in Seeds!Steps, Leads(x, (s \o t)[i])
        PROVE  \E j \in DOMAIN (s \o t) : j < i /\ (s \o t)[j] = x
    <3>0. i - Len(s) \in DOMAIN t /\ Leads(x, t[i - Len(s)])
      BY <1>1, <2>1, <2>2, <2>3
    <3>1. PICK j \in 1 .. Len(t) : j < i - Len(s) /\ t[j] = x
      <4>1. \A k \in DOMAIN t, y \in Seeds!Steps : Leads(y, t[k]) => \E j \in DOMAIN t : j < k /\ t[j] = y
        BY Zenon DEF Ordered
      <4>2. \E j \in DOMAIN t : j < i - Len(s) /\ t[j] = x
        BY <3>0, <4>1
      <4> QED BY <1>1, <4>2
    <3>2. Len(s) + j \in DOMAIN (s \o t) /\ (s \o t)[Len(s) + j] = x /\ Len(s) + j < i
      BY <1>1, <3>1
    <3> QED BY <3>2
  <2>4. ASSUME (s \o t)[i] = "rest" PROVE i # 1 /\ (s \o t)[i - 1] = "alert"
    <3>1. i - Len(s) # 1 /\ t[(i - Len(s)) - 1] = "alert"
      BY <1>1, <2>1, <2>2, <2>4 DEF Ordered
    <3>2. /\ (i - Len(s)) - 1 \in 1 .. Len(t) /\ i # 1
          /\ i - 1 = Len(s) + ((i - Len(s)) - 1)
      BY <1>1, <2>1, <3>1
    <3>3. (s \o t)[Len(s) + ((i - Len(s)) - 1)] = t[(i - Len(s)) - 1]
      BY <1>1, <3>2
    <3> QED BY <3>1, <3>2, <3>3
  <2> QED BY <2>3, <2>4
<1> QED BY <1>1, <1>3, <1>4

LEMMA ScriptsOrdered ==
  /\ Ordered(Seeds!SeedSteps) /\ Ordered(<<>>) /\ \A script \in Seeds!Scripts : Ordered(script)
<1>1. Ordered(Seeds!SeedSteps)
  <2>1. /\ DOMAIN Seeds!SeedSteps = 1 .. 9 /\ Seeds!SeedSteps[1] = "users"
        /\ Seeds!SeedSteps[2] = "case" /\ Seeds!SeedSteps[3] = "departments"
        /\ Seeds!SeedSteps[4] = "cameras" /\ Seeds!SeedSteps[5] = "grid"
        /\ Seeds!SeedSteps[6] = "watchlists" /\ Seeds!SeedSteps[7] = "journey"
        /\ Seeds!SeedSteps[8] = "alert" /\ Seeds!SeedSteps[9] = "rest"
    BY DEF Seeds!SeedSteps
  <2>2. \A i \in 1 .. 9 : i \in {1, 2, 3, 4, 5, 6, 7, 8, 9}
    OBVIOUS
  <2> QED BY <2>1, <2>2 DEF Ordered, Leads
<1>2. Ordered(Seeds!DemoSteps)
  <2>1. /\ DOMAIN Seeds!DemoSteps = 1 .. 5 /\ Seeds!DemoSteps[1] = "department"
        /\ Seeds!DemoSteps[2] = "investigator" /\ Seeds!DemoSteps[3] = "corridor"
        /\ Seeds!DemoSteps[4] = "target" /\ Seeds!DemoSteps[5] = "seed-if-short"
    BY DEF Seeds!DemoSteps
  <2>2. \A i \in 1 .. 5 : i \in {1, 2, 3, 4, 5}
    OBVIOUS
  <2> QED BY <2>1, <2>2 DEF Ordered, Leads
<1>3. Ordered(Seeds!RunSteps)
  <2>1. /\ DOMAIN Seeds!RunSteps = 1 .. 10 /\ Seeds!RunSteps[1] = "department"
        /\ Seeds!RunSteps[2] = "investigator" /\ Seeds!RunSteps[3] = "iscon"
        /\ Seeds!RunSteps[4] = "stadium" /\ Seeds!RunSteps[5] = "enrol"
        /\ Seeds!RunSteps[6] = "first-sighting" /\ Seeds!RunSteps[7] = "second-sighting"
        /\ Seeds!RunSteps[8] = "raise-alert" /\ Seeds!RunSteps[9] = "open-case"
        /\ Seeds!RunSteps[10] = "attach-evidence"
    BY DEF Seeds!RunSteps
  <2>2. \A i \in 1 .. 10 : i \in {1, 2, 3, 4, 5, 6, 7, 8, 9, 10}
    OBVIOUS
  <2> QED BY <2>1, <2>2 DEF Ordered, Leads
<1>4. Ordered(Seeds!ResetSteps)
  BY DEF Ordered, Leads, Seeds!ResetSteps
<1>5. Ordered(<<"foundation">>) /\ Ordered(<<"case-of-plate">>) /\ Ordered(<<"case-from-alert">>)
  BY DEF Ordered, Leads
<1>6. Ordered(<<>>)
  BY DEF Ordered
<1>7. Ordered(Seeds!ResetSteps \o Seeds!DemoSteps \o Seeds!RunSteps)
  <2>1. /\ Ordered(Seeds!ResetSteps \o Seeds!DemoSteps)
        /\ Seeds!ResetSteps \o Seeds!DemoSteps \in Seq(Seeds!Steps)
    BY <1>2, <1>4, StepsOfScripts, OrderedJoin
  <2> QED BY <1>3, <2>1, StepsOfScripts, OrderedJoin
<1> QED BY <1>1, <1>3, <1>4, <1>5, <1>6, <1>7 DEF Seeds!Scripts

LEMMA PreparedIfOrdered ==
  ASSUME NEW todo, Ordered(todo), NEW mind, NEW base
  PROVE  Prepared(todo, mind, base)
BY DEF Prepared, Ordered

\* What is due has what it builds on behind it.
LEMMA DueReached ==
  ASSUME NEW todo \in Seq(Seeds!Steps) \ {<<>>}, NEW mind, NEW base, Prepared(todo, mind, base),
         NEW x \in Seeds!Steps, Leads(x, Head(todo))
  PROVE  Reached(x, mind, base)
<1>1. 1 \in DOMAIN todo /\ todo[1] = Head(todo) /\ DOMAIN todo \subseteq Nat \ {0}
  OBVIOUS
<1>2. ~\E j \in DOMAIN todo : j < 1
  BY <1>1
<1> QED BY <1>1, <1>2 DEF Prepared

\* When the first step is done.
LEMMA PreparedTail ==
  ASSUME NEW todo \in Seq(Seeds!Steps) \ {<<>>}, NEW mind, NEW base, Prepared(todo, mind, base),
         NEW mind2, NEW base2, Reached(Head(todo), mind2, base2),
         \A x \in Seeds!Steps : Reached(x, mind, base) => Reached(x, mind2, base2)
  PROVE  Prepared(Tail(todo), mind2, base2)
<1>1. /\ DOMAIN Tail(todo) = 1 .. (Len(todo) - 1) /\ Len(todo) \in Nat
      /\ DOMAIN todo = 1 .. Len(todo) /\ Head(todo) = todo[1]
      /\ \A i \in 1 .. (Len(todo) - 1) : Tail(todo)[i] = todo[i + 1]
  OBVIOUS
<1>2. SUFFICES ASSUME NEW i \in 1 .. (Len(todo) - 1), NEW x \in Seeds!Steps,
                      Leads(x, Tail(todo)[i]), ~Reached(x, mind2, base2)
               PROVE  \E j \in DOMAIN Tail(todo) : j < i /\ Tail(todo)[j] = x
  BY <1>1 DEF Prepared
<1>3. Leads(x, todo[i + 1]) /\ i + 1 \in DOMAIN todo /\ ~Reached(x, mind, base)
  BY <1>1, <1>2
<1>4. PICK j \in DOMAIN todo : j < i + 1 /\ todo[j] = x
  BY <1>2, <1>3 DEF Prepared
<1>5. j # 1
  BY <1>1, <1>2, <1>4
<1>6. j - 1 \in DOMAIN Tail(todo) /\ j - 1 < i /\ Tail(todo)[j - 1] = x
  BY <1>1, <1>4, <1>5
<1> QED BY <1>6

LEMMA ChainedTail ==
  ASSUME NEW todo \in Seq(Seeds!Steps) \ {<<>>}, NEW last, Chained(todo, last)
  PROVE  Chained(Tail(todo), Head(todo)) /\ (Head(todo) = "rest" => last = "alert")
<1>1. /\ DOMAIN Tail(todo) = 1 .. (Len(todo) - 1) /\ Len(todo) \in Nat \ {0}
      /\ DOMAIN todo = 1 .. Len(todo) /\ Head(todo) = todo[1]
      /\ \A i \in 1 .. (Len(todo) - 1) : Tail(todo)[i] = todo[i + 1]
  OBVIOUS
<1>2. ASSUME NEW i \in 1 .. (Len(todo) - 1), Tail(todo)[i] = "rest"
      PROVE  IF i = 1 THEN Head(todo) = "alert" ELSE Tail(todo)[i - 1] = "alert"
  <2>1. i + 1 \in DOMAIN todo /\ i + 1 # 1 /\ todo[i + 1] = "rest" /\ (i + 1) - 1 = i
    BY <1>1, <1>2
  <2>2. todo[i] = "alert"
    BY <2>1 DEF Chained
  <2>3. CASE i = 1
    BY <1>1, <2>2, <2>3
  <2>4. CASE i # 1
    <3>1. i - 1 \in 1 .. (Len(todo) - 1) /\ (i - 1) + 1 = i
      BY <1>1, <2>4
    <3> QED BY <1>1, <2>2, <2>4, <3>1
  <2> QED BY <2>3, <2>4
<1>3. 1 \in DOMAIN todo
  BY <1>1
<1> QED BY <1>1, <1>2, <1>3 DEF Chained

LEMMA ChainedIfOrdered ==
  ASSUME NEW todo, Ordered(todo), NEW last
  PROVE  Chained(todo, last)
BY DEF Chained, Ordered

LEMMA ChainedMore ==
  ASSUME NEW todo \in Seq(Seeds!Steps), NEW more \in Seq(Seeds!Steps), NEW last, last # "alert",
         Ordered(more), Chained(todo, last)
  PROVE  Chained(more \o todo, last)
<1>1. /\ DOMAIN (more \o todo) = 1 .. (Len(more) + Len(todo)) /\ Len(more) \in Nat /\ Len(todo) \in Nat
      /\ DOMAIN more = 1 .. Len(more) /\ DOMAIN todo = 1 .. Len(todo)
      /\ \A i \in 1 .. Len(more) : (more \o todo)[i] = more[i]
      /\ \A i \in 1 .. Len(todo) : (more \o todo)[Len(more) + i] = todo[i]
  OBVIOUS
<1>2. SUFFICES ASSUME NEW i \in DOMAIN (more \o todo), (more \o todo)[i] = "rest"
               PROVE  i # 1 /\ (more \o todo)[i - 1] = "alert"
  BY DEF Chained
<1>3. CASE i <= Len(more)
  <2>1. i \in 1 .. Len(more) /\ more[i] = "rest"
    BY <1>1, <1>2, <1>3
  <2>2. i # 1 /\ more[i - 1] = "alert"
    BY <1>1, <2>1 DEF Ordered
  <2>3. i - 1 \in 1 .. Len(more)
    BY <1>1, <2>1, <2>2
  <2> QED BY <1>1, <2>2, <2>3
<1>4. CASE i > Len(more)
  <2>1. i - Len(more) \in 1 .. Len(todo) /\ i = Len(more) + (i - Len(more))
    BY <1>1, <1>4
  <2>2. todo[i - Len(more)] = "rest"
    BY <1>1, <1>2, <2>1
  <2>3. i - Len(more) # 1 /\ todo[(i - Len(more)) - 1] = "alert"
    BY <1>1, <2>1, <2>2 DEF Chained
  <2>4. /\ (i - Len(more)) - 1 \in 1 .. Len(todo) /\ i # 1
        /\ i - 1 = Len(more) + ((i - Len(more)) - 1)
    BY <1>1, <2>1, <2>3
  <2>5. (more \o todo)[Len(more) + ((i - Len(more)) - 1)] = todo[(i - Len(more)) - 1]
    BY <1>1, <2>4
  <2> QED BY <2>3, <2>4, <2>5
<1> QED BY <1>1, <1>3, <1>4

\* And when it puts a list in order in its place.
LEMMA PreparedMore ==
  ASSUME NEW todo \in Seq(Seeds!Steps), NEW more \in Seq(Seeds!Steps), NEW mind, NEW base,
         Ordered(more), Prepared(todo, mind, base)
  PROVE  Prepared(more \o todo, mind, base)
<1>1. /\ DOMAIN (more \o todo) = 1 .. (Len(more) + Len(todo)) /\ Len(more) \in Nat /\ Len(todo) \in Nat
      /\ DOMAIN more = 1 .. Len(more) /\ DOMAIN todo = 1 .. Len(todo)
      /\ \A i \in 1 .. Len(more) : (more \o todo)[i] = more[i]
      /\ \A i \in 1 .. Len(todo) : (more \o todo)[Len(more) + i] = todo[i]
  OBVIOUS
<1>2. SUFFICES ASSUME NEW i \in DOMAIN (more \o todo), NEW x \in Seeds!Steps,
                      Leads(x, (more \o todo)[i]), ~Reached(x, mind, base)
               PROVE  \E j \in DOMAIN (more \o todo) : j < i /\ (more \o todo)[j] = x
  BY DEF Prepared
<1>3. CASE i <= Len(more)
  <2>1. i \in 1 .. Len(more) /\ (more \o todo)[i] = more[i]
    BY <1>1, <1>3
  <2>2. PICK j \in 1 .. Len(more) : j < i /\ more[j] = x
    <3>1. \A y \in Seeds!Steps : Leads(y, more[i]) => \E j \in DOMAIN more : j < i /\ more[j] = y
      BY <1>1, <2>1, Zenon DEF Ordered
    <3>2. Leads(x, more[i])
      BY <1>2, <2>1
    <3> QED BY <1>1, <3>1, <3>2
  <2>3. j \in DOMAIN (more \o todo) /\ (more \o todo)[j] = x
    BY <1>1, <2>2
  <2> QED BY <2>2, <2>3
<1>4. CASE i > Len(more)
  <2>1. i - Len(more) \in 1 .. Len(todo) /\ i = Len(more) + (i - Len(more))
    BY <1>1, <1>4
  <2>2. (more \o todo)[i] = todo[i - Len(more)]
    BY <1>1, <2>1
  <2>3. PICK j \in 1 .. Len(todo) : j < i - Len(more) /\ todo[j] = x
    BY <1>1, <1>2, <2>1, <2>2 DEF Prepared
  <2>4. Len(more) + j \in DOMAIN (more \o todo) /\ (more \o todo)[Len(more) + j] = x
        /\ Len(more) + j < i
    BY <1>1, <2>3
  <2> QED BY <2>4
<1> QED BY <1>1, <1>3, <1>4

-----------------------------------------------------------------------------
(* What is never removed stays.                                            *)

LEMMA PlatesFinite ==
  ASSUME NEW list, IsFiniteSet(list)
  PROVE  IsFiniteSet(Seeds!Plates(list)) /\ Cardinality(Seeds!Plates(list)) \in Nat
<1> DEFINE f == [e \in list |-> e.plate]
<1>1. f \in Surjection(list, Seeds!Plates(list))
  BY DEF Surjection, Seeds!Plates
<1>2. IsFiniteSet(Seeds!Plates(list))
  BY <1>1, FS_Surjection
<1> QED BY <1>2, FS_CardinalityType

LEMMA ListedGrows ==
  ASSUME NEW list, NEW more, Listed(list), list \subseteq more, IsFiniteSet(more)
  PROVE  Listed(more)
<1>1. Seeds!Plates(list) \subseteq Seeds!Plates(more)
  BY DEF Seeds!Plates
<1>2. IsFiniteSet(Seeds!Plates(more)) /\ Cardinality(Seeds!Plates(more)) \in Nat
  BY PlatesFinite
<1>3. /\ Cardinality(Seeds!Plates(list)) <= Cardinality(Seeds!Plates(more))
      /\ Cardinality(Seeds!Plates(list)) \in Nat
  BY <1>1, <1>2, FS_Subset, FS_CardinalityType
<1> QED BY <1>1, <1>2, <1>3, WatchlistSize DEF Listed

LEMMA GrownOn ==
  ASSUME NEW old, NEW base, NEW next, Grown(old, base), Grown(base, next)
  PROVE  Grown(old, next)
BY DEF Grown, Seeds!Seen

LEMMA CompleteGrows ==
  ASSUME NEW old, NEW base, Complete(old), Grown(old, base), IsFiniteSet(base.list)
  PROVE  Complete(base)
<1>1. Listed(base.list)
  BY ListedGrows DEF Complete, Grown
<1> QED BY <1>1 DEF Complete, Grown, Seeds!Seen

LEMMA ReachedGrows ==
  ASSUME NEW x, NEW mind, NEW old, NEW mind2, NEW base, Reached(x, mind, old),
         Grown(old, base), IsFiniteSet(base.list), mind.depts # {} => mind2.depts # {},
         DOMAIN Seeds!CamerasData \subseteq mind.cams => DOMAIN Seeds!CamerasData \subseteq mind2.cams
  PROVE  Reached(x, mind2, base)
<1>1. x = "watchlists" => Listed(base.list)
  BY ListedGrows DEF Reached, Grown
<1>2. x = "journey" => Seeds!Seen(base, Seeds!DemoPlate) # {}
  BY DEF Reached, Grown, Seeds!Seen
<1> QED BY <1>1, <1>2 DEF Reached, Grown

LEMMA PreparedGrows ==
  ASSUME NEW todo, NEW mind, NEW old, NEW mind2, NEW base, Prepared(todo, mind, old),
         Grown(old, base), IsFiniteSet(base.list), mind.depts # {} => mind2.depts # {},
         DOMAIN Seeds!CamerasData \subseteq mind.cams => DOMAIN Seeds!CamerasData \subseteq mind2.cams
  PROVE  Prepared(todo, mind2, base)
BY ReachedGrows DEF Prepared

LEMMA StartsCounted ==
  ASSUME SeedInv
  PROVE  /\ scope \in SeedScopes /\ starts \in Nat /\ \A p \in Processes : proc[p].no \in Nat
         /\ \A n \in 0 .. scope.starts : n \in Nat
<1>1. scope \in SeedScopes /\ starts \in 0 .. scope.starts
  BY DEF SeedInv, Seeds!TypeOK
<1>2. scope.starts \in Nat
  BY <1>1 DEF SeedInv, Seeds!SeedingAssumption
<1>3. starts \in Nat
  BY <1>1, <1>2
<1>4. \A p \in Processes : proc[p].no \in 0 .. starts
  BY DEF SeedInv, Seeds!TypeOK
<1>5. \A n \in 0 .. scope.starts : n \in Nat
  BY <1>2
<1> QED BY <1>1, <1>3, <1>4, <1>5

LEMMA EmptyTyped == Seeds!TypedRows(Seeds!Empty) /\ Sound(Seeds!Empty)
<1>1. Seeds!IsFiniteSet({})
  BY SameSizeOfSeed, FS_EmptySet
<1>2. DOMAIN Seeds!NoCameras = {}
  BY DEF Seeds!NoCameras
<1>3. Seeds!TypedRows(Seeds!Empty)
  BY <1>1, <1>2 DEF Seeds!TypedRows, Seeds!Empty
<1> QED BY <1>2, <1>3 DEF Sound, Seeds!Empty, Seeds!Seen

-----------------------------------------------------------------------------
(* A script starts, looks, commits or ends.                                *)

\* What another process is about is not disturbed by what is added.
LEMMA InformedKept ==
  ASSUME SeedInv, NEW q \in Processes, proc'[q] = proc[q], starts' \in Nat, starts <= starts',
         Grown(db, db'), IsFiniteSet(db'.list)
  PROVE  Informed(q)'
<1>1. Informed(q) /\ starts \in Nat /\ proc[q].no \in Nat
  BY StartsCounted DEF SeedInv
<1>2. proc[q].looked => Seeds!Running(q) /\ Grown(proc[q].view, db')
  BY <1>1, GrownOn DEF Informed
<1>3. proc[q].cams \subseteq DOMAIN db'.cams /\ proc[q].depts \subseteq db'.depts
  BY <1>1 DEF Informed, Grown
<1>4. Prepared(proc[q].todo, proc[q], db')
  BY <1>1, PreparedGrows DEF Informed
<1>5. proc[q].last = "rest" => Complete(db')
  BY <1>1, CompleteGrows DEF Informed
<1>6. Seeds!Running(q) => proc[q].no \in 1 .. starts'
  BY <1>1 DEF Informed
<1>7. Informed(q)' <=>
        /\ proc'[q].looked => Seeds!Running(q)' /\ Grown(proc'[q].view, db')
        /\ proc'[q].cams \subseteq DOMAIN db'.cams /\ proc'[q].depts \subseteq db'.depts
        /\ Seeds!Running(q)' => proc'[q].no \in 1 .. starts'
        /\ Prepared(proc'[q].todo, proc'[q], db')
        /\ Chained(proc'[q].todo, proc'[q].last)
        /\ proc'[q].last = "rest" => Complete(db')
  BY DEF Informed, Grown, Prepared, Reached, Complete, Chained
<1>8. Seeds!Running(q)' <=> Seeds!Running(q)
  BY DEF Seeds!Running
<1>9. Chained(proc[q].todo, proc[q].last)
  BY <1>1 DEF Informed
<1> QED BY <1>2, <1>3, <1>4, <1>5, <1>6, <1>7, <1>8, <1>9

LEMMA SeedCommits ==
  ASSUME SeedInv, NEW p \in Processes, NEW base, NEW mind, Seeds!Commit(p, base, mind),
         Seeds!Running(p), UNCHANGED <<scope, starts, raced>>,
         DOMAIN mind = DOMAIN Seeds!Idle, mind.todo \in Seq(Seeds!Steps) \ {<<>>},
         Head(mind.todo) = Head(proc[p].todo), mind.no = proc[p].no,
         mind.depts \subseteq base.depts, mind.cams \subseteq DOMAIN base.cams,
         Sound(base), Grown(db, base), ~raced => Tidy(base),
         Prepared(Tail(mind.todo), mind, base), Chained(Tail(mind.todo), Head(mind.todo)),
         Head(mind.todo) \in {"alert", "rest"} => Finished(Head(mind.todo), base)
  PROVE  SeedInv'
<1> DEFINE e == [mind EXCEPT !.todo = Tail(@), !.last = Head(mind.todo), !.looked = FALSE,
                             !.view = Seeds!Empty]
<1>1. db' = base /\ proc' = [proc EXCEPT ![p] = e]
  BY DEF Seeds!Commit
<1>2. /\ DOMAIN e = DOMAIN Seeds!Idle /\ e.todo = Tail(mind.todo) /\ e.last = Head(mind.todo)
      /\ e.looked = FALSE /\ e.view = Seeds!Empty /\ e.no = mind.no
      /\ e.depts = mind.depts /\ e.cams = mind.cams
  BY DEF Seeds!Idle
<1> HIDE DEF e
<1>3. /\ DOMAIN proc = Processes /\ Seeds!TypeOK /\ Sound(db) /\ Seeds!SeedingAssumption
      /\ \A q \in Processes : Informed(q)
      /\ ~raced => Serial
  BY DEF SeedInv, Seeds!TypeOK
<1>4. DOMAIN proc' = Processes /\ proc'[p] = e /\ \A q \in Processes \ {p} : proc'[q] = proc[q]
  BY <1>1, <1>3
<1>5. /\ Head(mind.todo) \in Seeds!Steps /\ Tail(mind.todo) \in Seq(Seeds!Steps)
  OBVIOUS
<1>6. starts \in Nat /\ scope \in SeedScopes
  BY StartsCounted
<1>7. Seeds!TypeOK'
  <2>1. base.depts \subseteq Seeds!AllDepartments /\ DOMAIN base.cams \subseteq Seeds!AllCameras
        /\ Seeds!TypedRows(base)
    BY DEF Sound, Seeds!TypedRows
  <2>2. /\ DOMAIN e = DOMAIN Seeds!Idle /\ Seeds!TypedRows(e.view)
        /\ e.todo \in Seq(Seeds!Steps) /\ e.last \in Seeds!Steps \cup {""}
        /\ e.looked \in BOOLEAN /\ e.no \in 0 .. starts
        /\ e.depts \subseteq Seeds!AllDepartments /\ e.cams \subseteq Seeds!AllCameras
    BY <1>2, <1>3, <1>5, <2>1, EmptyTyped DEF Seeds!TypeOK
  <2>3. \A q \in Processes \ {p} :
          /\ DOMAIN proc[q] = DOMAIN Seeds!Idle /\ Seeds!TypedRows(proc[q].view)
          /\ proc[q].todo \in Seq(Seeds!Steps) /\ proc[q].last \in Seeds!Steps \cup {""}
          /\ proc[q].looked \in BOOLEAN /\ proc[q].no \in 0 .. starts
          /\ proc[q].depts \subseteq Seeds!AllDepartments /\ proc[q].cams \subseteq Seeds!AllCameras
    BY <1>3 DEF Seeds!TypeOK
  <2>4. \A q \in Processes :
          /\ DOMAIN proc'[q] = DOMAIN Seeds!Idle /\ Seeds!TypedRows(proc'[q].view)
          /\ proc'[q].todo \in Seq(Seeds!Steps) /\ proc'[q].last \in Seeds!Steps \cup {""}
          /\ proc'[q].looked \in BOOLEAN /\ proc'[q].no \in 0 .. starts
          /\ proc'[q].depts \subseteq Seeds!AllDepartments /\ proc'[q].cams \subseteq Seeds!AllCameras
    BY <1>4, <2>2, <2>3
  <2>5. scope \in SeedScopes /\ starts \in 0 .. scope.starts /\ raced \in BOOLEAN
    BY <1>3 DEF Seeds!TypeOK
  <2>6. Seeds!TypedRows(db')
    BY <1>1, <2>1
  <2>7. \A q \in Processes : Seeds!TypedRows(proc[q].view)' <=> Seeds!TypedRows(proc'[q].view)
    BY DEF Seeds!TypedRows
  <2>8. Seeds!TypedRows(db)' <=> Seeds!TypedRows(db')
    BY DEF Seeds!TypedRows
  <2> HIDE DEF Seeds!TypedRows
  <2> QED BY <1>4, <2>4, <2>5, <2>6, <2>7, <2>8 DEF Seeds!TypeOK
<1>8. Sound(db)'
  BY <1>1 DEF Sound, Seeds!TypedRows
<1>9. IsFiniteSet(base.list)
  BY SameSizeOfSeed DEF Sound, Seeds!TypedRows
<1>10. \A q \in Processes \ {p} : Informed(q)'
  BY <1>1, <1>4, <1>6, <1>9, InformedKept
<1>11. Informed(p)'
  <2>1. ~proc'[p].looked
    BY <1>2, <1>4
  <2>2. proc'[p].cams \subseteq DOMAIN db'.cams /\ proc'[p].depts \subseteq db'.depts
    BY <1>1, <1>2, <1>4
  <2>3. proc'[p].no \in 1 .. starts'
    BY <1>2, <1>3, <1>4 DEF Informed
  <2>4. Prepared(proc'[p].todo, proc'[p], db')
    <3>1. Grown(base, base)
      BY DEF Grown, Seeds!Seen
    <3>2. Prepared(Tail(mind.todo), e, base)
      BY <1>2, <1>9, <3>1, PreparedGrows
    <3> QED BY <1>1, <1>2, <1>4, <3>2
  <2>5. proc'[p].last = "rest" => Complete(db')
    BY <1>1, <1>2, <1>4 DEF Finished
  <2>6. Informed(p)' <=>
        /\ proc'[p].looked => Seeds!Running(p)' /\ Grown(proc'[p].view, db')
        /\ proc'[p].cams \subseteq DOMAIN db'.cams /\ proc'[p].depts \subseteq db'.depts
        /\ Seeds!Running(p)' => proc'[p].no \in 1 .. starts'
        /\ Prepared(proc'[p].todo, proc'[p], db')
        /\ Chained(proc'[p].todo, proc'[p].last)
        /\ proc'[p].last = "rest" => Complete(db')
    BY DEF Informed, Grown, Prepared, Reached, Complete, Chained
  <2>7. Chained(proc'[p].todo, proc'[p].last)
    BY <1>2, <1>4
  <2> QED BY <2>1, <2>2, <2>3, <2>4, <2>5, <2>6, <2>7
<1>12. ASSUME ~raced PROVE Serial'
  <2>1. Serial /\ Tidy(base)
    BY <1>3, <1>12
  <2>2. Tidy(db)'
    BY <1>1, <2>1 DEF Tidy
  <2>3. \A q \in Processes : Seeds!Running(q)' => Seeds!Running(q)
    BY <1>4 DEF Seeds!Running
  <2>4. \A q \in Processes : ~proc'[q].looked
    <3>1. \A q \in Processes \ {p} : ~Seeds!Running(q)
      BY <2>1 DEF Serial
    <3> QED BY <1>2, <1>3, <1>4, <3>1 DEF Informed
  <2>5. /\ proc[p].no = starts /\ starts # 0 /\ \A q \in Processes \ {p} : proc[q].no # starts
        /\ proc[p].last \in {"alert", "rest"} => Rung(db)
    <3>1. proc[p].no = starts /\ proc[p].no \in 1 .. starts
      BY <1>3, <2>1 DEF Serial, Latest, Informed
    <3>2. starts # 0
      BY <1>6, <3>1
    <3> QED BY <2>1, <3>1, <3>2 DEF Serial, Latest
  <2>6. e.last \in {"alert", "rest"} => Rung(base)
    <3>1. Head(proc[p].todo) = "rest" => proc[p].last = "alert"
      <4>1. Chained(proc[p].todo, proc[p].last) /\ proc[p].todo \in Seq(Seeds!Steps) \ {<<>>}
        BY <1>3 DEF Informed, Seeds!TypeOK, Seeds!Running
      <4> QED BY <4>1, ChainedTail
    <3> QED BY <1>2, <1>12, <2>5, <3>1 DEF Finished
  <2>7. Latest'
    <3>1. Latest' <=>
            /\ \A q \in Processes : Seeds!Running(q)' => proc'[q].no = starts'
            /\ \A q, r \in Processes : proc'[q].no = starts' /\ proc'[r].no = starts' /\ starts' # 0 => q = r
            /\ \A q \in Processes : proc'[q].no = starts' /\ proc'[q].last \in {"alert", "rest"} => Rung(db')
      BY DEF Latest, Rung
    <3>2. \A q \in Processes : proc'[q].no = proc[q].no
      BY <1>2, <1>4
    <3>3. \A q \in Processes : Seeds!Running(q)' => proc'[q].no = starts'
      BY <2>1, <2>3, <3>2 DEF Serial, Latest
    <3>4. \A q, r \in Processes : proc'[q].no = starts' /\ proc'[r].no = starts' /\ starts' # 0 => q = r
      BY <2>5, <3>2
    <3>5. \A q \in Processes : proc'[q].no = starts' /\ proc'[q].last \in {"alert", "rest"} => Rung(db')
      BY <1>1, <1>4, <2>5, <2>6, <3>2
    <3> QED BY <3>1, <3>3, <3>4, <3>5
  <2> QED BY <2>1, <2>2, <2>3, <2>4, <2>7 DEF Serial
<1>13. SeedInv' <=> /\ Seeds!SeedingAssumption' /\ Seeds!TypeOK' /\ Sound(db)'
                    /\ \A q \in Processes : Informed(q)'
                    /\ ~raced' => Serial'
  BY DEF SeedInv
<1>14. Seeds!SeedingAssumption'
  BY <1>3 DEF Seeds!SeedingAssumption, Seeds!DemoPlate
<1> QED BY <1>7, <1>8, <1>10, <1>11, <1>12, <1>13, <1>14

LEMMA CountedUpTo ==
  ASSUME NEW n \in Nat, NEW i \in 0 .. n, NEW m \in Nat, n <= m
  PROVE  i \in Nat /\ i \in 0 .. m
OBVIOUS

LEMMA BeyondCount ==
  ASSUME NEW n \in Nat, NEW i \in 0 .. n, NEW m \in Nat, n <= m, m # n
  PROVE  i # m
OBVIOUS

\* What a step that is not a commit leaves: the rows as they are.
LEMMA SeedElse ==
  ASSUME SeedInv, NEW p \in Processes, NEW e, proc' = [proc EXCEPT ![p] = e], UNCHANGED <<db, scope>>,
         DOMAIN e = DOMAIN Seeds!Idle, Seeds!TypedRows(e.view), e.todo \in Seq(Seeds!Steps),
         e.last \in Seeds!Steps \cup {""}, e.looked \in BOOLEAN, e.no \in 0 .. starts',
         e.depts \subseteq db.depts, e.cams \subseteq DOMAIN db.cams,
         e.looked => e.todo # <<>> /\ e.view = db, e.todo # <<>> => e.no \in 1 .. starts',
         Prepared(e.todo, e, db), Chained(e.todo, e.last), e.last = "rest" => Complete(db),
         starts' \in 0 .. scope.starts, starts <= starts', raced' \in BOOLEAN, raced => raced',
         ~raced' /\ e.todo # <<>> => \A q \in Processes \ {p} : ~Seeds!Running(q),
         IF e.todo = <<>> THEN starts' = starts ELSE ~raced' => e.no = starts',
         ~raced' /\ e.no = starts' =>
           /\ starts' # 0 => \A q \in Processes \ {p} : proc[q].no # starts'
           /\ e.last \in {"alert", "rest"} => Rung(db)
  PROVE  SeedInv'
<1>1. /\ DOMAIN proc = Processes /\ Seeds!TypeOK /\ Sound(db) /\ Seeds!SeedingAssumption
      /\ \A q \in Processes : Informed(q)
      /\ ~raced => Serial
  BY DEF SeedInv, Seeds!TypeOK
<1>2. DOMAIN proc' = Processes /\ proc'[p] = e /\ \A q \in Processes \ {p} : proc'[q] = proc[q]
  BY <1>1
<1>3. starts \in Nat /\ starts' \in Nat /\ \A q \in Processes : proc[q].no \in 0 .. starts
  <2>1. starts \in Nat /\ starts' \in Nat
    BY <1>1, StartsCounted
  <2>3. \A q \in Processes : proc[q].no \in 0 .. starts
    BY <1>1 DEF Seeds!TypeOK
  <2> QED BY <2>1, <2>3
<1>4. Grown(db, db)
  BY DEF Grown, Seeds!Seen
<1>5. Seeds!TypeOK'
  <2>1. db.depts \subseteq Seeds!AllDepartments /\ DOMAIN db.cams \subseteq Seeds!AllCameras
        /\ Seeds!TypedRows(db)
    BY <1>1 DEF Sound, Seeds!TypedRows
  <2>2. \A q \in Processes \ {p} :
          /\ DOMAIN proc[q] = DOMAIN Seeds!Idle /\ Seeds!TypedRows(proc[q].view)
          /\ proc[q].todo \in Seq(Seeds!Steps) /\ proc[q].last \in Seeds!Steps \cup {""}
          /\ proc[q].looked \in BOOLEAN /\ proc[q].no \in 0 .. starts'
          /\ proc[q].depts \subseteq Seeds!AllDepartments /\ proc[q].cams \subseteq Seeds!AllCameras
    <3>1. \A q \in Processes : proc[q].no \in 0 .. starts'
      BY <1>3, CountedUpTo
    <3> QED BY <1>1, <3>1 DEF Seeds!TypeOK
  <2>3. \A q \in Processes :
          /\ DOMAIN proc'[q] = DOMAIN Seeds!Idle /\ Seeds!TypedRows(proc'[q].view)
          /\ proc'[q].todo \in Seq(Seeds!Steps) /\ proc'[q].last \in Seeds!Steps \cup {""}
          /\ proc'[q].looked \in BOOLEAN /\ proc'[q].no \in 0 .. starts'
          /\ proc'[q].depts \subseteq Seeds!AllDepartments /\ proc'[q].cams \subseteq Seeds!AllCameras
    BY <1>2, <2>1, <2>2
  <2>4. \A q \in Processes : Seeds!TypedRows(proc[q].view)' <=> Seeds!TypedRows(proc'[q].view)
    BY DEF Seeds!TypedRows
  <2>5. Seeds!TypedRows(db)' /\ scope \in SeedScopes
    BY <1>1, <2>1 DEF Seeds!TypedRows, Seeds!TypeOK
  <2> HIDE DEF Seeds!TypedRows
  <2> QED BY <1>2, <2>3, <2>4, <2>5 DEF Seeds!TypeOK
<1>6. Sound(db)'
  BY <1>1 DEF Sound, Seeds!TypedRows
<1>7. IsFiniteSet(db.list)
  BY <1>1, SameSizeOfSeed DEF Sound, Seeds!TypedRows
<1>8. \A q \in Processes \ {p} : Informed(q)'
  BY <1>2, <1>3, <1>4, <1>7, InformedKept
<1>9. Informed(p)'
  <2>1. Informed(p)' <=>
        /\ proc'[p].looked => Seeds!Running(p)' /\ Grown(proc'[p].view, db')
        /\ proc'[p].cams \subseteq DOMAIN db'.cams /\ proc'[p].depts \subseteq db'.depts
        /\ Seeds!Running(p)' => proc'[p].no \in 1 .. starts'
        /\ Prepared(proc'[p].todo, proc'[p], db')
        /\ Chained(proc'[p].todo, proc'[p].last)
        /\ proc'[p].last = "rest" => Complete(db')
    BY DEF Informed, Grown, Prepared, Reached, Complete, Chained
  <2>2. Seeds!Running(p)' <=> e.todo # <<>>
    BY <1>2 DEF Seeds!Running
  <2> QED BY <1>2, <1>4, <2>1, <2>2
<1>10. ASSUME ~raced' PROVE Serial'
  <2>1. Serial
    BY <1>1, <1>10
  <2>2. Tidy(db)'
    BY <2>1 DEF Serial, Tidy
  <2>3. \A q \in Processes \ {p} : Seeds!Running(q)' <=> Seeds!Running(q)
    BY <1>2 DEF Seeds!Running
  <2>4. Seeds!Running(p)' <=> e.todo # <<>>
    BY <1>2 DEF Seeds!Running
  <2>5. \A q, r \in Processes : Seeds!Running(q)' /\ Seeds!Running(r)' => q = r
    BY <1>10, <2>1, <2>3, <2>4 DEF Serial
  <2>6. \A q \in Processes : proc'[q].looked => proc'[q].view = db'
    BY <1>2, <2>1 DEF Serial
  <2>7. Latest'
    <3>1. Latest' <=>
            /\ \A q \in Processes : Seeds!Running(q)' => proc'[q].no = starts'
            /\ \A q, r \in Processes : proc'[q].no = starts' /\ proc'[r].no = starts' /\ starts' # 0 => q = r
            /\ \A q \in Processes : proc'[q].no = starts' /\ proc'[q].last \in {"alert", "rest"} => Rung(db')
      BY DEF Latest, Rung
    <3>2. starts' # starts => \A q \in Processes : proc[q].no # starts'
      BY <1>3, BeyondCount
    <3>3. \A q \in Processes \ {p} : Seeds!Running(q) => starts' = starts
      BY <1>10
    <3>4. \A q \in Processes : Seeds!Running(q)' => proc'[q].no = starts'
      BY <1>2, <1>10, <2>1, <2>3, <2>4, <3>3 DEF Serial, Latest
    <3>5. \A q, r \in Processes \ {p} :
            proc[q].no = starts' /\ proc[r].no = starts' /\ starts' # 0 => q = r
      BY <2>1, <3>2 DEF Serial, Latest
    <3>6. \A q, r \in Processes : proc'[q].no = starts' /\ proc'[r].no = starts' /\ starts' # 0 => q = r
      <4>1. starts' # 0 /\ e.no = starts' => \A q \in Processes \ {p} : proc[q].no # starts'
        BY <1>10
      <4>2. proc'[p] = e /\ \A q \in Processes \ {p} : proc'[q] = proc[q]
        BY <1>2
      <4>3. \A q, r \in Processes \ {p} :
              proc'[q].no = starts' /\ proc'[r].no = starts' /\ starts' # 0 => q = r
        BY <3>5, <4>2
      <4>4. \A q \in Processes \ {p} :
              ~ (proc'[p].no = starts' /\ proc'[q].no = starts' /\ starts' # 0)
        BY <4>1, <4>2
      <4> TAKE q, r \in Processes
      <4>5. CASE q # p /\ r # p
        BY <4>3, <4>5
      <4>6. CASE q = p \/ r = p
        BY <4>4, <4>6
      <4> QED BY <4>5, <4>6
    <3>7. \A q \in Processes \ {p} :
            proc[q].no = starts' /\ proc[q].last \in {"alert", "rest"} => Rung(db)
      BY <2>1, <3>2 DEF Serial, Latest
    <3>8. \A q \in Processes : proc'[q].no = starts' /\ proc'[q].last \in {"alert", "rest"} => Rung(db')
      BY <1>2, <1>10, <3>7
    <3> QED BY <3>1, <3>4, <3>6, <3>8
  <2> QED BY <2>2, <2>5, <2>6, <2>7 DEF Serial
<1>11. SeedInv' <=> /\ Seeds!SeedingAssumption' /\ Seeds!TypeOK' /\ Sound(db)'
                    /\ \A q \in Processes : Informed(q)'
                    /\ ~raced' => Serial'
  BY DEF SeedInv
<1>12. Seeds!SeedingAssumption'
  BY <1>1 DEF Seeds!SeedingAssumption, Seeds!DemoPlate
<1> QED BY <1>5, <1>6, <1>8, <1>9, <1>10, <1>11, <1>12

LEMMA SeedLooks ==
  ASSUME SeedInv, NEW p \in Processes, Seeds!Look(p), UNCHANGED scope
  PROVE  SeedInv'
<1> DEFINE e == [proc[p] EXCEPT !.looked = TRUE, !.view = db]
<1>1. /\ DOMAIN proc = Processes /\ DOMAIN proc[p] = DOMAIN Seeds!Idle /\ Informed(p)
      /\ Seeds!Running(p) /\ UNCHANGED <<db, starts, raced>> /\ Seeds!TypeOK
      /\ proc' = [proc EXCEPT ![p].looked = TRUE, ![p].view = db]
  BY DEF SeedInv, Seeds!TypeOK, Seeds!Look
<1>2. proc' = [proc EXCEPT ![p] = e]
  BY <1>1
<1>3. /\ DOMAIN e = DOMAIN Seeds!Idle /\ e.view = db /\ e.looked = TRUE /\ e.todo = proc[p].todo
      /\ e.last = proc[p].last /\ e.no = proc[p].no /\ e.depts = proc[p].depts
      /\ e.cams = proc[p].cams
  BY <1>1 DEF Seeds!Idle
<1> HIDE DEF e
<1>4. /\ Seeds!TypedRows(db) /\ proc[p].todo \in Seq(Seeds!Steps)
      /\ proc[p].last \in Seeds!Steps \cup {""} /\ proc[p].no \in 0 .. starts
      /\ starts \in 0 .. scope.starts /\ raced \in BOOLEAN
  BY <1>1 DEF Seeds!TypeOK
<1>5. Prepared(e.todo, e, db)
  BY <1>1, <1>3 DEF Informed, Prepared, Reached
<1>6. ~raced => \A q \in Processes \ {p} : ~Seeds!Running(q)
  BY <1>1 DEF SeedInv, Serial
<1>7. /\ e.todo # <<>> /\ e.no \in 1 .. starts /\ e.depts \subseteq db.depts
      /\ e.cams \subseteq DOMAIN db.cams
      /\ e.last = "rest" => Complete(db)
      /\ Chained(e.todo, e.last)
  BY <1>1, <1>3 DEF Informed, Seeds!Running
<1>8. starts <= starts
  BY StartsCounted
<1>9. /\ UNCHANGED <<db, scope>> /\ e.no \in 0 .. starts' /\ starts' \in 0 .. scope.starts
      /\ starts <= starts' /\ raced' \in BOOLEAN /\ (raced => raced') /\ e.no \in 1 .. starts'
      /\ (~raced' => \A q \in Processes \ {p} : ~Seeds!Running(q))
  BY <1>1, <1>3, <1>4, <1>6, <1>7, <1>8
<1>10. ~raced' =>
         /\ e.no = starts'
         /\ starts' # 0 => \A q \in Processes \ {p} : proc[q].no # starts'
         /\ e.last \in {"alert", "rest"} => Rung(db)
  BY <1>1, <1>3 DEF SeedInv, Serial, Latest
<1> QED BY <1>2, <1>3, <1>4, <1>5, <1>7, <1>9, <1>10, SeedElse

LEMMA SeedFails ==
  ASSUME SeedInv, NEW p \in Processes, Seeds!Fail(p), UNCHANGED <<scope, starts, raced>>
  PROVE  SeedInv'
<1>1. proc' = [proc EXCEPT ![p] = Seeds!Idle] /\ UNCHANGED db
  BY DEF Seeds!Fail
<1>2. /\ Seeds!Idle.todo = <<>> /\ Seeds!Idle.looked = FALSE /\ Seeds!Idle.view = Seeds!Empty
      /\ Seeds!Idle.no = 0 /\ Seeds!Idle.depts = {} /\ Seeds!Idle.cams = {} /\ Seeds!Idle.last = ""
  BY DEF Seeds!Idle
<1>3. Prepared(<<>>, Seeds!Idle, db) /\ <<>> \in Seq(Seeds!Steps) /\ Chained(<<>>, "")
  BY ScriptsOrdered, PreparedIfOrdered DEF Chained
<1>4. /\ starts' \in 0 .. scope.starts /\ starts <= starts' /\ 0 \in 0 .. starts'
      /\ raced' \in BOOLEAN /\ (raced => raced')
  <2>1. starts \in 0 .. scope.starts /\ raced \in BOOLEAN
    BY DEF SeedInv, Seeds!TypeOK
  <2>2. starts <= starts /\ 0 \in 0 .. starts
    BY StartsCounted
  <2> QED BY <2>1, <2>2
<1> HIDE DEF Seeds!Idle
<1> QED BY <1>1, <1>2, <1>3, <1>4, EmptyTyped, SeedElse

LEMMA SeedStarts ==
  ASSUME SeedInv, NEW p \in Processes, Seeds!Start(p), UNCHANGED scope
  PROVE  SeedInv'
<1>1. PICK script \in Seeds!Scripts :
        proc' = [proc EXCEPT ![p] = [Seeds!Idle EXCEPT !.todo = script, !.no = starts + 1]]
  BY DEF Seeds!Start
<1>2. /\ starts < scope.starts /\ starts' = starts + 1 /\ UNCHANGED db
      /\ raced' = (raced \/ \E q \in Processes : Seeds!Running(q)) /\ ~Seeds!Running(p)
  BY DEF Seeds!Start
<1> DEFINE e == [Seeds!Idle EXCEPT !.todo = script, !.no = starts + 1]
<1>3. /\ DOMAIN e = DOMAIN Seeds!Idle /\ e.view = Seeds!Empty /\ e.looked = FALSE /\ e.todo = script
      /\ e.last = "" /\ e.no = starts + 1 /\ e.depts = {} /\ e.cams = {}
  BY DEF Seeds!Idle
<1> HIDE DEF e
<1>4. script \in Seq(Seeds!Steps) /\ Prepared(script, e, db) /\ Chained(script, "")
  BY StepsOfScripts, ScriptsOrdered, PreparedIfOrdered, ChainedIfOrdered
<1>5. starts \in Nat /\ scope.starts \in Nat /\ raced \in BOOLEAN
  BY StartsCounted DEF SeedInv, Seeds!TypeOK, Seeds!SeedingAssumption
<1>6. /\ starts' \in 0 .. scope.starts /\ starts <= starts' /\ e.no \in 0 .. starts'
      /\ e.no \in 1 .. starts'
  <2>1. starts + 1 \in 0 .. scope.starts /\ starts <= starts + 1 /\ starts + 1 \in 1 .. (starts + 1)
        /\ starts + 1 \in 0 .. (starts + 1)
    BY <1>2, <1>5
  <2> QED BY <1>2, <1>3, <2>1
<1>7. proc' = [proc EXCEPT ![p] = e]
  BY <1>1 DEF e
<1>8. raced' \in BOOLEAN /\ (raced => raced')
      /\ (~raced' => \A q \in Processes \ {p} : ~Seeds!Running(q))
  BY <1>2, <1>5
<1>9. script # <<>>
  <2> HIDE DEF Seeds!Steps
  <2>1. \A s, t \in Seq(Seeds!Steps) : s # <<>> => s \o t # <<>>
    OBVIOUS
  <2>2. Seeds!ResetSteps # <<>> /\ Seeds!SeedSteps # <<>> /\ Seeds!RunSteps # <<>>
    BY DEF Seeds!SeedSteps, Seeds!ResetSteps, Seeds!RunSteps
  <2>3. Seeds!ResetSteps \o Seeds!DemoSteps \o Seeds!RunSteps # <<>>
    <3>1. Seeds!ResetSteps \o Seeds!DemoSteps \in Seq(Seeds!Steps)
      BY StepsOfScripts
    <3> QED BY <2>1, <2>2, <3>1, StepsOfScripts
  <2> QED BY <2>2, <2>3 DEF Seeds!Scripts
<1>10. e.no = starts' /\ \A q \in Processes : proc[q].no # starts'
  <2>1. \A q \in Processes : proc[q].no \in 0 .. starts
    BY DEF SeedInv, Seeds!TypeOK
  <2>2. \A q \in Processes : proc[q].no # starts + 1
    BY <1>5, <2>1
  <2> QED BY <1>2, <1>3, <2>2
<1> QED BY <1>2, <1>3, <1>4, <1>6, <1>7, <1>8, <1>9, <1>10, EmptyTyped, SeedElse

\* A step that goes on with its script commits.
LEMMA SeedWrites ==
  ASSUME SeedInv, NEW p \in Processes, NEW base, NEW mind, Seeds!Commit(p, base, mind),
         Seeds!Running(p), UNCHANGED <<scope, starts, raced>>,
         DOMAIN mind = DOMAIN Seeds!Idle, mind.todo = proc[p].todo, mind.no = proc[p].no,
         mind.depts \subseteq base.depts, mind.cams \subseteq DOMAIN base.cams,
         proc[p].depts # {} => mind.depts # {},
         DOMAIN Seeds!CamerasData \subseteq proc[p].cams => DOMAIN Seeds!CamerasData \subseteq mind.cams,
         Sound(base), Grown(db, base), ~raced => Tidy(base),
         Reached(Head(proc[p].todo), mind, base),
         Head(proc[p].todo) \in {"alert", "rest"} => Finished(Head(proc[p].todo), base)
  PROVE  SeedInv'
<1>1. /\ proc[p].todo \in Seq(Seeds!Steps) \ {<<>>} /\ Prepared(proc[p].todo, proc[p], db)
      /\ Chained(proc[p].todo, proc[p].last)
  BY DEF SeedInv, Seeds!TypeOK, Seeds!Running, Informed
<1>2. IsFiniteSet(base.list)
  BY SameSizeOfSeed DEF Sound, Seeds!TypedRows
<1>3. \A x \in Seeds!Steps : Reached(x, proc[p], db) => Reached(x, mind, base)
  BY <1>2, ReachedGrows
<1>4. Prepared(Tail(proc[p].todo), mind, base)
  BY <1>1, <1>3, PreparedTail
<1>5. Chained(Tail(proc[p].todo), Head(proc[p].todo))
  BY <1>1, ChainedTail
<1> QED BY <1>1, <1>4, <1>5, SeedCommits

LEMMA AtStep ==
  ASSUME SeedInv, NEW p \in Processes, NEW step, Seeds!At(p, step)
  PROVE  /\ Seeds!Running(p) /\ Head(proc[p].todo) = step /\ Grown(proc[p].view, db)
         /\ proc[p].todo \in Seq(Seeds!Steps) \ {<<>>}
         /\ DOMAIN proc = Processes /\ DOMAIN proc[p] = DOMAIN Seeds!Idle
         /\ Sound(db) /\ Seeds!TypedRows(db) /\ Seeds!TypedRows(proc[p].view)
         /\ proc[p].cams \subseteq DOMAIN db.cams /\ proc[p].depts \subseteq db.depts
         /\ \A x \in Seeds!Steps : Leads(x, step) => Reached(x, proc[p], db)
         /\ ~raced => Tidy(db) /\ proc[p].view = db
<1>1. Seeds!Running(p) /\ Head(proc[p].todo) = step /\ proc[p].looked /\ Informed(p)
  BY DEF Seeds!At, SeedInv
<1>2. proc[p].todo \in Seq(Seeds!Steps) \ {<<>>}
  BY <1>1 DEF SeedInv, Seeds!TypeOK, Seeds!Running
<1>3. \A x \in Seeds!Steps : Leads(x, step) => Reached(x, proc[p], db)
  BY <1>1, <1>2, DueReached DEF Informed
<1>4. ~raced => Tidy(db) /\ proc[p].view = db
  BY <1>1 DEF SeedInv, Serial
<1>5. /\ DOMAIN proc = Processes /\ DOMAIN proc[p] = DOMAIN Seeds!Idle
      /\ Seeds!TypedRows(proc[p].view) /\ Sound(db) /\ Seeds!TypedRows(db)
  BY DEF SeedInv, Seeds!TypeOK
<1> QED BY <1>1, <1>2, <1>3, <1>4, <1>5 DEF Informed

\* A commit that touches neither sightings nor alerts, and removes nothing.
LEMMA Quiet ==
  ASSUME SeedInv, NEW base, DOMAIN base = DOMAIN Seeds!Empty,
         db.users \subseteq base.users, base.users \subseteq Seeds!AllUsers,
         db.depts \subseteq base.depts, base.depts \subseteq Seeds!AllDepartments,
         DOMAIN db.cams \subseteq DOMAIN base.cams, DOMAIN base.cams \subseteq Seeds!AllCameras,
         \A c \in DOMAIN base.cams : base.cams[c] \in base.depts,
         db.list \subseteq base.list, IsFiniteSet(base.list), db.cases \subseteq base.cases,
         base.sights = db.sights, base.alerts = db.alerts,
         ~raced => \A e, f \in base.list : e.plate = f.plate => e = f,
         ~raced => \A e \in base.custody :
                     e \in db.custody \/ (e.case \in base.cases /\ e.sight \in base.sights),
         \/ Seeds!DepartmentsData \subseteq base.depts
         \/ base.depts \subseteq db.depts \cup Seeds!FoundationDepartments
  PROVE  Sound(base) /\ Grown(db, base) /\ (~raced => Tidy(base))
<1>1. Sound(db) /\ (~raced => Tidy(db))
  BY DEF SeedInv, Serial
<1>2. Seeds!TypedRows(base)
  BY <1>1, SameSizeOfSeed DEF Sound, Seeds!TypedRows
<1>3. /\ Seeds!Seen(base, Seeds!DemoPlate) = Seeds!Seen(db, Seeds!DemoPlate)
      /\ Seeds!AlertsOn(base, Seeds!DemoPlate) = Seeds!AlertsOn(db, Seeds!DemoPlate)
  BY DEF Seeds!Seen, Seeds!AlertsOn
<1>0. \/ Seeds!DepartmentsData \subseteq base.depts
      \/ base.depts \subseteq Seeds!FoundationDepartments
  BY <1>1 DEF Sound
<1>4. Sound(base)
  BY <1>0, <1>1, <1>2, <1>3 DEF Sound
<1>5. Grown(db, base)
  BY DEF Grown, Seeds!Seen
<1>6. ~raced => Tidy(base)
  BY <1>1, <1>3 DEF Tidy
<1> QED BY <1>4, <1>5, <1>6

\* And that remembers nothing.
LEMMA SeedKeeps ==
  ASSUME SeedInv, NEW p \in Processes, NEW base, NEW step, Seeds!At(p, step),
         Seeds!Commit(p, base, proc[p]), UNCHANGED <<scope, starts, raced>>,
         Sound(base), Grown(db, base), ~raced => Tidy(base),
         Reached(step, proc[p], base), step \in {"alert", "rest"} => Finished(step, base)
  PROVE  SeedInv'
<1>1. /\ Seeds!Running(p) /\ Head(proc[p].todo) = step /\ DOMAIN proc[p] = DOMAIN Seeds!Idle
      /\ proc[p].depts \subseteq base.depts /\ proc[p].cams \subseteq DOMAIN base.cams
  BY AtStep DEF Grown
<1> QED BY <1>1, SeedWrites

\* The steps that are followed by none that builds on them.
LEMMA LeadsNowhere ==
  ASSUME NEW step, NEW mind, NEW base,
         step \notin {"departments", "cameras", "grid", "watchlists", "journey", "department",
                      "iscon", "stadium"}
  PROVE  Reached(step, mind, base)
BY DEF Reached

\* The database as it is, with fields.
LEMMA RowsOfDb ==
  ASSUME SeedInv
  PROVE  /\ DOMAIN db = DOMAIN Seeds!Empty /\ IsFiniteSet(db.list)
         /\ db.users \subseteq Seeds!AllUsers /\ db.depts \subseteq Seeds!AllDepartments
         /\ DOMAIN db.cams \subseteq Seeds!AllCameras
         /\ \A c \in DOMAIN db.cams : db.cams[c] \in db.depts
         /\ ~raced => \A e, f \in db.list : e.plate = f.plate => e = f
BY SameSizeOfSeed DEF SeedInv, Sound, Seeds!TypedRows, Serial, Tidy

LEMMA UsersWritten ==
  ASSUME SeedInv, NEW p \in Processes, NEW step, Seeds!At(p, step), NEW new, new \subseteq Seeds!AllUsers,
         Seeds!Commit(p, [db EXCEPT !.users = @ \cup new], proc[p]),
         UNCHANGED <<scope, starts, raced>>, step \in {"users", "investigator"}
  PROVE  SeedInv'
<1> DEFINE base == [db EXCEPT !.users = @ \cup new]
<1>1. /\ DOMAIN base = DOMAIN Seeds!Empty /\ base.users = db.users \cup new
      /\ base.depts = db.depts /\ base.cams = db.cams /\ base.list = db.list
      /\ base.sights = db.sights /\ base.alerts = db.alerts /\ base.cases = db.cases
      /\ base.custody = db.custody
  BY RowsOfDb DEF Seeds!Empty
<1>2. Seeds!Commit(p, base, proc[p])
  OBVIOUS
<1> HIDE DEF base
<1>3. Sound(base) /\ Grown(db, base) /\ (~raced => Tidy(base))
  BY <1>1, RowsOfDb, Quiet
<1>4. Reached(step, proc[p], base)
  BY LeadsNowhere
<1> QED BY <1>2, <1>3, <1>4, SeedKeeps

LEMMA CasesWritten ==
  ASSUME SeedInv, NEW p \in Processes, NEW step, Seeds!At(p, step), NEW new,
         Seeds!Commit(p, [db EXCEPT !.cases = @ \cup new], proc[p]),
         UNCHANGED <<scope, starts, raced>>, step \in {"case", "open-case", "case-from-alert"}
  PROVE  SeedInv'
<1> DEFINE base == [db EXCEPT !.cases = @ \cup new]
<1>1. /\ DOMAIN base = DOMAIN Seeds!Empty /\ base.users = db.users
      /\ base.depts = db.depts /\ base.cams = db.cams /\ base.list = db.list
      /\ base.sights = db.sights /\ base.alerts = db.alerts /\ base.cases = db.cases \cup new
      /\ base.custody = db.custody
  BY RowsOfDb DEF Seeds!Empty
<1>2. Seeds!Commit(p, base, proc[p])
  OBVIOUS
<1> HIDE DEF base
<1>3. Sound(base) /\ Grown(db, base) /\ (~raced => Tidy(base))
  BY <1>1, RowsOfDb, Quiet
<1>4. Reached(step, proc[p], base)
  BY LeadsNowhere
<1> QED BY <1>2, <1>3, <1>4, SeedKeeps

LEMMA DepartmentsWritten ==
  ASSUME SeedInv, NEW p \in Processes, NEW step, Seeds!At(p, step), NEW new,
         new \subseteq Seeds!FoundationDepartments,
         Seeds!Commit(p, [db EXCEPT !.depts = @ \cup new], proc[p]),
         UNCHANGED <<scope, starts, raced>>,
         \/ step = "foundation"
         \/ step = "department" /\ "HOME_POLICE" \in db.depts \cup new
  PROVE  SeedInv'
<1> DEFINE base == [db EXCEPT !.depts = @ \cup new]
<1>1. /\ DOMAIN base = DOMAIN Seeds!Empty /\ base.users = db.users
      /\ base.depts = db.depts \cup new /\ base.cams = db.cams /\ base.list = db.list
      /\ base.sights = db.sights /\ base.alerts = db.alerts /\ base.cases = db.cases
      /\ base.custody = db.custody
  BY RowsOfDb DEF Seeds!Empty
<1>2. Seeds!Commit(p, base, proc[p])
  OBVIOUS
<1> HIDE DEF base
<1>3. Sound(base) /\ Grown(db, base) /\ (~raced => Tidy(base))
  <2>1. new \subseteq Seeds!AllDepartments
    BY DEF Seeds!AllDepartments
  <2> QED BY <1>1, <2>1, RowsOfDb, Quiet
<1>4. Reached(step, proc[p], base)
  BY <1>1 DEF Reached
<1> QED BY <1>2, <1>3, <1>4, SeedKeeps

\* New cameras have departments that are there.
LEMMA CamerasJoined ==
  ASSUME SeedInv, NEW new, NEW cams, cams = Seeds!Joined(db.cams, new),
         DOMAIN new \subseteq Seeds!AllCameras, \A c \in DOMAIN new : new[c] \in db.depts
  PROVE  /\ DOMAIN cams = DOMAIN db.cams \cup DOMAIN new
         /\ DOMAIN cams \subseteq Seeds!AllCameras /\ \A c \in DOMAIN cams : cams[c] \in db.depts
BY RowsOfDb DEF Seeds!Joined

LEMMA CamerasWritten ==
  ASSUME SeedInv, NEW new, NEW base, base = [db EXCEPT !.cams = Seeds!Joined(@, new)],
         DOMAIN new \subseteq Seeds!AllCameras, \A c \in DOMAIN new : new[c] \in db.depts
  PROVE  /\ Sound(base) /\ Grown(db, base) /\ (~raced => Tidy(base))
         /\ DOMAIN base.cams = DOMAIN db.cams \cup DOMAIN new /\ base.depts = db.depts
<1>1. /\ DOMAIN base = DOMAIN Seeds!Empty /\ base.users = db.users
      /\ base.depts = db.depts /\ base.cams = Seeds!Joined(db.cams, new) /\ base.list = db.list
      /\ base.sights = db.sights /\ base.alerts = db.alerts /\ base.cases = db.cases
      /\ base.custody = db.custody
  BY RowsOfDb DEF Seeds!Empty
<1>2. /\ DOMAIN base.cams = DOMAIN db.cams \cup DOMAIN new
      /\ DOMAIN base.cams \subseteq Seeds!AllCameras
      /\ \A c \in DOMAIN base.cams : base.cams[c] \in db.depts
  BY <1>1, CamerasJoined
<1> QED BY <1>1, <1>2, RowsOfDb, Quiet

\* A new entry of the hotlist names a plate that was not on it.
LEMMA ListWritten ==
  ASSUME SeedInv, NEW new, IsFiniteSet(new), NEW base, base = [db EXCEPT !.list = @ \cup new],
         ~raced => /\ \A e \in new : e.plate \notin Seeds!Plates(db.list)
                   /\ \A e, f \in new : e.plate = f.plate => e = f
  PROVE  /\ Sound(base) /\ Grown(db, base) /\ (~raced => Tidy(base))
         /\ base.list = db.list \cup new /\ IsFiniteSet(base.list)
<1>1. /\ DOMAIN base = DOMAIN Seeds!Empty /\ base.users = db.users
      /\ base.depts = db.depts /\ base.cams = db.cams /\ base.list = db.list \cup new
      /\ base.sights = db.sights /\ base.alerts = db.alerts /\ base.cases = db.cases
      /\ base.custody = db.custody
  BY RowsOfDb DEF Seeds!Empty
<1>2. IsFiniteSet(base.list)
  <2>1. IsFiniteSet(db.list)
    BY RowsOfDb
  <2>2. IsFiniteSet(db.list \cup new)
    BY <2>1, FS_Union
  <2> QED BY <1>1, <2>2
<1>3. ~raced => \A e, f \in base.list : e.plate = f.plate => e = f
  <2>1. \A e \in db.list : e.plate \in Seeds!Plates(db.list)
    BY DEF Seeds!Plates
  <2> QED BY <1>1, <2>1, RowsOfDb
<1>4. Sound(base) /\ Grown(db, base) /\ (~raced => Tidy(base))
  BY <1>1, <1>2, <1>3, RowsOfDb, Quiet
<1> QED BY <1>1, <1>2, <1>4

-----------------------------------------------------------------------------
(* The steps of seed_database.                                             *)

LEMMA UsersKeep ==
  ASSUME SeedInv, NEW p \in Processes, Seeds!SeedUsers(p), UNCHANGED <<scope, starts, raced>>
  PROVE  SeedInv'
<1> DEFINE new == IF proc[p].view.users = {} THEN Seeds!DefaultUsers ELSE {}
<1>1. /\ Seeds!At(p, "users")
      /\ \/ Seeds!Commit(p, [db EXCEPT !.users = @ \cup new], proc[p])
         \/ Seeds!Fail(p)
  BY DEF Seeds!SeedUsers, Seeds!CommitUnique
<1>2. new \subseteq Seeds!AllUsers
  BY DEF Seeds!AllUsers
<1> HIDE DEF new
<1> QED BY <1>1, <1>2, UsersWritten, SeedFails

LEMMA CaseKeeps ==
  ASSUME SeedInv, NEW p \in Processes, Seeds!SeedCase(p), UNCHANGED <<scope, starts, raced>>
  PROVE  SeedInv'
<1> DEFINE new == IF proc[p].view.cases = {} THEN {Seeds!SampleCase} ELSE {}
<1>1. /\ Seeds!At(p, "case")
      /\ \/ Seeds!Commit(p, [db EXCEPT !.cases = @ \cup new], proc[p])
         \/ Seeds!Fail(p)
  BY DEF Seeds!SeedCase, Seeds!CommitUnique
<1> HIDE DEF new
<1> QED BY <1>1, CasesWritten, SeedFails

LEMMA DepartmentsKeep ==
  ASSUME SeedInv, NEW p \in Processes, Seeds!SeedDepartments(p), UNCHANGED <<scope, starts, raced>>
  PROVE  SeedInv'
<1> DEFINE known == proc[p].view.depts
           new == IF known = {} THEN Seeds!DepartmentsData ELSE {}
           base == [db EXCEPT !.depts = @ \cup new]
           mind == [proc[p] EXCEPT !.depts = known \cup new]
<1>1. Seeds!At(p, "departments") /\ (Seeds!Commit(p, base, mind) \/ Seeds!Fail(p))
  BY DEF Seeds!SeedDepartments, Seeds!CommitUnique
<1>2. /\ new \subseteq Seeds!AllDepartments /\ known \cup new # {}
      /\ new = {} \/ new = Seeds!DepartmentsData
  BY DEF Seeds!AllDepartments, Seeds!DepartmentsData
<1>3. /\ DOMAIN base = DOMAIN Seeds!Empty /\ base.users = db.users
      /\ base.depts = db.depts \cup new /\ base.cams = db.cams /\ base.list = db.list
      /\ base.sights = db.sights /\ base.alerts = db.alerts /\ base.cases = db.cases
      /\ base.custody = db.custody
  BY RowsOfDb DEF Seeds!Empty
<1>4. known \subseteq db.depts /\ DOMAIN proc[p] = DOMAIN Seeds!Idle /\ Seeds!Running(p)
      /\ Head(proc[p].todo) = "departments" /\ proc[p].cams \subseteq DOMAIN db.cams
  BY <1>1, AtStep DEF Grown
<1>5. /\ DOMAIN mind = DOMAIN Seeds!Idle /\ mind.todo = proc[p].todo /\ mind.no = proc[p].no
      /\ mind.depts = known \cup new /\ mind.cams = proc[p].cams
  BY <1>4 DEF Seeds!Idle
<1> HIDE DEF base, mind, new
<1>6. Sound(base) /\ Grown(db, base) /\ (~raced => Tidy(base))
  BY <1>2, <1>3, RowsOfDb, Quiet
<1>7. Reached("departments", mind, base)
  BY <1>2, <1>5 DEF Reached
<1>8. mind.depts \subseteq base.depts /\ mind.cams \subseteq DOMAIN base.cams /\ mind.depts # {}
  BY <1>2, <1>3, <1>4, <1>5
<1>9. CASE Seeds!Commit(p, base, mind)
  BY <1>4, <1>5, <1>6, <1>7, <1>8, <1>9, SeedWrites
<1> QED BY <1>1, <1>9, SeedFails

LEMMA DepartmentIsThere ==
  ASSUME NEW p, proc[p].depts # {}, NEW dept
  PROVE  Seeds!DepartmentFor(p, dept) \in proc[p].depts
BY DEF Seeds!DepartmentFor

LEMMA CamerasKeep ==
  ASSUME SeedInv, NEW p \in Processes, Seeds!SeedCameras(p), UNCHANGED <<scope, starts, raced>>
  PROVE  SeedInv'
<1> DEFINE known == DOMAIN proc[p].view.cams
           new == [c \in DOMAIN Seeds!CamerasData \ known |->
                     Seeds!DepartmentFor(p, Seeds!CamerasData[c])]
           base == [db EXCEPT !.cams = Seeds!Joined(@, new)]
           mind == [proc[p] EXCEPT !.cams = known \cup DOMAIN new]
<1>1. Seeds!At(p, "cameras") /\ (Seeds!Commit(p, base, mind) \/ Seeds!Fail(p))
  BY DEF Seeds!SeedCameras, Seeds!CommitUnique
<1>2. Reached("departments", proc[p], db)
  BY <1>1, AtStep, StepsOfScripts DEF Leads
<1>3. /\ known \subseteq DOMAIN db.cams /\ DOMAIN proc[p] = DOMAIN Seeds!Idle /\ Seeds!Running(p)
      /\ Head(proc[p].todo) = "cameras" /\ proc[p].depts \subseteq db.depts
  BY <1>1, AtStep DEF Grown
<1>4. DOMAIN new = DOMAIN Seeds!CamerasData \ known /\ \A c \in DOMAIN new : new[c] \in db.depts
  BY <1>2, <1>3, DepartmentIsThere DEF Reached
<1>5. /\ DOMAIN mind = DOMAIN Seeds!Idle /\ mind.todo = proc[p].todo /\ mind.no = proc[p].no
      /\ mind.depts = proc[p].depts /\ mind.cams = known \cup DOMAIN new
  BY <1>3 DEF Seeds!Idle
<1>6. base = [db EXCEPT !.cams = Seeds!Joined(@, new)]
  OBVIOUS
<1> HIDE DEF base, mind, new
<1>7. /\ Sound(base) /\ Grown(db, base) /\ (~raced => Tidy(base))
      /\ DOMAIN base.cams = DOMAIN db.cams \cup DOMAIN new /\ base.depts = db.depts
  BY <1>4, <1>6, CamerasWritten DEF Seeds!AllCameras
<1>8. Reached("cameras", mind, base) /\ DOMAIN Seeds!CamerasData \subseteq mind.cams
  BY <1>4, <1>5 DEF Reached
<1>9. mind.depts \subseteq base.depts /\ mind.cams \subseteq DOMAIN base.cams
  BY <1>3, <1>5, <1>7
<1>10. CASE Seeds!Commit(p, base, mind)
  BY <1>3, <1>5, <1>7, <1>8, <1>9, <1>10, SeedWrites
<1> QED BY <1>1, <1>10, SeedFails

LEMMA GridKeeps ==
  ASSUME SeedInv, NEW p \in Processes, Seeds!SeedGrid(p), UNCHANGED <<scope, starts, raced>>
  PROVE  SeedInv'
<1> DEFINE new == [c \in Seeds!SentinelGrid \ proc[p].cams |->
                     Seeds!DepartmentFor(p, "HOME_POLICE")]
           base == [db EXCEPT !.cams = Seeds!Joined(@, new)]
           mind == [proc[p] EXCEPT !.cams = @ \cup DOMAIN new]
<1>1. Seeds!At(p, "grid") /\ (Seeds!Commit(p, base, mind) \/ Seeds!Fail(p))
  BY DEF Seeds!SeedGrid, Seeds!CommitUnique
<1>2. Reached("departments", proc[p], db)
  BY <1>1, AtStep, StepsOfScripts DEF Leads
<1>3. /\ DOMAIN proc[p] = DOMAIN Seeds!Idle /\ Seeds!Running(p)
      /\ Head(proc[p].todo) = "grid" /\ proc[p].depts \subseteq db.depts
      /\ proc[p].cams \subseteq DOMAIN db.cams
  BY <1>1, AtStep
<1>4. DOMAIN new = Seeds!SentinelGrid \ proc[p].cams /\ \A c \in DOMAIN new : new[c] \in db.depts
  BY <1>2, <1>3, DepartmentIsThere DEF Reached
<1>5. /\ DOMAIN mind = DOMAIN Seeds!Idle /\ mind.todo = proc[p].todo /\ mind.no = proc[p].no
      /\ mind.depts = proc[p].depts /\ mind.cams = proc[p].cams \cup DOMAIN new
  BY <1>3 DEF Seeds!Idle
<1>6. base = [db EXCEPT !.cams = Seeds!Joined(@, new)]
  OBVIOUS
<1> HIDE DEF base, mind, new
<1>7. /\ Sound(base) /\ Grown(db, base) /\ (~raced => Tidy(base))
      /\ DOMAIN base.cams = DOMAIN db.cams \cup DOMAIN new /\ base.depts = db.depts
  BY <1>4, <1>6, CamerasWritten DEF Seeds!AllCameras
<1>8. Reached("grid", mind, base)
  BY <1>3, <1>4, <1>7 DEF Reached
<1>9. mind.depts \subseteq base.depts /\ mind.cams \subseteq DOMAIN base.cams
  BY <1>3, <1>5, <1>7
<1>10. DOMAIN Seeds!CamerasData \subseteq proc[p].cams => DOMAIN Seeds!CamerasData \subseteq mind.cams
  BY <1>5
<1>11. CASE Seeds!Commit(p, base, mind)
  BY <1>3, <1>5, <1>7, <1>8, <1>9, <1>10, <1>11, SeedWrites
<1> QED BY <1>1, <1>11, SeedFails

LEMMA EntriesOf ==
  ASSUME NEW plates, IsFiniteSet(plates), NEW no, NEW new,
         \A e : e \in new <=> \E w \in plates : e = Seeds!Entry(w, no)
  PROVE  /\ IsFiniteSet(new) /\ Seeds!Plates(new) = plates
         /\ \A e, f \in new : e.plate = f.plate => e = f
<1> DEFINE f == [w \in plates |-> Seeds!Entry(w, no)]
<1>1. f \in Surjection(plates, new)
  BY DEF Surjection
<1>2. IsFiniteSet(new)
  BY <1>1, FS_Surjection
<1>3. \A w \in plates : Seeds!Entry(w, no).plate = w
  BY DEF Seeds!Entry
<1> QED BY <1>2, <1>3 DEF Seeds!Plates

LEMMA WatchlistsKeep ==
  ASSUME SeedInv, NEW p \in Processes, Seeds!SeedWatchlists(p), UNCHANGED <<scope, starts, raced>>
  PROVE  SeedInv'
<1> DEFINE list == proc[p].view.list
           missing == IF Seeds!Cardinality(Seeds!Plates(list)) < Seeds!Cardinality(Seeds!WatchlistData)
                      THEN Seeds!WatchlistData \ Seeds!Plates(list) ELSE {}
           new == {Seeds!Entry(w, proc[p].no) : w \in missing}
           base == [db EXCEPT !.list = @ \cup new]
           mind == [proc[p] EXCEPT !.list = list \cup new]
<1>1. Seeds!At(p, "watchlists") /\ Seeds!Commit(p, base, mind)
  BY DEF Seeds!SeedWatchlists
<1>2. /\ list \subseteq db.list /\ DOMAIN proc[p] = DOMAIN Seeds!Idle /\ Seeds!Running(p)
      /\ Head(proc[p].todo) = "watchlists" /\ proc[p].depts \subseteq db.depts
      /\ proc[p].cams \subseteq DOMAIN db.cams /\ (~raced => list = db.list)
      /\ Seeds!TypedRows(proc[p].view)
  BY <1>1, AtStep DEF Grown
<1>3. IsFiniteSet(list)
  BY <1>2, SameSizeOfSeed DEF Seeds!TypedRows
<1>4. missing \subseteq Seeds!WatchlistData \ Seeds!Plates(list) /\ IsFiniteSet(missing)
  <2>1. missing \subseteq Seeds!WatchlistData \ Seeds!Plates(list)
    OBVIOUS
  <2> HIDE DEF missing
  <2>2. missing \subseteq Seeds!WatchlistData
    BY <2>1
  <2> QED BY <2>1, <2>2, WatchlistSize, FS_Subset
<1>5. \/ Seeds!WatchlistData \subseteq Seeds!Plates(list) \cup missing
      \/ Cardinality(Seeds!Plates(list)) >= Cardinality(Seeds!WatchlistData)
  <2>1. Cardinality(Seeds!Plates(list)) \in Nat /\ Cardinality(Seeds!WatchlistData) \in Nat
    BY <1>3, PlatesFinite, WatchlistSize
  <2>2. /\ Seeds!Cardinality(Seeds!Plates(list)) = Cardinality(Seeds!Plates(list))
        /\ Seeds!Cardinality(Seeds!WatchlistData) = Cardinality(Seeds!WatchlistData)
    BY SameSizeOfSeed
  <2> QED BY <2>1, <2>2
<1> HIDE DEF missing
<1>6. IsFiniteSet(new) /\ Seeds!Plates(new) = missing /\ \A e, f \in new : e.plate = f.plate => e = f
  <2>1. \A e : e \in new <=> \E w \in missing : e = Seeds!Entry(w, proc[p].no)
    OBVIOUS
  <2> HIDE DEF new
  <2> QED BY <1>4, <2>1, EntriesOf
<1>7. /\ DOMAIN mind = DOMAIN Seeds!Idle /\ mind.todo = proc[p].todo /\ mind.no = proc[p].no
      /\ mind.depts = proc[p].depts /\ mind.cams = proc[p].cams
  BY <1>2 DEF Seeds!Idle
<1>8. base = [db EXCEPT !.list = @ \cup new]
  OBVIOUS
<1> HIDE DEF new, base, mind
<1>9. /\ Sound(base) /\ Grown(db, base) /\ (~raced => Tidy(base))
      /\ base.list = db.list \cup new /\ IsFiniteSet(base.list)
  <2>1. \A e \in new : e.plate \in missing
    BY <1>6 DEF Seeds!Plates
  <2> QED BY <1>2, <1>4, <1>6, <1>8, <2>1, ListWritten
<1>10. Listed(base.list)
  <2>1. Listed(list \cup new)
    <3>1. Seeds!Plates(list \cup new) = Seeds!Plates(list) \cup missing
      BY <1>6 DEF Seeds!Plates
    <3>2. CASE Seeds!WatchlistData \subseteq Seeds!Plates(list) \cup missing
      BY <3>1, <3>2 DEF Listed
    <3>3. CASE Cardinality(Seeds!Plates(list)) >= Cardinality(Seeds!WatchlistData)
      <4>1. IsFiniteSet(list \cup new)
        BY <1>3, <1>6, FS_Union
      <4>2. Listed(list)
        BY <3>3 DEF Listed
      <4> QED BY <4>1, <4>2, ListedGrows
    <3> QED BY <1>5, <3>2, <3>3
  <2>2. list \cup new \subseteq base.list
    BY <1>2, <1>9
  <2> QED BY <1>9, <2>1, <2>2, ListedGrows
<1>11. Reached("watchlists", mind, base)
  BY <1>10 DEF Reached
<1>12. mind.depts \subseteq base.depts /\ mind.cams \subseteq DOMAIN base.cams
  BY <1>2, <1>7, <1>9 DEF Grown
<1> QED BY <1>1, <1>2, <1>7, <1>9, <1>11, <1>12, SeedWrites

LEMMA RestKeeps ==
  ASSUME SeedInv, NEW p \in Processes, Seeds!SeedRest(p), UNCHANGED <<scope, starts, raced>>
  PROVE  SeedInv'
<1> DEFINE users == Seeds!DefaultUsers \ proc[p].view.users
           cases == {Seeds!SampleCase} \ proc[p].view.cases
           base == [db EXCEPT !.users = @ \cup users, !.cases = @ \cup cases]
<1>1. Seeds!At(p, "rest") /\ (Seeds!Commit(p, base, proc[p]) \/ Seeds!Fail(p))
  BY DEF Seeds!SeedRest
<1>2. /\ proc[p].view.users \subseteq db.users
      /\ Seeds!SampleCase \in proc[p].view.cases => Seeds!SampleCase \in db.cases
  BY <1>1, AtStep DEF Grown
<1>3. /\ Reached("cameras", proc[p], db) /\ Reached("grid", proc[p], db)
      /\ Reached("watchlists", proc[p], db) /\ Reached("journey", proc[p], db)
      /\ Reached("departments", proc[p], db)
      /\ proc[p].cams \subseteq DOMAIN db.cams /\ proc[p].depts \subseteq db.depts
  BY <1>1, AtStep, StepsOfScripts DEF Leads
<1>4. /\ DOMAIN base = DOMAIN Seeds!Empty /\ base.users = db.users \cup users
      /\ base.depts = db.depts /\ base.cams = db.cams /\ base.list = db.list
      /\ base.sights = db.sights /\ base.alerts = db.alerts /\ base.cases = db.cases \cup cases
      /\ base.custody = db.custody
  BY RowsOfDb DEF Seeds!Empty
<1>5. users \subseteq Seeds!AllUsers
  BY DEF Seeds!AllUsers
<1>6. Seeds!DefaultUsers \subseteq base.users /\ Seeds!SampleCase \in base.cases
  BY <1>2, <1>4
<1> HIDE DEF base, users, cases
<1>7. Sound(base) /\ Grown(db, base) /\ (~raced => Tidy(base))
  BY <1>4, <1>5, RowsOfDb, Quiet
<1>8. Complete(base)
  BY <1>3, <1>4, <1>6 DEF Complete, Reached, Seeds!AllCameras, Seeds!Seen
<1>9. Reached("rest", proc[p], base)
  BY LeadsNowhere
<1>10. Finished("rest", base)
  BY <1>4, <1>8 DEF Finished, Rung, Seeds!AlertsOn
<1> QED BY <1>1, <1>7, <1>9, <1>10, SeedKeeps, SeedFails

-----------------------------------------------------------------------------
(* Departments, users, cameras and the hotlist of the demonstration.       *)

LEMMA FoundationKeeps ==
  ASSUME SeedInv, NEW p \in Processes, Seeds!SeedFoundation(p), UNCHANGED <<scope, starts, raced>>
  PROVE  SeedInv'
<1> DEFINE new == Seeds!FoundationDepartments \ proc[p].view.depts
<1>1. /\ Seeds!At(p, "foundation")
      /\ \/ Seeds!Commit(p, [db EXCEPT !.depts = @ \cup new], proc[p])
         \/ Seeds!Fail(p)
  BY DEF Seeds!SeedFoundation, Seeds!CommitUnique
<1>2. new \subseteq Seeds!FoundationDepartments
  OBVIOUS
<1> HIDE DEF new
<1> QED BY <1>1, <1>2, DepartmentsWritten, SeedFails

LEMMA DemoDepartmentKeeps ==
  ASSUME SeedInv, NEW p \in Processes, Seeds!DemoDepartment(p), UNCHANGED <<scope, starts, raced>>
  PROVE  SeedInv'
<1> DEFINE new == {"HOME_POLICE"} \ proc[p].view.depts
<1>1. /\ Seeds!At(p, "department")
      /\ \/ Seeds!Commit(p, [db EXCEPT !.depts = @ \cup new], proc[p])
         \/ Seeds!Fail(p)
  BY DEF Seeds!DemoDepartment, Seeds!CommitUnique
<1>2. new \subseteq Seeds!FoundationDepartments
  BY DEF Seeds!FoundationDepartments
<1>3. proc[p].view.depts \subseteq db.depts
  BY <1>1, AtStep DEF Grown
<1>4. "HOME_POLICE" \in db.depts \cup new
  BY <1>3
<1> HIDE DEF new
<1> QED BY <1>1, <1>2, <1>4, DepartmentsWritten, SeedFails

LEMMA DemoInvestigatorKeeps ==
  ASSUME SeedInv, NEW p \in Processes, Seeds!DemoInvestigator(p), UNCHANGED <<scope, starts, raced>>
  PROVE  SeedInv'
<1> DEFINE new == {"demo_investigator"} \ proc[p].view.users
<1>1. /\ Seeds!At(p, "investigator")
      /\ \/ Seeds!Commit(p, [db EXCEPT !.users = @ \cup new], proc[p])
         \/ Seeds!Fail(p)
  BY DEF Seeds!DemoInvestigator, Seeds!CommitUnique
<1>2. new \subseteq Seeds!AllUsers
  BY DEF Seeds!AllUsers
<1> HIDE DEF new
<1> QED BY <1>1, <1>2, UsersWritten, SeedFails

LEMMA DemoCamerasKeep ==
  ASSUME SeedInv, NEW p \in Processes, Seeds!DemoCameras(p), UNCHANGED <<scope, starts, raced>>
  PROVE  SeedInv'
<1>1. PICK step \in {"corridor", "iscon", "stadium"} :
        /\ Seeds!At(p, step)
        /\ LET wanted == CASE step = "corridor" -> {"AHM-01", "AHM-02"}
                           [] step = "iscon" -> {"AHM-01"}
                           [] step = "stadium" -> {"AHM-02"}
               new == [c \in wanted \ DOMAIN proc[p].view.cams |-> "HOME_POLICE"]
           IN  Seeds!CommitUnique(p, DOMAIN new, DOMAIN db.cams,
                                  [db EXCEPT !.cams = Seeds!Joined(@, new)], proc[p])
  BY Zenon DEF Seeds!DemoCameras
<1> DEFINE wanted == CASE step = "corridor" -> {"AHM-01", "AHM-02"}
                       [] step = "iscon" -> {"AHM-01"}
                       [] step = "stadium" -> {"AHM-02"}
           new == [c \in wanted \ DOMAIN proc[p].view.cams |-> "HOME_POLICE"]
           base == [db EXCEPT !.cams = Seeds!Joined(@, new)]
<1>2. Seeds!Commit(p, base, proc[p]) \/ Seeds!Fail(p)
  BY <1>1, Zenon DEF Seeds!CommitUnique
<1>3. /\ wanted \subseteq {"AHM-01", "AHM-02"} /\ (step = "iscon" => "AHM-01" \in wanted)
      /\ (step = "stadium" => "AHM-02" \in wanted)
  OBVIOUS
<1> HIDE DEF wanted
<1>4. "HOME_POLICE" \in db.depts /\ DOMAIN proc[p].view.cams \subseteq DOMAIN db.cams
  <2>1. Reached("department", proc[p], db)
    BY <1>1, AtStep, StepsOfScripts DEF Leads
  <2> QED BY <1>1, <2>1, AtStep DEF Reached, Grown
<1>5. /\ DOMAIN new = wanted \ DOMAIN proc[p].view.cams /\ DOMAIN new \subseteq Seeds!AllCameras
      /\ \A c \in DOMAIN new : new[c] \in db.depts
  BY <1>3, <1>4, CamerasOfJourney DEF Seeds!AllCameras
<1>6. base = [db EXCEPT !.cams = Seeds!Joined(@, new)]
  OBVIOUS
<1> HIDE DEF base, new
<1>7. /\ Sound(base) /\ Grown(db, base) /\ (~raced => Tidy(base))
      /\ DOMAIN base.cams = DOMAIN db.cams \cup DOMAIN new /\ base.depts = db.depts
  BY <1>5, <1>6, CamerasWritten
<1>8. Reached(step, proc[p], base)
  BY <1>3, <1>4, <1>5, <1>7 DEF Reached
<1> QED BY <1>1, <1>2, <1>7, <1>8, SeedKeeps, SeedFails

LEMMA DemoTargetKeeps ==
  ASSUME SeedInv, NEW p \in Processes, Seeds!DemoTarget(p), UNCHANGED <<scope, starts, raced>>
  PROVE  SeedInv'
<1>1. PICK step \in {"target", "enrol"} :
        /\ Seeds!At(p, step)
        /\ LET plate == IF step = "target" THEN Seeds!DemoPlate ELSE Seeds!Run(p)
               new == IF plate \in Seeds!Plates(proc[p].view.list) THEN {}
                      ELSE {Seeds!Entry(plate, proc[p].no)}
           IN  Seeds!Commit(p, [db EXCEPT !.list = @ \cup new], proc[p])
  BY Zenon DEF Seeds!DemoTarget
<1> DEFINE plate == IF step = "target" THEN Seeds!DemoPlate ELSE Seeds!Run(p)
           new == IF plate \in Seeds!Plates(proc[p].view.list) THEN {}
                  ELSE {Seeds!Entry(plate, proc[p].no)}
           base == [db EXCEPT !.list = @ \cup new]
<1>2. Seeds!Commit(p, base, proc[p])
  BY <1>1, Zenon
<1> HIDE DEF plate
<1>3. ~raced => proc[p].view.list = db.list
  BY <1>1, AtStep
<1>4. /\ \A e \in new : e.plate = plate /\ plate \notin Seeds!Plates(proc[p].view.list)
      /\ \A e, f \in new : e = f
  BY DEF Seeds!Entry
<1>5. IsFiniteSet(new)
  BY FS_EmptySet, FS_Singleton
<1>6. base = [db EXCEPT !.list = @ \cup new]
  OBVIOUS
<1> HIDE DEF base, new
<1>7. Sound(base) /\ Grown(db, base) /\ (~raced => Tidy(base))
  BY <1>3, <1>4, <1>5, <1>6, ListWritten
<1>8. Reached(step, proc[p], base)
  BY LeadsNowhere
<1> QED BY <1>1, <1>2, <1>7, <1>8, SeedKeeps

LEMMA PutAfterHead ==
  ASSUME NEW S, NEW s \in Seq(S) \ {<<>>}, NEW more \in Seq(S),
         NEW t, t = <<Head(s)>> \o more \o Tail(s)
  PROVE  t \in Seq(S) \ {<<>>} /\ Head(t) = Head(s) /\ Tail(t) = more \o Tail(s)
<1>1. Head(s) \in S /\ Tail(s) \in Seq(S) /\ <<Head(s)>> \in Seq(S)
  OBVIOUS
<1> DEFINE front == <<Head(s)>> \o more
<1>2. /\ front \in Seq(S) /\ Len(front) = 1 + Len(more) /\ front[1] = Head(s)
      /\ \A i \in 1 .. Len(more) : front[i + 1] = more[i]
  BY <1>1
<1>3. t = front \o Tail(s)
  OBVIOUS
<1> HIDE DEF front
<1>4. /\ t \in Seq(S) /\ Len(t) = Len(front) + Len(Tail(s))
      /\ \A i \in 1 .. Len(front) : t[i] = front[i]
      /\ \A i \in 1 .. Len(Tail(s)) : t[Len(front) + i] = Tail(s)[i]
  BY <1>1, <1>2, <1>3
<1>5. Len(more) \in Nat /\ Len(Tail(s)) \in Nat /\ 1 \in 1 .. Len(front) /\ Len(t) >= 1
  BY <1>1, <1>2, <1>4
<1>6. t # <<>> /\ Head(t) = Head(s)
  BY <1>2, <1>4, <1>5
<1> DEFINE rest == more \o Tail(s)
<1>7. /\ rest \in Seq(S) /\ Len(rest) = Len(more) + Len(Tail(s))
      /\ \A i \in 1 .. Len(more) : rest[i] = more[i]
      /\ \A i \in 1 .. Len(Tail(s)) : rest[Len(more) + i] = Tail(s)[i]
  BY <1>1
<1>8. /\ Tail(t) \in Seq(S) /\ Len(Tail(t)) = Len(rest)
      /\ \A i \in 1 .. Len(rest) : Tail(t)[i] = t[i + 1]
  BY <1>2, <1>4, <1>5, <1>6, <1>7
<1> HIDE DEF rest
<1>9. ASSUME NEW i \in 1 .. Len(rest) PROVE Tail(t)[i] = rest[i]
  <2>1. CASE i <= Len(more)
    <3>1. i \in 1 .. Len(more) /\ i + 1 \in 1 .. Len(front)
      BY <1>2, <1>5, <2>1
    <3> QED BY <1>2, <1>4, <1>7, <1>8, <3>1
  <2>2. CASE i > Len(more)
    <3>1. PICK k \in 1 .. Len(Tail(s)) : i = Len(more) + k /\ i + 1 = Len(front) + k
      <4>1. /\ i - Len(more) \in 1 .. Len(Tail(s)) /\ i = Len(more) + (i - Len(more))
            /\ i + 1 = Len(front) + (i - Len(more))
        BY <1>2, <1>5, <1>7, <2>2
      <4> QED BY <4>1
    <3>2. rest[i] = Tail(s)[k] /\ t[i + 1] = Tail(s)[k]
      BY <1>4, <1>7, <3>1
    <3>3. Tail(t)[i] = t[i + 1]
      BY <1>8
    <3> QED BY <3>2, <3>3
  <2> QED BY <1>5, <1>7, <2>1, <2>2
<1>10. Tail(t) = rest
  BY <1>7, <1>8, <1>9, SeqEqual
<1> QED BY <1>4, <1>6, <1>10 DEF rest

LEMMA DemoSeedsKeeps ==
  ASSUME SeedInv, NEW p \in Processes, Seeds!DemoSeeds(p), UNCHANGED <<scope, starts, raced>>
  PROVE  SeedInv'
<1> DEFINE seeding == IF Seeds!Cardinality(Seeds!Seen(proc[p].view, Seeds!DemoPlate)) < 5
                      THEN Seeds!SeedSteps ELSE <<>>
           todo == <<Head(proc[p].todo)>> \o seeding \o Tail(proc[p].todo)
           mind == [proc[p] EXCEPT !.todo = <<Head(@)>> \o seeding \o Tail(@)]
<1>1. Seeds!At(p, "seed-if-short") /\ Seeds!Commit(p, db, mind)
  BY DEF Seeds!DemoSeeds
<1>2. /\ Seeds!Running(p) /\ Head(proc[p].todo) = "seed-if-short"
      /\ proc[p].todo \in Seq(Seeds!Steps) \ {<<>>} /\ DOMAIN proc[p] = DOMAIN Seeds!Idle
      /\ Sound(db) /\ (~raced => Tidy(db))
      /\ proc[p].cams \subseteq DOMAIN db.cams /\ proc[p].depts \subseteq db.depts
  BY <1>1, AtStep
<1>3. /\ DOMAIN mind = DOMAIN Seeds!Idle /\ mind.todo = todo /\ mind.no = proc[p].no
      /\ mind.depts = proc[p].depts /\ mind.cams = proc[p].cams
  BY <1>2 DEF Seeds!Idle
<1>4. seeding \in Seq(Seeds!Steps) /\ Ordered(seeding)
  BY StepsOfScripts, ScriptsOrdered
<1> HIDE DEF seeding, mind
<1>5. /\ todo \in Seq(Seeds!Steps) \ {<<>>} /\ Head(todo) = "seed-if-short"
      /\ Tail(todo) = seeding \o Tail(proc[p].todo) /\ Tail(proc[p].todo) \in Seq(Seeds!Steps)
  <2>1. proc[p].todo \in Seq(Seeds!Steps) \ {<<>>} /\ Tail(proc[p].todo) \in Seq(Seeds!Steps)
    BY <1>2
  <2>2. \A s \in Seq(Seeds!Steps) \ {<<>>}, more \in Seq(Seeds!Steps) :
          /\ <<Head(s)>> \o more \o Tail(s) \in Seq(Seeds!Steps) \ {<<>>}
          /\ Head(<<Head(s)>> \o more \o Tail(s)) = Head(s)
          /\ Tail(<<Head(s)>> \o more \o Tail(s)) = more \o Tail(s)
    <3> HIDE DEF Seeds!Steps
    <3> TAKE s \in Seq(Seeds!Steps) \ {<<>>}, more \in Seq(Seeds!Steps)
    <3>1. PICK t : t = <<Head(s)>> \o more \o Tail(s)
      OBVIOUS
    <3>2. t \in Seq(Seeds!Steps) \ {<<>>} /\ Head(t) = Head(s) /\ Tail(t) = more \o Tail(s)
      BY <3>1, PutAfterHead, SMTT(60)
    <3> QED BY <3>1, <3>2
  <2> QED BY <1>2, <1>4, <2>1, <2>2
<1>6. Prepared(Tail(proc[p].todo), proc[p], db)
  <2>1. Prepared(proc[p].todo, proc[p], db)
    BY DEF SeedInv, Informed
  <2>2. Reached("seed-if-short", proc[p], db)
    BY LeadsNowhere
  <2> QED BY <1>2, <2>1, <2>2, PreparedTail
<1>7. Grown(db, db) /\ IsFiniteSet(db.list)
  BY RowsOfDb DEF Grown, Seeds!Seen
<1>8. Prepared(Tail(todo), mind, db)
  <2>1. Prepared(Tail(proc[p].todo), mind, db)
    BY <1>3, <1>6, <1>7, PreparedGrows
  <2> QED BY <1>4, <1>5, <2>1, PreparedMore
<1>9. Chained(Tail(todo), Head(todo))
  <2>1. Chained(Tail(proc[p].todo), "seed-if-short")
    <3>1. Chained(proc[p].todo, proc[p].last)
      BY DEF SeedInv, Informed
    <3> QED BY <1>2, <3>1, ChainedTail
  <2> QED BY <1>4, <1>5, <2>1, ChainedMore
<1> HIDE DEF todo
<1> QED BY <1>1, <1>2, <1>3, <1>5, <1>7, <1>8, <1>9, SeedCommits

-----------------------------------------------------------------------------
(* The journey and its alert.                                              *)

\* Journeys of one script are one journey.
LEMMA OneJourney ==
  ASSUME NEW base, Sound(base), Seeds!Seen(base, Seeds!DemoPlate) # {},
         \A s, t \in Seeds!Seen(base, Seeds!DemoPlate) : s.by = t.by
  PROVE  /\ IsFiniteSet(Seeds!Seen(base, Seeds!DemoPlate))
         /\ Cardinality(Seeds!Seen(base, Seeds!DemoPlate)) = 5
<1> DEFINE seen == Seeds!Seen(base, Seeds!DemoPlate)
<1>1. PICK s : s \in seen
  OBVIOUS
<1> DEFINE f == [c \in Seeds!Journey |-> Seeds!Sighting(Seeds!DemoPlate, c, s.by, FALSE)]
<1>2. \A c \in Seeds!Journey : f[c] \in seen /\ f[c].cam = c
  BY <1>1 DEF Sound, Seeds!Seen, Seeds!Sighting
<1>3. \A t \in seen : t.cam \in Seeds!Journey /\ t = f[t.cam]
  BY <1>1 DEF Sound
<1>4. f \in Bijection(Seeds!Journey, seen)
  <2>1. f \in [Seeds!Journey -> seen]
    BY <1>2
  <2> HIDE DEF f, seen
  <2>2. \A c, d \in Seeds!Journey : f[c] = f[d] => c = d
    BY <1>2
  <2> QED BY <1>3, <2>1, <2>2 DEF Bijection, Injection, Surjection, IsInjective
<1> HIDE DEF f, seen
<1>5. ExistsBijection(Seeds!Journey, seen)
  BY <1>4, Zenon DEF ExistsBijection
<1>6. IsFiniteSet(seen) /\ Cardinality(seen) = 5
  BY <1>5, JourneySize, FS_Bijection
<1> QED BY <1>6 DEF seen

LEMMA JourneyKeeps ==
  ASSUME SeedInv, NEW p \in Processes, Seeds!SeedJourney(p), UNCHANGED <<scope, starts, raced>>
  PROVE  SeedInv'
<1> DEFINE list == proc[p].list
           no == proc[p].no
           corridor == {Seeds!Sighting(Seeds!DemoPlate, c, no, FALSE) :
                          c \in Seeds!Journey \cap proc[p].cams}
           others == {Seeds!Sighting(v, Seeds!Traffic[v], no, FALSE) :
                        v \in {u \in DOMAIN Seeds!Traffic : Seeds!Traffic[u] \in proc[p].cams}}
           alarming == {s \in others : s.plate \in Seeds!Risky \cap Seeds!Plates(list)}
                         \cup IF Seeds!DemoPlate \in Seeds!Plates(list)
                              THEN {s \in corridor : s.cam = "VLS-01"} ELSE {}
           base == [db EXCEPT !.sights = @ \cup corridor \cup others, !.alerts = @ \cup alarming]
           few == Seeds!Cardinality(Seeds!Seen(proc[p].view, Seeds!DemoPlate)) < 5
<1>1. /\ Seeds!At(p, "journey")
      /\ few => Seeds!Commit(p, base, proc[p])
      /\ ~few => Seeds!Commit(p, db, proc[p])
  BY Zenon DEF Seeds!SeedJourney
<1>2. /\ DOMAIN Seeds!CamerasData \subseteq proc[p].cams /\ proc[p].cams \subseteq DOMAIN db.cams
      /\ Sound(db) /\ (~raced => Tidy(db) /\ proc[p].view = db) /\ Grown(proc[p].view, db)
  <2>1. Reached("cameras", proc[p], db)
    BY <1>1, AtStep, StepsOfScripts DEF Leads
  <2> QED BY <1>1, <2>1, AtStep DEF Reached
<1>3. /\ \A s \in corridor : /\ s.cam \in Seeds!Journey /\ s.plate = Seeds!DemoPlate /\ s.by = no
                             /\ s = Seeds!Sighting(Seeds!DemoPlate, s.cam, no, FALSE)
                             /\ s.demo = FALSE
      /\ \A c \in Seeds!Journey : Seeds!Sighting(Seeds!DemoPlate, c, no, FALSE) \in corridor
  <2>1. Seeds!Journey \cap proc[p].cams = Seeds!Journey
    BY <1>2, CamerasOfJourney
  <2>2. \A s : s \in corridor <=>
          \E c \in Seeds!Journey : s = Seeds!Sighting(Seeds!DemoPlate, c, no, FALSE)
    BY <2>1
  <2> HIDE DEF corridor, no
  <2>3. ASSUME NEW s \in corridor
        PROVE  /\ s.cam \in Seeds!Journey /\ s.plate = Seeds!DemoPlate /\ s.by = no
               /\ s = Seeds!Sighting(Seeds!DemoPlate, s.cam, no, FALSE)
               /\ s.demo = FALSE
    <3>1. PICK c \in Seeds!Journey : s = Seeds!Sighting(Seeds!DemoPlate, c, no, FALSE)
      BY <2>2
    <3>2. s.cam = c /\ s.plate = Seeds!DemoPlate /\ s.by = no /\ s.demo = FALSE
      BY <3>1 DEF Seeds!Sighting
    <3> QED BY <3>1, <3>2
  <2>4. \A c \in Seeds!Journey : Seeds!Sighting(Seeds!DemoPlate, c, no, FALSE) \in corridor
    BY <2>2
  <2> QED BY <2>3, <2>4
<1>4. \A s \in others : /\ s.plate # Seeds!DemoPlate /\ s.demo = FALSE
                        /\ s.cam \in DOMAIN Seeds!CamerasData
  BY CamerasOfTraffic DEF Seeds!Sighting
<1>5. /\ alarming \subseteq corridor \cup others
      /\ \A s, t \in alarming : s.plate = Seeds!DemoPlate /\ t.plate = Seeds!DemoPlate => s = t
  <2> HIDE DEF corridor, others
  <2>1. \A s \in alarming : s \in others \/ (s \in corridor /\ s.cam = "VLS-01")
    OBVIOUS
  <2> QED BY <1>3, <1>4, <2>1
<1>6. /\ DOMAIN base = DOMAIN Seeds!Empty /\ base.users = db.users
      /\ base.depts = db.depts /\ base.cams = db.cams /\ base.list = db.list
      /\ base.sights = db.sights \cup corridor \cup others
      /\ base.alerts = db.alerts \cup alarming /\ base.cases = db.cases
      /\ base.custody = db.custody
  <2> HIDE DEF corridor, others, alarming
  <2> QED BY RowsOfDb DEF Seeds!Empty
<1> HIDE DEF corridor, others, alarming, base, no
<1>7. Seeds!Seen(base, Seeds!DemoPlate) = Seeds!Seen(db, Seeds!DemoPlate) \cup corridor
  BY <1>3, <1>4, <1>6 DEF Seeds!Seen
<1>8. Sound(base)
  <2>1. \A s \in corridor \cup others :
          s.demo \in BOOLEAN /\ s.cam \in DOMAIN Seeds!CamerasData /\ s.cam \in DOMAIN db.cams
    BY <1>2, <1>3, <1>4, CamerasOfJourney
  <2>2. Seeds!TypedRows(base)
    BY <1>2, <1>6, <2>1 DEF Sound, Seeds!TypedRows
  <2>3. \A s \in base.sights : s.cam \in DOMAIN base.cams
    BY <1>2, <1>6, <2>1 DEF Sound
  <2>4. \A c \in DOMAIN base.cams : base.cams[c] \in base.depts
    BY <1>2, <1>6 DEF Sound
  <2>5. ASSUME NEW s \in Seeds!Seen(base, Seeds!DemoPlate)
        PROVE  /\ s.cam \in Seeds!Journey
               /\ s = Seeds!Sighting(Seeds!DemoPlate, s.cam, s.by, FALSE)
               /\ \A c \in Seeds!Journey :
                    Seeds!Sighting(Seeds!DemoPlate, c, s.by, FALSE) \in base.sights
    <3>1. CASE s \in corridor
      BY <1>3, <1>6, <3>1
    <3>2. CASE s \in Seeds!Seen(db, Seeds!DemoPlate)
      BY <1>2, <1>6, <3>2 DEF Sound
    <3> QED BY <1>7, <2>5, <3>1, <3>2
  <2>6. \/ Seeds!DepartmentsData \subseteq base.depts
        \/ base.depts \subseteq Seeds!FoundationDepartments
    BY <1>2, <1>6 DEF Sound
  <2> QED BY <2>2, <2>3, <2>4, <2>5, <2>6 DEF Sound
<1>9. Grown(db, base)
  BY <1>6 DEF Grown, Seeds!Seen
<1>10. Reached("journey", proc[p], base)
  BY <1>3, <1>7, CamerasOfJourney DEF Reached
<1>11. ASSUME few, ~raced PROVE Tidy(base)
  <2>1. Tidy(db) /\ proc[p].view = db
    BY <1>2, <1>11
  <2>2. Cardinality(Seeds!Seen(db, Seeds!DemoPlate)) # 5
    <3>1. Seeds!Cardinality(Seeds!Seen(db, Seeds!DemoPlate)) < 5
      BY <1>11, <2>1
    <3>2. Cardinality(Seeds!Seen(db, Seeds!DemoPlate)) < 5
      BY <3>1, SameSizeOfSeed
    <3> QED BY <3>2
  <2>3. Seeds!Seen(db, Seeds!DemoPlate) = {}
    BY <1>2, <2>1, <2>2, OneJourney DEF Tidy
  <2>4. Seeds!AlertsOn(db, Seeds!DemoPlate) = {}
    BY <2>1, <2>3 DEF Tidy, Seeds!Seen, Seeds!AlertsOn
  <2>5. \A s, t \in Seeds!Seen(base, Seeds!DemoPlate) : s.by = t.by
    BY <1>3, <1>7, <2>3
  <2>6. Seeds!AlertsOn(base, Seeds!DemoPlate) \subseteq {s \in alarming : s.plate = Seeds!DemoPlate}
    BY <1>6, <2>4 DEF Seeds!AlertsOn
  <2>7. \A s, t \in Seeds!AlertsOn(base, Seeds!DemoPlate) : s = t
    BY <1>5, <2>6
  <2>8. base.alerts \subseteq base.sights
    BY <1>5, <1>6, <2>1 DEF Tidy
  <2>9. /\ \A e, f \in base.list : e.plate = f.plate => e = f
        /\ \A e \in base.custody : e.case \in base.cases /\ e.sight \in base.sights
    BY <1>6, <2>1 DEF Tidy
  <2> QED BY <2>5, <2>7, <2>8, <2>9 DEF Tidy
<1>12. CASE few
  <2>1. ~raced => Tidy(base)
    BY <1>11, <1>12
  <2> QED BY <1>1, <1>8, <1>9, <1>10, <1>12, <2>1, SeedKeeps
<1>13. CASE ~few
  <2>1. Seeds!Seen(proc[p].view, Seeds!DemoPlate) # {}
    <3>1. Seeds!Cardinality({}) = 0
      BY SameSizeOfSeed, FS_EmptySet
    <3> QED BY <1>13, <3>1
  <2>2. Seeds!Seen(db, Seeds!DemoPlate) # {}
    BY <1>2, <2>1 DEF Grown, Seeds!Seen
  <2>3. Reached("journey", proc[p], db)
    BY <2>2 DEF Reached
  <2>4. Grown(db, db) /\ (~raced => Tidy(db))
    BY <1>2 DEF Grown, Seeds!Seen
  <2> QED BY <1>1, <1>2, <1>13, <2>3, <2>4, SeedKeeps
<1> QED BY <1>12, <1>13

LEMMA AlertKeeps ==
  ASSUME SeedInv, NEW p \in Processes, Seeds!SeedAlert(p), UNCHANGED <<scope, starts, raced>>
  PROVE  SeedInv'
<1> DEFINE view == proc[p].view
<1>1. Seeds!At(p, "alert")
  BY DEF Seeds!SeedAlert
<1>2. /\ Grown(view, db) /\ Sound(db) /\ (~raced => Tidy(db) /\ view = db)
  BY <1>1, AtStep
<1>3. \A base : Reached("alert", proc[p], base)
  BY LeadsNowhere
<1>6. Seeds!Seen(db, Seeds!DemoPlate) # {}
  <2>1. Reached("journey", proc[p], db)
    BY <1>1, AtStep, StepsOfScripts DEF Leads
  <2> QED BY <2>1 DEF Reached
<1>4. ASSUME Seeds!Commit(p, db, proc[p]),
             ~(/\ Seeds!AlertsOn(view, Seeds!DemoPlate) = {} /\ Seeds!Seen(view, Seeds!DemoPlate) # {}
               /\ Seeds!DemoPlate \in Seeds!Plates(view.list))
      PROVE  SeedInv'
  <2>1. Grown(db, db) /\ (~raced => Tidy(db))
    BY <1>2 DEF Grown, Seeds!Seen
  <2>2. Finished("alert", db)
    BY <1>2, <1>4, <1>6 DEF Finished, Rung
  <2> QED BY <1>1, <1>2, <1>3, <1>4, <2>1, <2>2, SeedKeeps
<1>5. ASSUME Seeds!AlertsOn(view, Seeds!DemoPlate) = {}, NEW s \in Seeds!Seen(view, Seeds!DemoPlate),
             Seeds!Commit(p, [db EXCEPT !.alerts = @ \cup {s}], proc[p])
      PROVE  SeedInv'
  <2> DEFINE base == [db EXCEPT !.alerts = @ \cup {s}]
  <2>1. /\ DOMAIN base = DOMAIN Seeds!Empty /\ base.users = db.users
        /\ base.depts = db.depts /\ base.cams = db.cams /\ base.list = db.list
        /\ base.sights = db.sights /\ base.alerts = db.alerts \cup {s} /\ base.cases = db.cases
        /\ base.custody = db.custody
    BY RowsOfDb DEF Seeds!Empty
  <2> HIDE DEF base
  <2>2. Seeds!Seen(base, Seeds!DemoPlate) = Seeds!Seen(db, Seeds!DemoPlate)
    BY <2>1 DEF Seeds!Seen
  <2>3. Sound(base)
    BY <1>2, <2>1, <2>2 DEF Sound, Seeds!TypedRows
  <2>4. Grown(db, base)
    BY <2>1 DEF Grown, Seeds!Seen
  <2>5. ASSUME ~raced PROVE Tidy(base)
    <3>1. Tidy(db) /\ Seeds!AlertsOn(db, Seeds!DemoPlate) = {} /\ s \in db.sights
      BY <1>2, <1>5, <2>5 DEF Seeds!Seen
    <3>2. Seeds!AlertsOn(base, Seeds!DemoPlate) \subseteq {s}
      BY <2>1, <3>1 DEF Seeds!AlertsOn
    <3> QED BY <2>1, <2>2, <3>1, <3>2 DEF Tidy
  <2>6. Seeds!Commit(p, base, proc[p])
    BY <1>5 DEF base
  <2>7. Finished("alert", base)
    BY <1>5, <2>1 DEF Finished, Rung, Seeds!AlertsOn, Seeds!Seen
  <2> QED BY <1>1, <1>3, <2>3, <2>4, <2>5, <2>6, <2>7, SeedKeeps
<1> QED BY <1>4, <1>5 DEF Seeds!SeedAlert

-----------------------------------------------------------------------------
(* The run of the demonstration, the reset and the requests of officers.   *)

\* The plate of a run is not that of the journey.
LEMMA RunsDiffer ==
  ASSUME SeedInv, NEW p \in Processes, Seeds!Running(p)
  PROVE  Seeds!Run(p) # Seeds!DemoPlate
<1>1. proc[p].no \in 1 .. starts /\ starts \in 0 .. scope.starts /\ scope.starts \in Nat
      /\ scope \in SeedScopes
  BY DEF SeedInv, Informed, Seeds!TypeOK, Seeds!SeedingAssumption
<1>2. 1 .. scope.starts \subseteq DOMAIN Drawn /\ \A n \in DOMAIN Drawn : Drawn[n] # Seeds!DemoPlate
  BY <1>1 DEF SeedInv, Seeds!SeedingAssumption
<1>3. proc[p].no \in 1 .. scope.starts
  BY <1>1
<1> QED BY <1>2, <1>3 DEF Seeds!Run

LEMMA SightsKeep ==
  ASSUME SeedInv, NEW p \in Processes, Seeds!DemoSights(p), UNCHANGED <<scope, starts, raced>>
  PROVE  SeedInv'
<1>1. PICK cam \in {"AHM-01", "AHM-02"} :
        /\ Seeds!At(p, IF cam = "AHM-01" THEN "first-sighting" ELSE "second-sighting")
        /\ Seeds!Commit(p, [db EXCEPT !.sights = @ \cup {Seeds!SightOf(p, cam)}], proc[p])
  BY DEF Seeds!DemoSights
<1> DEFINE step == IF cam = "AHM-01" THEN "first-sighting" ELSE "second-sighting"
           new == Seeds!SightOf(p, cam)
           base == [db EXCEPT !.sights = @ \cup {new}]
<1>2. cam \in DOMAIN db.cams
  <2>1. CASE cam = "AHM-01"
    <3>1. Reached("iscon", proc[p], db)
      BY <1>1, <2>1, AtStep, StepsOfScripts DEF Leads
    <3> QED BY <2>1, <3>1 DEF Reached
  <2>2. CASE cam = "AHM-02"
    <3>1. Reached("stadium", proc[p], db)
      BY <1>1, <2>2, AtStep, StepsOfScripts DEF Leads
    <3> QED BY <2>2, <3>1 DEF Reached
  <2> QED BY <2>1, <2>2
<1>3. new.plate # Seeds!DemoPlate /\ new.cam = cam /\ new.demo = TRUE
  <2>1. Seeds!Run(p) # Seeds!DemoPlate
    BY <1>1, AtStep, RunsDiffer
  <2> QED BY <2>1 DEF Seeds!SightOf, Seeds!Sighting
<1>4. Seeds!At(p, step) /\ Seeds!Commit(p, base, proc[p])
  BY <1>1
<1>5. /\ DOMAIN base = DOMAIN Seeds!Empty /\ base.users = db.users
      /\ base.depts = db.depts /\ base.cams = db.cams /\ base.list = db.list
      /\ base.sights = db.sights \cup {new} /\ base.alerts = db.alerts /\ base.cases = db.cases
      /\ base.custody = db.custody
  BY RowsOfDb DEF Seeds!Empty
<1>6. Reached(step, proc[p], base)
  BY LeadsNowhere
<1>7. step \notin {"alert", "rest"}
  OBVIOUS
<1> HIDE DEF base, new, step
<1>8. /\ Seeds!Seen(base, Seeds!DemoPlate) = Seeds!Seen(db, Seeds!DemoPlate)
      /\ Seeds!AlertsOn(base, Seeds!DemoPlate) = Seeds!AlertsOn(db, Seeds!DemoPlate)
  BY <1>3, <1>5 DEF Seeds!Seen, Seeds!AlertsOn
<1>9. Sound(db) /\ (~raced => Tidy(db))
  BY <1>4, AtStep
<1>10. Sound(base)
  <2>1. Seeds!TypedRows(base)
    BY <1>3, <1>5, <1>9, CamerasOfJourney DEF Sound, Seeds!TypedRows
  <2> QED BY <1>2, <1>3, <1>5, <1>8, <1>9, <2>1 DEF Sound
<1>11. Grown(db, base)
  BY <1>5 DEF Grown, Seeds!Seen
<1>12. ~raced => Tidy(base)
  BY <1>5, <1>8, <1>9 DEF Tidy
<1> QED BY <1>4, <1>6, <1>7, <1>10, <1>11, <1>12, SeedKeeps

LEMMA DemoAlertKeeps ==
  ASSUME SeedInv, NEW p \in Processes, Seeds!DemoAlert(p), UNCHANGED <<scope, starts, raced>>
  PROVE  SeedInv'
<1> DEFINE new == Seeds!SightOf(p, "AHM-01")
           base == [db EXCEPT !.alerts = @ \cup {new}]
<1>1. /\ Seeds!At(p, "raise-alert")
      /\ \/ new \in proc[p].view.sights /\ Seeds!Commit(p, base, proc[p])
         \/ Seeds!Fail(p)
  BY DEF Seeds!DemoAlert
<1>2. new.plate # Seeds!DemoPlate
  <2>1. Seeds!Run(p) # Seeds!DemoPlate
    BY <1>1, AtStep, RunsDiffer
  <2> QED BY <2>1 DEF Seeds!SightOf, Seeds!Sighting
<1>3. /\ DOMAIN base = DOMAIN Seeds!Empty /\ base.users = db.users
      /\ base.depts = db.depts /\ base.cams = db.cams /\ base.list = db.list
      /\ base.sights = db.sights /\ base.alerts = db.alerts \cup {new} /\ base.cases = db.cases
      /\ base.custody = db.custody
  BY RowsOfDb DEF Seeds!Empty
<1> HIDE DEF base, new
<1>4. /\ Seeds!Seen(base, Seeds!DemoPlate) = Seeds!Seen(db, Seeds!DemoPlate)
      /\ Seeds!AlertsOn(base, Seeds!DemoPlate) = Seeds!AlertsOn(db, Seeds!DemoPlate)
  BY <1>2, <1>3 DEF Seeds!Seen, Seeds!AlertsOn
<1>5. Sound(db) /\ (~raced => Tidy(db) /\ proc[p].view = db)
  BY <1>1, AtStep
<1>6. Sound(base)
  BY <1>3, <1>4, <1>5 DEF Sound, Seeds!TypedRows
<1>7. Grown(db, base)
  BY <1>3 DEF Grown, Seeds!Seen
<1>8. ASSUME new \in proc[p].view.sights, ~raced PROVE Tidy(base)
  BY <1>3, <1>4, <1>5, <1>8 DEF Tidy
<1>9. Reached("raise-alert", proc[p], base)
  BY LeadsNowhere
<1> QED BY <1>1, <1>6, <1>7, <1>8, <1>9, SeedKeeps, SeedFails

LEMMA DemoCaseKeeps ==
  ASSUME SeedInv, NEW p \in Processes, Seeds!DemoCase(p), UNCHANGED <<scope, starts, raced>>
  PROVE  SeedInv'
BY CasesWritten DEF Seeds!DemoCase

LEMMA CaseFromAlertKeeps ==
  ASSUME SeedInv, NEW p \in Processes, Seeds!CreateCaseFromAlert(p),
         UNCHANGED <<scope, starts, raced>>
  PROVE  SeedInv'
<1>1. Seeds!At(p, "case-from-alert")
  BY DEF Seeds!CreateCaseFromAlert
<1>2. \/ Seeds!Fail(p)
      \/ \E case : Seeds!Commit(p, [db EXCEPT !.cases = @ \cup {case}], proc[p])
  BY DEF Seeds!CreateCaseFromAlert
<1> QED BY <1>1, <1>2, CasesWritten, SeedFails

\* Evidence of a case and of a sighting that are there.
LEMMA CustodyWritten ==
  ASSUME SeedInv, NEW p \in Processes, NEW step, Seeds!At(p, step), NEW new, NEW more, NEW base,
         DOMAIN base = DOMAIN Seeds!Empty, base.users = db.users, base.depts = db.depts,
         base.cams = db.cams, base.list = db.list, base.sights = db.sights,
         base.alerts = db.alerts, base.cases = db.cases \cup more,
         base.custody = db.custody \cup new,
         Seeds!Commit(p, base, proc[p]), UNCHANGED <<scope, starts, raced>>,
         step \in {"attach-evidence", "case-of-plate"},
         ~raced => \A e \in new : e.case \in db.cases \cup more /\ e.sight \in db.sights
  PROVE  SeedInv'
<1>1. Sound(base) /\ Grown(db, base) /\ (~raced => Tidy(base))
  BY RowsOfDb, Quiet
<1>2. Reached(step, proc[p], base)
  BY LeadsNowhere
<1> QED BY <1>1, <1>2, SeedKeeps

LEMMA EvidenceKeeps ==
  ASSUME SeedInv, NEW p \in Processes, Seeds!DemoEvidence(p), UNCHANGED <<scope, starts, raced>>
  PROVE  SeedInv'
<1> DEFINE new == {[case |-> Seeds!RunCase(p), sight |-> Seeds!SightOf(p, "AHM-01")]}
           base == [db EXCEPT !.custody = @ \cup new]
<1>1. Seeds!At(p, "attach-evidence")
  BY DEF Seeds!DemoEvidence
<1>2. CASE Seeds!Fail(p)
  BY <1>2, SeedFails
<1>3. CASE /\ Seeds!SightOf(p, "AHM-01") \in proc[p].view.sights
           /\ Seeds!RunCase(p) \in proc[p].view.cases
           /\ Seeds!Commit(p, base, proc[p])
  <2>1. ~raced => \A e \in new : e.case \in db.cases \cup {} /\ e.sight \in db.sights
    BY <1>1, <1>3, AtStep
  <2> HIDE DEF new
  <2>2. /\ DOMAIN base = DOMAIN Seeds!Empty /\ base.users = db.users
        /\ base.depts = db.depts /\ base.cams = db.cams /\ base.list = db.list
        /\ base.sights = db.sights /\ base.alerts = db.alerts /\ base.cases = db.cases \cup {}
        /\ base.custody = db.custody \cup new
    BY RowsOfDb DEF Seeds!Empty
  <2> HIDE DEF base
  <2> QED BY <1>1, <1>3, <2>1, <2>2, CustodyWritten
<1> QED BY <1>2, <1>3 DEF Seeds!DemoEvidence

LEMMA CreateCaseKeeps ==
  ASSUME SeedInv, NEW p \in Processes, Seeds!CreateCase(p), UNCHANGED <<scope, starts, raced>>
  PROVE  SeedInv'
<1>1. PICK plate, case :
        Seeds!Commit(p, [db EXCEPT !.cases = @ \cup {case},
                           !.custody = @ \cup {[case |-> case, sight |-> s] :
                                                 s \in Seeds!Seen(db, plate)}], proc[p])
  BY DEF Seeds!CreateCase
<1>2. Seeds!At(p, "case-of-plate")
  BY DEF Seeds!CreateCase
<1> DEFINE new == {[case |-> case, sight |-> s] : s \in Seeds!Seen(db, plate)}
           more == {case}
           base == [db EXCEPT !.cases = @ \cup more, !.custody = @ \cup new]
<1>3. \A e \in new : e.case \in db.cases \cup more /\ e.sight \in db.sights
  BY DEF Seeds!Seen
<1>4. Seeds!Commit(p, base, proc[p])
  BY <1>1
<1> HIDE DEF new, more
<1>5. /\ DOMAIN base = DOMAIN Seeds!Empty /\ base.users = db.users
      /\ base.depts = db.depts /\ base.cams = db.cams /\ base.list = db.list
      /\ base.sights = db.sights /\ base.alerts = db.alerts /\ base.cases = db.cases \cup more
      /\ base.custody = db.custody \cup new
  BY RowsOfDb DEF Seeds!Empty
<1> HIDE DEF base
<1> QED BY <1>2, <1>3, <1>4, <1>5, CustodyWritten

-----------------------------------------------------------------------------
(* What the reset purges.                                                  *)

LEMMA ResetCasesKeeps ==
  ASSUME SeedInv, NEW p \in Processes, Seeds!ResetCases(p), UNCHANGED <<scope, starts, raced>>
  PROVE  SeedInv'
<1> DEFINE gone == {c \in proc[p].view.cases : c.named}
           base == [db EXCEPT !.cases = @ \ gone, !.custody = {e \in @ : e.case \notin gone}]
<1>1. Seeds!At(p, "purge-cases") /\ Seeds!Commit(p, base, proc[p])
  BY DEF Seeds!ResetCases
<1>2. Seeds!SampleCase \notin gone
  BY DEF Seeds!SampleCase, Seeds!Case
<1> HIDE DEF gone
<1>3. /\ DOMAIN base = DOMAIN Seeds!Empty /\ base.users = db.users
      /\ base.depts = db.depts /\ base.cams = db.cams /\ base.list = db.list
      /\ base.sights = db.sights /\ base.alerts = db.alerts /\ base.cases = db.cases \ gone
      /\ base.custody = {e \in db.custody : e.case \notin gone}
  BY RowsOfDb DEF Seeds!Empty
<1> HIDE DEF base
<1>4. Sound(db) /\ (~raced => Tidy(db))
  BY <1>1, AtStep
<1>5. /\ Seeds!Seen(base, Seeds!DemoPlate) = Seeds!Seen(db, Seeds!DemoPlate)
      /\ Seeds!AlertsOn(base, Seeds!DemoPlate) = Seeds!AlertsOn(db, Seeds!DemoPlate)
  BY <1>3 DEF Seeds!Seen, Seeds!AlertsOn
<1>6. Sound(base)
  BY <1>3, <1>4, <1>5 DEF Sound, Seeds!TypedRows
<1>7. Grown(db, base)
  BY <1>2, <1>3 DEF Grown, Seeds!Seen
<1>8. ~raced => Tidy(base)
  BY <1>3, <1>4, <1>5 DEF Tidy
<1>9. Reached("purge-cases", proc[p], base)
  BY LeadsNowhere
<1> QED BY <1>1, <1>6, <1>7, <1>8, <1>9, SeedKeeps

LEMMA ResetAlertsKeeps ==
  ASSUME SeedInv, NEW p \in Processes, Seeds!ResetAlerts(p), UNCHANGED <<scope, starts, raced>>
  PROVE  SeedInv'
<1> DEFINE gone == Seeds!AlertsOn(proc[p].view, Seeds!DemoPlate)
           base == [db EXCEPT !.alerts = @ \ gone]
<1>1. Seeds!At(p, "purge-alerts") /\ Seeds!Commit(p, base, proc[p])
  BY DEF Seeds!ResetAlerts
<1> HIDE DEF gone
<1>2. /\ DOMAIN base = DOMAIN Seeds!Empty /\ base.users = db.users
      /\ base.depts = db.depts /\ base.cams = db.cams /\ base.list = db.list
      /\ base.sights = db.sights /\ base.alerts = db.alerts \ gone /\ base.cases = db.cases
      /\ base.custody = db.custody
  BY RowsOfDb DEF Seeds!Empty
<1> HIDE DEF base
<1>3. Sound(db) /\ (~raced => Tidy(db))
  BY <1>1, AtStep
<1>4. /\ Seeds!Seen(base, Seeds!DemoPlate) = Seeds!Seen(db, Seeds!DemoPlate)
      /\ Seeds!AlertsOn(base, Seeds!DemoPlate) \subseteq Seeds!AlertsOn(db, Seeds!DemoPlate)
  BY <1>2 DEF Seeds!Seen, Seeds!AlertsOn
<1>5. Sound(base)
  BY <1>2, <1>3, <1>4 DEF Sound, Seeds!TypedRows
<1>6. Grown(db, base)
  BY <1>2 DEF Grown, Seeds!Seen
<1>7. ~raced => Tidy(base)
  BY <1>2, <1>3, <1>4 DEF Tidy
<1>8. Reached("purge-alerts", proc[p], base)
  BY LeadsNowhere
<1> QED BY <1>1, <1>5, <1>6, <1>7, <1>8, SeedKeeps

LEMMA ResetSightingsKeeps ==
  ASSUME SeedInv, NEW p \in Processes, Seeds!ResetSightings(p), UNCHANGED <<scope, starts, raced>>
  PROVE  SeedInv'
<1> DEFINE gone == {s \in proc[p].view.sights : s.demo}
           base == [db EXCEPT !.sights = @ \ gone, !.custody = {e \in @ : e.sight \notin gone},
                              !.alerts = @ \ gone]
<1>1. Seeds!At(p, "purge-sightings") /\ Seeds!Commit(p, base, proc[p])
  BY DEF Seeds!ResetSightings
<1>2. Sound(db) /\ (~raced => Tidy(db))
  BY <1>1, AtStep
<1>3. \A s \in gone : s \notin Seeds!Seen(db, Seeds!DemoPlate)
  <2>1. \A s \in Seeds!Seen(db, Seeds!DemoPlate) : s.demo = FALSE
    BY <1>2 DEF Sound, Seeds!Sighting
  <2> QED BY <2>1
<1> HIDE DEF gone
<1>4. /\ DOMAIN base = DOMAIN Seeds!Empty /\ base.users = db.users
      /\ base.depts = db.depts /\ base.cams = db.cams /\ base.list = db.list
      /\ base.sights = db.sights \ gone /\ base.alerts = db.alerts \ gone
      /\ base.cases = db.cases /\ base.custody = {e \in db.custody : e.sight \notin gone}
  BY RowsOfDb DEF Seeds!Empty
<1> HIDE DEF base
<1>5. /\ Seeds!Seen(base, Seeds!DemoPlate) = Seeds!Seen(db, Seeds!DemoPlate)
      /\ Seeds!AlertsOn(base, Seeds!DemoPlate) \subseteq Seeds!AlertsOn(db, Seeds!DemoPlate)
  BY <1>3, <1>4 DEF Seeds!Seen, Seeds!AlertsOn
<1>6. Sound(base)
  <2>1. Seeds!TypedRows(base)
    BY <1>2, <1>4 DEF Sound, Seeds!TypedRows
  <2>2. \A s \in Seeds!Seen(base, Seeds!DemoPlate), c \in Seeds!Journey :
          Seeds!Sighting(Seeds!DemoPlate, c, s.by, FALSE) \in base.sights
    <3>1. \A s \in Seeds!Seen(db, Seeds!DemoPlate), c \in Seeds!Journey :
            Seeds!Sighting(Seeds!DemoPlate, c, s.by, FALSE) \in Seeds!Seen(db, Seeds!DemoPlate)
      BY <1>2 DEF Sound, Seeds!Seen, Seeds!Sighting
    <3> QED BY <1>5, <3>1 DEF Seeds!Seen
  <2>3. \A s \in base.sights : s.cam \in DOMAIN base.cams
    BY <1>2, <1>4 DEF Sound
  <2>4. \A c \in DOMAIN base.cams : base.cams[c] \in base.depts
    BY <1>2, <1>4 DEF Sound
  <2>5. \/ Seeds!DepartmentsData \subseteq base.depts
        \/ base.depts \subseteq Seeds!FoundationDepartments
    BY <1>2, <1>4 DEF Sound
  <2> QED BY <1>2, <1>5, <2>1, <2>2, <2>3, <2>4, <2>5 DEF Sound
<1>7. Grown(db, base)
  BY <1>4, <1>5 DEF Grown, Seeds!Seen
<1>8. ~raced => Tidy(base)
  BY <1>2, <1>4, <1>5 DEF Tidy
<1>9. Reached("purge-sightings", proc[p], base)
  BY LeadsNowhere
<1> QED BY <1>1, <1>6, <1>7, <1>8, <1>9, SeedKeeps

LEMMA SeedSteps ==
  ASSUME SeedInv, NEW p \in Processes, Seeds!SeedStep(p), UNCHANGED <<scope, starts, raced>>
  PROVE  SeedInv'
<1>1. CASE Seeds!SeedUsers(p)
  BY <1>1, UsersKeep
<1>2. CASE Seeds!SeedCase(p)
  BY <1>2, CaseKeeps
<1>3. CASE Seeds!SeedDepartments(p)
  BY <1>3, DepartmentsKeep
<1>4. CASE Seeds!SeedCameras(p)
  BY <1>4, CamerasKeep
<1>5. CASE Seeds!SeedGrid(p)
  BY <1>5, GridKeeps
<1>6. CASE Seeds!SeedWatchlists(p)
  BY <1>6, WatchlistsKeep
<1>7. CASE Seeds!SeedJourney(p)
  BY <1>7, JourneyKeeps
<1>8. CASE Seeds!SeedAlert(p)
  BY <1>8, AlertKeeps
<1>9. CASE Seeds!SeedRest(p)
  BY <1>9, RestKeeps
<1>10. CASE Seeds!SeedFoundation(p)
  BY <1>10, FoundationKeeps
<1> QED BY <1>1, <1>2, <1>3, <1>4, <1>5, <1>6, <1>7, <1>8, <1>9, <1>10, Zenon DEF Seeds!SeedStep

LEMMA DemoSteps ==
  ASSUME SeedInv, NEW p \in Processes, Seeds!DemoStep(p), UNCHANGED <<scope, starts, raced>>
  PROVE  SeedInv'
<1>1. CASE Seeds!DemoDepartment(p)
  BY <1>1, DemoDepartmentKeeps
<1>2. CASE Seeds!DemoInvestigator(p)
  BY <1>2, DemoInvestigatorKeeps
<1>3. CASE Seeds!DemoCameras(p)
  BY <1>3, DemoCamerasKeep
<1>4. CASE Seeds!DemoTarget(p)
  BY <1>4, DemoTargetKeeps
<1>5. CASE Seeds!DemoSeeds(p)
  BY <1>5, DemoSeedsKeeps
<1>6. CASE Seeds!DemoSights(p)
  BY <1>6, SightsKeep
<1>7. CASE Seeds!DemoAlert(p)
  BY <1>7, DemoAlertKeeps
<1>8. CASE Seeds!DemoCase(p)
  BY <1>8, DemoCaseKeeps
<1>9. CASE Seeds!DemoEvidence(p)
  BY <1>9, EvidenceKeeps
<1>10. CASE Seeds!ResetCases(p)
  BY <1>10, ResetCasesKeeps
<1>11. CASE Seeds!ResetAlerts(p)
  BY <1>11, ResetAlertsKeeps
<1>12. CASE Seeds!ResetSightings(p)
  BY <1>12, ResetSightingsKeeps
<1> QED BY <1>1, <1>2, <1>3, <1>4, <1>5, <1>6, <1>7, <1>8, <1>9, <1>10, <1>11, <1>12, Zenon
        DEF Seeds!DemoStep

LEMMA SeedStep == SeedInv /\ [Seeds!Next]_(Seeds!vars) => SeedInv'
<1> SUFFICES ASSUME SeedInv, [Seeds!Next]_(Seeds!vars) PROVE SeedInv'
  OBVIOUS
<1>1. CASE UNCHANGED Seeds!vars
  <2>1. UNCHANGED <<scope, db, proc, starts, raced>>
    BY <1>1 DEF Seeds!vars
  <2>2. Seeds!SeedingAssumption' /\ Seeds!TypeOK'
    <3>1. Seeds!SeedingAssumption'
      BY DEF SeedInv, Seeds!SeedingAssumption, Seeds!DemoPlate
    <3>2. Seeds!TypeOK' <=> Seeds!TypeOK
      BY <2>1 DEF Seeds!TypeOK, Seeds!TypedRows
    <3> QED BY <3>1, <3>2 DEF SeedInv
  <2>3. Sound(db)'
    BY <2>1 DEF SeedInv, Sound, Seeds!TypedRows
  <2>4. ASSUME NEW q \in Processes PROVE Informed(q)'
    <3>1. Grown(db, db') /\ IsFiniteSet(db'.list) /\ proc'[q] = proc[q]
      BY <2>1, RowsOfDb DEF Grown, Seeds!Seen
    <3>2. starts' \in Nat /\ starts <= starts'
      BY <2>1, StartsCounted
    <3> QED BY <3>1, <3>2, InformedKept
  <2>5. ~raced' => Serial'
    <3>1. Serial' <=> Serial
      BY <2>1 DEF Serial, Tidy, Latest, Rung, Seeds!Running
    <3> QED BY <2>1, <3>1 DEF SeedInv
  <2> QED BY <2>2, <2>3, <2>4, <2>5 DEF SeedInv
<1>2. ASSUME Seeds!Next PROVE SeedInv'
  <2>1. UNCHANGED scope
    BY <1>2 DEF Seeds!Next
  <2>2. PICK p \in scope.processes :
          \/ Seeds!Start(p) \/ Seeds!Look(p)
          \/ /\ Seeds!SeedStep(p) \/ Seeds!DemoStep(p) \/ Seeds!CreateCase(p)
                \/ Seeds!CreateCaseFromAlert(p) \/ Seeds!Crash(p)
             /\ UNCHANGED <<starts, raced>>
    BY <1>2, Zenon DEF Seeds!Next
  <2>3. p \in Processes
    BY DEF SeedInv, Seeds!TypeOK, Seeds!SeedingAssumption
  <2>4. CASE Seeds!Start(p)
    BY <2>1, <2>3, <2>4, SeedStarts
  <2>5. CASE Seeds!Look(p)
    BY <2>1, <2>3, <2>5, SeedLooks
  <2>6. ASSUME UNCHANGED <<starts, raced>>,
               \/ Seeds!SeedStep(p) \/ Seeds!DemoStep(p) \/ Seeds!CreateCase(p)
               \/ Seeds!CreateCaseFromAlert(p) \/ Seeds!Crash(p)
        PROVE  SeedInv'
    <3>1. UNCHANGED <<scope, starts, raced>>
      BY <2>1, <2>6
    <3>2. Seeds!Crash(p) => Seeds!Fail(p)
      BY DEF Seeds!Crash
    <3> QED BY <2>3, <2>6, <3>1, <3>2, SeedSteps, DemoSteps, CreateCaseKeeps, CaseFromAlertKeeps,
               SeedFails
  <2> QED BY <2>2, <2>4, <2>5, <2>6
<1> QED BY <1>1, <1>2

LEMMA SeedStart == Seeds!SeedingAssumption /\ Seeds!Init => SeedInv
<1> SUFFICES ASSUME Seeds!SeedingAssumption, Seeds!Init PROVE SeedInv
  OBVIOUS
<1>1. PICK others \in {{}, scope.others} :
        db = [Seeds!Empty EXCEPT !.list = {Seeds!Entry(o, 0) : o \in others}]
  BY DEF Seeds!Init
<1>2. /\ scope \in SeedScopes /\ proc = [p \in Processes |-> Seeds!Idle] /\ starts = 0
      /\ raced = FALSE
  BY DEF Seeds!Init
<1> DEFINE new == {Seeds!Entry(o, 0) : o \in others}
<1>3. IsFiniteSet(others)
  BY <1>2, SameSizeOfSeed, FS_EmptySet DEF Seeds!SeedingAssumption
<1>4. \A e : e \in new <=> \E o \in others : e = Seeds!Entry(o, 0)
  OBVIOUS
<1> HIDE DEF new
<1>5. IsFiniteSet(new) /\ \A e, f \in new : e.plate = f.plate => e = f
  BY <1>3, <1>4, EntriesOf
<1>6. /\ DOMAIN db = DOMAIN Seeds!Empty /\ db.users = {} /\ db.depts = {} /\ DOMAIN db.cams = {}
      /\ db.list = new /\ db.sights = {} /\ db.alerts = {} /\ db.cases = {} /\ db.custody = {}
  BY <1>1 DEF Seeds!Empty, Seeds!NoCameras, new
<1>7. Seeds!TypedRows(db) /\ Sound(db)
  <2>1. Seeds!TypedRows(db)
    BY <1>5, <1>6, SameSizeOfSeed DEF Seeds!TypedRows
  <2> QED BY <1>6, <2>1 DEF Sound, Seeds!Seen
<1>8. /\ Seeds!Idle.todo = <<>> /\ Seeds!Idle.looked = FALSE /\ Seeds!Idle.view = Seeds!Empty
      /\ Seeds!Idle.no = 0 /\ Seeds!Idle.depts = {} /\ Seeds!Idle.cams = {} /\ Seeds!Idle.last = ""
  BY DEF Seeds!Idle
<1>9. Prepared(<<>>, Seeds!Idle, db) /\ <<>> \in Seq(Seeds!Steps) /\ Chained(<<>>, "")
  BY ScriptsOrdered, PreparedIfOrdered DEF Chained
<1> HIDE DEF Seeds!Idle
<1>10. \A p \in Processes : proc[p] = Seeds!Idle /\ ~Seeds!Running(p)
  BY <1>2, <1>8 DEF Seeds!Running
<1>11. Seeds!TypeOK
  <2>1. starts \in 0 .. scope.starts /\ \A p \in Processes : proc[p].no \in 0 .. starts
    <3>1. scope.starts \in Nat
      BY <1>2 DEF Seeds!SeedingAssumption
    <3>2. 0 \in 0 .. scope.starts /\ 0 \in 0 .. 0
      BY <3>1
    <3>3. \A p \in Processes : proc[p].no = 0
      BY <1>8, <1>10
    <3> QED BY <1>2, <3>2, <3>3
  <2>2. DOMAIN proc = Processes
    BY <1>2
  <2> HIDE DEF Seeds!TypedRows, Seeds!Steps, Seeds!AllDepartments, Seeds!AllCameras
  <2> QED BY <1>2, <1>7, <1>8, <1>9, <1>10, <2>1, <2>2, EmptyTyped DEF Seeds!TypeOK
<1>12. \A p \in Processes : Informed(p)
  BY <1>8, <1>9, <1>10 DEF Informed
<1>13. Serial
  <2>1. Latest
    BY <1>2, <1>8, <1>10 DEF Latest
  <2> QED BY <1>5, <1>6, <1>8, <1>10, <2>1 DEF Serial, Tidy, Seeds!Seen, Seeds!AlertsOn
<1> QED BY <1>7, <1>11, <1>12, <1>13 DEF SeedInv

LEMMA SeedFollows == SeedInv => /\ Seeds!TypeOK /\ Seeds!SeedIsComplete
                                /\ Seeds!SerialScriptsTidy
<1> SUFFICES ASSUME SeedInv
             PROVE  Seeds!TypeOK /\ Seeds!SeedIsComplete /\ Seeds!SerialScriptsTidy
  OBVIOUS
<1>1. Seeds!TypeOK /\ Sound(db)
  BY DEF SeedInv
<1>2. Seeds!SeedIsComplete
  <2> SUFFICES ASSUME NEW p \in Processes, proc[p].last = "rest"
               PROVE  /\ Seeds!DefaultUsers \subseteq db.users /\ Seeds!SampleCase \in db.cases
                      /\ db.depts # {}
                      /\ \/ Seeds!DepartmentsData \subseteq db.depts
                         \/ db.depts \subseteq Seeds!FoundationDepartments
                      /\ DOMAIN Seeds!CamerasData \cup Seeds!SentinelGrid \subseteq DOMAIN db.cams
                      /\ \/ Seeds!WatchlistData \subseteq Seeds!Plates(db.list)
                         \/ Seeds!Cardinality(Seeds!Plates(db.list))
                              >= Seeds!Cardinality(Seeds!WatchlistData)
                      /\ {s.cam : s \in Seeds!Seen(db, Seeds!DemoPlate)} = Seeds!Journey
                      /\ ~raced /\ proc[p].no = starts
                           /\ Seeds!DemoPlate \in Seeds!Plates(db.list)
                           => Seeds!AlertsOn(db, Seeds!DemoPlate) # {}
    BY Zenon DEF Seeds!SeedIsComplete
  <2>1. Complete(db)
    BY DEF SeedInv, Informed
  <2>2. {s.cam : s \in Seeds!Seen(db, Seeds!DemoPlate)} = Seeds!Journey
    <3>1. \A s \in Seeds!Seen(db, Seeds!DemoPlate) : s.cam \in Seeds!Journey
      BY <1>1 DEF Sound
    <3>2. ASSUME NEW c \in Seeds!Journey
          PROVE  \E s \in Seeds!Seen(db, Seeds!DemoPlate) : s.cam = c
      <4>1. PICK s : s \in Seeds!Seen(db, Seeds!DemoPlate)
        BY <2>1 DEF Complete
      <4> DEFINE t == Seeds!Sighting(Seeds!DemoPlate, c, s.by, FALSE)
      <4>2. t \in db.sights
        BY <1>1, <4>1 DEF Sound
      <4>3. t.plate = Seeds!DemoPlate /\ t.cam = c
        BY DEF Seeds!Sighting
      <4> QED BY <4>2, <4>3 DEF Seeds!Seen
    <3> QED BY <3>1, <3>2
  <2>3. \/ Seeds!WatchlistData \subseteq Seeds!Plates(db.list)
        \/ Seeds!Cardinality(Seeds!Plates(db.list)) >= Seeds!Cardinality(Seeds!WatchlistData)
    <3>1. /\ Seeds!Cardinality(Seeds!Plates(db.list)) = Cardinality(Seeds!Plates(db.list))
          /\ Seeds!Cardinality(Seeds!WatchlistData) = Cardinality(Seeds!WatchlistData)
      BY SameSizeOfSeed
    <3> QED BY <2>1, <3>1 DEF Complete, Listed
  <2>4. \/ Seeds!DepartmentsData \subseteq db.depts
        \/ db.depts \subseteq Seeds!FoundationDepartments
    BY <1>1 DEF Sound
  <2>5. ~raced /\ proc[p].no = starts => Rung(db)
    BY DEF SeedInv, Serial, Latest
  <2> QED BY <2>1, <2>2, <2>3, <2>4, <2>5 DEF Complete, Rung, Seeds!AllCameras
<1>3. ASSUME ~raced
      PROVE  /\ \A e, f \in db.list : e.plate = f.plate => e = f
             /\ Seeds!Cardinality(Seeds!Seen(db, Seeds!DemoPlate)) <= Seeds!Cardinality(Seeds!Journey)
             /\ Seeds!Cardinality(Seeds!AlertsOn(db, Seeds!DemoPlate)) <= 1
             /\ \A c \in DOMAIN db.cams : db.cams[c] \in db.depts
             /\ \A s \in db.sights : s.cam \in DOMAIN db.cams
             /\ db.alerts \subseteq db.sights
             /\ \A e \in db.custody : e.case \in db.cases /\ e.sight \in db.sights
  <2>1. Tidy(db)
    BY <1>3 DEF SeedInv, Serial
  <2>2. Seeds!Cardinality(Seeds!Seen(db, Seeds!DemoPlate)) <= Seeds!Cardinality(Seeds!Journey)
    <3>1. Cardinality(Seeds!Seen(db, Seeds!DemoPlate)) \in {0, 5}
      BY <1>1, <2>1, OneJourney, FS_EmptySet DEF Tidy
    <3>2. /\ Seeds!Cardinality(Seeds!Seen(db, Seeds!DemoPlate))
               = Cardinality(Seeds!Seen(db, Seeds!DemoPlate))
          /\ Seeds!Cardinality(Seeds!Journey) = 5
      BY SameSizeOfSeed, JourneySize
    <3> QED BY <3>1, <3>2
  <2>3. Seeds!Cardinality(Seeds!AlertsOn(db, Seeds!DemoPlate)) <= 1
    <3>1. Cardinality(Seeds!AlertsOn(db, Seeds!DemoPlate)) \in {0, 1}
      <4>1. CASE Seeds!AlertsOn(db, Seeds!DemoPlate) = {}
        BY <4>1, FS_EmptySet
      <4>2. ASSUME NEW s \in Seeds!AlertsOn(db, Seeds!DemoPlate)
            PROVE  Cardinality(Seeds!AlertsOn(db, Seeds!DemoPlate)) \in {0, 1}
        <5>1. Seeds!AlertsOn(db, Seeds!DemoPlate) = {s}
          BY <2>1, <4>2 DEF Tidy
        <5> QED BY <5>1, FS_Singleton
      <4> QED BY <4>1, <4>2
    <3>2. Seeds!Cardinality(Seeds!AlertsOn(db, Seeds!DemoPlate))
            = Cardinality(Seeds!AlertsOn(db, Seeds!DemoPlate))
      BY SameSizeOfSeed
    <3> QED BY <3>1, <3>2
  <2> QED BY <1>1, <2>1, <2>2, <2>3 DEF Sound, Tidy
<1> QED BY <1>1, <1>2, <1>3 DEF Seeds!SerialScriptsTidy
-----------------------------------------------------------------------------
(* Whichever component runs keeps its invariant.                            *)

RecordsInv ==
  /\ part = "schema" => SchemaInv
  /\ part = "seeds" => SeedInv
  /\ part = "federation" => PermitInv
  /\ part = "registries" => GovInv

LEMMA RecordsStart ==
  ASSUME AnyInit PROVE RecordsInv
<1>1. /\ Tables!SchemaAssumption /\ Seeds!SeedingAssumption
      /\ Access!FederationAssumption /\ Registries!GovAssumption
  BY Instances
<1>2. CASE SchemaInit
  BY <1>1, <1>2, SchemaStart DEF SchemaInit, RecordsInv
<1>3. CASE SeedsInit
  BY <1>1, <1>3, SeedStart DEF SeedsInit, RecordsInv
<1>4. CASE FederationInit
  BY <1>1, <1>4, PermitStart DEF FederationInit, RecordsInv
<1>5. CASE GovInit
  BY <1>1, <1>5, GovStart DEF GovInit, RecordsInv
<1> QED BY <1>2, <1>3, <1>4, <1>5 DEF AnyInit

\* The component that runs takes a step or all of them stand still.
LEMMA OnePart ==
  ASSUME [AnyNext]_allVars
  PROVE  /\ part' = part
         /\ part = "schema" => [Tables!Next]_(Tables!vars)
         /\ part = "seeds" => [Seeds!Next]_(Seeds!vars)
         /\ part = "federation" => [Access!Next]_(Access!vars)
         /\ part = "registries" => [Registries!Next]_(Registries!vars)
<1>1. CASE UNCHANGED allVars
  BY <1>1 DEF allVars, hostVars, schemaVars, seedVars, servingVars, federationVars, govVars,
              Tables!vars, Seeds!vars, Access!vars, Registries!vars
<1>2. CASE AnyNext
  BY <1>2 DEF AnyNext, SchemaNext, SeedsNext, FederationNext, GovNext
<1> QED BY <1>1, <1>2

LEMMA RecordsStep ==
  ASSUME RecordsInv, [AnyNext]_allVars
  PROVE  RecordsInv'
<1>1. Access!FederationAssumption
  BY Instances
<1>2. part' = part
  BY OnePart
<1>3. part = "schema" => SchemaInv'
  BY OnePart, SchemaStep DEF RecordsInv
<1>4. part = "seeds" => SeedInv'
  BY OnePart, SeedStep DEF RecordsInv
<1>5. part = "federation" => PermitInv'
  BY <1>1, OnePart, PermitStep DEF RecordsInv
<1>6. part = "registries" => GovInv'
  BY OnePart, GovStep DEF RecordsInv
<1> QED BY <1>2, <1>3, <1>4, <1>5, <1>6 DEF RecordsInv

LEMMA RecordsInvariant == AnySpec => []RecordsInv
BY RecordsStart, RecordsStep, PTL DEF AnySpec

\* The variables of each component keep their types, for any tables, scripts' plates,
\* requests, adapters and threads.
THEOREM RecordsTyped == AnySpec => []TypesOK
<1>1. RecordsInv => TypesOK
  BY SchemaFollows DEF RecordsInv, TypesOK, SeedInv, PermitInv, GovInv
<1> QED BY <1>1, RecordsInvariant, PTL

\* Whatever tables refer to each other, and in whatever order the migration creates
\* them that the assumption allows, no table is in the database without those its
\* foreign keys name, wherever a start or a migration was cut off (create_all in
\* app/seed_data.py; upgrade and downgrade of db/migrations/versions).
THEOREM ReferencesSound == AnySpec => []NoDanglingReference
<1>1. RecordsInv => NoDanglingReference
  BY SchemaFollows DEF RecordsInv, NoDanglingReference
<1> QED BY <1>1, RecordsInvariant, PTL

\* A process that came up, and started undisturbed, serves every table and every late
\* column, for any number of processes and starts (create_all in app/seed_data.py,
\* sync_schema_columns in app/core/database.py, run_server.py).
THEOREM WholeSchemaServed == AnySpec => []ServesWholeSchema
<1>1. RecordsInv => ServesWholeSchema
  BY SchemaFollows DEF RecordsInv, ServesWholeSchema
<1> QED BY <1>1, RecordsInvariant, PTL

\* When seed_database returns, everything it is to seed is there, for any number of
\* scripts that run beside it, end half way or purge (app/seed_data.py).
THEOREM SeedCompletes == AnySpec => []SeedIsComplete
<1>1. RecordsInv => SeedIsComplete
  BY SeedFollows DEF RecordsInv, SeedIsComplete
<1> QED BY <1>1, RecordsInvariant, PTL

\* Any number of scripts that run one after another, each ending anywhere, seed one
\* journey and at most one alert on it, and leave no row that refers to a row that is
\* gone (demo_reset.py, demo_seed.py, run_demo.py, app/seed_data.py).
THEOREM SerialScriptsLeaveNoOrphan == AnySpec => []SerialScriptsTidy
<1>1. RecordsInv => SerialScriptsTidy
  BY SeedFollows DEF RecordsInv, SerialScriptsTidy
<1> QED BY <1>1, RecordsInvariant, PTL

\* A feed is opened by one who may see the camera by right, or on an approval of a
\* request for it that covered the moment, as long as its decisions were made one at a
\* time, for any users, cameras and threads (can_user_access_camera of
\* services/federation.py, stream_camera_feed of api/cameras.py).
THEOREM PermitsHonoured == AnySpec => []PermitHonoured
<1>1. RecordsInv => PermitHonoured
  BY PermitFollows DEF RecordsInv, PermitHonoured
<1> QED BY <1>1, RecordsInvariant, PTL

\* No registry is asked oftener than its limit within any window, as long as the calls
\* to it do not cross, for any adapters, threads and limits (_enforce_rate_limit,
\* services/gov_adapters/base.py).
THEOREM LimitsKept == AnySpec => []WithinLimit
<1>1. RecordsInv => WithinLimit
  BY GovFollows DEF RecordsInv, WithinLimit
<1> QED BY <1>1, RecordsInvariant, PTL

\* An answer is no older than the cache allows, and one from production was checked
\* first, for any adapters and threads (query and _verify_production_prerequisites,
\* services/gov_adapters/base.py).
THEOREM AnswersFreshAndGuarded == AnySpec => []AnswerGuarded
<1>1. RecordsInv => AnswerGuarded
  BY GovFollows DEF RecordsInv, AnswerGuarded
<1> QED BY <1>1, RecordsInvariant, PTL
=============================================================================
