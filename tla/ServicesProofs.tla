--------------------------- MODULE ServicesProofs ---------------------------
(***************************************************************************)
(* What holds of the evidence vault, the watchlist cache, the              *)
(* deduplication of alerts and the locks of the pipeline (Services) for    *)
(* any threads and any data.                                               *)
(***************************************************************************)
EXTENDS Services, Integers, Sequences, AuditChainProofs

-----------------------------------------------------------------------------
(* The evidence vault.  A whole medium or metadata object is never opened   *)
(* again, since the vault overwrites the chain of custody only: so what an  *)
(* ingestion has stored so far stays whole until its row is committed.      *)

Ingesting(t) == pc[t] \in {"put", "write", "record"}

\* What t has stored of its package.
Placed(t) ==
  /\ pc[t] \in {"put", "write"} => step[t] \in 1 .. 5
  /\ pc[t] = "record" => step[t] = 6
  /\ \A i \in 1 .. 4 : i < step[t] => vault[pkg[t]][Vault!Order[i]] = "whole"

\* The trail that t is about to write is not empty; an append has an event of its own.
Carried(t) ==
  /\ pc[t] \in {"put", "write", "append", "append write"} => copy[t] # <<>>
  /\ pc[t] \in {"read", "append", "append write", "log access"} => event[t] \in Events

VaultInv ==
  /\ Vault!TypeOK
  /\ \A t \in Writers : Ingesting(t) => Placed(t)
  /\ \A t \in Writers : Carried(t)
  /\ \A p \in Packages : vault[p]["metadata"] = "whole" =>
       \A o \in Vault!Media : vault[p][o] = "whole"
  /\ Vault!RecordBacked

\* The objects in their order.
LEMMA Ordered ==
  /\ Len(Vault!Order) = 5
  /\ Vault!Order[1] = "original_frame" /\ Vault!Order[2] = "plate_crop"
  /\ Vault!Order[3] = "annotated_frame" /\ Vault!Order[4] = "metadata"
  /\ Vault!Order[5] = Vault!Custody
  /\ Vault!Media = {Vault!Order[1], Vault!Order[2], Vault!Order[3]}
  /\ \A i \in 1 .. 5 : Vault!Order[i] \in Vault!Objects
  /\ \A i \in 1 .. 4 : Vault!Order[i] # Vault!Custody
  /\ \A i, j \in 1 .. 5 : Vault!Order[i] = Vault!Order[j] => i = j
  /\ Vault!Objects = {Vault!Order[i] : i \in 1 .. 5}
BY DEF Vault!Order, Vault!Custody, Vault!Objects, Vault!Media

\* A step of t that leaves whole what is whole, but for chains of custody.
LEMMA WholeStays ==
  ASSUME VaultInv, Vault!TypeOK', NEW t \in Writers,
         \A p \in Packages : \A i \in 1 .. 4 :
           vault[p][Vault!Order[i]] = "whole" => vault'[p][Vault!Order[i]] = "whole",
         \A p \in Packages : vault'[p]["metadata"] = "whole" =>
           vault[p]["metadata"] = "whole" \/ \A o \in Vault!Media : vault'[p][o] = "whole",
         \A p \in records' \ records : \A i \in 1 .. 4 : vault[p][Vault!Order[i]] = "whole",
         \A u \in Writers \ {t} : /\ pc'[u] = pc[u] /\ pkg'[u] = pkg[u]
                                  /\ step'[u] = step[u] /\ copy'[u] = copy[u]
                                  /\ event'[u] = event[u],
         Ingesting(t)' => Placed(t)', Carried(t)'
  PROVE  VaultInv'
<1>1. pkg \in [Writers -> Packages] /\ records' \subseteq Packages
        /\ records \subseteq Packages
  BY DEF VaultInv, Vault!TypeOK
<1>2. ASSUME NEW u \in Writers, Ingesting(u)'
      PROVE  Placed(u)'
  <2>1. CASE u = t
    BY <1>2, <2>1
  <2>2. CASE u # t
    <3>1. Ingesting(u) /\ Placed(u)
      BY <1>2, <2>2 DEF Ingesting, VaultInv
    <3> QED BY <1>1, <2>2, <3>1 DEF Placed
  <2> QED BY <2>1, <2>2
<1>3. ASSUME NEW u \in Writers
      PROVE  Carried(u)'
  <2>1. CASE u = t
    BY <2>1
  <2>2. CASE u # t
    <3>1. Carried(u) /\ pc'[u] = pc[u] /\ copy'[u] = copy[u] /\ event'[u] = event[u]
      BY <2>2 DEF VaultInv
    <3> QED BY <3>1 DEF Carried
  <2> QED BY <2>1, <2>2
<1>4. \A p \in Packages : vault'[p]["metadata"] = "whole" =>
        \A o \in Vault!Media : vault'[p][o] = "whole"
  BY Ordered DEF VaultInv
<1>5. Vault!RecordBacked'
  <2> SUFFICES ASSUME NEW p \in records'
               PROVE  \A i \in 1 .. 4 : vault'[p][Vault!Order[i]] = "whole"
    BY Ordered DEF Vault!RecordBacked, Vault!Verdict
  <2>1. CASE p \in records
    <3>1. \A i \in 1 .. 4 : vault[p][Vault!Order[i]] = "whole"
      BY <2>1, Ordered DEF VaultInv, Vault!RecordBacked, Vault!Verdict
    <3> QED BY <1>1, <2>1, <3>1
  <2>2. CASE p \notin records
    BY <1>1, <2>2
  <2> QED BY <2>1, <2>2
<1> QED BY <1>2, <1>3, <1>4, <1>5 DEF VaultInv

\* What a request is storing.
LEMMA Storing ==
  ASSUME VaultInv, NEW t \in Writers, Vault!Putting(t) \/ Vault!Opened(t)
  PROVE  /\ pkg[t] \in Packages /\ Vault!Object(t) \in Vault!Objects
         /\ copy[t] # <<>> /\ copy[t] \in Seq(Events \union {Sealed})
         /\ Vault!Appending(t) => Vault!Object(t) = Vault!Custody /\ event[t] \in Events
         /\ ~Vault!Appending(t) =>
              /\ Ingesting(t) /\ step[t] \in 1 .. 5 /\ Vault!Object(t) = Vault!Order[step[t]]
              /\ \A i \in 1 .. 4 : i < step[t] => vault[pkg[t]][Vault!Order[i]] = "whole"
<1>1. pkg[t] \in Packages /\ copy[t] \in Seq(Events \union {Sealed})
  BY DEF VaultInv, Vault!TypeOK
<1>2. pc[t] \in {"put", "write", "append", "append write"}
  BY DEF Vault!Putting, Vault!Opened
<1>3. copy[t] # <<>>
  BY <1>2 DEF VaultInv, Carried
<1>4. CASE Vault!Appending(t)
  BY <1>1, <1>3, <1>4 DEF Vault!Object, Vault!Objects, Vault!Appending, VaultInv, Carried
<1>5. CASE ~Vault!Appending(t)
  <2>1. pc[t] \in {"put", "write"} /\ Ingesting(t)
    BY <1>2, <1>5 DEF Vault!Appending, Ingesting
  <2>2. Placed(t)
    BY <2>1 DEF VaultInv
  <2>3. Vault!Object(t) = Vault!Order[step[t]]
    BY <1>5 DEF Vault!Object
  <2> QED BY <1>1, <1>3, <1>5, <2>1, <2>2, <2>3, Ordered DEF Placed
<1> QED BY <1>4, <1>5

\* How an object is replaced.
LEMMA Replaced ==
  ASSUME VaultInv, NEW p \in Packages, NEW o \in Vault!Objects,
         NEW c \in Vault!Contents, Vault!Has(p, o, c)
  PROVE  /\ vault' \in [Packages -> [Vault!Objects -> Vault!Contents]]
         /\ \A q \in Packages, r \in Vault!Objects :
              vault'[q][r] = IF q = p /\ r = o THEN c ELSE vault[q][r]
<1>1. vault \in [Packages -> [Vault!Objects -> Vault!Contents]]
  BY DEF VaultInv, Vault!TypeOK
<1>2. [vault[p] EXCEPT ![o] = c] \in [Vault!Objects -> Vault!Contents]
  BY <1>1
<1> QED BY <1>1, <1>2 DEF Vault!Has

\* The steps of a request that leave the vault alone.
LEMMA VaultKept ==
  ASSUME VaultInv, Vault!TypeOK', NEW t \in Writers, UNCHANGED <<vault, pkg, step>>,
         \A u \in Writers \ {t} :
           pc'[u] = pc[u] /\ copy'[u] = copy[u] /\ event'[u] = event[u],
         \A p \in records' \ records : \A i \in 1 .. 4 : vault[p][Vault!Order[i]] = "whole",
         Ingesting(t)' => Placed(t)', Carried(t)'
  PROVE  VaultInv'
BY WholeStays

\* A request ends, or goes from one place to another that is not an ingestion's.
LEMMA Leaves ==
  ASSUME VaultInv, NEW t \in Writers,
         NEW place \in {"idle", "read", "append", "log access"}, Vault!Goto(t, place),
         place = "append" => copy'[t] # <<>>, place # "idle" => event'[t] \in Events
  PROVE  /\ pc' \in [Writers -> {"idle", "put", "write", "record", "read", "append",
                                 "append write", "log access"}]
         /\ \A u \in Writers \ {t} : pc'[u] = pc[u]
         /\ ~Ingesting(t)' /\ Carried(t)'
BY DEF VaultInv, Vault!TypeOK, Vault!Goto, Ingesting, Carried

\* Open, Write, WriteOver and PutFails
LEMMA PutStep ==
  ASSUME VaultInv, NEW t \in Writers,
         UNCHANGED <<driver, mixed>>,
         Vault!Open(t) \/ Vault!Write(t) \/ Vault!WriteOver(t) \/ Vault!PutFails(t)
  PROVE  VaultInv'
<1> DEFINE p == pkg[t]  o == Vault!Object(t)
<1>0. Vault!Putting(t) \/ Vault!Opened(t)
  BY DEF Vault!Open, Vault!Write, Vault!WriteOver, Vault!PutFails, Vault!Writing,
         Vault!Opened
<1>1. /\ p \in Packages /\ o \in Vault!Objects
      /\ copy[t] # <<>> /\ copy[t] \in Seq(Events \union {Sealed})
      /\ Vault!Appending(t) => o = Vault!Custody /\ event[t] \in Events
      /\ ~Vault!Appending(t) =>
           /\ Ingesting(t) /\ step[t] \in 1 .. 5 /\ o = Vault!Order[step[t]]
           /\ \A i \in 1 .. 4 : i < step[t] => vault[p][Vault!Order[i]] = "whole"
  BY <1>0, Storing
<1>2. Vault!TypeOK
  BY DEF VaultInv
<1>a. /\ trail \in [Packages -> Seq(Events \union {Sealed})]
      /\ ledger \in [Packages -> Seq(Events \union {Sealed})]
      /\ \A q \in Packages : trail[q] # <<>> <=> vault[q][Vault!Custody] = "whole"
      /\ \A q \in Packages, r \in Vault!Objects \ {Vault!Custody} : vault[q][r] # "broken"
  BY <1>2 DEF Vault!TypeOK
<1>c. <<>> \in Seq(Events \union {Sealed}) /\ Vault!Custody \in Vault!Objects
  BY DEF Vault!Objects
<1>b. Len(Vault!Order) + 1 = 6
  BY Ordered
<1>3. CASE Vault!PutFails(t)
  <2>1. Vault!Goto(t, "idle")
    BY <1>3 DEF Vault!PutFails
  <2>2. UNCHANGED <<vault, trail, records, accesses, used, pkg, step, event, copy,
                    crashes, readFaults, ledger>>
    BY <1>3 DEF Vault!PutFails, Vault!stored, Vault!local
  <2>3. Vault!TypeOK'
    BY <1>2, <2>1, <2>2, Leaves DEF Vault!TypeOK
  <2> QED BY <2>1, <2>2, <2>3, Leaves, VaultKept
<1>4. CASE Vault!Open(t)
  <2>1. /\ Vault!Putting(t) /\ Vault!Unlocked(t) /\ Vault!Has(p, o, "empty")
        /\ trail' = IF o = Vault!Custody THEN [trail EXCEPT ![p] = <<>>] ELSE trail
        /\ Vault!Goto(t, IF pc[t] = "put" THEN "write" ELSE "append write")
        /\ UNCHANGED <<records, accesses, used, pkg, step, event, copy, crashes,
                       readFaults, ledger>>
    BY <1>4 DEF Vault!Open, Vault!local
  <2>2. /\ vault' \in [Packages -> [Vault!Objects -> Vault!Contents]]
        /\ \A q \in Packages, r \in Vault!Objects :
             vault'[q][r] = IF q = p /\ r = o THEN "empty" ELSE vault[q][r]
    <3>1. Vault!Has(p, o, "empty")
      BY <2>1
    <3>2. "empty" \in Vault!Contents
      BY DEF Vault!Contents
    <3>3. p \in Packages /\ o \in Vault!Objects
      BY <1>1
    <3> HIDE DEF p, o
    <3> QED BY <3>1, <3>2, <3>3, Replaced
  <2>3. /\ pc' \in [Writers -> {"idle", "put", "write", "record", "read", "append",
                                "append write", "log access"}]
        /\ \A u \in Writers \ {t} : pc'[u] = pc[u]
        /\ pc[t] \in {"put", "append"}
        /\ pc'[t] = IF pc[t] = "put" THEN "write" ELSE "append write"
    BY <1>2, <2>1 DEF Vault!TypeOK, Vault!Goto, Vault!Putting
  <2>4. /\ trail' \in [Packages -> Seq(Events \union {Sealed})]
        /\ \A q \in Packages : trail'[q] # <<>> <=> vault'[q][Vault!Custody] = "whole"
    <3>1. \A q \in Packages :
            vault'[q][Vault!Custody] =
              IF q = p /\ o = Vault!Custody THEN "empty" ELSE vault[q][Vault!Custody]
      BY <1>c, <2>2
    <3>2. CASE o = Vault!Custody
      <4>1. trail' = [trail EXCEPT ![p] = <<>>]
        BY <2>1, <3>2
      <4>2. p \in Packages
        BY <1>1
      <4> HIDE DEF p, o
      <4>3. trail' \in [Packages -> Seq(Events \union {Sealed})]
        BY <1>a, <1>c, <4>1, <4>2
      <4>4. \A q \in Packages : trail'[q] = IF q = p THEN <<>> ELSE trail[q]
        BY <1>a, <4>1, <4>2
      <4> QED BY <1>a, <3>1, <3>2, <4>3, <4>4
    <3>3. CASE o # Vault!Custody
      <4>1. trail' = trail
        BY <2>1, <3>3
      <4> HIDE DEF p, o
      <4> QED BY <1>a, <3>1, <3>3, <4>1
    <3> QED BY <3>2, <3>3
  <2>5. \A q \in Packages, r \in Vault!Objects \ {Vault!Custody} : vault'[q][r] # "broken"
    <3> HIDE DEF p, o
    <3> QED BY <1>a, <2>2
  <2>6. Vault!TypeOK'
    BY <1>2, <2>1, <2>2, <2>3, <2>4, <2>5 DEF Vault!TypeOK
  <2>7. o # Vault!Custody => vault[p][o] = "absent"
    BY <2>1 DEF Vault!Unlocked
  <2>8. \A q \in Packages : \A i \in 1 .. 4 :
          vault[q][Vault!Order[i]] = "whole" => vault'[q][Vault!Order[i]] = "whole"
    BY <2>2, <2>7, Ordered
  <2>9. \A q \in Packages : vault'[q]["metadata"] = "whole" => vault[q]["metadata"] = "whole"
    BY <2>2, Ordered
  <2>10. Ingesting(t)' => Placed(t)'
    <3>1. CASE pc[t] = "put"
      <4>1. ~Vault!Appending(t)
        BY <3>1 DEF Vault!Appending
      <4> QED BY <1>1, <2>1, <2>3, <2>8, <3>1, <4>1 DEF Placed
    <3>2. CASE pc[t] = "append"
      BY <2>3, <3>2 DEF Ingesting
    <3> QED BY <2>3, <3>1, <3>2
  <2>11. Carried(t)'
    BY <1>1, <2>1, <2>3 DEF Carried, Vault!Appending
  <2> QED BY <2>1, <2>3, <2>6, <2>8, <2>9, <2>10, <2>11, WholeStays
<1>5. CASE Vault!Write(t) \/ Vault!WriteOver(t)
  <2> PICK c \in {"whole", "broken"} : c = IF Vault!Write(t) THEN "whole" ELSE "broken"
    OBVIOUS
  <2>1. /\ Vault!Has(p, o, c) /\ Vault!AfterPut(t)
        /\ trail' = IF o = Vault!Custody
                    THEN [trail EXCEPT ![p] = IF c = "whole" THEN copy[t] ELSE <<>>]
                    ELSE trail
        /\ c = "whole" \/ o = Vault!Custody
        /\ UNCHANGED <<records, accesses, used, pkg, event, copy, crashes, readFaults>>
        /\ ledger' = IF o = Vault!Custody /\ c = "whole"
                     THEN [ledger EXCEPT ![p] = copy[t]] ELSE ledger
    <3>1. CASE Vault!Write(t)
      BY <3>1 DEF Vault!Write
    <3>2. CASE ~Vault!Write(t)
      <4>1. Vault!WriteOver(t) /\ c = "broken"
        BY <1>5, <3>2
      <4>2. o = Vault!Custody
        BY <4>1 DEF Vault!WriteOver, Vault!Object, Vault!Appending
      <4> QED BY <3>2, <4>1, <4>2 DEF Vault!WriteOver
    <3> QED BY <3>1, <3>2
  <2>2. /\ vault' \in [Packages -> [Vault!Objects -> Vault!Contents]]
        /\ \A q \in Packages, r \in Vault!Objects :
             vault'[q][r] = IF q = p /\ r = o THEN c ELSE vault[q][r]
    BY <1>1, <2>1, Replaced DEF Vault!Contents
  <2>3. /\ pc' \in [Writers -> {"idle", "put", "write", "record", "read", "append",
                                "append write", "log access"}]
        /\ step' \in [Writers -> 1 .. 6]
        /\ \A u \in Writers \ {t} : pc'[u] = pc[u] /\ step'[u] = step[u]
        /\ Vault!Appending(t) => pc'[t] = "log access"
        /\ ~Vault!Appending(t) => /\ step'[t] = step[t] + 1
                                  /\ pc'[t] = IF step[t] = 5 THEN "record" ELSE "put"
    <3>1. step \in [Writers -> 1 .. 6]
      BY <1>2, <1>b DEF Vault!TypeOK
    <3>2. CASE Vault!Appending(t)
      BY <1>2, <2>1, <3>1, <3>2 DEF Vault!TypeOK, Vault!Goto, Vault!AfterPut
    <3>3. CASE ~Vault!Appending(t)
      <4>1. step[t] + 1 \in 1 .. 6
        BY <1>1, <3>3
      <4>2. /\ step' = [step EXCEPT ![t] = step[t] + 1]
            /\ pc' = [pc EXCEPT ![t] = IF step[t] = 5 THEN "record" ELSE "put"]
        BY <2>1, <3>3, Ordered DEF Vault!Goto, Vault!AfterPut
      <4>3. pc \in [Writers -> {"idle", "put", "write", "record", "read", "append",
                                "append write", "log access"}]
        BY <1>2 DEF Vault!TypeOK
      <4> QED BY <3>1, <3>3, <4>1, <4>2, <4>3
    <3> QED BY <3>2, <3>3
  <2>4. /\ trail' \in [Packages -> Seq(Events \union {Sealed})]
        /\ ledger' \in [Packages -> Seq(Events \union {Sealed})]
        /\ \A q \in Packages : trail'[q] # <<>> <=> vault'[q][Vault!Custody] = "whole"
    <3>2. CASE o = Vault!Custody
      BY <1>1, <1>a, <1>c, <2>1, <2>2, <3>2
    <3>3. CASE o # Vault!Custody
      BY <1>1, <1>a, <1>c, <2>1, <2>2, <3>3
    <3> QED BY <3>2, <3>3
  <2>5. \A q \in Packages, r \in Vault!Objects \ {Vault!Custody} : vault'[q][r] # "broken"
    <3> SUFFICES ASSUME NEW q \in Packages, NEW r \in Vault!Objects \ {Vault!Custody}
                 PROVE  vault'[q][r] # "broken"
      OBVIOUS
    <3>1. vault'[q][r] = IF q = p /\ r = o THEN c ELSE vault[q][r]
      BY <2>2
    <3>2. r = o => c = "whole"
      BY <2>1
    <3> QED BY <1>a, <3>1, <3>2
  <2>6. Vault!TypeOK'
    BY <1>2, <1>b, <2>1, <2>2, <2>3, <2>4, <2>5 DEF Vault!TypeOK
  <2>7. \A q \in Packages : \A i \in 1 .. 4 :
          vault[q][Vault!Order[i]] = "whole" => vault'[q][Vault!Order[i]] = "whole"
    BY <2>1, <2>2, Ordered
  <2>8. ~Vault!Appending(t) => \A i \in 1 .. 4 : i < step[t] + 1 =>
          vault'[p][Vault!Order[i]] = "whole"
    BY <1>1, <2>1, <2>2, <2>7, Ordered
  <2>9. ASSUME NEW q \in Packages, vault'[q]["metadata"] = "whole",
               vault[q]["metadata"] # "whole", NEW r \in Vault!Media
        PROVE  vault'[q][r] = "whole"
    <3>1. q = p /\ o = Vault!Order[4]
      BY <2>2, <2>9, Ordered
    <3>2. ~Vault!Appending(t) /\ step[t] = 4
      BY <1>1, <3>1, Ordered
    <3> QED BY <2>8, <3>1, <3>2, Ordered
  <2>10. Ingesting(t)' => Placed(t)'
    <3>1. CASE Vault!Appending(t)
      BY <2>3, <3>1 DEF Ingesting
    <3>2. CASE ~Vault!Appending(t)
      <4>1. step[t] \in 1 .. 5 /\ step'[t] = step[t] + 1 /\ pkg'[t] = p
        BY <1>1, <2>1, <2>3, <3>2
      <4>2. pc'[t] = IF step[t] = 5 THEN "record" ELSE "put"
        BY <2>3, <3>2
      <4>3. \A i \in 1 .. 4 : i < step'[t] => vault'[pkg'[t]][Vault!Order[i]] = "whole"
        BY <2>8, <3>2, <4>1
      <4>4. /\ pc'[t] \in {"put", "write"} => step'[t] \in 1 .. 5
            /\ pc'[t] = "record" => step'[t] = 6
        BY <4>1, <4>2
      <4> QED BY <4>3, <4>4 DEF Placed
    <3> QED BY <3>1, <3>2
  <2>11. Carried(t)'
    BY <1>1, <2>1, <2>3 DEF Carried, Vault!Appending
  <2> QED BY <2>1, <2>3, <2>6, <2>7, <2>9, <2>10, <2>11, WholeStays
<1> QED BY <1>3, <1>4, <1>5

\* The other steps: the start of an ingestion, its commit, and the requests that
\* append to a chain of custody.
LEMMA RequestStep ==
  ASSUME Vault!VaultAssumption, VaultInv, NEW t \in Writers,
         driver' = driver, mixed' \subseteq Packages,
         \/ Vault!Record(t) \/ Vault!CommitFails(t) \/ Vault!ReadTrail(t)
         \/ Vault!TrailBroken(t) \/ Vault!ReadFails(t) \/ Vault!LogAccess(t)
         \/ \E p \in Packages : Vault!Ingest(t, p) \/ \E e \in Events : Vault!AppendEvent(t, p, e)
  PROVE  VaultInv'
<1>1. Vault!TypeOK
  BY DEF VaultInv
<1>2. pkg[t] \in Packages /\ event[t] \in Events \union {Sealed}
  BY <1>1 DEF Vault!TypeOK
<1>3. CASE Vault!Record(t) \/ Vault!CommitFails(t) \/ Vault!TrailBroken(t)
  <2>1. /\ Vault!Goto(t, "idle") /\ records' \in {records, records \union {pkg[t]}}
        /\ records' # records => pc[t] = "record"
        /\ UNCHANGED <<vault, trail, accesses, used, pkg, step, event, copy, crashes,
                       readFaults, ledger>>
    BY <1>3 DEF Vault!Record, Vault!CommitFails, Vault!TrailBroken, Vault!local,
                Vault!stored
  <2>2. Vault!TypeOK'
    BY <1>1, <1>2, <2>1, Leaves DEF Vault!TypeOK
  <2>3. \A q \in records' \ records : \A i \in 1 .. 4 : vault[q][Vault!Order[i]] = "whole"
    <3> SUFFICES ASSUME NEW q \in records' \ records
                 PROVE  \A i \in 1 .. 4 : vault[q][Vault!Order[i]] = "whole"
      OBVIOUS
    <3>1. q = pkg[t] /\ pc[t] = "record"
      BY <2>1
    <3> QED BY <3>1 DEF VaultInv, Ingesting, Placed
  <2> QED BY <2>1, <2>2, <2>3, Leaves, VaultKept
<1>4. CASE Vault!LogAccess(t)
  <2>1. /\ Vault!Goto(t, "idle") /\ pc[t] = "log access"
        /\ accesses' = accesses \union {[pkg |-> pkg[t], event |-> event[t]]}
        /\ UNCHANGED <<vault, trail, records, used, pkg, step, event, copy, crashes,
                       readFaults, ledger>>
    BY <1>4 DEF Vault!LogAccess, Vault!local
  <2>2. event[t] \in Events
    BY <2>1 DEF VaultInv, Carried
  <2>3. accesses' \subseteq [pkg : Packages, event : Events]
    <3>1. [pkg |-> pkg[t], event |-> event[t]] \in [pkg : Packages, event : Events]
      BY <1>2, <2>2
    <3>2. accesses \subseteq [pkg : Packages, event : Events]
      BY <1>1 DEF Vault!TypeOK
    <3> QED BY <2>1, <3>1, <3>2
  <2>4. Vault!TypeOK'
    BY <1>1, <2>1, <2>3, Leaves DEF Vault!TypeOK
  <2> QED BY <2>1, <2>4, Leaves, VaultKept
<1>5. CASE Vault!ReadTrail(t) \/ Vault!ReadFails(t)
  <2>1. PICK entries \in Seq(Events \union {Sealed}) : Vault!StartFrom(t, entries)
    <3>1. CASE Vault!ReadFails(t)
      <4>1. <<>> \in Seq(Events \union {Sealed})
        OBVIOUS
      <4> QED BY <3>1, <4>1 DEF Vault!ReadFails
    <3>2. CASE Vault!ReadTrail(t)
      BY <1>1, <1>2, <3>2 DEF Vault!ReadTrail, Vault!TypeOK
    <3> QED BY <1>5, <3>1, <3>2
  <2>2. UNCHANGED <<vault, trail, records, accesses, used, pkg, step, event, crashes,
                    ledger>>
    BY <1>5 DEF Vault!ReadTrail, Vault!ReadFails, Vault!stored
  <2>a. readFaults' \in 0 .. MaxReadFaults
    <3>1. readFaults \in 0 .. MaxReadFaults /\ MaxReadFaults \in Nat
      BY <1>1 DEF Vault!VaultAssumption, Vault!TypeOK
    <3>2. \/ readFaults' = readFaults
          \/ readFaults < MaxReadFaults /\ readFaults' = readFaults + 1
      BY <1>5 DEF Vault!ReadTrail, Vault!ReadFails
    <3> QED BY <3>1, <3>2
  <2>3. /\ copy' = [copy EXCEPT ![t] = Append(entries, event[t])]
        /\ Vault!Goto(t, "append")
    BY <2>1 DEF Vault!StartFrom
  <2>4. /\ Append(entries, event[t]) \in Seq(Events \union {Sealed})
        /\ Append(entries, event[t]) # <<>>
    BY <1>2
  <2>5. /\ copy' \in [Writers -> Seq(Events \union {Sealed})] /\ copy'[t] # <<>>
        /\ \A u \in Writers \ {t} : copy'[u] = copy[u]
    BY <1>1, <2>3, <2>4 DEF Vault!TypeOK
  <2>b. event'[t] \in Events
    BY <1>5, <2>2 DEF Vault!ReadTrail, Vault!ReadFails, VaultInv, Carried
  <2>c. /\ pc' \in [Writers -> {"idle", "put", "write", "record", "read", "append",
                                "append write", "log access"}]
        /\ \A u \in Writers \ {t} : pc'[u] = pc[u]
        /\ ~Ingesting(t)' /\ Carried(t)'
    BY <2>3, <2>5, <2>b, Leaves
  <2>6. Vault!TypeOK'
    BY <1>1, <2>2, <2>a, <2>5, <2>c DEF Vault!TypeOK
  <2> QED BY <2>2, <2>5, <2>6, <2>c, VaultKept
<1>6. ASSUME NEW p \in Packages, NEW e \in Events, Vault!AppendEvent(t, p, e)
      PROVE  VaultInv'
  <2>1. /\ Vault!Goto(t, "read") /\ pkg' = [pkg EXCEPT ![t] = p]
        /\ event' = [event EXCEPT ![t] = e] /\ used' = used \union {p, e}
        /\ UNCHANGED <<vault, trail, records, accesses, step, copy, crashes, readFaults,
                       ledger>>
    BY <1>6 DEF Vault!AppendEvent, Vault!stored
  <2>a. /\ pc' \in [Writers -> {"idle", "put", "write", "record", "read", "append",
                                "append write", "log access"}]
        /\ \A u \in Writers \ {t} : pc'[u] = pc[u]
        /\ ~Ingesting(t)' /\ Carried(t)'
    <3>1. event'[t] \in Events
      BY <1>1, <2>1 DEF Vault!TypeOK
    <3> QED BY <2>1, <3>1, Leaves
  <2>2. Vault!TypeOK'
    BY <1>1, <2>1, <2>a DEF Vault!TypeOK
  <2>3. \A u \in Writers \ {t} : pkg'[u] = pkg[u] /\ event'[u] = event[u]
    BY <1>1, <2>1 DEF Vault!TypeOK
  <2> QED BY <2>1, <2>2, <2>3, <2>a, WholeStays
<1>7. ASSUME NEW p \in Packages, Vault!Ingest(t, p)
      PROVE  VaultInv'
  <2>1. /\ Vault!Goto(t, "put") /\ pkg' = [pkg EXCEPT ![t] = p]
        /\ event' = [event EXCEPT ![t] = Sealed] /\ used' = used \union {p}
        /\ step' = [step EXCEPT ![t] = 1] /\ copy' = [copy EXCEPT ![t] = <<Sealed>>]
        /\ UNCHANGED <<vault, trail, records, accesses, crashes, readFaults, ledger>>
    BY <1>7 DEF Vault!Ingest, Vault!stored
  <2>2. /\ pc' \in [Writers -> {"idle", "put", "write", "record", "read", "append",
                                "append write", "log access"}]
        /\ \A u \in Writers \ {t} : pc'[u] = pc[u]
        /\ pc'[t] = "put"
    BY <1>1, <2>1 DEF Vault!TypeOK, Vault!Goto
  <2>3. <<Sealed>> \in Seq(Events \union {Sealed}) /\ <<Sealed>> # <<>>
    OBVIOUS
  <2>4. 1 \in 1 .. Len(Vault!Order) + 1
    BY Ordered
  <2>5. /\ copy' \in [Writers -> Seq(Events \union {Sealed})] /\ copy'[t] # <<>>
        /\ step' \in [Writers -> 1 .. Len(Vault!Order) + 1] /\ step'[t] = 1
        /\ pkg' \in [Writers -> Packages] /\ event' \in [Writers -> Events \union {Sealed}]
        /\ \A u \in Writers \ {t} : /\ copy'[u] = copy[u] /\ pkg'[u] = pkg[u]
                                    /\ step'[u] = step[u] /\ event'[u] = event[u]
    BY <1>1, <2>1, <2>3, <2>4 DEF Vault!TypeOK
  <2>a. used' \subseteq Packages \union Events
    BY <1>1, <2>1 DEF Vault!TypeOK
  <2>6. Vault!TypeOK'
    <3>1. UNCHANGED <<vault, trail, records, accesses, crashes, readFaults, ledger>>
      BY <2>1
    <3> QED BY <1>1, <2>2, <2>5, <2>a, <3>1 DEF Vault!TypeOK
  <2>7. Placed(t)'
    <3>1. pc'[t] = "put" /\ step'[t] = 1
      BY <2>2, <2>5
    <3> QED BY <3>1 DEF Placed
  <2>8. Carried(t)'
    BY <2>2, <2>5 DEF Carried
  <2> QED BY <2>1, <2>2, <2>5, <2>6, <2>7, <2>8, WholeStays
<1> QED BY <1>3, <1>4, <1>5, <1>6, <1>7

\* Every step of the vault keeps its invariant.
LEMMA VaultStep ==
  ASSUME Vault!VaultAssumption, VaultInv, [Vault!Next]_(Vault!vars) PROVE VaultInv'
<1>1. CASE UNCHANGED Vault!vars
  <2>1. UNCHANGED <<vault, trail, records, accesses, used, pc, pkg, step, event, copy,
                    crashes, readFaults, ledger, driver, mixed>>
    BY <1>1 DEF Vault!vars, Vault!stored, Vault!local
  <2>2. Vault!TypeOK'
    BY <2>1 DEF VaultInv, Vault!TypeOK
  <2>3. Vault!RecordBacked'
    BY <2>1 DEF VaultInv, Vault!RecordBacked, Vault!Verdict
  <2>4. \A t \in Writers : (Ingesting(t)' => Placed(t)') /\ Carried(t)'
    BY <2>1 DEF VaultInv, Ingesting, Placed, Carried
  <2> QED BY <2>1, <2>2, <2>3, <2>4 DEF VaultInv
<1>2. CASE Vault!Crash /\ UNCHANGED <<driver, mixed>>
  <2>1. /\ crashes' \in 0 .. MaxCrashes /\ pc' = [t \in Writers |-> "idle"]
        /\ UNCHANGED <<vault, trail, records, accesses, used, pkg, step, event, copy,
                       readFaults, ledger, driver, mixed>>
    <3>1. crashes \in 0 .. MaxCrashes /\ MaxCrashes \in Nat
      BY DEF VaultInv, Vault!TypeOK, Vault!VaultAssumption
    <3> QED BY <1>2, <3>1 DEF Vault!Crash, Vault!stored, Vault!local
  <2>2. Vault!TypeOK'
    BY <2>1 DEF VaultInv, Vault!TypeOK
  <2>3. \A t \in Writers : ~Ingesting(t)' /\ Carried(t)'
    BY <2>1 DEF Ingesting, Carried
  <2> QED BY <2>1, <2>2, <2>3 DEF VaultInv, Vault!RecordBacked, Vault!Verdict
<1>3. ASSUME NEW t \in Writers, UNCHANGED <<driver, mixed>>,
             Vault!Step(t) \/ \E p \in Packages : Vault!Ingest(t, p)
      PROVE  VaultInv'
  <2>1. mixed' \subseteq Packages
    BY <1>3 DEF VaultInv, Vault!TypeOK
  <2> QED BY <1>3, <2>1, PutStep, RequestStep DEF Vault!Step
<1>4. ASSUME NEW t \in Writers, NEW p \in Packages, NEW e \in Events,
             Vault!AppendEvent(t, p, e), driver' = driver
      PROVE  VaultInv'
  <2>1. mixed' \subseteq Packages
    BY <1>4 DEF Vault!AppendEvent, VaultInv, Vault!TypeOK
  <2> QED BY <1>4, <2>1, RequestStep
<1> QED BY <1>1, <1>2, <1>3, <1>4 DEF Vault!Next

\* The vault is empty at first.
LEMMA VaultStart == ASSUME Vault!VaultAssumption, Vault!Init PROVE VaultInv
<1>1. (CHOOSE p \in Packages : TRUE) \in Packages
  BY DEF Vault!VaultAssumption
<1>2. 1 \in 1 .. Len(Vault!Order) + 1 /\ Vault!Custody \in Vault!Objects
  BY Ordered
<1>3. Vault!TypeOK
  BY <1>1, <1>2 DEF Vault!VaultAssumption, Vault!Init, Vault!TypeOK, Vault!Contents
<1>4. \A p \in Packages : vault[p]["metadata"] # "whole"
  BY DEF Vault!Init, Vault!Objects
<1> QED BY <1>3, <1>4 DEF Vault!Init, VaultInv, Ingesting, Carried, Vault!RecordBacked

-----------------------------------------------------------------------------
(* The chain of custody over the object store.  Reading a trail and writing *)
(* it back are two steps, so the promise is about packages that no two       *)
(* requests worked on at the same time (`mixed` has the others): the        *)
(* appends of such a package follow one another, and each writes what the   *)
(* last one left and its own event.                                         *)

Holds(p, e) == \E i \in DOMAIN trail[p] : trail[p][i] = e

\* An append that has read the trail carries all of it, and its event last.
Faithful(t) ==
  /\ pc[t] = "append" => copy[t] = Append(trail[pkg[t]], event[t])
  /\ pc[t] = "log access" => Holds(pkg[t], event[t])

CustodyInv ==
  /\ VaultInv
  /\ ~Vault!LocalDriver
  /\ ledger = trail
  /\ \A t \in Writers : pc[t] \notin {"write", "append write"}
  /\ \A t \in Writers : pc[t] # "idle" => pkg[t] \in used
  /\ \A t, u \in Writers :
       t # u /\ pc[t] # "idle" /\ pc[u] # "idle" /\ pkg[t] = pkg[u] => pkg[t] \in mixed
  /\ \A t \in Writers : pc[t] = "put" /\ pkg[t] \notin mixed => trail[pkg[t]] = <<>>
  /\ \A p \in Packages \ used : trail[p] = <<>>
  /\ readFaults = 0 => /\ \A a \in accesses : a.pkg \in mixed \/ Holds(a.pkg, a.event)
                       /\ \A t \in Writers : pkg[t] \in mixed \/ Faithful(t)

\* The steps of t that leave every trail alone.
LEMMA TrailsKept ==
  ASSUME CustodyInv, VaultInv', NEW t \in Writers, UNCHANGED <<driver, trail, ledger>>,
         used \subseteq used', mixed \subseteq mixed', readFaults' = 0 => readFaults = 0,
         \A u \in Writers \ {t} : /\ pc'[u] = pc[u] /\ pkg'[u] = pkg[u]
                                  /\ event'[u] = event[u] /\ copy'[u] = copy[u],
         readFaults' = 0 => \A a \in accesses' \ accesses : a.pkg \in mixed \/ Holds(a.pkg, a.event),
         pc'[t] \notin {"write", "append write"},
         pc'[t] # "idle" => pkg'[t] \in used',
         pc'[t] # "idle" => \A u \in Writers \ {t} :
           pc[u] # "idle" /\ pkg[u] = pkg'[t] => pkg[u] \in mixed',
         pc'[t] = "put" /\ pkg'[t] \notin mixed => trail[pkg'[t]] = <<>>,
         readFaults' = 0 => pkg'[t] \in mixed \/ Faithful(t)'
  PROVE  CustodyInv'
<1>1. \A p, e : Holds(p, e)' <=> Holds(p, e)
  BY DEF Holds
<1>2. /\ ledger' = trail' /\ ~Vault!LocalDriver'
      /\ \A u \in Writers : pc'[u] \notin {"write", "append write"}
      /\ \A u \in Writers : pc'[u] # "idle" => pkg'[u] \in used'
      /\ \A u \in Writers : pc'[u] = "put" /\ pkg'[u] \notin mixed' => trail'[pkg'[u]] = <<>>
      /\ \A p \in Packages \ used' : trail'[p] = <<>>
  <2>1. ledger' = trail' /\ ~Vault!LocalDriver'
    BY DEF CustodyInv, Vault!LocalDriver
  <2>2. \A u \in Writers : pc'[u] \notin {"write", "append write"}
    BY DEF CustodyInv
  <2>3. \A u \in Writers : pc'[u] # "idle" => pkg'[u] \in used'
    BY DEF CustodyInv
  <2>4. ASSUME NEW u \in Writers, pc'[u] = "put", pkg'[u] \notin mixed'
        PROVE  trail'[pkg'[u]] = <<>>
    <3>1. CASE u = t
      BY <2>4, <3>1
    <3>2. CASE u # t
      <4>1. pc[u] = "put" /\ pkg'[u] = pkg[u] /\ pkg[u] \notin mixed
        BY <2>4, <3>2
      <4> QED BY <4>1 DEF CustodyInv
    <3> QED BY <3>1, <3>2
  <2>5. \A p \in Packages \ used' : trail'[p] = <<>>
    BY DEF CustodyInv
  <2> QED BY <2>1, <2>2, <2>3, <2>4, <2>5
<1>3. ASSUME readFaults' = 0, NEW a \in accesses'
      PROVE  a.pkg \in mixed' \/ Holds(a.pkg, a.event)'
  <2>1. a.pkg \in mixed \/ Holds(a.pkg, a.event)
    BY <1>3 DEF CustodyInv
  <2> QED BY <2>1 DEF Holds
<1>4. ASSUME readFaults' = 0, NEW u \in Writers
      PROVE  pkg'[u] \in mixed' \/ Faithful(u)'
  <2>1. CASE u = t
    BY <1>4, <2>1
  <2>2. CASE u # t
    <3>1. pkg[u] \in mixed \/ Faithful(u)
      BY <1>4 DEF CustodyInv
    <3>2. /\ pc'[u] = pc[u] /\ pkg'[u] = pkg[u] /\ event'[u] = event[u]
          /\ copy'[u] = copy[u] /\ trail' = trail
      BY <2>2
    <3> QED BY <1>1, <3>1, <3>2 DEF Faithful
  <2> QED BY <2>1, <2>2
<1>5. ASSUME NEW u \in Writers, NEW v \in Writers, u # v, pc'[u] # "idle", pc'[v] # "idle",
             pkg'[u] = pkg'[v]
      PROVE  pkg'[u] \in mixed'
  <2>1. CASE u = t
    BY <1>5, <2>1
  <2>2. CASE v = t
    BY <1>5, <2>2
  <2>3. CASE u # t /\ v # t
    <3>1. pc[u] # "idle" /\ pc[v] # "idle" /\ pkg[u] = pkg[v] /\ pkg'[u] = pkg[u]
      BY <1>5, <2>3
    <3>2. pkg[u] \in mixed
      BY <1>5, <3>1 DEF CustodyInv
    <3> QED BY <3>1, <3>2
  <2> QED BY <2>1, <2>2, <2>3
<1> QED BY <1>2, <1>3, <1>4, <1>5 DEF CustodyInv

\* The empty sequence and the sequence itself are prefixes of a sequence.
LEMMA Itself ==
  ASSUME NEW q \in Seq(Events \union {Sealed})
  PROVE  Vault!IsPrefix(q, q) /\ Vault!IsPrefix(<<>>, q) /\ DOMAIN <<>> = {}
BY DEF Vault!IsPrefix

\* One sequence continues another by one element.
Adds(longer, q, e) == longer = Append(q, e)
InSeq(q, e) == \E i \in DOMAIN q : q[i] = e

LEMMA Continues ==
  ASSUME NEW q \in Seq(Events \union {Sealed}), NEW e \in Events \union {Sealed},
         NEW longer \in Seq(Events \union {Sealed}), Adds(longer, q, e)
  PROVE  /\ Vault!IsPrefix(q, longer)
         /\ \A i \in DOMAIN q : i \in DOMAIN longer /\ longer[i] = q[i]
         /\ InSeq(longer, e)
<1>1. SubSeq(q, 1, Len(q)) = SubSeq(Append(q, e), 1, Len(q))
  OBVIOUS
<1>2. Len(q) + 1 \in DOMAIN longer /\ longer[Len(q) + 1] = e
  BY DEF Adds
<1> QED BY <1>1, <1>2 DEF Vault!IsPrefix, Adds, InSeq

\* The object store replaces a chain of custody by the trail that t carries, which
\* continues it.
LEMMA TrailWritten ==
  ASSUME CustodyInv, VaultInv', UNCHANGED <<driver, mixed>>, NEW t \in Writers, Vault!Putting(t),
         Vault!Object(t) = Vault!Custody, readFaults' = readFaults,
         trail' = [trail EXCEPT ![pkg[t]] = copy[t]],
         ledger' = [ledger EXCEPT ![pkg[t]] = copy[t]],
         \A u \in Writers \ {t} : pc'[u] = pc[u],
         pc[t] = "append" => pc'[t] = "log access", pc[t] = "put" => pc'[t] = "record",
         UNCHANGED <<records, accesses, used, pkg, event, copy>>
  PROVE  CustodyInv' /\ Vault!TrailGrows
<1>1. /\ pkg[t] \in Packages /\ pkg[t] \in used /\ pc[t] \in {"put", "append"}
      /\ copy[t] \in Seq(Events \union {Sealed}) /\ event[t] \in Events \union {Sealed}
      /\ trail \in [Packages -> Seq(Events \union {Sealed})] /\ ledger = trail
      /\ accesses \subseteq [pkg : Packages, event : Events]
      /\ pkg \in [Writers -> Packages]
  BY DEF CustodyInv, VaultInv, Vault!TypeOK, Vault!Putting
<1>2. trail'[pkg[t]] = copy[t] /\ \A p \in Packages \ {pkg[t]} : trail'[p] = trail[p]
  BY <1>1
<1>3. readFaults = 0 /\ pkg[t] \notin mixed =>
        copy[t] = Append(trail[pkg[t]], event[t]) \/ trail[pkg[t]] = <<>>
  BY <1>1 DEF CustodyInv, Faithful
<1>4. ASSUME readFaults = 0, NEW p \in Packages \ mixed
      PROVE  /\ Vault!IsPrefix(trail[p], trail'[p])
             /\ \A i \in DOMAIN trail[p] : i \in DOMAIN trail'[p] /\ trail'[p][i] = trail[p][i]
  <2>1. CASE p # pkg[t]
    <3>1. trail[p] \in Seq(Events \union {Sealed}) /\ trail'[p] = trail[p]
      BY <1>1, <1>2, <2>1
    <3> QED BY <3>1, Itself
  <2>2. CASE p = pkg[t] /\ trail[p] = <<>>
    <3>1. Vault!IsPrefix(<<>>, copy[t]) /\ DOMAIN trail[p] = {}
      BY <1>1, <2>2, Itself
    <3> QED BY <1>2, <2>2, <3>1
  <2>3. CASE p = pkg[t] /\ copy[t] = Append(trail[p], event[t])
    <3>1. trail[p] \in Seq(Events \union {Sealed}) /\ trail'[p] = Append(trail[p], event[t])
      BY <1>1, <1>2, <2>3
    <3>2. /\ event[t] \in Events \union {Sealed} /\ Adds(trail'[p], trail[p], event[t])
          /\ trail'[p] \in Seq(Events \union {Sealed})
      BY <1>1, <1>2, <3>1 DEF Adds
    <3>3. trail[p] \in Seq(Events \union {Sealed})
      BY <3>1
    <3> HIDE <2>3
    <3> QED BY <3>2, <3>3, Continues
  <2> QED BY <1>3, <1>4, <2>1, <2>2, <2>3
<1>5. Vault!TrailGrows
  BY <1>1, <1>4 DEF Vault!TrailGrows
<1>6. ASSUME readFaults = 0, NEW p \in Packages \ mixed, NEW e, Holds(p, e)
      PROVE  \E i \in DOMAIN trail'[p] : trail'[p][i] = e
  BY <1>4, <1>6 DEF Holds
<1>7. ASSUME readFaults' = 0, NEW a \in accesses', a.pkg \notin mixed'
      PROVE  Holds(a.pkg, a.event)'
  <2>1. Holds(a.pkg, a.event) /\ a.pkg \in Packages \ mixed
    BY <1>1, <1>7 DEF CustodyInv
  <2>2. PICK p \in Packages \ mixed, e \in {a.event} : p = a.pkg
    BY <2>1
  <2>3. Holds(p, e)
    BY <2>1, <2>2
  <2>4. \E i \in DOMAIN trail'[p] : trail'[p][i] = e
    BY <1>4, <1>7, <2>3 DEF Holds
  <2> QED BY <2>2, <2>4 DEF Holds
<1>a. ASSUME NEW u \in Writers \ {t}, pc[u] # "idle", pkg[u] \notin mixed
      PROVE  pkg[u] # pkg[t]
  BY <1>1, <1>a DEF CustodyInv
<1>8. ASSUME readFaults' = 0, NEW u \in Writers, pkg'[u] \notin mixed'
      PROVE  Faithful(u)'
  <2>1. Faithful(u) /\ readFaults = 0
    BY <1>8 DEF CustodyInv
  <2>2. CASE u = t
    <3>1. pc[t] = "append" => Holds(pkg[t], event[t])'
      <4> SUFFICES ASSUME pc[t] = "append"
                   PROVE  InSeq(copy[t], event[t])
        BY <1>1, <1>2 DEF Holds, InSeq
      <4>1. Adds(copy[t], trail[pkg[t]], event[t])
        BY <2>1, <2>2 DEF Faithful, Adds
      <4>2. /\ trail[pkg[t]] \in Seq(Events \union {Sealed})
            /\ copy[t] \in Seq(Events \union {Sealed}) /\ event[t] \in Events \union {Sealed}
        BY <1>1
      <4> QED BY <4>1, <4>2, Continues
    <3> QED BY <1>1, <2>2, <3>1 DEF Faithful, Holds
  <2>3. CASE u # t
    <3>1. pkg[u] \in Packages /\ pc'[u] = pc[u]
      BY <1>1, <2>3
    <3>2. pc[u] # "idle" => pkg[u] # pkg[t]
      BY <1>8, <1>a, <2>3
    <3>3. pc[u] = "append" => trail'[pkg[u]] = trail[pkg[u]]
      BY <1>2, <3>1, <3>2
    <3>4. pc[u] = "log access" => Holds(pkg[u], event[u])'
      <4> SUFFICES ASSUME pc[u] = "log access"
                   PROVE  \E i \in DOMAIN trail'[pkg[u]] : trail'[pkg[u]][i] = event[u]
        BY DEF Holds
      <4>1. trail'[pkg[u]] = trail[pkg[u]]
        BY <1>2, <3>1, <3>2
      <4> QED BY <2>1, <4>1 DEF Faithful, Holds
    <3> QED BY <2>1, <3>1, <3>3, <3>4 DEF Faithful, Holds
  <2> QED BY <2>2, <2>3
<1>9. ASSUME NEW u \in Writers, pc'[u] = "put", pkg'[u] \notin mixed'
      PROVE  trail'[pkg'[u]] = <<>>
  <2>1. u # t /\ pc[u] = "put" /\ pkg[u] \notin mixed
    BY <1>1, <1>9
  <2>2. pkg[u] # pkg[t] /\ pkg[u] \in Packages
    BY <1>1, <1>a, <2>1
  <2> QED BY <1>2, <2>1, <2>2 DEF CustodyInv
<1>10. \A p \in Packages \ used' : trail'[p] = <<>>
  BY <1>1, <1>2 DEF CustodyInv
<1>11. /\ ledger' = trail' /\ \A u \in Writers : pc'[u] \notin {"write", "append write"}
       /\ \A u \in Writers : pc'[u] # "idle" => pkg'[u] \in used'
       /\ ~Vault!LocalDriver'
       /\ \A u, v \in Writers : u # v /\ pc'[u] # "idle" /\ pc'[v] # "idle" /\ pkg'[u] = pkg'[v]
            => pkg'[u] \in mixed'
  BY <1>1 DEF CustodyInv, Vault!LocalDriver
<1> QED BY <1>5, <1>7, <1>8, <1>9, <1>10, <1>11 DEF CustodyInv

\* Every step over the object store keeps the chains of custody whole.
LEMMA CustodyStep ==
  ASSUME Vault!VaultAssumption, CustodyInv, [Vault!Next]_(Vault!vars)
  PROVE  CustodyInv' /\ Vault!TrailGrows
<1>1. VaultInv /\ VaultInv'
  BY VaultStep DEF CustodyInv
<1>2. /\ ledger \in [Packages -> Seq(Events \union {Sealed})]
      /\ trail \in [Packages -> Seq(Events \union {Sealed})]
      /\ pkg \in [Writers -> Packages]
      /\ \A p \in Packages : trail[p] # <<>> <=> vault[p][Vault!Custody] = "whole"
  BY <1>1 DEF VaultInv, Vault!TypeOK
<1>a. readFaults \in Nat
  <2>1. readFaults \in 0 .. MaxReadFaults /\ MaxReadFaults \in Nat
    BY <1>1 DEF VaultInv, Vault!TypeOK, Vault!VaultAssumption
  <2> QED BY <2>1
<1>7. /\ pkg \in [Writers -> Packages] /\ event \in [Writers -> Events \union {Sealed}]
      /\ copy \in [Writers -> Seq(Events \union {Sealed})]
  BY <1>1 DEF VaultInv, Vault!TypeOK
<1>3. ledger' = ledger => Vault!TrailGrows
  <2> SUFFICES ASSUME ledger' = ledger, NEW p \in Packages
               PROVE  Vault!IsPrefix(ledger[p], ledger[p])
    BY DEF Vault!TrailGrows
  <2> QED BY <1>2, Itself
<1>4. CASE UNCHANGED Vault!vars
  <2>1. UNCHANGED <<vault, trail, records, accesses, used, pc, pkg, step, event, copy,
                    crashes, readFaults, ledger, driver, mixed>>
    BY <1>4 DEF Vault!vars, Vault!stored, Vault!local
  <2>2. CustodyInv'
    BY <1>1, <2>1 DEF CustodyInv, Faithful, Holds, Vault!LocalDriver
  <2> QED BY <1>3, <2>1, <2>2
<1>5. CASE Vault!Crash /\ UNCHANGED <<driver, mixed>>
  <2>1. /\ pc' = [t \in Writers |-> "idle"]
        /\ UNCHANGED <<trail, accesses, used, readFaults, ledger>>
    BY <1>5 DEF Vault!Crash, Vault!stored
  <2>2. CustodyInv'
    BY <1>1, <1>5, <2>1 DEF CustodyInv, Faithful, Holds, Vault!LocalDriver
  <2> QED BY <1>3, <2>1, <2>2
<1>6. ASSUME NEW t \in Writers, driver' = driver,
             \/ /\ Vault!Step(t) \/ \E p \in Packages : Vault!Ingest(t, p)
                /\ UNCHANGED mixed
             \/ \E p \in Packages, e \in Events : Vault!AppendEvent(t, p, e)
      PROVE  CustodyInv' /\ Vault!TrailGrows
  <2>1. /\ pc \in [Writers -> {"idle", "put", "write", "record", "read", "append",
                               "append write", "log access"}]
        /\ \A u \in Writers \ {t} : pc[u] \notin {"write", "append write"}
        /\ pc[t] \notin {"write", "append write"}
        /\ pc[t] # "idle" => pkg[t] \in used
    BY <1>1 DEF VaultInv, Vault!TypeOK, CustodyInv
  <2>a. ~Vault!LocalDriver
    BY DEF CustodyInv
  <2>2. ~Vault!Open(t) /\ ~Vault!WriteOver(t)
    BY <2>a DEF Vault!Open, Vault!WriteOver
  <2>b. pc[t] # "idle" => \A u \in Writers \ {t} :
          pc[u] # "idle" /\ pkg[u] = pkg[t] => pkg[u] \in mixed
    BY DEF CustodyInv
  <2>3. CASE Vault!Write(t) /\ UNCHANGED mixed
    <3>1. Vault!Putting(t) /\ Vault!AfterPut(t) /\ UNCHANGED <<records, accesses, used,
            pkg, event, copy, readFaults>>
      BY <2>3, <2>a DEF Vault!Write, Vault!Writing
    <3>2. /\ \A u \in Writers \ {t} : pc'[u] = pc[u]
          /\ pc[t] = "append" => pc'[t] = "log access"
          /\ pc[t] = "put" => /\ step[t] \in 1 .. 5 /\ Vault!Object(t) = Vault!Order[step[t]]
                              /\ pc'[t] = IF step[t] = 5 THEN "record" ELSE "put"
      <4>1. CASE pc[t] = "append"
        BY <2>1, <3>1, <4>1 DEF Vault!AfterPut, Vault!Goto, Vault!Appending
      <4>2. CASE pc[t] = "put"
        <5>1. step[t] \in 1 .. 5
          BY <1>1, <4>2 DEF VaultInv, Ingesting, Placed
        <5>2. ~Vault!Appending(t)
          BY <4>2 DEF Vault!Appending
        <5> QED BY <2>1, <3>1, <4>2, <5>1, <5>2, Ordered
                DEF Vault!AfterPut, Vault!Goto, Vault!Object
      <4> QED BY <3>1, <4>1, <4>2 DEF Vault!Putting
    <3>3. CASE Vault!Object(t) = Vault!Custody
      <4>1. pc[t] = "put" => step[t] = 5
        BY <3>2, <3>3, Ordered
      <4> QED BY <1>1, <1>6, <2>3, <3>1, <3>2, <3>3, <4>1, TrailWritten DEF Vault!Write
    <3>4. CASE Vault!Object(t) # Vault!Custody
      <4>1. UNCHANGED <<trail, ledger>>
        BY <2>3, <3>4 DEF Vault!Write
      <4>2. pc[t] = "put" /\ pc'[t] \in {"put", "record"}
        BY <3>1, <3>2, <3>4 DEF Vault!Putting, Vault!Object, Vault!Appending
      <4>3. Faithful(t)'
        BY <4>2 DEF Faithful
      <4>4. pkg[t] \notin mixed => trail[pkg[t]] = <<>>
        BY <4>2 DEF CustodyInv
      <4>5. CustodyInv'
        BY <1>1, <1>6, <2>1, <2>3, <2>b, <3>1, <3>2, <4>1, <4>2, <4>3, <4>4, TrailsKept
      <4> QED BY <1>3, <4>1, <4>5
    <3> QED BY <3>3, <3>4
  <2>4. CASE /\ \/ Vault!PutFails(t) \/ Vault!Record(t) \/ Vault!CommitFails(t)
                \/ Vault!TrailBroken(t) \/ Vault!LogAccess(t)
             /\ UNCHANGED mixed
    <3>1. /\ Vault!Goto(t, "idle")
          /\ UNCHANGED <<trail, used, pkg, event, copy, readFaults, ledger>>
          /\ \/ accesses' = accesses
             \/ /\ pc[t] = "log access"
                /\ accesses' = accesses \union {[pkg |-> pkg[t], event |-> event[t]]}
      BY <2>4 DEF Vault!PutFails, Vault!Record, Vault!CommitFails, Vault!TrailBroken,
                  Vault!LogAccess, Vault!local, Vault!stored
    <3>2. pc'[t] = "idle" /\ \A u \in Writers \ {t} : pc'[u] = pc[u]
      BY <2>1, <3>1 DEF Vault!Goto
    <3>3. ASSUME readFaults' = 0, NEW a \in accesses' \ accesses
          PROVE  a.pkg \in mixed \/ Holds(a.pkg, a.event)
      <4>1. pkg[t] \in mixed \/ Holds(pkg[t], event[t])
        BY <3>1, <3>3 DEF CustodyInv, Faithful
      <4>2. a = [pkg |-> pkg[t], event |-> event[t]]
        BY <3>1, <3>3
      <4> QED BY <4>1, <4>2 DEF Holds
    <3>4. Faithful(t)'
      BY <3>2 DEF Faithful
    <3>5. CustodyInv'
      BY <1>1, <1>6, <2>4, <3>1, <3>2, <3>3, <3>4, TrailsKept
    <3> QED BY <1>3, <3>1, <3>5
  <2>5. CASE (Vault!ReadTrail(t) \/ Vault!ReadFails(t)) /\ UNCHANGED mixed
    <3>1. /\ pc[t] = "read" /\ UNCHANGED <<trail, accesses, used, pkg, event, ledger>>
          /\ copy' = [copy EXCEPT ![t] = copy'[t]]
          /\ Vault!Goto(t, "append")
          /\ readFaults' = 0 => readFaults = 0
      <4>1. copy \in [Writers -> Seq(Events \union {Sealed})]
        BY <1>1 DEF VaultInv, Vault!TypeOK
      <4> QED BY <1>a, <2>5, <4>1
              DEF Vault!ReadTrail, Vault!ReadFails, Vault!stored, Vault!StartFrom
    <3>2. /\ pc'[t] = "append" /\ \A u \in Writers \ {t} : pc'[u] = pc[u]
          /\ \A u \in Writers \ {t} : copy'[u] = copy[u]
      BY <1>7, <2>1, <3>1 DEF Vault!Goto
    <3>3. ASSUME readFaults' = 0
          PROVE  Faithful(t)'
      <4>1. Vault!ReadTrail(t)
        BY <1>a, <2>5, <3>3 DEF Vault!ReadFails
      <4>2. copy'[t] = Append(IF vault[pkg[t]][Vault!Custody] = "whole"
                              THEN trail[pkg[t]] ELSE <<>>, event[t])
        BY <1>1, <4>1 DEF Vault!ReadTrail, Vault!StartFrom, VaultInv, Vault!TypeOK
      <4>3. copy'[t] = Append(trail[pkg[t]], event[t])
        BY <1>2, <4>2
      <4> QED BY <3>1, <3>2, <4>3 DEF Faithful
    <3>4. CustodyInv'
      BY <1>1, <1>6, <2>1, <2>5, <2>b, <3>1, <3>2, <3>3, TrailsKept
    <3> QED BY <1>3, <3>1, <3>4
  <2>6. ASSUME NEW p \in Packages, NEW e \in Events, Vault!AppendEvent(t, p, e)
        PROVE  CustodyInv' /\ Vault!TrailGrows
    <3>1. /\ UNCHANGED <<trail, accesses, copy, readFaults, ledger>>
          /\ used' = used \union {p, e} /\ pkg' = [pkg EXCEPT ![t] = p]
          /\ event' = [event EXCEPT ![t] = e] /\ Vault!Goto(t, "read")
          /\ mixed' = mixed \union {p : u \in {v \in Writers : pc[v] # "idle" /\ pkg[v] = p}}
      BY <2>6 DEF Vault!AppendEvent, Vault!stored
    <3>2. /\ pc'[t] = "read" /\ pkg'[t] = p
          /\ \A u \in Writers \ {t} : /\ pc'[u] = pc[u] /\ pkg'[u] = pkg[u]
                                      /\ event'[u] = event[u]
      BY <1>7, <2>1, <3>1 DEF Vault!Goto
    <3>3. Faithful(t)'
      BY <3>2 DEF Faithful
    <3>a. used \subseteq used' /\ p \in used' /\ mixed \subseteq mixed'
      BY <3>1
    <3>b. \A u \in Writers \ {t} : pc[u] # "idle" /\ pkg[u] = pkg'[t] => pkg[u] \in mixed'
      BY <3>1, <3>2
    <3>c. UNCHANGED <<driver, trail, ledger, accesses, readFaults, copy>>
      BY <1>6, <3>1
    <3> HIDE <3>1, <2>6
    <3>4. CustodyInv'
      BY <1>1, <3>2, <3>3, <3>a, <3>b, <3>c, TrailsKept
    <3> QED BY <1>3, <3>c, <3>4
  <2>7. ASSUME NEW p \in Packages, Vault!Ingest(t, p), UNCHANGED mixed
        PROVE  CustodyInv' /\ Vault!TrailGrows
    <3>1. /\ UNCHANGED <<trail, accesses, readFaults, ledger>> /\ p \notin used
          /\ used' = used \union {p} /\ pkg' = [pkg EXCEPT ![t] = p]
          /\ event' = [event EXCEPT ![t] = Sealed]
          /\ copy' = [copy EXCEPT ![t] = <<Sealed>>] /\ Vault!Goto(t, "put")
      BY <2>7 DEF Vault!Ingest, Vault!stored
    <3>2. /\ pc'[t] = "put" /\ pkg'[t] = p
          /\ \A u \in Writers \ {t} : /\ pc'[u] = pc[u] /\ pkg'[u] = pkg[u]
                                      /\ event'[u] = event[u] /\ copy'[u] = copy[u]
      BY <1>7, <2>1, <3>1 DEF Vault!Goto
    <3>3. Faithful(t)'
      BY <3>2 DEF Faithful
    <3>4. trail[p] = <<>>
      BY <3>1 DEF CustodyInv
    <3>a. used \subseteq used' /\ p \in used'
      BY <3>1
    <3>b. \A u \in Writers \ {t} : pc[u] # "idle" => pkg[u] # p
      BY <3>1 DEF CustodyInv
    <3>c. UNCHANGED <<driver, mixed, trail, ledger, accesses, readFaults>>
      BY <1>6, <2>7, <3>1
    <3> HIDE <3>1, <2>7
    <3>5. CustodyInv'
      BY <1>1, <3>2, <3>3, <3>4, <3>a, <3>b, <3>c, TrailsKept
    <3> QED BY <1>3, <3>c, <3>5
  <2> QED BY <1>6, <2>2, <2>3, <2>4, <2>5, <2>6, <2>7 DEF Vault!Step
<1> QED BY <1>4, <1>5, <1>6 DEF Vault!Next


-----------------------------------------------------------------------------
(* The watchlist cache.  A store may put back a list that was invalidated    *)
(* since it was read; it is still no older than the read, and the read no   *)
(* older than one round trip.                                                *)

\* l was the watchlist at some time since `from`.
Since(l, from) == \E j \in 0 .. now : j >= from /\ l \in current[j]

CacheInv ==
  /\ Cache!TypeOK
  /\ active \in current[now]
  /\ \A t \in Threads :
       /\ pc[t] = "store" => /\ started[t] <= readAt[t] /\ now <= readAt[t] + MaxIO
                             /\ list[t] \in current[readAt[t]]
       /\ pc[t] = "match" => Since(list[t], started[t] - Ttl - MaxIO)
  /\ \A p \in Hosts : cached[p] # {} => Since(cached[p], cacheTime[p] - MaxIO)

\* The steps of t that leave its list unmatched and every cache as it was or empty.
LEMMA CacheKept ==
  ASSUME Cache!CacheAssumption, CacheInv, Cache!TypeOK', NEW t \in Threads,
         now' = now, \A j \in 0 .. now : current[j] \subseteq current'[j],
         active' \in current'[now],
         \A u \in Threads \ {t} : /\ pc'[u] = pc[u] /\ started'[u] = started[u]
                                  /\ list'[u] = list[u] /\ readAt'[u] = readAt[u],
         \A p \in Hosts : \/ cached'[p] = {}
                          \/ cached'[p] = cached[p] /\ cacheTime'[p] = cacheTime[p]
                          \/ Since(cached'[p], cacheTime'[p] - MaxIO),
         pc'[t] = "store" => /\ started'[t] <= readAt'[t] /\ now <= readAt'[t] + MaxIO
                             /\ list'[t] \in current'[readAt'[t]],
         pc'[t] = "match" => Since(list'[t], started'[t] - Ttl - MaxIO)
  PROVE  CacheInv'
<1>1. /\ now \in Nat /\ Ttl \in Nat /\ MaxIO \in Nat /\ MaxTime \in Nat
      /\ \A u \in Threads : /\ started[u] \in 0 .. now /\ started'[u] \in 0 .. now
                            /\ readAt[u] \in 0 .. now
      /\ \A p \in Hosts : cacheTime[p] \in Int /\ cacheTime'[p] \in Int
  BY DEF CacheInv, Cache!TypeOK, Cache!CacheAssumption, Cache!Past
<1>2. ASSUME NEW u \in Threads, pc'[u] = "store"
      PROVE  /\ started'[u] <= readAt'[u] /\ now' <= readAt'[u] + MaxIO
             /\ list'[u] \in current'[readAt'[u]]
  <2>1. CASE u = t
    BY <1>2, <2>1
  <2>2. CASE u # t
    BY <1>1, <1>2, <2>2 DEF CacheInv
  <2> QED BY <2>1, <2>2
<1>3. ASSUME NEW u \in Threads, pc'[u] = "match"
      PROVE  Since(list[u], started[u] - Ttl - MaxIO)'
  <2>1. PICK l, from : l = list'[u] /\ from = started'[u] - Ttl - MaxIO
    OBVIOUS
  <2>2. from \in Int
    BY <1>1, <2>1
  <2>3. Since(l, from)
    <3>1. CASE u = t
      BY <1>3, <2>1, <3>1
    <3>2. CASE u # t
      BY <1>3, <2>1, <3>2 DEF CacheInv
    <3> QED BY <3>1, <3>2
  <2>4. \E j \in 0 .. now' : j >= from /\ l \in current'[j]
    BY <1>1, <2>2, <2>3 DEF Since
  <2> QED BY <2>1, <2>4 DEF Since
<1>4. ASSUME NEW p \in Hosts, cached'[p] # {}
      PROVE  Since(cached[p], cacheTime[p] - MaxIO)'
  <2>1. PICK l, from : l = cached'[p] /\ from = cacheTime'[p] - MaxIO
    OBVIOUS
  <2>2. from \in Int
    BY <1>1, <2>1
  <2>3. Since(l, from)
    BY <1>4, <2>1 DEF CacheInv
  <2>4. \E j \in 0 .. now' : j >= from /\ l \in current'[j]
    BY <1>1, <2>2, <2>3 DEF Since
  <2> QED BY <2>1, <2>4 DEF Since
<1> QED BY <1>2, <1>3, <1>4 DEF CacheInv

\* Every step of the cache keeps its invariant: time passes, or a thread acts.
LEMMA CacheStep ==
  ASSUME Cache!CacheAssumption, CacheInv, [Cache!Next]_(Cache!vars)
  PROVE  CacheInv'
<1>1. /\ Cache!TypeOK
      /\ now \in Nat /\ now <= MaxTime /\ Ttl \in Nat /\ MaxIO \in Nat /\ MaxTime \in Nat
      /\ MaxChanges \in Nat
      /\ \A t \in Threads : /\ started[t] \in 0 .. now /\ readAt[t] \in 0 .. now
                            /\ HostOf[t] \in Hosts /\ list[t] \subseteq Entries
      /\ \A p \in Hosts : cacheTime[p] \in Int /\ cached[p] \subseteq Entries
      /\ active \in current[now]
  BY DEF CacheInv, Cache!TypeOK, Cache!CacheAssumption, Cache!Past
<1>2. CASE UNCHANGED Cache!vars
  <2>1. UNCHANGED <<now, active, cached, cacheTime, pc, started, list, readAt, changes,
                    current>>
    BY <1>2 DEF Cache!vars
  <2> QED BY <2>1 DEF CacheInv, Since, Cache!TypeOK
<1>3. CASE Cache!Tick
  <2>1. /\ now < MaxTime /\ now' = now + 1
        /\ \A t \in Threads : pc[t] = "store" => now < readAt[t] + MaxIO
        /\ current' = [current EXCEPT ![now + 1] = {active}]
        /\ UNCHANGED <<active, cached, cacheTime, pc, started, list, readAt, changes>>
    BY <1>3 DEF Cache!Tick
  <2>2. now' \in 0 .. MaxTime /\ now' \in Nat /\ 0 .. now \subseteq 0 .. now'
    BY <1>1, <2>1
  <2>3. /\ current \in [0 .. MaxTime -> SUBSET SUBSET Entries]
        /\ {active} \in SUBSET SUBSET Entries
    BY <1>1 DEF Cache!TypeOK
  <2>4. /\ current' \in [0 .. MaxTime -> SUBSET SUBSET Entries]
        /\ \A j \in 0 .. now : current'[j] = current[j]
        /\ current'[now'] = {active}
    BY <1>1, <2>1, <2>2, <2>3
  <2>5. Cache!TypeOK'
    BY <1>1, <2>1, <2>2, <2>4 DEF Cache!TypeOK
  <2>6. ASSUME NEW l, NEW from \in Int, Since(l, from)
        PROVE  \E j \in 0 .. now' : j >= from /\ l \in current'[j]
    BY <2>2, <2>4, <2>6 DEF Since
  <2>7. ASSUME NEW t \in Threads, pc'[t] = "store"
        PROVE  /\ started'[t] <= readAt'[t] /\ now' <= readAt'[t] + MaxIO
               /\ list'[t] \in current'[readAt'[t]]
    BY <1>1, <2>1, <2>4, <2>7 DEF CacheInv
  <2>8. ASSUME NEW t \in Threads, pc'[t] = "match"
        PROVE  Since(list[t], started[t] - Ttl - MaxIO)'
    <3>1. PICK l, from : l = list[t] /\ from = started[t] - Ttl - MaxIO
      OBVIOUS
    <3>2. from \in Int /\ Since(l, from)
      BY <1>1, <2>1, <2>8, <3>1 DEF CacheInv
    <3>3. \E j \in 0 .. now' : j >= from /\ l \in current'[j]
      BY <2>6, <3>2
    <3> QED BY <2>1, <3>1, <3>3 DEF Since
  <2>9. ASSUME NEW p \in Hosts, cached'[p] # {}
        PROVE  Since(cached[p], cacheTime[p] - MaxIO)'
    <3>1. PICK l, from : l = cached[p] /\ from = cacheTime[p] - MaxIO
      OBVIOUS
    <3>2. from \in Int /\ Since(l, from)
      BY <1>1, <2>1, <2>9, <3>1 DEF CacheInv
    <3>3. \E j \in 0 .. now' : j >= from /\ l \in current'[j]
      BY <2>6, <3>2
    <3> QED BY <2>1, <3>1, <3>3 DEF Since
  <2> QED BY <2>1, <2>4, <2>5, <2>7, <2>8, <2>9 DEF CacheInv
<1>4. ASSUME NEW t \in Threads, Cache!Step(t)
      PROVE  CacheInv'
  <2> DEFINE Own == HostOf[t]
  <2>1. Own \in Hosts
    BY <1>1
  <2>2. CASE Cache!Hit(t)
    <3>1. /\ cached[Own] # {} /\ now - cacheTime[Own] < Ttl
          /\ started' = [started EXCEPT ![t] = now] /\ list' = [list EXCEPT ![t] = cached[Own]]
          /\ pc' = [pc EXCEPT ![t] = "match"]
          /\ UNCHANGED <<now, active, cached, cacheTime, readAt, changes, current>>
      BY <2>2 DEF Cache!Hit, Cache!Fresh, Cache!Own
    <3>2. Cache!TypeOK'
      BY <1>1, <2>1, <3>1 DEF Cache!TypeOK
    <3>3. Since(cached[Own], cacheTime[Own] - MaxIO)
      BY <2>1, <3>1 DEF CacheInv
    <3>4. Since(cached[Own], now - Ttl - MaxIO)
      BY <1>1, <2>1, <3>1, <3>3 DEF Since
    <3>5. /\ pc'[t] = "match" /\ list'[t] = cached[Own] /\ started'[t] = now
          /\ \A u \in Threads \ {t} : /\ pc'[u] = pc[u] /\ started'[u] = started[u]
                                      /\ list'[u] = list[u] /\ readAt'[u] = readAt[u]
      BY <1>1, <3>1 DEF Cache!TypeOK
    <3> QED BY <1>1, <3>1, <3>2, <3>4, <3>5, CacheKept
  <2>3. CASE Cache!Miss(t)
    <3>1. /\ started' = [started EXCEPT ![t] = now] /\ pc' = [pc EXCEPT ![t] = "read"]
          /\ UNCHANGED <<now, active, cached, cacheTime, list, readAt, changes, current>>
      BY <2>3 DEF Cache!Miss
    <3>2. Cache!TypeOK'
      BY <1>1, <3>1 DEF Cache!TypeOK
    <3>3. /\ pc'[t] = "read"
          /\ \A u \in Threads \ {t} : /\ pc'[u] = pc[u] /\ started'[u] = started[u]
                                      /\ list'[u] = list[u] /\ readAt'[u] = readAt[u]
      BY <1>1, <3>1 DEF Cache!TypeOK
    <3> QED BY <1>1, <3>1, <3>2, <3>3, CacheKept
  <2>4. CASE Cache!Read(t)
    <3>1. /\ list' = [list EXCEPT ![t] = active] /\ readAt' = [readAt EXCEPT ![t] = now]
          /\ pc' = [pc EXCEPT ![t] = "store"]
          /\ UNCHANGED <<now, active, cached, cacheTime, started, changes, current>>
      BY <2>4 DEF Cache!Read
    <3>2. Cache!TypeOK'
      BY <1>1, <3>1 DEF Cache!TypeOK
    <3>3. /\ pc'[t] = "store" /\ list'[t] = active /\ readAt'[t] = now
          /\ \A u \in Threads \ {t} : /\ pc'[u] = pc[u] /\ started'[u] = started[u]
                                      /\ list'[u] = list[u] /\ readAt'[u] = readAt[u]
      BY <1>1, <3>1 DEF Cache!TypeOK
    <3>4. started'[t] <= readAt'[t] /\ now <= readAt'[t] + MaxIO
      BY <1>1, <3>1, <3>3
    <3> QED BY <1>1, <3>1, <3>2, <3>3, <3>4, CacheKept
  <2>5. CASE Cache!Store(t)
    <3>1. /\ pc[t] = "store"
          /\ cached' = [cached EXCEPT ![Own] = list[t]]
          /\ cacheTime' = [cacheTime EXCEPT ![Own] = now]
          /\ pc' = [pc EXCEPT ![t] = "match"]
          /\ UNCHANGED <<now, active, started, list, readAt, changes, current>>
      BY <2>5 DEF Cache!Store, Cache!Own
    <3>2. Cache!TypeOK'
      BY <1>1, <2>1, <3>1 DEF Cache!TypeOK, Cache!Past
    <3>3. /\ pc'[t] = "match" /\ cached'[Own] = list[t] /\ cacheTime'[Own] = now
          /\ \A p \in Hosts \ {Own} : cached'[p] = cached[p] /\ cacheTime'[p] = cacheTime[p]
          /\ \A u \in Threads \ {t} : pc'[u] = pc[u]
      BY <1>1, <2>1, <3>1 DEF Cache!TypeOK
    <3>4. /\ started[t] <= readAt[t] /\ now <= readAt[t] + MaxIO
          /\ list[t] \in current[readAt[t]]
      BY <3>1 DEF CacheInv
    <3>5. Since(list[t], now - MaxIO) /\ Since(list[t], started[t] - Ttl - MaxIO)
      BY <1>1, <3>4 DEF Since
    <3>6. \A p \in Hosts : \/ cached'[p] = cached[p] /\ cacheTime'[p] = cacheTime[p]
                           \/ Since(cached'[p], cacheTime'[p] - MaxIO)
      BY <3>3, <3>5
    <3> QED BY <1>1, <3>1, <3>2, <3>3, <3>5, <3>6, CacheKept
  <2>6. CASE Cache!Matched(t)
    <3>1. /\ pc' = [pc EXCEPT ![t] = "idle"] /\ started' = [started EXCEPT ![t] = 0]
          /\ list' = [list EXCEPT ![t] = {}] /\ readAt' = [readAt EXCEPT ![t] = 0]
          /\ UNCHANGED <<now, active, cached, cacheTime, changes, current>>
      BY <2>6 DEF Cache!Matched
    <3>2. Cache!TypeOK'
      BY <1>1, <3>1 DEF Cache!TypeOK
    <3>3. /\ pc'[t] = "idle"
          /\ \A u \in Threads \ {t} : /\ pc'[u] = pc[u] /\ started'[u] = started[u]
                                      /\ list'[u] = list[u] /\ readAt'[u] = readAt[u]
      BY <1>1, <3>1 DEF Cache!TypeOK
    <3> QED BY <1>1, <3>1, <3>2, <3>3, CacheKept
  <2>7. CASE Cache!Change(t)
    <3>1. /\ changes < MaxChanges /\ changes' = changes + 1
          /\ active' \subseteq Entries
          /\ current' = [current EXCEPT ![now] = @ \union {active'}]
          /\ pc' = [pc EXCEPT ![t] = "invalidate"]
          /\ UNCHANGED <<now, cached, cacheTime, started, list, readAt>>
      BY <1>1, <2>7 DEF Cache!Change, Cache!TypeOK
    <3>2. /\ current \in [0 .. MaxTime -> SUBSET SUBSET Entries] /\ now \in 0 .. MaxTime
          /\ changes' \in 0 .. MaxChanges
      BY <1>1, <3>1 DEF Cache!TypeOK
    <3>3. current[now] \union {active'} \in SUBSET SUBSET Entries
      BY <3>1, <3>2
    <3>4. /\ current' \in [0 .. MaxTime -> SUBSET SUBSET Entries]
          /\ active' \in current'[now]
          /\ \A j \in 0 .. MaxTime : current[j] \subseteq current'[j]
      BY <3>1, <3>2, <3>3
    <3>5. Cache!TypeOK'
      BY <1>1, <3>1, <3>2, <3>4 DEF Cache!TypeOK
    <3>6. /\ pc'[t] = "invalidate"
          /\ \A u \in Threads \ {t} : pc'[u] = pc[u]
          /\ 0 .. now \subseteq 0 .. MaxTime
      BY <1>1, <3>1 DEF Cache!TypeOK
    <3> QED BY <1>1, <3>1, <3>4, <3>5, <3>6, CacheKept
  <2>8. CASE Cache!Invalidate(t)
    <3>1. /\ cached' = [cached EXCEPT ![Own] = {}]
          /\ cacheTime' = [cacheTime EXCEPT ![Own] = Cache!Past]
          /\ pc' = [pc EXCEPT ![t] = "idle"]
          /\ UNCHANGED <<now, active, started, list, readAt, changes, current>>
      BY <2>8 DEF Cache!Invalidate, Cache!Own
    <3>2. Cache!TypeOK'
      BY <1>1, <2>1, <3>1 DEF Cache!TypeOK
    <3>3. /\ pc'[t] = "idle" /\ cached'[Own] = {}
          /\ \A p \in Hosts \ {Own} : cached'[p] = cached[p] /\ cacheTime'[p] = cacheTime[p]
          /\ \A u \in Threads \ {t} : pc'[u] = pc[u]
      BY <1>1, <2>1, <3>1 DEF Cache!TypeOK
    <3> QED BY <1>1, <3>1, <3>2, <3>3, CacheKept
  <2> QED BY <1>4, <2>2, <2>3, <2>4, <2>5, <2>6, <2>7, <2>8 DEF Cache!Step
<1> QED BY <1>2, <1>3, <1>4 DEF Cache!Next

\* No list is cached at first.
LEMMA CacheStart == ASSUME Cache!CacheAssumption, Cache!Init PROVE CacheInv
<1>1. Cache!TypeOK
  BY DEF Cache!CacheAssumption, Cache!Init, Cache!TypeOK
<1> QED BY <1>1 DEF Cache!CacheAssumption, Cache!Init, CacheInv

-----------------------------------------------------------------------------
(* The deduplication of alerts.  Looking for a recent alert and inserting    *)
(* one are two steps: two threads that both look before either inserts miss  *)
(* each other's alert.  They are busy at the same time then, so that their   *)
(* tasks are crossed.                                                        *)

Busy(t) == pc[t] # "idle"

\* A task is taken up once and raises at most one alert; an alert that is not open
\* was closed.
TasksInv ==
  /\ Dedup!TypeOK
  /\ \A a \in alerts : a.task \in handled /\ (a.status \notin Dedup!Open => a.closed)
  /\ \A a, b \in alerts : a.task = b.task => a = b
  /\ \A t \in Workers : Busy(t) => task[t] \in handled /\ \A a \in alerts : a.task # task[t]
  /\ \A t, u \in Workers : t # u /\ Busy(t) /\ Busy(u) =>
       task[t] # task[u] /\ {task[t], task[u]} \in crossed

\* t has found no open alert of its incident, and none was raised since by a batch in
\* turn with it.
Alone(t) ==
  pc[t] = "raise" /\ task[t].by = "batch" =>
    \A a \in alerts : a.task.by = "batch" /\ {a.task, task[t]} \notin crossed =>
      a.closed \/ ~(Dedup!Time(a.task) + Window >= Dedup!Time(task[t]))

BatchInv ==
  /\ TasksInv
  /\ \A a \in alerts : a.task.by = "batch" => Dedup!Id(a.task) \in saved
  /\ \A t \in Workers : Alone(t)
  /\ Dedup!OneBatchAlertPerIncident

SightingInv ==
  /\ TasksInv
  /\ \A t \in Workers : pc[t] = "raise" =>
       \A a \in alerts : {a.task, task[t]} \notin crossed => Dedup!Id(a.task) # Dedup!Id(task[t])
  /\ Dedup!OneAlertPerSighting

\* What an operator does to an alert.
LEMMA Acted ==
  ASSUME TasksInv, NEW a \in alerts, NEW status \in Dedup!Statuses, Dedup!Act(a, status),
         MaxActions \in Nat
  PROVE  \E b \in Dedup!Alerts :
           /\ b.task = a.task /\ (a.closed => b.closed)
           /\ b.status \notin Dedup!Open => b.closed
           /\ alerts' = (alerts \ {a}) \union {b}
           /\ actions' \in 0 .. MaxActions
           /\ UNCHANGED <<handled, saved, pc, task>>
<1>1. a \in Dedup!Alerts
  BY DEF TasksInv, Dedup!TypeOK
<1>2. PICK c \in BOOLEAN : c = (a.closed \/ status \notin Dedup!Open)
  OBVIOUS
<1> DEFINE b == [a EXCEPT !.status = status, !.closed = c]
<1>3. /\ b \in Dedup!Alerts /\ b.task = a.task /\ b.status = status /\ b.closed = c
      /\ [a EXCEPT !.status = status, !.closed = @ \/ status \notin Dedup!Open] = b
  <2>1. [a EXCEPT !.status = status, !.closed = @ \/ status \notin Dedup!Open] = b
    BY <1>1, <1>2, Zenon DEF Dedup!Alerts
  <2> QED BY <1>1, <2>1 DEF Dedup!Alerts
<1> HIDE DEF b
<1>4. actions' \in 0 .. MaxActions
  BY DEF TasksInv, Dedup!TypeOK, Dedup!Act
<1>5. alerts' = (alerts \ {a}) \union {b} /\ UNCHANGED <<handled, saved, pc, task>>
  BY <1>3 DEF Dedup!Act
<1> QED BY <1>2, <1>3, <1>4, <1>5

\* The steps of a busy thread that raise no alert.
LEMMA Advanced ==
  ASSUME TasksInv, NEW t \in Workers,
         \/ Dedup!AlreadyRaised(t) \/ Dedup!Collapse(t) \/ Dedup!NoneRecent(t)
         \/ Dedup!RaiseFails(t) \/ Dedup!CommitBatch(t)
  PROVE  /\ UNCHANGED <<handled, alerts, task, actions>>
         /\ Busy(t) /\ \A u \in Workers \ {t} : pc'[u] = pc[u]
         /\ pc' \in [Workers -> {"idle", "check", "raise", "flushed"}]
         /\ saved \subseteq saved' /\ saved' \subseteq Dedup!Ids
         /\ pc'[t] = "raise" => Dedup!NoneRecent(t)
<1>1. /\ pc \in [Workers -> {"idle", "check", "raise", "flushed"}]
      /\ task[t] \in Dedup!Tasks /\ saved \subseteq Dedup!Ids
  BY DEF TasksInv, Dedup!TypeOK
<1>2. Dedup!Id(task[t]) \in Dedup!Ids
  BY <1>1 DEF Dedup!Ids
<1>3. saved' = saved \/ Dedup!Commits(t)
  BY DEF Dedup!AlreadyRaised, Dedup!Collapse, Dedup!NoneRecent, Dedup!RaiseFails,
         Dedup!CommitBatch
<1>4. saved \subseteq saved' /\ saved' \subseteq Dedup!Ids
  BY <1>1, <1>2, <1>3 DEF Dedup!Commits, Dedup!Visible, Dedup!Own
<1> QED BY <1>1, <1>4 DEF Busy, Dedup!AlreadyRaised, Dedup!Collapse, Dedup!NoneRecent,
                         Dedup!RaiseFails, Dedup!CommitBatch

\* A task that is taken up is new.
LEMMA Begun ==
  ASSUME TasksInv, NEW t \in Workers, NEW s \in Dedup!Tasks, Dedup!Begin(t, s)
  PROVE  /\ UNCHANGED <<saved, alerts, actions>>
         /\ s \notin handled /\ handled' = handled \union {s}
         /\ pc' \in [Workers -> {"idle", "check", "raise", "flushed"}]
         /\ task' \in [Workers -> Dedup!Tasks] /\ task'[t] = s /\ pc'[t] = "check"
         /\ \A u \in Workers \ {t} : pc'[u] = pc[u] /\ task'[u] = task[u]
         /\ crossed \subseteq crossed' /\ crossed' \subseteq SUBSET Dedup!Tasks
         /\ \A u \in Workers \ {t} : Busy(u) =>
              {task[u], s} \in crossed' /\ {s, task[u]} \in crossed'
<1>1. /\ pc \in [Workers -> {"idle", "check", "raise", "flushed"}]
      /\ task \in [Workers -> Dedup!Tasks] /\ crossed \subseteq SUBSET Dedup!Tasks
  BY DEF TasksInv, Dedup!TypeOK
<1>2. crossed' = crossed \union {{task[u], s} : u \in {v \in Workers : pc[v] # "idle"}}
  BY DEF Dedup!Begin
<1>3. crossed \subseteq crossed' /\ crossed' \subseteq SUBSET Dedup!Tasks
  BY <1>1, <1>2
<1>4. \A u \in Workers : Busy(u) => {task[u], s} \in crossed'
  BY <1>2 DEF Busy
<1>5. \A u \in Workers : {task[u], s} = {s, task[u]}
  OBVIOUS
<1>6. \A u \in Workers : Busy(u) => {s, task[u]} \in crossed'
  BY <1>4, <1>5
<1> QED BY <1>1, <1>3, <1>4, <1>6 DEF Dedup!Begin

\* The alert that a thread raises is for its own task.
LEMMA Raised ==
  ASSUME TasksInv, NEW t \in Workers, Dedup!Raise(t)
  PROVE  \E b \in Dedup!Alerts :
           /\ b.task = task[t] /\ b.status = "NEW"
           /\ alerts' = alerts \union {b}
           /\ UNCHANGED <<handled, task, actions>>
           /\ pc[t] = "raise" /\ pc'[t] = "idle" /\ \A u \in Workers \ {t} : pc'[u] = pc[u]
           /\ pc' \in [Workers -> {"idle", "check", "raise", "flushed"}]
           /\ saved \subseteq saved' /\ saved' \subseteq Dedup!Ids
           /\ task[t].by = "batch" => Dedup!Id(task[t]) \in saved'
<1>1. /\ pc \in [Workers -> {"idle", "check", "raise", "flushed"}]
      /\ task[t] \in Dedup!Tasks /\ saved \subseteq Dedup!Ids
  BY DEF TasksInv, Dedup!TypeOK
<1>2. Dedup!Id(task[t]) \in Dedup!Ids
  BY <1>1 DEF Dedup!Ids
<1>3. /\ saved \subseteq saved' /\ saved' \subseteq Dedup!Ids
      /\ task[t].by = "batch" => Dedup!Id(task[t]) \in saved'
  BY <1>1, <1>2 DEF Dedup!Raise, Dedup!Commits, Dedup!Visible, Dedup!Own
<1>4. PICK b \in Dedup!Alerts : b = [task |-> task[t], status |-> "NEW", closed |-> FALSE]
  BY <1>1 DEF Dedup!Alerts, Dedup!Statuses, Dedup!Open
<1>5. b.task = task[t] /\ b.status = "NEW"
  BY <1>4
<1>6. alerts' = alerts \union {b}
  BY <1>4 DEF Dedup!Raise, Dedup!NewAlert, Dedup!Own
<1>7. /\ UNCHANGED <<handled, task, actions>>
      /\ pc[t] = "raise" /\ pc'[t] = "idle" /\ \A u \in Workers \ {t} : pc'[u] = pc[u]
      /\ pc' \in [Workers -> {"idle", "check", "raise", "flushed"}]
  BY <1>1 DEF Dedup!Raise
<1> QED BY <1>3, <1>5, <1>6, <1>7

\* Every step keeps tasks apart.
LEMMA TasksStep ==
  ASSUME Dedup!AlertAssumption, TasksInv, [Dedup!Next]_(Dedup!vars)
  PROVE  TasksInv'
<1>0. Dedup!TypeOK /\ MaxActions \in Nat
  BY DEF TasksInv, Dedup!AlertAssumption
<1>1. CASE UNCHANGED Dedup!vars
  <2>1. UNCHANGED <<handled, saved, alerts, pc, task, actions, crossed>>
    BY <1>1 DEF Dedup!vars
  <2> QED BY <1>1, <2>1 DEF TasksInv, Dedup!TypeOK, Busy
<1>2. ASSUME NEW t \in Workers,
             \/ Dedup!AlreadyRaised(t) \/ Dedup!Collapse(t) \/ Dedup!NoneRecent(t)
             \/ Dedup!RaiseFails(t) \/ Dedup!CommitBatch(t),
             UNCHANGED crossed
      PROVE  TasksInv'
  <2>1. /\ UNCHANGED <<handled, alerts, task, actions>>
        /\ Busy(t) /\ \A u \in Workers \ {t} : pc'[u] = pc[u]
        /\ pc' \in [Workers -> {"idle", "check", "raise", "flushed"}]
        /\ saved' \subseteq Dedup!Ids
    BY <1>2, Advanced
  <2>2. Dedup!TypeOK'
    BY <1>0, <1>2, <2>1 DEF Dedup!TypeOK
  <2>3. \A u \in Workers : Busy(u)' => Busy(u)
    BY <2>1 DEF Busy
  <2> QED BY <1>2, <2>1, <2>2, <2>3 DEF TasksInv
<1>3. ASSUME NEW t \in Workers, NEW s \in Dedup!Tasks, Dedup!Begin(t, s)
      PROVE  TasksInv'
  <2>1. /\ UNCHANGED <<saved, alerts, actions>>
        /\ s \notin handled /\ handled' = handled \union {s}
        /\ pc' \in [Workers -> {"idle", "check", "raise", "flushed"}]
        /\ task' \in [Workers -> Dedup!Tasks] /\ task'[t] = s /\ pc'[t] = "check"
        /\ \A u \in Workers \ {t} : pc'[u] = pc[u] /\ task'[u] = task[u]
        /\ crossed \subseteq crossed' /\ crossed' \subseteq SUBSET Dedup!Tasks
        /\ \A u \in Workers \ {t} : Busy(u) =>
             {task[u], s} \in crossed' /\ {s, task[u]} \in crossed'
    BY <1>3, Begun
  <2>2. Dedup!TypeOK'
    BY <1>0, <2>1 DEF Dedup!TypeOK
  <2>3. \A u \in Workers \ {t} : Busy(u)' => Busy(u)
    BY <2>1 DEF Busy
  <2>4. \A u, v \in Workers : u # v /\ Busy(u)' /\ Busy(v)' =>
          task'[u] # task'[v] /\ {task'[u], task'[v]} \in crossed'
    <3> TAKE u, v \in Workers
    <3>1. CASE u = t
      BY <2>1, <2>3, <3>1 DEF TasksInv
    <3>2. CASE v = t
      BY <2>1, <2>3, <3>2 DEF TasksInv
    <3>3. CASE u # t /\ v # t
      BY <2>1, <2>3, <3>3 DEF TasksInv
    <3> QED BY <3>1, <3>2, <3>3
  <2> QED BY <2>1, <2>2, <2>3, <2>4 DEF TasksInv
<1>4. ASSUME NEW t \in Workers, Dedup!Raise(t), UNCHANGED crossed
      PROVE  TasksInv'
  <2>1. PICK b \in Dedup!Alerts :
           /\ b.task = task[t] /\ b.status = "NEW"
           /\ alerts' = alerts \union {b}
           /\ UNCHANGED <<handled, task, actions>>
           /\ pc[t] = "raise" /\ pc'[t] = "idle" /\ \A u \in Workers \ {t} : pc'[u] = pc[u]
           /\ pc' \in [Workers -> {"idle", "check", "raise", "flushed"}]
           /\ saved' \subseteq Dedup!Ids
    BY <1>4, Raised
  <2>2. Dedup!TypeOK'
    BY <1>0, <1>4, <2>1 DEF Dedup!TypeOK
  <2>3. Busy(t) /\ \A u \in Workers : Busy(u)' => Busy(u) /\ u # t
    BY <2>1 DEF Busy
  <2>4. \A a \in alerts' : a.task \in handled' /\ (a.status \notin Dedup!Open => a.closed)
    BY <2>1, <2>3 DEF TasksInv, Dedup!Open
  <2>5. \A a, c \in alerts' : a.task = c.task => a = c
    <3>1. \A a \in alerts : a.task # b.task
      BY <2>1, <2>3 DEF TasksInv
    <3>2. \A a, c \in alerts : a.task = c.task => a = c
      BY DEF TasksInv
    <3>3. \A a \in alerts' : a \in alerts \/ a = b
      BY <2>1
    <3> QED BY <3>1, <3>2, <3>3
  <2>6. ASSUME NEW u \in Workers, Busy(u)'
        PROVE  task'[u] \in handled' /\ \A a \in alerts' : a.task # task'[u]
    <3>1. Busy(u) /\ u # t /\ task'[u] = task[u] /\ handled' = handled
      BY <2>1, <2>3, <2>6
    <3>2. task[u] \in handled /\ \A a \in alerts : a.task # task[u]
      BY <3>1 DEF TasksInv
    <3>3. task[u] # task[t]
      BY <2>3, <3>1 DEF TasksInv
    <3> QED BY <2>1, <3>1, <3>2, <3>3
  <2> QED BY <1>4, <2>1, <2>2, <2>3, <2>4, <2>5, <2>6 DEF TasksInv
<1>5. ASSUME NEW a \in alerts, NEW status \in Dedup!Statuses, Dedup!Act(a, status),
             UNCHANGED crossed
      PROVE  TasksInv'
  <2>1. PICK b \in Dedup!Alerts :
           /\ b.task = a.task /\ (b.status \notin Dedup!Open => b.closed)
           /\ alerts' = (alerts \ {a}) \union {b}
           /\ actions' \in 0 .. MaxActions
           /\ UNCHANGED <<handled, saved, pc, task>>
    BY <1>0, <1>5, Acted
  <2>2. Dedup!TypeOK'
    BY <1>0, <1>5, <2>1 DEF Dedup!TypeOK
  <2> QED BY <1>5, <2>1, <2>2 DEF TasksInv, Busy
<1> QED BY <1>1, <1>2, <1>3, <1>4, <1>5 DEF Dedup!Next, Dedup!Step

\* When an alert of the batch path was raised and another is: not within the window,
\* unless it has been closed.
LEMMA RaisedAlone ==
  ASSUME Dedup!AlertAssumption, BatchInv, NEW t \in Workers,
         pc[t] = "raise", task[t].by = "batch", NEW a \in alerts, a.task.by = "batch",
         {a.task, task[t]} \notin crossed, NEW b \in Dedup!Alerts, b.task = task[t]
  PROVE  Dedup!Close(a, b) \/ Dedup!Close(b, a) => a.closed
<1>1. a.closed \/ ~(Dedup!Time(a.task) + Window >= Dedup!Time(task[t]))
  BY DEF BatchInv, Alone
<1>2. Dedup!Time(a.task) \in Nat /\ Dedup!Time(b.task) \in Nat /\ Window \in Nat
  BY DEF BatchInv, TasksInv, Dedup!TypeOK, Dedup!AlertAssumption, Dedup!Time, Dedup!Alerts,
         Dedup!Tasks
<1> QED BY <1>1, <1>2 DEF Dedup!Close

\* Every step keeps the alerts that batches raise in turn apart.
LEMMA BatchStep ==
  ASSUME Dedup!AlertAssumption, BatchInv, [Dedup!Next]_(Dedup!vars)
  PROVE  BatchInv'
<1>0. TasksInv /\ TasksInv'
  BY TasksStep DEF BatchInv
<1>a. MaxActions \in Nat
  BY DEF Dedup!AlertAssumption
<1>1. CASE UNCHANGED Dedup!vars
  <2>1. UNCHANGED <<handled, saved, alerts, pc, task, actions, crossed>>
    BY <1>1 DEF Dedup!vars
  <2> QED BY <1>0, <2>1 DEF BatchInv, Alone, Dedup!OneBatchAlertPerIncident,
                                 Dedup!InTurn
<1>2. ASSUME NEW t \in Workers,
             \/ Dedup!AlreadyRaised(t) \/ Dedup!Collapse(t) \/ Dedup!NoneRecent(t)
             \/ Dedup!RaiseFails(t) \/ Dedup!CommitBatch(t),
             UNCHANGED crossed
      PROVE  BatchInv'
  <2>1. /\ UNCHANGED <<alerts, task>> /\ saved \subseteq saved'
        /\ \A u \in Workers \ {t} : pc'[u] = pc[u]
        /\ pc'[t] = "raise" => Dedup!NoneRecent(t)
    BY <1>0, <1>2, Advanced
  <2>2. Alone(t)'
    <3> SUFFICES ASSUME pc'[t] = "raise", task[t].by = "batch",
                        NEW a \in alerts, a.task.by = "batch", ~a.closed,
                        {a.task, task[t]} \notin crossed
                 PROVE  ~(Dedup!Time(a.task) + Window >= Dedup!Time(task[t]))
      BY <1>2, <2>1 DEF Alone
    <3>1. a \notin Dedup!Recent(t)
      BY <2>1 DEF Dedup!NoneRecent
    <3>2. a.status \in Dedup!Open /\ Dedup!Id(a.task) \in saved
      BY <1>0 DEF TasksInv, BatchInv
    <3> QED BY <3>1, <3>2 DEF Dedup!Recent, Dedup!Visible, Dedup!Own
  <2>3. \A u \in Workers : Alone(u)'
    BY <1>2, <2>1, <2>2 DEF BatchInv, Alone
  <2>4. Dedup!OneBatchAlertPerIncident'
    BY <1>2, <2>1 DEF BatchInv, Dedup!OneBatchAlertPerIncident, Dedup!InTurn
  <2> QED BY <1>0, <2>1, <2>3, <2>4 DEF BatchInv
<1>3. ASSUME NEW t \in Workers, NEW s \in Dedup!Tasks, Dedup!Begin(t, s)
      PROVE  BatchInv'
  <2>1. /\ UNCHANGED <<saved, alerts>> /\ pc'[t] = "check"
        /\ \A u \in Workers \ {t} : pc'[u] = pc[u] /\ task'[u] = task[u]
        /\ crossed \subseteq crossed'
    BY <1>0, <1>3, Begun
  <2>2. \A u \in Workers : Alone(u)'
    BY <2>1 DEF BatchInv, Alone
  <2>3. Dedup!OneBatchAlertPerIncident'
    BY <2>1 DEF BatchInv, Dedup!OneBatchAlertPerIncident, Dedup!InTurn
  <2> QED BY <1>0, <2>1, <2>2, <2>3 DEF BatchInv
<1>4. ASSUME NEW t \in Workers, Dedup!Raise(t), UNCHANGED crossed
      PROVE  BatchInv'
  <2>1. PICK b \in Dedup!Alerts :
           /\ b.task = task[t] /\ b.status = "NEW"
           /\ alerts' = alerts \union {b} /\ task' = task
           /\ pc[t] = "raise" /\ pc'[t] = "idle" /\ \A u \in Workers \ {t} : pc'[u] = pc[u]
           /\ saved \subseteq saved'
           /\ task[t].by = "batch" => Dedup!Id(task[t]) \in saved'
    BY <1>0, <1>4, Raised
  <2>2. ASSUME NEW u \in Workers
        PROVE  Alone(u)'
    <3> SUFFICES ASSUME pc'[u] = "raise", task[u].by = "batch", NEW a \in alerts',
                        a.task.by = "batch", {a.task, task[u]} \notin crossed
                 PROVE  a.closed \/ ~(Dedup!Time(a.task) + Window >= Dedup!Time(task[u]))
      BY <1>4, <2>1 DEF Alone
    <3>1. u # t /\ pc[u] = "raise"
      BY <2>1
    <3>2. {task[t], task[u]} \in crossed
      BY <1>0, <2>1, <3>1 DEF TasksInv, Busy
    <3>3. a \in alerts
      BY <2>1, <3>2
    <3> QED BY <3>1, <3>3 DEF BatchInv, Alone
  <2>3. \A a \in alerts' : a.task.by = "batch" => Dedup!Id(a.task) \in saved'
    BY <2>1 DEF BatchInv
  <2>4. ASSUME NEW a \in alerts', NEW c \in alerts', a # c, a.task.by = "batch",
               c.task.by = "batch", Dedup!Close(a, c), {a.task, c.task} \notin crossed
        PROVE  a.closed \/ c.closed
    <3>1. CASE a \in alerts /\ c \in alerts
      BY <2>4, <3>1 DEF BatchInv, Dedup!OneBatchAlertPerIncident, Dedup!InTurn
    <3>2. CASE a \in alerts /\ c = b
      BY <2>1, <2>4, <3>2, RaisedAlone
    <3>3. CASE a = b /\ c \in alerts
      <4>1. {c.task, task[t]} \notin crossed
        <5>1. {c.task, a.task} = {a.task, c.task}
          OBVIOUS
        <5> QED BY <2>1, <2>4, <3>3, <5>1
      <4> QED BY <2>1, <2>4, <3>3, <4>1, RaisedAlone
    <3> QED BY <2>1, <2>4, <3>1, <3>2, <3>3
  <2>5. Dedup!OneBatchAlertPerIncident'
    BY <1>4, <2>4 DEF Dedup!OneBatchAlertPerIncident, Dedup!Close, Dedup!Time, Dedup!InTurn
  <2> QED BY <1>0, <2>2, <2>3, <2>5 DEF BatchInv
<1>5. ASSUME NEW a \in alerts, NEW status \in Dedup!Statuses, Dedup!Act(a, status),
             UNCHANGED crossed
      PROVE  BatchInv'
  <2>1. PICK b \in Dedup!Alerts :
           /\ b.task = a.task /\ (a.closed => b.closed)
           /\ alerts' = (alerts \ {a}) \union {b}
           /\ UNCHANGED <<saved, pc, task>>
    BY <1>0, <1>a, <1>5, Acted
  <2>2. \A c \in alerts' : \E d \in alerts : /\ d.task = c.task /\ (d.closed => c.closed)
                                             /\ c # b => d = c
                                             /\ c = b => d = a
    BY <2>1
  <2>3. \A u \in Workers : Alone(u)'
    BY <1>5, <2>1, <2>2 DEF BatchInv, Alone
  <2>4. ASSUME NEW c \in alerts', NEW d \in alerts', c # d, c.task.by = "batch",
               d.task.by = "batch", Dedup!Close(c, d), {c.task, d.task} \notin crossed
        PROVE  c.closed \/ d.closed
    <3>1. PICK e \in alerts : /\ e.task = c.task /\ (e.closed => c.closed)
                              /\ (c # b => e = c) /\ (c = b => e = a)
      BY <2>2
    <3>2. PICK f \in alerts : /\ f.task = d.task /\ (f.closed => d.closed)
                              /\ (d # b => f = d) /\ (d = b => f = a)
      BY <2>2
    <3>3. Dedup!Close(e, f)
      BY <2>4, <3>1, <3>2 DEF Dedup!Close
    <3>4. e # f
      BY <1>0, <2>1, <2>4, <3>1, <3>2 DEF TasksInv
    <3> QED BY <2>4, <3>1, <3>2, <3>3, <3>4
            DEF BatchInv, Dedup!OneBatchAlertPerIncident, Dedup!InTurn
  <2>5. Dedup!OneBatchAlertPerIncident'
    BY <1>5, <2>4 DEF Dedup!OneBatchAlertPerIncident, Dedup!Close, Dedup!Time, Dedup!InTurn
  <2>6. \A c \in alerts' : c.task.by = "batch" => Dedup!Id(c.task) \in saved'
    BY <2>1, <2>2 DEF BatchInv
  <2> QED BY <1>0, <2>3, <2>5, <2>6 DEF BatchInv
<1> QED BY <1>1, <1>2, <1>3, <1>4, <1>5 DEF Dedup!Next, Dedup!Step

\* Every step keeps one alert to a sighting that its two paths process in turn.
LEMMA SightingStep ==
  ASSUME Dedup!AlertAssumption, SightingInv, [Dedup!Next]_(Dedup!vars)
  PROVE  SightingInv'
<1>0. TasksInv /\ TasksInv'
  BY TasksStep DEF SightingInv
<1>a. MaxActions \in Nat
  BY DEF Dedup!AlertAssumption
<1>1. CASE UNCHANGED Dedup!vars
  <2>1. UNCHANGED <<handled, saved, alerts, pc, task, actions, crossed>>
    BY <1>1 DEF Dedup!vars
  <2> QED BY <1>0, <2>1 DEF SightingInv, Dedup!OneAlertPerSighting, Dedup!InTurn
<1>2. ASSUME NEW t \in Workers,
             \/ Dedup!AlreadyRaised(t) \/ Dedup!Collapse(t) \/ Dedup!NoneRecent(t)
             \/ Dedup!RaiseFails(t) \/ Dedup!CommitBatch(t),
             UNCHANGED crossed
      PROVE  SightingInv'
  <2>1. /\ UNCHANGED <<alerts, task>>
        /\ \A u \in Workers \ {t} : pc'[u] = pc[u]
        /\ pc'[t] = "raise" => Dedup!NoneRecent(t)
    BY <1>0, <1>2, Advanced
  <2>2. pc'[t] = "raise" => \A a \in alerts : Dedup!Id(a.task) # Dedup!Id(task[t])
    BY <2>1 DEF Dedup!NoneRecent, Dedup!Existing, Dedup!Own
  <2> QED BY <1>0, <1>2, <2>1, <2>2 DEF SightingInv, Dedup!OneAlertPerSighting, Dedup!InTurn
<1>3. ASSUME NEW t \in Workers, NEW s \in Dedup!Tasks, Dedup!Begin(t, s)
      PROVE  SightingInv'
  <2>1. /\ UNCHANGED <<saved, alerts>> /\ pc'[t] = "check"
        /\ \A u \in Workers \ {t} : pc'[u] = pc[u] /\ task'[u] = task[u]
        /\ crossed \subseteq crossed'
    BY <1>0, <1>3, Begun
  <2> QED BY <1>0, <2>1 DEF SightingInv, Dedup!OneAlertPerSighting, Dedup!InTurn
<1>4. ASSUME NEW t \in Workers, Dedup!Raise(t), UNCHANGED crossed
      PROVE  SightingInv'
  <2>1. PICK b \in Dedup!Alerts :
           /\ b.task = task[t] /\ alerts' = alerts \union {b} /\ task' = task
           /\ pc[t] = "raise" /\ pc'[t] = "idle" /\ \A u \in Workers \ {t} : pc'[u] = pc[u]
    BY <1>0, <1>4, Raised
  <2>2. ASSUME NEW u \in Workers, pc'[u] = "raise", NEW a \in alerts',
               {a.task, task[u]} \notin crossed
        PROVE  Dedup!Id(a.task) # Dedup!Id(task'[u])
    <3>1. u # t /\ pc[u] = "raise"
      BY <2>1, <2>2
    <3>2. {task[t], task[u]} \in crossed
      BY <1>0, <2>1, <3>1 DEF TasksInv, Busy
    <3> QED BY <2>1, <2>2, <3>1, <3>2 DEF SightingInv
  <2>3. Dedup!OneAlertPerSighting'
    <3> SUFFICES ASSUME NEW a \in alerts', NEW c \in alerts', Dedup!Id(a.task) = Dedup!Id(c.task),
                        {a.task, c.task} \notin crossed
                 PROVE  a = c
      BY <1>4 DEF Dedup!OneAlertPerSighting, Dedup!InTurn, Dedup!Id
    <3>1. {c.task, a.task} = {a.task, c.task}
      OBVIOUS
    <3> QED BY <2>1, <3>1 DEF SightingInv, Dedup!OneAlertPerSighting, Dedup!InTurn
  <2> QED BY <1>0, <1>4, <2>1, <2>2, <2>3 DEF SightingInv
<1>5. ASSUME NEW a \in alerts, NEW status \in Dedup!Statuses, Dedup!Act(a, status),
             UNCHANGED crossed
      PROVE  SightingInv'
  <2>1. PICK b \in Dedup!Alerts :
           b.task = a.task /\ alerts' = (alerts \ {a}) \union {b} /\ UNCHANGED <<pc, task>>
    BY <1>0, <1>a, <1>5, Acted
  <2>2. Dedup!OneAlertPerSighting'
    BY <1>5, <2>1 DEF SightingInv, Dedup!OneAlertPerSighting, Dedup!InTurn
  <2>3. \A u \in Workers : pc'[u] = "raise" =>
          \A c \in alerts' : {c.task, task'[u]} \notin crossed =>
            Dedup!Id(c.task) # Dedup!Id(task'[u])
    BY <2>1 DEF SightingInv
  <2> QED BY <1>0, <1>5, <2>1, <2>2, <2>3 DEF SightingInv
<1> QED BY <1>1, <1>2, <1>3, <1>4, <1>5 DEF Dedup!Next, Dedup!Step

\* No alert at first.
LEMMA DedupStart ==
  ASSUME Dedup!AlertAssumption, Dedup!Init PROVE BatchInv /\ SightingInv
<1>1. (CHOOSE s \in Dedup!Tasks : TRUE) \in Dedup!Tasks
  <2>1. PICK d \in Detections, p \in Paths : TRUE
    BY DEF Dedup!AlertAssumption
  <2>2. [of |-> d, by |-> p] \in Dedup!Tasks
    BY DEF Dedup!Tasks
  <2> QED BY <2>2
<1>2. Dedup!TypeOK
  BY <1>1 DEF Dedup!AlertAssumption, Dedup!Init, Dedup!TypeOK
<1> QED BY <1>2 DEF Dedup!Init, TasksInv, BatchInv, SightingInv, Alone, Busy,
                    Dedup!OneBatchAlertPerIncident, Dedup!OneAlertPerSighting

-----------------------------------------------------------------------------
(* The locks of the pipeline.  A call holds at most two locks at a time, one  *)
(* inside the other: what it still has to do is a row of sections, an        *)
(* acquisition and its release, inside an outer lock or not.                 *)

Ops == [do : {"acquire", "release"}, lock : Locking!Locks]
Acq(l) == [do |-> "acquire", lock |-> l]
Rel(l) == [do |-> "release", lock |-> l]

\* Which call takes which lock inside which other.
Nesting ==
  {<<"metrics", "bus", "dlq">>, <<"stats", "worker", "dlq">>,
   <<"replaySightings", "dlq", "worker">>, <<"replaySightings", "dlq", "dlq">>,
   <<"replayEvents", "dlq", "bus">>, <<"replayEvents", "dlq", "worker">>,
   <<"replayEvents", "dlq", "dlq">>}

\* The locks that call c takes inside lock o.
Within(c, o) == {l \in Locking!Locks : <<c, o, l>> \in Nesting}

\* q is r releases, then sections of the locks ls, then e releases.
Shape(q, r, ls, e) ==
  /\ q \in Seq(Ops)
  /\ \E n \in Nat :
       /\ Len(q) = r + 2 * n + e
       /\ \A k \in 1 .. n : \E m \in ls : q[r + 2 * k - 1] = Acq(m) /\ q[r + 2 * k] = Rel(m)

\* The rest of a section of call c with outer lock o, once o is taken.
Enclosed(q, r, c, o) == Shape(q, r, Within(c, o), 1) /\ q[Len(q)] = Rel(o)

\* Acquisitions and releases can be told apart, and so can their locks.
LEMMA Distinct ==
  /\ \A l, m : Acq(l) # Rel(m)
  /\ \A l, m : Acq(l) = Acq(m) => l = m
  /\ \A l, m : Rel(l) = Rel(m) => l = m
  /\ \A l \in Locking!Locks : Acq(l) \in Ops /\ Rel(l) \in Ops
<1>1. \A l : /\ Acq(l).do = "acquire" /\ Acq(l).lock = l
             /\ Rel(l).do = "release" /\ Rel(l).lock = l
  BY DEF Acq, Rel
<1>2. \A l \in Locking!Locks : Acq(l) \in Ops /\ Rel(l) \in Ops
  BY DEF Acq, Rel, Ops
<1>3. \A l, m : Acq(l) # Rel(m)
  <2> TAKE l, m
  <2>1. Acq(l).do # Rel(m).do
    BY <1>1
  <2> QED BY <2>1
<1> QED BY <1>1, <1>2, <1>3

\* After the release at its head, a row goes on.
LEMMA AfterRelease ==
  ASSUME NEW q, NEW ls, NEW e \in {0, 1}, Shape(q, 1, ls, e)
  PROVE  /\ Shape(Tail(q), 0, ls, e)
         /\ q # <<>>
         /\ e = 1 => Tail(q) # <<>> /\ Tail(q)[Len(Tail(q))] = q[Len(q)]
<1>1. PICK n \in Nat :
        /\ Len(q) = 1 + 2 * n + e
        /\ \A k \in 1 .. n : \E m \in ls : q[1 + 2 * k - 1] = Acq(m) /\ q[1 + 2 * k] = Rel(m)
  BY DEF Shape
<1>2. q \in Seq(Ops) /\ q # <<>>
  BY <1>1 DEF Shape
<1>3. /\ Tail(q) \in Seq(Ops) /\ Len(Tail(q)) = 2 * n + e
      /\ \A i \in 1 .. Len(Tail(q)) : Tail(q)[i] = q[i + 1]
  BY <1>1, <1>2
<1>4. ASSUME NEW k \in 1 .. n
      PROVE  \E m \in ls : Tail(q)[0 + 2 * k - 1] = Acq(m) /\ Tail(q)[0 + 2 * k] = Rel(m)
  <2>1. PICK m \in ls : q[1 + 2 * k - 1] = Acq(m) /\ q[1 + 2 * k] = Rel(m)
    BY <1>1
  <2>2. 2 * k - 1 \in 1 .. Len(Tail(q)) /\ 2 * k \in 1 .. Len(Tail(q))
    BY <1>3
  <2> QED BY <1>3, <2>1, <2>2
<1>5. Shape(Tail(q), 0, ls, e)
  BY <1>3, <1>4 DEF Shape
<1>6. e = 1 => Tail(q) # <<>> /\ Tail(q)[Len(Tail(q))] = q[Len(q)]
  <2> SUFFICES ASSUME e = 1 PROVE Tail(q) # <<>> /\ Tail(q)[Len(Tail(q))] = q[Len(q)]
    OBVIOUS
  <2>1. Len(Tail(q)) \in 1 .. Len(Tail(q)) /\ Len(Tail(q)) + 1 = Len(q)
    BY <1>1, <1>3
  <2>2. Tail(q)[Len(Tail(q))] = q[Len(q)]
    BY <1>3, <2>1
  <2>3. Tail(q) # <<>>
    <3>1. Len(Tail(q)) # 0
      <4>1. 2 * n + e # 0
        OBVIOUS
      <4> QED BY <1>3, <4>1, Zenon
    <3>2. Len(<<>>) = 0
      OBVIOUS
    <3> QED BY <3>1, <3>2, Zenon
  <2> QED BY <2>2, <2>3
<1> QED BY <1>2, <1>5, <1>6

\* A row that does not begin with a release begins with a section, or ends.
LEMMA Beginning ==
  ASSUME NEW q, NEW ls, NEW e \in {0, 1}, Shape(q, 0, ls, e), q # <<>>
  PROVE  \/ e = 1 /\ Len(q) = 1
         \/ \E m \in ls : /\ Head(q) = Acq(m) /\ Tail(q) # <<>> /\ Head(Tail(q)) = Rel(m)
                          /\ Shape(Tail(q), 1, ls, e)
                          /\ Tail(q)[Len(Tail(q))] = q[Len(q)]
<1>1. PICK n \in Nat :
        /\ Len(q) = 0 + 2 * n + e
        /\ \A k \in 1 .. n : \E m \in ls : q[0 + 2 * k - 1] = Acq(m) /\ q[0 + 2 * k] = Rel(m)
  BY DEF Shape
<1>2. q \in Seq(Ops)
  BY DEF Shape
<1>3. CASE n = 0
  BY <1>1, <1>2, <1>3
<1>4. CASE n # 0
  <2>1. PICK m \in ls : q[1] = Acq(m) /\ q[2] = Rel(m)
    BY <1>1, <1>4
  <2>2. /\ Tail(q) \in Seq(Ops) /\ Len(Tail(q)) = 1 + 2 * (n - 1) + e /\ n - 1 \in Nat
        /\ \A i \in 1 .. Len(Tail(q)) : Tail(q)[i] = q[i + 1]
    BY <1>1, <1>2, <1>4
  <2>3. ASSUME NEW k \in 1 .. n - 1
        PROVE  \E j \in ls : Tail(q)[1 + 2 * k - 1] = Acq(j) /\ Tail(q)[1 + 2 * k] = Rel(j)
    <3>a. k + 1 \in 1 .. n
      BY <1>4
    <3>1. PICK j \in ls : q[0 + 2 * (k + 1) - 1] = Acq(j) /\ q[0 + 2 * (k + 1)] = Rel(j)
      BY <1>1, <3>a
    <3>2. /\ 1 + 2 * k - 1 \in 1 .. Len(Tail(q)) /\ 1 + 2 * k \in 1 .. Len(Tail(q))
          /\ (1 + 2 * k - 1) + 1 = 0 + 2 * (k + 1) - 1 /\ (1 + 2 * k) + 1 = 0 + 2 * (k + 1)
      BY <2>2
    <3> QED BY <2>2, <3>1, <3>2
  <2>4. Shape(Tail(q), 1, ls, e)
    BY <2>2, <2>3 DEF Shape
  <2>5. /\ Head(q) = Acq(m) /\ Tail(q) # <<>> /\ Head(Tail(q)) = Rel(m)
        /\ Tail(q)[Len(Tail(q))] = q[Len(q)]
    <3>1. Len(q) \in Nat /\ Len(q) >= 2 /\ Len(Tail(q)) + 1 = Len(q)
      BY <1>1, <1>4, <2>2
    <3>a. Len(Tail(q)) \in Nat /\ Len(Tail(q)) >= 1
      BY <2>2
    <3>2. /\ Tail(q) # <<>> /\ 1 \in 1 .. Len(Tail(q))
          /\ Len(Tail(q)) \in 1 .. Len(Tail(q))
      BY <3>a
    <3>3. Head(q) = q[1] /\ Head(Tail(q)) = Tail(q)[1]
      BY <1>2, <2>2, <3>2
    <3> QED BY <2>1, <2>2, <3>1, <3>2, <3>3
  <2> QED BY <2>4, <2>5
<1> QED BY <1>3, <1>4

\* Sections after sections are sections.
LEMMA Joined ==
  ASSUME NEW ls, NEW p, Shape(p, 0, ls, 0), NEW q, Shape(q, 0, ls, 0)
  PROVE  Shape(p \o q, 0, ls, 0)
<1>1. PICK n \in Nat :
        /\ Len(p) = 0 + 2 * n + 0
        /\ \A k \in 1 .. n : \E m \in ls : p[0 + 2 * k - 1] = Acq(m) /\ p[0 + 2 * k] = Rel(m)
  BY DEF Shape
<1>2. PICK h \in Nat :
        /\ Len(q) = 0 + 2 * h + 0
        /\ \A k \in 1 .. h : \E m \in ls : q[0 + 2 * k - 1] = Acq(m) /\ q[0 + 2 * k] = Rel(m)
  BY DEF Shape
<1>3. p \in Seq(Ops) /\ q \in Seq(Ops)
  BY DEF Shape
<1>4. /\ p \o q \in Seq(Ops) /\ Len(p \o q) = 0 + 2 * (n + h) + 0 /\ n + h \in Nat
      /\ \A i \in 1 .. Len(p) + Len(q) :
           (p \o q)[i] = IF i <= Len(p) THEN p[i] ELSE q[i - Len(p)]
  BY <1>1, <1>2, <1>3
<1>5. ASSUME NEW k \in 1 .. n + h
      PROVE  \E m \in ls : (p \o q)[0 + 2 * k - 1] = Acq(m) /\ (p \o q)[0 + 2 * k] = Rel(m)
  <2>1. CASE k <= n
    <3>1. PICK m \in ls : p[0 + 2 * k - 1] = Acq(m) /\ p[0 + 2 * k] = Rel(m)
      BY <1>1, <2>1
    <3> QED BY <1>1, <1>2, <1>4, <2>1, <3>1
  <2>2. CASE k > n
    <3>1. k - n \in 1 .. h
      BY <2>2
    <3>2. PICK m \in ls : q[0 + 2 * (k - n) - 1] = Acq(m) /\ q[0 + 2 * (k - n)] = Rel(m)
      BY <1>2, <3>1
    <3>3. /\ (0 + 2 * k - 1) - Len(p) = 0 + 2 * (k - n) - 1
          /\ (0 + 2 * k) - Len(p) = 0 + 2 * (k - n)
      BY <1>1
    <3>4. /\ 0 + 2 * k - 1 \in 1 .. Len(p) + Len(q) /\ 0 + 2 * k \in 1 .. Len(p) + Len(q)
          /\ ~(0 + 2 * k - 1 <= Len(p)) /\ ~(0 + 2 * k <= Len(p))
      BY <1>1, <1>2, <2>2
    <3> QED BY <1>4, <3>2, <3>3, <3>4
  <2> QED BY <1>1, <1>2, <2>1, <2>2
<1> QED BY <1>4, <1>5 DEF Shape

\* A row of sections inside an outer lock.
LEMMA Nested ==
  ASSUME NEW c, NEW o \in Locking!Locks, NEW p, Shape(p, 0, Within(c, o), 0)
  PROVE  LET q == Locking!With(o, p) IN
         q \in Seq(Ops) /\ q # <<>> /\ Head(q) = Acq(o) /\ Enclosed(Tail(q), 0, c, o)
<1> DEFINE q == Locking!With(o, p)
<1>1. PICK n \in Nat :
        /\ Len(p) = 0 + 2 * n + 0
        /\ \A k \in 1 .. n : \E m \in Within(c, o) :
             p[0 + 2 * k - 1] = Acq(m) /\ p[0 + 2 * k] = Rel(m)
  BY DEF Shape
<1>2. p \in Seq(Ops) /\ Acq(o) \in Ops /\ Rel(o) \in Ops
  BY Distinct DEF Shape
<1>3. q = <<Acq(o)>> \o p \o <<Rel(o)>>
  BY DEF Locking!With, Acq, Rel
<1> HIDE DEF q
<1>4. /\ q \in Seq(Ops) /\ Len(q) = Len(p) + 2 /\ q # <<>> /\ Head(q) = Acq(o)
      /\ \A i \in 1 .. Len(p) : q[i + 1] = p[i]
      /\ q[Len(p) + 2] = Rel(o)
  BY <1>2, <1>3
<1>5. /\ Tail(q) \in Seq(Ops) /\ Len(Tail(q)) = Len(p) + 1
      /\ \A i \in 1 .. Len(p) : Tail(q)[i] = p[i]
      /\ Tail(q)[Len(p) + 1] = Rel(o)
  BY <1>2, <1>4
<1>6. ASSUME NEW k \in 1 .. n
      PROVE  \E m \in Within(c, o) : Tail(q)[0 + 2 * k - 1] = Acq(m) /\ Tail(q)[0 + 2 * k] = Rel(m)
  <2>1. 0 + 2 * k - 1 \in 1 .. Len(p) /\ 0 + 2 * k \in 1 .. Len(p)
    BY <1>1
  <2> QED BY <1>1, <1>5, <2>1
<1>7. Len(Tail(q)) = 0 + 2 * n + 1
  BY <1>1, <1>5
<1>8. Shape(Tail(q), 0, Within(c, o), 1)
  BY <1>5, <1>6, <1>7 DEF Shape
<1> QED BY <1>4, <1>5, <1>8 DEF Enclosed, q

-----------------------------------------------------------------------------
\* What call c has to do when it begins.
Whole(q, c) ==
  \/ Shape(q, 0, Locking!Locks, 0)
  \/ \E o \in Locking!Locks :
       q \in Seq(Ops) /\ q # <<>> /\ Head(q) = Acq(o) /\ Enclosed(Tail(q), 0, c, o)

\* A lock taken and released is a section.
LEMMA Section ==
  ASSUME NEW ls, NEW l \in ls, l \in Locking!Locks PROVE Shape(Locking!With(l, <<>>), 0, ls, 0)
<1>1. Acq(l) \in Ops /\ Rel(l) \in Ops
  BY Distinct
<1>2. Locking!With(l, <<>>) = <<Acq(l)>> \o <<>> \o <<Rel(l)>>
  BY DEF Locking!With, Acq, Rel
<1>3. PICK q \in {Locking!With(l, <<>>)} : TRUE
  OBVIOUS
<1>4. q \in Seq(Ops) /\ Len(q) = 0 + 2 * 1 + 0 /\ q[1] = Acq(l) /\ q[2] = Rel(l)
  <2>1. PICK a \in Ops, b \in Ops : a = Acq(l) /\ b = Rel(l)
    BY <1>1
  <2>2. q = <<a>> \o <<>> \o <<b>>
    BY <1>2, <1>3, <2>1
  <2>3. q \in Seq(Ops) /\ Len(q) = 2 /\ q[1] = a /\ q[2] = b
    BY <2>2
  <2> QED BY <2>1, <2>3
<1>5. \A k \in 1 .. 1 : \E m \in ls : q[0 + 2 * k - 1] = Acq(m) /\ q[0 + 2 * k] = Rel(m)
  BY <1>4
<1> QED BY <1>3, <1>4, <1>5 DEF Shape

\* Nothing to do is a row.
LEMMA None == ASSUME NEW ls PROVE Shape(<<>>, 0, ls, 0)
<1>1. Len(<<>>) = 0 + 2 * 0 + 0 /\ <<>> \in Seq(Ops)
  OBVIOUS
<1> QED BY <1>1 DEF Shape

\* Lists of sections, one after the other or left out.
Lists(P, ls) == \A p \in P : Shape(p, 0, ls, 0)

\* One row after the other is a row.
LEMMA RowsThen ==
  ASSUME NEW ls, NEW P, Lists(P, ls), NEW Q, Lists(Q, ls) PROVE Lists(Locking!Then(P, Q), ls)
<1> SUFFICES ASSUME NEW r \in Locking!Then(P, Q)
             PROVE  Shape(r, 0, ls, 0)
  BY DEF Lists
<1>1. PICK p \in P, q \in Q : r = p \o q
  BY DEF Locking!Then
<1>2. Shape(p, 0, ls, 0) /\ Shape(q, 0, ls, 0)
  BY DEF Lists
<1> QED BY <1>1, <1>2, Joined

\* A row or nothing is a row.
LEMMA RowsMaybe == ASSUME NEW ls, NEW P, Lists(P, ls) PROVE Lists(Locking!Maybe(P), ls)
BY None DEF Lists, Locking!Maybe

\* The calls are rows, with an outer lock or without.
LEMMA CallsWhole ==
  ASSUME NEW call \in Locking!AllCalls, NEW p \in Locking!Programs(call)
  PROVE  Whole(p, call)
<1>1. \A ls : /\ "bus" \in ls => Lists(Locking!BusSection, ls)
              /\ "worker" \in ls => Lists(Locking!WorkerSection, ls)
              /\ "dlq" \in ls => Lists(Locking!DlqSection, ls)
  BY Section DEF Lists, Locking!BusSection, Locking!WorkerSection, Locking!DlqSection, Locking!Locks
<1>2. ASSUME NEW ls, "worker" \in ls, "dlq" \in ls
      PROVE  Lists(Locking!FlushBatch, ls) /\ Lists(Locking!EnqueueSighting, ls)
  <2>1. Lists(Locking!WorkerSection, ls) /\ Lists(Locking!DlqSection, ls)
    BY <1>1, <1>2
  <2>2. Lists(Locking!Maybe(Locking!WorkerSection), ls) /\ Lists(Locking!Maybe(Locking!DlqSection), ls)
    BY <2>1, RowsMaybe
  <2>3. Lists(Locking!Then(Locking!Maybe(Locking!DlqSection), Locking!Maybe(Locking!WorkerSection)), ls)
    BY <2>2, RowsThen
  <2>4. Lists(Locking!FlushBatch, ls)
    BY <2>1, <2>3, RowsThen DEF Locking!FlushBatch
  <2>5. Lists(Locking!Maybe(Locking!FlushBatch), ls)
    BY <2>4, RowsMaybe
  <2> QED BY <2>1, <2>4, <2>5, RowsThen DEF Locking!EnqueueSighting
<1>3. ASSUME NEW ls, ls = Locking!Locks
      PROVE  Lists(Locking!Publish, ls)
  <2>1. "bus" \in ls /\ "worker" \in ls /\ "dlq" \in ls
    BY <1>3 DEF Locking!Locks
  <2>2. Lists(Locking!BusSection, ls) /\ Lists(Locking!DlqSection, ls) /\ Lists(Locking!EnqueueSighting, ls)
    BY <1>1, <1>2, <2>1
  <2>3. /\ Lists(Locking!Maybe(Locking!BusSection), ls) /\ Lists(Locking!Maybe(Locking!DlqSection), ls)
        /\ Lists(Locking!Maybe(Locking!EnqueueSighting), ls)
    BY <2>2, RowsMaybe
  <2>4. Lists(Locking!Dispatch, ls)
    BY <2>3, RowsThen DEF Locking!Dispatch
  <2>5. Lists(Locking!Then(Locking!Dispatch, Locking!BusSection), ls)
    BY <2>2, <2>4, RowsThen
  <2>6. Lists(Locking!Then(Locking!Maybe(Locking!EnqueueSighting), Locking!Then(Locking!Dispatch, Locking!BusSection)), ls)
    BY <2>3, <2>5, RowsThen
  <2>7. Lists(Locking!Then(Locking!BusSection, Locking!Then(Locking!Maybe(Locking!EnqueueSighting),
                                            Locking!Then(Locking!Dispatch, Locking!BusSection))), ls)
    BY <2>2, <2>6, RowsThen
  <2>8. Lists(Locking!BusSection \union Locking!Then(Locking!BusSection, Locking!Then(Locking!Maybe(Locking!EnqueueSighting),
                                            Locking!Then(Locking!Dispatch, Locking!BusSection))), ls)
    BY <2>2, <2>7 DEF Lists
  <2> QED BY <2>2, <2>8, RowsThen DEF Locking!Publish
<1>a. /\ "dlq" \in Within("metrics", "bus") /\ "dlq" \in Within("stats", "worker")
      /\ "worker" \in Within("replaySightings", "dlq")
      /\ "dlq" \in Within("replaySightings", "dlq")
      /\ Within("replayEvents", "dlq") = Locking!Locks
  BY DEF Within, Nesting, Locking!Locks
<1>b. "bus" \in Locking!Locks /\ "worker" \in Locking!Locks /\ "dlq" \in Locking!Locks
  BY DEF Locking!Locks
<1>4. CASE call = "publish"
  BY <1>3, <1>4 DEF Locking!Programs, Whole, Lists
<1>5. CASE call = "list"
  <2>1. Lists(Locking!DlqSection, Locking!Locks)
    BY <1>1, <1>b
  <2> QED BY <1>5, <2>1 DEF Locking!Programs, Whole, Lists
<1>6. CASE call = "metrics"
  <2>1. p = Locking!With("bus", Locking!With("dlq", <<>>) \o Locking!With("dlq", <<>>))
    BY <1>6 DEF Locking!Programs, Locking!PipelineMetrics
  <2>2. Shape(Locking!With("dlq", <<>>), 0, Within(call, "bus"), 0)
    BY <1>6, <1>a, <1>b, Section
  <2>3. Shape(Locking!With("dlq", <<>>) \o Locking!With("dlq", <<>>), 0, Within(call, "bus"), 0)
    BY <2>2, Joined
  <2> QED BY <1>b, <2>1, <2>3, Nested DEF Whole
<1>7. CASE call = "stats"
  <2>1. p = Locking!With("worker", Locking!With("dlq", <<>>))
    BY <1>7 DEF Locking!Programs, Locking!WorkerStats
  <2>2. Shape(Locking!With("dlq", <<>>), 0, Within(call, "worker"), 0)
    BY <1>7, <1>a, <1>b, Section
  <2> QED BY <1>b, <2>1, <2>2, Nested DEF Whole
<1>8. CASE call = "replaySightings"
  <2>1. PICK b \in Locking!Maybe(Locking!Then(Locking!EnqueueSighting, Locking!FlushBatch)) : p = Locking!With("dlq", b)
    BY <1>8 DEF Locking!Programs, Locking!ReplaySightings
  <2>2. Lists(Locking!EnqueueSighting, Within(call, "dlq")) /\ Lists(Locking!FlushBatch, Within(call, "dlq"))
    BY <1>2, <1>8, <1>a
  <2>3. Lists(Locking!Maybe(Locking!Then(Locking!EnqueueSighting, Locking!FlushBatch)), Within(call, "dlq"))
    BY <2>2, RowsThen, RowsMaybe
  <2>4. Shape(b, 0, Within(call, "dlq"), 0)
    BY <2>3 DEF Lists
  <2> QED BY <1>b, <2>1, <2>4, Nested DEF Whole
<1>9. CASE call = "replayEvents"
  <2>1. PICK b \in Locking!Maybe(Locking!Publish) : p = Locking!With("dlq", b)
    BY <1>9 DEF Locking!Programs, Locking!ReplayEvents
  <2>2. Lists(Locking!Maybe(Locking!Publish), Within(call, "dlq"))
    BY <1>3, <1>9, <1>a, RowsMaybe
  <2>3. Shape(b, 0, Within(call, "dlq"), 0)
    BY <2>2 DEF Lists
  <2> QED BY <1>b, <2>1, <2>3, Nested DEF Whole
<1> QED BY <1>4, <1>5, <1>6, <1>7, <1>8, <1>9 DEF Locking!AllCalls

-----------------------------------------------------------------------------
\* How often t holds l.
Held(t, l) == IF holder[l] = t THEN depth[l] ELSE 0
Once(l, m) == IF l = m THEN 1 ELSE 0

\* What t still has to do goes with the locks it holds: none before a section, the
\* section's in it, and the outer one from its acquisition on.
Doing(t) ==
  \/ Whole(todo[t], doing[t]) /\ \A m \in Locking!Locks : Held(t, m) = 0
  \/ \E l \in Locking!Locks :
       /\ Shape(todo[t], 1, Locking!Locks, 0) /\ Head(todo[t]) = Rel(l)
       /\ \A m \in Locking!Locks : Held(t, m) = Once(l, m)
  \/ \E o \in Locking!Locks :
       /\ Enclosed(todo[t], 0, doing[t], o)
       /\ \A m \in Locking!Locks : Held(t, m) = Once(o, m)
  \/ \E o \in Locking!Locks : \E l \in Within(doing[t], o) :
       /\ Enclosed(todo[t], 1, doing[t], o) /\ Head(todo[t]) = Rel(l)
       /\ \A m \in Locking!Locks : Held(t, m) = Once(o, m) + Once(l, m)

LocksInv == Locking!TypeOK /\ \A t \in Callers : Doing(t)

\* A thread acquires a lock from a row that begins with a section, or with an outer
\* lock; then it holds it once more.
LEMMA Acquiring ==
  ASSUME LocksInv, NEW t \in Callers, NEW l \in Locking!Locks,
         todo[t] # <<>>, Head(todo[t]) = Acq(l),
         todo'[t] = Tail(todo[t]), doing'[t] = doing[t],
         \A m \in Locking!Locks : Held(t, m)' = Held(t, m) + Once(l, m)
  PROVE  Doing(t)'
<1> PICK q, r, c : q = todo[t] /\ r = Tail(q) /\ c = doing[t]
  OBVIOUS
<1>0. todo'[t] = r /\ doing'[t] = c /\ \A m \in Locking!Locks : Once(l, m) \in Nat
  BY DEF Once
<1>1. CASE Shape(q, 0, Locking!Locks, 0) /\ \A m \in Locking!Locks : Held(t, m) = 0
  <2>1. PICK k \in Locking!Locks : /\ Head(q) = Acq(k) /\ r # <<>> /\ Head(r) = Rel(k)
                              /\ Shape(r, 1, Locking!Locks, 0)
    BY <1>1, Beginning
  <2>2. k = l
    BY <2>1, Distinct
  <2>3. \A m \in Locking!Locks : Held(t, m)' = Once(l, m)
    BY <1>0, <1>1
  <2> QED BY <1>0, <2>1, <2>2, <2>3 DEF Doing
<1>2. ASSUME NEW o \in Locking!Locks, Head(q) = Acq(o), Enclosed(r, 0, c, o),
             \A m \in Locking!Locks : Held(t, m) = 0
      PROVE  Doing(t)'
  <2>1. o = l
    BY <1>2, Distinct
  <2>2. \A m \in Locking!Locks : Held(t, m)' = Once(o, m)
    BY <1>0, <1>2, <2>1
  <2> QED BY <1>0, <1>2, <2>2 DEF Doing
<1>3. ASSUME NEW k \in Locking!Locks, Head(q) = Rel(k)
      PROVE  FALSE
  BY <1>3, Distinct
<1>4. ASSUME NEW o \in Locking!Locks, Enclosed(q, 0, c, o), \A m \in Locking!Locks : Held(t, m) = Once(o, m)
      PROVE  Doing(t)'
  <2>1. q \in Seq(Ops) /\ Shape(q, 0, Within(c, o), 1) /\ q[Len(q)] = Rel(o)
    BY <1>4 DEF Enclosed, Shape
  <2>2. Len(q) # 1
    <3>1. Len(q) = 1 => Head(q) = Rel(o)
      BY <2>1
    <3> QED BY <3>1, Distinct
  <2>3. PICK k \in Within(c, o) : /\ Head(q) = Acq(k) /\ r # <<>> /\ Head(r) = Rel(k)
                               /\ Shape(r, 1, Within(c, o), 1) /\ r[Len(r)] = q[Len(q)]
    BY <2>1, <2>2, Beginning
  <2>4. k = l /\ Enclosed(r, 1, c, o)
    BY <2>1, <2>3, Distinct DEF Enclosed
  <2>5. \A m \in Locking!Locks : Held(t, m)' = Once(o, m) + Once(l, m)
    BY <1>4
  <2> QED BY <1>0, <2>3, <2>4, <2>5 DEF Doing
<1>5. \A o \in Locking!Locks : Within(c, o) \subseteq Locking!Locks
  BY DEF Within
<1> QED BY <1>1, <1>2, <1>3, <1>4, <1>5 DEF LocksInv, Doing, Whole

\* A release is of a lock that the thread holds, and leaves a row again.
LEMMA Releasing ==
  ASSUME LocksInv, NEW t \in Callers, NEW l \in Locking!Locks,
         todo[t] # <<>>, Head(todo[t]) = Rel(l)
  PROVE  /\ Held(t, l) >= 1
         /\ todo'[t] = Tail(todo[t]) /\ doing'[t] = doing[t]
              /\ (\A m \in Locking!Locks : Held(t, m)' = Held(t, m) - Once(l, m))
              => Doing(t)'
<1> PICK q, r, c : q = todo[t] /\ r = Tail(q) /\ c = doing[t]
  OBVIOUS
<1>0. \A m \in Locking!Locks : Once(l, m) \in Nat
  BY DEF Once
<1>1. ASSUME NEW k \in Locking!Locks, Head(q) = Acq(k)
      PROVE  FALSE
  BY <1>1, Distinct
<1>2. ~Shape(q, 0, Locking!Locks, 0)
  <2> SUFFICES ASSUME Shape(q, 0, Locking!Locks, 0) PROVE FALSE
    OBVIOUS
  <2> QED BY <1>1, Beginning
<1>3. ASSUME NEW k \in Locking!Locks, Shape(q, 1, Locking!Locks, 0), Head(q) = Rel(k),
             \A m \in Locking!Locks : Held(t, m) = Once(k, m)
      PROVE  /\ Held(t, l) >= 1
             /\ todo'[t] = r /\ doing'[t] = c /\ (\A m \in Locking!Locks : Held(t, m)' = Held(t, m) - Once(l, m))
                  => Doing(t)'
  <2>1. k = l
    BY <1>3, Distinct
  <2>2. Held(t, l) = 1
    BY <1>3, <2>1 DEF Once
  <2>3. Shape(r, 0, Locking!Locks, 0)
    BY <1>3, AfterRelease
  <2>4. \A m \in Locking!Locks : Held(t, m) - Once(l, m) = 0
    BY <1>0, <1>3, <2>1
  <2> QED BY <2>2, <2>3, <2>4 DEF Doing, Whole
<1>4. ASSUME NEW o \in Locking!Locks, Enclosed(q, 0, c, o), \A m \in Locking!Locks : Held(t, m) = Once(o, m)
      PROVE  /\ Held(t, l) >= 1
             /\ todo'[t] = r /\ doing'[t] = c /\ (\A m \in Locking!Locks : Held(t, m)' = Held(t, m) - Once(l, m))
                  => Doing(t)'
  <2>1. q \in Seq(Ops) /\ Shape(q, 0, Within(c, o), 1) /\ q[Len(q)] = Rel(o)
    BY <1>4 DEF Enclosed, Shape
  <2>2. Within(c, o) \subseteq Locking!Locks
    BY DEF Within
  <2>3. Len(q) = 1
    BY <1>1, <2>1, <2>2, Beginning
  <2>4. o = l /\ r = <<>>
    <3>1. Head(q) = Rel(o)
      BY <2>1, <2>3
    <3>2. r = <<>>
      BY <2>1, <2>3
    <3> QED BY <3>1, <3>2, Distinct
  <2>5. Held(t, l) = 1
    BY <1>4, <2>4 DEF Once
  <2>6. \A m \in Locking!Locks : Held(t, m) - Once(l, m) = 0
    BY <1>0, <1>4, <2>4
  <2>7. Shape(r, 0, Locking!Locks, 0)
    BY <2>4, None
  <2> QED BY <2>5, <2>6, <2>7 DEF Doing, Whole
<1>5. ASSUME NEW o \in Locking!Locks, NEW k \in Within(c, o), Enclosed(q, 1, c, o), Head(q) = Rel(k),
             \A m \in Locking!Locks : Held(t, m) = Once(o, m) + Once(k, m)
      PROVE  /\ Held(t, l) >= 1
             /\ todo'[t] = r /\ doing'[t] = c /\ (\A m \in Locking!Locks : Held(t, m)' = Held(t, m) - Once(l, m))
                  => Doing(t)'
  <2>1. Shape(q, 1, Within(c, o), 1) /\ q[Len(q)] = Rel(o)
    BY <1>5 DEF Enclosed
  <2>2. k = l
    BY <1>5, Distinct
  <2>3. Held(t, l) >= 1
    BY <1>5, <2>2 DEF Once
  <2>4. Enclosed(r, 0, c, o)
    BY <2>1, AfterRelease DEF Enclosed
  <2>5. \A m \in Locking!Locks : Held(t, m) - Once(l, m) = Once(o, m)
    BY <1>5, <2>2 DEF Once
  <2> QED BY <2>3, <2>4, <2>5 DEF Doing
<1> QED BY <1>1, <1>2, <1>3, <1>4, <1>5 DEF LocksInv, Doing, Whole

\* What is held, and by whom, after a step of t.
LEMMA LocksKept ==
  ASSUME LocksInv, Locking!TypeOK', NEW t \in Callers,
         \A u \in Callers \ {t} : todo'[u] = todo[u] /\ doing'[u] = doing[u],
         \A u \in Callers \ {t} : \A m \in Locking!Locks : Held(u, m)' = Held(u, m),
         Doing(t)'
  PROVE  LocksInv'
<1> SUFFICES ASSUME NEW u \in Callers \ {t}
             PROVE  Doing(u)'
  BY DEF LocksInv
<1>1. Doing(u)
  BY DEF LocksInv
<1>2. /\ todo'[u] = todo[u] /\ doing'[u] = doing[u]
      /\ \A m \in Locking!Locks : Held(u, m)' = Held(u, m)
  OBVIOUS
<1> QED BY <1>1, <1>2 DEF Doing

\* Every step keeps what a thread has to do in line with the locks it holds.
LEMMA LocksStep ==
  ASSUME Locking!LocksAssumption, LocksInv, [Locking!Next]_(Locking!vars)
  PROVE  LocksInv'
<1>1. /\ holder \in [Locking!Locks -> Callers \union {NoThread}] /\ depth \in [Locking!Locks -> Nat]
      /\ \A l \in Locking!Locks : holder[l] = NoThread <=> depth[l] = 0
      /\ \A l \in Locking!Locks \ Locking!Reentrant : depth[l] <= 1
      /\ NoThread \notin Callers
  BY DEF LocksInv, Locking!TypeOK, Locking!LocksAssumption
<1>a. /\ todo \in [Callers -> Seq(Ops)]
      /\ doing \in [Callers -> Locking!AllCalls \union {Locking!None}]
  BY DEF LocksInv, Locking!TypeOK, Ops
<1>b. calls \in 0 .. MaxCalls /\ MaxCalls \in Nat
  BY DEF LocksInv, Locking!TypeOK, Locking!LocksAssumption
<1>c. ASSUME holder' \in [Locking!Locks -> Callers \union {NoThread}],
             depth' \in [Locking!Locks -> Nat],
             \A l \in Locking!Locks : holder'[l] = NoThread <=> depth'[l] = 0,
             \A l \in Locking!Locks \ Locking!Reentrant : depth'[l] <= 1,
             doing' \in [Callers -> Locking!AllCalls \union {Locking!None}],
             todo' \in [Callers -> Seq(Ops)], calls' \in 0 .. MaxCalls
      PROVE  Locking!TypeOK'
  BY <1>c DEF Locking!TypeOK, Ops
<1>d. ASSUME NEW q \in Seq(Ops), q # <<>>
      PROVE  Tail(q) \in Seq(Ops)
  BY <1>d
<1>2. CASE UNCHANGED Locking!vars
  <2>1. UNCHANGED <<holder, depth, doing, todo, calls>>
    BY <1>2 DEF Locking!vars
  <2>2. Locking!TypeOK'
    BY <1>1, <1>a, <1>b, <1>c, <2>1
  <2>3. \A t \in Callers, m \in Locking!Locks : Held(t, m)' = Held(t, m)
    BY <2>1 DEF Held
  <2>4. ASSUME NEW t \in Callers
        PROVE  Doing(t)'
    <3>1. Doing(t)
      BY DEF LocksInv
    <3> QED BY <2>1, <2>3, <3>1 DEF Doing
  <2> QED BY <2>2, <2>4 DEF LocksInv
<1>3. ASSUME NEW t \in Callers, Locking!Call(t)
      PROVE  LocksInv'
  <2>1. PICK call \in Calls : \E p \in Locking!Programs(call) :
          /\ doing' = [doing EXCEPT ![t] = call]
          /\ todo' = [todo EXCEPT ![t] = p] /\ todo[t] = <<>> /\ calls < MaxCalls
          /\ calls' = calls + 1 /\ UNCHANGED <<holder, depth>>
    BY <1>3 DEF Locking!Call
  <2>2. PICK p \in Locking!Programs(call) :
          /\ doing' = [doing EXCEPT ![t] = call]
          /\ todo' = [todo EXCEPT ![t] = p] /\ todo[t] = <<>> /\ calls < MaxCalls
          /\ calls' = calls + 1 /\ UNCHANGED <<holder, depth>>
    BY <2>1
  <2>b. call \in Locking!AllCalls
    BY DEF Locking!LocksAssumption
  <2>3. Whole(p, call)
    BY <2>b, CallsWhole
  <2>4. p \in Seq(Ops)
    BY <2>3 DEF Whole, Shape
  <2>5. /\ todo' \in [Callers -> Seq(Ops)] /\ todo'[t] = p /\ doing'[t] = call
        /\ doing' \in [Callers -> Locking!AllCalls \union {Locking!None}]
        /\ \A u \in Callers \ {t} : todo'[u] = todo[u] /\ doing'[u] = doing[u]
    BY <1>a, <2>2, <2>4, <2>b
  <2>a. calls' \in 0 .. MaxCalls
    BY <1>b, <2>2
  <2>6. Locking!TypeOK'
    BY <1>1, <1>c, <2>2, <2>5, <2>a
  <2>7. \A u \in Callers, m \in Locking!Locks : Held(u, m)' = Held(u, m)
    BY <2>2 DEF Held
  <2>8. \A m \in Locking!Locks : Held(t, m) = 0
    <3>1. Doing(t)
      BY DEF LocksInv
    <3>2. ASSUME NEW ls, NEW e \in {0, 1}, Shape(todo[t], 1, ls, e)
          PROVE  FALSE
      BY <2>2, <3>2, AfterRelease
    <3>3. ASSUME NEW c, NEW o \in Locking!Locks, Enclosed(todo[t], 0, c, o)
          PROVE  FALSE
      <4>1. PICK n \in Nat : Len(todo[t]) = 0 + 2 * n + 1
        BY <3>3 DEF Enclosed, Shape
      <4>2. Len(todo[t]) = 0
        BY <2>2
      <4> QED BY <4>1, <4>2
    <3>4. ASSUME NEW c, NEW o \in Locking!Locks, Enclosed(todo[t], 1, c, o)
          PROVE  FALSE
      BY <2>2, <3>2, <3>4 DEF Enclosed
    <3>5. ~Shape(todo[t], 1, Locking!Locks, 0)
      BY <2>2, <3>2
    <3> QED BY <3>1, <3>3, <3>4, <3>5 DEF Doing
  <2>9. Doing(t)'
    BY <2>3, <2>5, <2>7, <2>8 DEF Doing
  <2> QED BY <2>5, <2>6, <2>7, <2>9, LocksKept
<1>4. ASSUME NEW t \in Callers, NEW l \in Locking!Locks, Locking!Acquire(t, l)
      PROVE  LocksInv'
  <2>1. /\ todo[t] # <<>> /\ Head(todo[t]) = Acq(l)
        /\ holder[l] = NoThread \/ (holder[l] = t /\ l \in Locking!Reentrant)
        /\ holder' = [holder EXCEPT ![l] = t] /\ depth' = [depth EXCEPT ![l] = @ + 1]
        /\ todo' = [todo EXCEPT ![t] = Tail(@)] /\ UNCHANGED <<doing, calls>>
    BY <1>4 DEF Locking!Acquire, Locking!Wants, Locking!Free, Acq
  <2>2. Tail(todo[t]) \in Seq(Ops)
    BY <1>a, <1>d, <2>1
  <2>3. /\ todo' \in [Callers -> Seq(Ops)] /\ todo'[t] = Tail(todo[t])
        /\ doing' = doing
        /\ \A u \in Callers \ {t} : todo'[u] = todo[u]
    BY <1>a, <2>1, <2>2
  <2>4. /\ holder' \in [Locking!Locks -> Callers \union {NoThread}]
        /\ depth' \in [Locking!Locks -> Nat]
        /\ holder'[l] = t /\ depth'[l] = depth[l] + 1
        /\ \A m \in Locking!Locks \ {l} : holder'[m] = holder[m] /\ depth'[m] = depth[m]
    BY <1>1, <2>1
  <2>a. t # NoThread /\ depth[l] \in Nat /\ (holder[l] # t => depth[l] = 0)
    BY <1>1, <2>1
  <2>5. Locking!TypeOK'
    <3>1. \A m \in Locking!Locks : holder'[m] = NoThread <=> depth'[m] = 0
      BY <1>1, <2>4, <2>a
    <3>2. \A m \in Locking!Locks \ Locking!Reentrant : depth'[m] <= 1
      BY <1>1, <2>1, <2>4, <2>a
    <3> QED BY <1>a, <1>b, <1>c, <2>1, <2>3, <2>4, <3>1, <3>2
  <2>6. ASSUME NEW m \in Locking!Locks
        PROVE  Held(t, m)' = Held(t, m) + Once(l, m)
    <3>1. CASE m = l
      BY <2>4, <2>a, <3>1 DEF Held, Once
    <3>2. CASE m # l
      <4>1. depth[m] \in Nat /\ holder'[m] = holder[m] /\ depth'[m] = depth[m]
        BY <1>1, <2>4, <3>2
      <4> QED BY <3>2, <4>1 DEF Held, Once
    <3> QED BY <3>1, <3>2
  <2>7. \A u \in Callers \ {t} : \A m \in Locking!Locks : Held(u, m)' = Held(u, m)
    BY <1>1, <2>1, <2>4 DEF Held
  <2>8. Doing(t)'
    BY <2>1, <2>3, <2>6, Acquiring
  <2> QED BY <2>3, <2>5, <2>7, <2>8, LocksKept
<1>5. ASSUME NEW t \in Callers, NEW l \in Locking!Locks, Locking!Release(t, l)
      PROVE  LocksInv'
  <2>1. /\ todo[t] # <<>> /\ Head(todo[t]) = Rel(l)
        /\ holder' = [holder EXCEPT ![l] = IF depth[l] = 1 THEN NoThread ELSE @]
        /\ depth' = [depth EXCEPT ![l] = @ - 1]
        /\ todo' = [todo EXCEPT ![t] = Tail(@)] /\ UNCHANGED <<doing, calls>>
    BY <1>5 DEF Locking!Release, Rel
  <2>2. Tail(todo[t]) \in Seq(Ops)
    BY <1>a, <1>d, <2>1
  <2>3. /\ todo' \in [Callers -> Seq(Ops)] /\ todo'[t] = Tail(todo[t])
        /\ doing' = doing
        /\ \A u \in Callers \ {t} : todo'[u] = todo[u]
    BY <1>a, <2>1, <2>2
  <2>a. Held(t, l) >= 1
    BY <2>1, Releasing
  <2>b. holder[l] = t /\ depth[l] >= 1
    <3>1. depth[l] \in Nat
      BY <1>1
    <3> QED BY <2>a, <3>1 DEF Held
  <2>4. /\ holder' \in [Locking!Locks -> Callers \union {NoThread}]
        /\ depth' \in [Locking!Locks -> Nat]
        /\ holder'[l] = (IF depth[l] = 1 THEN NoThread ELSE t) /\ depth'[l] = depth[l] - 1
        /\ \A m \in Locking!Locks \ {l} : holder'[m] = holder[m] /\ depth'[m] = depth[m]
    BY <1>1, <2>1, <2>b
  <2>c. t # NoThread /\ depth[l] \in Nat
    BY <1>1
  <2>5. Locking!TypeOK'
    <3>1. \A m \in Locking!Locks : holder'[m] = NoThread <=> depth'[m] = 0
      BY <1>1, <2>4, <2>b, <2>c
    <3>2. \A m \in Locking!Locks \ Locking!Reentrant : depth'[m] <= 1
      BY <1>1, <2>4, <2>b, <2>c
    <3> QED BY <1>a, <1>b, <1>c, <2>1, <2>3, <2>4, <3>1, <3>2
  <2>6. ASSUME NEW m \in Locking!Locks
        PROVE  Held(t, m)' = Held(t, m) - Once(l, m)
    <3>1. CASE m = l
      BY <2>4, <2>b, <2>c, <3>1 DEF Held, Once
    <3>2. CASE m # l
      <4>1. depth[m] \in Nat /\ holder'[m] = holder[m] /\ depth'[m] = depth[m]
        BY <1>1, <2>4, <3>2
      <4> QED BY <3>2, <4>1 DEF Held, Once
    <3> QED BY <3>1, <3>2
  <2>7. \A u \in Callers \ {t} : \A m \in Locking!Locks : Held(u, m)' = Held(u, m)
    BY <1>1, <2>4, <2>b DEF Held
  <2>8. Doing(t)'
    BY <2>1, <2>3, <2>6, Releasing
  <2> QED BY <2>3, <2>5, <2>7, <2>8, LocksKept
<1> QED BY <1>2, <1>3, <1>4, <1>5 DEF Locking!Next, Locking!Step

\* A thread that waits for a lock takes it inside every lock that it holds, and holds
\* none that it waits for.
LEMMA WaitsInside ==
  ASSUME Locking!LocksAssumption, LocksInv, NEW t \in Callers, NEW l \in Locking!Locks, Locking!Wants(t, l), ~Locking!Free(t, l),
         NEW m \in Locking!Locks, holder[m] = t
  PROVE  <<doing[t], m, l>> \in Nesting /\ m # l
<1> PICK q \in {todo[t]}, c \in {doing[t]} : TRUE
  OBVIOUS
<1>1. q # <<>> /\ Head(q) = Acq(l) /\ Doing(t)
  BY DEF LocksInv, Locking!Wants, Acq
<1>2. Held(t, m) # 0
  <2>1. t # NoThread
    BY DEF Locking!LocksAssumption
  <2>2. depth[m] # 0
    BY <2>1 DEF LocksInv, Locking!TypeOK
  <2> QED BY <2>2 DEF Held
<1>3. PICK o \in Locking!Locks : /\ Enclosed(q, 0, c, o)
                                /\ \A k \in Locking!Locks : Held(t, k) = Once(o, k)
  BY <1>1, <1>2, Distinct DEF Doing
<1>4. m = o
  BY <1>2, <1>3 DEF Once
<1>5. l \in Within(c, o)
  <2>1. q \in Seq(Ops) /\ Shape(q, 0, Within(c, o), 1) /\ q[Len(q)] = Rel(o)
    BY <1>3 DEF Enclosed, Shape
  <2>2. Len(q) # 1
    <3>1. Len(q) = 1 => Head(q) = Rel(o)
      BY <2>1
    <3> QED BY <1>1, <3>1, Distinct
  <2> QED BY <1>1, <2>1, <2>2, Beginning, Distinct
<1>6. <<c, o, l>> \in Nesting
  BY <1>5 DEF Within
<1>7. l # o
  <2>1. l = o => l \in Locking!Reentrant
    BY <1>6 DEF Nesting, Locking!Reentrant
  <2> QED BY <1>4, <2>1 DEF Locking!Free
<1> QED BY <1>4, <1>6, <1>7

\* A lock is taken around the DLQ lock and another inside it by opposed calls only.
LEMMA AroundAndInside ==
  ASSUME NEW c, NEW l, NEW m, <<c, l, m>> \in Nesting, l # m, NEW d, NEW k,
         <<d, m, k>> \in Nesting, m # k, NEW e, NEW n, <<e, k, n>> \in Nesting, k # n
  PROVE  {c, d} \in Locking!Opposed \/ {d, e} \in Locking!Opposed
BY DEF Nesting, Locking!Opposed

\* From one waiting thread to the next the locks go into the DLQ lock and out of it
\* again, and the calls that do so are opposed.
LEMMA NoCircle == ASSUME Locking!LocksAssumption, LocksInv PROVE Locking!OnlyOpposedCallsStall
<1>1. ASSUME NEW S \in SUBSET Callers, S # {},
             \A t, u \in S : {doing[t], doing[u]} \notin Locking!Opposed
      PROVE  Locking!Proceeds(S)
  <2> SUFFICES ASSUME \A t \in S : \E l \in Locking!Locks :
                        Locking!Wants(t, l) /\ ~Locking!Free(t, l) /\ holder[l] \in S
               PROVE  FALSE
    BY DEF Locking!Proceeds
  <2>2. PICK t \in S : TRUE
    BY <1>1
  <2>3. PICK a \in Locking!Locks : Locking!Wants(t, a) /\ ~Locking!Free(t, a) /\ holder[a] \in S
    OBVIOUS
  <2>4. PICK b \in Locking!Locks : /\ Locking!Wants(holder[a], b) /\ ~Locking!Free(holder[a], b)
                              /\ holder[b] \in S
    BY <2>3
  <2>5. PICK c \in Locking!Locks : /\ Locking!Wants(holder[b], c) /\ ~Locking!Free(holder[b], c)
                              /\ holder[c] \in S
    BY <2>4
  <2>6. PICK d \in Locking!Locks : /\ Locking!Wants(holder[c], d) /\ ~Locking!Free(holder[c], d)
                              /\ holder[d] \in S
    BY <2>5
  <2>7. /\ <<doing[holder[a]], a, b>> \in Nesting /\ a # b
        /\ <<doing[holder[b]], b, c>> \in Nesting /\ b # c
        /\ <<doing[holder[c]], c, d>> \in Nesting /\ c # d
    BY <2>3, <2>4, <2>5, <2>6, WaitsInside
  <2>8. \/ {doing[holder[a]], doing[holder[b]]} \in Locking!Opposed
        \/ {doing[holder[b]], doing[holder[c]]} \in Locking!Opposed
    BY <2>7, AroundAndInside
  <2> QED BY <1>1, <2>3, <2>4, <2>5, <2>8
<1> SUFFICES ASSUME NEW S \in (SUBSET Callers) \ {{}},
                    \A t, u \in S : {doing[t], doing[u]} \notin Locking!Opposed
             PROVE  Locking!Proceeds(S)
  BY Zenon DEF Locking!OnlyOpposedCallsStall
<1>2. S \in SUBSET Callers /\ S # {}
  OBVIOUS
<1> QED BY <1>1, <1>2

\* Nobody holds or wants a lock at first.
LEMMA LocksStart == ASSUME Locking!LocksAssumption, Locking!Init PROVE LocksInv
<1>1. Locking!TypeOK
  <2>1. <<>> \in Seq([do : {"acquire", "release"}, lock : Locking!Locks])
    OBVIOUS
  <2> QED BY <2>1 DEF Locking!Init, Locking!TypeOK, Locking!LocksAssumption
<1>2. \A t \in Callers : Whole(todo[t], doing[t]) /\ \A m \in Locking!Locks : Held(t, m) = 0
  BY None DEF Locking!Init, Locking!LocksAssumption, Held, Whole
<1> QED BY <1>1, <1>2 DEF LocksInv, Doing

-----------------------------------------------------------------------------
(* The components beside one another                                       *)

AuditInv == TypeOK /\ Ready

SystemInv ==
  /\ part = "audit" => AuditInv
  /\ part = "cache" => CacheInv
  /\ part = "alerts" => BatchInv /\ SightingInv
  /\ part = "vault" => VaultInv /\ (~Vault!LocalDriver => CustodyInv)
  /\ part = "locks" => LocksInv

\* All components begin well.
LEMMA SystemStart == AnyInit => SystemInv
<1>1. /\ Cache!CacheAssumption /\ Dedup!AlertAssumption /\ Vault!VaultAssumption
      /\ Locking!LocksAssumption
  BY Instances
<1>2. Init => AuditInv
  BY Start DEF SkipInv, AuditInv
<1>3. Cache!Init => CacheInv
  BY <1>1, CacheStart
<1>4. Dedup!Init => BatchInv /\ SightingInv
  BY <1>1, DedupStart
<1>5. Vault!Init => VaultInv /\ (~Vault!LocalDriver => CustodyInv)
  <2>1. Vault!Init => VaultInv
    BY <1>1, VaultStart
  <2> QED BY <2>1 DEF Vault!Init, CustodyInv, Faithful
<1>6. Locking!Init => LocksInv
  BY <1>1, LocksStart
<1> QED BY <1>2, <1>3, <1>4, <1>5, <1>6 DEF AnyInit, LocksInit, SystemInv

\* The component that runs takes a step or all of them stand still.
LEMMA OnePart ==
  ASSUME [AnyNext]_allVars
  PROVE  /\ part' = part
         /\ part = "audit" => [Next]_vars
         /\ part = "cache" => [Cache!Next]_(Cache!vars)
         /\ part = "alerts" => [Dedup!Next]_(Dedup!vars)
         /\ part = "vault" => [Vault!Next]_(Vault!vars)
         /\ part = "locks" => [Locking!Next]_(Locking!vars)
<1>1. CASE UNCHANGED allVars
  BY <1>1 DEF allVars, auditVars, cacheVars, alertVars, vaultVars, lockVars, vars, Cache!vars,
              Dedup!vars, Vault!vars, Vault!stored, Vault!local, Locking!vars
<1>2. CASE AnyNext
  BY <1>2 DEF AnyNext, LocksNext
<1> QED BY <1>1, <1>2

\* Each component keeps its own invariant.
LEMMA SystemStep ==
  ASSUME SystemInv, [AnyNext]_allVars
  PROVE  SystemInv'
<1>1. /\ Cache!CacheAssumption /\ Dedup!AlertAssumption /\ Vault!VaultAssumption
      /\ Locking!LocksAssumption
  BY Instances
<1>2. part' = part
  BY OnePart
<1>3. part = "audit" => AuditInv'
  BY OnePart, TypeStep, ReadyStep DEF SystemInv, AuditInv
<1>4. part = "cache" => CacheInv'
  BY <1>1, OnePart, CacheStep DEF SystemInv
<1>5. part = "alerts" => BatchInv' /\ SightingInv'
  BY <1>1, OnePart, BatchStep, SightingStep DEF SystemInv
<1>6. part = "vault" => VaultInv' /\ (~Vault!LocalDriver => CustodyInv)'
  <2> SUFFICES ASSUME part = "vault"
               PROVE  VaultInv' /\ (~Vault!LocalDriver => CustodyInv)'
    OBVIOUS
  <2>1. [Vault!Next]_(Vault!vars) /\ VaultInv /\ (~Vault!LocalDriver => CustodyInv)
    BY OnePart DEF SystemInv
  <2>2. VaultInv'
    BY <1>1, <2>1, VaultStep
  <2>3. driver' = driver
    BY <2>1 DEF Vault!Next, Vault!vars
  <2>4. ~Vault!LocalDriver => CustodyInv'
    BY <1>1, <2>1, CustodyStep
  <2> QED BY <2>2, <2>3, <2>4 DEF Vault!LocalDriver
<1>7. part = "locks" => LocksInv'
  BY <1>1, OnePart, LocksStep DEF SystemInv
<1> QED BY <1>2, <1>3, <1>4, <1>5, <1>6, <1>7 DEF SystemInv

LEMMA SystemInvariant == AnySpec => []SystemInv
BY SystemStart, SystemStep, PTL DEF AnySpec

\* The variables of each component keep their types, for any threads, packages,
\* detections and lists; a lock has a holder exactly while it is held.
THEOREM TypesKept == AnySpec => []TypesOK
<1>1. SystemInv => TypesOK
  BY DEF SystemInv, TypesOK, AuditInv, CacheInv, BatchInv, TasksInv, VaultInv, LocksInv
<1> QED BY <1>1, SystemInvariant, PTL

\* An Evidence row is backed by a whole, verifiable package, for any threads and
\* packages, on either driver, wherever the process crashed
\* (ingest_evidence_vault_package, api/cases.py).
THEOREM RecordsBacked == AnySpec => []RecordBacked
<1>1. SystemInv => RecordBacked
  BY DEF SystemInv, VaultInv, RecordBacked
<1> QED BY <1>1, SystemInvariant, PTL

\* A package that is still being ingested, or that was cut off, is not reported as
\* corrupted (verify_evidence_integrity, api/cases.py).
THEOREM NothingFalselyAlarmed == AnySpec => []NoFalseAlarm
<1>1. VaultInv => Vault!NoFalseAlarm
  BY Ordered DEF VaultInv, Vault!NoFalseAlarm, Vault!Verdict
<1>2. SystemInv => NoFalseAlarm
  BY <1>1 DEF SystemInv, NoFalseAlarm
<1> QED BY <1>2, SystemInvariant, PTL

\* "append-only custody" (append_vault_custody_log, api/cases.py): over the object
\* store, until a read has failed, the chain of custody of a package whose requests
\* took turns loses nothing that was stored.
THEOREM CustodyAppendOnly == AnySpec => AppendOnly
<1>1. SystemInv /\ [AnyNext]_allVars => [part = "vault" => Vault!TrailGrows]_allVars
  <2> SUFFICES ASSUME SystemInv, [AnyNext]_allVars, part = "vault" PROVE Vault!TrailGrows
    OBVIOUS
  <2>1. Vault!VaultAssumption
    BY Instances
  <2>2. CASE Vault!LocalDriver
    BY <2>2 DEF Vault!TrailGrows
  <2>3. CASE ~Vault!LocalDriver
    BY <2>1, <2>3, OnePart, CustodyStep DEF SystemInv
  <2> QED BY <2>2, <2>3
<1> QED BY <1>1, SystemInvariant, PTL DEF AnySpec, AppendOnly

\* The database and the vault agree on who accessed a package (EvidenceAccess rows and
\* the chain of custody, api/cases.py), under the same conditions.
THEOREM AccessesInTrail == AnySpec => []AccessInTrail
<1>1. SystemInv => AccessInTrail
  BY DEF SystemInv, CustodyInv, AccessInTrail, Vault!AccessInTrail, Holds
<1> QED BY <1>1, SystemInvariant, PTL

\* A plate is matched against a watchlist that was current at most the lifetime of the
\* cache and one database round trip before the match began, for any threads and
\* processes (get_active_watchlist, services/watchlist_matcher.py).
THEOREM StalenessBounded == AnySpec => []BoundedStaleness
<1>1. CacheInv => Cache!BoundedStaleness
  BY DEF CacheInv, Cache!BoundedStaleness, Cache!CurrentSince, Since
<1>2. SystemInv => BoundedStaleness
  BY <1>1 DEF SystemInv, BoundedStaleness
<1> QED BY <1>2, SystemInvariant, PTL

\* Batches that take turns raise one open alert per incident (trigger_alert_if_matched,
\* services/watchlist_matcher.py), for any threads, detections and times, whatever the
\* stream path and the operators do.
THEOREM BatchAlertsOnce == AnySpec => []OneBatchAlertPerIncident
<1>1. SystemInv => OneBatchAlertPerIncident
  BY DEF SystemInv, BatchInv, OneBatchAlertPerIncident
<1> QED BY <1>1, SystemInvariant, PTL

\* A sighting that both paths process in turn under one id raises one alert, even if
\* an operator closed it in between (trigger_alert_if_matched).
THEOREM SightingAlertedOnce == AnySpec => []OneAlertPerSighting
<1>1. SystemInv => OneAlertPerSighting
  BY DEF SystemInv, SightingInv, OneAlertPerSighting
<1> QED BY <1>1, SystemInvariant, PTL

\* "without stalling real-time ingestion pipelines" (services/stream_workers.py):
\* whatever threads make whatever calls, those that wait in a circle, each for the
\* lock of another, are making calls that take two locks in opposite orders.
THEOREM OnlyOpposedCallsWait == AnySpec => []OnlyOpposedCallsStall
<1>1. LocksInv => Locking!OnlyOpposedCallsStall
  BY Instances, NoCircle
<1>2. SystemInv => OnlyOpposedCallsStall
  BY <1>1 DEF SystemInv, OnlyOpposedCallsStall
<1> QED BY <1>2, SystemInvariant, PTL
=============================================================================
