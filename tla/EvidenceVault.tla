--------------------------- MODULE EvidenceVault ---------------------------
(***************************************************************************)
(* The evidence vault (services/evidence_vault.py) over its two storage    *)
(* drivers (services/storage/) and the endpoints that ingest a package and *)
(* append to its chain of custody (api/cases.py).                          *)
(*                                                                         *)
(* The local driver opens a file, which truncates it, and then writes it;  *)
(* the object store replaces an object in one step.  What an object holds  *)
(* is abstracted to how much of it is there; only the chain of custody has *)
(* contents.  A process crash leaves files as they are.                    *)
(***************************************************************************)
EXTENDS Naturals, Sequences, SequencesExt

CONSTANTS
  Threads,      \* request threads of one API process
  Packages,     \* evidence ids
  Events,       \* custody events, each logged at most once
  Sealed,       \* the entry EVIDENCE_INGESTED_AND_SEALED
  Drivers,      \* what get_storage may answer: "local" or "minio"
  MaxCrashes, MaxReadFaults   \* bounds

VaultAssumption ==
  /\ Sealed \notin Events /\ Packages # {}
  /\ Drivers \subseteq {"local", "minio"}
  /\ MaxCrashes \in Nat /\ MaxReadFaults \in Nat

Custody == "chain_of_custody"
Media == {"original_frame", "plate_crop", "annotated_frame"}
Objects == Media \union {"metadata", Custody}
Contents == {"absent", "empty", "whole", "broken"}

\* Mutant of Order: the metadata is sealed before the media are stored.
OrderMetadataFirst ==
  <<"metadata", "original_frame", "plate_crop", "annotated_frame", Custody>>

Order == <<"original_frame", "plate_crop", "annotated_frame", "metadata", Custody>>

VARIABLES
  vault,       \* how much is stored of each object of each package
  trail,       \* the contents of each whole chain of custody
  records,     \* packages with a committed Evidence row
  accesses,    \* committed EvidenceAccess rows: package and event
  used,        \* evidence ids handed out, and custody events taken up
  driver,      \* the storage of the process
  pc,          \* each thread's place in a request
  pkg,         \* the package it works on
  step,        \* objects of the package stored so far
  event,       \* the custody event it appends
  copy,        \* the trail it is about to write
  crashes, readFaults,
  ledger,      \* history: each trail as last stored whole
  mixed        \* history: packages that two requests worked on at the same time

stored == <<vault, trail, records, accesses>>
local == <<pkg, step, event, copy>>
vars == <<stored, used, driver, pc, local, crashes, readFaults, ledger, mixed>>

Init ==
  /\ vault = [p \in Packages |-> [o \in Objects |-> "absent"]]
  /\ trail = [p \in Packages |-> <<>>]
  /\ records = {}
  /\ accesses = {}
  /\ used = {}
  /\ driver \in Drivers
  /\ pc = [t \in Threads |-> "idle"]
  /\ pkg = [t \in Threads |-> CHOOSE p \in Packages : TRUE]
  /\ step = [t \in Threads |-> 1]
  /\ event = [t \in Threads |-> Sealed]
  /\ copy = [t \in Threads |-> <<>>]
  /\ crashes = 0 /\ readFaults = 0
  /\ ledger = [p \in Packages |-> <<>>]
  /\ mixed = {}

\* LocalFileStorage is used, not MinIOStorage.
LocalDriver == driver = "local"

Goto(t, place) == pc' = [pc EXCEPT ![t] = place]
Has(p, o, content) == vault' = [vault EXCEPT ![p][o] = content]

-----------------------------------------------------------------------------
(* put_object *)

\* The object a request is storing: the next of the package, or the trail.
Appending(t) == pc[t] \in {"append", "append write"}
Object(t) == IF Appending(t) THEN Custody ELSE Order[step[t]]

Putting(t) == pc[t] \in {"put", "append"}
Opened(t) == pc[t] \in {"write", "append write"}

\* Only the chain of custody may be overwritten.
Unlocked(t) == Object(t) = Custody \/ vault[pkg[t]][Object(t)] = "absent"

\* Mutant of Open: the file is opened for appending and keeps what it holds.
OpenKeeps(t) ==
  /\ LocalDriver
  /\ Putting(t)
  /\ Unlocked(t)
  /\ Has(pkg[t], Object(t), "empty")
  /\ Goto(t, IF pc[t] = "put" THEN "write" ELSE "append write")
  /\ UNCHANGED <<trail, records, accesses, used, local, crashes, readFaults, ledger>>

\* The local driver opens the file.
Open(t) ==
  /\ LocalDriver
  /\ Putting(t)
  /\ Unlocked(t)
  /\ Has(pkg[t], Object(t), "empty")
  /\ trail' = IF Object(t) = Custody THEN [trail EXCEPT ![pkg[t]] = <<>>] ELSE trail
  /\ Goto(t, IF pc[t] = "put" THEN "write" ELSE "append write")
  /\ UNCHANGED <<records, accesses, used, local, crashes, readFaults, ledger>>

Writing(t) == IF LocalDriver THEN Opened(t) ELSE Putting(t) /\ Unlocked(t)

AfterPut(t) ==
  IF Appending(t) THEN Goto(t, "log access") /\ UNCHANGED step
  ELSE /\ step' = [step EXCEPT ![t] = @ + 1]
       /\ Goto(t, IF step[t] = Len(Order) THEN "record" ELSE "put")

\* The file is complete, or the object replaced.
Write(t) ==
  /\ Writing(t)
  /\ Has(pkg[t], Object(t), "whole")
  /\ IF Object(t) = Custody
     THEN /\ trail' = [trail EXCEPT ![pkg[t]] = copy[t]]
          /\ ledger' = [ledger EXCEPT ![pkg[t]] = copy[t]]
     ELSE UNCHANGED <<trail, ledger>>
  /\ AfterPut(t)
  /\ UNCHANGED <<records, accesses, used, pkg, event, copy, crashes, readFaults>>

\* Two threads had the file open: the longer text shows behind the shorter.
WriteOver(t) ==
  /\ LocalDriver
  /\ pc[t] = "append write"
  /\ vault[pkg[t]][Custody] \in {"whole", "broken"}
  /\ Has(pkg[t], Custody, "broken")
  /\ trail' = [trail EXCEPT ![pkg[t]] = <<>>]
  /\ AfterPut(t)
  /\ UNCHANGED <<records, accesses, used, pkg, event, copy, crashes, readFaults,
                 ledger>>

\* Mutant of PutFails: the error is swallowed and the request goes on.
PutFailsGoesOn(t) ==
  /\ Putting(t) \/ Opened(t)
  /\ AfterPut(t)
  /\ UNCHANGED <<stored, used, pkg, event, copy, crashes, readFaults, ledger>>

\* put_object raises, before or after the file was opened: the request fails.
PutFails(t) ==
  /\ Putting(t) \/ Opened(t)
  /\ Goto(t, "idle")
  /\ UNCHANGED <<stored, used, local, crashes, readFaults, ledger>>

-----------------------------------------------------------------------------
(* ingest_evidence_vault_package *)

Ingest(t, p) ==
  /\ pc[t] = "idle"
  /\ p \notin used
  /\ used' = used \union {p}
  /\ pkg' = [pkg EXCEPT ![t] = p]
  /\ step' = [step EXCEPT ![t] = 1]
  /\ event' = [event EXCEPT ![t] = Sealed]
  /\ copy' = [copy EXCEPT ![t] = <<Sealed>>]
  /\ Goto(t, "put")
  /\ UNCHANGED <<stored, crashes, readFaults, ledger>>

\* The Evidence row is committed, or the commit fails.
Record(t) ==
  /\ pc[t] = "record"
  /\ records' = records \union {pkg[t]}
  /\ Goto(t, "idle")
  /\ UNCHANGED <<vault, trail, accesses, used, local, crashes, readFaults, ledger>>

CommitFails(t) ==
  /\ pc[t] \in {"record", "log access"}
  /\ Goto(t, "idle")
  /\ UNCHANGED <<stored, used, local, crashes, readFaults, ledger>>

-----------------------------------------------------------------------------
(* append_vault_custody_log *)

\* A caller knows the ids of recorded packages.  The endpoint does not look
\* whether the package exists; an id made up is never handed out.
AppendEvent(t, p, e) ==
  /\ pc[t] = "idle"
  /\ p \in records \/ p \notin used
  /\ e \notin used
  /\ used' = used \union {p, e}
  /\ pkg' = [pkg EXCEPT ![t] = p]
  /\ event' = [event EXCEPT ![t] = e]
  /\ Goto(t, "read")
  /\ mixed' = mixed \union {p : u \in {v \in Threads : pc[v] # "idle" /\ pkg[v] = p}}
  /\ UNCHANGED <<stored, step, copy, crashes, readFaults, ledger>>

StartFrom(t, entries) ==
  /\ copy' = [copy EXCEPT ![t] = Append(entries, event[t])]
  /\ Goto(t, "append")

\* Mutant of ReadTrail: the trail is not read before it is written.
ReadTrailEmpty(t) ==
  /\ pc[t] = "read"
  /\ StartFrom(t, <<>>)
  /\ UNCHANGED <<stored, used, pkg, step, event, crashes, readFaults, ledger>>

\* No trail, or a file that is open for writing, is taken for an empty trail.
ReadTrail(t) ==
  /\ pc[t] = "read"
  /\ vault[pkg[t]][Custody] # "broken"
  /\ StartFrom(t, IF vault[pkg[t]][Custody] = "whole" THEN trail[pkg[t]] ELSE <<>>)
  /\ UNCHANGED <<stored, used, pkg, step, event, crashes, readFaults, ledger>>

\* json.loads raises.
TrailBroken(t) ==
  /\ pc[t] = "read"
  /\ vault[pkg[t]][Custody] = "broken"
  /\ Goto(t, "idle")
  /\ UNCHANGED <<stored, used, local, crashes, readFaults, ledger>>

\* The object store answers every error as if there were no object.
ReadFails(t) ==
  /\ ~LocalDriver
  /\ pc[t] = "read"
  /\ readFaults < MaxReadFaults
  /\ readFaults' = readFaults + 1
  /\ StartFrom(t, <<>>)
  /\ UNCHANGED <<stored, used, pkg, step, event, crashes, ledger>>

LogAccess(t) ==
  /\ pc[t] = "log access"
  /\ accesses' = accesses \union {[pkg |-> pkg[t], event |-> event[t]]}
  /\ Goto(t, "idle")
  /\ UNCHANGED <<vault, trail, records, used, local, crashes, readFaults, ledger>>

\* The process dies and restarts.
Crash ==
  /\ crashes < MaxCrashes
  /\ crashes' = crashes + 1
  /\ pc' = [t \in Threads |-> "idle"]
  /\ UNCHANGED <<stored, used, local, readFaults, ledger>>

-----------------------------------------------------------------------------
Step(t) ==
  \/ Open(t) \/ Write(t) \/ WriteOver(t) \/ PutFails(t)
  \/ Record(t) \/ CommitFails(t)
  \/ ReadTrail(t) \/ TrailBroken(t) \/ ReadFails(t) \/ LogAccess(t)

Next ==
  /\ UNCHANGED driver
  /\ \/ /\ \/ Crash
           \/ \E t \in Threads : Step(t)
           \/ \E t \in Threads, p \in Packages : Ingest(t, p)
        /\ UNCHANGED mixed
     \/ \E t \in Threads, p \in Packages, e \in Events : AppendEvent(t, p, e)

Spec == Init /\ [][Next]_vars

-----------------------------------------------------------------------------
(* verify_evidence_integrity; nobody tampers, so a whole frame has its hash *)

Verdict(p) ==
  IF vault[p].metadata # "whole" THEN "NOT_FOUND"
  ELSE IF vault[p].original_frame # "whole" THEN "FRAME_CORRUPTED_OR_MISSING"
  ELSE "INTEGRITY_CONFIRMED"

-----------------------------------------------------------------------------
(* Properties *)

\* Every variable keeps its type; a trail has entries exactly while it is whole.
TypeOK ==
  /\ vault \in [Packages -> [Objects -> Contents]]
  /\ trail \in [Packages -> Seq(Events \union {Sealed})]
  /\ \A p \in Packages : trail[p] # <<>> <=> vault[p][Custody] = "whole"
  /\ \A p \in Packages, o \in Objects \ {Custody} : vault[p][o] # "broken"
  /\ records \subseteq Packages
  /\ accesses \subseteq [pkg : Packages, event : Events]
  /\ used \subseteq Packages \union Events
  /\ pc \in [Threads -> {"idle", "put", "write", "record", "read", "append",
                         "append write", "log access"}]
  /\ pkg \in [Threads -> Packages]
  /\ step \in [Threads -> 1 .. Len(Order) + 1]
  /\ event \in [Threads -> Events \union {Sealed}]
  /\ copy \in [Threads -> Seq(Events \union {Sealed})]
  /\ crashes \in 0 .. MaxCrashes /\ readFaults \in 0 .. MaxReadFaults
  /\ ledger \in [Packages -> Seq(Events \union {Sealed})]
  /\ driver \in Drivers
  /\ mixed \subseteq Packages

\* An Evidence row is backed by a sealed package: all its media are whole and
\* it verifies, whatever failed, crashed or ran at the same time.
RecordBacked ==
  \A p \in records :
    /\ Verdict(p) = "INTEGRITY_CONFIRMED"
    /\ \A o \in Media : vault[p][o] = "whole"

\* A package that is still being ingested, or whose ingestion was cut off, is
\* not reported as corrupted.
NoFalseAlarm == \A p \in Packages : Verdict(p) # "FRAME_CORRUPTED_OR_MISSING"

\* "append-only custody": over the object store, a chain of custody that is stored
\* whole extends the one stored before it, as long as no read has failed and no two
\* requests have worked on the package at the same time.
TrailGrows ==
  ~LocalDriver /\ readFaults = 0 =>
    \A p \in Packages \ mixed : IsPrefix(ledger[p], ledger'[p])

\* The database and the vault agree: an access that has its row is in the
\* chain of custody of the package, under the same conditions.
AccessInTrail ==
  ~LocalDriver /\ readFaults = 0 =>
    \A a \in accesses :
      a.pkg \in mixed \/ \E i \in DOMAIN trail[a.pkg] : trail[a.pkg][i] = a.event
=============================================================================
