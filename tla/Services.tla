------------------------------ MODULE Services ------------------------------
(***************************************************************************)
(* Small components that share no state, one at a time: the audit chain    *)
(* (AuditChain, whose own variables and properties these are), the         *)
(* watchlist cache, the deduplication of alerts, the evidence vault and    *)
(* the locks of the pipeline.  `part` is the one that runs; the variables  *)
(* of the others stay Off, the table of the audit chain empty.  The states *)
(* are the sum of the components' states, and a component's behaviours are *)
(* its own.                                                                *)
(***************************************************************************)
EXTENDS AuditChain

CONSTANTS
  Hosts, HostOf, Entries, Ttl, MaxIO, MaxTime, MaxChanges,      \* of WatchlistCache
  Workers, Detections, Keyed, Paths, SeenAt, Window, MaxActions,    \* of AlertDedup
  Writers, Packages, Events, Sealed, Drivers, MaxCrashes, MaxReadFaults,
                                                                \* of EvidenceVault
  Callers, Calls, MaxCalls,                                     \* of PipelineLocks
  Off   \* the value of a variable of a component that does not run

VARIABLES
  part,
  now, active, cached, cacheTime, started, list, readAt, changes, current,
  settled,                                                      \* WatchlistCache
  handled, saved, alerts, task, actions, crossed,               \* AlertDedup
  vault, trail, records, accesses, used, driver, pkg, step, event, copy, crashes,
  readFaults, ledger, mixed,                                    \* EvidenceVault
  holder, depth, doing, todo, calls                             \* PipelineLocks

cacheVars == <<now, active, cached, cacheTime, started, list, readAt, changes,
               current, settled>>
alertVars == <<handled, saved, alerts, task, actions, crossed>>
vaultVars == <<vault, trail, records, accesses, used, driver, pkg, step, event, copy,
               crashes, readFaults, ledger, mixed>>
lockVars == <<holder, depth, doing, todo, calls>>
auditVars == <<rows, clock, lock, prev, stamp>>   \* pc is of every component
allVars == <<part, pc, auditVars, cacheVars, alertVars, vaultVars, lockVars>>

Cache == INSTANCE WatchlistCache WITH Processes <- Hosts, ProcessOf <- HostOf
Dedup == INSTANCE AlertDedup WITH Threads <- Workers
Vault == INSTANCE EvidenceVault WITH Threads <- Writers
Locking == INSTANCE PipelineLocks WITH Threads <- Callers

ASSUME Instances ==
  /\ Cache!CacheAssumption
  /\ Dedup!AlertAssumption
  /\ Vault!VaultAssumption
  /\ Locking!LocksAssumption

AuditOff == rows = {} /\ clock = Off /\ lock = Off /\ prev = Off /\ stamp = Off
CacheOff ==
  /\ now = Off /\ active = Off /\ cached = Off /\ cacheTime = Off /\ started = Off
  /\ list = Off /\ readAt = Off /\ changes = Off /\ current = Off /\ settled = Off
AlertsOff ==
  /\ handled = Off /\ saved = Off /\ alerts = Off /\ task = Off /\ actions = Off
  /\ crossed = Off
VaultOff ==
  /\ vault = Off /\ trail = Off /\ records = Off /\ accesses = Off /\ used = Off
  /\ driver = Off /\ pkg = Off /\ step = Off /\ event = Off /\ copy = Off
  /\ crashes = Off /\ readFaults = Off /\ ledger = Off /\ mixed = Off
LocksOff ==
  holder = Off /\ depth = Off /\ doing = Off /\ todo = Off /\ calls = Off

LocksInit ==
  /\ part = "locks" /\ Locking!Init /\ pc = Off
  /\ AuditOff /\ CacheOff /\ AlertsOff /\ VaultOff

AnyInit ==
  \/ part = "audit" /\ Init /\ CacheOff /\ AlertsOff /\ VaultOff /\ LocksOff
  \/ part = "cache" /\ Cache!Init /\ AuditOff /\ AlertsOff /\ VaultOff /\ LocksOff
  \/ part = "alerts" /\ Dedup!Init /\ AuditOff /\ CacheOff /\ VaultOff /\ LocksOff
  \/ part = "vault" /\ Vault!Init /\ AuditOff /\ CacheOff /\ AlertsOff /\ LocksOff
  \/ LocksInit

LocksNext ==
  /\ part = "locks" /\ Locking!Next
  /\ UNCHANGED <<part, pc, auditVars, cacheVars, alertVars, vaultVars>>

AnyNext ==
  \/ part = "audit" /\ Next /\ UNCHANGED <<part, cacheVars, alertVars, vaultVars, lockVars>>
  \/ /\ part = "cache" /\ Cache!Next
     /\ UNCHANGED <<part, auditVars, alertVars, vaultVars, lockVars>>
  \/ /\ part = "alerts" /\ Dedup!Next
     /\ UNCHANGED <<part, auditVars, cacheVars, vaultVars, lockVars>>
  \/ /\ part = "vault" /\ Vault!Next
     /\ UNCHANGED <<part, auditVars, cacheVars, alertVars, lockVars>>
  \/ LocksNext

AnySpec == AnyInit /\ [][AnyNext]_allVars

\* The locks alone.
LocksSpec == LocksInit /\ [][LocksNext]_allVars
-----------------------------------------------------------------------------
\* The types of each component.
TypesOK ==
  /\ part = "audit" => TypeOK
  /\ part = "cache" => Cache!TypeOK
  /\ part = "alerts" => Dedup!TypeOK
  /\ part = "vault" => Vault!TypeOK
  /\ part = "locks" => Locking!TypeOK

\* No match uses a list older than its lifetime and one database round trip.
BoundedStaleness == part = "cache" => Cache!BoundedStaleness

\* The batch path raises one open alert per incident (watchlist_matcher.py:86).
OneBatchAlertPerIncident == part = "alerts" => Dedup!OneBatchAlertPerIncident

\* A sighting whose payload carries its id is alerted once over both paths.
OneAlertPerSighting == part = "alerts" => Dedup!OneAlertPerSighting

\* An Evidence row is backed by a whole, verifiable package, on either driver.
RecordBacked == part = "vault" => Vault!RecordBacked

\* A package cut off while it is ingested is not reported as corrupted.
NoFalseAlarm == part = "vault" => Vault!NoFalseAlarm

\* A custody event with a row is in the chain of custody of the object store, but
\* for failed reads and requests that overlap.
AccessInTrail == part = "vault" => Vault!AccessInTrail

\* Only calls that take two locks in opposite orders wait in a circle (PipelineLocks).
OnlyOpposedCallsStall == part = "locks" => Locking!OnlyOpposedCallsStall

\* "without stalling real-time ingestion pipelines": no circle of waiting threads at
\* all, whatever the endpoints call.
NoCircularWait == part = "locks" => Locking!NoCircularWait

\* "append-only custody": a chain of custody stored whole extends the last one, but
\* for failed reads and requests that overlap.
AppendOnly == [][part = "vault" => Vault!TrailGrows]_allVars
=============================================================================
