--------------------------- MODULE IngestContract ---------------------------
(***************************************************************************)
(* What micro-batch ingestion (services/stream_workers.py) promises the    *)
(* publishers of sightings, whatever it does to keep the promise: a        *)
(* sighting that was accepted is held until it is stored, once, or         *)
(* refused into the dead letter queue; and it is neither stored nor        *)
(* refused at any other time.                                              *)
(***************************************************************************)
EXTENDS Naturals

CONSTANT Messages   \* sighting payloads, each published once

VARIABLES
  accepted,  \* payloads that publishers handed over
  held,      \* those ingestion still answers for
  rows,      \* the rows of each payload in the database
  refused    \* payloads given to the dead letter queue

vars == <<accepted, held, rows, refused>>

Init ==
  /\ accepted = {} /\ held = {} /\ refused = {}
  /\ rows = [m \in Messages |-> 0]

Accept ==
  /\ \E m \in Messages \ accepted :
       accepted' = accepted \union {m} /\ held' = held \union {m}
  /\ UNCHANGED <<rows, refused>>

Stored(r) == {m \in Messages : r[m] > 0}

\* Held payloads are stored, refused and let go of, in one step or in several:
\* a batch is let go of as a whole, and may be stored in parts before that.
Settle ==
  /\ \E new \in SUBSET (held \ Stored(rows)) :
       rows' = [m \in Messages |-> IF m \in new THEN 1 ELSE rows[m]]
  /\ refused \subseteq refused' /\ refused' \subseteq refused \union held
  /\ held' \subseteq held /\ held \ held' \subseteq Stored(rows') \union refused'
  /\ UNCHANGED accepted

Next == Accept \/ Settle

Spec == Init /\ [][Next]_vars
=============================================================================
