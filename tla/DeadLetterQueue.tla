-------------------------- MODULE DeadLetterQueue --------------------------
(***************************************************************************)
(* The bounded deque behind DeadLetterQueueManager                         *)
(* (services/stream_workers.py): collections.deque(maxlen = DlqMax).       *)
(* Appending to a full deque silently discards its oldest element, and a   *)
(* replay splits the deque into a window to retry and the rest.            *)
(***************************************************************************)
EXTENDS Naturals, Sequences

CONSTANT DlqMax     \* maxlen of the deque (1000 in the code)

ASSUME DlqMaxAssumption == DlqMax \in Nat \ {0}

Elements(q) == {q[i] : i \in 1 .. Len(q)}

\* Mutant of Push: a deque without maxlen.
PushUnbounded(q, x) == Append(q, x)

\* deque.append on a bounded deque
Push(q, x) == Append(IF Len(q) < DlqMax THEN q ELSE Tail(q), x)

\* what that append throws away
Displaced(q) == IF Len(q) < DlqMax THEN {} ELSE {Head(q)}

\* list(dlq)[:max_count] and list(dlq)[max_count:]
RetryWindow(q, k) == SubSeq(q, 1, IF k < Len(q) THEN k ELSE Len(q))
BeyondWindow(q, k) == IF k < Len(q) THEN SubSeq(q, k + 1, Len(q)) ELSE <<>>
=============================================================================
