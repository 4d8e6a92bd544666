------------------------------ MODULE WorkFifo ------------------------------
(***************************************************************************)
(* What the promotion work queue promises its users, whatever array it is  *)
(* kept in: a bounded first-in first-out queue that never holds the same   *)
(* work twice ("work queue members may not repeat", inc/work_queue.h and   *)
(* examples/2_work_queue.c).  WorkQueue implements it with a ring; Mapping *)
(* uses it in place of the ring.                                           *)
(***************************************************************************)
EXTENDS Naturals, Sequences

CONSTANTS
  Works,     \* the (path, cache page index) pairs that can be queued
  Capacity   \* how many of them the queue holds at once

VARIABLE fifo

Queued == {fifo[i] : i \in DOMAIN fifo}

\* insert_work returns false, and changes nothing, when the queue is full or
\* already holds the work.
Accepts(w) == Len(fifo) < Capacity /\ w \notin Queued

Insert(w) == Accepts(w) /\ fifo' = Append(fifo, w)

Remove == fifo # <<>> /\ fifo' = Tail(fifo)

Init == fifo = <<>>

Next == Remove \/ \E w \in Works : Insert(w)

Spec == Init /\ [][Next]_fifo /\ WF_fifo(Remove)
=============================================================================
