----------------------------- MODULE WorkQueue -----------------------------
(***************************************************************************)
(* The shared promotion work queue (lib/work_queue.c): a ring of           *)
(* MAX_WORKQUEUE_SIZE slots in shared memory, many producers (every        *)
(* process that misses in the cache) and one consumer (the migration       *)
(* worker of the admin process).  Each function runs under the queue's own *)
(* spinlock, so it is one atomic step; the consumer's peak_work and        *)
(* remove_work are two critical sections with the migration between them,  *)
(* and producers insert in between.                                        *)
(*                                                                         *)
(* A call that the code refuses (returns false) changes no state; it is a  *)
(* stuttering step and has no action.                                      *)
(***************************************************************************)
EXTENDS Naturals, Sequences, FiniteSets

CONSTANTS
  Works,               \* (full_path_name, cache_page_index) pairs
  NoWork,              \* the content of a zero-filled slot of the segment
  MAX_WORKQUEUE_SIZE   \* slots in the ring

ASSUME WorkQueueAssumption ==
  /\ MAX_WORKQUEUE_SIZE \in Nat /\ MAX_WORKQUEUE_SIZE >= 2
  /\ NoWork \notin Works

VARIABLES
  works,    \* the ring
  front,    \* slot of the oldest work
  rear,     \* slot the next work goes to
  size,     \* the count kept beside the two cursors
  peaked    \* what the consumer copied out and has not removed yet

vars == <<works, front, rear, size, peaked>>

Slots == 0 .. MAX_WORKQUEUE_SIZE - 1

\* As if the loop did not wrap (mutant).
Live_unwrapped == front .. rear - 1

\* The slots visited by "for (i = front; i != rear; i = (i + 1) % MAX)".  The
\* loop looks at the cursors only, never at size.
Live == IF front <= rear THEN front .. rear - 1
                         ELSE Slots \ (rear .. front - 1)

-----------------------------------------------------------------------------
\* alloc_shm hands out zero-filled memory; that is the only initialisation
\* the queue gets (nothing in lib/ calls init_work_queue).
Init ==
  /\ works = [i \in Slots |-> NoWork]
  /\ front = 0 /\ rear = 0 /\ size = 0
  /\ peaked = NoWork

\* As if the ring could use its last slot (mutant).
insert_work_into_last_slot(w) ==
  /\ size # MAX_WORKQUEUE_SIZE
  /\ \A i \in Live : works[i] # w
  /\ works' = [works EXCEPT ![rear] = w]
  /\ rear' = (rear + 1) % MAX_WORKQUEUE_SIZE
  /\ size' = size + 1
  /\ UNCHANGED <<front, peaked>>

\* As if queued works were not looked for (mutant).
insert_work_unchecked(w) ==
  /\ size # MAX_WORKQUEUE_SIZE - 1
  /\ works' = [works EXCEPT ![rear] = w]
  /\ rear' = (rear + 1) % MAX_WORKQUEUE_SIZE
  /\ size' = size + 1
  /\ UNCHANGED <<front, peaked>>

insert_work(w) ==
  /\ size # MAX_WORKQUEUE_SIZE - 1
  /\ \A i \in Live : works[i] # w
  /\ works' = [works EXCEPT ![rear] = w]
  /\ rear' = (rear + 1) % MAX_WORKQUEUE_SIZE
  /\ size' = size + 1
  /\ UNCHANGED <<front, peaked>>

\* As if the newest work were copied (mutant).
peak_work_newest ==
  /\ peaked = NoWork
  /\ size # 0
  /\ peaked' = works[(rear + MAX_WORKQUEUE_SIZE - 1) % MAX_WORKQUEUE_SIZE]
  /\ UNCHANGED <<works, front, rear, size>>

peak_work ==
  /\ peaked = NoWork
  /\ size # 0
  /\ peaked' = works[front]
  /\ UNCHANGED <<works, front, rear, size>>

\* As if the count were forgotten (mutant).
remove_work_keeps_size ==
  /\ peaked # NoWork
  /\ size # 0
  /\ front' = (front + 1) % MAX_WORKQUEUE_SIZE
  /\ peaked' = NoWork
  /\ UNCHANGED <<works, rear, size>>

\* As if the caller forgot to remove (mutant).
remove_work_forgotten == peaked # NoWork /\ peaked' = NoWork /\ UNCHANGED <<works, front, rear, size>>

\* do_migration_work removes only after it has peaked.
remove_work ==
  /\ peaked # NoWork
  /\ size # 0
  /\ front' = (front + 1) % MAX_WORKQUEUE_SIZE
  /\ size' = size - 1
  /\ peaked' = NoWork
  /\ UNCHANGED <<works, rear>>

Consume == peak_work \/ remove_work

Next == Consume \/ \E w \in Works : insert_work(w)

\* The worker loops for as long as it lives and no step of it blocks on a
\* producer for good; producers may stop at any time.
Spec == Init /\ [][Next]_vars /\ WF_vars(Consume)

-----------------------------------------------------------------------------
\* The cursors stay inside the array and the count below its size (the count
\* MAX_WORKQUEUE_SIZE that is_full compares with is never reached).
TypeOK ==
  /\ works \in [Slots -> Works \cup {NoWork}]
  /\ front \in Slots /\ rear \in Slots
  /\ size \in 0 .. MAX_WORKQUEUE_SIZE - 1
  /\ peaked \in Works \cup {NoWork}

\* The counter that refuses an insertion and the cursors that the loops walk
\* agree after any mix of insertions and removals around the end of the
\* array, so a slot that is still queued is never overwritten.
SizeMatchesCursors ==
  size = IF front <= rear THEN rear - front
                          ELSE rear + MAX_WORKQUEUE_SIZE - front

\* No work is queued twice (inc/work_queue.h:7), and no queued slot is one
\* that was never written.
NoDuplicateWork ==
  /\ \A i \in Live : works[i] \in Works
  /\ \A i, j \in Live : works[i] = works[j] => i = j

\* Between peak_work and remove_work the consumer holds no lock: whatever the
\* producers insert meanwhile, the head stays what it copied, so remove_work
\* drops the work that was done and not another one.
PeakedIsHead == peaked # NoWork => size > 0 /\ works[front] = peaked

\* The queued works in order: the state of the abstract queue.
Contents ==
  [i \in 1 .. size |-> works[IF front + i - 1 < MAX_WORKQUEUE_SIZE
                             THEN front + i - 1
                             ELSE front + i - 1 - MAX_WORKQUEUE_SIZE]]

Fifo == INSTANCE WorkFifo WITH fifo <- Contents, Capacity <- MAX_WORKQUEUE_SIZE - 1

\* The ring implements the bounded duplicate-free queue, fairness included:
\* works leave in the order in which they came, and the queue keeps draining.
FifoSpec == Fifo!Spec

\* Every queued work is eventually taken out by the consumer, however many
\* producers keep inserting.
WorkConsumed == \A w \in Works : w \in Fifo!Queued ~> w \notin Fifo!Queued
=============================================================================
