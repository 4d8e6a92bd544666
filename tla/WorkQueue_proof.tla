-------------------------- MODULE WorkQueue_proof --------------------------
(***************************************************************************)
(* The ring of lib/work_queue.c, for every size of the ring and every set  *)
(* of works: the invariants of WorkQueue, which are inductive together.    *)
(***************************************************************************)
EXTENDS WorkQueue, SequenceTheorems, TLAPS

USE DEF Slots

Inv == TypeOK /\ SizeMatchesCursors /\ NoDuplicateWork /\ PeakedIsHead

\* The cursor arithmetic of the ring.
LEMMA NextSlot ==
  ASSUME NEW x \in Slots
  PROVE  (x + 1) % MAX_WORKQUEUE_SIZE = IF x = MAX_WORKQUEUE_SIZE - 1 THEN 0 ELSE x + 1
  BY WorkQueueAssumption

\* The slots that the loops visit, told by the cursors.
LEMMA LiveSlots ==
  ASSUME front \in Slots, rear \in Slots
  PROVE  \A i : i \in Live <=>
           /\ i \in Slots
           /\ IF front <= rear THEN front <= i /\ i < rear ELSE front <= i \/ i < rear
  BY WorkQueueAssumption DEF Live

\* The ring holds one work fewer than it has slots, and the count is exact, so
\* the slot that an insertion writes is not a live one.
LEMMA RearIsNotLive ==
  ASSUME front \in Slots, rear \in Slots
  PROVE  rear \notin Live
  BY LiveSlots

LEMMA InitInv == Init => Inv
  <1> SUFFICES ASSUME Init PROVE Inv
    OBVIOUS
  <1>1. TypeOK
    BY WorkQueueAssumption DEF Init, TypeOK
  <1>2. SizeMatchesCursors
    BY WorkQueueAssumption DEF Init, SizeMatchesCursors
  <1>3. Live = {}
    BY LiveSlots, WorkQueueAssumption DEF Init
  <1> QED
    BY <1>1, <1>2, <1>3 DEF Inv, NoDuplicateWork, PeakedIsHead, Init

LEMMA InsertInv ==
  ASSUME Inv, NEW w \in Works, insert_work(w)
  PROVE  Inv'
  <1> USE WorkQueueAssumption
  <1> DEFINE next(x) == IF x = MAX_WORKQUEUE_SIZE - 1 THEN 0 ELSE x + 1
  <1>0. /\ front \in Slots /\ rear \in Slots /\ size \in 0 .. MAX_WORKQUEUE_SIZE - 1
        /\ works \in [Slots -> Works \cup {NoWork}]
    BY DEF Inv, TypeOK
  <1>1. rear' = next(rear) /\ front' = front /\ size' = size + 1 /\ peaked' = peaked
    BY <1>0, NextSlot DEF insert_work
  <1>2. works' = [works EXCEPT ![rear] = w]
    BY DEF insert_work
  <1>3. size' \in 0 .. MAX_WORKQUEUE_SIZE - 1 /\ rear' \in Slots
    BY <1>0, <1>1 DEF insert_work
  <1>4. TypeOK'
    BY <1>0, <1>1, <1>2, <1>3 DEF Inv, TypeOK
  <1>5. SizeMatchesCursors'
    BY <1>0, <1>1, <1>3 DEF Inv, SizeMatchesCursors, insert_work
  <1>6. Live' = Live \cup {rear}
    <2>1. \A i : i \in Live' <=>
            /\ i \in Slots
            /\ IF front' <= rear' THEN front' <= i /\ i < rear' ELSE front' <= i \/ i < rear'
      BY <1>0, <1>1, <1>3 DEF Live
    <2>2. size # MAX_WORKQUEUE_SIZE - 1 /\ SizeMatchesCursors
      BY DEF Inv, insert_work
    <2> QED
      BY <1>0, <1>1, <2>1, <2>2, LiveSlots DEF SizeMatchesCursors
  <1>7. rear \notin Live /\ Live \subseteq Slots
    BY <1>0, LiveSlots
  <1>8. \A i \in Live : works'[i] = works[i] /\ works[i] # w
    BY <1>0, <1>2, <1>7 DEF insert_work
  <1>9. works'[rear] = w
    BY <1>0, <1>2
  <1>10. NoDuplicateWork'
    BY <1>6, <1>8, <1>9 DEF Inv, NoDuplicateWork
  <1>11. PeakedIsHead'
    <2>1. ASSUME peaked # NoWork PROVE front # rear
      BY <1>0, <2>1 DEF Inv, PeakedIsHead, SizeMatchesCursors
    <2> QED
      BY <1>0, <1>1, <1>2, <2>1 DEF Inv, PeakedIsHead
  <1> QED
    BY <1>4, <1>5, <1>10, <1>11 DEF Inv

LEMMA PeakInv ==
  ASSUME Inv, peak_work
  PROVE  Inv'
  <1> USE WorkQueueAssumption
  <1>1. Live' = Live /\ UNCHANGED <<works, front, rear, size>>
    BY DEF peak_work, Live
  <1>2. TypeOK'
    BY <1>1 DEF Inv, TypeOK, peak_work
  <1>3. SizeMatchesCursors' /\ NoDuplicateWork'
    BY <1>1 DEF Inv, SizeMatchesCursors, NoDuplicateWork
  <1>4. PeakedIsHead'
    BY <1>1 DEF Inv, TypeOK, PeakedIsHead, peak_work
  <1> QED
    BY <1>2, <1>3, <1>4 DEF Inv

LEMMA RemoveInv ==
  ASSUME Inv, remove_work
  PROVE  Inv'
  <1> USE WorkQueueAssumption
  <1>0. /\ front \in Slots /\ rear \in Slots /\ size \in 0 .. MAX_WORKQUEUE_SIZE - 1
        /\ size # 0 /\ SizeMatchesCursors
    BY DEF Inv, TypeOK, remove_work
  <1>1. /\ front' = IF front = MAX_WORKQUEUE_SIZE - 1 THEN 0 ELSE front + 1
        /\ rear' = rear /\ size' = size - 1 /\ peaked' = NoWork /\ works' = works
    BY <1>0, NextSlot DEF remove_work
  <1>2. TypeOK'
    BY <1>0, <1>1 DEF Inv, TypeOK
  <1>3. SizeMatchesCursors'
    BY <1>0, <1>1 DEF SizeMatchesCursors
  <1>4. Live' \subseteq Live
    <2>1. \A i : i \in Live' <=>
            /\ i \in Slots
            /\ IF front' <= rear' THEN front' <= i /\ i < rear' ELSE front' <= i \/ i < rear'
      BY <1>0, <1>1 DEF Live
    <2> QED
      BY <1>0, <1>1, <2>1, LiveSlots DEF SizeMatchesCursors
  <1>5. NoDuplicateWork'
    BY <1>1, <1>4 DEF Inv, NoDuplicateWork
  <1>6. PeakedIsHead'
    BY <1>1 DEF PeakedIsHead
  <1> QED
    BY <1>2, <1>3, <1>5, <1>6 DEF Inv

LEMMA StepInv == Inv /\ [Next]_vars => Inv'
  <1> SUFFICES ASSUME Inv, [Next]_vars PROVE Inv'
    OBVIOUS
  <1>1. CASE \E w \in Works : insert_work(w)
    BY <1>1, InsertInv
  <1>2. CASE peak_work
    BY <1>2, PeakInv
  <1>3. CASE remove_work
    BY <1>3, RemoveInv
  <1>4. CASE UNCHANGED vars
    BY <1>4 DEF vars, Inv, TypeOK, SizeMatchesCursors, NoDuplicateWork, PeakedIsHead, Live
  <1> QED
    BY <1>1, <1>2, <1>3, <1>4 DEF Next, Consume

\* All four invariants of the ring together.
THEOREM RingInvariant == Spec => []Inv
  BY InitInv, StepInv, PTL DEF Spec

\* The state of the ring has its type: the cursors stay inside the array and
\* the count stays below the number of slots.
THEOREM TypeCorrect == Spec => []TypeOK
  BY RingInvariant, PTL DEF Inv

\* The count and the cursors agree, for a ring of any size (work_queue.c:38-73).
THEOREM CountCorrect == Spec => []SizeMatchesCursors
  BY RingInvariant, PTL DEF Inv

\* No work is queued twice, whatever the producers insert and in which order.
THEOREM NeverTwice == Spec => []NoDuplicateWork
  BY RingInvariant, PTL DEF Inv

\* What the consumer copied out is what it removes.
THEOREM HeadIsStable == Spec => []PeakedIsHead
  BY RingInvariant, PTL DEF Inv

-----------------------------------------------------------------------------
(* The ring implements the abstract queue.                                  *)

\* Where the i-th oldest work is.
Slot(i) == IF front + i - 1 < MAX_WORKQUEUE_SIZE THEN front + i - 1
           ELSE front + i - 1 - MAX_WORKQUEUE_SIZE

LEMMA ContentsSeq ==
  ASSUME Inv
  PROVE  /\ Contents \in Seq(Works) /\ Len(Contents) = size
         /\ DOMAIN Contents = 1 .. size
         /\ \A i \in 1 .. size : Contents[i] = works[Slot(i)] /\ Slot(i) \in Live
  <1> USE WorkQueueAssumption
  <1>0. /\ front \in Slots /\ rear \in Slots /\ size \in 0 .. MAX_WORKQUEUE_SIZE - 1
        /\ SizeMatchesCursors
    BY DEF Inv, TypeOK
  <1>1. \A i \in 1 .. size : Slot(i) \in Live
    BY <1>0, LiveSlots DEF Slot, SizeMatchesCursors
  <1>2. Contents = [i \in 1 .. size |-> works[Slot(i)]]
    BY DEF Contents, Slot
  <1>3. \A i \in 1 .. size : works[Slot(i)] \in Works
    BY <1>1 DEF Inv, NoDuplicateWork
  <1> QED
    BY <1>0, <1>1, <1>2, <1>3

LEMMA InsertImplementsInsert ==
  ASSUME Inv, NEW w \in Works, insert_work(w)
  PROVE  Fifo!Insert(w)
  <1> USE WorkQueueAssumption
  <1>0. /\ front \in Slots /\ rear \in Slots /\ size \in 0 .. MAX_WORKQUEUE_SIZE - 1
        /\ works \in [Slots -> Works \cup {NoWork}] /\ SizeMatchesCursors
    BY DEF Inv, TypeOK
  <1>1. size # MAX_WORKQUEUE_SIZE - 1 /\ \A i \in Live : works[i] # w
    BY DEF insert_work
  <1>2. Fifo!Accepts(w)
    BY <1>0, <1>1, ContentsSeq DEF Fifo!Accepts, Fifo!Queued
  <1>3. works' = [works EXCEPT ![rear] = w] /\ size' = size + 1 /\ front' = front
    BY DEF insert_work
  <1>4. Contents' = [i \in 1 .. size + 1 |-> works'[Slot(i)]]
    BY <1>3 DEF Contents, Slot
  <1>5. Slot(size + 1) = rear
    BY <1>0, <1>1 DEF Slot, SizeMatchesCursors
  <1>6. \A i \in 1 .. size : works'[Slot(i)] = Contents[i]
    BY <1>0, <1>3, ContentsSeq, RearIsNotLive, LiveSlots
  <1>7. works'[Slot(size + 1)] = w
    BY <1>0, <1>3, <1>5
  <1>8. /\ Append(Contents, w) \in Seq(Works) /\ Len(Append(Contents, w)) = size + 1
        /\ \A i \in 1 .. size : Append(Contents, w)[i] = Contents[i]
        /\ Append(Contents, w)[size + 1] = w
    BY ContentsSeq, AppendProperties
  <1>9. Contents' = Append(Contents, w)
    <2>1. /\ Contents' \in Seq(Works) /\ Len(Contents') = size + 1
          /\ \A i \in 1 .. size + 1 : Contents'[i] = works'[Slot(i)]
      <3>1. \A i \in 1 .. size + 1 : works'[Slot(i)] \in Works
        BY <1>0, <1>6, <1>7, ContentsSeq, ElementOfSeq
      <3> QED
        BY <1>0, <1>4, <3>1
    <2>2. \A i \in 1 .. size + 1 : Contents'[i] = Append(Contents, w)[i]
      BY <1>0, <1>6, <1>7, <1>8, <2>1
    <2> QED
      BY <1>8, <2>1, <2>2, SeqEqual
  <1> QED
    BY <1>2, <1>9 DEF Fifo!Insert

LEMMA RemoveImplementsRemove ==
  ASSUME Inv, remove_work
  PROVE  Fifo!Remove
  <1> USE WorkQueueAssumption
  <1>0. /\ front \in Slots /\ size \in 1 .. MAX_WORKQUEUE_SIZE - 1
    BY DEF Inv, TypeOK, remove_work
  <1>1. /\ front' = IF front = MAX_WORKQUEUE_SIZE - 1 THEN 0 ELSE front + 1
        /\ size' = size - 1 /\ works' = works
    BY <1>0, NextSlot DEF remove_work
  <1>2. Contents' = [i \in 1 .. size - 1 |-> works[Slot(i)']]
    BY <1>1 DEF Contents, Slot
  <1>3. \A i \in 1 .. size - 1 : Slot(i)' = Slot(i + 1)
    BY <1>0, <1>1 DEF Slot
  <1>4. Contents # <<>>
    BY <1>0, ContentsSeq
  <1>5. /\ Tail(Contents) \in Seq(Works) /\ Len(Tail(Contents)) = size - 1
        /\ \A i \in 1 .. size - 1 : Tail(Contents)[i] = Contents[i + 1]
    BY <1>0, <1>4, ContentsSeq, HeadTailProperties
  <1>6. Contents' = Tail(Contents)
    <2>1. /\ Contents' \in Seq(Works) /\ Len(Contents') = size - 1
          /\ \A i \in 1 .. size - 1 : Contents'[i] = works[Slot(i + 1)]
      <3>1. Contents' = [i \in 1 .. size - 1 |-> works[Slot(i + 1)]]
        BY <1>2, <1>3
      <3>2. \A i \in 1 .. size - 1 : works[Slot(i + 1)] \in Works
        BY <1>0, ContentsSeq DEF Inv, NoDuplicateWork
      <3> QED
        BY <1>0, <3>1, <3>2
    <2>2. \A i \in 1 .. size - 1 : Contents'[i] = Tail(Contents)[i]
      BY <1>0, <1>5, <2>1, ContentsSeq
    <2> QED
      BY <1>5, <2>1, <2>2, SeqEqual
  <1> QED
    BY <1>4, <1>6 DEF Fifo!Remove

\* Every behaviour of the ring is, read through Contents, one of the bounded
\* duplicate-free queue: the safety half of FifoSpec.
THEOREM RingIsFifo == Spec => Fifo!Init /\ [][Fifo!Next]_Contents
  <1>1. Init => Fifo!Init
    BY DEF Init, Fifo!Init, Contents
  <1>2. ASSUME Inv, [Next]_vars PROVE [Fifo!Next]_Contents
    <2>1. CASE \E w \in Works : insert_work(w)
      BY <1>2, <2>1, InsertImplementsInsert DEF Fifo!Next
    <2>2. CASE remove_work
      BY <1>2, <2>2, RemoveImplementsRemove DEF Fifo!Next
    <2>3. CASE peak_work \/ UNCHANGED vars
      <3>1. works' = works /\ front' = front /\ size' = size
        BY <2>3 DEF peak_work, vars
      <3> QED
        BY <3>1 DEF Contents
    <2> QED
      BY <1>2, <2>1, <2>2, <2>3 DEF Next, Consume
  <1> QED
    BY <1>1, <1>2, RingInvariant, PTL DEF Spec
=============================================================================
