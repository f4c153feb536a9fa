------------------------ MODULE PthreadQueueProofs ------------------------
(***************************************************************************)
(* Proofs about PthreadQueue for every set of threads, every set of        *)
(* pointers and every capacity: its type invariant, the consistency of the *)
(* ring, and that it implements the abstract queue LinearFifo.             *)
(***************************************************************************)
EXTENDS PthreadQueue, SequenceTheorems, TLAPS

\* TypeOK needs the ring's consistency to be inductive (the size stays within
\* the capacity because a check made under the mutex is still true when it is
\* used), and QueueInv needs TypeOK.
IInv == TypeOK /\ QueueInv

USE CapacityAssumption, FreeAssumption DEF Free

-----------------------------------------------------------------------------
(* Indices of the ring.                                                    *)

\* An index reduced modulo the capacity is an index of the array.
LEMMA ModInRange ==
  ASSUME NEW a \in Nat
  PROVE  a % Capacity \in 0..(Capacity - 1)
  OBVIOUS

\* An index of the array is its own residue.
LEMMA ModSmall ==
  ASSUME NEW a \in 0..(Capacity - 1)
  PROVE  a % Capacity = a
  OBVIOUS

\* A step of less than one turn from a slot wraps at most once.
LEMMA WrapOnce ==
  ASSUME NEW a \in 0..(Capacity - 1), NEW k \in 0..Capacity
  PROVE  (a + k) % Capacity = IF a + k < Capacity THEN a + k ELSE a + k - Capacity
  OBVIOUS

\* Advancing an index by one slot, at either end of k elements.
LEMMA SuccMod ==
  ASSUME NEW a \in 0..(Capacity - 1), NEW k \in 1..Capacity
  PROVE  (((a + (k - 1)) % Capacity) + 1) % Capacity = (a + k) % Capacity
<1>1. k - 1 \in 0..Capacity /\ k \in 0..Capacity
  OBVIOUS
<1>2. CASE a + (k - 1) < Capacity
  <2>1. (a + (k - 1)) % Capacity = a + (k - 1)
    BY <1>1, <1>2, WrapOnce
  <2>2. a + (k - 1) + 1 = a + k
    OBVIOUS
  <2> QED BY <2>1, <2>2
<1>3. CASE ~(a + (k - 1) < Capacity)
  <2>1. (a + (k - 1)) % Capacity = a + (k - 1) - Capacity
    BY <1>1, <1>3, WrapOnce
  <2>2. (a + k) % Capacity = a + k - Capacity
    <3>1. ~(a + k < Capacity)
      BY <1>3
    <3> QED BY <1>1, <3>1, WrapOnce
  <2>3. a + k - Capacity \in 0..(Capacity - 1)
    BY <1>3
  <2>4. (a + k - Capacity) % Capacity = a + k - Capacity
    BY <2>3, ModSmall
  <2>5. a + (k - 1) - Capacity + 1 = a + k - Capacity
    OBVIOUS
  <2> QED BY <2>1, <2>2, <2>4, <2>5
<1> QED BY <1>2, <1>3

\* Counting from the second slot instead of the first reaches the same slot with
\* one step less.
LEMMA StartMod ==
  ASSUME NEW a \in 0..(Capacity - 1), NEW k \in 1..Capacity
  PROVE  (a + k) % Capacity = (((a + 1) % Capacity) + (k - 1)) % Capacity
<1>1. k - 1 \in 0..Capacity /\ k \in 0..Capacity /\ 1 \in 0..Capacity
  OBVIOUS
<1>2. CASE a + 1 < Capacity
  <2>1. (a + 1) % Capacity = a + 1
    BY <1>1, <1>2, WrapOnce
  <2>2. a + 1 + (k - 1) = a + k
    OBVIOUS
  <2> QED BY <2>1, <2>2
<1>3. CASE ~(a + 1 < Capacity)
  <2>1. a = Capacity - 1 /\ (a + 1) % Capacity = 0
    BY <1>1, <1>3, WrapOnce
  <2>2. (k - 1) % Capacity = k - 1 /\ 0 + (k - 1) = k - 1
    <3>1. k - 1 \in 0..(Capacity - 1)
      OBVIOUS
    <3> QED BY <3>1, ModSmall
  <2>3. (a + k) % Capacity = a + k - Capacity
    <3>1. ~(a + k < Capacity)
      BY <2>1
    <3> QED BY <1>1, <3>1, WrapOnce
  <2> QED BY <2>1, <2>2, <2>3
<1> QED BY <1>2, <1>3

\* Slots less than a turn apart differ.
LEMMA SlotsDiffer ==
  ASSUME NEW a \in 0..(Capacity - 1), NEW j \in 0..Capacity, NEW k \in 0..Capacity,
         j < k, k < Capacity
  PROVE  (a + j) % Capacity # (a + k) % Capacity
<1>1. (a + j) % Capacity = IF a + j < Capacity THEN a + j ELSE a + j - Capacity
  BY WrapOnce
<1>2. (a + k) % Capacity = IF a + k < Capacity THEN a + k ELSE a + k - Capacity
  BY WrapOnce
<1>3. (IF a + j < Capacity THEN a + j ELSE a + j - Capacity)
        # (IF a + k < Capacity THEN a + k ELSE a + k - Capacity)
  OBVIOUS
<1> QED BY <1>1, <1>2, <1>3

-----------------------------------------------------------------------------
(* The inductive invariant.                                                *)

\* An empty ring with a free mutex is consistent.
LEMMA InitIInv == Init => IInv
<1> SUFFICES ASSUME Init PROVE IInv
  OBVIOUS
<1>1. TypeOK
  BY DEF Init, TypeOK, PCs, Pointers
<1>2. OwnerInv
  BY DEF Init, OwnerInv, Critical, EnqueuePCs, DequeuePCs, SizePCs, LockPCs
<1>3. IndexInv
  BY DEF Init, IndexInv, First, Filled, At
<1>4. CheckedInv
  BY DEF Init, CheckedInv, EnqueuePCs
<1> QED BY <1>1, <1>2, <1>3, <1>4 DEF IInv, QueueInv

\* Two threads are never inside a critical section at once.
LEMMA OneOwner ==
  ASSUME IInv, NEW t \in Threads, NEW u \in Threads,
         pc[t] \in Critical, pc[u] \in Critical
  PROVE  t = u
  BY DEF IInv, QueueInv, OwnerInv

\* A statement of a critical section is executed by the owner or by nobody.
LEMMA AtOwner ==
  ASSUME IInv, NEW t \in Threads, pc[t] \in Critical, NEW s \in Critical
  PROVE  At(s) <=> pc[t] = s
  BY OneOwner DEF At

\* A call only moves its thread to the statement that takes the mutex.
LEMMA CallPreserves ==
  ASSUME IInv, NEW t \in Threads, Call(t)
  PROVE  IInv'
<1> USE DEF IInv, QueueInv, EnqueuePCs, DequeuePCs, SizePCs, LockPCs, PCs
<1>1. /\ UNCHANGED <<buffer, size, in, out, mutex>>
      /\ pc[t] = "idle"
      /\ \E p \in LockPCs : /\ pc' = [pc EXCEPT ![t] = p]
                            /\ p = "enq_lock" => local'[t] \in Pointers
      /\ \/ local' = local
         \/ \E v \in Pointers : local' = [local EXCEPT ![t] = v]
  BY DEF Call, CallEnqueue, CallDequeue, CallSize, Goto, TypeOK
<1>2. TypeOK'
  BY <1>1 DEF TypeOK
<1>3. OwnerInv'
  BY <1>1 DEF TypeOK, OwnerInv, Critical
<1>4. IndexInv'
  BY <1>1 DEF TypeOK, IndexInv, First, Filled, At
<1>5. CheckedInv'
  BY <1>1 DEF TypeOK, CheckedInv
<1> QED BY <1>2, <1>3, <1>4, <1>5

\* Taking the mutex makes a thread the owner and changes nothing else.
LEMMA LockPreserves ==
  ASSUME IInv, NEW t \in Threads, Lock(t)
  PROVE  IInv'
<1> USE DEF IInv, QueueInv, EnqueuePCs, DequeuePCs, SizePCs, LockPCs, PCs
<1>1. /\ UNCHANGED <<buffer, size, in, out, local>>
      /\ mutex = Free /\ mutex' = t
      /\ pc[t] \in LockPCs
      /\ \E p \in {"enq_check", "deq_check", "size_read"} :
           /\ pc' = [pc EXCEPT ![t] = p]
           /\ p = "enq_check" => pc[t] = "enq_lock"
  BY DEF Lock, EnqLock, DeqLock, SizeLock, Goto, Acquire, TypeOK
<1>2. TypeOK'
  BY <1>1 DEF TypeOK
<1>3. OwnerInv'
  BY <1>1 DEF TypeOK, OwnerInv, Critical
<1>4. IndexInv'
  BY <1>1 DEF TypeOK, IndexInv, First, Filled, At
<1>5. CheckedInv'
  BY <1>1 DEF TypeOK, CheckedInv
<1> QED BY <1>2, <1>3, <1>4, <1>5

\* A step of the owner t to statement p: every other thread stays outside its
\* critical section, so only the owner's part of the invariant is disturbed.
Moved(t, p) ==
  /\ pc[t] \in Critical
  /\ \A s \in Critical : At(s) <=> pc[t] = s
  /\ \A s \in Critical : At(s)' <=> p = s
  /\ \A u \in Threads : pc'[u] = IF u = t THEN p ELSE pc[u]
  /\ \A u \in Threads \ {t} : pc[u] \notin Critical
  /\ pc' \in [Threads -> PCs]
  /\ mutex' \in Threads \cup {Free}
  /\ OwnerInv'

\* The owner of the mutex goes from one statement to the next: it stays the owner
\* as long as the next one is in the critical section, and no thread is when it
\* gives the mutex back.
LEMMA OwnerStep ==
  ASSUME IInv, NEW t \in Threads, pc[t] \in Critical,
         NEW p \in PCs, pc' = [pc EXCEPT ![t] = p],
         p \in Critical => mutex' = mutex,
         p \notin Critical => mutex' = Free
  PROVE  Moved(t, p)
<1>1. pc \in [Threads -> PCs] /\ mutex \in Threads \cup {Free}
  BY DEF IInv, TypeOK
<1>2. \A u \in Threads \ {t} : pc[u] \notin Critical
  BY <1>1, OneOwner
<1>3. \A u \in Threads : pc'[u] = IF u = t THEN p ELSE pc[u]
  BY <1>1
<1>4. OwnerInv'
  BY <1>1, <1>2, <1>3 DEF IInv, QueueInv, OwnerInv
<1>5. \A s \in Critical : At(s)' <=> p = s
  BY <1>1, <1>2, <1>3 DEF At
<1> QED BY <1>1, <1>2, <1>3, <1>4, <1>5, AtOwner DEF Moved

\* Where the ring starts and how far it is filled, before and after the step.
LEMMA MovedEnds ==
  ASSUME NEW t \in Threads, NEW p, Moved(t, p)
  PROVE  /\ First = IF pc[t] = "deq_advance" THEN (out + 1) % Capacity ELSE out
         /\ Filled = IF pc[t] = "enq_advance" THEN size - 1 ELSE size
         /\ First' = IF p = "deq_advance" THEN (out' + 1) % Capacity ELSE out'
         /\ Filled' = IF p = "enq_advance" THEN size' - 1 ELSE size'
<1>1. "deq_advance" \in Critical /\ "enq_advance" \in Critical
  BY DEF Critical, EnqueuePCs, DequeuePCs, SizePCs, LockPCs
<1> QED BY <1>1 DEF Moved, First, Filled

\* A statement that leaves the size and the indices alone.
LEMMA IndexFrame ==
  ASSUME IInv, NEW t \in Threads, NEW p, Moved(t, p), UNCHANGED <<size, in, out>>,
         pc[t] \notin {"enq_advance", "deq_advance"},
         p \notin {"enq_advance", "deq_advance"}
  PROVE  IndexInv'
  BY MovedEnds DEF IInv, QueueInv, IndexInv

\* The owner executes a statement: one case per statement of queue.h.
LEMMA StepPreserves ==
  ASSUME IInv, NEW t \in Threads, Step(t)
  PROVE  IInv'
<1> USE DEF EnqueuePCs, DequeuePCs, SizePCs, LockPCs, PCs, Critical
<1>1. CASE EnqCheck(t)
  <2>1. Moved(t, IF size = Capacity THEN "enq_full" ELSE "enq_store")
    BY <1>1, OwnerStep DEF EnqCheck, Goto
  <2>2. TypeOK'
    BY <1>1, <2>1 DEF EnqCheck, Goto, Moved, IInv, QueueInv, TypeOK, CheckedInv
  <2>3. IndexInv'
    BY <1>1, <2>1, IndexFrame DEF EnqCheck, Goto
  <2>4. CheckedInv'
    BY <1>1, <2>1 DEF EnqCheck, Goto, Moved, IInv, QueueInv, TypeOK, CheckedInv
  <2> QED BY <2>1, <2>2, <2>3, <2>4 DEF Moved, IInv, QueueInv
<1>2. CASE EnqFull(t)
  <2>1. Moved(t, "idle")
    BY <1>2, OwnerStep DEF EnqFull, Goto, Release
  <2>2. TypeOK'
    BY <1>2, <2>1 DEF EnqFull, Goto, Release, Moved, IInv, QueueInv, TypeOK, CheckedInv
  <2>3. IndexInv'
    BY <1>2, <2>1, IndexFrame DEF EnqFull, Goto
  <2>4. CheckedInv'
    BY <1>2, <2>1 DEF EnqFull, Goto, Release, Moved, IInv, QueueInv, TypeOK, CheckedInv
  <2> QED BY <2>1, <2>2, <2>3, <2>4 DEF Moved, IInv, QueueInv
<1>3. CASE EnqStore(t)
  <2>1. Moved(t, "enq_count")
    BY <1>3, OwnerStep DEF EnqStore, Goto
  <2>2. TypeOK'
    BY <1>3, <2>1 DEF EnqStore, Goto, Moved, IInv, QueueInv, TypeOK, CheckedInv
  <2>3. IndexInv'
    BY <1>3, <2>1, IndexFrame DEF EnqStore, Goto
  <2>4. CheckedInv'
    BY <1>3, <2>1 DEF EnqStore, Goto, Moved, IInv, QueueInv, TypeOK, CheckedInv
  <2> QED BY <2>1, <2>2, <2>3, <2>4 DEF Moved, IInv, QueueInv
<1>4. CASE EnqCount(t)
  <2>1. Moved(t, "enq_advance")
    BY <1>4, OwnerStep DEF EnqCount, Goto
  <2>2. TypeOK'
    BY <1>4, <2>1 DEF EnqCount, Goto, Moved, IInv, QueueInv, TypeOK, CheckedInv
  <2>3. IndexInv'
    <3>1. size \in 0..Capacity /\ in \in 0..(Capacity - 1) /\ out \in 0..(Capacity - 1)
      BY DEF IInv, TypeOK
    <3>2. in = (out + size) % Capacity
      BY <1>4, <2>1, MovedEnds DEF EnqCount, Goto, IInv, QueueInv, IndexInv
    <3>3. First' = out /\ Filled' = size
      BY <1>4, <2>1, <3>1, MovedEnds DEF EnqCount
    <3> QED BY <1>4, <3>2, <3>3 DEF EnqCount, IndexInv
  <2>4. CheckedInv'
    BY <1>4, <2>1 DEF EnqCount, Goto, Moved, IInv, QueueInv, TypeOK, CheckedInv
  <2> QED BY <2>1, <2>2, <2>3, <2>4 DEF Moved, IInv, QueueInv
<1>5. CASE EnqAdvance(t)
  <2>1. Moved(t, "enq_unlock")
    BY <1>5, OwnerStep DEF EnqAdvance, Goto
  <2>2. TypeOK'
    BY <1>5, <2>1 DEF EnqAdvance, Goto, Moved, IInv, QueueInv, TypeOK, CheckedInv
  <2>3. IndexInv'
    <3>1. size \in 0..Capacity /\ in \in 0..(Capacity - 1) /\ out \in 0..(Capacity - 1)
      BY DEF IInv, TypeOK
    <3>2. in = (out + (size - 1)) % Capacity /\ size > 0
      BY <1>5, <2>1, MovedEnds DEF EnqAdvance, Goto, IInv, QueueInv, IndexInv, CheckedInv
    <3>3. First' = out /\ Filled' = size
      BY <1>5, <2>1, MovedEnds DEF EnqAdvance
    <3>4. (in + 1) % Capacity = (out + size) % Capacity
      BY <3>1, <3>2, SuccMod
    <3> QED BY <1>5, <3>3, <3>4 DEF EnqAdvance, IndexInv
  <2>4. CheckedInv'
    BY <1>5, <2>1 DEF EnqAdvance, Goto, Moved, IInv, QueueInv, TypeOK, CheckedInv
  <2> QED BY <2>1, <2>2, <2>3, <2>4 DEF Moved, IInv, QueueInv
<1>6. CASE EnqUnlock(t)
  <2>1. Moved(t, "idle")
    BY <1>6, OwnerStep DEF EnqUnlock, Goto, Release
  <2>2. TypeOK'
    BY <1>6, <2>1 DEF EnqUnlock, Goto, Release, Moved, IInv, QueueInv, TypeOK, CheckedInv
  <2>3. IndexInv'
    BY <1>6, <2>1, IndexFrame DEF EnqUnlock, Goto
  <2>4. CheckedInv'
    BY <1>6, <2>1 DEF EnqUnlock, Goto, Release, Moved, IInv, QueueInv, TypeOK, CheckedInv
  <2> QED BY <2>1, <2>2, <2>3, <2>4 DEF Moved, IInv, QueueInv
<1>7. CASE DeqCheck(t)
  <2>1. Moved(t, IF size = 0 THEN "deq_empty" ELSE "deq_load")
    BY <1>7, OwnerStep DEF DeqCheck, Goto
  <2>2. TypeOK'
    <3>1. local' \in [Threads -> Pointers \cup 0..Capacity]
      BY <1>7 DEF DeqCheck, IInv, TypeOK, Pointers
    <3> QED BY <1>7, <2>1, <3>1 DEF DeqCheck, Moved, IInv, TypeOK
  <2>3. IndexInv'
    BY <1>7, <2>1, IndexFrame DEF DeqCheck, Goto
  <2>4. CheckedInv'
    BY <1>7, <2>1 DEF DeqCheck, Goto, Moved, IInv, QueueInv, TypeOK, CheckedInv
  <2> QED BY <2>1, <2>2, <2>3, <2>4 DEF Moved, IInv, QueueInv
<1>8. CASE DeqEmpty(t)
  <2>1. Moved(t, "idle")
    BY <1>8, OwnerStep DEF DeqEmpty, Goto, Release
  <2>2. TypeOK'
    BY <1>8, <2>1 DEF DeqEmpty, Goto, Release, Moved, IInv, QueueInv, TypeOK, CheckedInv
  <2>3. IndexInv'
    BY <1>8, <2>1, IndexFrame DEF DeqEmpty, Goto
  <2>4. CheckedInv'
    BY <1>8, <2>1 DEF DeqEmpty, Goto, Release, Moved, IInv, QueueInv, TypeOK, CheckedInv
  <2> QED BY <2>1, <2>2, <2>3, <2>4 DEF Moved, IInv, QueueInv
<1>9. CASE DeqLoad(t)
  <2>1. Moved(t, "deq_count")
    BY <1>9, OwnerStep DEF DeqLoad, Goto
  <2>2. TypeOK'
    BY <1>9, <2>1 DEF DeqLoad, Goto, Moved, IInv, QueueInv, TypeOK, CheckedInv
  <2>3. IndexInv'
    BY <1>9, <2>1, IndexFrame DEF DeqLoad, Goto
  <2>4. CheckedInv'
    BY <1>9, <2>1 DEF DeqLoad, Goto, Moved, IInv, QueueInv, TypeOK, CheckedInv
  <2> QED BY <2>1, <2>2, <2>3, <2>4 DEF Moved, IInv, QueueInv
<1>10. CASE DeqCount(t)
  <2>1. Moved(t, "deq_advance")
    BY <1>10, OwnerStep DEF DeqCount, Goto
  <2>2. TypeOK'
    BY <1>10, <2>1 DEF DeqCount, Goto, Moved, IInv, QueueInv, TypeOK, CheckedInv
  <2>3. IndexInv'
    <3>1. size \in 0..Capacity /\ in \in 0..(Capacity - 1) /\ out \in 0..(Capacity - 1)
      BY DEF IInv, TypeOK
    <3>2. in = (out + size) % Capacity /\ size > 0
      BY <1>10, <2>1, MovedEnds DEF DeqCount, Goto, IInv, QueueInv, IndexInv, CheckedInv
    <3>3. First' = (out + 1) % Capacity /\ Filled' = size - 1
      BY <1>10, <2>1, MovedEnds DEF DeqCount
    <3>4. (out + size) % Capacity = (((out + 1) % Capacity) + (size - 1)) % Capacity
      BY <3>1, <3>2, StartMod
    <3> QED BY <1>10, <3>2, <3>3, <3>4 DEF DeqCount, IndexInv
  <2>4. CheckedInv'
    BY <1>10, <2>1 DEF DeqCount, Goto, Moved, IInv, QueueInv, TypeOK, CheckedInv
  <2> QED BY <2>1, <2>2, <2>3, <2>4 DEF Moved, IInv, QueueInv
<1>11. CASE DeqAdvance(t)
  <2>1. Moved(t, "deq_unlock")
    BY <1>11, OwnerStep DEF DeqAdvance, Goto
  <2>2. TypeOK'
    BY <1>11, <2>1 DEF DeqAdvance, Goto, Moved, IInv, QueueInv, TypeOK, CheckedInv
  <2>3. IndexInv'
    <3>1. First = out' /\ Filled = size /\ First' = out' /\ Filled' = size
      BY <1>11, <2>1, MovedEnds DEF DeqAdvance, Goto
    <3> QED BY <1>11, <3>1 DEF DeqAdvance, IInv, QueueInv, IndexInv
  <2>4. CheckedInv'
    BY <1>11, <2>1 DEF DeqAdvance, Goto, Moved, IInv, QueueInv, TypeOK, CheckedInv
  <2> QED BY <2>1, <2>2, <2>3, <2>4 DEF Moved, IInv, QueueInv
<1>12. CASE DeqUnlock(t)
  <2>1. Moved(t, "idle")
    BY <1>12, OwnerStep DEF DeqUnlock, Goto, Release
  <2>2. TypeOK'
    BY <1>12, <2>1 DEF DeqUnlock, Goto, Release, Moved, IInv, QueueInv, TypeOK, CheckedInv
  <2>3. IndexInv'
    BY <1>12, <2>1, IndexFrame DEF DeqUnlock, Goto
  <2>4. CheckedInv'
    BY <1>12, <2>1 DEF DeqUnlock, Goto, Release, Moved, IInv, QueueInv, TypeOK, CheckedInv
  <2> QED BY <2>1, <2>2, <2>3, <2>4 DEF Moved, IInv, QueueInv
<1>13. CASE SizeRead(t)
  <2>1. Moved(t, "size_unlock")
    BY <1>13, OwnerStep DEF SizeRead, Goto
  <2>2. TypeOK'
    BY <1>13, <2>1 DEF SizeRead, Goto, Moved, IInv, QueueInv, TypeOK, CheckedInv
  <2>3. IndexInv'
    BY <1>13, <2>1, IndexFrame DEF SizeRead, Goto
  <2>4. CheckedInv'
    BY <1>13, <2>1 DEF SizeRead, Goto, Moved, IInv, QueueInv, TypeOK, CheckedInv
  <2> QED BY <2>1, <2>2, <2>3, <2>4 DEF Moved, IInv, QueueInv
<1>14. CASE SizeUnlock(t)
  <2>1. Moved(t, "idle")
    BY <1>14, OwnerStep DEF SizeUnlock, Goto, Release
  <2>2. TypeOK'
    BY <1>14, <2>1 DEF SizeUnlock, Goto, Release, Moved, IInv, QueueInv, TypeOK, CheckedInv
  <2>3. IndexInv'
    BY <1>14, <2>1, IndexFrame DEF SizeUnlock, Goto
  <2>4. CheckedInv'
    BY <1>14, <2>1 DEF SizeUnlock, Goto, Release, Moved, IInv, QueueInv, TypeOK, CheckedInv
  <2> QED BY <2>1, <2>2, <2>3, <2>4 DEF Moved, IInv, QueueInv
<1> QED BY <1>1, <1>2, <1>3, <1>4, <1>5, <1>6, <1>7, <1>8, <1>9, <1>10, <1>11, <1>12, <1>13, <1>14 DEF Step

\* No statement of any thread makes the ring inconsistent.
LEMMA NextIInv == IInv /\ [Next]_vars => IInv'
<1> SUFFICES ASSUME IInv, [Next]_vars PROVE IInv'
  OBVIOUS
<1>1. CASE Next
  BY <1>1, CallPreserves, LockPreserves, StepPreserves DEF Next
<1>2. CASE UNCHANGED vars
  BY <1>2 DEF vars, IInv, QueueInv, TypeOK, OwnerInv, IndexInv, CheckedInv,
              First, Filled, At
<1> QED BY <1>1, <1>2

\* The inductive invariant holds in every state of every behaviour.
THEOREM Invariance == Spec => []IInv
  BY InitIInv, NextIInv, PTL DEF Spec

\* The size never exceeds the capacity and the indices never leave the array,
\* whatever the threads do (queue_enqueue, queue_dequeue, queue_size).
THEOREM TypeCorrect == Spec => []TypeOK
<1>1. IInv => TypeOK
  BY DEF IInv
<1> QED BY <1>1, Invariance, PTL

\* One owner of the mutex at a time, indices that agree with the size, and
\* checks that are still true when the code acts on them.
THEOREM RingConsistent == Spec => []QueueInv
<1>1. IInv => QueueInv
  BY DEF IInv
<1> QED BY <1>1, Invariance, PTL

-----------------------------------------------------------------------------
(* The ring implements the abstract queue: its contents under every step.  *)

\* The oldest element is in a slot of the array, also between the two writes of
\* a dequeue.
LEMMA FirstInRange == IInv => First \in 0..(Capacity - 1)
<1> SUFFICES ASSUME IInv PROVE First \in 0..(Capacity - 1)
  OBVIOUS
<1>1. out \in 0..(Capacity - 1) /\ out + 1 \in Nat
  BY DEF IInv, TypeOK
<1>2. (out + 1) % Capacity \in 0..(Capacity - 1)
  BY <1>1, ModInRange
<1> QED BY <1>1, <1>2 DEF First

\* Element number i of the queue is in the slot i - 1 steps after the first: the
\* contents are a sequence of pointers as long as size says.
LEMMA ContentsSeq ==
  ASSUME IInv
  PROVE  Contents \in Seq(Pointers) /\ Len(Contents) = size
<1>1. size \in Nat
  BY DEF IInv, TypeOK
<1>2. ASSUME NEW i \in 1..size PROVE buffer[(First + (i - 1)) % Capacity] \in Pointers
  <2>1. First + (i - 1) \in Nat
    BY <1>1, FirstInRange
  <2>2. (First + (i - 1)) % Capacity \in 0..(Capacity - 1)
    BY <2>1, ModInRange
  <2> QED BY <2>2 DEF IInv, TypeOK
<1> QED BY <1>1, <1>2 DEF Contents

\* Statements that move neither the first slot nor an element.
LEMMA ContentsFrame ==
  ASSUME UNCHANGED <<buffer, size>>, First' = First
  PROVE  Contents' = Contents
  BY DEF Contents

\* The slot an enqueue writes is none of those in use.
LEMMA ContentsStore ==
  ASSUME IInv, size < Capacity, in = (First + size) % Capacity, NEW v,
         buffer' = [buffer EXCEPT ![in] = v], size' = size, First' = First
  PROVE  Contents' = Contents
<1>1. size \in 0..Capacity /\ First \in 0..(Capacity - 1)
  BY FirstInRange DEF IInv, TypeOK
<1>2. ASSUME NEW i \in 1..size
      PROVE  buffer'[(First + (i - 1)) % Capacity] = buffer[(First + (i - 1)) % Capacity]
  <2>1. i - 1 \in 0..Capacity /\ i - 1 < size
    BY <1>1
  <2>2. (First + (i - 1)) % Capacity # in
    BY <1>1, <2>1, SlotsDiffer
  <2>3. First + (i - 1) \in Nat
    BY <1>1
  <2>4. (First + (i - 1)) % Capacity \in 0..(Capacity - 1)
    BY <2>3, ModInRange
  <2> QED BY <2>2, <2>4 DEF IInv, TypeOK
<1> QED BY <1>1, <1>2 DEF Contents

\* Counting the element just written appends it.
LEMMA ContentsAppend ==
  ASSUME IInv, in = (First + size) % Capacity,
         buffer' = buffer, size' = size + 1, First' = First
  PROVE  Contents' = Append(Contents, buffer[in])
<1>1. size \in Nat /\ Len(Contents) = size /\ Contents \in Seq(Pointers)
  BY ContentsSeq DEF IInv, TypeOK
<1>2. Contents' = [i \in 1..(size + 1) |-> buffer[(First + (i - 1)) % Capacity]]
  BY DEF Contents
<1>3. Append(Contents, buffer[in]) =
        [i \in 1..(size + 1) |-> IF i = size + 1 THEN buffer[in] ELSE Contents[i]]
  BY <1>1
<1>4. ASSUME NEW i \in 1..(size + 1)
      PROVE  buffer[(First + (i - 1)) % Capacity] =
               IF i = size + 1 THEN buffer[in] ELSE Contents[i]
  <2>1. CASE i = size + 1
    <3>1. i - 1 = size
      BY <1>1, <2>1
    <3> QED BY <2>1, <3>1
  <2>2. CASE i # size + 1
    <3>1. i \in 1..size
      BY <1>1, <2>2
    <3> QED BY <2>2, <3>1 DEF Contents
  <2> QED BY <2>1, <2>2
<1> QED BY <1>2, <1>3, <1>4

\* Lowering the size takes the oldest element off.
LEMMA ContentsTail ==
  ASSUME IInv, size > 0, First = out, First' = (out + 1) % Capacity,
         buffer' = buffer, size' = size - 1
  PROVE  /\ Contents # << >>
         /\ Head(Contents) = buffer[out]
         /\ Contents' = Tail(Contents)
<1>1. /\ size \in 1..Capacity /\ out \in 0..(Capacity - 1)
      /\ Len(Contents) = size /\ Contents \in Seq(Pointers)
  BY ContentsSeq DEF IInv, TypeOK
<1>2. Contents[1] = buffer[out]
  <2>1. (out + (1 - 1)) % Capacity = out
    BY <1>1, ModSmall
  <2> QED BY <1>1, <2>1 DEF Contents
<1>3. Contents' = [i \in 1..(size - 1) |-> buffer[(((out + 1) % Capacity) + (i - 1)) % Capacity]]
  BY DEF Contents
<1>4. /\ Tail(Contents) \in Seq(Pointers)
      /\ Len(Tail(Contents)) = size - 1
      /\ \A i \in 1..(size - 1) : Tail(Contents)[i] = Contents[i + 1]
  BY <1>1, HeadTailProperties
<1>5. ASSUME NEW i \in 1..(size - 1)
      PROVE  Contents[i + 1] = buffer[(((out + 1) % Capacity) + (i - 1)) % Capacity]
  <2>1. i + 1 \in 1..size /\ i \in 1..Capacity /\ i + 1 - 1 = i
    BY <1>1
  <2>2. Contents[i + 1] = buffer[(out + i) % Capacity]
    BY <2>1 DEF Contents
  <2> QED BY <1>1, <2>1, <2>2, StartMod
<1>6. /\ Contents' \in Seq(Pointers)
      /\ Len(Contents') = size - 1
      /\ \A i \in 1..(size - 1) : Contents'[i] = Contents[i + 1]
  <2>1. \A i \in 1..(size - 1) : Contents[i + 1] \in Pointers
    BY <1>1
  <2>2. size - 1 \in Nat
    BY <1>1
  <2>3. Contents' = [i \in 1..(size - 1) |-> Contents[i + 1]]
    BY <1>3, <1>5
  <2> DEFINE rest == [i \in 1..(size - 1) |-> Contents[i + 1]]
  <2>4. rest \in Seq(Pointers) /\ Len(rest) = size - 1
    BY <2>1, <2>2
  <2> QED BY <2>3, <2>4
<1>7. Contents' = Tail(Contents)
  BY <1>4, <1>6, SeqEqual
<1> QED BY <1>1, <1>2, <1>7

-----------------------------------------------------------------------------
(* The ring implements the abstract queue: every step is a step of it.     *)

\* A thread's phase and result follow its program counter.
Moves(t, p) == pc' = [pc EXCEPT ![t] = p]

\* A thread that moves changes the phase of its own operation only.
LEMMA PhaseStep ==
  ASSUME IInv, NEW t \in Threads, NEW p \in PCs, Moves(t, p)
  PROVE  /\ Pending[t] = PendingAt[pc[t]]
         /\ \A u \in Threads : Pending'[u] = IF u = t THEN PendingAt[p] ELSE Pending[u]
         /\ Pending' = [Pending EXCEPT ![t] = PendingAt[p]]
<1>1. pc \in [Threads -> PCs]
  BY DEF IInv, TypeOK
<1>2. \A u \in Threads : pc'[u] = IF u = t THEN p ELSE pc[u]
  BY <1>1 DEF Moves
<1>3. \A u \in Threads : Pending[u] = PendingAt[pc[u]]
  BY DEF Pending
<1>4. \A u \in Threads : Pending'[u] = PendingAt[pc'[u]]
  BY DEF Pending
<1>5. \A u \in Threads : Pending'[u] = IF u = t THEN PendingAt[p] ELSE Pending[u]
  BY <1>2, <1>3, <1>4
<1>6. Pending' = [Pending EXCEPT ![t] = PendingAt[p]]
  BY <1>5 DEF Pending
<1> QED BY <1>3, <1>5, <1>6

\* A move that neither changes the local variable nor enters or leaves the phases
\* without a result changes no result.
LEMMA ResultFrame ==
  ASSUME IInv, NEW t \in Threads, NEW p \in PCs, Moves(t, p),
         local' = local,
         PendingAt[p] \in {"dequeue", "size"} <=> PendingAt[pc[t]] \in {"dequeue", "size"}
  PROVE  Result' = Result
<1>1. /\ Pending[t] = PendingAt[pc[t]]
      /\ \A u \in Threads : Pending'[u] = IF u = t THEN PendingAt[p] ELSE Pending[u]
  BY PhaseStep
<1>2. ASSUME NEW u \in Threads
      PROVE  Pending'[u] \in {"dequeue", "size"} <=> Pending[u] \in {"dequeue", "size"}
  <2>1. CASE u = t
    <3>1. Pending'[u] = PendingAt[p] /\ Pending[u] = PendingAt[pc[t]]
      BY <1>1, <2>1
    <3> QED BY <3>1
  <2>2. CASE u # t
    <3>1. Pending'[u] = Pending[u]
      BY <1>1, <2>2
    <3> QED BY <3>1
  <2> QED BY <2>1, <2>2
<1> QED BY <1>2 DEF Result

\* A move that changes only the local variable of its thread changes only the
\* result of that thread.
LEMMA ResultStep ==
  ASSUME IInv, NEW t \in Threads, NEW p \in PCs, Moves(t, p),
         \A u \in Threads \ {t} : local'[u] = local[u],
         NEW r, r = IF PendingAt[p] \in {"dequeue", "size"} THEN NULL ELSE local'[t]
  PROVE  Result' = [Result EXCEPT ![t] = r]
<1>1. \A u \in Threads : Pending'[u] = IF u = t THEN PendingAt[p] ELSE Pending[u]
  BY PhaseStep
<1>2. Result' = [u \in Threads |-> IF u = t THEN r ELSE Result[u]]
  BY <1>1 DEF Result
<1> QED BY <1>2 DEF Result

\* The ring starts as the empty queue, with no operation in progress.
LEMMA InitRefines == Init => Fifo!Init
<1> SUFFICES ASSUME Init PROVE Fifo!Init
  OBVIOUS
<1>1. Contents = << >>
  BY DEF Init, Contents
<1>2. Pending = [t \in Threads |-> "none"]
  BY DEF Init, Pending, PendingAt, PCs
<1>3. Result = [t \in Threads |-> NULL]
  BY <1>2 DEF Init, Result
<1> QED BY <1>1, <1>2, <1>3 DEF Fifo!Init

\* A statement that is neither a call, nor an effect, nor a return is invisible.
LEMMA Invisible ==
  ASSUME IInv, NEW t \in Threads, NEW p \in PCs, Moves(t, p),
         local' = local, PendingAt[p] = PendingAt[pc[t]], Contents' = Contents
  PROVE  UNCHANGED Fifo!fifoVars
<1>1. /\ Pending[t] = PendingAt[pc[t]]
      /\ Pending' = [Pending EXCEPT ![t] = PendingAt[p]]
  BY PhaseStep
<1>2. Pending = [u \in Threads |-> Pending[u]]
  BY DEF Pending
<1>3. [Pending EXCEPT ![t] = Pending[t]] = Pending
  BY <1>2
<1>4. Pending' = Pending
  BY <1>1, <1>3
<1>5. Result' = Result
  BY ResultFrame
<1> QED BY <1>4, <1>5 DEF Fifo!fifoVars

\* Giving the mutex back ends the operation.
LEMMA Returns ==
  ASSUME IInv, NEW t \in Threads, Moves(t, "idle"), local' = local,
         PendingAt[pc[t]] = "done", Contents' = Contents
  PROVE  Fifo!Return(t)
<1>1. "idle" \in PCs /\ PendingAt["idle"] = "none"
  BY DEF PCs, PendingAt
<1>2. Result' = Result
  BY <1>1, ResultFrame
<1>3. Pending' = [Pending EXCEPT ![t] = "none"] /\ Pending[t] = "done"
  BY <1>1, PhaseStep DEF Pending
<1> QED BY <1>2, <1>3 DEF Fifo!Return

\* A call of queue.h is the call of the abstract operation.
LEMMA CallRefines ==
  ASSUME IInv, NEW t \in Threads, Call(t)
  PROVE  Fifo!Next
<1> USE DEF EnqueuePCs, DequeuePCs, SizePCs, PCs, PendingAt
<1>1. pc[t] = "idle" /\ Pending[t] = "none" /\ Contents' = Contents
  <2>1. pc[t] = "idle" /\ First' = First /\ UNCHANGED <<buffer, size>>
    BY DEF Call, CallEnqueue, CallDequeue, CallSize, Goto, IInv, TypeOK, First, At
  <2> QED BY <2>1, ContentsFrame DEF Pending
<1>2. ASSUME NEW v \in Pointers, CallEnqueue(t, v)
      PROVE  Fifo!Invoke(t, "enqueue", v)
  <2>1. Pending' = [Pending EXCEPT ![t] = "enqueue"]
    BY <1>2, PhaseStep DEF CallEnqueue, Goto, Moves
  <2>2. Result' = [Result EXCEPT ![t] = v]
    <3>1. Moves(t, "enq_lock")
      BY <1>2 DEF CallEnqueue, Goto, Moves
    <3>2. local'[t] = v /\ \A u \in Threads \ {t} : local'[u] = local[u]
      BY <1>2 DEF CallEnqueue, IInv, TypeOK
    <3>3. "enq_lock" \in PCs /\ PendingAt["enq_lock"] \notin {"dequeue", "size"}
      OBVIOUS
    <3> HIDE DEF PCs, PendingAt
    <3> QED BY <3>1, <3>2, <3>3, ResultStep
  <2> QED BY <1>1, <2>1, <2>2 DEF Fifo!Invoke
<1>3. CASE CallDequeue(t)
  <2>1. Pending' = [Pending EXCEPT ![t] = "dequeue"]
    <3>1. Moves(t, "deq_lock") /\ "deq_lock" \in PCs /\ PendingAt["deq_lock"] = "dequeue"
      BY <1>3 DEF CallDequeue, Goto, Moves
    <3> QED BY <3>1, PhaseStep
  <2>2. Result' = [Result EXCEPT ![t] = NULL]
    BY <1>3, ResultStep DEF CallDequeue, Goto, Moves
  <2> QED BY <1>1, <2>1, <2>2 DEF Fifo!Invoke, Fifo!Next
<1>4. CASE CallSize(t)
  <2>1. Pending' = [Pending EXCEPT ![t] = "size"]
    BY <1>4, PhaseStep DEF CallSize, Goto, Moves
  <2>2. Result' = [Result EXCEPT ![t] = NULL]
    BY <1>4, ResultStep DEF CallSize, Goto, Moves
  <2> QED BY <1>1, <2>1, <2>2 DEF Fifo!Invoke, Fifo!Next
<1> QED BY <1>2, <1>3, <1>4 DEF Call, Fifo!Next, Fifo!Pointers, Pointers

\* Waiting for the mutex is invisible in the abstract queue.
LEMMA LockRefines ==
  ASSUME IInv, NEW t \in Threads, Lock(t)
  PROVE  UNCHANGED Fifo!fifoVars
<1> USE DEF EnqueuePCs, DequeuePCs, SizePCs, PCs, PendingAt
<1>1. First' = First /\ UNCHANGED <<buffer, size, local>>
  BY DEF Lock, EnqLock, DeqLock, SizeLock, Goto, IInv, TypeOK, First, At
<1>2. Contents' = Contents
  BY <1>1, ContentsFrame
<1>3. \E p \in PCs : Moves(t, p) /\ PendingAt[p] = PendingAt[pc[t]]
  BY DEF Lock, EnqLock, DeqLock, SizeLock, Goto, Moves
<1> QED BY <1>1, <1>2, <1>3, Invisible

\* A step of the owner that leaves the size, the elements and the indices alone
\* leaves the contents alone.
LEMMA ContentsOwner ==
  ASSUME IInv, NEW t \in Threads, NEW p, Moved(t, p),
         UNCHANGED <<buffer, size, out>>,
         p # "deq_advance", pc[t] # "deq_advance"
  PROVE  Contents' = Contents
  BY MovedEnds, ContentsFrame

\* One case per statement: the effects are at EnqCheck (full), EnqCount,
\* DeqCheck (empty), DeqCount and SizeRead, the returns at the unlocks.
LEMMA StepRefines ==
  ASSUME IInv, NEW t \in Threads, Step(t)
  PROVE  Fifo!Next \/ UNCHANGED Fifo!fifoVars
<1> USE DEF EnqueuePCs, DequeuePCs, SizePCs, LockPCs, PCs, Critical, PendingAt
<1>1. CASE EnqCheck(t)
  <2>1. Moved(t, IF size = Capacity THEN "enq_full" ELSE "enq_store")
    BY <1>1, OwnerStep DEF EnqCheck, Goto
  <2>2. Contents' = Contents
    BY <1>1, <2>1, ContentsOwner DEF EnqCheck, Goto
  <2>3. CASE size = Capacity
    <3>1. Pending[t] = "enqueue" /\ Pending' = [Pending EXCEPT ![t] = "done"]
      <4>1. pc[t] \in PCs /\ PendingAt[pc[t]] = "enqueue"
        BY <1>1, <2>3 DEF EnqCheck, Goto, Moves
      <4>2. \E p \in PCs : Moves(t, p) /\ PendingAt[p] = "done"
        BY <1>1, <2>3 DEF EnqCheck, Goto, Moves
      <4> QED BY <4>1, <4>2, PhaseStep
    <3>2. Result' = Result
      BY <1>1, <2>3, ResultFrame DEF EnqCheck, Goto, Moves
    <3>3. ~(Len(Contents) < Capacity)
      BY <2>3, ContentsSeq DEF IInv, TypeOK
    <3> QED BY <2>2, <3>1, <3>2, <3>3 DEF Fifo!Enqueue, Fifo!Next
  <2>4. CASE size # Capacity
    BY <1>1, <2>2, <2>4, Invisible DEF EnqCheck, Goto, Moves
  <2> QED BY <2>3, <2>4
<1>2. CASE EnqFull(t)
  <2>1. Moved(t, "idle")
    BY <1>2, OwnerStep DEF EnqFull, Goto, Release
  <2>2. Contents' = Contents
    BY <1>2, <2>1, ContentsOwner DEF EnqFull, Goto
  <2>3. Fifo!Return(t)
    BY <1>2, <2>2, Returns DEF EnqFull, Goto, Moves
  <2> QED BY <2>3 DEF Fifo!Next
<1>3. CASE EnqStore(t)
  <2>1. Moved(t, "enq_count")
    BY <1>3, OwnerStep DEF EnqStore, Goto
  <2>2. /\ size < Capacity /\ size' = size
        /\ in = (First + size) % Capacity /\ First' = First
    BY <1>3, <2>1, MovedEnds DEF EnqStore, Goto, IInv, QueueInv, IndexInv, CheckedInv
  <2>3. Contents' = Contents
    BY <1>3, <2>2, ContentsStore DEF EnqStore
  <2> QED BY <1>3, <2>3, Invisible DEF EnqStore, Goto, Moves
<1>4. CASE EnqCount(t)
  <2>1. Moved(t, "enq_advance")
    BY <1>4, OwnerStep DEF EnqCount, Goto
  <2>2. in = (First + size) % Capacity /\ First' = First
    BY <1>4, <2>1, MovedEnds DEF EnqCount, Goto, IInv, QueueInv, IndexInv
  <2>3. Contents' = Append(Contents, buffer[in])
    BY <1>4, <2>2, ContentsAppend DEF EnqCount
  <2>4. Len(Contents) < Capacity /\ buffer[in] = local[t]
    BY <1>4, ContentsSeq DEF EnqCount, Goto, IInv, QueueInv, CheckedInv
  <2>5. Pending[t] = "enqueue" /\ Pending' = [Pending EXCEPT ![t] = "done"]
    <3>1. pc[t] \in PCs /\ PendingAt[pc[t]] = "enqueue"
      BY <1>4 DEF EnqCount, Goto, Moves
    <3>2. \E p \in PCs : Moves(t, p) /\ PendingAt[p] = "done"
      BY <1>4 DEF EnqCount, Goto, Moves
    <3> QED BY <3>1, <3>2, PhaseStep
  <2>6. Result' = Result /\ Result[t] = local[t]
    BY <1>4, <2>5, ResultFrame DEF EnqCount, Goto, Moves, Result
  <2> QED BY <2>3, <2>4, <2>5, <2>6 DEF Fifo!Enqueue, Fifo!Next
<1>5. CASE EnqAdvance(t)
  <2>1. Moved(t, "enq_unlock")
    BY <1>5, OwnerStep DEF EnqAdvance, Goto
  <2>2. Contents' = Contents
    BY <1>5, <2>1, ContentsOwner DEF EnqAdvance, Goto
  <2> QED BY <1>5, <2>2, Invisible DEF EnqAdvance, Goto, Moves
<1>6. CASE EnqUnlock(t)
  <2>1. Moved(t, "idle")
    BY <1>6, OwnerStep DEF EnqUnlock, Goto, Release
  <2>2. Contents' = Contents
    BY <1>6, <2>1, ContentsOwner DEF EnqUnlock, Goto
  <2>3. Fifo!Return(t)
    BY <1>6, <2>2, Returns DEF EnqUnlock, Goto, Moves
  <2> QED BY <2>3 DEF Fifo!Next
<1>7. CASE DeqCheck(t)
  <2>1. Moved(t, IF size = 0 THEN "deq_empty" ELSE "deq_load")
    BY <1>7, OwnerStep DEF DeqCheck, Goto
  <2>2. Contents' = Contents
    BY <1>7, <2>1, ContentsOwner DEF DeqCheck, Goto
  <2>3. CASE size = 0
    <3>1. Pending[t] = "dequeue" /\ Pending' = [Pending EXCEPT ![t] = "done"]
      <4>1. pc[t] \in PCs /\ PendingAt[pc[t]] = "dequeue"
        BY <1>7, <2>3 DEF DeqCheck, Goto, Moves
      <4>2. \E p \in PCs : Moves(t, p) /\ PendingAt[p] = "done"
        BY <1>7, <2>3 DEF DeqCheck, Goto, Moves
      <4> QED BY <4>1, <4>2, PhaseStep
    <3>2. Result' = [Result EXCEPT ![t] = NULL]
      BY <1>7, <2>3, ResultStep DEF DeqCheck, Goto, Moves, IInv, TypeOK
    <3>3. Contents = << >>
      BY <2>3, ContentsSeq
    <3> QED BY <2>2, <3>1, <3>2, <3>3 DEF Fifo!Dequeue, Fifo!Next
  <2>4. CASE size # 0
    <3>1. local' = local
      BY <1>7, <2>4 DEF DeqCheck, IInv, TypeOK
    <3> QED BY <1>7, <2>2, <2>4, <3>1, Invisible DEF DeqCheck, Goto, Moves
  <2> QED BY <2>3, <2>4
<1>8. CASE DeqEmpty(t)
  <2>1. Moved(t, "idle")
    BY <1>8, OwnerStep DEF DeqEmpty, Goto, Release
  <2>2. Contents' = Contents
    BY <1>8, <2>1, ContentsOwner DEF DeqEmpty, Goto
  <2>3. Fifo!Return(t)
    BY <1>8, <2>2, Returns DEF DeqEmpty, Goto, Moves
  <2> QED BY <2>3 DEF Fifo!Next
<1>9. CASE DeqLoad(t)
  <2>1. Moved(t, "deq_count")
    BY <1>9, OwnerStep DEF DeqLoad, Goto
  <2>2. Contents' = Contents
    BY <1>9, <2>1, ContentsOwner DEF DeqLoad, Goto
  <2>3. Pending[t] = "dequeue" /\ Pending' = Pending
    <3>1. Moves(t, "deq_count") /\ "deq_count" \in PCs /\ PendingAt["deq_count"] = "dequeue"
      BY <1>9 DEF DeqLoad, Goto, Moves
    <3>2. pc[t] = "deq_load" /\ PendingAt["deq_load"] = "dequeue"
      BY <1>9 DEF DeqLoad, Goto
    <3> HIDE DEF PCs, PendingAt
    <3>3. Pending[t] = "dequeue" /\ \A u \in Threads : Pending'[u] = Pending[u]
      BY <3>1, <3>2, PhaseStep
    <3>4. Pending' = [u \in Threads |-> Pending'[u]] /\ Pending = [u \in Threads |-> Pending[u]]
      BY DEF Pending
    <3> QED BY <3>3, <3>4
  <2>4. Result' = [Result EXCEPT ![t] = NULL]
    BY <1>9, ResultStep DEF DeqLoad, Goto, Moves, IInv, TypeOK
  <2>5. Result' = Result
    BY <2>3, <2>4 DEF Result
  <2> QED BY <2>2, <2>3, <2>5 DEF Fifo!fifoVars
<1>10. CASE DeqCount(t)
  <2>1. Moved(t, "deq_advance")
    BY <1>10, OwnerStep DEF DeqCount, Goto
  <2>2. size > 0 /\ First = out /\ First' = (out + 1) % Capacity
    BY <1>10, <2>1, MovedEnds DEF DeqCount, Goto, IInv, QueueInv, CheckedInv
  <2>3. Contents # << >> /\ Head(Contents) = buffer[out] /\ Contents' = Tail(Contents)
    BY <1>10, <2>2, ContentsTail DEF DeqCount
  <2>4. Pending[t] = "dequeue" /\ Pending' = [Pending EXCEPT ![t] = "done"]
    <3>1. pc[t] \in PCs /\ PendingAt[pc[t]] = "dequeue"
      BY <1>10 DEF DeqCount, Goto, Moves
    <3>2. \E p \in PCs : Moves(t, p) /\ PendingAt[p] = "done"
      BY <1>10 DEF DeqCount, Goto, Moves
    <3> QED BY <3>1, <3>2, PhaseStep
  <2>5. Result' = [Result EXCEPT ![t] = buffer[out]]
    <3>1. Moves(t, "deq_advance") /\ local' = local /\ local[t] = buffer[out]
      BY <1>10 DEF DeqCount, Goto, Moves, IInv, QueueInv, CheckedInv
    <3>2. "deq_advance" \in PCs /\ PendingAt["deq_advance"] \notin {"dequeue", "size"}
      OBVIOUS
    <3> HIDE DEF PCs, PendingAt
    <3> QED BY <3>1, <3>2, ResultStep
  <2> QED BY <2>3, <2>4, <2>5 DEF Fifo!Dequeue, Fifo!Next
<1>11. CASE DeqAdvance(t)
  <2>1. Moved(t, "deq_unlock")
    BY <1>11, OwnerStep DEF DeqAdvance, Goto
  <2>2. First' = First
    BY <1>11, <2>1, MovedEnds DEF DeqAdvance, Goto
  <2>3. Contents' = Contents
    BY <1>11, <2>2, ContentsFrame DEF DeqAdvance
  <2> QED BY <1>11, <2>3, Invisible DEF DeqAdvance, Goto, Moves
<1>12. CASE DeqUnlock(t)
  <2>1. Moved(t, "idle")
    BY <1>12, OwnerStep DEF DeqUnlock, Goto, Release
  <2>2. Contents' = Contents
    BY <1>12, <2>1, ContentsOwner DEF DeqUnlock, Goto
  <2>3. Fifo!Return(t)
    BY <1>12, <2>2, Returns DEF DeqUnlock, Goto, Moves
  <2> QED BY <2>3 DEF Fifo!Next
<1>13. CASE SizeRead(t)
  <2>1. Moved(t, "size_unlock")
    BY <1>13, OwnerStep DEF SizeRead, Goto
  <2>2. Contents' = Contents /\ Len(Contents) = size
    BY <1>13, <2>1, ContentsOwner, ContentsSeq DEF SizeRead, Goto
  <2>3. Pending[t] = "size" /\ Pending' = [Pending EXCEPT ![t] = "done"]
    <3>1. pc[t] \in PCs /\ PendingAt[pc[t]] = "size"
      BY <1>13 DEF SizeRead, Goto, Moves
    <3>2. \E p \in PCs : Moves(t, p) /\ PendingAt[p] = "done"
      BY <1>13 DEF SizeRead, Goto, Moves
    <3> QED BY <3>1, <3>2, PhaseStep
  <2>4. Result' = [Result EXCEPT ![t] = size]
    <3>1. /\ Moves(t, "size_unlock") /\ local'[t] = size
          /\ \A u \in Threads \ {t} : local'[u] = local[u]
      BY <1>13 DEF SizeRead, Goto, Moves, IInv, TypeOK
    <3>2. "size_unlock" \in PCs /\ PendingAt["size_unlock"] \notin {"dequeue", "size"}
      OBVIOUS
    <3> HIDE DEF PCs, PendingAt
    <3> QED BY <3>1, <3>2, ResultStep
  <2> QED BY <2>2, <2>3, <2>4 DEF Fifo!Size, Fifo!Next
<1>14. CASE SizeUnlock(t)
  <2>1. Moved(t, "idle")
    BY <1>14, OwnerStep DEF SizeUnlock, Goto, Release
  <2>2. Contents' = Contents
    BY <1>14, <2>1, ContentsOwner DEF SizeUnlock, Goto
  <2>3. Fifo!Return(t)
    BY <1>14, <2>2, Returns DEF SizeUnlock, Goto, Moves
  <2> QED BY <2>3 DEF Fifo!Next
<1> QED BY <1>1, <1>2, <1>3, <1>4, <1>5, <1>6, <1>7,
           <1>8, <1>9, <1>10, <1>11, <1>12, <1>13, <1>14 DEF Step

\* Every behaviour of queue.h, hidden fields abstracted, is a behaviour of the
\* abstract queue: its operations are atomic, in order, and lose only what does
\* not fit.
THEOREM Refinement == Spec => Linearizable
<1>1. Init => Fifo!Init
  BY InitRefines
<1>2. IInv /\ [Next]_vars => [Fifo!Next]_(Fifo!fifoVars)
  <2> SUFFICES ASSUME IInv, [Next]_vars PROVE Fifo!Next \/ UNCHANGED Fifo!fifoVars
    OBVIOUS
  <2>1. CASE Next
    BY <2>1, CallRefines, LockRefines, StepRefines DEF Next
  <2>2. CASE UNCHANGED vars
    BY <2>2 DEF vars, Fifo!fifoVars, Contents, First, At, Pending, Result
  <2> QED BY <2>1, <2>2
<1> QED BY <1>1, <1>2, Invariance, PTL DEF Spec, Linearizable, Fifo!Spec
=============================================================================
