---------------------------- MODULE PthreadQueue ----------------------------
(***************************************************************************)
(* The bounded buffer of queue.h, step by step: a ring of pointers, its    *)
(* size and its two indices, guarded by a pthread mutex.  Any number of    *)
(* threads call queue_enqueue, queue_dequeue and queue_size; every read or *)
(* write of the shared fields is a step of its own, so that what holds of  *)
(* the interleavings is owed to the mutex and not to the model.            *)
(*                                                                         *)
(* headcrab_mqueue.c keeps two such queues (in and out) that share no      *)
(* state: mq_push and mq_pop call one of them, and this module is that     *)
(* queue.                                                                  *)
(***************************************************************************)
EXTENDS Integers, Sequences

CONSTANTS
  Threads,   \* the threads that call the queue
  Values,    \* the pointers they enqueue, NULL apart
  NULL,      \* json_loads returns it on bad input, and it is pushed too
  Capacity   \* sizeof(buffer) / sizeof(buffer[0]): MQ_LEN for both queues

\* A C array has at least one element.
ASSUME CapacityAssumption == Capacity \in Nat \ {0}

\* The mutex's owner while nobody holds it.
Free == "free"

ASSUME FreeAssumption == Free \notin Threads

VARIABLES
  buffer,    \* the slots
  size,      \* how many of them are in use
  in,        \* the slot the next enqueue writes
  out,       \* the slot the next dequeue reads
  mutex,     \* the owner of the mutex, or Free
  pc,        \* per thread: the statement it executes next
  local      \* per thread: the argument `value', then the value returned

vars == <<buffer, size, in, out, mutex, pc, local>>

Pointers == Values \cup {NULL}

EnqueuePCs == {"enq_lock", "enq_check", "enq_full", "enq_store", "enq_count",
               "enq_advance", "enq_unlock"}
DequeuePCs == {"deq_lock", "deq_check", "deq_empty", "deq_load", "deq_count",
               "deq_advance", "deq_unlock"}
SizePCs == {"size_lock", "size_read", "size_unlock"}
LockPCs == {"enq_lock", "deq_lock", "size_lock"}
PCs == {"idle"} \cup EnqueuePCs \cup DequeuePCs \cup SizePCs

\* The statements executed with the mutex held.
Critical == (EnqueuePCs \cup DequeuePCs \cup SizePCs) \ LockPCs

\* QUEUE_INITIALIZER over a static array, whose slots C sets to NULL.
Init ==
  /\ buffer = [i \in 0..(Capacity - 1) |-> NULL]
  /\ size = 0
  /\ in = 0
  /\ out = 0
  /\ mutex = Free
  /\ pc = [t \in Threads |-> "idle"]
  /\ local = [t \in Threads |-> NULL]

-----------------------------------------------------------------------------
(* The pthread mutex: a lock call waits until nobody owns it.              *)

Acquire(t) == mutex = Free /\ mutex' = t
Release(t) == mutex = t /\ mutex' = Free

Goto(t, from, to) == pc[t] = from /\ pc' = [pc EXCEPT ![t] = to]

-----------------------------------------------------------------------------
(* queue_enqueue.                                                          *)

CallEnqueue(t, v) ==
  /\ Goto(t, "idle", "enq_lock")
  /\ local' = [local EXCEPT ![t] = v]
  /\ UNCHANGED <<buffer, size, in, out, mutex>>

\* Mutant: the lock is not waited for.
EnqLockUnguarded(t) ==
  /\ Goto(t, "enq_lock", "enq_check")
  /\ mutex' = t
  /\ UNCHANGED <<buffer, size, in, out, local>>

EnqLock(t) ==
  /\ Goto(t, "enq_lock", "enq_check")
  /\ Acquire(t)
  /\ UNCHANGED <<buffer, size, in, out, local>>

\* Mutant: the last slot is never used.
EnqCheckOffByOne(t) ==
  /\ Goto(t, "enq_check", IF size + 1 = Capacity THEN "enq_full" ELSE "enq_store")
  /\ UNCHANGED <<buffer, size, in, out, mutex, local>>

EnqCheck(t) ==
  /\ Goto(t, "enq_check", IF size = Capacity THEN "enq_full" ELSE "enq_store")
  /\ UNCHANGED <<buffer, size, in, out, mutex, local>>

EnqFull(t) ==
  /\ Goto(t, "enq_full", "idle")
  /\ Release(t)
  /\ UNCHANGED <<buffer, size, in, out, local>>

EnqStore(t) ==
  /\ Goto(t, "enq_store", "enq_count")
  /\ buffer' = [buffer EXCEPT ![in] = local[t]]
  /\ UNCHANGED <<size, in, out, mutex, local>>

EnqCount(t) ==
  /\ Goto(t, "enq_count", "enq_advance")
  /\ size' = size + 1
  /\ UNCHANGED <<buffer, in, out, mutex, local>>

EnqAdvance(t) ==
  /\ Goto(t, "enq_advance", "enq_unlock")
  /\ in' = (in + 1) % Capacity
  /\ UNCHANGED <<buffer, size, out, mutex, local>>

EnqUnlock(t) ==
  /\ Goto(t, "enq_unlock", "idle")
  /\ Release(t)
  /\ UNCHANGED <<buffer, size, in, out, local>>

-----------------------------------------------------------------------------
(* queue_dequeue.                                                          *)

CallDequeue(t) ==
  /\ Goto(t, "idle", "deq_lock")
  /\ UNCHANGED <<buffer, size, in, out, mutex, local>>

DeqLock(t) ==
  /\ Goto(t, "deq_lock", "deq_check")
  /\ Acquire(t)
  /\ UNCHANGED <<buffer, size, in, out, local>>

\* An empty queue makes the call return NULL.
DeqCheck(t) ==
  /\ Goto(t, "deq_check", IF size = 0 THEN "deq_empty" ELSE "deq_load")
  /\ local' = [local EXCEPT ![t] = IF size = 0 THEN NULL ELSE @]
  /\ UNCHANGED <<buffer, size, in, out, mutex>>

\* Mutant: the early return forgets to unlock.
DeqEmptyNoUnlock(t) ==
  /\ Goto(t, "deq_empty", "idle")
  /\ UNCHANGED <<buffer, size, in, out, mutex, local>>

DeqEmpty(t) ==
  /\ Goto(t, "deq_empty", "idle")
  /\ Release(t)
  /\ UNCHANGED <<buffer, size, in, out, local>>

DeqLoad(t) ==
  /\ Goto(t, "deq_load", "deq_count")
  /\ local' = [local EXCEPT ![t] = buffer[out]]
  /\ UNCHANGED <<buffer, size, in, out, mutex>>

DeqCount(t) ==
  /\ Goto(t, "deq_count", "deq_advance")
  /\ size' = size - 1
  /\ UNCHANGED <<buffer, in, out, mutex, local>>

\* Mutant: the index is reduced before it is incremented.
DeqAdvanceNoWrap(t) ==
  /\ Goto(t, "deq_advance", "deq_unlock")
  /\ out' = (out % Capacity) + 1
  /\ UNCHANGED <<buffer, size, in, mutex, local>>

DeqAdvance(t) ==
  /\ Goto(t, "deq_advance", "deq_unlock")
  /\ out' = (out + 1) % Capacity
  /\ UNCHANGED <<buffer, size, in, mutex, local>>

DeqUnlock(t) ==
  /\ Goto(t, "deq_unlock", "idle")
  /\ Release(t)
  /\ UNCHANGED <<buffer, size, in, out, local>>

-----------------------------------------------------------------------------
(* queue_size, which headcrab never calls.                                 *)

CallSize(t) ==
  /\ Goto(t, "idle", "size_lock")
  /\ UNCHANGED <<buffer, size, in, out, mutex, local>>

SizeLock(t) ==
  /\ Goto(t, "size_lock", "size_read")
  /\ Acquire(t)
  /\ UNCHANGED <<buffer, size, in, out, local>>

SizeRead(t) ==
  /\ Goto(t, "size_read", "size_unlock")
  /\ local' = [local EXCEPT ![t] = size]
  /\ UNCHANGED <<buffer, size, in, out, mutex>>

SizeUnlock(t) ==
  /\ Goto(t, "size_unlock", "idle")
  /\ Release(t)
  /\ UNCHANGED <<buffer, size, in, out, local>>

-----------------------------------------------------------------------------
Call(t) == (\E v \in Pointers : CallEnqueue(t, v)) \/ CallDequeue(t) \/ CallSize(t)

Lock(t) == EnqLock(t) \/ DeqLock(t) \/ SizeLock(t)

\* A step of the thread that holds the mutex.
Step(t) ==
  \/ EnqCheck(t) \/ EnqFull(t) \/ EnqStore(t) \/ EnqCount(t)
  \/ EnqAdvance(t) \/ EnqUnlock(t)
  \/ DeqCheck(t) \/ DeqEmpty(t) \/ DeqLoad(t) \/ DeqCount(t)
  \/ DeqAdvance(t) \/ DeqUnlock(t)
  \/ SizeRead(t) \/ SizeUnlock(t)

Next == \E t \in Threads : Call(t) \/ Lock(t) \/ Step(t)

Spec == Init /\ [][Next]_vars

\* The scheduler lets a runnable thread run.  Nothing is assumed of which
\* waiting thread a released mutex goes to, or that a thread ever calls.
Fairness == \A t \in Threads : WF_vars(Step(t))

FairSpec == Spec /\ Fairness

-----------------------------------------------------------------------------
(* Correctness.                                                            *)

\* Every field of queue_t stays in its range: the indices in the array, the
\* size between 0 and the capacity.
TypeOK ==
  /\ buffer \in [0..(Capacity - 1) -> Pointers]
  /\ size \in 0..Capacity
  /\ in \in 0..(Capacity - 1)
  /\ out \in 0..(Capacity - 1)
  /\ mutex \in Threads \cup {Free}
  /\ pc \in [Threads -> PCs]
  /\ local \in [Threads -> Pointers \cup 0..Capacity]

At(statement) == \E t \in Threads : pc[t] = statement

\* The mutex is owned by exactly the thread inside a critical section.
OwnerInv == \A t \in Threads : pc[t] \in Critical <=> mutex = t

\* The slot of the oldest element: `out', but in the step between the two
\* writes of a dequeue, when the size is already lowered.
First == IF At("deq_advance") THEN (out + 1) % Capacity ELSE out

\* The elements before slot `in': all of them, but the one an enqueue has
\* counted and not yet stepped over.
Filled == IF At("enq_advance") THEN size - 1 ELSE size

\* `in', `out' and `size' agree whenever a thread could look at them.
IndexInv == in = (First + Filled) % Capacity

\* What the size check established still holds when it is acted upon: an
\* enqueue never overwrites an element, a dequeue never reads a stale slot.
CheckedInv ==
  \A t \in Threads :
    /\ pc[t] \in {"enq_store", "enq_count", "deq_advance"} => size < Capacity
    /\ pc[t] \in {"deq_load", "deq_count", "enq_advance"} => size > 0
    /\ pc[t] = "enq_full" => size = Capacity
    /\ pc[t] = "deq_empty" => size = 0
    /\ pc[t] = "enq_count" => buffer[in] = local[t]
    /\ pc[t] = "deq_count" => local[t] = buffer[out]
    /\ pc[t] \in EnqueuePCs => local[t] \in Pointers

\* The ring is consistent under every interleaving of its callers: one owner
\* at a time, indices that agree with the size, and checks that stay true
\* until they are used (queue.h, all three operations).
QueueInv == OwnerInv /\ IndexInv /\ CheckedInv

\* The abstract queue this ring represents.  An operation takes effect when it
\* changes or reads `size' for the last time.
Contents == [i \in 1..size |-> buffer[(First + (i - 1)) % Capacity]]

PendingAt ==
  [p \in PCs |->
    CASE p = "idle" -> "none"
      [] p \in {"enq_lock", "enq_check", "enq_store", "enq_count"} -> "enqueue"
      [] p \in {"deq_lock", "deq_check", "deq_load", "deq_count"} -> "dequeue"
      [] p \in {"size_lock", "size_read"} -> "size"
      [] OTHER -> "done"]

Pending == [t \in Threads |-> PendingAt[pc[t]]]

Result == [t \in Threads |->
             IF Pending[t] \in {"dequeue", "size"} THEN NULL ELSE local[t]]

Fifo == INSTANCE LinearFifo WITH items <- Contents, pending <- Pending, val <- Result

\* Every operation of queue.h takes effect atomically between its call and its
\* return, in first-in first-out order, dropping what does not fit.
Linearizable == Fifo!Spec

\* Every thread that gets the mutex gives it back, on the early returns too:
\* neither the websocket thread nor the application is blocked for good.
LockReleased == \A t \in Threads : (mutex = t) ~> (mutex # t)

=============================================================================
