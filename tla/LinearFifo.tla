----------------------------- MODULE LinearFifo -----------------------------
(***************************************************************************)
(* What the message queues of headcrab promise the threads that share      *)
(* them: a bounded first-in first-out queue whose operations each take     *)
(* effect at one instant between their call and their return.              *)
(*                                                                         *)
(*   - an enqueue into a full queue has no effect (the newest is dropped); *)
(*   - a dequeue of an empty queue returns NULL;                           *)
(*   - NULL is a legal element, which the caller of a dequeue cannot tell  *)
(*     from an empty queue.                                                *)
(***************************************************************************)
EXTENDS Integers, Sequences

CONSTANTS
  Threads,   \* the threads that call the queue
  Values,    \* the pointers they enqueue, NULL apart
  NULL,
  Capacity   \* the number of slots

VARIABLES
  items,     \* the queue's contents, oldest first
  pending,   \* per thread: "none", the operation called, or "done"
  val        \* per thread: the argument, then the result, of its operation

fifoVars == <<items, pending, val>>

Pointers == Values \cup {NULL}

Init ==
  /\ items = << >>
  /\ pending = [t \in Threads |-> "none"]
  /\ val = [t \in Threads |-> NULL]

Invoke(t, operation, argument) ==
  /\ pending[t] = "none"
  /\ pending' = [pending EXCEPT ![t] = operation]
  /\ val' = [val EXCEPT ![t] = argument]
  /\ UNCHANGED items

Enqueue(t) ==
  /\ pending[t] = "enqueue"
  /\ pending' = [pending EXCEPT ![t] = "done"]
  /\ items' = IF Len(items) < Capacity THEN Append(items, val[t]) ELSE items
  /\ UNCHANGED val

Dequeue(t) ==
  /\ pending[t] = "dequeue"
  /\ pending' = [pending EXCEPT ![t] = "done"]
  /\ val' = [val EXCEPT ![t] = IF items = << >> THEN NULL ELSE Head(items)]
  /\ items' = IF items = << >> THEN items ELSE Tail(items)

Size(t) ==
  /\ pending[t] = "size"
  /\ pending' = [pending EXCEPT ![t] = "done"]
  /\ val' = [val EXCEPT ![t] = Len(items)]
  /\ UNCHANGED items

Return(t) ==
  /\ pending[t] = "done"
  /\ pending' = [pending EXCEPT ![t] = "none"]
  /\ UNCHANGED <<items, val>>

Next ==
  \E t \in Threads :
    \/ \E v \in Pointers : Invoke(t, "enqueue", v)
    \/ Invoke(t, "dequeue", NULL)
    \/ Invoke(t, "size", NULL)
    \/ Enqueue(t)
    \/ Dequeue(t)
    \/ Size(t)
    \/ Return(t)

Spec == Init /\ [][Next]_fifoVars

=============================================================================
