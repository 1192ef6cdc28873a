---------------------------- MODULE BoundedFifo ----------------------------
(***************************************************************************)
(* What LockFreeQueue promises the two threads that share it: a first-in   *)
(* first-out buffer of bounded length.  An Enqueue may be refused (the     *)
(* caller then disposes of the value itself), a Dequeue may find nothing;  *)
(* both leave the queue as it was and are stuttering steps here.           *)
(***************************************************************************)
EXTENDS Naturals, Sequences

CONSTANTS Capacity,   \* the largest number of values held at once
          Value,      \* what is queued
          NoValue     \* the consumer has not been handed a value yet

VARIABLES queue,      \* values accepted and not yet handed out, oldest first
          out         \* the value handed out last

vars == <<queue, out>>

Init == /\ queue = <<>>
        /\ out = NoValue

Accept(v) == /\ Len(queue) < Capacity
             /\ queue' = Append(queue, v)
             /\ UNCHANGED out

HandOut == /\ queue # <<>>
           /\ out' = Head(queue)
           /\ queue' = Tail(queue)

Next == (\E v \in Value : Accept(v)) \/ HandOut

Spec == Init /\ [][Next]_vars
=============================================================================
