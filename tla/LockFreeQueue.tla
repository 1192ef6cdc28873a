--------------------------- MODULE LockFreeQueue ---------------------------
(***************************************************************************)
(* LockFreeQueue<T, Size> (src/nnopbase/common/inc/lock_free_queue.h): the *)
(* single-producer single-consumer ring through which a thread passes      *)
(* evicted cache entries to its garbage-collection thread.  One slot stays *)
(* unused, so head = tail means empty.                                     *)
(*                                                                         *)
(* Each access to a variable of the other side is a step of its own.  An   *)
(* acquire load may return an old value of the other side's index, but     *)
(* never one older than a value it has already returned: seenHead and      *)
(* seenTail are the last values returned, and a load chooses among the     *)
(* values stored since.                                                    *)
(***************************************************************************)
EXTENDS Naturals, Sequences

CONSTANTS Size, Value, NoValue

ASSUME SizeAssumption == Size \in Nat \ {0}
ASSUME NoValueAssumption == NoValue \notin Value

VARIABLES
    buffer,     \* the ring
    head, tail, \* next slot to read, next slot to write
    ppc,        \* what the producer does next
    value,      \* the argument of the Enqueue under way
    seenHead,   \* what the producer's last load of head returned
    cpc,        \* what the consumer does next
    read,       \* the local copy made by the Dequeue under way
    seenTail,   \* what the consumer's last load of tail returned
    out         \* the value the last successful Dequeue returned

shared == <<buffer, head, tail>>
producer == <<ppc, value, seenHead>>
consumer == <<cpc, read, seenTail, out>>
ringVars == <<shared, producer, consumer>>

Slot == 0 .. Size - 1

Successor(i) == (i + 1) % Size

\* How many times an index is advanced to get from slot i to slot j.
Distance(i, j) == IF i <= j THEN j - i ELSE j - i + Size

\* The values an acquire load may return when the last load of the same
\* index returned seen and the index now holds current.
Visible(seen, current) ==
    {i \in Slot : Distance(seen, i) <= Distance(seen, current)}

RingInit ==
    /\ buffer = [i \in Slot |-> NoValue]
    /\ head = 0 /\ tail = 0
    /\ ppc = "idle" /\ value = NoValue /\ seenHead = 0
    /\ cpc = "idle" /\ read = NoValue /\ seenTail = 0
    /\ out = NoValue
-----------------------------------------------------------------------------
(* Enqueue *)

EnqueueCall(v) ==
    /\ ppc = "idle"
    /\ value' = v
    /\ ppc' = "check"
    /\ UNCHANGED <<shared, seenHead, consumer>>

\* Mutant: the full test is forgotten.
EnqueueCheckUnbounded ==
    /\ ppc = "check"
    /\ \E h \in Visible(seenHead, head) : seenHead' = h
    /\ ppc' = "write"
    /\ UNCHANGED <<shared, value, consumer>>

\* head.load(acquire); the queue is full when the next tail equals it.
EnqueueCheck ==
    /\ ppc = "check"
    /\ \E h \in Visible(seenHead, head) :
          /\ seenHead' = h
          /\ ppc' = IF Successor(tail) = h THEN "idle" ELSE "write"
    /\ UNCHANGED <<shared, value, consumer>>

EnqueueWrite ==
    /\ ppc = "write"
    /\ buffer' = [buffer EXCEPT ![tail] = value]
    /\ ppc' = "publish"
    /\ UNCHANGED <<head, tail, value, seenHead, consumer>>

EnqueuePublish ==
    /\ ppc = "publish"
    /\ tail' = Successor(tail)
    /\ ppc' = "idle"
    /\ UNCHANGED <<buffer, head, value, seenHead, consumer>>

-----------------------------------------------------------------------------
(* Dequeue *)

\* Mutant: a ring that holds one value is taken for empty.
DequeueCheckKeepsOne ==
    /\ cpc = "idle"
    /\ \E t \in Visible(seenTail, tail) :
          /\ seenTail' = t
          /\ cpc' = IF t \in {head, Successor(head)} THEN "idle" ELSE "read"
    /\ UNCHANGED <<shared, producer, read, out>>

\* tail.load(acquire); the queue is empty when head equals it.
DequeueCheck ==
    /\ cpc = "idle"
    /\ \E t \in Visible(seenTail, tail) :
          /\ seenTail' = t
          /\ cpc' = IF head = t THEN "idle" ELSE "read"
    /\ UNCHANGED <<shared, producer, read, out>>

\* Mutant: the slot after head is read.
DequeueReadNext ==
    /\ cpc = "read"
    /\ read' = buffer[Successor(head)]
    /\ cpc' = "publish"
    /\ UNCHANGED <<shared, producer, seenTail, out>>

DequeueRead ==
    /\ cpc = "read"
    /\ read' = buffer[head]
    /\ cpc' = "publish"
    /\ UNCHANGED <<shared, producer, seenTail, out>>

DequeuePublish ==
    /\ cpc = "publish"
    /\ head' = Successor(head)
    /\ out' = read
    /\ cpc' = "idle"
    /\ UNCHANGED <<buffer, tail, producer, read, seenTail>>
-----------------------------------------------------------------------------
Producer == (\E v \in Value : EnqueueCall(v)) \/ EnqueueCheck \/ EnqueueWrite
            \/ EnqueuePublish
Consumer == DequeueCheck \/ DequeueRead \/ DequeuePublish

RingNext == Producer \/ Consumer

RingSpec == RingInit /\ [][RingNext]_ringVars

\* The consumer polls for ever, an Enqueue that was begun is finished, and a
\* store becomes visible to a thread that keeps loading.
RingFairness ==
    /\ WF_ringVars(Consumer)
    /\ WF_ringVars(EnqueueWrite \/ EnqueuePublish)
    /\ SF_ringVars(DequeueCheck /\ cpc' = "read")

RingLiveSpec == RingSpec /\ RingFairness
-----------------------------------------------------------------------------
(* Properties *)

RingTypeOK ==
    /\ buffer \in [Slot -> Value \cup {NoValue}]
    /\ head \in Slot /\ tail \in Slot
    /\ ppc \in {"idle", "check", "write", "publish"}
    /\ value \in Value \cup {NoValue}
    /\ seenHead \in Slot
    /\ cpc \in {"idle", "read", "publish"}
    /\ read \in Value \cup {NoValue}
    /\ seenTail \in Slot
    /\ out \in Value \cup {NoValue}

\* The slot Enqueue is about to write, and not yet published, is never the
\* slot Dequeue has found non-empty and reads: the plain accesses to
\* buffer[] of the two threads never race.
NoSlotRace ==
    ~ (ppc \in {"write", "publish"} /\ cpc \in {"read", "publish"} /\ tail = head)

\* The part of the ring between head and tail, oldest first.
Wrap(i) == IF i < Size THEN i ELSE i - Size
Content == [k \in 1 .. Distance(head, tail) |-> buffer[Wrap(head + k - 1)]]

\* The four indices lie on the ring in the order in which they are advanced,
\* a checked Enqueue has a free slot, a checked Dequeue has a value, and what
\* the two have copied is what the ring holds.
Order == /\ Distance(seenHead, head) <= Distance(seenHead, seenTail)
         /\ Distance(seenHead, seenTail) <= Distance(seenHead, tail)
CheckedEnqueue ==
    /\ ppc \in {"write", "publish"} => Distance(seenHead, tail) < Size - 1
    /\ ppc # "idle" => value \in Value
    /\ ppc = "publish" => buffer[tail] = value
CheckedDequeue ==
    /\ cpc \in {"read", "publish"} => head # seenTail
    /\ cpc = "publish" => read = buffer[head]
HeldValues ==
    \A k \in 1 .. Distance(head, tail) : buffer[Wrap(head + k - 1)] \in Value
RingInv == RingTypeOK /\ Order /\ CheckedEnqueue /\ CheckedDequeue /\ HeldValues

\* The ring implements a bounded first-in first-out queue: nothing is lost,
\* duplicated, reordered or overwritten, whatever the interleaving and
\* however old the indices that the two threads load.
Fifo == INSTANCE BoundedFifo WITH Capacity <- Size - 1, queue <- Content
ImplementsFifo == Fifo!Spec

\* A slot that holds a value is eventually read and released: the polling
\* loop of the garbage-collection thread drains whatever was enqueued.
Drains == \A h \in Slot : (head = h /\ tail # h) ~> (head # h)
=============================================================================
