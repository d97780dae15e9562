------------------------------- MODULE Queue -------------------------------
(***************************************************************************)
(* The persistent FIFO of client/collections/queue.go, as operators on a   *)
(* record [front, rear, elements]: two counters that only grow and a map   *)
(* from the indices front..rear-1 to the queued elements.  An element's    *)
(* key is its position in the order of all the elements ever enqueued,     *)
(* which is what the withdrawals of an execution payload carry as Index.   *)
(*                                                                         *)
(* The counters are uint64 in the code; the model leaves them unbounded    *)
(* (2^64 withdrawals are out of reach of a chain).                         *)
(***************************************************************************)
LOCAL INSTANCE Integers

\* Initialize: front and rear are set to 0; no element is stored yet.
Initialize == [front |-> 0, rear |-> 0, elements |-> [k \in {} |-> 0]]

QueueLen(q) == q.rear - q.front

IsEmpty(q) == QueueLen(q) = 0

Enqueue(q, elem) ==
  [front    |-> q.front,
   rear     |-> q.rear + 1,
   elements |-> [k \in q.front .. q.rear |->
                   IF k = q.rear THEN elem ELSE q.elements[k]]]

\* Get(index) counts from the front and is out of bounds from rear on.
InBounds(q, index) == q.front + index < q.rear

Get(q, index) == q.elements[q.front + index]

\* Dequeue removes elements[front]; of an empty queue it is ErrEmptyQueue and
\* changes nothing.
Dequeue(q) ==
  [front    |-> q.front + 1,
   rear     |-> q.rear,
   elements |-> [k \in (q.front + 1) .. (q.rear - 1) |-> q.elements[k]]]

\* The queues of the code's type Queue[T]: a map defined exactly on
\* the indices between front and rear.
IsQueue(q, T) ==
  /\ q.front \in Nat
  /\ q.rear \in Nat
  /\ q.front <= q.rear
  /\ q = [front |-> q.front, rear |-> q.rear, elements |-> q.elements]
  /\ q.elements \in [q.front .. (q.rear - 1) -> T]
=============================================================================
