------------------------------- MODULE SpscQueue -------------------------------
(***************************************************************************)
(* spsc_bounded_queue_t of lockfreeq.h: a ring between one thread that     *)
(* enqueues and one that dequeues.  _head and _tail are only ever stored   *)
(* by their own thread, so a thread knows its own counter; the other one   *)
(* it may see late, though never earlier than it has seen it before.       *)
(* Size - 1 items fit: the producer keeps one slot free.                   *)
(*                                                                         *)
(* The counters are naturals here (no wrap of size_t).  isempty only       *)
(* loads; a false return of enqueue or dequeue changes nothing either.     *)
(***************************************************************************)
EXTENDS Integers, Sequences

CONSTANTS
  Items,    \* what may be enqueued
  None,     \* no item
  Size      \* _size

(* The constructor's assertion: a power of two. *)
ASSUME SpscAssumption ==
  /\ None \notin Items
  /\ Size \in Nat \ {0}
  /\ \E n \in 0..Size : Size = 2^n

VARIABLES
  head, tail,      \* _head, _tail
  buffer,          \* _buffer
  ppc, pitem,      \* the producer: "idle", "check", "write", "store"; input
  ptail,           \* the last value of _tail that it has seen
  cpc, citem,      \* the consumer: "idle", "read", "store", "return"; *output
  chead            \* the last value of _head that it has seen

producer == <<head, ppc, pitem, ptail>>
consumer == <<tail, cpc, citem, chead>>
queueVars == <<head, tail, buffer, ppc, pitem, ptail, cpc, citem, chead>>

(* n & _mask *)
Slot(n) == n % Size

QueueTypeOK ==
  /\ head \in Nat /\ tail \in Nat /\ ptail \in Nat /\ chead \in Nat
  /\ buffer \in [0..(Size - 1) -> Items \cup {None}]
  /\ ppc \in {"idle", "check", "write", "store"}
  /\ pitem \in Items \cup {None}
  /\ ppc # "idle" => pitem \in Items
  /\ cpc \in {"idle", "read", "store", "return"}
  /\ citem \in Items \cup {None}

QueueInit ==
  /\ head = 0 /\ tail = 0 /\ ptail = 0 /\ chead = 0
  /\ buffer = [s \in 0..(Size - 1) |-> None]
  /\ ppc = "idle" /\ pitem = None
  /\ cpc = "idle" /\ citem = None

-----------------------------------------------------------------------------
(* Mutants: plausible slips in the code, none of them part of the          *)
(* specification.  Each one breaks the property that it is paired with.    *)

(* No slot is kept free. *)
HasRoomForAll(t) == head - t < Size \/ Slot(t - (head + 1)) >= 1

(* _buffer[(head + 1) & _mask] = input *)
EnqueueWriteNext ==
  /\ ppc = "write"
  /\ buffer' = [buffer EXCEPT ![Slot(head + 1)] = pitem]
  /\ ppc' = "store"
  /\ UNCHANGED <<head, pitem, ptail, consumer>>

-----------------------------------------------------------------------------
(* enqueue *)

EnqueueCall(v) ==
  /\ ppc = "idle"
  /\ pitem' = v
  /\ ppc' = "check"
  /\ UNCHANGED <<head, ptail, buffer, consumer>>

HasRoom(t) == Slot(t - (head + 1)) >= 1

(* The acquire load of _tail sees t. *)
EnqueueRoom(t) ==
  /\ ppc = "check"
  /\ HasRoom(t)
  /\ ptail' = t
  /\ ppc' = "write"
  /\ UNCHANGED <<head, pitem, buffer, consumer>>

(* false; the caller tries again with the same item. *)
EnqueueFull(t) ==
  /\ ppc = "check"
  /\ ~HasRoom(t)
  /\ ptail' = t
  /\ UNCHANGED <<head, ppc, pitem, buffer, consumer>>

EnqueueWrite ==
  /\ ppc = "write"
  /\ buffer' = [buffer EXCEPT ![Slot(head)] = pitem]
  /\ ppc' = "store"
  /\ UNCHANGED <<head, pitem, ptail, consumer>>

EnqueueStore ==
  /\ ppc = "store"
  /\ head' = head + 1
  /\ ppc' = "idle"
  /\ pitem' = None
  /\ UNCHANGED <<ptail, buffer, consumer>>

Enqueue ==
  \/ \E t \in ptail..tail : EnqueueRoom(t) \/ EnqueueFull(t)
  \/ EnqueueWrite \/ EnqueueStore

-----------------------------------------------------------------------------
(* dequeue *)

HasItem(h) == Slot(h - tail) >= 1

DequeueReady(h) ==
  /\ cpc = "idle"
  /\ HasItem(h)
  /\ chead' = h
  /\ cpc' = "read"
  /\ UNCHANGED <<tail, citem, buffer, producer>>

DequeueEmpty(h) ==
  /\ cpc = "idle"
  /\ ~HasItem(h)
  /\ chead' = h
  /\ UNCHANGED <<tail, cpc, citem, buffer, producer>>

DequeueRead ==
  /\ cpc = "read"
  /\ citem' = buffer[Slot(tail)]
  /\ cpc' = "store"
  /\ UNCHANGED <<tail, chead, buffer, producer>>

DequeueStore ==
  /\ cpc = "store"
  /\ tail' = tail + 1
  /\ cpc' = "return"
  /\ UNCHANGED <<citem, chead, buffer, producer>>

(* The caller has what it asked for. *)
DequeueReturn ==
  /\ cpc = "return"
  /\ cpc' = "idle"
  /\ citem' = None
  /\ UNCHANGED <<tail, chead, buffer, producer>>

Dequeue ==
  \/ \E h \in chead..head : DequeueReady(h) \/ DequeueEmpty(h)
  \/ DequeueRead \/ DequeueStore

-----------------------------------------------------------------------------

QueueNext ==
  \/ \E v \in Items : EnqueueCall(v)
  \/ Enqueue
  \/ Dequeue
  \/ DequeueReturn

QueueSpec == QueueInit /\ [][QueueNext]_queueVars

(* The items from _tail to _head, in the order of the counters. *)
Inside == [n \in 1..(head - tail) |-> buffer[Slot(tail + n - 1)]]

Fifo == INSTANCE BoundedFifo
          WITH Takers <- {"consumer"}, Capacity <- Size - 1, queue <- Inside,
               got <- [c \in {"consumer"} |-> IF cpc = "return" THEN citem ELSE None]

(* The ring is a queue of Size - 1 items: what enqueue has accepted comes  *)
(* out of dequeue once, in the same order and as it was put in, however    *)
(* late the two threads see each other's counter.  The store to _head is   *)
(* the moment an item enters, the store to _tail that when it leaves.      *)
ImplementsFifo == Fifo!Spec

(* What makes it so.  The counters are at most Size - 1 apart, also as the *)
(* threads see them; a producer that has found room still has it when it   *)
(* writes, and a consumer that has found an item reads the oldest one.     *)
QueueInv ==
  /\ QueueTypeOK
  /\ ptail <= tail /\ tail <= chead /\ chead <= head
  /\ head - ptail <= Size - 1
  /\ ppc \in {"write", "store"} => head - ptail < Size - 1
  /\ ppc = "store" => buffer[Slot(head)] = pitem
  /\ cpc \in {"read", "store"} => tail < chead
  /\ cpc = "store" => citem = buffer[Slot(tail)]
  /\ cpc = "return" => citem \in Items
  /\ \A n \in tail..(head - 1) : buffer[Slot(n)] \in Items

=============================================================================
