------------------------------ MODULE BoundedFifo ------------------------------
(***************************************************************************)
(* What a bounded queue promises its callers, as one atomic step per       *)
(* operation: items leave in the order in which they entered, each one     *)
(* leaves once, and never more than Capacity of them are inside.           *)
(*                                                                         *)
(* An operation that returns false changes nothing and is a stuttering     *)
(* step.  A caller of dequeue holds its item in got from the moment it is  *)
(* taken out of the queue until dequeue returns.                           *)
(***************************************************************************)
EXTENDS Naturals, Sequences

CONSTANTS Items,      \* what may be enqueued
          Takers,     \* the threads that dequeue
          Capacity,   \* how many items the queue holds
          None        \* "holds nothing"

VARIABLES queue,      \* the items inside, oldest first
          got         \* got[c]: the item that taker c is carrying out

vars == <<queue, got>>

Init ==
  /\ queue = <<>>
  /\ got = [c \in Takers |-> None]

Put(v) ==
  /\ Len(queue) < Capacity
  /\ queue' = Append(queue, v)
  /\ UNCHANGED got

Take(c) ==
  /\ got[c] = None
  /\ queue # <<>>
  /\ got' = [got EXCEPT ![c] = Head(queue)]
  /\ queue' = Tail(queue)

Return(c) ==
  /\ got[c] # None
  /\ got' = [got EXCEPT ![c] = None]
  /\ UNCHANGED queue

Next ==
  \/ \E v \in Items : Put(v)
  \/ \E c \in Takers : Take(c) \/ Return(c)

Spec == Init /\ [][Next]_vars

=============================================================================
