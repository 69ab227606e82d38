----------------------------- MODULE PriorityQueue -----------------------------
(***************************************************************************)
(* The binary heap of priority_queue.c, an array whose entry 0 is not      *)
(* used.  PQ_pop moves a hole down from the root and compares with what    *)
(* the hole's place held before, not with the node that will fill it.      *)
(* Priorities are below 2^31 (they are kept as int and passed as unsigned  *)
(* int).  One thread; realloc does not fail.                               *)
(***************************************************************************)
EXTENDS Integers, FiniteSets

CONSTANTS
  Priorities,
  MaxPushes     \* bound: calls of PQ_push

Junk == [priority |-> 0, data |-> 0]   \* contents of memory not yet written

VARIABLES
  nodes,   \* nodes[1..size - 1]
  len, size,
  call,    \* the call that is being executed, or "none"
  item,    \* the node that PQ_push is given
  hole,    \* i of either loop
  held,    \* the nodes that have been pushed and not popped
  pushes,  \* calls of PQ_push; also tells the data apart
  deep     \* there have been more than four nodes since the heap was empty

vars == <<nodes, len, size, call, item, hole, held, pushes, deep>>

Init ==
  /\ nodes = <<>> /\ len = 0 /\ size = 0
  /\ call = "none" /\ item = Junk /\ hole = 1
  /\ held = {} /\ pushes = 0 /\ deep = FALSE

-----------------------------------------------------------------------------

(* Mutant: PQ_pop leaves the hole with what has been there. *)
FilledFromHole(h, i, n) == h

-----------------------------------------------------------------------------

(* PQ_push: the array grows, the hole is behind its last node.             *)

Grown == IF len + 1 >= size THEN IF size = 0 THEN 4 ELSE size * 2 ELSE size

PQ_push(p) ==
  /\ call = "none" /\ call' = "push"
  /\ pushes < MaxPushes
  /\ size' = Grown
  /\ nodes' = [k \in 1..(size' - 1) |-> IF k < size THEN nodes[k] ELSE Junk]
  /\ item' = [priority |-> p, data |-> pushes + 1]
  /\ hole' = len + 1
  /\ pushes' = pushes + 1
  /\ UNCHANGED <<len, held, deep>>

(* Its loop moves every larger parent down. *)
Above == hole > 1 /\ nodes[hole \div 2].priority > item.priority

MoveUp ==
  /\ call = "push"
  /\ Above
  /\ nodes' = [nodes EXCEPT ![hole] = nodes[hole \div 2]]
  /\ hole' = hole \div 2
  /\ UNCHANGED <<len, size, call, item, held, pushes, deep>>

PushEnds ==
  /\ call = "push" /\ call' = "none"
  /\ ~Above
  /\ nodes' = [nodes EXCEPT ![hole] = item]
  /\ len' = len + 1
  /\ held' = held \cup {item}
  /\ deep' = (deep \/ len' > 4)
  /\ UNCHANGED <<size, item, hole, pushes>>

-----------------------------------------------------------------------------
(* PQ_pop: the last node is copied to the root, where the hole is.         *)

PQ_pop ==
  /\ call = "none" /\ call' = "pop"
  /\ len > 0
  /\ nodes' = [nodes EXCEPT ![1] = nodes[len]]
  /\ len' = len - 1
  /\ hole' = 1
  /\ held' = held \ {nodes[1]}
  /\ deep' = (deep /\ len' > 0)
  /\ UNCHANGED <<size, item, pushes>>

(* Its loop moves a least child up that is less than what the hole held.   *)
Less(i, k) == i <= len /\ nodes[i].priority < nodes[k].priority
Child ==
  LET left == IF Less(2 * hole, hole) THEN 2 * hole ELSE hole
  IN  IF Less(2 * hole + 1, left) THEN 2 * hole + 1 ELSE left

MoveDown ==
  /\ call = "pop"
  /\ Child # hole
  /\ nodes' = [nodes EXCEPT ![hole] = nodes[Child]]
  /\ hole' = Child
  /\ UNCHANGED <<len, size, call, item, held, pushes, deep>>

Filled(h, i, n) == [h EXCEPT ![i] = h[n + 1]]

PopEnds ==
  /\ call = "pop" /\ call' = "none"
  /\ Child = hole
  /\ nodes' = Filled(nodes, hole, len)
  /\ UNCHANGED <<len, size, item, hole, held, pushes, deep>>

-----------------------------------------------------------------------------

PQ_front == nodes[1]

Next ==
  \/ \E p \in Priorities : PQ_push(p)
  \/ MoveUp \/ PushEnds
  \/ PQ_pop \/ MoveDown \/ PopEnds

Spec == Init /\ [][Next]_vars

-----------------------------------------------------------------------------

(* Between calls the array holds exactly the nodes that were pushed and    *)
(* not popped, and its last node is within it, through every growth; and   *)
(* the front is a least one unless there have been more than four nodes at *)
(* once, where PQ_pop may put a node above a smaller one.                  *)
FrontIsLeast ==
  call = "none" =>
    /\ len = 0 \/ len < size
    /\ len = Cardinality(held) /\ held = {nodes[k] : k \in 1..len}
    /\ len > 0 /\ ~deep => \A k \in 1..len : PQ_front.priority <= nodes[k].priority

=============================================================================
