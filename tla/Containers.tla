------------------------------- MODULE Containers -------------------------------
(* LinkedQueue, PriorityQueue and KeyMap side by side; they share nothing *)
EXTENDS Integers, Sequences, FiniteSets

CONSTANTS Addr, Values, Priorities, MaxPushes, Keys, Width

VARIABLES
  mem, count, front, rear, open, destroying, queued,       \* of LinkedQueue
  nodes, len, size, call, item, hole, held, pushes, deep,  \* of PriorityQueue
  map, values, arg, hash                                   \* of KeyMap

List == INSTANCE LinkedQueue
Heap == INSTANCE PriorityQueue
Map == INSTANCE KeyMap

(* The list of queue.c holds what was queued, reaches no freed node and    *)
(* leaves none behind (LinkedQueue).                                       *)
ListIsQueue == List!ListIsQueue

(* The heap of priority_queue.c keeps its nodes, and its front is a least  *)
(* one while at most four are inside (PriorityQueue).                      *)
FrontIsLeast == Heap!FrontIsLeast

(* No two keys get the same number from hashMapInsert (KeyMap).            *)
NumbersUnique == Map!NumbersUnique

=============================================================================
