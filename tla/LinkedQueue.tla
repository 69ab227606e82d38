------------------------------ MODULE LinkedQueue ------------------------------
(***************************************************************************)
(* The linked queue of queue.c.  An empty queue keeps the addresses of its *)
(* last node, which malloc may give out again: only count says whether     *)
(* front and rear mean anything.  One thread; malloc does not fail.        *)
(***************************************************************************)
EXTENDS Integers, Sequences, FiniteSets

CONSTANTS
  Addr,     \* addresses that malloc may return; also the bound on the length
  Values    \* what is queued

Null == 0
Free == [value |-> 0, next |-> -1]   \* contents of memory that is not allocated

VARIABLES
  mem,         \* mem[a]: the node at address a, or Free
  count, front, rear,
  open,        \* create_queue has been called, and not destroy_queue
  destroying,  \* within destroy_queue
  queued       \* what has been added and not removed, oldest first

vars == <<mem, count, front, rear, open, destroying, queued>>

Allocated == {a \in Addr : mem[a] # Free}

Init ==
  /\ mem = [a \in Addr |-> Free]
  /\ count = 0 /\ front = Null /\ rear = Null
  /\ open = FALSE /\ destroying = FALSE
  /\ queued = <<>>

-----------------------------------------------------------------------------

(* Mutant: the new node goes behind rear whenever there is one. *)
Linked(a, v) ==
  LET new == [mem EXCEPT ![a] = [value |-> v, next |-> Null]]
  IN  IF rear # Null THEN [new EXCEPT ![rear].next = a] ELSE new

-----------------------------------------------------------------------------

create_queue ==
  /\ ~open
  /\ open' = TRUE
  /\ count' = 0 /\ front' = Null /\ rear' = Null
  /\ UNCHANGED <<mem, destroying, queued>>

(* The memory after a node for v has been allocated at a and linked in. *)
WithNode(a, v) ==
  LET new == [mem EXCEPT ![a] = [value |-> v, next |-> Null]]
  IN  IF count = 0 THEN new ELSE [new EXCEPT ![rear].next = a]

add_rear(v) ==
  /\ open /\ ~destroying
  /\ \E a \in Addr \ Allocated :
       /\ mem' = WithNode(a, v)
       /\ front' = IF count = 0 THEN a ELSE front
       /\ rear' = a
  /\ count' = count + 1
  /\ queued' = Append(queued, v)
  /\ UNCHANGED <<open, destroying>>

RemoveNode ==
  /\ count # 0
  /\ front' = mem[front].next
  /\ mem' = [mem EXCEPT ![front] = Free]
  /\ count' = count - 1
  /\ queued' = Tail(queued)
  /\ UNCHANGED rear

remove_front ==
  /\ open /\ ~destroying
  /\ RemoveNode
  /\ UNCHANGED <<open, destroying>>

destroy_queue ==
  /\ open
  /\ IF count # 0 THEN RemoveNode /\ destroying' = TRUE /\ UNCHANGED open
                  ELSE /\ open' = FALSE /\ destroying' = FALSE
                       /\ UNCHANGED <<mem, count, front, rear, queued>>

Next ==
  \/ create_queue
  \/ \E v \in Values : add_rear(v)
  \/ remove_front
  \/ destroy_queue

Spec == Init /\ [][Next]_vars

-----------------------------------------------------------------------------

(* The nodes that front leads to are those that are allocated, they hold   *)
(* what has been queued, in order, and the last one is rear: no item is    *)
(* lost or repeated, no freed node is reached although front and rear may  *)
(* dangle when the queue is empty, and nothing is left behind.             *)
ListIsQueue ==
  /\ count = Len(queued) /\ count = Cardinality(Allocated)
  /\ \E path \in [1..count -> Allocated] :
       /\ \A k \in 1..count : mem[path[k]].value = queued[k]
       /\ \A k \in 1..(count - 1) : mem[path[k]].next = path[k + 1]
       /\ count > 0 => front = path[1] /\ rear = path[count] /\ mem[rear].next = Null
  /\ ~open => Allocated = {}

=============================================================================
