-------------------------- MODULE Containers_proofs --------------------------
(***************************************************************************)
(* Proofs about LinkedQueue, PriorityQueue and KeyMap, for every set of    *)
(* addresses, values, priorities and keys and every width of the hash.     *)
(***************************************************************************)
EXTENDS Containers, SequenceTheorems, FiniteSetTheorems, FunctionTheorems, TLAPS

-----------------------------------------------------------------------------
(* KeyMap *)

(* The number being tried belongs to a key that has none yet. *)
MapInv ==
  /\ map \in [Keys -> 0..(Width - 1) \cup {-1}]
  /\ arg \in Keys \cup {-1}
  /\ hash \in 0..(Width - 1) \cup {-1}
  /\ hash # -1 => arg \in Keys /\ map[arg] = -1
  /\ \A k, l \in Keys : k # l /\ map[k] # -1 => map[k] # map[l]
  /\ values = {map[key] : key \in Keys} \ {-1}

LEMMA HashInRange ==
  ASSUME Keys \subseteq Nat, Width \in Nat \ {0}, NEW key \in Keys
  PROVE  Map!Hash(key) \in 0..(Width - 1)
  BY DEF Map!Hash

LEMMA MapInvStep ==
  ASSUME Keys \subseteq Nat, Width \in Nat \ {0}, MapInv, [Map!Next]_(Map!vars)
  PROVE  MapInv'
<1>1. CASE UNCHANGED Map!vars
  BY <1>1 DEF Map!vars, MapInv
<1>2. ASSUME NEW key \in Keys, Map!Call(key)
      PROVE  MapInv'
  BY <1>2 DEF Map!Call, MapInv
<1>3. CASE Map!Hit
  BY <1>3 DEF Map!Hit, MapInv
<1>4. CASE Map!FirstTry
  <2>1. arg \in Keys
    BY <1>4 DEF Map!FirstTry, MapInv
  <2>2. hash' \in 0..(Width - 1)
    BY <1>4, <2>1, HashInRange DEF Map!FirstTry
  <2> QED  BY <1>4, <2>1, <2>2 DEF Map!FirstTry, MapInv
<1>5. CASE Map!TryAgain
  <2>1. arg \in Keys /\ map[arg] = -1
    BY <1>5 DEF Map!TryAgain, MapInv
  <2>2. hash' \in 0..(Width - 1)
    BY <1>5, <2>1, HashInRange DEF Map!TryAgain
  <2> QED  BY <1>5, <2>1, <2>2 DEF Map!TryAgain, MapInv
<1>6. CASE Map!Insert
  <2>1. arg \in Keys /\ map[arg] = -1 /\ hash \in 0..(Width - 1) /\ hash \notin values
    BY <1>6 DEF Map!Insert, Map!InUse, MapInv
  <2>2. /\ values' = values \cup {hash} /\ map' = [map EXCEPT ![arg] = hash]
        /\ arg' = -1 /\ hash' = -1
    BY <1>6 DEF Map!Insert
  <2>3. map'[arg] = hash /\ \A k \in Keys : k # arg => map'[k] = map[k]
    BY <2>1, <2>2 DEF MapInv
  <2>4. map' \in [Keys -> 0..(Width - 1) \cup {-1}]
    BY <2>1, <2>2 DEF MapInv
  <2>5. \A k \in Keys : map[k] # -1 => map[k] \in values
    BY DEF MapInv
  <2>6. \A k, l \in Keys : k # l /\ map'[k] # -1 => map'[k] # map'[l]
    BY <2>1, <2>3, <2>5 DEF MapInv
  <2>7. values' = {map'[key] : key \in Keys} \ {-1}
    BY <2>1, <2>2, <2>3 DEF MapInv
  <2> QED  BY <2>2, <2>4, <2>6, <2>7 DEF MapInv
<1> QED  BY <1>1, <1>2, <1>3, <1>4, <1>5, <1>6 DEF Map!Next

(* hashMapInsert gives no two keys the same number, and hashMapFind takes  *)
(* no missing key for another one (but for the last number).               *)
THEOREM MapNumbersUnique ==
  ASSUME Keys \subseteq Nat, Width \in Nat \ {0}
  PROVE  Map!Spec => []NumbersUnique
<1>1. Map!Init => MapInv
  BY DEF Map!Init, MapInv
<1>2. MapInv => NumbersUnique
  BY DEF MapInv, NumbersUnique, Map!NumbersUnique, Map!Find
<1>3. MapInv /\ [Map!Next]_(Map!vars) => MapInv'
  BY MapInvStep
<1> QED  BY <1>1, <1>2, <1>3, PTL DEF Map!Spec

-----------------------------------------------------------------------------
(* LinkedQueue *)

(* The nodes from front on, in order: path lists every allocated one once. *)
IsPath(path) ==
  /\ path \in [1..count -> Addr]
  /\ \A k, l \in 1..count : path[k] = path[l] => k = l
  /\ \A a \in Addr : a \in List!Allocated <=> \E k \in 1..count : path[k] = a
  /\ \A k \in 1..count : mem[path[k]].value = queued[k]
  /\ \A k \in 1..(count - 1) : mem[path[k]].next = path[k + 1]
  /\ count > 0 => front = path[1] /\ rear = path[count] /\ mem[rear].next = List!Null

Node == [value : Values, next : Addr \cup {List!Null}]

ListInv ==
  /\ mem \in [Addr -> Node \cup {List!Free}]
  /\ queued \in Seq(Values) /\ count = Len(queued)
  /\ open \in BOOLEAN /\ destroying \in BOOLEAN
  /\ ~open => count = 0
  /\ \E path : IsPath(path)

LEMMA NodeNotFree ==
  ASSUME Addr \subseteq Nat \ {0}
  PROVE  \A node \in Node : node # List!Free
<1> SUFFICES ASSUME NEW node \in Node, node = List!Free
             PROVE  FALSE
  OBVIOUS
<1>1. node.next \in Addr \cup {0}
  BY DEF Node, List!Null
<1>2. node.next = -1
  BY DEF List!Free
<1> QED  BY <1>1, <1>2

LEMMA AddRearStep ==
  ASSUME Addr \subseteq Nat \ {0}, ListInv, NEW v \in Values, List!add_rear(v)
  PROVE  ListInv'
<1>1. PICK path : IsPath(path)
  BY DEF ListInv
<1>2. PICK a \in Addr \ List!Allocated :
        /\ mem' = List!WithNode(a, v)
        /\ front' = IF count = 0 THEN a ELSE front
        /\ rear' = a
  BY DEF List!add_rear
<1>3. /\ count' = count + 1 /\ queued' = Append(queued, v) /\ open' = open
      /\ destroying' = destroying /\ open /\ count \in Nat
  BY DEF List!add_rear, ListInv
<1> DEFINE node == [value |-> v, next |-> List!Null]
           longer == [k \in 1..(count + 1) |-> IF k = count + 1 THEN a ELSE path[k]]
<1>4. \A k \in 1..count : path[k] \in Addr /\ path[k] # a /\ longer[k] = path[k]
  BY <1>1, <1>3 DEF IsPath
<1>5. longer[count + 1] = a /\ longer \in [1..(count + 1) -> Addr]
  BY <1>1, <1>3 DEF IsPath
<1>6. count > 0 => rear = path[count] /\ rear \in Addr /\ rear # a /\ mem[rear] \in Node
  <2>1. count > 0 => count \in 1..count
    BY <1>3
  <2>2. count > 0 => rear = path[count] /\ rear \in Addr /\ rear # a
    <3>1. count > 0 => rear = path[count]
      BY <1>1 DEF IsPath
    <3> QED  BY <1>4, <2>1, <3>1
  <2>3. count > 0 => rear \in List!Allocated
    BY <1>1, <2>1, <2>2 DEF IsPath
  <2> QED  BY <2>2, <2>3 DEF ListInv, List!Allocated
<1>7. /\ mem'[a] = node
      /\ count > 0 => mem'[rear] = [mem[rear] EXCEPT !.next = a]
      /\ \A b \in Addr : b # a /\ (count > 0 => b # rear) => mem'[b] = mem[b]
      /\ DOMAIN mem' = Addr
  <2>1. CASE count = 0
    BY <1>2, <2>1 DEF List!WithNode, ListInv
  <2>2. CASE count > 0
    BY <1>2, <1>6, <2>2 DEF List!WithNode, ListInv
  <2> QED  BY <1>3, <2>1, <2>2
<1>8. node \in Node /\ (count > 0 => mem'[rear] \in Node /\ mem'[rear].value = mem[rear].value
                                     /\ mem'[rear].next = a)
  BY <1>6, <1>7 DEF Node
<1>9. mem' \in [Addr -> Node \cup {List!Free}]
  <2>1. \A b \in Addr : mem'[b] \in Node \cup {List!Free}
    BY <1>7, <1>8 DEF ListInv
  <2>2. mem' = [b \in Addr |-> mem'[b]]
    <3>1. CASE count = 0
      BY <1>2, <3>1 DEF List!WithNode, ListInv
    <3>2. CASE count > 0
      BY <1>2, <3>2 DEF List!WithNode, ListInv
    <3> QED  BY <1>3, <3>1, <3>2
  <2> QED  BY <2>1, <2>2
<1>10. \A b \in Addr : b \in List!Allocated' <=> b = a \/ b \in List!Allocated
  BY <1>6, <1>7, <1>8, NodeNotFree DEF List!Allocated
<1>11. \A k \in 1..count : mem'[path[k]].value = mem[path[k]].value
  BY <1>4, <1>7, <1>8
<1>12. \A k \in 1..(count - 1) : mem'[path[k]] = mem[path[k]]
  <2> SUFFICES ASSUME NEW k \in 1..(count - 1)
               PROVE  mem'[path[k]] = mem[path[k]]
    OBVIOUS
  <2>1. k \in 1..count /\ count \in 1..count /\ k # count
    BY <1>3
  <2>2. path[k] # path[count]
    BY <1>1, <2>1 DEF IsPath
  <2> QED  BY <1>4, <1>6, <1>7, <2>1, <2>2
<1>13. /\ queued' \in Seq(Values) /\ count' = Len(queued')
       /\ \A k \in 1..count : queued'[k] = queued[k]
       /\ queued'[count + 1] = v
  BY <1>3 DEF ListInv
<1>14. PICK p : p = longer
  OBVIOUS
<1>15. IsPath(p)'
  <2> HIDE DEF longer, node
  <2>1. longer \in [1..count' -> Addr]
    BY <1>3, <1>5
  <2>2. \A k \in 1..count' : k \in 1..count \/ k = count + 1
    BY <1>3
  <2>3. \A k, l \in 1..count' : longer[k] = longer[l] => k = l
    BY <1>1, <1>4, <1>5, <2>2 DEF IsPath
  <2>4. \A b \in Addr : b \in List!Allocated' <=> \E k \in 1..count' : longer[k] = b
    <3>1. \A k \in 1..count : k \in 1..count'
      BY <1>3
    <3>2. count + 1 \in 1..count'
      BY <1>3
    <3> QED  BY <1>1, <1>4, <1>5, <1>10, <2>2, <3>1, <3>2 DEF IsPath
  <2>5. \A k \in 1..count' : mem'[longer[k]].value = queued'[k]
    <3>1. mem'[a].value = v
      BY <1>7 DEF node
    <3> QED  BY <1>1, <1>4, <1>5, <1>11, <1>13, <2>2, <3>1 DEF IsPath
  <2>6. \A k \in 1..(count' - 1) : mem'[longer[k]].next = longer[k + 1]
    <3> SUFFICES ASSUME NEW k \in 1..count
                 PROVE  mem'[longer[k]].next = longer[k + 1]
      BY <1>3
    <3>1. CASE k = count
      BY <1>3, <1>4, <1>5, <1>6, <1>8, <3>1
    <3>2. CASE k # count
      <4>1. k \in 1..(count - 1) /\ k + 1 \in 1..count
        BY <1>3, <3>2
      <4> QED  BY <1>1, <1>4, <1>12, <4>1 DEF IsPath
    <3> QED  BY <3>1, <3>2
  <2>7. front' = longer[1]
    <3>1. CASE count = 0
      BY <1>2, <1>5, <3>1
    <3>2. CASE count > 0
      BY <1>1, <1>2, <1>3, <1>4, <3>2 DEF IsPath
    <3> QED  BY <1>3, <3>1, <3>2
  <2>8. rear' = longer[count'] /\ mem'[rear'].next = List!Null
    BY <1>2, <1>3, <1>5, <1>7 DEF node
  <2> QED  BY <2>1, <2>3, <2>4, <2>5, <2>6, <2>7, <2>8, <1>14 DEF IsPath, List!Null
<1> QED  BY <1>3, <1>9, <1>13, <1>15 DEF ListInv

LEMMA RemoveStep ==
  ASSUME Addr \subseteq Nat \ {0}, ListInv, open, List!RemoveNode,
         open' = open, destroying' \in BOOLEAN
  PROVE  ListInv'
<1>1. PICK path : IsPath(path)
  BY DEF ListInv
<1>2. /\ front' = mem[front].next /\ mem' = [mem EXCEPT ![front] = List!Free]
      /\ count' = count - 1 /\ queued' = Tail(queued) /\ rear' = rear
  BY DEF List!RemoveNode
<1>3. count \in Nat /\ count > 0 /\ queued # <<>>
  BY DEF List!RemoveNode, ListInv
<1> DEFINE shorter == [k \in 1..(count - 1) |-> path[k + 1]]
<1>4. \A k \in 1..(count - 1) : k \in 1..count /\ k + 1 \in 1..count /\ shorter[k] = path[k + 1]
  BY <1>3
<1>5. front = path[1] /\ front \in Addr /\ 1 \in 1..count /\ count \in 1..count
  BY <1>1, <1>3 DEF IsPath
<1>6. /\ mem'[front] = List!Free /\ \A b \in Addr : b # front => mem'[b] = mem[b]
      /\ mem' \in [Addr -> Node \cup {List!Free}]
  BY <1>2, <1>5 DEF ListInv
<1>7. \A k \in 1..count : path[k] \in Addr /\ (k # 1 => path[k] # front)
  BY <1>1, <1>5 DEF IsPath
<1>8. \A k \in 1..(count - 1) : mem'[path[k + 1]] = mem[path[k + 1]]
  <2>1. \A k \in 1..(count - 1) : k + 1 \in 1..count /\ k + 1 # 1
    BY <1>3
  <2> QED  BY <1>6, <1>7, <2>1
<1>9. \A b \in Addr : b \in List!Allocated' <=> b # front /\ b \in List!Allocated
  BY <1>6 DEF List!Allocated
<1>10. /\ queued' \in Seq(Values) /\ count' = Len(queued')
       /\ \A k \in 1..(count - 1) : queued'[k] = queued[k + 1]
  BY <1>2, <1>3 DEF ListInv
<1>11. PICK p : p = shorter
  OBVIOUS
<1>12. IsPath(p)'
  <2>1. p \in [1..count' -> Addr]
    BY <1>2, <1>4, <1>7, <1>11
  <2> HIDE DEF shorter
  <2>2. \A k \in 1..count' : k \in 1..(count - 1) /\ p[k] = path[k + 1]
    BY <1>2, <1>4, <1>11
  <2>3. \A k, l \in 1..count' : p[k] = p[l] => k = l
    <3> SUFFICES ASSUME NEW k \in 1..count', NEW l \in 1..count', p[k] = p[l]
                 PROVE  k = l
      OBVIOUS
    <3>1. k + 1 \in 1..count /\ l + 1 \in 1..count /\ path[k + 1] = path[l + 1]
      BY <1>4, <2>2
    <3>2. k + 1 = l + 1
      BY <1>1, <3>1 DEF IsPath
    <3> QED  BY <1>2, <1>3, <3>2
  <2>4. ASSUME NEW b \in Addr
        PROVE  b \in List!Allocated' <=> \E k \in 1..count' : p[k] = b
    <3>1. ASSUME b \in List!Allocated' PROVE \E k \in 1..count' : p[k] = b
      <4>1. PICK k \in 1..count : path[k] = b
        BY <1>1, <1>9, <3>1 DEF IsPath
      <4>2. k # 1
        BY <1>5, <1>9, <3>1, <4>1
      <4>3. k - 1 \in 1..count' /\ (k - 1) + 1 = k
        BY <1>2, <1>3, <4>2
      <4> QED  BY <2>2, <4>1, <4>3
    <3>2. ASSUME NEW k \in 1..count', p[k] = b PROVE b \in List!Allocated'
      <4>1. k + 1 \in 1..count /\ k + 1 # 1 /\ path[k + 1] = b
        BY <1>2, <1>3, <2>2, <3>2
      <4> QED  BY <1>1, <1>7, <1>9, <4>1 DEF IsPath
    <3> QED  BY <3>1, <3>2
  <2>5. \A k \in 1..count' : mem'[p[k]].value = queued'[k]
    BY <1>1, <1>4, <1>8, <1>10, <2>2 DEF IsPath
  <2>6. \A k \in 1..(count' - 1) : mem'[p[k]].next = p[k + 1]
    <3> SUFFICES ASSUME NEW k \in 1..(count' - 1)
                 PROVE  mem'[p[k]].next = p[k + 1]
      OBVIOUS
    <3>1. k \in 1..count' /\ k + 1 \in 1..count' /\ k + 1 \in 1..(count - 1)
      BY <1>2, <1>3
    <3>2. mem[path[k + 1]].next = path[(k + 1) + 1]
      BY <1>1, <3>1 DEF IsPath
    <3> QED  BY <1>8, <2>2, <3>1, <3>2
  <2>7. count' > 0 => front' = p[1] /\ rear' = p[count'] /\ mem'[rear'].next = List!Null
    <3> SUFFICES ASSUME count' > 0
                 PROVE  front' = p[1] /\ rear' = p[count'] /\ mem'[rear'].next = List!Null
      OBVIOUS
    <3>1. 1 \in 1..count' /\ count' \in 1..count' /\ 1 \in 1..(count - 1)
          /\ count' + 1 = count /\ count # 1
      BY <1>2, <1>3
    <3>2. mem[path[1]].next = path[2]
      BY <1>1, <3>1 DEF IsPath
    <3>3. rear = path[count] /\ mem[rear].next = List!Null
      BY <1>1, <1>3 DEF IsPath
    <3>4. front' = p[1]
      BY <1>2, <1>5, <2>2, <3>1, <3>2
    <3>5. rear' = p[count']
      BY <1>2, <2>2, <3>1, <3>3
    <3>6. mem'[rear] = mem[rear]
      BY <1>5, <1>6, <1>7, <3>1, <3>3
    <3> QED  BY <1>2, <3>3, <3>4, <3>5, <3>6
  <2> QED  BY <2>1, <2>3, <2>4, <2>5, <2>6, <2>7 DEF IsPath, List!Null
<1> QED  BY <1>6, <1>10, <1>12 DEF ListInv

LEMMA ListInvStep ==
  ASSUME Addr \subseteq Nat \ {0}, ListInv, [List!Next]_(List!vars)
  PROVE  ListInv'
<1>1. CASE UNCHANGED List!vars
  BY <1>1 DEF List!vars, ListInv, IsPath, List!Allocated
<1>2. CASE List!create_queue
  <2>1. count = 0 /\ count' = 0 /\ UNCHANGED <<mem, destroying, queued>> /\ open'
    BY <1>2 DEF List!create_queue, ListInv
  <2>2. PICK path : IsPath(path)
    BY DEF ListInv
  <2>3. List!Allocated' = List!Allocated
    BY <2>1 DEF List!Allocated
  <2>4. count' = count /\ 1..count' = {} /\ 1..(count' - 1) = {} /\ ~(count' > 0)
    BY <2>1
  <2>5. IsPath(path)'
    BY <2>1, <2>2, <2>3, <2>4, Zenon DEF IsPath
  <2> QED  BY <1>2, <2>1, <2>5 DEF ListInv, List!create_queue
<1>3. ASSUME NEW v \in Values, List!add_rear(v)
      PROVE  ListInv'
  BY <1>3, AddRearStep
<1>4. CASE List!remove_front
  BY <1>4, RemoveStep DEF List!remove_front, ListInv
<1>5. CASE List!destroy_queue /\ count # 0
  BY <1>5, RemoveStep DEF List!destroy_queue
<1>6. CASE List!destroy_queue /\ count = 0
  <2>1. UNCHANGED <<mem, count, front, rear, queued>> /\ open' = FALSE /\ destroying' = FALSE
    BY <1>6 DEF List!destroy_queue
  <2> QED  BY <1>6, <2>1 DEF ListInv, IsPath, List!Allocated
<1> QED  BY <1>1, <1>2, <1>3, <1>4, <1>5, <1>6 DEF List!Next

(* What has been queued is what front leads to, in order, rear is the last *)
(* of it, and the nodes of the list are those that are allocated.          *)
THEOREM ListHoldsQueue ==
  ASSUME Addr \subseteq Nat \ {0}
  PROVE  List!Spec => []ListIsQueue
<1>1. List!Init => ListInv
  <2> SUFFICES ASSUME List!Init PROVE ListInv
    OBVIOUS
  <2>1. PICK p : p = [k \in 1..count |-> 0]
    OBVIOUS
  <2>2. IsPath(p)
    BY <2>1 DEF List!Init, IsPath, List!Allocated
  <2>3. mem \in [Addr -> Node \cup {List!Free}]
    BY DEF List!Init
  <2>4. queued \in Seq(Values) /\ count = Len(queued) /\ count = 0
    BY DEF List!Init
  <2>5. open \in BOOLEAN /\ destroying \in BOOLEAN
    BY DEF List!Init
  <2> QED  BY <2>2, <2>3, <2>4, <2>5 DEF ListInv
<1>2. ListInv => ListIsQueue
  <2> SUFFICES ASSUME ListInv PROVE ListIsQueue
    OBVIOUS
  <2>1. PICK path : IsPath(path)
    BY DEF ListInv
  <2>2. path \in [1..count -> List!Allocated]
    BY <2>1 DEF IsPath
  <2>3. path \in Bijection(1..count, List!Allocated)
    BY <2>1, <2>2 DEF IsPath, Bijection, Injection, IsInjective, Surjection, List!Allocated
  <2>4. List!Cardinality(List!Allocated) = count
    <3>1. Cardinality(List!Allocated) = count
      BY <2>3, FS_CountingElements DEF ExistsBijection, ListInv
    <3> QED  BY <3>1 DEF Cardinality, List!Cardinality, IsFiniteSet, List!IsFiniteSet
  <2>5. ~open => List!Allocated = {}
    <3> SUFFICES ASSUME ~open PROVE List!Allocated = {}
      OBVIOUS
    <3>1. 1..count = {}
      BY DEF ListInv
    <3>2. \A a \in Addr : a \notin List!Allocated
      BY <2>1, <3>1, Zenon DEF IsPath
    <3> QED  BY <3>2 DEF List!Allocated
  <2>6. /\ \A k \in 1..count : mem[path[k]].value = queued[k]
        /\ \A k \in 1..(count - 1) : mem[path[k]].next = path[k + 1]
        /\ count > 0 => front = path[1] /\ rear = path[count] /\ mem[rear].next = List!Null
    BY <2>1 DEF IsPath
  <2>7. count = Len(queued)
    BY DEF ListInv
  <2> QED  BY <2>2, <2>4, <2>5, <2>6, <2>7, Zenon DEF ListIsQueue, List!ListIsQueue
<1>3. ListInv /\ [List!Next]_(List!vars) => ListInv'
  BY ListInvStep
<1> QED  BY <1>1, <1>2, <1>3, PTL DEF List!Spec

-----------------------------------------------------------------------------
(* PriorityQueue *)

HeapNode == [priority : Priorities, data : Nat]
Held == IF call = "push" THEN held \cup {item} ELSE held
Top == IF call = "push" THEN len + 1 ELSE len

(* The array once the hole is filled *)
Content ==
  [k \in 1..Top |-> IF k = hole /\ call = "push" THEN item
                    ELSE IF k = hole /\ call = "pop" THEN nodes[len + 1]
                    ELSE nodes[k]]

(* The array c of n nodes holds exactly those of S. *)
Lists(c, n, S) ==
  /\ \A k \in 1..n : c[k] \in S
  /\ \A x \in S : \E k \in 1..n : c[k] = x
  /\ \A j, k \in 1..n : c[j] = c[k] => j = k

HeapTypes ==
  /\ call \in {"none", "push", "pop"} /\ deep \in BOOLEAN
  /\ len \in Nat /\ size \in Nat /\ pushes \in Nat /\ hole \in Nat \ {0}
  /\ nodes \in [1..(size - 1) -> HeapNode \cup {Heap!Junk}]
  /\ call = "none" => len = 0 \/ len < size
  /\ call # "none" => len + 1 < size
  /\ call = "push" => item \in HeapNode /\ item.data = pushes /\ hole <= len + 1
  /\ call = "pop" => hole = 1 \/ hole <= len
  /\ \A x \in held : x \in HeapNode /\ x.data <= pushes
  /\ call = "push" => \A x \in held : x.data < pushes

(* While there have been at most four nodes: no child is less than its     *)
(* parent, but for the hole's.                                             *)
OrderOK ==
  ~deep =>
    /\ len <= 4
    /\ call = "none" => \A k \in 2..len : nodes[k \div 2].priority <= nodes[k].priority
    /\ call = "push" =>
         /\ \A k \in 2..(len + 1) :
              k # hole => Content[k \div 2].priority <= nodes[k].priority
         /\ hole > 1 => \A k \in 2..(len + 1) :
              k \div 2 = hole => nodes[hole \div 2].priority <= nodes[k].priority
    /\ call = "pop" =>
         /\ len <= 3
         /\ IF hole = 1 THEN nodes[1] = nodes[len + 1]
            ELSE \A k \in 2..(len + 1) : nodes[1].priority <= nodes[k].priority

HeapInv == HeapTypes /\ Lists(Content, Top, Held) /\ OrderOK

LEMMA NodePriority ==
  ASSUME Priorities \subseteq Nat, NEW x \in HeapNode \cup {Heap!Junk}
  PROVE  x.priority \in Nat
<1>1. CASE x \in HeapNode
  BY <1>1 DEF HeapNode
<1>2. CASE x = Heap!Junk
  BY <1>2 DEF Heap!Junk
<1> QED  BY <1>1, <1>2

(* Exchanging two nodes *)
LEMMA SwapLists ==
  ASSUME NEW n \in Nat, NEW c, NEW d, NEW S, Lists(c, n, S), NEW i \in 1..n, NEW j \in 1..n,
         d[i] = c[j], d[j] = c[i], \A k \in 1..n : k # i /\ k # j => d[k] = c[k]
  PROVE  Lists(d, n, S)
<1>1. \A k \in 1..n : d[k] \in S
  BY DEF Lists
<1>2. \A x \in S : \E k \in 1..n : d[k] = x
  <2> SUFFICES ASSUME NEW x \in S PROVE \E k \in 1..n : d[k] = x
    OBVIOUS
  <2>1. PICK k \in 1..n : c[k] = x
    BY DEF Lists
  <2> QED  BY <2>1
<1>3. \A k, l \in 1..n : d[k] = d[l] => k = l
  BY DEF Lists
<1> QED  BY <1>1, <1>2, <1>3 DEF Lists

(* Halves are places above. *)
LEMMA Half ==
  ASSUME NEW k \in Nat, k >= 2
  PROVE  k \div 2 \in 1..(k - 1)
  OBVIOUS

(* Places before the array grew are places of the array that has grown. *)
LEMMA Within ==
  ASSUME NEW k \in Nat, NEW n \in Nat, NEW m \in Nat, NEW z \in Nat,
         1 <= k, k <= n, n < m, m <= z
  PROVE  k < m /\ k \in 1..(z - 1)
  OBVIOUS

LEMMA PushStep ==
  ASSUME Priorities \subseteq Nat, HeapInv, NEW p \in Priorities, Heap!PQ_push(p)
  PROVE  HeapInv'
<1>1. /\ call = "none" /\ call' = "push" /\ size' = Heap!Grown /\ hole' = len + 1
      /\ nodes' = [k \in 1..(size' - 1) |-> IF k < size THEN nodes[k] ELSE Heap!Junk]
      /\ item' = [priority |-> p, data |-> pushes + 1] /\ pushes' = pushes + 1
      /\ len' = len /\ held' = held /\ deep' = deep
  BY DEF Heap!PQ_push
<1>2. len \in Nat /\ size \in Nat /\ pushes \in Nat /\ (len = 0 \/ len < size) /\ deep \in BOOLEAN
      /\ nodes \in [1..(size - 1) -> HeapNode \cup {Heap!Junk}]
      /\ \A x \in held : x \in HeapNode /\ x.data <= pushes
  BY <1>1 DEF HeapInv, HeapTypes
<1>3. size' \in Nat /\ len + 1 < size' /\ size <= size'
  BY <1>1, <1>2 DEF Heap!Grown
<1>4. item' \in HeapNode /\ item'.data = pushes + 1 /\ item' \notin held
  BY <1>1, <1>2 DEF HeapNode
<1>5. nodes' \in [1..(size' - 1) -> HeapNode \cup {Heap!Junk}]
  <2>1. \A k \in 1..(size' - 1) : (IF k < size THEN nodes[k] ELSE Heap!Junk) \in HeapNode \cup {Heap!Junk}
    BY <1>2, <1>3
  <2> QED  BY <1>1, <2>1
<1>6. \A k \in 1..len : nodes'[k] = nodes[k]
  <2>1. ASSUME NEW k \in 1..len PROVE k < size /\ k \in 1..(size' - 1)
    <3>1. k \in Nat /\ 1 <= k /\ k <= len
      BY <1>2
    <3>2. len < size
      BY <1>2, <3>1
    <3>3. PICK z \in Nat, m \in Nat, n \in Nat : z = size' /\ m = size /\ n = len /\ m <= z
      BY <1>2, <1>3
    <3>4. n < m /\ k <= n
      BY <3>1, <3>2, <3>3
    <3>5. k < m /\ k \in 1..(z - 1)
      <4>1. m <= z
        BY <3>3
      <4> QED  BY <3>1, <3>4, <4>1, Within, Zenon
    <3> QED  BY <3>3, <3>5, Zenon
  <2> QED  BY <1>1, <2>1
<1>7. HeapTypes'
  <2>1. \A x \in held : x.data < pushes + 1 /\ x.data <= pushes + 1
    BY <1>2 DEF HeapNode
  <2>2. pushes + 1 \in Nat /\ len + 1 \in Nat \ {0}
    BY <1>2
  <2> QED  BY <1>1, <1>2, <1>3, <1>4, <1>5, <2>1, <2>2 DEF HeapTypes
<1>8. /\ Content' = [k \in 1..(len + 1) |-> IF k = len + 1 THEN item' ELSE nodes'[k]]
      /\ Top' = len + 1 /\ Held' = held \cup {item'}
  BY <1>1 DEF Content, Top, Held
<1>9. /\ \A k \in 1..len : Content'[k] = nodes[k]
      /\ Content'[len + 1] = item'
  BY <1>2, <1>6, <1>8
<1>10. Lists(Content, Top, Held)'
  <2>1. \A k \in 1..len : Content[k] = nodes[k]
    BY <1>1 DEF Content, Top
  <2>2. /\ \A k \in 1..len : nodes[k] \in held
        /\ \A x \in held : \E k \in 1..len : nodes[k] = x
        /\ \A j, k \in 1..len : nodes[j] = nodes[k] => j = k
    <3>1. Top = len /\ Held = held
      BY <1>1 DEF Top, Held
    <3> QED  BY <2>1, <3>1 DEF HeapInv, Lists
  <2>3. \A k \in 1..(len + 1) : k \in 1..len \/ k = len + 1
    BY <1>2
  <2>4. \A k \in 1..len : k \in 1..(len + 1)
    BY <1>2
  <2>5. len + 1 \in 1..(len + 1)
    BY <1>2
  <2>6. \A k \in 1..(len + 1) : Content'[k] \in held \cup {item'}
    BY <1>9, <2>2, <2>3
  <2>7. \A x \in held \cup {item'} : \E k \in 1..(len + 1) : Content'[k] = x
    BY <1>9, <2>2, <2>4, <2>5
  <2>8. \A j, k \in 1..(len + 1) : Content'[j] = Content'[k] => j = k
    BY <1>4, <1>9, <2>2, <2>3
  <2>9. Lists(Content', len + 1, held \cup {item'})
    BY <2>6, <2>7, <2>8 DEF Lists
  <2> QED  BY <1>8, <2>9 DEF Lists
<1>11. OrderOK'
  <2> SUFFICES ASSUME ~deep PROVE OrderOK'
    BY <1>1 DEF OrderOK
  <2>1. len <= 4 /\ \A k \in 2..len : nodes[k \div 2].priority <= nodes[k].priority
    BY <1>1 DEF HeapInv, OrderOK
  <2>2. ASSUME NEW k \in 2..(len + 1), k # len + 1
        PROVE  Content'[k \div 2].priority <= nodes'[k].priority
    <3>1. k \in 2..len /\ k \in 1..len /\ k \div 2 \in 1..len
      BY <1>2, <2>2
    <3> QED  BY <1>6, <1>9, <2>1, <3>1
  <2>3. \A k \in 2..(len + 1) : k \div 2 # len + 1
    BY <1>2
  <2> QED  BY <1>1, <2>1, <2>2, <2>3 DEF OrderOK
<1> QED  BY <1>7, <1>10, <1>11 DEF HeapInv

LEMMA MoveUpStep ==
  ASSUME Priorities \subseteq Nat, HeapInv, Heap!MoveUp
  PROVE  HeapInv'
<1>1. /\ call = "push" /\ call' = "push" /\ hole > 1
      /\ nodes[hole \div 2].priority > item.priority
      /\ nodes' = [nodes EXCEPT ![hole] = nodes[hole \div 2]] /\ hole' = hole \div 2
      /\ len' = len /\ size' = size /\ item' = item /\ held' = held /\ pushes' = pushes
      /\ deep' = deep
  BY DEF Heap!MoveUp, Heap!Above
<1>2. /\ len \in Nat /\ size \in Nat /\ hole \in Nat /\ hole <= len + 1 /\ len + 1 < size
      /\ nodes \in [1..(size - 1) -> HeapNode \cup {Heap!Junk}]
      /\ item \in HeapNode
  BY <1>1 DEF HeapInv, HeapTypes
<1>3. PICK j \in Nat : /\ j = hole \div 2 /\ j \in 1..(hole - 1) /\ j \in 1..len /\ j # hole
                       /\ j \in 1..(len + 1) /\ hole \in 1..(len + 1)
                       /\ j \in 1..(size - 1) /\ hole \in 1..(size - 1)
  <2>1. hole \div 2 \in Nat /\ hole \div 2 \in 1..(hole - 1)
    BY <1>1, <1>2
  <2> QED  BY <1>2, <2>1
<1>4. nodes'[hole] = nodes[j] /\ \A k \in 1..(size - 1) : k # hole => nodes'[k] = nodes[k]
  BY <1>1, <1>2, <1>3
<1>5. HeapTypes'
  <2>1. nodes' \in [1..(size - 1) -> HeapNode \cup {Heap!Junk}]
    BY <1>1, <1>2, <1>3
  <2>2. hole' \in Nat \ {0} /\ hole' <= len + 1
    BY <1>1, <1>2, <1>3
  <2> QED  BY <1>1, <2>1, <2>2 DEF HeapInv, HeapTypes
<1>6. /\ Top = len + 1 /\ Top' = len + 1 /\ Held' = Held
      /\ Content = [k \in 1..(len + 1) |-> IF k = hole THEN item ELSE nodes[k]]
      /\ Content' = [k \in 1..(len + 1) |-> IF k = j THEN item ELSE nodes'[k]]
  BY <1>1, <1>3 DEF Top, Held, Content
<1>7. /\ Content'[hole] = Content[j] /\ Content'[j] = Content[hole] /\ Content[hole] = item
      /\ Content[j] = nodes[j]
      /\ \A k \in 1..(len + 1) : k # hole /\ k # j => Content'[k] = Content[k] /\ Content[k] = nodes[k]
  BY <1>2, <1>3, <1>4, <1>6
<1>8. Lists(Content, Top, Held)'
  <2>1. Lists(Content, len + 1, Held)
    BY <1>6 DEF HeapInv
  <2>2. len + 1 \in Nat
    BY <1>2
  <2>3. Lists(Content', len + 1, Held)
    BY <1>3, <1>7, <2>1, <2>2, SwapLists
  <2> QED  BY <1>6, <2>3 DEF Lists
<1>9. OrderOK'
  <2> SUFFICES ASSUME ~deep PROVE OrderOK'
    BY <1>1 DEF OrderOK
  <2>1. /\ len <= 4
        /\ \A k \in 2..(len + 1) : k # hole => Content[k \div 2].priority <= nodes[k].priority
        /\ \A k \in 2..(len + 1) : k \div 2 = hole => nodes[j].priority <= nodes[k].priority
    BY <1>1, <1>3 DEF HeapInv, OrderOK
  <2>2. ASSUME NEW k \in 1..(len + 1) PROVE Content[k].priority \in Nat
    <3>1. \A x \in Held : x \in HeapNode
      BY <1>1, <1>2 DEF Held, HeapInv, HeapTypes
    <3>2. Content[k] \in Held
      BY <1>6 DEF HeapInv, Lists
    <3> QED  BY <3>1, <3>2 DEF HeapNode
  <2>3. item.priority \in Nat /\ nodes[j].priority \in Nat /\ item.priority < nodes[j].priority
    <3>1. item.priority \in Nat /\ nodes[j].priority \in Nat
      BY <1>3, <1>7, <2>2
    <3> QED  BY <1>1, <1>3, <3>1
  <2>4. ASSUME NEW k \in 2..(len + 1), k # j
        PROVE  Content'[k \div 2].priority <= nodes'[k].priority
    <3>1. k \in 1..(len + 1) /\ k \div 2 \in 1..(len + 1) /\ k \in 1..(size - 1) /\ k \div 2 # k
      BY <1>2, <2>4
    <3>2. CASE k = hole
      BY <1>3, <1>4, <1>7, <2>3, <3>2
    <3>3. CASE k # hole /\ k \div 2 = hole
      BY <1>4, <1>7, <2>1, <3>1, <3>3
    <3>4. CASE k # hole /\ k \div 2 = j
      <4>1. nodes[j].priority <= nodes[k].priority
        BY <1>7, <2>1, <3>4
      <4>2. nodes[k].priority \in Nat
        BY <1>7, <2>2, <2>4, <3>1, <3>4
      <4> QED  BY <1>4, <1>7, <2>3, <3>1, <3>4, <4>1, <4>2
    <3>5. CASE k # hole /\ k \div 2 # hole /\ k \div 2 # j
      BY <1>4, <1>7, <2>1, <3>1, <3>5
    <3> QED  BY <3>2, <3>3, <3>4, <3>5
  <2>5. ASSUME j > 1, NEW k \in 2..(len + 1), k \div 2 = j
        PROVE  nodes'[j \div 2].priority <= nodes'[k].priority
    <3>1. /\ j \div 2 \in 1..(len + 1) /\ j \div 2 # hole /\ j \div 2 # j /\ j \in 2..(len + 1)
          /\ j \div 2 \in 1..(size - 1) /\ k \in 1..(size - 1) /\ k \in 1..(len + 1) /\ k # j
      BY <1>2, <1>3, <2>5
    <3>2. nodes[j \div 2].priority <= nodes[j].priority /\ nodes'[j \div 2] = nodes[j \div 2]
          /\ nodes[j \div 2].priority \in Nat
      BY <1>3, <1>4, <1>7, <2>1, <2>2, <3>1
    <3>3. CASE k = hole
      BY <1>4, <3>2, <3>3
    <3>4. CASE k # hole
      <4>1. nodes[j].priority <= nodes[k].priority /\ nodes'[k] = nodes[k]
        BY <1>4, <1>7, <2>1, <2>5, <3>1, <3>4
      <4>2. nodes[k].priority \in Nat
        BY <1>7, <2>2, <3>1, <3>4
      <4> QED  BY <2>3, <3>2, <4>1, <4>2
    <3> QED  BY <3>3, <3>4
  <2>6. hole' = j
    BY <1>1, <1>3
  <2> QED  BY <1>1, <2>1, <2>4, <2>5, <2>6 DEF OrderOK
<1> QED  BY <1>5, <1>8, <1>9 DEF HeapInv

LEMMA PushEndsStep ==
  ASSUME Priorities \subseteq Nat, HeapInv, Heap!PushEnds
  PROVE  HeapInv'
<1>1. /\ call = "push" /\ call' = "none"
      /\ ~ (hole > 1 /\ nodes[hole \div 2].priority > item.priority)
      /\ nodes' = [nodes EXCEPT ![hole] = item] /\ hole' = hole
      /\ len' = len + 1 /\ size' = size /\ item' = item /\ held' = held \cup {item} /\ pushes' = pushes
      /\ deep' = (deep \/ len' > 4)
  BY DEF Heap!PushEnds, Heap!Above
<1>2. /\ len \in Nat /\ size \in Nat /\ hole \in Nat \ {0} /\ hole <= len + 1 /\ len + 1 < size
      /\ nodes \in [1..(size - 1) -> HeapNode \cup {Heap!Junk}]
      /\ item \in HeapNode /\ item.data = pushes /\ pushes \in Nat
      /\ \A x \in held : x \in HeapNode /\ x.data <= pushes
  BY <1>1 DEF HeapInv, HeapTypes
<1>3. hole \in 1..(len + 1) /\ hole \in 1..(size - 1)
  BY <1>2
<1>4. nodes'[hole] = item /\ \A k \in 1..(size - 1) : k # hole => nodes'[k] = nodes[k]
  BY <1>1, <1>2, <1>3
<1>5. HeapTypes'
  <2>1. nodes' \in [1..(size - 1) -> HeapNode \cup {Heap!Junk}]
    BY <1>1, <1>2, <1>3
  <2>2. len + 1 \in Nat /\ (deep \/ len + 1 > 4) \in BOOLEAN
    BY <1>2
  <2> QED  BY <1>1, <1>2, <2>1, <2>2 DEF HeapTypes
<1>6. /\ Top = len + 1 /\ Top' = len + 1 /\ Held' = Held
      /\ Content = [k \in 1..(len + 1) |-> IF k = hole THEN item ELSE nodes[k]]
      /\ Content' = [k \in 1..(len + 1) |-> nodes'[k]]
  BY <1>1 DEF Top, Held, Content
<1>7. \A k \in 1..(len + 1) : Content'[k] = Content[k] /\ Content[k] = nodes'[k]
  <2>1. \A k \in 1..(len + 1) : k \in 1..(size - 1)
    BY <1>2
  <2> QED  BY <1>4, <1>6, <2>1
<1>8. Lists(Content, Top, Held)'
  <2>1. Lists(Content, len + 1, Held)
    BY <1>6 DEF HeapInv
  <2>2. Lists(Content', len + 1, Held)
    BY <1>7, <2>1 DEF Lists
  <2> QED  BY <1>6, <2>2 DEF Lists
<1>9. OrderOK'
  <2> SUFFICES ASSUME ~ deep' PROVE OrderOK'
    BY DEF OrderOK
  <2>1. ~ deep /\ len + 1 <= 4
    <3>1. ~ deep /\ ~ (len' > 4)
      BY <1>1, Zenon
    <3> QED  BY <1>1, <1>2, <3>1
  <2>2. \A k \in 2..(len + 1) : k # hole => Content[k \div 2].priority <= nodes[k].priority
    BY <1>1, <2>1 DEF HeapInv, OrderOK
  <2>3. ASSUME NEW k \in 2..(len + 1)
        PROVE  nodes'[k \div 2].priority <= nodes'[k].priority
    <3>1. k \in 1..(len + 1) /\ k \div 2 \in 1..(len + 1) /\ k \in 1..(size - 1)
          /\ k \div 2 \in 1..(size - 1) /\ k \div 2 # k
      BY <1>2, <2>3
    <3>2. CASE k # hole
      BY <1>4, <1>7, <2>2, <3>1, <3>2
    <3>3. CASE k = hole
      <4>1. ~ (nodes[k \div 2].priority > item.priority) /\ nodes'[k] = item
            /\ nodes'[k \div 2] = nodes[k \div 2]
        BY <1>1, <1>4, <3>1, <3>3
      <4>2. \A x \in Held : x.priority \in Nat
        BY <1>1, <1>2 DEF Held, HeapNode
      <4>3. nodes[k \div 2].priority \in Nat /\ item.priority \in Nat
        BY <1>2, <1>7, <3>1, <4>1, <4>2, <1>8, <1>6 DEF Lists, HeapNode
      <4> QED  BY <4>1, <4>3
    <3> QED  BY <3>2, <3>3
  <2> QED  BY <1>1, <2>1, <2>3 DEF OrderOK
<1> QED  BY <1>5, <1>8, <1>9 DEF HeapInv

LEMMA PopStep ==
  ASSUME Priorities \subseteq Nat, HeapInv, Heap!PQ_pop
  PROVE  HeapInv'
<1>1. /\ call = "none" /\ call' = "pop" /\ len > 0
      /\ nodes' = [nodes EXCEPT ![1] = nodes[len]] /\ len' = len - 1 /\ hole' = 1
      /\ held' = held \ {nodes[1]} /\ size' = size /\ item' = item /\ pushes' = pushes
      /\ deep' = (deep /\ len' > 0)
  BY DEF Heap!PQ_pop
<1>2. /\ size \in Nat /\ pushes \in Nat /\ deep \in BOOLEAN
      /\ nodes \in [1..(size - 1) -> HeapNode \cup {Heap!Junk}]
      /\ \A x \in held : x \in HeapNode /\ x.data <= pushes
  BY DEF HeapInv, HeapTypes
<1>3. PICK n \in Nat : len = n + 1 /\ len' = n /\ n + 1 < size
  <2>1. len \in Nat /\ len < size
    BY <1>1 DEF HeapInv, HeapTypes
  <2>2. len - 1 \in Nat /\ len = (len - 1) + 1
    BY <1>1, <2>1
  <2> QED  BY <1>1, <2>1, <2>2
<1>4. /\ 1 \in 1..(size - 1) /\ n + 1 \in 1..(size - 1)
      /\ nodes'[1] = nodes[n + 1] /\ \A k \in 1..(size - 1) : k # 1 => nodes'[k] = nodes[k]
      /\ nodes' \in [1..(size - 1) -> HeapNode \cup {Heap!Junk}]
  <2>1. 1 \in 1..(size - 1) /\ n + 1 \in 1..(size - 1)
    BY <1>2, <1>3
  <2> QED  BY <1>1, <1>2, <1>3, <2>1
<1>5. nodes'[n + 1] = nodes[n + 1]
  BY <1>4
<1>6. HeapTypes'
  BY <1>1, <1>2, <1>3, <1>4 DEF HeapTypes
<1>7. /\ \A k \in 1..(n + 1) : nodes[k] \in held
      /\ \A x \in held : \E k \in 1..(n + 1) : nodes[k] = x
      /\ \A j, k \in 1..(n + 1) : nodes[j] = nodes[k] => j = k
  <2>1. Top = n + 1 /\ Held = held /\ \A k \in 1..(n + 1) : Content[k] = nodes[k]
    BY <1>1, <1>3 DEF Top, Held, Content
  <2> QED  BY <2>1 DEF HeapInv, Lists
<1>8. /\ Top' = n /\ Held' = held \ {nodes[1]}
      /\ Content' = [k \in 1..n |-> IF k = 1 THEN nodes'[n + 1] ELSE nodes'[k]]
  BY <1>1, <1>3 DEF Top, Held, Content
<1>9. \A k \in 1..n : Content'[k] = IF k = 1 THEN nodes[n + 1] ELSE nodes[k]
  <2>1. \A k \in 1..n : k \in 1..(size - 1)
    BY <1>2, <1>3
  <2> QED  BY <1>4, <1>5, <1>8, <2>1
<1>10. Lists(Content, Top, Held)'
  <2>1. /\ \A k \in 1..n : k \in 1..(n + 1) /\ k # n + 1
        /\ \A k \in 1..(n + 1) : k = n + 1 \/ k \in 1..n
        /\ n + 1 \in 1..(n + 1) /\ 1 \in 1..(n + 1)
        /\ n + 1 # 1 => 1 \in 1..n
    OBVIOUS
  <2>2. \A k \in 1..n : Content'[k] \in held \ {nodes[1]}
    BY <1>7, <1>9, <2>1
  <2>3. \A x \in held \ {nodes[1]} : \E k \in 1..n : Content'[k] = x
    <3> SUFFICES ASSUME NEW x \in held \ {nodes[1]} PROVE \E k \in 1..n : Content'[k] = x
      OBVIOUS
    <3>1. PICK k \in 1..(n + 1) : nodes[k] = x /\ k # 1
      BY <1>7
    <3>2. CASE k = n + 1
      BY <1>9, <2>1, <3>1, <3>2
    <3>3. CASE k # n + 1
      BY <1>9, <2>1, <3>1, <3>3
    <3> QED  BY <3>2, <3>3
  <2>4. \A j, k \in 1..n : Content'[j] = Content'[k] => j = k
    BY <1>7, <1>9, <2>1
  <2>5. Lists(Content', n, held \ {nodes[1]})
    BY <2>2, <2>3, <2>4 DEF Lists
  <2> QED  BY <1>8, <2>5 DEF Lists
<1>11. OrderOK'
  <2>1. ~ deep' => n <= 3
    <3>1. ~ deep => n + 1 <= 4
      BY <1>3 DEF HeapInv, OrderOK
    <3>2. ~ deep' => ~ deep \/ n = 0
      <4>1. ~ deep' => ~ deep \/ ~ (len' > 0)
        BY <1>1, Zenon
      <4>2. ~ (len' > 0) => n = 0
        BY <1>3
      <4> QED  BY <4>1, <4>2, Zenon
    <3> QED  BY <3>1, <3>2
  <2>2. n <= 3 => n <= 4
    OBVIOUS
  <2> QED  BY <1>1, <1>3, <1>4, <1>5, <2>1, <2>2 DEF OrderOK
<1> QED  BY <1>6, <1>10, <1>11 DEF HeapInv

(* The child that the hole of PQ_pop moves to *)
LEMMA ChildIs ==
  ASSUME Priorities \subseteq Nat, HeapInv, call = "pop"
  PROVE  /\ Heap!Child # hole =>
              /\ Heap!Child \in {2 * hole, 2 * hole + 1} /\ Heap!Child <= len
              /\ hole \in 1..len /\ Heap!Child \in 1..len
              /\ nodes[Heap!Child].priority < nodes[hole].priority
              /\ \A k \in {2 * hole, 2 * hole + 1} :
                   k <= len => nodes[Heap!Child].priority <= nodes[k].priority
         /\ Heap!Child = hole =>
              \A k \in {2 * hole, 2 * hole + 1} :
                k <= len => nodes[hole].priority <= nodes[k].priority
<1>1. /\ len \in Nat /\ size \in Nat /\ hole \in Nat \ {0} /\ len + 1 < size
      /\ (hole = 1 \/ hole <= len)
  BY DEF HeapInv, HeapTypes
<1>2. \A k \in 1..(size - 1) : nodes[k].priority \in Nat
  BY NodePriority DEF HeapInv, HeapTypes
<1>3. /\ hole \in 1..(size - 1)
      /\ \A k \in {2 * hole, 2 * hole + 1} :
           k <= len => k \in 1..(size - 1) /\ hole \in 1..len /\ k \in 1..len /\ k # hole
  BY <1>1
<1>4. PICK a \in Nat, b \in Nat, h \in Nat :
        /\ a = (IF 2 * hole <= len THEN nodes[2 * hole].priority ELSE 0)
        /\ b = (IF 2 * hole + 1 <= len THEN nodes[2 * hole + 1].priority ELSE 0)
        /\ h = nodes[hole].priority
  BY <1>1, <1>2, <1>3
<1>5. PICK i \in Nat, j \in Nat : i = 2 * hole /\ j = 2 * hole + 1 /\ i # j
  BY <1>1
<1>6. Heap!Child = (IF Heap!Less(i, hole)
                    THEN IF Heap!Less(j, i) THEN j ELSE i
                    ELSE IF Heap!Less(j, hole) THEN j ELSE hole)
  BY <1>5 DEF Heap!Child
<1>7. /\ Heap!Less(i, hole) <=> i <= len /\ a < h
      /\ Heap!Less(j, hole) <=> j <= len /\ b < h
      /\ i <= len => (Heap!Less(j, i) <=> j <= len /\ b < a)
      /\ i <= len => nodes[i].priority = a
      /\ j <= len => nodes[j].priority = b
  BY <1>4, <1>5 DEF Heap!Less
<1>8. i # hole /\ j # hole /\ (j <= len => i <= len)
  BY <1>1, <1>5
<1>9. CASE i <= len /\ a < h /\ j <= len /\ b < a
  BY <1>3, <1>4, <1>5, <1>6, <1>7, <1>8, <1>9
<1>10. CASE i <= len /\ a < h /\ ~ (j <= len /\ b < a)
  BY <1>3, <1>4, <1>5, <1>6, <1>7, <1>8, <1>10
<1>11. CASE ~ (i <= len /\ a < h) /\ j <= len /\ b < h
  BY <1>3, <1>4, <1>5, <1>6, <1>7, <1>8, <1>11
<1>12. CASE ~ (i <= len /\ a < h) /\ ~ (j <= len /\ b < h)
  BY <1>3, <1>4, <1>5, <1>6, <1>7, <1>8, <1>12
<1> QED  BY <1>9, <1>10, <1>11, <1>12

LEMMA MoveDownStep ==
  ASSUME Priorities \subseteq Nat, HeapInv, Heap!MoveDown
  PROVE  HeapInv'
<1>1. PICK c \in 1..len :
        /\ c # hole /\ c = Heap!Child /\ c \in {2 * hole, 2 * hole + 1} /\ hole \in 1..len
        /\ nodes[c].priority < nodes[hole].priority
        /\ \A k \in {2 * hole, 2 * hole + 1} : k <= len => nodes[c].priority <= nodes[k].priority
  BY ChildIs DEF Heap!MoveDown
<1>2. /\ call = "pop" /\ call' = "pop" /\ nodes' = [nodes EXCEPT ![hole] = nodes[c]] /\ hole' = c
      /\ len' = len /\ size' = size /\ item' = item /\ held' = held /\ pushes' = pushes /\ deep' = deep
  BY <1>1 DEF Heap!MoveDown
<1>3. /\ len \in Nat /\ size \in Nat /\ len + 1 < size
      /\ nodes \in [1..(size - 1) -> HeapNode \cup {Heap!Junk}]
  BY <1>2 DEF HeapInv, HeapTypes
<1>4. /\ c \in 1..(size - 1) /\ hole \in 1..(size - 1) /\ len + 1 \in 1..(size - 1) /\ hole # len + 1
      /\ c \in Nat \ {0} /\ c <= len /\ c > hole
  BY <1>1, <1>3
<1>5. /\ nodes'[hole] = nodes[c] /\ \A k \in 1..(size - 1) : k # hole => nodes'[k] = nodes[k]
      /\ nodes' \in [1..(size - 1) -> HeapNode \cup {Heap!Junk}]
  BY <1>2, <1>3, <1>4
<1>6. HeapTypes'
  BY <1>2, <1>4, <1>5 DEF HeapInv, HeapTypes
<1>7. /\ Top = len /\ Top' = len /\ Held' = Held
      /\ Content = [k \in 1..len |-> IF k = hole THEN nodes[len + 1] ELSE nodes[k]]
      /\ Content' = [k \in 1..len |-> IF k = c THEN nodes'[len + 1] ELSE nodes'[k]]
  BY <1>2 DEF Top, Held, Content
<1>8. Lists(Content, Top, Held)'
  <2>1. Lists(Content, len, Held)
    BY <1>7 DEF HeapInv
  <2>2. \A k \in 1..len : k \in 1..(size - 1)
    BY <1>3
  <2>3. /\ Content'[hole] = Content[c] /\ Content'[c] = Content[hole]
        /\ \A k \in 1..len : k # hole /\ k # c => Content'[k] = Content[k]
    BY <1>1, <1>4, <1>5, <1>7, <2>2
  <2>4. Lists(Content', len, Held)
    BY <1>1, <1>3, <2>1, <2>3, SwapLists
  <2> QED  BY <1>7, <2>4 DEF Lists
<1>9. OrderOK'
  <2> SUFFICES ASSUME ~deep PROVE OrderOK'
    BY <1>2 DEF OrderOK
  <2>1. len <= 3 /\ hole = 1 /\ nodes[1] = nodes[len + 1]
    <3>1. len <= 3 /\ (hole = 1 => nodes[1] = nodes[len + 1])
      BY <1>2 DEF HeapInv, OrderOK
    <3>2. hole = 1
      BY <1>1, <1>3, <1>4, <3>1
    <3> QED  BY <3>1, <3>2
  <2>2. nodes'[1] = nodes[c]
    BY <1>5, <2>1
  <2>3. nodes[c].priority \in Nat /\ nodes[1].priority \in Nat
    BY <1>3, <1>4, <2>1, NodePriority
  <2>4. ASSUME NEW k \in 2..(len + 1) PROVE nodes'[1].priority <= nodes'[k].priority
    <3>1. k \in 1..(size - 1) /\ k # 1 /\ (k = len + 1 \/ (k \in {2, 3} /\ k <= len))
      BY <1>3, <2>1
    <3>2. nodes'[k] = nodes[k]
      BY <1>5, <2>1, <3>1
    <3>3. CASE k = len + 1
      BY <1>1, <2>1, <2>2, <2>3, <3>2, <3>3
    <3>4. CASE k \in {2, 3} /\ k <= len
      BY <1>1, <2>1, <2>2, <3>2, <3>4
    <3> QED  BY <3>1, <3>3, <3>4
  <2>5. hole' # 1 /\ len <= 4
    BY <1>1, <1>2, <1>3, <2>1
  <2> QED  BY <1>2, <2>1, <2>4, <2>5 DEF OrderOK
<1> QED  BY <1>6, <1>8, <1>9 DEF HeapInv

LEMMA PopEndsStep ==
  ASSUME Priorities \subseteq Nat, HeapInv, Heap!PopEnds
  PROVE  HeapInv'
<1>1. /\ call = "pop" /\ call' = "none" /\ nodes' = [nodes EXCEPT ![hole] = nodes[len + 1]]
      /\ hole' = hole /\ len' = len /\ size' = size /\ item' = item /\ held' = held
      /\ pushes' = pushes /\ deep' = deep /\ Heap!Child = hole
  BY DEF Heap!PopEnds, Heap!Filled
<1>2. /\ len \in Nat /\ size \in Nat /\ len + 1 < size /\ hole \in Nat \ {0}
      /\ (hole = 1 \/ hole <= len)
      /\ nodes \in [1..(size - 1) -> HeapNode \cup {Heap!Junk}]
  BY <1>1 DEF HeapInv, HeapTypes
<1>3. hole \in 1..(size - 1) /\ len + 1 \in 1..(size - 1)
  BY <1>2
<1>4. /\ nodes'[hole] = nodes[len + 1] /\ \A k \in 1..(size - 1) : k # hole => nodes'[k] = nodes[k]
      /\ nodes' \in [1..(size - 1) -> HeapNode \cup {Heap!Junk}]
  BY <1>1, <1>2, <1>3
<1>5. HeapTypes'
  <2>1. len < size
    BY <1>2
  <2> QED  BY <1>1, <1>4, <2>1 DEF HeapInv, HeapTypes
<1>6. /\ Top = len /\ Top' = len /\ Held' = Held
      /\ Content = [k \in 1..len |-> IF k = hole THEN nodes[len + 1] ELSE nodes[k]]
      /\ Content' = [k \in 1..len |-> nodes'[k]]
  BY <1>1 DEF Top, Held, Content
<1>7. Lists(Content, Top, Held)'
  <2>1. Lists(Content, len, Held)
    BY <1>6 DEF HeapInv
  <2>2. \A k \in 1..len : k \in 1..(size - 1)
    BY <1>2
  <2>3. \A k \in 1..len : Content'[k] = Content[k]
    BY <1>4, <1>6, <2>2
  <2>4. Lists(Content', len, Held)
    BY <2>1, <2>3 DEF Lists
  <2> QED  BY <1>6, <2>4 DEF Lists
<1>8. OrderOK'
  <2> SUFFICES ASSUME ~deep PROVE OrderOK'
    BY <1>1 DEF OrderOK
  <2>1. /\ len <= 3 /\ len <= 4
        /\ hole = 1 => nodes[1] = nodes[len + 1]
        /\ hole # 1 => \A k \in 2..(len + 1) : nodes[1].priority <= nodes[k].priority
    BY <1>1, <1>2 DEF HeapInv, OrderOK
  <2>2. ASSUME NEW k \in 2..len PROVE nodes'[k \div 2].priority <= nodes'[k].priority
    <3>1. k \in {2, 3} /\ k <= len /\ k \div 2 = 1 /\ k \in 1..(size - 1) /\ 1 \in 1..(size - 1)
          /\ k \in 2..(len + 1) /\ len + 1 \in 2..(len + 1)
      BY <1>2, <2>1
    <3>2. CASE hole = 1
      <4>1. nodes[1].priority <= nodes[k].priority
        BY <1>1, <3>1, <3>2, ChildIs
      <4>2. nodes'[1] = nodes[1] /\ nodes'[k] = nodes[k]
        BY <1>4, <2>1, <3>1, <3>2
      <4> QED  BY <3>1, <4>1, <4>2
    <3>3. CASE hole # 1
      <4>1. nodes'[1] = nodes[1]
        BY <1>4, <3>1, <3>3
      <4>2. nodes[1].priority <= nodes[k].priority /\ nodes[1].priority <= nodes[len + 1].priority
        BY <2>1, <3>1, <3>3
      <4>3. nodes'[k] = nodes[k] \/ nodes'[k] = nodes[len + 1]
        BY <1>4, <3>1
      <4> QED  BY <3>1, <4>1, <4>2, <4>3
    <3> QED  BY <3>2, <3>3
  <2> QED  BY <1>1, <2>1, <2>2 DEF OrderOK
<1> QED  BY <1>5, <1>7, <1>8 DEF HeapInv

(* Between calls the heap holds what was pushed and not popped, inside its *)
(* array, and its front is a least node as long as there have not been     *)
(* more than four, for any priorities and any number of calls.             *)
THEOREM HeapFrontLeast ==
  ASSUME Priorities \subseteq Nat
  PROVE  Heap!Spec => []FrontIsLeast
<1>1. Heap!Init => HeapInv
  <2> SUFFICES ASSUME Heap!Init PROVE HeapInv
    OBVIOUS
  <2>1. /\ nodes = <<>> /\ len = 0 /\ size = 0 /\ call = "none" /\ hole = 1 /\ held = {}
        /\ pushes = 0 /\ deep = FALSE
    BY DEF Heap!Init
  <2>2. HeapTypes
    <3>1. 1..(size - 1) = {}
      BY <2>1
    <3>2. nodes \in [1..(size - 1) -> HeapNode \cup {Heap!Junk}]
      BY <2>1, <3>1
    <3>3. 1 \in Nat \ {0} /\ 0 \in Nat
      OBVIOUS
    <3>4. deep \in BOOLEAN /\ \A x \in held : FALSE
      BY <2>1, Zenon
    <3>5. call # "push" /\ call # "pop" /\ call \in {"none", "push", "pop"}
      BY <2>1
    <3> QED  BY <2>1, <3>2, <3>3, <3>4, <3>5, Zenon DEF HeapTypes
  <2>3. Lists(Content, Top, Held)
    BY <2>1 DEF Lists, Top, Held
  <2>4. OrderOK
    BY <2>1 DEF OrderOK
  <2> QED  BY <2>2, <2>3, <2>4 DEF HeapInv
<1>2. HeapInv /\ [Heap!Next]_(Heap!vars) => HeapInv'
  <2> SUFFICES ASSUME HeapInv, [Heap!Next]_(Heap!vars) PROVE HeapInv'
    OBVIOUS
  <2>1. CASE Heap!Next
    BY <2>1, PushStep, MoveUpStep, PushEndsStep, PopStep, MoveDownStep, PopEndsStep DEF Heap!Next
  <2>2. CASE UNCHANGED Heap!vars
    <3>1. /\ nodes' = nodes /\ len' = len /\ size' = size /\ call' = call /\ item' = item
          /\ hole' = hole /\ held' = held /\ pushes' = pushes /\ deep' = deep
      BY <2>2 DEF Heap!vars
    <3>2. Top' = Top /\ Held' = Held /\ Content' = Content
      BY <3>1 DEF Top, Held, Content
    <3>3. HeapTypes'
      BY <3>1 DEF HeapInv, HeapTypes
    <3>4. Lists(Content, Top, Held)'
      BY <3>2 DEF HeapInv, Lists
    <3>5. OrderOK'
      BY <3>1, <3>2, Zenon DEF HeapInv, OrderOK
    <3> QED  BY <3>3, <3>4, <3>5 DEF HeapInv
  <2> QED  BY <2>1, <2>2
<1>3. HeapInv => FrontIsLeast
  <2> SUFFICES ASSUME HeapInv, call = "none" PROVE FrontIsLeast
    BY DEF FrontIsLeast, Heap!FrontIsLeast
  <2>1. len \in Nat /\ size \in Nat /\ (len = 0 \/ len < size)
    BY DEF HeapInv, HeapTypes
  <2>2. /\ \A k \in 1..len : nodes[k] \in held
        /\ \A x \in held : \E k \in 1..len : nodes[k] = x
        /\ \A j, k \in 1..len : nodes[j] = nodes[k] => j = k
    <3>1. Top = len /\ Held = held /\ \A k \in 1..len : Content[k] = nodes[k]
      BY DEF Top, Held, Content
    <3> QED  BY <3>1 DEF HeapInv, Lists
  <2>3. held = {nodes[k] : k \in 1..len}
    BY <2>2
  <2>4. len = Cardinality(held)
    <3> DEFINE f == [k \in 1..len |-> nodes[k]]
    <3>1. f \in [1..len -> held]
      BY <2>2
    <3>2. f \in Bijection(1..len, held)
      BY <2>2, <3>1, Fun_IsBij, Zenon
    <3> QED  BY <2>1, <3>2, FS_CountingElements, Zenon DEF ExistsBijection
  <2>5. ASSUME len > 0, ~deep, NEW k \in 1..len PROVE nodes[1].priority <= nodes[k].priority
    <3>1. len <= 4 /\ \A m \in 2..len : nodes[m \div 2].priority <= nodes[m].priority
      BY <2>5 DEF HeapInv, OrderOK
    <3>2. \A m \in 1..len : nodes[m].priority \in Nat
      <4>1. \A x \in held : x.priority \in Nat
        BY DEF HeapInv, HeapTypes, HeapNode
      <4> QED  BY <2>2, <4>1
    <3>3. CASE k = 1
      BY <3>2, <3>3
    <3>4. CASE k = 2 \/ k = 3
      <4>1. k \in 2..len /\ k \div 2 = 1
        BY <2>1, <3>4
      <4> QED  BY <3>1, <4>1
    <3>5. CASE k = 4
      <4>1. 4 \in 2..len /\ 2 \in 2..len /\ 1 \in 1..len /\ 2 \in 1..len /\ 4 \div 2 = 2 /\ 2 \div 2 = 1
        BY <2>1, <3>5
      <4>2. nodes[2].priority <= nodes[4].priority /\ nodes[1].priority <= nodes[2].priority
        BY <3>1, <4>1
      <4> QED  BY <3>2, <3>5, <4>1, <4>2
    <3> QED  BY <2>1, <3>1, <3>3, <3>4, <3>5
  <2>6. len > 0 /\ ~deep => \A k \in 1..len : nodes[1].priority <= nodes[k].priority
    BY <2>5, Zenon
  <2>7. Heap!FrontIsLeast
    <3>1. Heap!PQ_front = nodes[1]
      BY DEF Heap!PQ_front
    <3>2. Heap!Cardinality(held) = Cardinality(held)
      BY Zenon DEF Heap!Cardinality, Cardinality
    <3> QED  BY <2>1, <2>3, <2>4, <2>6, <3>1, <3>2 DEF Heap!FrontIsLeast
  <2> QED  BY <2>7 DEF FrontIsLeast
<1> QED  BY <1>1, <1>2, <1>3, PTL DEF Heap!Spec

=============================================================================
