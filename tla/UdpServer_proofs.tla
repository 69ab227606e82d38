---------------------------- MODULE UdpServer_proofs ----------------------------
(***************************************************************************)
(* Proofs about SpscQueue, for every set of items and every size: the      *)
(* invariant of the ring, and that the ring implements BoundedFifo.  Then  *)
(* about UdpServer, for every ring, every set of datagrams and peers and   *)
(* every bound: the threads use the ring as SpscQueue says, no block of    *)
(* memory is used for two things at once, and so the requests are the      *)
(* datagrams and the answers reach their senders.                          *)
(***************************************************************************)
EXTENDS UdpServer, SequenceTheorems, FiniteSetTheorems, TLAPS

-----------------------------------------------------------------------------
(* The ring: slots *)

(* The part of the constructor's assertion that the proofs use. *)
LEMMA SizePositive == Size \in Nat \ {0}
  BY SpscAssumption, Zenon

(* Division with remainder, also of the negative differences that enqueue  *)
(* masks.                                                                  *)
LEMMA Division ==
  ASSUME NEW n \in Int
  PROVE  /\ n = Size * (n \div Size) + (n % Size)
         /\ n \div Size \in Int
         /\ n % Size \in 0..(Size - 1)
  BY SizePositive, Z3T(20)

(* Quotients whose multiples are less than Size apart are equal. *)
LEMMA SameQuotient ==
  ASSUME NEW x \in Int, NEW y \in Int,
         Size * x - Size * y < Size, Size * y - Size * x < Size
  PROVE  x = y
<1>1. Size \in Nat \ {0}
  BY SizePositive
<1>2. PICK d \in Int : d = x - y
  BY Z3
<1>3. Size * d = Size * x - Size * y /\ Size * d \in Int
  BY <1>1, <1>2, Z3T(10)
<1>4. CASE d >= 1
  <2>1. Size * d >= Size
    BY <1>1, <1>4, Z3T(10)
  <2> QED  BY <1>1, <1>3, <2>1, Z3T(10)
<1>5. CASE d <= -1
  <2>1. Size * d <= -Size
    BY <1>1, <1>5, Z3T(10)
  <2> QED  BY <1>1, <1>3, <2>1, Z3T(10)
<1>6. CASE d = 0
  BY <1>2, <1>6
<1> QED  BY <1>4, <1>5, <1>6

(* The remainder is the only number below Size at a multiple's distance. *)
LEMMA RemainderUnique ==
  ASSUME NEW n \in Int, NEW k \in Int, NEW r \in 0..(Size - 1),
         n = Size * k + r
  PROVE  n % Size = r
<1>1. Size \in Nat \ {0}
  BY SizePositive
<1>2. PICK q \in Int, m \in 0..(Size - 1) : n = Size * q + m /\ m = n % Size
  BY Division
<1>3. Size * q \in Int /\ Size * k \in Int
  BY <1>1
<1>4. Size * q - Size * k < Size /\ Size * k - Size * q < Size
  BY <1>1, <1>2, <1>3
<1>5. q = k
  BY <1>4, SameQuotient
<1>6. PICK w \in Int : w = Size * k
  BY <1>3
<1>7. m = r
  BY <1>1, <1>2, <1>5, <1>6
<1> QED  BY <1>2, <1>7

(* _buffer is never indexed out of its bounds. *)
LEMMA SlotType ==
  ASSUME NEW n \in Int
  PROVE  Slot(n) \in 0..(Size - 1)
  BY Division DEF Slot

(* Two counters less than a round apart that share a slot are equal. *)
LEMMA SlotInjective ==
  ASSUME NEW a \in Nat, NEW b \in Nat, Slot(a) = Slot(b),
         a < b + Size, b < a + Size
  PROVE  a = b
<1>0. Size \in Nat \ {0}
  BY SizePositive
<1>1. PICK x \in Int, r \in 0..(Size - 1) : a = Size * x + r /\ r = a % Size
  BY Division
<1>2. PICK y \in Int, q \in 0..(Size - 1) : b = Size * y + q /\ q = b % Size
  BY Division
<1>3. Size * x \in Int /\ Size * y \in Int /\ r = q
  BY <1>0, <1>1, <1>2 DEF Slot
<1>4. x = y
  BY <1>0, <1>1, <1>2, <1>3, SameQuotient
<1> QED  BY <1>1, <1>2, <1>3, <1>4

(* The producer's test, on a value of _tail that is late by less than a    *)
(* round: one slot more than it needs is free.                             *)
LEMMA RoomMeans ==
  ASSUME NEW h \in Nat, NEW t \in Nat, t <= h, h - t <= Size - 1
  PROVE  Slot(t - (h + 1)) = Size - 1 - (h - t)
<1>0. Size \in Nat \ {0}
  BY SizePositive
<1>1. PICK r \in 0..(Size - 1) : r = Size - 1 - (h - t)
  BY <1>0
<1>2. t - (h + 1) = Size * (-1) + r
  BY <1>0, <1>1, Z3T(10)
<1>3. t - (h + 1) \in Int /\ -1 \in Int
  OBVIOUS
<1> QED  BY <1>1, <1>2, <1>3, RemainderUnique DEF Slot

(* The consumer's test: _head, late or not, is beyond _tail. *)
LEMMA ItemMeans ==
  ASSUME NEW h \in Nat, NEW t \in Nat, t <= h, h - t <= Size - 1
  PROVE  Slot(h - t) = h - t
<1>0. Size \in Nat \ {0}
  BY SizePositive
<1>1. PICK r \in 0..(Size - 1) : r = h - t
  BY <1>0
<1>2. h - t = Size * 0 + r
  BY <1>0, <1>1, Z3T(10)
<1>3. h - t \in Int /\ 0 \in Int
  OBVIOUS
<1> QED  BY <1>1, <1>2, <1>3, RemainderUnique DEF Slot

-----------------------------------------------------------------------------
(* The invariant *)

(* A step of the producer keeps the invariant: the room that it has found  *)
(* stays until it stores _head, and no slot of a queued item is written.   *)
LEMMA ProducerStep ==
  ASSUME QueueInv, (\E v \in Items : EnqueueCall(v)) \/ Enqueue
  PROVE  QueueInv'
<1> USE DEF QueueInv, QueueTypeOK, consumer
<1>0. Size \in Nat \ {0} /\ None \notin Items
  BY SizePositive, SpscAssumption
<1>1. ASSUME NEW v \in Items, EnqueueCall(v)
      PROVE  QueueInv'
  BY <1>1 DEF EnqueueCall
<1>2. ASSUME NEW t \in ptail..tail, EnqueueRoom(t)
      PROVE  QueueInv'
  <2>1. t \in Nat /\ t <= head /\ head - t <= Size - 1
    BY <1>0
  <2>2. head - t < Size - 1
    <3>1. Slot(t - (head + 1)) = Size - 1 - (head - t)
      BY <2>1, RoomMeans
    <3>2. Slot(t - (head + 1)) >= 1
      BY <1>2 DEF EnqueueRoom, HasRoom
    <3> QED  BY <1>0, <2>1, <3>1, <3>2
  <2> QED  BY <1>0, <1>2, <2>1, <2>2 DEF EnqueueRoom
<1>3. ASSUME NEW t \in ptail..tail, EnqueueFull(t)
      PROVE  QueueInv'
  BY <1>0, <1>3 DEF EnqueueFull
<1>4. CASE EnqueueWrite
  <2>1. Slot(head) \in 0..(Size - 1) /\ pitem \in Items
    BY <1>4, SlotType DEF EnqueueWrite
  <2>2. \A n \in tail..(head - 1) : Slot(n) # Slot(head) /\ Slot(n) \in 0..(Size - 1)
    <3>1. SUFFICES ASSUME NEW n \in tail..(head - 1)
                   PROVE  Slot(n) # Slot(head) /\ Slot(n) \in 0..(Size - 1)
      OBVIOUS
    <3>2. n \in Nat /\ n < head + Size /\ head < n + Size /\ n # head
      BY <1>0
    <3> QED  BY <3>2, SlotInjective, SlotType
  <2>3. \A n \in tail..(head - 1) : buffer'[Slot(n)] = buffer[Slot(n)]
    BY <1>4, <2>2 DEF EnqueueWrite
  <2>4. buffer'[Slot(head)] = pitem
    BY <1>4, <2>1 DEF EnqueueWrite
  <2>5. buffer' \in [0..(Size - 1) -> Items \cup {None}]
    BY <1>4, <2>1 DEF EnqueueWrite
  <2>6. cpc = "store" => tail \in tail..(head - 1)
    OBVIOUS
  <2> QED  BY <1>4, <2>1, <2>3, <2>4, <2>5, <2>6 DEF EnqueueWrite
<1>5. CASE EnqueueStore
  <2>1. \A n \in tail..head : buffer[Slot(n)] \in Items
    BY <1>5 DEF EnqueueStore
  <2> QED  BY <1>0, <1>5, <2>1 DEF EnqueueStore
<1> QED  BY <1>1, <1>2, <1>3, <1>4, <1>5 DEF Enqueue

(* So does a step of the consumer: what it has seen of _head stays true,   *)
(* and it copies the oldest item before it gives the slot back.            *)
LEMMA ConsumerStep ==
  ASSUME QueueInv, Dequeue \/ DequeueReturn
  PROVE  QueueInv'
<1> USE DEF QueueInv, QueueTypeOK, producer
<1>0. Size \in Nat \ {0} /\ None \notin Items
  BY SizePositive, SpscAssumption
<1>1. ASSUME NEW h \in chead..head, DequeueReady(h)
      PROVE  QueueInv'
  <2>1. h \in Nat /\ tail <= h /\ h - tail <= Size - 1
    BY <1>0
  <2>2. tail < h
    BY <1>0, <1>1, <2>1, ItemMeans DEF DequeueReady, HasItem
  <2> QED  BY <1>1, <2>1, <2>2 DEF DequeueReady
<1>2. ASSUME NEW h \in chead..head, DequeueEmpty(h)
      PROVE  QueueInv'
  BY <1>2 DEF DequeueEmpty
<1>3. CASE DequeueRead
  <2>1. tail \in tail..(head - 1)
    BY <1>3 DEF DequeueRead
  <2>2. buffer[Slot(tail)] \in Items
    BY <2>1
  <2> QED  BY <1>3, <2>2 DEF DequeueRead
<1>4. CASE DequeueStore
  <2>1. tail \in tail..(head - 1)
    BY <1>4 DEF DequeueStore
  <2>2. citem \in Items
    BY <1>4, <2>1 DEF DequeueStore
  <2> QED  BY <1>0, <1>4, <2>2 DEF DequeueStore
<1>5. CASE DequeueReturn
  BY <1>5 DEF DequeueReturn
<1> QED  BY <1>1, <1>2, <1>3, <1>4, <1>5 DEF Dequeue

(* QueueInv is inductive as it stands. *)
LEMMA QueueInvInit == QueueInit => QueueInv
<1>0. Size \in Nat \ {0}
  BY SizePositive
<1> QED  BY <1>0 DEF QueueInit, QueueInv, QueueTypeOK

LEMMA QueueInvStep == QueueInv /\ [QueueNext]_queueVars => QueueInv'
<1>1. ASSUME QueueInv, UNCHANGED queueVars
      PROVE  QueueInv'
  BY <1>1 DEF QueueInv, QueueTypeOK, queueVars
<1> QED  BY <1>1, ProducerStep, ConsumerStep DEF QueueNext

(* spsc_bounded_queue_t keeps its invariant in every behaviour of a        *)
(* producer and a consumer: the counters stay less than a round apart,     *)
(* also as the threads see them, and what lies between them are the items. *)
THEOREM QueueInvCorrect == QueueSpec => []QueueInv
  BY QueueInvInit, QueueInvStep, PTL DEF QueueSpec

-----------------------------------------------------------------------------
(* The refinement *)

(* What the consumer carries out, in the refinement mapping. *)
Carried == [c \in {"consumer"} |-> IF cpc = "return" THEN citem ELSE None]

(* The abstract queue is a sequence of items, one for each queued slot. *)
InsideOK ==
  /\ Inside \in Seq(Items)
  /\ Len(Inside) = head - tail
  /\ \A k \in 1..(head - tail) : Inside[k] = buffer[Slot(tail + k - 1)]

(* The items between the counters are the abstract queue. *)
LEMMA InsideIsQueue == QueueInv => InsideOK
<1> SUFFICES ASSUME QueueInv PROVE InsideOK
  OBVIOUS
<1>1. head \in Nat /\ tail \in Nat /\ head - tail \in Nat
  BY DEF QueueInv, QueueTypeOK
<1>2. \A k \in 1..(head - tail) : buffer[Slot(tail + k - 1)] \in Items
  <2>1. \A k \in 1..(head - tail) : tail + k - 1 \in tail..(head - 1)
    BY <1>1
  <2> QED  BY <2>1 DEF QueueInv
<1>3. Inside \in [1..(head - tail) -> Items]
  BY <1>2 DEF Inside
<1>4. Inside \in Seq(Items)
  BY <1>1, <1>3, SeqDef
<1> QED  BY <1>1, <1>3, <1>4, LenProperties DEF Inside, InsideOK

(* Everything but the two stores and the return is invisible; the slot     *)
(* that the producer writes is outside of the abstract queue.              *)
LEMMA LocalStutters ==
  ASSUME QueueInv,
         \/ \E v \in Items : EnqueueCall(v)
         \/ \E t \in ptail..tail : EnqueueRoom(t) \/ EnqueueFull(t)
         \/ EnqueueWrite
         \/ \E h \in chead..head : DequeueReady(h) \/ DequeueEmpty(h)
         \/ DequeueRead
         \/ UNCHANGED queueVars
  PROVE  Inside' = Inside /\ Carried' = Carried
<1>0. Size \in Nat \ {0} /\ head \in Nat /\ tail \in Nat
  BY SizePositive DEF QueueInv, QueueTypeOK
<1>1. CASE EnqueueWrite
  <2>1. \A k \in 1..(head - tail) :
           buffer'[Slot(tail + k - 1)] = buffer[Slot(tail + k - 1)]
    <3>1. SUFFICES ASSUME NEW n \in tail..(head - 1)
                   PROVE  buffer'[Slot(n)] = buffer[Slot(n)]
      BY <1>0
    <3>2. n \in Nat /\ n < head + Size /\ head < n + Size /\ n # head
      BY <1>0, <1>1 DEF QueueInv, QueueTypeOK, EnqueueWrite
    <3>3. Slot(n) # Slot(head) /\ Slot(n) \in 0..(Size - 1)
      BY <1>0, <3>2, SlotInjective, SlotType
    <3> QED  BY <1>1, <3>3 DEF QueueInv, QueueTypeOK, EnqueueWrite
  <2> QED  BY <1>1, <2>1 DEF EnqueueWrite, Inside, Carried, consumer
<1>2. CASE \/ \E v \in Items : EnqueueCall(v)
           \/ \E t \in ptail..tail : EnqueueRoom(t) \/ EnqueueFull(t)
  BY <1>2 DEF EnqueueCall, EnqueueRoom, EnqueueFull, consumer, Inside, Carried
<1>3. CASE \/ \E h \in chead..head : DequeueReady(h) \/ DequeueEmpty(h)
           \/ DequeueRead
  BY <1>3 DEF DequeueReady, DequeueEmpty, DequeueRead, producer, Inside, Carried
<1>4. CASE UNCHANGED queueVars
  BY <1>4 DEF queueVars, Inside, Carried
<1> QED  BY <1>1, <1>2, <1>3, <1>4

(* The store to _head is Put. *)
LEMMA StoreIsPut ==
  ASSUME QueueInv, QueueInv', EnqueueStore
  PROVE  Fifo!Put(pitem)
<1>0. /\ Size \in Nat \ {0} /\ head \in Nat /\ tail \in Nat /\ tail <= head
      /\ pitem \in Items
      /\ head - tail < Size - 1
      /\ buffer[Slot(head)] = pitem
  BY SizePositive DEF QueueInv, QueueTypeOK, EnqueueStore
<1>1. head' = head + 1 /\ UNCHANGED <<tail, buffer, cpc, citem>>
  BY DEF EnqueueStore, consumer
<1>2. /\ Inside \in Seq(Items) /\ Len(Inside) = head - tail
      /\ \A k \in 1..(head - tail) : Inside[k] = buffer[Slot(tail + k - 1)]
  BY InsideIsQueue DEF InsideOK
<1>3. /\ Inside' \in Seq(Items) /\ Len(Inside') = head + 1 - tail
      /\ \A k \in 1..(head + 1 - tail) : Inside'[k] = buffer[Slot(tail + k - 1)]
  <2>1. /\ Inside' \in Seq(Items) /\ Len(Inside') = head' - tail'
        /\ \A k \in 1..(head' - tail') : Inside'[k] = buffer'[Slot(tail' + k - 1)]
    <3>1. InsideOK'
      BY InsideIsQueue, PTL
    <3> QED  BY <3>1, Zenon DEF InsideOK
  <2>2. Size \in Nat \ {0} /\ head \in Nat /\ tail \in Nat
    BY <1>0
  <2>3. \A n : Slot(n)' = Slot(n)
    BY DEF Slot
  <2> QED  BY <1>1, <2>1, <2>2, <2>3
<1>4. /\ Append(Inside, pitem) \in Seq(Items)
      /\ Len(Append(Inside, pitem)) = head + 1 - tail
      /\ \A k \in 1..(head - tail) : Append(Inside, pitem)[k] = Inside[k]
      /\ Append(Inside, pitem)[head + 1 - tail] = pitem
  BY <1>0, <1>2, AppendProperties
<1>5. ASSUME NEW k \in 1..(head + 1 - tail)
      PROVE  Inside'[k] = Append(Inside, pitem)[k]
  <2>1. CASE k = head + 1 - tail
    <3>1. tail + k - 1 = head
      BY <1>0, <2>1
    <3> QED  BY <1>0, <1>3, <1>4, <2>1, <3>1
  <2>2. CASE k # head + 1 - tail
    <3>1. k \in 1..(head - tail)
      BY <1>0, <2>2
    <3> QED  BY <1>2, <1>3, <1>4, <3>1
  <2> QED  BY <2>1, <2>2
<1>6. Inside' = Append(Inside, pitem)
  BY <1>3, <1>4, <1>5, SeqEqual
<1>7. Len(Inside) < Size - 1
  BY <1>0, <1>2
<1>8. Carried' = Carried
  BY <1>1 DEF Carried
<1> QED  BY <1>6, <1>7, <1>8 DEF Fifo!Put, Carried

(* The store to _tail is Take. *)
LEMMA StoreIsTake ==
  ASSUME QueueInv, QueueInv', DequeueStore
  PROVE  Fifo!Take("consumer")
<1>0. /\ Size \in Nat \ {0} /\ head \in Nat /\ tail \in Nat /\ tail < head
      /\ cpc = "store" /\ citem = buffer[Slot(tail)]
  BY SizePositive DEF QueueInv, QueueTypeOK, DequeueStore
<1>1. /\ tail' = tail + 1 /\ cpc' = "return"
      /\ UNCHANGED <<head, buffer, citem>>
  BY DEF DequeueStore, producer
<1>2. /\ Inside \in Seq(Items) /\ Len(Inside) = head - tail
      /\ \A k \in 1..(head - tail) : Inside[k] = buffer[Slot(tail + k - 1)]
  BY InsideIsQueue DEF InsideOK
<1>3. /\ Inside' \in Seq(Items) /\ Len(Inside') = head - (tail + 1)
      /\ \A k \in 1..(head - (tail + 1)) : Inside'[k] = buffer[Slot((tail + 1) + k - 1)]
  <2>1. /\ Inside' \in Seq(Items) /\ Len(Inside') = head' - tail'
        /\ \A k \in 1..(head' - tail') : Inside'[k] = buffer'[Slot(tail' + k - 1)]
    <3>1. InsideOK'
      BY InsideIsQueue, PTL
    <3> QED  BY <3>1, Zenon DEF InsideOK
  <2>2. Size \in Nat \ {0} /\ head \in Nat /\ tail \in Nat
    BY <1>0
  <2>3. \A n : Slot(n)' = Slot(n)
    BY DEF Slot
  <2> QED  BY <1>1, <2>1, <2>2, <2>3
<1>4. Inside # <<>> /\ Head(Inside) = citem
  <2>1. 1 \in 1..(head - tail) /\ tail + 1 - 1 = tail
    BY <1>0
  <2>2. Inside[1] = citem
    BY <1>0, <1>2, <2>1
  <2> QED  BY <1>0, <1>2, <2>2
<1>5. /\ Tail(Inside) \in Seq(Items)
      /\ Len(Tail(Inside)) = head - (tail + 1)
      /\ \A k \in 1..(head - (tail + 1)) : Tail(Inside)[k] = Inside[k + 1]
  BY <1>0, <1>2, <1>4, HeadTailProperties
<1>6. ASSUME NEW k \in 1..(head - (tail + 1))
      PROVE  Inside'[k] = Tail(Inside)[k]
  <2>1. k + 1 \in 1..(head - tail) /\ tail + (k + 1) - 1 = (tail + 1) + k - 1
    BY <1>0
  <2> QED  BY <1>2, <1>3, <1>5, <2>1
<1>7. Inside' = Tail(Inside)
  BY <1>3, <1>5, <1>6, SeqEqual
<1>8. Carried["consumer"] = None /\ Carried' = [Carried EXCEPT !["consumer"] = citem]
  BY <1>0, <1>1 DEF Carried
<1> QED  BY <1>4, <1>7, <1>8 DEF Fifo!Take, Carried

(* The return of dequeue is Return. *)
LEMMA ReturnIsReturn ==
  ASSUME QueueInv, DequeueReturn
  PROVE  Fifo!Return("consumer")
<1>1. /\ cpc = "return" /\ cpc' = "idle" /\ citem \in Items /\ None \notin Items
      /\ UNCHANGED <<tail, head, buffer>>
  BY SpscAssumption DEF DequeueReturn, producer, QueueInv
<1>2. Inside' = Inside
  BY <1>1 DEF Inside
<1>3. Carried["consumer"] # None /\ Carried' = [Carried EXCEPT !["consumer"] = None]
  BY <1>1 DEF Carried
<1> QED  BY <1>2, <1>3 DEF Fifo!Return, Carried

(* Every step of the ring is one of the abstract queue, or none. *)
LEMMA RefinesStep ==
  QueueInv /\ QueueInv' /\ [QueueNext]_queueVars => [Fifo!Next]_(Fifo!vars)
<1> SUFFICES ASSUME QueueInv, QueueInv', [QueueNext]_queueVars
             PROVE  [Fifo!Next]_(Fifo!vars)
  OBVIOUS
<1>1. CASE EnqueueStore
  <2>1. pitem \in Items
    BY <1>1 DEF EnqueueStore, QueueInv, QueueTypeOK
  <2> QED  BY <1>1, <2>1, StoreIsPut DEF Fifo!Next
<1>2. CASE DequeueStore
  BY <1>2, StoreIsTake DEF Fifo!Next
<1>3. CASE DequeueReturn
  BY <1>3, ReturnIsReturn DEF Fifo!Next
<1>4. CASE \/ \E v \in Items : EnqueueCall(v)
           \/ \E t \in ptail..tail : EnqueueRoom(t) \/ EnqueueFull(t)
           \/ EnqueueWrite
           \/ \E h \in chead..head : DequeueReady(h) \/ DequeueEmpty(h)
           \/ DequeueRead
           \/ UNCHANGED queueVars
  BY <1>4, LocalStutters DEF Fifo!vars, Carried
<1> QED  BY <1>1, <1>2, <1>3, <1>4 DEF QueueNext, Enqueue, Dequeue

(* It starts empty. *)
LEMMA RefinesInit == QueueInit => Fifo!Init
<1> SUFFICES ASSUME QueueInit PROVE Fifo!Init
  OBVIOUS
<1>1. QueueInv
  BY QueueInvInit
<1>2. Inside \in Seq(Items) /\ Len(Inside) = 0
  BY <1>1, InsideIsQueue DEF QueueInit, InsideOK
<1>3. Inside = <<>>
  BY <1>2
<1> QED  BY <1>3 DEF Fifo!Init, QueueInit

(* spsc_bounded_queue_t is a bounded FIFO of Size - 1 items, for every     *)
(* size and every pair of threads that see each other's counter late.      *)
THEOREM QueueImplementsFifo == QueueSpec => ImplementsFifo
  BY QueueInvCorrect, RefinesInit, RefinesStep, PTL
     DEF ImplementsFifo, Fifo!Spec, QueueSpec


-----------------------------------------------------------------------------
(* The server: the inductive invariant *)

(* How far the two threads are: the n-th datagram received is the one that *)
(* _head = n - 1 stands for, the n-th request made the one of _tail.       *)
CountsOK ==
  /\ received \in Seq(Datagrams) /\ sock \in Seq(Datagrams)
  /\ mpc \in {"poll", "recv", "enqueue", "ended"}
  /\ hpc \in {"dequeue", "parse", "dma", "free"}
  /\ mpc = "enqueue" <=> ppc # "idle"
  /\ hpc = "dequeue" <=> cpc # "return"
  /\ Len(received) = IF mpc = "enqueue" THEN head + 1 ELSE head
  /\ Len(received) + Len(sock) <= MaxArrivals
  /\ mpc = "recv" => sock # <<>>

(* Blocks are allocated from the lowest free one, addresses never freed. *)
MemoryOK ==
  /\ rdata \in [Blocks -> {None} \cup [buf : Blocks, addr : Blocks]]
  /\ bufs \in [Blocks -> Datagrams \cup {None}]
  /\ addrs \in [Blocks -> Peers \cup {None}]
  /\ \A b \in Blocks :
       b > Len(received) => rdata[b] = None /\ bufs[b] = None /\ addrs[b] = None
  /\ \A n \in 1..Len(received) : addrs[n] = received[n].from
  /\ \A b \in Blocks : rdata[b] # None => bufs[rdata[b].buf] # None
  /\ \A a, b \in Blocks :
       rdata[a] # None /\ rdata[b] # None /\ rdata[a].buf = rdata[b].buf => a = b
  /\ mpc = "recv" => /\ mbuf \in 1..(Len(received) + 1)
                     /\ bufs[mbuf] = None
                     /\ maddr = Len(received) + 1

(* Block b holds the read_data of the n-th datagram received. *)
Holds(b, n) ==
  /\ b \in Blocks
  /\ rdata[b] # None
  /\ rdata[b].addr = n
  /\ bufs[rdata[b].buf] = received[n]

(* The ring, and the hands of the two threads, hold the datagrams that are *)
(* received and not yet made into requests, in order.                      *)
QueuedOK ==
  /\ \A n \in tail..(head - 1) : Holds(buffer[Slot(n)], n + 1)
  /\ mpc = "enqueue" => Holds(pitem, head + 1)
  /\ cpc = "return" => Holds(citem, tail)

(* The requests so far, and the one in the handler's hands. *)
MadeOK ==
  /\ made \in Seq([addr : Blocks, target : 0..99, type : {1, 2, 3}, key : Nat])
  /\ Len(made) = IF hpc \in {"parse", "dma"} THEN tail - 1 ELSE tail
  /\ hpc = "dma" => hreq = Parsed(received[tail], tail)
  /\ \A n \in 1..Len(made) : made[n] = Submitted(Parsed(received[n], n))

(* What the answers say. *)
RepliesOK ==
  /\ \A r \in replies : r.of \in 1..Len(made)
  /\ AnswersReachSender

(* The DMA buffers are with libmemio or with a read or write in progress. *)
DmaHeld == {n \in pending : made[n].type < 3}

DmaOK ==
  /\ pending \subseteq 1..Len(made)
  /\ dma \in Nat
  /\ dma + Cardinality(DmaHeld) = Buffers

UdpInv ==
  QueueInv /\ CountsOK /\ MemoryOK /\ QueuedOK /\ MadeOK /\ RepliesOK /\ DmaOK

-----------------------------------------------------------------------------
(* Constants and operators *)

(* The constants, as the proofs use them. *)
LEMMA Constants ==
  /\ MaxArrivals \in Nat /\ Buffers \in Nat
  /\ Items = Blocks
  /\ None \notin Blocks /\ None \notin Datagrams /\ None \notin Peers
  /\ None \notin [buf : Blocks, addr : Blocks]
  /\ \A d \in Datagrams : d.from \in Peers /\ d.target \in 0..9999 /\ d.type \in {1, 2, 3}
  BY UdpAssumption, SpscAssumption DEF Blocks

(* malloc returns the lowest of the free blocks, when there is one. *)
LEMMA MallocLowest ==
  ASSUME NEW f, NEW n \in Blocks, f[n] = None
  PROVE  /\ Malloc(f) \in Blocks
         /\ f[Malloc(f)] = None
         /\ \A a \in Blocks : f[a] = None => Malloc(f) <= a
<1> DEFINE Free == {b \in Blocks : f[b] = None}
<1>1. Blocks \subseteq Nat
  BY Constants DEF Blocks
<1>2. Free \subseteq Nat /\ Free # {}
  BY <1>1
<1> HIDE DEF Free
<1>3. PICK x \in Free : \A y \in Free : ~(<<y, x>> \in OpToRel(<, Nat))
  BY <1>2, NatLessThanWellFounded, WFMin
<1>4. \A y \in Free : ~(y < x)
  BY <1>2, <1>3 DEF OpToRel
<1>5. x \in Blocks /\ f[x] = None /\ \A a \in Blocks : f[a] = None => x <= a
  BY <1>1, <1>2, <1>4 DEF Free
<1> QED  BY <1>5 DEF Malloc

(* A number below the modulus is its own remainder. *)
LEMMA SmallRemainder ==
  ASSUME NEW m \in Nat \ {0}, NEW x \in 0..(m - 1)
  PROVE  x % m = x
  BY Z3T(20)

(* Two digits are left of a number. *)
LEMMA TwoDigits ==
  ASSUME NEW x \in Int
  PROVE  x % 100 \in 0..99
  BY Z3T(20)

(* The fields that udp_GetRequest computes are those that the peer sent,   *)
(* but for the first two digits of the target.                             *)
LEMMA ParsedFields ==
  ASSUME NEW d \in Datagrams, NEW a \in Blocks
  PROVE  /\ Parsed(d, a).addr = a
         /\ Parsed(d, a).target = d.target % 100
         /\ Parsed(d, a).type = d.type
         /\ Parsed(d, a).key = d.key + 1
         /\ Parsed(d, a) \in [addr : Blocks, target : 0..99, type : {1, 2, 3}, key : Nat]
<1>1. /\ d.target \in 0..9999 /\ d.type \in {1, 2, 3}
      /\ d.keyLen \in 1..10 /\ d.key \in 0..(10^d.keyLen - 1)
  BY UdpAssumption
<1>2. d.target % 100 \in 0..99
  <2> DEFINE Targets == 0..9999
             Rest(x) == x % 100
             Rests == 0..99
  <2>1. d.target \in Targets
    BY UdpAssumption
  <2>2. \A x \in Targets : Rest(x) \in Rests
    BY TwoDigits
  <2> HIDE DEF Targets, Rest, Rests
  <2>3. Rest(d.target) \in Rests
    BY <2>1, <2>2, Zenon
  <2> QED  BY <2>3 DEF Rest, Rests
<1>3. d.key % 10^d.keyLen = d.key /\ d.key \in Nat
  <2>1. PICK k \in 1..10 : k = d.keyLen
    BY <1>1
  <2>2. PICK x : x = d.key /\ x \in 0..(10^k - 1)
    BY <1>1, <2>1
  <2>3. 10^k \in Nat \ {0}
    BY <2>2
  <2> QED  BY <2>1, <2>2, <2>3, SmallRemainder
<1> QED  BY <1>1, <1>2, <1>3 DEF Parsed

(* make_req changes the key only. *)
LEMMA SubmittedFields ==
  ASSUME NEW d \in Datagrams, NEW a \in Blocks
  PROVE  LET r == Submitted(Parsed(d, a))
         IN  /\ r.addr = a
             /\ r.target = d.target % 100
             /\ r.type = d.type
             /\ r.key = d.key + 2
             /\ r \in [addr : Blocks, target : 0..99, type : {1, 2, 3}, key : Nat]
<1>1. PICK p : p = Parsed(d, a)
  OBVIOUS
<1>2. /\ p.addr = a /\ p.target = d.target % 100 /\ p.type = d.type /\ p.key = d.key + 1
      /\ p \in [addr : Blocks, target : 0..99, type : {1, 2, 3}, key : Nat]
  BY <1>1, ParsedFields
<1>3. d.key \in Nat
  BY UdpAssumption
<1>4. Submitted(p) = [p EXCEPT !.key = p.key + 1]
  BY DEF Submitted
<1>5. /\ Submitted(p).addr = p.addr /\ Submitted(p).target = p.target
      /\ Submitted(p).type = p.type /\ Submitted(p).key = p.key + 1
      /\ Submitted(p) \in [addr : Blocks, target : 0..99, type : {1, 2, 3}, key : Nat]
  BY <1>2, <1>4
<1> QED  BY <1>1, <1>2, <1>3, <1>5

-----------------------------------------------------------------------------
(* Steps.  The invariant without the ring's, which is kept above.          *)

UdpParts == CountsOK /\ MemoryOK /\ QueuedOK /\ MadeOK /\ RepliesOK /\ DmaOK

(* What the proofs below keep using about the counters. *)
LEMMA CounterFacts ==
  ASSUME UdpInv
  PROVE  /\ head \in Nat /\ tail \in Nat /\ tail <= head
         /\ Len(received) \in Nat /\ Len(sock) \in Nat /\ Len(made) \in Nat
         /\ tail <= Len(received) /\ head <= Len(received)
         /\ Len(received) <= MaxArrivals
         /\ Len(made) <= tail
         /\ MaxArrivals \in Nat
         /\ Blocks = 1..MaxArrivals
<1>1. head \in Nat /\ tail \in Nat /\ tail <= head
  BY DEF UdpInv, QueueInv, QueueTypeOK
<1>2. Len(received) \in Nat /\ Len(sock) \in Nat /\ Len(made) \in Nat
  BY DEF UdpInv, CountsOK, MadeOK
<1>3. MaxArrivals \in Nat
  BY Constants
<1> QED  BY <1>1, <1>2, <1>3 DEF UdpInv, CountsOK, MadeOK, Blocks

(* There is a free block of each kind for a datagram that is in the socket. *)
LEMMA FreeBlocks ==
  ASSUME UdpInv, sock # <<>>
  PROVE  LET n == Len(received) + 1
         IN  n \in Blocks /\ rdata[n] = None /\ bufs[n] = None /\ addrs[n] = None
<1>1. Len(sock) > 0
  BY DEF UdpInv, CountsOK
<1>2. Len(received) + 1 \in Blocks
  BY <1>1, CounterFacts DEF UdpInv, CountsOK
<1> QED  BY <1>2, CounterFacts DEF UdpInv, MemoryOK

(* The two threads drive the ring as one producer and one consumer. *)
LEMMA RingStep ==
  ASSUME UdpInv, [Next]_vars
  PROVE  [QueueNext]_queueVars
<1>1. CASE Recv
  <2>1. Malloc(rdata) \in Items
    <3>1. sock # <<>>
      BY <1>1 DEF Recv, UdpInv, CountsOK
    <3> QED  BY <3>1, FreeBlocks, MallocLowest, Constants
  <2> QED  BY <1>1, <2>1 DEF Recv, QueueNext
<1>2. CASE PollReady \/ MainEnds \/ HandlerParse \/ HandlerMake
           \/ (\E d \in Datagrams : Arrive(d))
           \/ (\E n \in pending : EngineDone(n))
  BY <1>2 DEF PollReady, MainEnds, HandlerParse, HandlerMake, Arrive, EngineDone
<1>3. CASE MainEnqueue \/ HandlerDequeue \/ HandlerFree
  BY <1>3 DEF MainEnqueue, HandlerDequeue, HandlerFree, QueueNext
<1>4. CASE UNCHANGED vars
  BY <1>4 DEF vars, queueVars
<1> QED  BY <1>1, <1>2, <1>3, <1>4 DEF Next, Main, Handler

(* A datagram enters the socket's buffer. *)
LEMMA ArriveStep ==
  ASSUME UdpInv, NEW d \in Datagrams, Arrive(d)
  PROVE  UdpParts'
<1>1. UNCHANGED <<queueVars, main, memory, handler, made, pending, dma, received, replies>>
  BY DEF Arrive
<1>2. MemoryOK' /\ QueuedOK' /\ MadeOK' /\ RepliesOK' /\ DmaOK'
  BY <1>1 DEF UdpInv, MemoryOK, QueuedOK, MadeOK, RepliesOK, DmaOK, queueVars, main,
              memory, handler, Holds, AnswersReachSender, DmaHeld
<1>3. /\ sock' \in Seq(Datagrams) /\ Len(sock') = Len(sock) + 1 /\ sock' # <<>>
      /\ Len(received) + Len(sock) < MaxArrivals
  BY AppendProperties DEF Arrive, UdpInv, CountsOK
<1>4. CountsOK'
  BY <1>1, <1>3, CounterFacts DEF UdpInv, CountsOK, queueVars, main, handler
<1> QED  BY <1>2, <1>4 DEF UdpParts

(* main finds the socket readable and allocates. *)
LEMMA PollReadyStep ==
  ASSUME UdpInv, PollReady
  PROVE  UdpParts'
<1>1. /\ mpc = "poll" /\ mpc' = "recv" /\ sock # <<>>
      /\ mbuf' = Malloc(bufs) /\ maddr' = Malloc(addrs)
      /\ UNCHANGED <<queueVars, sock, memory, handler, made, pending, dma, received, replies>>
  BY DEF PollReady
<1>2. CountsOK' /\ QueuedOK' /\ MadeOK' /\ RepliesOK' /\ DmaOK'
  BY <1>1 DEF UdpInv, CountsOK, QueuedOK, MadeOK, RepliesOK, DmaOK, queueVars,
              memory, handler, Holds, AnswersReachSender, DmaHeld
<1>3. LET n == Len(received) + 1
      IN  n \in Blocks /\ bufs[n] = None /\ addrs[n] = None
  BY <1>1, FreeBlocks
<1>4. Malloc(bufs) \in 1..(Len(received) + 1) /\ bufs[Malloc(bufs)] = None
  <2>1. /\ Malloc(bufs) \in Blocks /\ bufs[Malloc(bufs)] = None
        /\ Malloc(bufs) <= Len(received) + 1
    BY <1>3, MallocLowest
  <2> QED  BY <2>1, CounterFacts
<1>5. Malloc(addrs) = Len(received) + 1
  <2>1. /\ Malloc(addrs) \in Blocks /\ addrs[Malloc(addrs)] = None
        /\ Malloc(addrs) <= Len(received) + 1
    BY <1>3, MallocLowest
  <2>2. \A n \in 1..Len(received) : addrs[n] # None
    <3>1. \A n \in 1..Len(received) : received[n] \in Datagrams
      BY DEF UdpInv, CountsOK
    <3> QED  BY <3>1, Constants DEF UdpInv, MemoryOK
  <2> QED  BY <2>1, <2>2, CounterFacts
<1>6. MemoryOK'
  BY <1>1, <1>4, <1>5 DEF UdpInv, MemoryOK, memory
<1> QED  BY <1>2, <1>6 DEF UdpParts

(* The program ends. *)
LEMMA MainEndsStep ==
  ASSUME UdpInv, MainEnds
  PROVE  UdpParts'
<1>1. /\ mpc \in {"poll", "recv"} /\ mpc' = "ended"
      /\ UNCHANGED <<queueVars, sock, mbuf, maddr, memory, handler, made, pending, dma,
                     received, replies>>
  BY DEF MainEnds
<1>2. MemoryOK' /\ QueuedOK' /\ MadeOK' /\ RepliesOK' /\ DmaOK'
  BY <1>1 DEF UdpInv, MemoryOK, QueuedOK, MadeOK, RepliesOK, DmaOK, queueVars,
              memory, handler, Holds, AnswersReachSender, DmaHeld
<1>3. CountsOK'
  BY <1>1 DEF UdpInv, CountsOK, queueVars, handler
<1> QED  BY <1>2, <1>3 DEF UdpParts

(* recvfrom, and enqueue is called: the n-th datagram goes into block n of *)
(* the addresses and into blocks that nothing else uses.                   *)
LEMMA RecvStep ==
  ASSUME UdpInv, Recv
  PROVE  UdpParts'
<1> DEFINE n == Len(received) + 1
           r == Malloc(rdata)
           d == Head(sock)
<1>1. /\ mpc = "recv" /\ mpc' = "enqueue" /\ ppc = "idle" /\ ppc' = "check"
      /\ pitem' = r
      /\ bufs' = [bufs EXCEPT ![mbuf] = d]
      /\ addrs' = [addrs EXCEPT ![maddr] = d.from]
      /\ rdata' = [rdata EXCEPT ![r] = [buf |-> mbuf, addr |-> maddr]]
      /\ received' = Append(received, d)
      /\ sock' = Tail(sock)
      /\ UNCHANGED <<head, tail, buffer, cpc, citem, handler, made, pending, dma, replies>>
  BY DEF Recv, EnqueueCall, consumer
<1>2. sock # <<>> /\ d \in Datagrams /\ sock' \in Seq(Datagrams) /\ Len(sock') = Len(sock) - 1
  BY <1>1, HeadTailProperties DEF UdpInv, CountsOK
<1>3. /\ received' \in Seq(Datagrams) /\ Len(received') = n
      /\ received'[n] = d
      /\ \A k \in 1..Len(received) : received'[k] = received[k]
  BY <1>1, <1>2, AppendProperties DEF UdpInv, CountsOK
<1>4. /\ n \in Blocks /\ rdata[n] = None
      /\ r \in 1..n /\ r \in Blocks /\ rdata[r] = None
      /\ mbuf \in 1..n /\ mbuf \in Blocks /\ bufs[mbuf] = None
      /\ maddr = n
  <2>1. n \in Blocks /\ rdata[n] = None
    BY <1>2, FreeBlocks
  <2>2. r \in Blocks /\ rdata[r] = None /\ r <= n
    BY <2>1, MallocLowest
  <2>3. mbuf \in 1..n /\ bufs[mbuf] = None /\ maddr = n
    BY <1>1 DEF UdpInv, MemoryOK
  <2> QED  BY <2>1, <2>2, <2>3, CounterFacts
<1>5. /\ [buf |-> mbuf, addr |-> n] \in [buf : Blocks, addr : Blocks]
      /\ [buf |-> mbuf, addr |-> n] # None
      /\ d # None /\ d.from \in Peers
  BY <1>2, <1>4, Constants
<1> HIDE DEF n, r, d
<1>6. /\ rdata'[r] = [buf |-> mbuf, addr |-> n]
      /\ \A b \in Blocks : b # r => rdata'[b] = rdata[b]
      /\ bufs'[mbuf] = d
      /\ \A b \in Blocks : b # mbuf => bufs'[b] = bufs[b]
      /\ addrs'[n] = d.from
      /\ \A b \in Blocks : b # n => addrs'[b] = addrs[b]
  BY <1>1, <1>4 DEF UdpInv, MemoryOK
<1>7. \A b \in Blocks : rdata[b] # None =>
         b # r /\ rdata[b] \in [buf : Blocks, addr : Blocks] /\ rdata[b].buf # mbuf
  BY <1>4 DEF UdpInv, MemoryOK
<1>8. n \in Nat /\ n = Len(received) + 1
  BY CounterFacts DEF n
<1>9. CountsOK'
  BY <1>1, <1>2, <1>3, <1>8, CounterFacts DEF UdpInv, CountsOK, handler
<1>10. MemoryOK'
  <2>1. /\ rdata' \in [Blocks -> {None} \cup [buf : Blocks, addr : Blocks]]
        /\ bufs' \in [Blocks -> Datagrams \cup {None}]
        /\ addrs' \in [Blocks -> Peers \cup {None}]
    BY <1>1, <1>2, <1>4, <1>5 DEF UdpInv, MemoryOK
  <2>2. \A b \in Blocks :
          b > Len(received') => rdata'[b] = None /\ bufs'[b] = None /\ addrs'[b] = None
    <3>1. \A b \in Blocks : b > n =>
             b # r /\ b # mbuf /\ b # n /\ b > Len(received)
      BY <1>4, <1>8, CounterFacts
    <3> QED  BY <1>3, <1>6, <3>1 DEF UdpInv, MemoryOK
  <2>3. \A k \in 1..Len(received') : addrs'[k] = received'[k].from
    <3>1. SUFFICES ASSUME NEW k \in 1..n
                   PROVE  addrs'[k] = received'[k].from
      BY <1>3
    <3>2. CASE k = n
      BY <1>3, <1>6, <3>2
    <3>3. CASE k # n
      <4>1. k \in 1..Len(received) /\ k \in Blocks
        BY <1>4, <1>8, <3>3, CounterFacts
      <4> QED  BY <1>3, <1>6, <3>3, <4>1 DEF UdpInv, MemoryOK
    <3> QED  BY <3>2, <3>3
  <2>4. \A b \in Blocks : rdata'[b] # None => bufs'[rdata'[b].buf] # None
    <3>1. SUFFICES ASSUME NEW b \in Blocks, rdata'[b] # None
                   PROVE  bufs'[rdata'[b].buf] # None
      OBVIOUS
    <3>2. CASE b = r
      BY <1>5, <1>6, <3>2
    <3>3. CASE b # r
      <4>1. rdata'[b] = rdata[b] /\ rdata[b].buf # mbuf /\ rdata[b].buf \in Blocks
        BY <1>6, <1>7, <3>1, <3>3
      <4> QED  BY <1>6, <3>1, <4>1 DEF UdpInv, MemoryOK
    <3> QED  BY <3>2, <3>3
  <2>5. \A a, b \in Blocks :
          rdata'[a] # None /\ rdata'[b] # None /\ rdata'[a].buf = rdata'[b].buf => a = b
    <3>1. \A b \in Blocks \ {r} : rdata'[b] # None =>
             rdata'[b].buf # mbuf /\ rdata'[b] = rdata[b]
      BY <1>6, <1>7
    <3>2. rdata'[r].buf = mbuf
      BY <1>6
    <3>3. \A a, b \in Blocks \ {r} :
            rdata'[a] # None /\ rdata'[b] # None /\ rdata'[a].buf = rdata'[b].buf => a = b
      BY <3>1 DEF UdpInv, MemoryOK
    <3> QED  BY <3>1, <3>2, <3>3
  <2> QED  BY <1>1, <2>1, <2>2, <2>3, <2>4, <2>5 DEF MemoryOK
<1>11. \A b, k : k \in 1..Len(received) /\ Holds(b, k) =>
          /\ b \in Blocks /\ rdata'[b] # None /\ rdata'[b].addr = k
          /\ bufs'[rdata'[b].buf] = received'[k]
  <2>1. SUFFICES ASSUME NEW b, NEW k \in 1..Len(received), Holds(b, k)
                 PROVE  /\ b \in Blocks /\ rdata'[b] # None /\ rdata'[b].addr = k
                        /\ bufs'[rdata'[b].buf] = received'[k]
    OBVIOUS
  <2>2. b \in Blocks /\ rdata[b] # None /\ rdata[b].addr = k
        /\ bufs[rdata[b].buf] = received[k]
    BY <2>1 DEF Holds
  <2>3. rdata'[b] = rdata[b] /\ bufs'[rdata[b].buf] = bufs[rdata[b].buf]
    BY <1>6, <1>7, <2>2
  <2> QED  BY <1>3, <2>2, <2>3
<1>12. QueuedOK'
  <2>1. \A k \in tail..(head - 1) : k + 1 \in 1..Len(received)
    BY CounterFacts
  <2>2. cpc = "return" => tail \in 1..Len(received)
    <3>1. cpc = "return" => tail >= 1
      BY CounterFacts DEF UdpInv, QueuedOK, Holds, MemoryOK
    <3> QED  BY <3>1, CounterFacts
  <2>3. head + 1 = n
    BY <1>1, <1>8 DEF UdpInv, CountsOK
  <2>4. Holds(pitem, head + 1)'
    BY <1>1, <1>3, <1>4, <1>5, <1>6, <2>3 DEF Holds
  <2>5. \A k \in tail..(head - 1) : Holds(buffer[Slot(k)], k + 1)'
    BY <1>1, <1>11, <2>1 DEF UdpInv, QueuedOK, Holds
  <2>6. cpc = "return" => Holds(citem, tail)'
    BY <1>1, <1>11, <2>2 DEF UdpInv, QueuedOK, Holds
  <2> QED  BY <1>1, <2>4, <2>5, <2>6 DEF QueuedOK
<1>13. MadeOK'
  <2>1. \A k \in 1..Len(made) : k \in 1..Len(received)
    BY CounterFacts
  <2>2. hpc = "dma" => tail \in 1..Len(received)
    <3>1. hpc = "dma" => tail - 1 = Len(made)
      BY DEF UdpInv, MadeOK
    <3> QED  BY <3>1, CounterFacts
  <2> QED  BY <1>1, <1>3, <2>1, <2>2 DEF UdpInv, MadeOK, handler
<1>14. RepliesOK'
  <2>1. \A k \in 1..Len(made) : received'[k] = received[k]
    BY <1>3, CounterFacts
  <2> QED  BY <1>1, <2>1 DEF UdpInv, RepliesOK, AnswersReachSender
<1>15. DmaOK'
  BY <1>1 DEF UdpInv, DmaOK, DmaHeld
<1> QED  BY <1>9, <1>10, <1>12, <1>13, <1>14, <1>15 DEF UdpParts

(* A step of enqueue in main's loop. *)
LEMMA MainEnqueueStep ==
  ASSUME UdpInv, MainEnqueue
  PROVE  UdpParts'
<1>1. /\ mpc = "enqueue" /\ Enqueue
      /\ mpc' = (IF ppc = "store" THEN "poll" ELSE mpc)
      /\ UNCHANGED <<sock, mbuf, maddr, memory, handler, made, pending, dma, received, replies>>
  BY DEF MainEnqueue
<1>2. UNCHANGED <<tail, cpc, citem>>
  BY <1>1 DEF Enqueue, EnqueueRoom, EnqueueFull, EnqueueWrite, EnqueueStore, consumer
<1>3. MadeOK' /\ RepliesOK' /\ DmaOK'
  BY <1>1, <1>2 DEF UdpInv, MadeOK, RepliesOK, DmaOK, handler, AnswersReachSender, DmaHeld
<1>4. MemoryOK'
  BY <1>1 DEF UdpInv, MemoryOK, memory
<1>5. CASE EnqueueStore
  <2>1. ppc = "store" /\ ppc' = "idle" /\ head' = head + 1 /\ buffer' = buffer
    BY <1>5 DEF EnqueueStore
  <2>2. CountsOK'
    BY <1>1, <1>2, <2>1, CounterFacts DEF UdpInv, CountsOK, handler
  <2>3. \A n \in tail..head : Holds(buffer[Slot(n)], n + 1)
    <3>1. buffer[Slot(head)] = pitem
      BY <2>1 DEF UdpInv, QueueInv
    <3>2. Holds(buffer[Slot(head)], head + 1)
      BY <1>1, <3>1 DEF UdpInv, QueuedOK
    <3>3. \A n \in tail..head : n = head \/ n \in tail..(head - 1)
      BY CounterFacts
    <3> QED  BY <3>2, <3>3 DEF UdpInv, QueuedOK
  <2>4. QueuedOK'
    BY <1>1, <1>2, <2>1, <2>3, CounterFacts DEF UdpInv, QueuedOK, Holds, memory
  <2> QED  BY <1>3, <1>4, <2>2, <2>4 DEF UdpParts
<1>6. CASE EnqueueWrite \/ \E t \in ptail..tail : EnqueueRoom(t) \/ EnqueueFull(t)
  <2>1. ppc # "store" /\ ppc' # "idle" /\ UNCHANGED <<head, pitem>>
    BY <1>6 DEF EnqueueRoom, EnqueueFull, EnqueueWrite
  <2>2. CountsOK'
    BY <1>1, <1>2, <2>1 DEF UdpInv, CountsOK, handler
  <2>3. \A n \in tail..(head - 1) : buffer'[Slot(n)] = buffer[Slot(n)]
    <3>1. CASE EnqueueWrite
      <4>1. SUFFICES ASSUME NEW n \in tail..(head - 1)
                     PROVE  buffer'[Slot(n)] = buffer[Slot(n)]
        OBVIOUS
      <4>2. n \in Nat /\ n < head + Size /\ head < n + Size /\ n # head
        BY SizePositive DEF UdpInv, QueueInv, QueueTypeOK
      <4>3. Slot(n) # Slot(head) /\ Slot(n) \in 0..(Size - 1)
        BY <4>2, SlotInjective, SlotType, CounterFacts
      <4> QED  BY <3>1, <4>3 DEF UdpInv, QueueInv, QueueTypeOK, EnqueueWrite
    <3>2. CASE \E t \in ptail..tail : EnqueueRoom(t) \/ EnqueueFull(t)
      BY <3>2 DEF EnqueueRoom, EnqueueFull
    <3> QED  BY <1>6, <3>1, <3>2
  <2>4. QueuedOK'
    BY <1>1, <1>2, <2>1, <2>3 DEF UdpInv, QueuedOK, Holds, memory
  <2> QED  BY <1>3, <1>4, <2>2, <2>4 DEF UdpParts
<1> QED  BY <1>1, <1>5, <1>6 DEF Enqueue

(* A step of dequeue in the handler's loop. *)
LEMMA HandlerDequeueStep ==
  ASSUME UdpInv, HandlerDequeue
  PROVE  UdpParts'
<1>1. /\ hpc = "dequeue" /\ Dequeue
      /\ hpc' = (IF cpc = "store" THEN "parse" ELSE hpc)
      /\ UNCHANGED <<sock, main, memory, hreq, made, pending, dma, received, replies>>
  BY DEF HandlerDequeue
<1>2. UNCHANGED <<head, buffer, ppc, pitem>>
  BY <1>1 DEF Dequeue, DequeueReady, DequeueEmpty, DequeueRead, DequeueStore, producer
<1>3. MemoryOK' /\ RepliesOK' /\ DmaOK'
  BY <1>1 DEF UdpInv, MemoryOK, RepliesOK, DmaOK, main, memory, AnswersReachSender, DmaHeld
<1>4. CASE DequeueStore
  <2>1. cpc = "store" /\ cpc' = "return" /\ tail' = tail + 1 /\ citem' = citem
    BY <1>4 DEF DequeueStore
  <2>2. CountsOK'
    BY <1>1, <1>2, <2>1 DEF UdpInv, CountsOK, main
  <2>3. MadeOK'
    BY <1>1, <2>1, CounterFacts DEF UdpInv, MadeOK
  <2>4. Holds(citem, tail + 1)
    <3>1. citem = buffer[Slot(tail)] /\ tail \in tail..(head - 1)
      BY <2>1 DEF UdpInv, QueueInv, QueueTypeOK
    <3> QED  BY <3>1 DEF UdpInv, QueuedOK
  <2>5. QueuedOK'
    BY <1>1, <1>2, <2>1, <2>4, CounterFacts DEF UdpInv, QueuedOK, Holds, memory, main
  <2> QED  BY <1>3, <2>2, <2>3, <2>5 DEF UdpParts
<1>5. CASE DequeueRead \/ \E h \in chead..head : DequeueReady(h) \/ DequeueEmpty(h)
  <2>1. cpc # "store" /\ cpc' # "return" /\ tail' = tail
    BY <1>1, <1>5 DEF DequeueReady, DequeueEmpty, DequeueRead
  <2>2. CountsOK' /\ MadeOK'
    BY <1>1, <1>2, <2>1 DEF UdpInv, CountsOK, MadeOK, main
  <2>3. QueuedOK'
    BY <1>1, <1>2, <2>1 DEF UdpInv, QueuedOK, Holds, memory, main
  <2> QED  BY <1>3, <2>2, <2>3 DEF UdpParts
<1> QED  BY <1>1, <1>4, <1>5 DEF Dequeue

(* The n-th request is made of the n-th datagram. *)
LEMMA HandlerParseStep ==
  ASSUME UdpInv, HandlerParse
  PROVE  UdpParts'
<1>1. /\ hpc = "parse" /\ hpc' = "dma"
      /\ hreq' = Parsed(bufs[rdata[citem].buf], rdata[citem].addr)
      /\ UNCHANGED <<queueVars, sock, main, memory, made, pending, dma, received, replies>>
  BY DEF HandlerParse
<1>2. CountsOK' /\ MemoryOK' /\ QueuedOK' /\ RepliesOK' /\ DmaOK'
  BY <1>1 DEF UdpInv, CountsOK, MemoryOK, QueuedOK, RepliesOK, DmaOK, queueVars, main,
              memory, Holds, AnswersReachSender, DmaHeld
<1>3. hreq' = Parsed(received[tail], tail)
  BY <1>1 DEF UdpInv, CountsOK, QueuedOK, Holds
<1>4. MadeOK'
  BY <1>1, <1>3 DEF UdpInv, MadeOK, queueVars
<1> QED  BY <1>2, <1>4 DEF UdpParts

(* The buffers in use can be counted. *)
LEMMA PendingFinite == UdpInv => IsFiniteSet(DmaHeld)
<1> SUFFICES ASSUME UdpInv PROVE IsFiniteSet(DmaHeld)
  OBVIOUS
<1>1. IsFiniteSet(1..Len(made))
  BY CounterFacts, FS_Interval
<1>2. DmaHeld \in SUBSET (1..Len(made))
  BY DEF UdpInv, DmaOK, DmaHeld
<1> QED  BY <1>1, <1>2, FS_Subset

(* make_req, with a DMA buffer unless it is a delete. *)
LEMMA HandlerMakeStep ==
  ASSUME UdpInv, HandlerMake
  PROVE  UdpParts'
<1>1. /\ hpc = "dma" /\ hpc' = "free"
      /\ IF hreq.type < 3 THEN dma > 0 /\ dma' = dma - 1 ELSE UNCHANGED dma
      /\ made' = Append(made, Submitted(hreq))
      /\ pending' = pending \cup {Len(made')}
      /\ UNCHANGED <<queueVars, sock, main, memory, hreq, received, replies>>
  BY DEF HandlerMake
<1>2. CountsOK' /\ MemoryOK' /\ QueuedOK'
  BY <1>1 DEF UdpInv, CountsOK, MemoryOK, QueuedOK, queueVars, main, memory, Holds
<1>3. /\ Len(made) = tail - 1 /\ hreq = Parsed(received[tail], tail)
      /\ tail \in 1..Len(received) /\ tail \in Blocks
      /\ received[tail] \in Datagrams
  <2>1. Len(made) = tail - 1 /\ hreq = Parsed(received[tail], tail)
    BY <1>1 DEF UdpInv, MadeOK
  <2>2. tail \in 1..Len(received) /\ tail \in Blocks
    BY <2>1, CounterFacts
  <2> QED  BY <2>1, <2>2 DEF UdpInv, CountsOK
<1>4. Submitted(hreq) \in [addr : Blocks, target : 0..99, type : {1, 2, 3}, key : Nat] /\ Submitted(hreq).type = hreq.type
  BY <1>3, ParsedFields, SubmittedFields
<1>5. /\ made' \in Seq([addr : Blocks, target : 0..99, type : {1, 2, 3}, key : Nat])
      /\ Len(made') = tail /\ made'[tail] = Submitted(hreq)
      /\ \A k \in 1..Len(made) : made'[k] = made[k]
  BY <1>1, <1>3, <1>4, CounterFacts, AppendProperties DEF UdpInv, MadeOK
<1>6. MadeOK'
  <2>1. \A k \in 1..tail : k = tail \/ k \in 1..Len(made)
    BY <1>3, CounterFacts
  <2>2. \A k \in 1..tail : made'[k] = Submitted(Parsed(received[k], k))
    BY <1>3, <1>5, <2>1 DEF UdpInv, MadeOK
  <2>3. tail' = tail /\ received' = received
    BY <1>1 DEF queueVars
  <2> QED  BY <1>1, <1>5, <2>2, <2>3 DEF MadeOK
<1>7. RepliesOK'
  <2>1. \A k \in 1..Len(made) : k \in 1..Len(made')
    BY <1>3, <1>5, CounterFacts
  <2> QED  BY <1>1, <2>1 DEF UdpInv, RepliesOK, AnswersReachSender
<1>8. DmaOK'
  <2>1. /\ pending \subseteq 1..Len(made) /\ Len(made') = Len(made) + 1
        /\ \A k \in pending : made'[k] = made[k]
        /\ Len(made') \notin pending /\ made'[Len(made')].type = hreq.type
    BY <1>3, <1>4, <1>5, CounterFacts DEF UdpInv, DmaOK
  <2>2. IsFiniteSet(DmaHeld) /\ Cardinality(DmaHeld) \in Nat
    BY PendingFinite, FS_CardinalityType
  <2>3. pending' \subseteq 1..Len(made')
    <3>1. 1..Len(made) \subseteq 1..Len(made') /\ Len(made') \in 1..Len(made')
      BY <2>1, CounterFacts
    <3> HIDE DEF UdpInv
    <3> QED  BY <1>1, <2>1, <3>1, Zenon
  <2>4. CASE hreq.type < 3
    <3>1. DmaHeld' = DmaHeld \cup {Len(made')} /\ Len(made') \notin DmaHeld
      BY <1>1, <2>1, <2>4 DEF DmaHeld
    <3>2. Cardinality(DmaHeld') = Cardinality(DmaHeld) + 1
      BY <2>2, <3>1, FS_AddElement
    <3> QED  BY <1>1, <2>2, <2>3, <2>4, <3>2, Constants DEF UdpInv, DmaOK
  <2>5. CASE ~(hreq.type < 3)
    <3>1. DmaHeld' = DmaHeld
      BY <1>1, <2>1, <2>5 DEF DmaHeld
    <3> QED  BY <1>1, <2>3, <2>5, <3>1 DEF UdpInv, DmaOK
  <2> QED  BY <2>4, <2>5
<1> QED  BY <1>2, <1>6, <1>7, <1>8 DEF UdpParts

(* read_data and its buffer are freed; those of the datagrams that are     *)
(* still queued are other blocks, and the address stays.                   *)
LEMMA HandlerFreeStep ==
  ASSUME UdpInv, HandlerFree
  PROVE  UdpParts'
<1>1. /\ hpc = "free" /\ hpc' = "dequeue" /\ cpc = "return" /\ cpc' = "idle"
      /\ bufs' = [bufs EXCEPT ![rdata[citem].buf] = None]
      /\ rdata' = [rdata EXCEPT ![citem] = None]
      /\ UNCHANGED <<head, tail, buffer, ppc, pitem, sock, mpc, mbuf, maddr, addrs, made,
                     pending, dma, received, replies>>
  BY DEF HandlerFree, DequeueReturn, producer, main
<1>2. CountsOK' /\ MadeOK' /\ RepliesOK' /\ DmaOK'
  BY <1>1 DEF UdpInv, CountsOK, MadeOK, RepliesOK, DmaOK, AnswersReachSender, DmaHeld
<1>3. /\ citem \in Blocks /\ rdata[citem] # None /\ rdata[citem].addr = tail
      /\ rdata[citem].buf \in Blocks
  BY <1>1 DEF UdpInv, QueuedOK, Holds, MemoryOK
<1>4. /\ rdata'[citem] = None
      /\ \A b \in Blocks : b # citem => rdata'[b] = rdata[b]
      /\ bufs'[rdata[citem].buf] = None
      /\ \A b \in Blocks : b # rdata[citem].buf => bufs'[b] = bufs[b]
  BY <1>1, <1>3 DEF UdpInv, MemoryOK
<1>5. \A b \in Blocks : b # citem /\ rdata[b] # None =>
         /\ rdata'[b] = rdata[b] /\ rdata[b].buf \in Blocks
         /\ bufs'[rdata[b].buf] = bufs[rdata[b].buf]
  <2>1. SUFFICES ASSUME NEW b \in Blocks, b # citem, rdata[b] # None
                 PROVE  /\ rdata'[b] = rdata[b] /\ rdata[b].buf \in Blocks
                        /\ bufs'[rdata[b].buf] = bufs[rdata[b].buf]
    OBVIOUS
  <2>2. rdata[b].buf \in Blocks
    BY <2>1 DEF UdpInv, MemoryOK
  <2>3. rdata[b].buf # rdata[citem].buf
    BY <1>3, <2>1 DEF UdpInv, MemoryOK
  <2> QED  BY <1>4, <2>1, <2>2, <2>3
<1>6. MemoryOK'
  <2>1. /\ rdata' \in [Blocks -> {None} \cup [buf : Blocks, addr : Blocks]]
        /\ bufs' \in [Blocks -> Datagrams \cup {None}]
        /\ addrs' \in [Blocks -> Peers \cup {None}]
    BY <1>1, <1>3 DEF UdpInv, MemoryOK
  <2>2. \A b \in Blocks : /\ bufs[b] = None => bufs'[b] = None
                          /\ rdata[b] = None => rdata'[b] = None
    BY <1>4
  <2>3. \A b \in Blocks : rdata'[b] # None => bufs'[rdata'[b].buf] # None
    BY <1>4, <1>5 DEF UdpInv, MemoryOK
  <2>4. \A a, b \in Blocks :
          rdata'[a] # None /\ rdata'[b] # None /\ rdata'[a].buf = rdata'[b].buf => a = b
    BY <1>4 DEF UdpInv, MemoryOK
  <2>5. mpc = "recv" => mbuf \in Blocks
    <3>1. mpc = "recv" => Len(received) + 1 <= MaxArrivals
      BY CounterFacts, FreeBlocks DEF UdpInv, CountsOK
    <3> QED  BY <3>1, CounterFacts DEF UdpInv, MemoryOK
  <2>6. /\ \A b \in Blocks :
             b > Len(received') => rdata'[b] = None /\ bufs'[b] = None /\ addrs'[b] = None
        /\ \A n \in 1..Len(received') : addrs'[n] = received'[n].from
    BY <1>1, <2>2 DEF UdpInv, MemoryOK
  <2>7. mpc' = "recv" => /\ mbuf' \in 1..(Len(received') + 1)
                         /\ bufs'[mbuf'] = None
                         /\ maddr' = Len(received') + 1
    BY <1>1, <2>2, <2>5 DEF UdpInv, MemoryOK
  <2> QED  BY <2>1, <2>3, <2>4, <2>6, <2>7 DEF MemoryOK
<1>7. QueuedOK'
  <2>1. \A b, n : Holds(b, n) /\ n # tail => Holds(b, n)'
    BY <1>1, <1>3, <1>5 DEF Holds
  <2>2. \A n \in tail..(head - 1) : n + 1 # tail
    BY CounterFacts
  <2>3. head + 1 # tail
    BY CounterFacts
  <2>4. \A n \in tail..(head - 1) : Holds(buffer[Slot(n)], n + 1)'
    BY <1>1, <1>3, <1>5, <2>2 DEF UdpInv, QueuedOK, Holds
  <2>5. mpc = "enqueue" => Holds(pitem, head + 1)'
    BY <1>1, <1>3, <1>5, <2>3 DEF UdpInv, QueuedOK, Holds
  <2> QED  BY <1>1, <2>4, <2>5 DEF QueuedOK
<1> QED  BY <1>2, <1>6, <1>7 DEF UdpParts

(* The engine finishes the n-th request. *)
LEMMA EngineDoneStep ==
  ASSUME UdpInv, NEW n \in pending, EngineDone(n)
  PROVE  UdpParts'
<1> DEFINE answer == Answer(n)
<1>1. /\ pending' = pending \ {n}
      /\ dma' = IF made[n].type < 3 THEN dma + 1 ELSE dma
      /\ replies' = replies \cup {answer}
      /\ UNCHANGED <<queueVars, sock, main, memory, handler, made, received>>
  BY DEF EngineDone
<1>2. CountsOK' /\ MemoryOK' /\ QueuedOK' /\ MadeOK'
  BY <1>1 DEF UdpInv, CountsOK, MemoryOK, QueuedOK, MadeOK, queueVars, main, memory,
              handler, Holds
<1>3. /\ n \in 1..Len(made) /\ n \in 1..Len(received) /\ n \in Blocks
      /\ received[n] \in Datagrams /\ made[n] = Submitted(Parsed(received[n], n))
  <2>1. n \in 1..Len(made)
    BY DEF UdpInv, DmaOK
  <2>2. n \in 1..Len(received) /\ n \in Blocks
    BY <2>1, CounterFacts
  <2> QED  BY <2>1, <2>2 DEF UdpInv, CountsOK, MadeOK
<1>4. RepliesOK'
  <2>1. /\ answer.of = n
        /\ answer.to = received[n].from
        /\ answer.target = received[n].target % 100
        /\ answer.type = received[n].type
    BY <1>3, SubmittedFields DEF Answer, UdpInv, MemoryOK
  <2> HIDE DEF answer
  <2> QED  BY <1>1, <1>3, <2>1 DEF UdpInv, RepliesOK, AnswersReachSender
<1>5. DmaOK'
  <2>1. IsFiniteSet(DmaHeld) /\ Cardinality(DmaHeld) \in Nat
    BY PendingFinite, FS_CardinalityType
  <2>2. DmaHeld' = DmaHeld \ {n}
    BY <1>1 DEF DmaHeld
  <2>3. Cardinality(DmaHeld') = IF n \in DmaHeld THEN Cardinality(DmaHeld) - 1
                                ELSE Cardinality(DmaHeld)
    BY <2>1, <2>2, FS_RemoveElement
  <2>4. n \in DmaHeld <=> made[n].type < 3
    BY DEF DmaHeld
  <2> QED  BY <1>1, <2>1, <2>3, <2>4, Constants DEF UdpInv, DmaOK
<1> QED  BY <1>2, <1>4, <1>5 DEF UdpParts

-----------------------------------------------------------------------------
(* Theorems *)

(* The initial state: nothing received, nothing allocated. *)
LEMMA UdpInvInit == Init => UdpInv
<1> SUFFICES ASSUME Init PROVE UdpInv
  OBVIOUS
<1>1. QueueInv
  BY QueueInvInit DEF Init
<1>2. CountsOK /\ QueuedOK
  BY Constants DEF Init, QueueInit, CountsOK, QueuedOK
<1>3. MemoryOK
  BY Constants DEF Init, MemoryOK
<1>4. MadeOK
  BY DEF Init, QueueInit, MadeOK
<1>5. RepliesOK
  BY DEF Init, RepliesOK, AnswersReachSender
<1>6. DmaOK
  <2>1. DmaHeld = {}
    BY DEF Init, DmaHeld
  <2> QED  BY <2>1, Constants, FS_EmptySet DEF Init, DmaOK
<1> QED  BY <1>1, <1>2, <1>3, <1>4, <1>5, <1>6 DEF UdpInv

(* Every step of the program keeps the invariant. *)
LEMMA UdpInvStep == UdpInv /\ [Next]_vars => UdpInv'
<1> SUFFICES ASSUME UdpInv, [Next]_vars PROVE UdpInv'
  OBVIOUS
<1>1. QueueInv'
  BY RingStep, QueueInvStep DEF UdpInv
<1>2. UdpParts'
  <2>1. CASE UNCHANGED vars
    BY <2>1 DEF vars, queueVars, UdpInv, UdpParts, CountsOK, MemoryOK, QueuedOK, MadeOK,
                RepliesOK, DmaOK, Holds, AnswersReachSender, DmaHeld
  <2> QED  BY <2>1, ArriveStep, PollReadyStep, MainEndsStep, RecvStep, MainEnqueueStep,
              HandlerDequeueStep, HandlerParseStep, HandlerMakeStep, HandlerFreeStep,
              EngineDoneStep
           DEF Next, Main, Handler
<1> QED  BY <1>1, <1>2 DEF UdpInv, UdpParts

LEMMA UdpInvariant == Spec => []UdpInv
  BY UdpInvInit, UdpInvStep, PTL DEF Spec

(* The types of the program's state; in particular libmemio never counts   *)
(* more free DMA buffers than there are, and none is taken twice.          *)
THEOREM UdpTypeCorrect == Spec => []TypeOK
<1>1. UdpInv => TypeOK
  <2> SUFFICES ASSUME UdpInv PROVE TypeOK
    OBVIOUS
  <2>1. dma \in 0..Buffers
    <3>1. Cardinality(DmaHeld) \in Nat
      BY PendingFinite, FS_CardinalityType
    <3> QED  BY <3>1, Constants DEF UdpInv, DmaOK
  <2>2. pending \subseteq DOMAIN made
    BY DEF UdpInv, DmaOK, MadeOK
  <2> QED  BY <2>1, <2>2 DEF TypeOK, UdpInv, QueueInv, CountsOK, MemoryOK
<1> QED  BY <1>1, UdpInvariant, PTL

(* main and request_handler keep the ring's invariant. *)
THEOREM UdpQueueInv == Spec => []QueueInv
<1>1. UdpInv => QueueInv
  BY DEF UdpInv
<1> QED  BY <1>1, UdpInvariant, PTL

(* Between main and request_handler, req_q is a bounded FIFO. *)
THEOREM UdpImplementsFifo == Spec => ImplementsFifo
<1>1. Spec => QueueSpec
  <2>1. Init => QueueInit
    BY DEF Init
  <2>2. UdpInv /\ [Next]_vars => [QueueNext]_queueVars
    BY RingStep
  <2> QED  BY <2>1, <2>2, UdpInvariant, PTL DEF Spec, QueueSpec
<1> QED  BY <1>1, QueueImplementsFifo, PTL

(* Every request is made of the datagram received at its turn, with the    *)
(* type, the key (plus two) and the last two digits of the target that the *)
(* peer sent: neither the reuse of buffers, of read_data and of slots nor  *)
(* a datagram that arrives meanwhile can change it.                        *)
THEOREM UdpRequestsAsReceived == Spec => []RequestsAsReceived
<1>1. UdpInv => RequestsAsReceived
  <2> SUFFICES ASSUME UdpInv PROVE RequestsAsReceived
    OBVIOUS
  <2>1. Len(made) <= Len(received)
    BY CounterFacts
  <2>2. ASSUME NEW n \in DOMAIN made
        PROVE  /\ made[n].target = received[n].target % 100
               /\ made[n].type = received[n].type
               /\ made[n].key = received[n].key + 2
    <3>1. n \in 1..Len(made)
      BY DEF UdpInv, MadeOK
    <3>2. n \in 1..Len(received) /\ n \in Blocks
      BY <3>1, CounterFacts
    <3>3. received[n] \in Datagrams /\ made[n] = Submitted(Parsed(received[n], n))
      BY <3>1, <3>2 DEF UdpInv, CountsOK, MadeOK
    <3> QED  BY <3>2, <3>3, SubmittedFields
  <2> QED  BY <2>1, <2>2 DEF RequestsAsReceived
<1> QED  BY <1>1, UdpInvariant, PTL

(* Every answer goes to the address that its datagram came from, in        *)
(* whatever order the engine finishes, with the last two digits of that    *)
(* datagram's target.                                                      *)
THEOREM UdpAnswersReachSender == Spec => []AnswersReachSender
<1>1. UdpInv => AnswersReachSender
  BY DEF UdpInv, RepliesOK
<1> QED  BY <1>1, UdpInvariant, PTL

=============================================================================
