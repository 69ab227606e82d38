---------------------------- MODULE MpmcQueue_proofs ----------------------------
(***************************************************************************)
(* Proofs about MpmcQueue, for every set of threads and items, every bound *)
(* on the tickets, stale loads or not, and every size of two or more.      *)
(* (For size one most are false: the number that publishes an item is also *)
(* the next ticket, so a slot that holds an item looks free.)              *)
(***************************************************************************)
EXTENDS MpmcQueue, SequenceTheorems, TLAPS

-----------------------------------------------------------------------------
(* Slots.  Tickets less than a round apart share no slot, tickets one      *)
(* round apart do.                                                         *)

(* The part of the constructor's assertion that the proofs use. *)
LEMMA SizePositive == Size \in Nat \ {0}
  BY SizeAssumption, Zenon

(* Division with remainder, for the ticket arithmetic below. *)
LEMMA Division ==
  ASSUME NEW n \in Nat
  PROVE  /\ n = Size * (n \div Size) + (n % Size)
         /\ n \div Size \in Int
         /\ n % Size \in 0..(Size - 1)
  BY SizePositive, Z3T(20)

(* Multiples of Size with offsets r and q lie a round apart or are equal. *)
LEMMA SameMultiple ==
  ASSUME NEW x \in Int, NEW y \in Int, NEW r \in Int, NEW q \in Int, r = q,
         Size * x + r < Size * y + q + Size,
         Size * y + q < Size * x + r + Size
  PROVE  x = y
<1>1. Size \in Nat \ {0}
  BY SizePositive
<1>2. Size * (x - y) = Size * x - Size * y
  BY <1>1, Z3T(10)
<1>3. PICK d \in Int : d = x - y
  BY Z3
<1>4. Size * d < Size /\ -Size < Size * d
  BY <1>1, <1>2, <1>3, Z3T(10)
<1>5. CASE d >= 1
  <2>1. Size * d >= Size
    BY <1>1, <1>5, Z3T(10)
  <2> QED  BY <1>1, <1>4, <2>1, Z3T(10)
<1>6. CASE d <= -1
  <2>1. Size * d <= -Size
    BY <1>1, <1>6, Z3T(10)
  <2> QED  BY <1>1, <1>4, <2>1, Z3T(10)
<1>7. CASE d = 0
  BY <1>3, <1>7
<1> QED  BY <1>5, <1>6, <1>7

(* head_seq & _mask is an index of _buffer. *)
LEMMA SlotType ==
  ASSUME NEW n \in Nat
  PROVE  Slot(n) \in Slots
  BY Division DEF Slot, Slots

(* Two tickets of one window that share a slot are the same ticket. *)
LEMMA SlotInjective ==
  ASSUME NEW a \in Nat, NEW b \in Nat, Slot(a) = Slot(b),
         a < b + Size, b < a + Size
  PROVE  a = b
<1>1. a = Size * (a \div Size) + (a % Size) /\ a \div Size \in Int
  BY Division
<1>2. b = Size * (b \div Size) + (b % Size) /\ b \div Size \in Int
  BY Division
<1>3. a % Size \in Int /\ b % Size \in Int /\ a % Size = b % Size
  BY Division, SizePositive DEF Slot
<1>4. a \div Size = b \div Size
  BY <1>1, <1>2, <1>3, SameMultiple
<1> QED  BY <1>1, <1>2, <1>3, <1>4

(* A ticket and the one a round later share a slot. *)
LEMMA SlotNextRound ==
  ASSUME NEW n \in Nat
  PROVE  Slot(n + Size) = Slot(n)
<1>1. n + Size \in Nat /\ Size \in Nat \ {0}
  BY SizePositive
<1>2. PICK x \in Int, r \in 0..(Size - 1) :
         n + Size = Size * x + r /\ r = (n + Size) % Size
  BY <1>1, Division
<1>3. PICK y \in Int, q \in 0..(Size - 1) :
         n = Size * y + q /\ q = n % Size
  BY Division
<1>4. /\ Size * (y + 1) = Size * y + Size
      /\ Size * x \in Int
      /\ Size * y \in Int
  BY <1>1, Z3T(10)
<1>5. x = y + 1
  <2>1. /\ Size * x + 0 < Size * (y + 1) + 0 + Size
        /\ Size * (y + 1) + 0 < Size * x + 0 + Size
    BY <1>1, <1>2, <1>3, <1>4
  <2> QED  BY <2>1, SameMultiple, Z3T(10)
<1>6. r = q
  <2>1. n + Size = Size * x + r /\ n = Size * y + q
    BY <1>2, <1>3
  <2>2. PICK w \in Int : w = Size * y
    BY <1>4
  <2>3. Size * x = w + Size
    BY <1>4, <1>5, <2>2
  <2> QED  BY <1>1, <2>1, <2>2, <2>3
<1> QED  BY <1>2, <1>3, <1>6 DEF Slot

(* A load of seq returns no more than the present value. *)
LEMMA VisibleSeqBound ==
  ASSUME TypeOK, NEW i \in Slots, NEW s \in VisibleSeq(i)
  PROVE  s \in Nat /\ s <= seq[i]
  BY DEF TypeOK, VisibleSeq, Visible

(* A load of a counter returns a natural number. *)
LEMMA VisibleNat ==
  ASSUME NEW now \in Nat, NEW v \in Visible(now)
  PROVE  v \in Nat
  BY DEF Visible

-----------------------------------------------------------------------------
(* Types *)

(* A step keeps the types of the fields and of the threads' locals. *)
LEMMA TypeStep ==
  ASSUME TypeOK, [Next]_vars
  PROVE  TypeOK'
<1> USE DEF TypeOK
<1>0. Size \in Nat \ {0}
  BY SizePositive
<1>1. ASSUME NEW p \in Producers, NEW v \in Items, EnqueueCall(p, v)
      PROVE  TypeOK'
  BY <1>1, VisibleNat DEF EnqueueCall, shared, cvars
<1>2. ASSUME NEW p \in Producers,
             EnqueueFree(p) \/ EnqueueFull(p) \/ EnqueueStale(p)
      PROVE  TypeOK'
  BY <1>2 DEF EnqueueFree, EnqueueFull, EnqueueStale, shared, cvars
<1>3. ASSUME NEW p \in Producers, EnqueueReload(p) \/ EnqueueCasFails(p)
      PROVE  TypeOK'
  BY <1>3, VisibleNat DEF EnqueueReload, EnqueueCasFails, shared, cvars
<1>4. ASSUME NEW p \in Producers, EnqueueClaim(p)
      PROVE  TypeOK'
  BY <1>4 DEF EnqueueClaim, cvars
<1>5. ASSUME NEW p \in Producers, EnqueueWrite(p)
      PROVE  TypeOK'
  BY <1>5 DEF EnqueueWrite, cvars
<1>6. ASSUME NEW p \in Producers, EnqueuePublish(p)
      PROVE  TypeOK'
  <2>1. Published(head[p]) \in Nat
    BY DEF Published
  <2> QED  BY <1>6, <2>1 DEF EnqueuePublish, cvars
<1>7. ASSUME NEW c \in Consumers, DequeueCall(c)
      PROVE  TypeOK'
  BY <1>7, VisibleNat DEF DequeueCall, shared, pvars
<1>8. ASSUME NEW c \in Consumers,
             DequeueReady(c) \/ DequeueEmpty(c) \/ DequeueStale(c)
      PROVE  TypeOK'
  BY <1>8 DEF DequeueReady, DequeueEmpty, DequeueStale, shared, pvars
<1>9. ASSUME NEW c \in Consumers, DequeueReload(c) \/ DequeueCasFails(c)
      PROVE  TypeOK'
  BY <1>9, VisibleNat DEF DequeueReload, DequeueCasFails, shared, pvars
<1>10. ASSUME NEW c \in Consumers, DequeueClaim(c)
      PROVE  TypeOK'
  BY <1>10 DEF DequeueClaim, pvars
<1>11. ASSUME NEW c \in Consumers, DequeueRead(c)
      PROVE  TypeOK'
  <2>1. data[Slot(tail[c])] \in Items \cup {None}
    BY SlotType
  <2> QED  BY <1>11, <2>1 DEF DequeueRead, shared, pvars
<1>12. ASSUME NEW c \in Consumers, DequeueRelease(c)
      PROVE  TypeOK'
  <2>1. NextRound(tail[c]) \in Nat
    BY <1>0 DEF NextRound
  <2> QED  BY <1>12, <2>1 DEF DequeueRelease, pvars
<1>13. CASE UNCHANGED vars
  BY <1>13 DEF vars
<1> QED
  BY <1>1, <1>2, <1>3, <1>4, <1>5, <1>6, <1>7, <1>8, <1>9, <1>10, <1>11,
     <1>12, <1>13 DEF Next, Enqueue, Dequeue

(* The queue's fields and every thread's locals keep their types, whatever *)
(* the threads do.                                                         *)
THEOREM TypeCorrect == Spec => []TypeOK
<1>1. Init => TypeOK
  BY SizePositive DEF Init, TypeOK, Slots
<1>2. TypeOK /\ [Next]_vars => TypeOK'
  BY TypeStep
<1> QED  BY <1>1, <1>2, PTL DEF Spec

-----------------------------------------------------------------------------
(* The inductive invariant *)

(* Steps that touch only a thread's own locals, outside its ownership of a *)
(* slot, have only the thread's own conclusions to keep.                   *)
LEMMA LocalStep ==
  ASSUME Inv, TypeOK', UNCHANGED shared,
         Writers' = Writers, Readers' = Readers,
         \A p \in Writers : /\ head'[p] = head[p]
                            /\ arg'[p] = arg[p]
                            /\ ppc'[p] = ppc[p],
         \A c \in Readers : /\ tail'[c] = tail[c]
                            /\ out'[c] = out[c]
                            /\ cpc'[c] = cpc[c],
         CasOK', CallersOK'
  PROVE  Inv'
<1> USE DEF shared, Inv
<1>1. CountersOK'
  BY DEF CountersOK
<1>2. WritersOK'
  BY DEF WritersOK
<1>3. ReadersOK'
  BY DEF ReadersOK
<1>4. QueuedOK'
  BY DEF QueuedOK
<1>5. FreeOK'
  BY DEF FreeOK
<1> QED  BY <1>1, <1>2, <1>3, <1>4, <1>5

(* enqueue up to its compare_exchange, which claims nothing yet *)
LEMMA EnqueueLocal ==
  ASSUME Inv, TypeOK', NEW p \in Producers,
         \/ \E v \in Items : EnqueueCall(p, v)
         \/ EnqueueFree(p) \/ EnqueueFull(p) \/ EnqueueStale(p)
         \/ EnqueueReload(p) \/ EnqueueCasFails(p)
  PROVE  Inv'
<1> USE DEF Inv
<1>1. /\ UNCHANGED shared
      /\ UNCHANGED cvars
      /\ p \notin Writers
      /\ ppc'[p] \in {"idle", "seq", "cas", "reload"}
      /\ \A q \in Producers \ {p} : /\ ppc'[q] = ppc[q]
                                    /\ head'[q] = head[q]
                                    /\ arg'[q] = arg[q]
  BY DEF TypeOK, EnqueueCall, EnqueueFree, EnqueueFull, EnqueueStale,
         EnqueueReload, EnqueueCasFails, Writers
<1>2. Writers' = Writers /\ Readers' = Readers
  BY <1>1 DEF Writers, Readers, cvars
<1>3. CasOK'
  <2>1. ppc'[p] = "cas" => seq[Slot(head'[p])] >= head'[p]
    <3>1. SUFFICES ASSUME ppc'[p] = "cas"
                   PROVE  seq[Slot(head'[p])] >= head'[p]
      OBVIOUS
    <3>2. EnqueueFree(p) /\ head' = head
      BY <3>1 DEF TypeOK, EnqueueCall, EnqueueFree, EnqueueFull, EnqueueStale,
                  EnqueueReload, EnqueueCasFails
    <3>3. head[p] \in Nat /\ Slot(head[p]) \in Slots
      BY SlotType DEF TypeOK
    <3>4. PICK s \in VisibleSeq(Slot(head[p])) : s - head[p] = 0
      BY <3>2 DEF EnqueueFree
    <3>5. s \in Nat /\ s <= seq[Slot(head[p])]
      BY <3>3, VisibleSeqBound
    <3> QED  BY <3>2, <3>3, <3>4, <3>5 DEF TypeOK
  <2> QED  BY <1>1, <2>1 DEF CasOK, shared, cvars
<1>4. CallersOK'
  <2>1. arg'[p] \in Items \/ ppc'[p] = "idle"
    BY DEF TypeOK, CallersOK, EnqueueCall, EnqueueFree, EnqueueFull,
           EnqueueStale, EnqueueReload, EnqueueCasFails
  <2> QED  BY <1>1, <2>1 DEF CallersOK
<1>5. \A q \in Writers : q \in Producers \ {p}
  BY <1>1 DEF Writers
<1> QED  BY <1>1, <1>2, <1>3, <1>4, <1>5, LocalStep DEF cvars

(* dequeue up to its compare_exchange *)
LEMMA DequeueLocal ==
  ASSUME Inv, TypeOK', NEW c \in Consumers,
         \/ DequeueCall(c)
         \/ DequeueReady(c) \/ DequeueEmpty(c) \/ DequeueStale(c)
         \/ DequeueReload(c) \/ DequeueCasFails(c)
  PROVE  Inv'
<1> USE DEF Inv
<1>1. /\ UNCHANGED shared
      /\ UNCHANGED pvars
      /\ c \notin Readers
      /\ cpc'[c] \in {"idle", "seq", "cas", "reload"}
      /\ \A d \in Consumers \ {c} : /\ cpc'[d] = cpc[d]
                                    /\ tail'[d] = tail[d]
                                    /\ out'[d] = out[d]
  BY DEF TypeOK, DequeueCall, DequeueReady, DequeueEmpty, DequeueStale,
         DequeueReload, DequeueCasFails, Readers
<1>2. Writers' = Writers /\ Readers' = Readers
  BY <1>1 DEF Writers, Readers, pvars
<1>3. CasOK'
  <2>1. cpc'[c] = "cas" => seq[Slot(tail'[c])] >= tail'[c] + 1
    <3>1. SUFFICES ASSUME cpc'[c] = "cas"
                   PROVE  seq[Slot(tail'[c])] >= tail'[c] + 1
      OBVIOUS
    <3>2. DequeueReady(c) /\ tail' = tail
      BY <3>1 DEF TypeOK, DequeueCall, DequeueReady, DequeueEmpty,
                  DequeueStale, DequeueReload, DequeueCasFails
    <3>3. tail[c] \in Nat /\ Slot(tail[c]) \in Slots
      BY SlotType DEF TypeOK
    <3>4. PICK s \in VisibleSeq(Slot(tail[c])) : s - (tail[c] + 1) = 0
      BY <3>2 DEF DequeueReady
    <3>5. s \in Nat /\ s <= seq[Slot(tail[c])]
      BY <3>3, VisibleSeqBound
    <3> QED  BY <3>2, <3>3, <3>4, <3>5 DEF TypeOK
  <2> QED  BY <1>1, <2>1 DEF CasOK, shared, pvars
<1>4. CallersOK'
  BY <1>1 DEF CallersOK, pvars
<1>5. \A d \in Readers : d \in Consumers \ {c}
  BY <1>1 DEF Readers
<1> QED  BY <1>1, <1>2, <1>3, <1>4, <1>5, LocalStep DEF pvars

(* The slot that a successful compare_exchange on _head_seq claims is      *)
(* free, although the seq that it was judged by may be stale.              *)
LEMMA ClaimFindsFreeSlot ==
  ASSUME Inv, Size >= 2, NEW p \in Producers, ppc[p] = "cas", head[p] = headSeq
  PROVE  headSeq < tailSeq + Size /\ seq[Slot(headSeq)] = headSeq
<1> USE DEF Inv
<1>1. headSeq \in Nat /\ tailSeq \in Nat /\ Size \in Nat
  BY SizePositive DEF TypeOK
<1>2. seq[Slot(headSeq)] >= headSeq
  BY DEF CasOK
<1>3. headSeq < tailSeq + Size
  <2>1. SUFFICES ASSUME headSeq = tailSeq + Size PROVE FALSE
    BY <1>1 DEF CountersOK
  <2>2. Slot(headSeq) = Slot(tailSeq)
    BY <1>1, <2>1, SlotNextRound
  <2>3. seq[Slot(tailSeq)] \in {tailSeq, tailSeq + 1}
    BY <1>1, <2>1 DEF QueuedOK
  <2> QED  BY <1>1, <1>2, <2>1, <2>2, <2>3
<1>4. seq[Slot(headSeq)] = headSeq \/ seq[Slot(headSeq)] = headSeq - Size + 1
  BY <1>1, <1>3 DEF FreeOK
<1> QED  BY <1>1, <1>2, <1>3, <1>4

(* compare_exchange on _head_seq *)
LEMMA ClaimStep ==
  ASSUME Inv, TypeOK', Size >= 2, NEW p \in Producers, EnqueueClaim(p)
  PROVE  Inv'
<1> USE DEF Inv
<1>1. headSeq \in Nat /\ tailSeq \in Nat /\ Size \in Nat
  BY SizePositive DEF TypeOK
<1>2. /\ ppc[p] = "cas"
      /\ head[p] = headSeq
      /\ headSeq' = headSeq + 1
      /\ p \notin Writers
      /\ ppc'[p] = "write"
      /\ \A q \in Producers \ {p} : ppc'[q] = ppc[q]
      /\ UNCHANGED <<tailSeq, seq, data, head, arg, cpc, tail, out>>
  BY DEF TypeOK, EnqueueClaim, Writers, cvars
<1>3. Writers' = Writers \cup {p} /\ Readers' = Readers
  BY <1>2 DEF Writers, Readers
<1>4. headSeq < tailSeq + Size /\ seq[Slot(headSeq)] = headSeq
  BY <1>2, ClaimFindsFreeSlot
<1>5. CountersOK'
  BY <1>1, <1>2, <1>4 DEF CountersOK
<1>6. WritersOK'
  <2>1. \A q \in Writers : head[q] # headSeq /\ head[q] \in Nat
    BY <1>1 DEF WritersOK, Writers, TypeOK
  <2>2. \A q \in Writers : ppc'[q] = ppc[q]
    BY <1>2 DEF Writers
  <2>3. arg[p] \in Items
    BY <1>2 DEF CallersOK
  <2> QED  BY <1>1, <1>2, <1>3, <1>4, <2>1, <2>2, <2>3
           DEF WritersOK, CountersOK
<1>7. ReadersOK'
  <2>1. \A c \in Readers : tail[c] \in Nat /\ headSeq # tail[c] + Size
    <3>1. SUFFICES ASSUME NEW c \in Readers, headSeq = tail[c] + Size
                   PROVE  FALSE
      BY DEF Readers, TypeOK
    <3>2. tail[c] \in Nat
      BY DEF Readers, TypeOK
    <3>3. Slot(headSeq) = Slot(tail[c])
      BY <3>1, <3>2, SlotNextRound
    <3>4. seq[Slot(tail[c])] = tail[c] + 1
      BY DEF ReadersOK
    <3> QED  BY <1>1, <1>4, <3>1, <3>2, <3>3, <3>4
  <2> QED  BY <1>1, <1>2, <1>3, <2>1 DEF ReadersOK
<1>8. QueuedOK'
  BY <1>1, <1>2, <1>3, <1>4 DEF QueuedOK
<1>9. FreeOK'
  BY <1>1, <1>2, <1>3 DEF FreeOK
<1>10. CasOK'
  BY <1>2 DEF CasOK
<1>11. CallersOK'
  BY <1>2 DEF CallersOK
<1> QED  BY <1>5, <1>6, <1>7, <1>8, <1>9, <1>10, <1>11

(* No two tickets of the window that are owned, queued or free share a     *)
(* slot with the slot of writer p, except its own ticket.                  *)
LEMMA WriterSlot ==
  ASSUME Inv, NEW p \in Writers
  PROVE  /\ head[p] \in Nat
         /\ Slot(head[p]) \in Slots
         /\ \A n \in tailSeq..(tailSeq + Size - 1) :
               n # head[p] => Slot(n) # Slot(head[p])
         /\ \A q \in Writers : q # p => Slot(head[q]) # Slot(head[p])
         /\ \A c \in Readers : Slot(tail[c]) # Slot(head[p])
<1> USE DEF Inv
<1>1. headSeq \in Nat /\ tailSeq \in Nat /\ Size \in Nat \ {0}
  BY SizePositive DEF TypeOK
<1>2. /\ head[p] \in Nat
      /\ head[p] \in tailSeq..(tailSeq + Size - 1)
      /\ head[p] < headSeq
  BY <1>1 DEF WritersOK, CountersOK, Writers, TypeOK
<1>3. \A n \in tailSeq..(tailSeq + Size - 1) :
         n # head[p] => Slot(n) # Slot(head[p])
  BY <1>1, <1>2, SlotInjective
<1>4. \A q \in Writers : q # p => Slot(head[q]) # Slot(head[p])
  <2>1. SUFFICES ASSUME NEW q \in Writers, q # p
                 PROVE  Slot(head[q]) # Slot(head[p])
    OBVIOUS
  <2>2. head[q] \in tailSeq..(tailSeq + Size - 1) /\ head[q] # head[p]
    BY <1>1, <2>1 DEF WritersOK, CountersOK, Writers, TypeOK
  <2> QED  BY <1>3, <2>2
<1>5. \A c \in Readers : Slot(tail[c]) # Slot(head[p])
  <2>1. SUFFICES ASSUME NEW c \in Readers
                 PROVE  Slot(tail[c]) # Slot(head[p])
    OBVIOUS
  <2>2. /\ tail[c] \in Nat
        /\ tail[c] + Size \in tailSeq..(tailSeq + Size - 1)
        /\ tail[c] + Size # head[p]
    BY <1>1, <1>2 DEF ReadersOK, CountersOK, Readers, TypeOK
  <2>3. Slot(tail[c] + Size) # Slot(head[p])
    BY <1>3, <2>2
  <2> QED  BY <2>2, <2>3, SlotNextRound
<1> QED  BY <1>2, <1>3, <1>4, <1>5, SlotType

(* node->data = data *)
LEMMA WriteStep ==
  ASSUME Inv, TypeOK', NEW p \in Producers, EnqueueWrite(p)
  PROVE  Inv'
<1> USE DEF Inv
<1>1. /\ ppc[p] = "write"
      /\ p \in Writers
      /\ ppc'[p] = "publish"
      /\ \A q \in Producers \ {p} : ppc'[q] = ppc[q]
      /\ data' = [data EXCEPT ![Slot(head[p])] = arg[p]]
      /\ UNCHANGED <<headSeq, tailSeq, seq, head, arg, cpc, tail, out>>
  BY DEF TypeOK, EnqueueWrite, Writers, cvars
<1>2. Writers' = Writers /\ Readers' = Readers
  BY <1>1 DEF Writers, Readers
<1>3. /\ data'[Slot(head[p])] = arg[p]
      /\ \A i \in Slots : i # Slot(head[p]) => data'[i] = data[i]
  BY <1>1, WriterSlot DEF TypeOK
<1>4. arg[p] \in Items /\ seq[Slot(head[p])] = head[p]
  BY <1>1 DEF WritersOK
<1>5. CountersOK'
  BY <1>1 DEF CountersOK
<1>6. WritersOK'
  <2>1. \A q \in Writers : /\ q \in Producers
                           /\ Slot(head[q]) \in Slots
                           /\ q # p => Slot(head[q]) # Slot(head[p])
    BY <1>1, WriterSlot DEF Writers
  <2>2. \A q \in Writers : ppc'[q] = "publish" => data'[Slot(head[q])] = arg[q]
    BY <1>1, <1>3, <2>1 DEF WritersOK
  <2> QED  BY <1>1, <1>2, <2>2 DEF WritersOK
<1>7. ReadersOK'
  <2>1. \A c \in Readers : data'[Slot(tail[c])] = data[Slot(tail[c])]
    BY <1>1, <1>3, WriterSlot, SlotType DEF Readers, TypeOK
  <2> QED  BY <1>1, <1>2, <2>1 DEF ReadersOK
<1>8. QueuedOK'
  <2>1. SUFFICES ASSUME NEW n \in tailSeq..(headSeq - 1)
                 PROVE  \/ seq[Slot(n)] = n + 1 /\ data'[Slot(n)] \in Items
                        \/ seq[Slot(n)] = n /\ \E q \in Writers : head[q] = n
    BY <1>1, <1>2 DEF QueuedOK
  <2>2. n \in Nat /\ Slot(n) \in Slots
    BY SlotType DEF TypeOK
  <2>3. CASE Slot(n) = Slot(head[p])
    BY <1>3, <1>4, <2>2, <2>3 DEF QueuedOK
  <2>4. CASE Slot(n) # Slot(head[p])
    BY <1>3, <2>2, <2>4 DEF QueuedOK
  <2> QED  BY <2>3, <2>4
<1>9. FreeOK' /\ CasOK' /\ CallersOK'
  BY <1>1, <1>2 DEF FreeOK, CasOK, CallersOK
<1> QED  BY <1>5, <1>6, <1>7, <1>8, <1>9

(* node->seq.store(head_seq + 1) *)
LEMMA PublishStep ==
  ASSUME Inv, TypeOK', NEW p \in Producers, EnqueuePublish(p)
  PROVE  Inv'
<1> USE DEF Inv
<1>0. headSeq \in Nat /\ tailSeq \in Nat /\ Size \in Nat \ {0}
  BY SizePositive DEF TypeOK
<1>1. /\ ppc[p] = "publish"
      /\ p \in Writers
      /\ ppc'[p] = "idle"
      /\ \A q \in Producers \ {p} : ppc'[q] = ppc[q]
      /\ seq' = [seq EXCEPT ![Slot(head[p])] = head[p] + 1]
      /\ UNCHANGED <<headSeq, tailSeq, data, head, arg, cpc, tail, out>>
  BY DEF TypeOK, EnqueuePublish, Published, Writers, cvars
<1>2. Writers' = Writers \ {p} /\ Readers' = Readers
  BY <1>1 DEF Writers, Readers
<1>3. /\ head[p] \in Nat
      /\ seq'[Slot(head[p])] = head[p] + 1
      /\ \A i \in Slots : i # Slot(head[p]) => seq'[i] = seq[i]
  BY <1>1, WriterSlot DEF TypeOK
<1>4. /\ seq[Slot(head[p])] = head[p]
      /\ head[p] \in tailSeq..(headSeq - 1)
      /\ data[Slot(head[p])] = arg[p]
      /\ arg[p] \in Items
  BY <1>0, <1>1, <1>3 DEF WritersOK
<1>5. CountersOK'
  BY <1>1 DEF CountersOK
<1>6. WritersOK'
  <2>1. \A q \in Writers \ {p} : seq'[Slot(head[q])] = seq[Slot(head[q])]
    BY <1>1, <1>3, WriterSlot
  <2>2. \A q \in Writers \ {p} : ppc'[q] = ppc[q]
    BY <1>1 DEF Writers
  <2> QED  BY <1>1, <1>2, <2>1, <2>2 DEF WritersOK
<1>7. ReadersOK'
  <2>1. \A c \in Readers : seq'[Slot(tail[c])] = seq[Slot(tail[c])]
    BY <1>1, <1>3, WriterSlot, SlotType DEF Readers, TypeOK
  <2> QED  BY <1>1, <1>2, <2>1 DEF ReadersOK
<1>8. QueuedOK'
  <2>1. SUFFICES ASSUME NEW n \in tailSeq..(headSeq - 1)
                 PROVE  \/ seq'[Slot(n)] = n + 1 /\ data[Slot(n)] \in Items
                        \/ /\ seq'[Slot(n)] = n
                           /\ \E q \in Writers \ {p} : head[q] = n
    BY <1>1, <1>2 DEF QueuedOK
  <2>2. CASE n = head[p]
    BY <1>3, <1>4, <2>2
  <2>3. CASE n # head[p]
    <3>1. Slot(n) # Slot(head[p]) /\ Slot(n) \in Slots
      <4>1. n \in tailSeq..(tailSeq + Size - 1) /\ n \in Nat
        BY <1>0 DEF CountersOK
      <4> QED  BY <1>1, <2>3, <4>1, WriterSlot, SlotType
    <3>2. seq'[Slot(n)] = seq[Slot(n)]
      BY <1>3, <3>1
    <3> QED  BY <2>3, <3>2 DEF QueuedOK
  <2> QED  BY <2>2, <2>3
<1>9. FreeOK'
  <2>1. \A n \in headSeq..(tailSeq + Size - 1) : seq'[Slot(n)] = seq[Slot(n)]
    <3>1. SUFFICES ASSUME NEW n \in headSeq..(tailSeq + Size - 1)
                   PROVE  seq'[Slot(n)] = seq[Slot(n)]
      OBVIOUS
    <3>2. n \in tailSeq..(tailSeq + Size - 1) /\ n # head[p] /\ n \in Nat
      BY <1>0, <1>4 DEF CountersOK
    <3>3. Slot(n) # Slot(head[p]) /\ Slot(n) \in Slots
      BY <1>1, <3>2, WriterSlot, SlotType
    <3> QED  BY <1>3, <3>3
  <2> QED  BY <1>1, <1>2, <2>1 DEF FreeOK
<1>10. CasOK'
  <2>1. \A i \in Slots : seq'[i] >= seq[i] /\ seq'[i] \in Nat /\ seq[i] \in Nat
    BY <1>3, <1>4 DEF TypeOK
  <2>2. \A q \in Producers :
           head[q] \in Nat /\ Slot(head[q]) \in Slots
    BY SlotType DEF TypeOK
  <2>3. \A c \in Consumers :
           tail[c] \in Nat /\ Slot(tail[c]) \in Slots
    BY SlotType DEF TypeOK
  <2>4. \A q \in Producers : ppc'[q] = "cas" => ppc[q] = "cas"
    BY <1>1
  <2> QED  BY <1>1, <2>1, <2>2, <2>3, <2>4 DEF CasOK
<1>11. CallersOK'
  BY <1>1 DEF CallersOK
<1> QED  BY <1>5, <1>6, <1>7, <1>8, <1>9, <1>10, <1>11

(* What a successful compare_exchange on _tail_seq claims is a published   *)
(* ticket.                                                                 *)
LEMMA ClaimFindsPublishedTicket ==
  ASSUME Inv, NEW c \in Consumers, cpc[c] = "cas", tail[c] = tailSeq
  PROVE  /\ tailSeq < headSeq
         /\ seq[Slot(tailSeq)] = tailSeq + 1
         /\ data[Slot(tailSeq)] \in Items
<1> USE DEF Inv
<1>1. headSeq \in Nat /\ tailSeq \in Nat /\ Size \in Nat \ {0}
  BY SizePositive DEF TypeOK
<1>2. seq[Slot(tailSeq)] >= tailSeq + 1
  BY DEF CasOK
<1>3. tailSeq < headSeq
  <2>1. SUFFICES ASSUME headSeq = tailSeq PROVE FALSE
    BY <1>1 DEF CountersOK
  <2>2. seq[Slot(tailSeq)] \in {tailSeq, tailSeq - Size + 1}
    BY <1>1, <2>1 DEF FreeOK
  <2> QED  BY <1>1, <1>2, <2>2
<1>4. tailSeq \in tailSeq..(headSeq - 1)
  BY <1>1, <1>3
<1>5. \/ seq[Slot(tailSeq)] = tailSeq + 1 /\ data[Slot(tailSeq)] \in Items
      \/ seq[Slot(tailSeq)] = tailSeq
  BY <1>4 DEF QueuedOK
<1> QED  BY <1>1, <1>2, <1>3, <1>5

(* compare_exchange on _tail_seq *)
LEMMA TakeStep ==
  ASSUME Inv, TypeOK', NEW c \in Consumers, DequeueClaim(c)
  PROVE  Inv'
<1> USE DEF Inv
<1>1. headSeq \in Nat /\ tailSeq \in Nat /\ Size \in Nat \ {0}
  BY SizePositive DEF TypeOK
<1>2. /\ cpc[c] = "cas"
      /\ tail[c] = tailSeq
      /\ tailSeq' = tailSeq + 1
      /\ c \notin Readers
      /\ cpc'[c] = "read"
      /\ \A d \in Consumers \ {c} : cpc'[d] = cpc[d]
      /\ UNCHANGED <<headSeq, seq, data, tail, out, ppc, head, arg>>
  BY DEF TypeOK, DequeueClaim, Readers, pvars
<1>3. Readers' = Readers \cup {c} /\ Writers' = Writers
  BY <1>2 DEF Writers, Readers
<1>4. /\ tailSeq < headSeq
      /\ seq[Slot(tailSeq)] = tailSeq + 1
      /\ data[Slot(tailSeq)] \in Items
  BY <1>2, ClaimFindsPublishedTicket
<1>5. CountersOK'
  BY <1>1, <1>2, <1>4 DEF CountersOK
<1>6. WritersOK'
  <2>1. \A p \in Writers : head[p] \in Nat /\ head[p] # tailSeq
    BY <1>1, <1>4 DEF WritersOK, Writers, TypeOK
  <2> QED  BY <1>1, <1>2, <1>3, <2>1 DEF WritersOK
<1>7. ReadersOK'
  <2>1. \A d \in Readers : /\ tail[d] \in Nat
                           /\ tail[d] # tailSeq
                           /\ cpc'[d] = cpc[d]
    BY <1>1, <1>2 DEF ReadersOK, Readers, TypeOK
  <2> QED  BY <1>1, <1>2, <1>3, <1>4, <2>1 DEF ReadersOK, CountersOK
<1>8. QueuedOK'
  BY <1>1, <1>2, <1>3 DEF QueuedOK
<1>9. FreeOK'
  <2>1. SUFFICES ASSUME NEW n \in headSeq..(tailSeq + Size)
                 PROVE  \/ seq[Slot(n)] = n
                        \/ /\ seq[Slot(n)] = n - Size + 1
                           /\ \E d \in Readers \cup {c} : tail[d] = n - Size
    BY <1>1, <1>2, <1>3 DEF FreeOK
  <2>2. CASE n = tailSeq + Size
    <3>1. Slot(n) = Slot(tailSeq)
      BY <1>1, <2>2, SlotNextRound
    <3> QED  BY <1>1, <1>2, <1>4, <2>2, <3>1
  <2>3. CASE n # tailSeq + Size
    <3>1. n \in headSeq..(tailSeq + Size - 1)
      BY <1>1, <2>3
    <3> QED  BY <3>1 DEF FreeOK
  <2> QED  BY <2>2, <2>3
<1>10. CasOK' /\ CallersOK'
  BY <1>2 DEF CasOK, CallersOK
<1> QED  BY <1>5, <1>6, <1>7, <1>8, <1>9, <1>10

(* *data = node->data *)
LEMMA ReadStep ==
  ASSUME Inv, TypeOK', NEW c \in Consumers, DequeueRead(c)
  PROVE  Inv'
<1> USE DEF Inv
<1>1. /\ cpc[c] = "read"
      /\ c \in Readers
      /\ cpc'[c] = "release"
      /\ out'[c] = data[Slot(tail[c])]
      /\ \A d \in Consumers \ {c} : cpc'[d] = cpc[d] /\ out'[d] = out[d]
      /\ UNCHANGED <<headSeq, tailSeq, seq, data, tail, ppc, head, arg>>
  BY DEF TypeOK, DequeueRead, Readers, shared, pvars
<1>2. Writers' = Writers /\ Readers' = Readers
  BY <1>1 DEF Writers, Readers
<1>3. ReadersOK'
  <2>1. \A d \in Readers : d \in Consumers
    BY DEF Readers
  <2> QED  BY <1>1, <1>2, <2>1 DEF ReadersOK
<1>4. CountersOK' /\ WritersOK' /\ QueuedOK' /\ FreeOK' /\ CasOK' /\ CallersOK'
  BY <1>1, <1>2 DEF CountersOK, WritersOK, QueuedOK, FreeOK, CasOK, CallersOK
<1> QED  BY <1>3, <1>4

(* node->seq.store(tail_seq + _mask + 1) *)
LEMMA ReleaseStep ==
  ASSUME Inv, TypeOK', NEW c \in Consumers, DequeueRelease(c)
  PROVE  Inv'
<1> USE DEF Inv
<1>0. headSeq \in Nat /\ tailSeq \in Nat /\ Size \in Nat \ {0}
  BY SizePositive DEF TypeOK
<1>1. /\ cpc[c] = "release"
      /\ c \in Readers
      /\ tail[c] \in Nat
      /\ cpc'[c] = "idle"
      /\ \A d \in Consumers \ {c} : cpc'[d] = cpc[d]
      /\ seq' = [seq EXCEPT ![Slot(tail[c])] = NextRound(tail[c])]
      /\ UNCHANGED <<headSeq, tailSeq, data, tail, out, ppc, head, arg>>
  BY DEF TypeOK, DequeueRelease, Readers, pvars
<1>2. Readers' = Readers \ {c} /\ Writers' = Writers
  BY <1>1 DEF Writers, Readers
<1>3. PICK m \in Nat : m = tail[c] + Size
  BY <1>0, <1>1
<1>4. NextRound(tail[c]) = m
  BY <1>0, <1>1, <1>3 DEF NextRound
<1>5. Slot(m) = Slot(tail[c]) /\ Slot(m) \in Slots
  BY <1>1, <1>3, SlotNextRound, SlotType
<1>6. /\ m \in headSeq..(tailSeq + Size - 1)
      /\ m \in tailSeq..(tailSeq + Size - 1)
      /\ seq[Slot(m)] = m - Size + 1
  BY <1>0, <1>1, <1>3, <1>5 DEF ReadersOK, CountersOK
<1>7. /\ seq'[Slot(m)] = m
      /\ \A i \in Slots : i # Slot(m) => seq'[i] = seq[i]
  BY <1>1, <1>4, <1>5 DEF TypeOK
<1>8. \A n \in tailSeq..(tailSeq + Size - 1) :
         n # m => seq'[Slot(n)] = seq[Slot(n)]
  <2>1. SUFFICES ASSUME NEW n \in tailSeq..(tailSeq + Size - 1), n # m
                 PROVE  seq'[Slot(n)] = seq[Slot(n)]
    OBVIOUS
  <2>2. Slot(n) # Slot(m) /\ Slot(n) \in Slots
    BY <1>0, <1>6, <2>1, SlotInjective, SlotType
  <2> QED  BY <1>7, <2>2
<1>9. CountersOK'
  BY <1>1 DEF CountersOK
<1>10. WritersOK'
  <2>1. \A p \in Writers : seq'[Slot(head[p])] = seq[Slot(head[p])]
    <3>1. SUFFICES ASSUME NEW p \in Writers
                   PROVE  seq'[Slot(head[p])] = seq[Slot(head[p])]
      OBVIOUS
    <3>2. /\ head[p] \in tailSeq..(tailSeq + Size - 1)
          /\ head[p] # m
      BY <1>0, <1>6 DEF WritersOK, CountersOK, Writers, TypeOK
    <3> QED  BY <1>8, <3>2
  <2> QED  BY <1>1, <1>2, <2>1 DEF WritersOK
<1>11. ReadersOK'
  <2>1. \A d \in Readers \ {c} : seq'[Slot(tail[d])] = seq[Slot(tail[d])]
    <3>1. SUFFICES ASSUME NEW d \in Readers, d # c
                   PROVE  seq'[Slot(tail[d])] = seq[Slot(tail[d])]
      OBVIOUS
    <3>2. /\ tail[d] \in Nat
          /\ tail[d] + Size \in tailSeq..(tailSeq + Size - 1)
          /\ tail[d] + Size # m
      BY <1>0, <1>1, <1>3, <3>1 DEF ReadersOK, CountersOK, Readers, TypeOK
    <3>3. seq'[Slot(tail[d] + Size)] = seq[Slot(tail[d] + Size)]
      BY <1>8, <3>2
    <3> QED  BY <3>2, <3>3, SlotNextRound
  <2>2. \A d \in Readers \ {c} : cpc'[d] = cpc[d]
    BY <1>1 DEF Readers
  <2> QED  BY <1>1, <1>2, <2>1, <2>2 DEF ReadersOK
<1>12. QueuedOK'
  <2>1. \A n \in tailSeq..(headSeq - 1) : seq'[Slot(n)] = seq[Slot(n)]
    <3>1. SUFFICES ASSUME NEW n \in tailSeq..(headSeq - 1)
                   PROVE  seq'[Slot(n)] = seq[Slot(n)]
      OBVIOUS
    <3>2. n \in tailSeq..(tailSeq + Size - 1) /\ n # m
      BY <1>0, <1>6 DEF CountersOK
    <3> QED  BY <1>8, <3>2
  <2> QED  BY <1>1, <1>2, <2>1 DEF QueuedOK
<1>13. FreeOK'
  <2>1. SUFFICES ASSUME NEW n \in headSeq..(tailSeq + Size - 1)
                 PROVE  \/ seq'[Slot(n)] = n
                        \/ /\ seq'[Slot(n)] = n - Size + 1
                           /\ \E d \in Readers \ {c} : tail[d] = n - Size
    BY <1>1, <1>2 DEF FreeOK
  <2>2. CASE n = m
    BY <1>7, <2>2
  <2>3. CASE n # m
    <3>1. n \in tailSeq..(tailSeq + Size - 1)
      BY <1>0 DEF CountersOK
    <3>2. seq'[Slot(n)] = seq[Slot(n)]
      BY <1>8, <2>3, <3>1
    <3>3. tail[c] # n - Size
      BY <1>0, <1>1, <1>3, <2>3
    <3> QED  BY <3>2, <3>3 DEF FreeOK
  <2> QED  BY <2>2, <2>3
<1>14. CasOK'
  <2>1. \A i \in Slots : seq'[i] >= seq[i] /\ seq'[i] \in Nat /\ seq[i] \in Nat
    BY <1>0, <1>6, <1>7 DEF TypeOK
  <2>2. \A p \in Producers : head[p] \in Nat /\ Slot(head[p]) \in Slots
    BY SlotType DEF TypeOK
  <2>3. \A d \in Consumers : tail[d] \in Nat /\ Slot(tail[d]) \in Slots
    BY SlotType DEF TypeOK
  <2>4. \A d \in Consumers : cpc'[d] = "cas" => cpc[d] = "cas"
    BY <1>1
  <2> QED  BY <1>1, <2>1, <2>2, <2>3, <2>4 DEF CasOK
<1>15. CallersOK'
  BY <1>1 DEF CallersOK
<1> QED  BY <1>9, <1>10, <1>11, <1>12, <1>13, <1>14, <1>15

(* The invariant holds of the constructor's buffer. *)
LEMMA InvInit == Init => Inv
<1> SUFFICES ASSUME Init PROVE Inv
  OBVIOUS
<1>0. Size \in Nat \ {0}
  BY SizePositive
<1>1. TypeOK
  BY <1>0 DEF Init, TypeOK, Slots
<1>2. Writers = {} /\ Readers = {}
  BY DEF Init, Writers, Readers
<1>3. FreeOK
  <2>1. SUFFICES ASSUME NEW n \in 0..(Size - 1)
                 PROVE  seq[Slot(n)] = n
    BY <1>0 DEF FreeOK, Init
  <2>2. Slot(n) = n
    BY <1>0 DEF Slot
  <2> QED  BY <2>2 DEF Init, Slots
<1>4. CountersOK /\ QueuedOK /\ CasOK /\ CallersOK
  BY <1>0 DEF Init, CountersOK, QueuedOK, CasOK, CallersOK
<1> QED  BY <1>1, <1>2, <1>3, <1>4 DEF Inv, WritersOK, ReadersOK

(* Every step of every thread keeps it. *)
LEMMA InvStep ==
  ASSUME Inv, [Next]_vars, Size >= 2
  PROVE  Inv'
<1>1. TypeOK'
  BY TypeStep DEF Inv
<1>2. ASSUME NEW p \in Producers, Enqueue(p)
      PROVE  Inv'
  BY <1>1, <1>2, EnqueueLocal, ClaimStep, WriteStep, PublishStep DEF Enqueue
<1>3. ASSUME NEW c \in Consumers, Dequeue(c)
      PROVE  Inv'
  BY <1>1, <1>3, DequeueLocal, TakeStep, ReadStep, ReleaseStep DEF Dequeue
<1>4. CASE UNCHANGED vars
  BY <1>4 DEF vars, Inv, TypeOK, CountersOK, WritersOK, ReadersOK, QueuedOK,
     FreeOK, CasOK, CallersOK, Writers, Readers
<1> QED  BY <1>2, <1>3, <1>4 DEF Next

(* The tickets of the window, the slots and the threads between claim and  *)
(* store always fit together as Inv says.                                  *)
THEOREM Invariance ==
  ASSUME Size >= 2
  PROVE  Spec => []Inv
<1>1. Inv /\ [Next]_vars => Inv'
  BY InvStep
<1> QED  BY <1>1, InvInit, PTL DEF Spec

(* Tickets of two readers lie in one window, a round back. *)
LEMMA ReaderSlot ==
  ASSUME Inv, NEW c \in Readers, NEW d \in Readers,
         Slot(tail[c]) = Slot(tail[d])
  PROVE  c = d
<1>1. headSeq \in Nat /\ tailSeq \in Nat /\ Size \in Nat \ {0}
  BY SizePositive DEF Inv, TypeOK
<1>2. /\ tail[c] \in Nat /\ tail[d] \in Nat
      /\ tail[c] < tailSeq /\ tailSeq <= tail[c] + Size
      /\ tail[d] < tailSeq /\ tailSeq <= tail[d] + Size
  BY <1>1 DEF Inv, ReadersOK, CountersOK, Readers, TypeOK
<1>3. tail[c] = tail[d]
  BY <1>1, <1>2, SlotInjective
<1> QED  BY <1>3 DEF Inv, ReadersOK

(* No two threads are ever between claim and store on one slot, so the     *)
(* plain accesses to node->data do not race.                               *)
THEOREM MutualExclusionHolds ==
  ASSUME Size >= 2
  PROVE  Spec => []MutualExclusion
<1>1. Inv => MutualExclusion
  BY WriterSlot, ReaderSlot DEF MutualExclusion
<1> QED  BY <1>1, Invariance, PTL

(* No interleaving of calls leaks a slot. *)
THEOREM QuiescentSlotsHold ==
  ASSUME Size >= 2
  PROVE  Spec => []QuiescentSlots
<1>1. Inv => QuiescentSlots
  <2>1. SUFFICES ASSUME Inv, Writers = {}, Readers = {},
                        NEW n \in tailSeq..(tailSeq + Size - 1)
                 PROVE  seq[Slot(n)] = IF n < headSeq THEN n + 1 ELSE n
    BY DEF QuiescentSlots
  <2>2. headSeq \in Nat /\ tailSeq \in Nat /\ Size \in Nat
    BY <2>1, SizePositive DEF Inv, TypeOK
  <2>3. CASE n < headSeq
    <3>1. n \in tailSeq..(headSeq - 1)
      BY <2>2, <2>3
    <3> QED  BY <2>1, <2>3, <3>1 DEF Inv, QueuedOK
  <2>4. CASE ~(n < headSeq)
    <3>1. n \in headSeq..(tailSeq + Size - 1)
      BY <2>2, <2>4
    <3> QED  BY <2>1, <2>4, <3>1 DEF Inv, FreeOK
  <2> QED  BY <2>3, <2>4
<1> QED  BY <1>1, Invariance, PTL

-----------------------------------------------------------------------------
(***************************************************************************)
(* The lock-free queue implements BoundedFifo.  Every step of a thread     *)
(* leaves the abstract queue alone, except for the two compare_exchanges,  *)
(* where an item enters and leaves, and the return of dequeue.             *)
(***************************************************************************)

(* CHOOSE finds the only element with a given image. *)
LEMMA ChooseUnique ==
  ASSUME NEW W, NEW h, NEW p \in W, \A q \in W : h[q] = h[p] => q = p
  PROVE  (CHOOSE q \in W : h[q] = h[p]) = p
<1>1. \E q \in W : h[q] = h[p]
  OBVIOUS
<1>2. (CHOOSE q \in W : h[q] = h[p]) \in W
  BY <1>1
<1> QED  BY <1>1, <1>2

(* The items of the abstract queue, by ticket. *)
ValOK ==
  /\ \A p \in Writers : Val(head[p]) = arg[p]
  /\ \A n \in tailSeq..(headSeq - 1) : Val(n) \in Items
  /\ \A c \in Readers : Taken[c] \in Items
  /\ \A c \in Consumers \ Readers : Taken[c] = None

(* The refinement mapping is well defined wherever Inv holds. *)
LEMMA ValFacts == Inv => ValOK
<1> SUFFICES ASSUME Inv PROVE ValOK
  OBVIOUS
<1> USE DEF Inv
<1>0. headSeq \in Nat /\ tailSeq \in Nat
  BY DEF TypeOK
<1>1. \A p \in Writers : Val(head[p]) = arg[p]
  <2>1. SUFFICES ASSUME NEW p \in Writers PROVE Val(head[p]) = arg[p]
    OBVIOUS
  <2>2. head[p] \in Nat /\ seq[Slot(head[p])] = head[p]
    BY DEF WritersOK, Writers, TypeOK
  <2>3. (CHOOSE q \in Writers : head[q] = head[p]) = p
    <3>1. \A q \in Writers : head[q] = head[p] => q = p
      BY DEF WritersOK
    <3> QED  BY <3>1, ChooseUnique
  <2>4. seq[Slot(head[p])] # head[p] + 1
    BY <2>2
  <2> QED  BY <2>3, <2>4, Zenon DEF Val
<1>2. \A n \in tailSeq..(headSeq - 1) : Val(n) \in Items
  <2>1. SUFFICES ASSUME NEW n \in tailSeq..(headSeq - 1)
                 PROVE  Val(n) \in Items
    OBVIOUS
  <2>2. CASE seq[Slot(n)] = n + 1 /\ data[Slot(n)] \in Items
    BY <2>2 DEF Val
  <2>3. CASE \E p \in Writers : head[p] = n
    BY <1>1, <2>3 DEF WritersOK
  <2> QED  BY <2>2, <2>3 DEF QueuedOK
<1>3. \A c \in Readers : Taken[c] \in Items
  BY DEF Readers, Taken, ReadersOK
<1>4. \A c \in Consumers \ Readers : Taken[c] = None
  BY DEF Readers, Taken
<1> QED  BY <1>1, <1>2, <1>3, <1>4 DEF ValOK

(* The abstract queue is a sequence of items, one for each queued ticket. *)
QueueOK ==
  /\ InQueue \in Seq(Items)
  /\ Len(InQueue) = headSeq - tailSeq
  /\ \A n \in tailSeq..(headSeq - 1) : InQueue[n - tailSeq + 1] = Val(n)

(* The mapping of the tickets tailSeq .. headSeq - 1 to 1 .. Len. *)
LEMMA InQueueSeq == Inv => QueueOK
<1> SUFFICES ASSUME Inv PROVE QueueOK
  OBVIOUS
<1>1. headSeq \in Nat /\ tailSeq \in Nat /\ headSeq - tailSeq \in Nat
  BY DEF Inv, TypeOK, CountersOK
<1>2. \A k \in 1..(headSeq - tailSeq) : Val(tailSeq + k - 1) \in Items
  <2>1. \A k \in 1..(headSeq - tailSeq) :
           tailSeq + k - 1 \in tailSeq..(headSeq - 1)
    BY <1>1
  <2> QED  BY <2>1, ValFacts DEF ValOK
<1>3. InQueue \in [1..(headSeq - tailSeq) -> Items]
  BY <1>2 DEF InQueue
<1>4. InQueue \in Seq(Items)
  BY <1>1, <1>3, SeqDef
<1>5. Len(InQueue) = headSeq - tailSeq
  BY <1>1, <1>3, <1>4, LenProperties
<1>6. \A n \in tailSeq..(headSeq - 1) : InQueue[n - tailSeq + 1] = Val(n)
  <2>1. SUFFICES ASSUME NEW n \in tailSeq..(headSeq - 1)
                 PROVE  InQueue[n - tailSeq + 1] = Val(n)
    OBVIOUS
  <2>2. PICK k \in 1..(headSeq - tailSeq) :
           k = n - tailSeq + 1 /\ tailSeq + k - 1 = n
    BY <1>1
  <2> QED  BY <2>2 DEF InQueue
<1> QED  BY <1>4, <1>5, <1>6 DEF QueueOK

(* A step that moves neither counter and changes no item of a queued       *)
(* ticket leaves the abstract queue as it is.                              *)
LEMMA SameQueue ==
  ASSUME headSeq' = headSeq, tailSeq' = tailSeq,
         headSeq \in Nat, tailSeq \in Nat,
         \A n \in tailSeq..(headSeq - 1) : Val(n)' = Val(n)
  PROVE  InQueue' = InQueue
<1>1. \A k \in 1..(headSeq - tailSeq) :
         tailSeq + k - 1 \in tailSeq..(headSeq - 1)
  OBVIOUS
<1>2. \A k \in 1..(headSeq - tailSeq) :
         Val(tailSeq + k - 1)' = Val(tailSeq + k - 1)
  BY <1>1
<1> QED  BY <1>2 DEF InQueue

(* A ticket that is published, or with the same producer, before and after *)
(* a step stands for the same item.                                        *)
LEMMA SameVal ==
  ASSUME Inv, Inv', headSeq' = headSeq, tailSeq' = tailSeq,
         NEW n \in tailSeq..(headSeq - 1),
         \A p \in Writers :
            head[p] = n =>
               \/ p \in Writers' /\ head'[p] = n /\ arg'[p] = arg[p]
               \/ seq'[Slot(n)] = n + 1 /\ data'[Slot(n)] = arg[p],
         seq[Slot(n)] = n + 1 =>
            seq'[Slot(n)] = n + 1 /\ data'[Slot(n)] = data[Slot(n)]
  PROVE  Val(n)' = Val(n)
<1>0. ValOK /\ ValOK'
  <2>1. ValOK
    BY ValFacts
  <2>2. ValOK'
    BY ValFacts, PTL
  <2> QED  BY <2>1, <2>2
<1>1. CASE seq[Slot(n)] = n + 1
  BY <1>1 DEF Val
<1>2. CASE \E p \in Writers : head[p] = n
  <2>1. PICK p \in Writers : head[p] = n
    BY <1>2
  <2>2. Val(n) = arg[p]
    BY <1>0, <2>1 DEF ValOK
  <2>3. CASE p \in Writers' /\ head'[p] = n /\ arg'[p] = arg[p]
    BY <1>0, <2>2, <2>3 DEF ValOK
  <2>4. CASE seq'[Slot(n)] = n + 1 /\ data'[Slot(n)] = arg[p]
    BY <2>2, <2>4 DEF Val
  <2> QED  BY <2>1, <2>3, <2>4
<1> QED  BY <1>1, <1>2 DEF Inv, QueuedOK

(* Steps before a claim change nothing that a caller of the queue can see. *)
LEMMA LocalStutters ==
  ASSUME Inv, Inv', UNCHANGED shared,
         Writers' = Writers, Readers' = Readers,
         \A p \in Writers : head'[p] = head[p] /\ arg'[p] = arg[p],
         \A c \in Readers : tail'[c] = tail[c] /\ out'[c] = out[c]
                            /\ cpc'[c] = cpc[c]
  PROVE  UNCHANGED <<InQueue, Taken>>
<1>1. headSeq \in Nat /\ tailSeq \in Nat
  BY DEF Inv, TypeOK
<1>2. \A n \in tailSeq..(headSeq - 1) : Val(n)' = Val(n)
  BY SameVal DEF shared
<1>3. InQueue' = InQueue
  BY <1>1, <1>2, SameQueue DEF shared
<1>4. \A c \in Consumers : Taken'[c] = Taken[c]
  <2>1. ValOK /\ ValOK'
    BY ValFacts, PTL
  <2>2. SUFFICES ASSUME NEW c \in Consumers PROVE Taken'[c] = Taken[c]
    OBVIOUS
  <2>3. CASE c \in Readers
    BY <2>3 DEF Taken, shared
  <2>4. CASE c \notin Readers
    BY <2>1, <2>4 DEF ValOK
  <2> QED  BY <2>3, <2>4
<1>5. Taken' = Taken
  BY <1>4 DEF Taken
<1> QED  BY <1>3, <1>5

(* Steps of enqueue and dequeue before their compare_exchange. *)
LEMMA LocalActions ==
  ASSUME Inv, Inv',
         \/ \E p \in Producers :
              \/ \E v \in Items : EnqueueCall(p, v)
              \/ EnqueueFree(p) \/ EnqueueFull(p) \/ EnqueueStale(p)
              \/ EnqueueReload(p) \/ EnqueueCasFails(p)
         \/ \E c \in Consumers :
              \/ DequeueCall(c)
              \/ DequeueReady(c) \/ DequeueEmpty(c) \/ DequeueStale(c)
              \/ DequeueReload(c) \/ DequeueCasFails(c)
  PROVE  UNCHANGED <<InQueue, Taken>>
<1>1. ASSUME NEW p \in Producers,
             \/ \E v \in Items : EnqueueCall(p, v)
             \/ EnqueueFree(p) \/ EnqueueFull(p) \/ EnqueueStale(p)
             \/ EnqueueReload(p) \/ EnqueueCasFails(p)
      PROVE  UNCHANGED <<InQueue, Taken>>
  <2>1. /\ UNCHANGED shared
        /\ UNCHANGED <<cpc, tail, out>>
        /\ p \notin Writers
        /\ ppc'[p] \in {"idle", "seq", "cas", "reload"}
        /\ \A q \in Producers \ {p} : /\ ppc'[q] = ppc[q]
                                      /\ head'[q] = head[q]
                                      /\ arg'[q] = arg[q]
    BY <1>1 DEF Inv, TypeOK, EnqueueCall, EnqueueFree, EnqueueFull,
                EnqueueStale, EnqueueReload, EnqueueCasFails, Writers, cvars
  <2>2. Writers' = Writers /\ Readers' = Readers
    BY <2>1 DEF Writers, Readers
  <2>3. \A q \in Writers : q \in Producers \ {p}
    BY <2>1 DEF Writers
  <2> QED  BY <2>1, <2>2, <2>3, LocalStutters
<1>2. ASSUME NEW c \in Consumers,
             \/ DequeueCall(c)
             \/ DequeueReady(c) \/ DequeueEmpty(c) \/ DequeueStale(c)
             \/ DequeueReload(c) \/ DequeueCasFails(c)
      PROVE  UNCHANGED <<InQueue, Taken>>
  <2>1. /\ UNCHANGED shared
        /\ UNCHANGED <<ppc, head, arg>>
        /\ c \notin Readers
        /\ cpc'[c] \in {"idle", "seq", "cas", "reload"}
        /\ \A d \in Consumers \ {c} : /\ cpc'[d] = cpc[d]
                                      /\ tail'[d] = tail[d]
                                      /\ out'[d] = out[d]
    BY <1>2 DEF Inv, TypeOK, DequeueCall, DequeueReady, DequeueEmpty,
                DequeueStale, DequeueReload, DequeueCasFails, Readers, pvars
  <2>2. Writers' = Writers /\ Readers' = Readers
    BY <2>1 DEF Writers, Readers
  <2>3. \A d \in Readers : d \in Consumers \ {c}
    BY <2>1 DEF Readers
  <2> QED  BY <2>1, <2>2, <2>3, LocalStutters
<1> QED  BY <1>1, <1>2

(* The successful exchange of enqueue is Put. *)
LEMMA ClaimIsPut ==
  ASSUME Inv, Inv', Size >= 2, NEW p \in Producers, EnqueueClaim(p)
  PROVE  Fifo!Put(arg[p])
<1>1. headSeq \in Nat /\ tailSeq \in Nat /\ Size \in Nat /\ tailSeq <= headSeq
  BY SizePositive DEF Inv, TypeOK, CountersOK
<1>2. /\ ppc[p] = "cas"
      /\ head[p] = headSeq
      /\ headSeq' = headSeq + 1
      /\ ppc'[p] = "write"
      /\ \A q \in Producers \ {p} : ppc'[q] = ppc[q]
      /\ UNCHANGED <<tailSeq, seq, data, head, arg, cpc, tail, out>>
  BY DEF Inv, TypeOK, EnqueueClaim, cvars
<1>3. Writers' = Writers \cup {p}
  BY <1>2 DEF Writers
<1>4. Len(InQueue) < Size
  <2>1. headSeq < tailSeq + Size
    BY <1>2, ClaimFindsFreeSlot
  <2> QED  BY <1>1, <2>1, InQueueSeq DEF QueueOK
<1>5. Taken' = Taken
  BY <1>2 DEF Taken
<1>6. arg[p] \in Items
  BY <1>2 DEF Inv, CallersOK
<1>7. InQueue' = Append(InQueue, arg[p])
  <2>1. QueueOK /\ QueueOK'
    BY InQueueSeq, PTL
  <2>2. \A n \in tailSeq..(headSeq - 1) : Val(n)' = Val(n)
    <3>1. SUFFICES ASSUME NEW n \in tailSeq..(headSeq - 1)
                   PROVE  Val(n)' = Val(n)
      OBVIOUS
    <3>2. ValOK /\ ValOK'
      BY ValFacts, PTL
    <3>3. CASE seq[Slot(n)] = n + 1
      BY <1>2, <3>3 DEF Val
    <3>4. CASE \E q \in Writers : head[q] = n
      BY <1>2, <1>3, <3>2, <3>4 DEF ValOK
    <3> QED  BY <3>3, <3>4 DEF Inv, QueuedOK
  <2>3. PICK h \in Nat : h = headSeq
    BY <1>1
  <2>4. Val(h)' = arg[p]
    <3>1. ValOK'
      BY ValFacts, PTL
    <3>2. p \in Writers' /\ head'[p] = h /\ arg'[p] = arg[p]
      BY <1>2, <1>3, <2>3
    <3> QED  BY <3>1, <3>2 DEF ValOK
  <2>5. /\ Append(InQueue, arg[p]) \in Seq(Items)
        /\ Len(Append(InQueue, arg[p])) = headSeq + 1 - tailSeq
        /\ \A k \in 1..(headSeq - tailSeq) :
              Append(InQueue, arg[p])[k] = InQueue[k]
        /\ Append(InQueue, arg[p])[headSeq - tailSeq + 1] = arg[p]
    BY <1>1, <1>6, <2>1, AppendProperties DEF QueueOK
  <2>6. InQueue' \in Seq(Items) /\ Len(InQueue') = headSeq + 1 - tailSeq
    <3>1. InQueue' \in Seq(Items) /\ Len(InQueue') = headSeq' - tailSeq'
      BY <2>1, Zenon DEF QueueOK
    <3> QED  BY <1>1, <1>2, <3>1
  <2>7. ASSUME NEW k \in 1..(headSeq + 1 - tailSeq)
        PROVE  InQueue'[k] = Append(InQueue, arg[p])[k]
    <3>1. PICK n \in tailSeq..headSeq : n = tailSeq + k - 1 /\ n - tailSeq + 1 = k
      BY <1>1
    <3>2. InQueue'[k] = Val(n)'
      BY <1>1, <1>2, <2>1, <3>1 DEF QueueOK
    <3>3. CASE n = h
      BY <1>1, <2>3, <2>4, <2>5, <3>1, <3>2, <3>3
    <3>4. CASE n # h
      <4>1. n \in tailSeq..(headSeq - 1) /\ k \in 1..(headSeq - tailSeq)
        BY <1>1, <2>3, <3>1, <3>4
      <4>2. InQueue[k] = Val(n)
        BY <2>1, <3>1, <4>1 DEF QueueOK
      <4> QED  BY <2>2, <2>5, <3>2, <4>1, <4>2
    <3> QED  BY <3>3, <3>4
  <2> QED  BY <2>5, <2>6, <2>7, SeqEqual
<1> QED  BY <1>4, <1>5, <1>7 DEF Fifo!Put

(* Writing the data of a claimed ticket is invisible. *)
LEMMA WriteStutters ==
  ASSUME Inv, Inv', NEW p \in Producers, EnqueueWrite(p)
  PROVE  UNCHANGED <<InQueue, Taken>>
<1>1. /\ p \in Writers
      /\ ppc'[p] = "publish"
      /\ \A q \in Producers \ {p} : ppc'[q] = ppc[q]
      /\ data' = [data EXCEPT ![Slot(head[p])] = arg[p]]
      /\ UNCHANGED <<headSeq, tailSeq, seq, head, arg, cpc, tail, out>>
  BY DEF Inv, TypeOK, EnqueueWrite, Writers, cvars
<1>2. Writers' = Writers
  BY <1>1 DEF Writers
<1>3. \A i \in Slots : i # Slot(head[p]) => data'[i] = data[i]
  BY <1>1 DEF Inv, TypeOK
<1>4. headSeq \in Nat /\ tailSeq \in Nat /\ Size \in Nat \ {0}
  BY SizePositive DEF Inv, TypeOK
<1>5. ASSUME NEW n \in tailSeq..(headSeq - 1)
      PROVE  Val(n)' = Val(n)
  <2>1. seq[Slot(n)] = n + 1 => data'[Slot(n)] = data[Slot(n)]
    <3>1. SUFFICES ASSUME seq[Slot(n)] = n + 1
                   PROVE  data'[Slot(n)] = data[Slot(n)]
      OBVIOUS
    <3>2. n # head[p] /\ n \in Nat /\ n \in tailSeq..(tailSeq + Size - 1)
      BY <1>1, <1>4, <3>1 DEF Inv, WritersOK, CountersOK
    <3>3. Slot(n) # Slot(head[p]) /\ Slot(n) \in Slots
      BY <1>1, <3>2, WriterSlot, SlotType
    <3> QED  BY <1>3, <3>3
  <2> QED  BY <1>1, <1>2, <2>1, SameVal
<1>6. InQueue' = InQueue
  BY <1>1, <1>4, <1>5, SameQueue
<1>7. \A c \in Readers : data'[Slot(tail[c])] = data[Slot(tail[c])]
  BY <1>1, <1>3, WriterSlot, SlotType DEF Inv, Readers, TypeOK
<1>8. Taken' = Taken
  BY <1>1, <1>7 DEF Taken, Readers
<1> QED  BY <1>6, <1>8

(* So is publishing it: the item is in the queue since the claim. *)
LEMMA PublishStutters ==
  ASSUME Inv, Inv', NEW p \in Producers, EnqueuePublish(p)
  PROVE  UNCHANGED <<InQueue, Taken>>
<1>1. /\ p \in Writers
      /\ ppc[p] = "publish"
      /\ \A q \in Producers \ {p} : ppc'[q] = ppc[q]
      /\ seq' = [seq EXCEPT ![Slot(head[p])] = head[p] + 1]
      /\ UNCHANGED <<headSeq, tailSeq, data, head, arg, cpc, tail, out>>
  BY DEF Inv, TypeOK, EnqueuePublish, Published, Writers, cvars
<1>2. \A q \in Writers : q # p => q \in Writers'
  BY <1>1 DEF Writers
<1>3. /\ seq'[Slot(head[p])] = head[p] + 1
      /\ \A i \in Slots : i # Slot(head[p]) => seq'[i] = seq[i]
  BY <1>1, WriterSlot DEF Inv, TypeOK
<1>4. headSeq \in Nat /\ tailSeq \in Nat /\ Size \in Nat \ {0}
  BY SizePositive DEF Inv, TypeOK
<1>5. ASSUME NEW n \in tailSeq..(headSeq - 1)
      PROVE  Val(n)' = Val(n)
  <2>1. CASE n = head[p]
    <3>1. data[Slot(n)] = arg[p] /\ seq'[Slot(n)] = n + 1 /\ seq[Slot(n)] = n
      BY <1>1, <1>3, <2>1 DEF Inv, WritersOK
    <3>2. \A q \in Writers : head[q] = n => q = p
      BY <1>1, <2>1 DEF Inv, WritersOK
    <3> QED  BY <1>1, <1>4, <3>1, <3>2, SameVal
  <2>2. CASE n # head[p]
    <3>1. n \in Nat /\ n \in tailSeq..(tailSeq + Size - 1)
      BY <1>4 DEF Inv, CountersOK
    <3>2. Slot(n) # Slot(head[p]) /\ Slot(n) \in Slots
      BY <1>1, <2>2, <3>1, WriterSlot, SlotType
    <3>3. seq'[Slot(n)] = seq[Slot(n)]
      BY <1>3, <3>2
    <3> QED  BY <1>1, <1>2, <2>2, <3>3, SameVal
  <2> QED  BY <2>1, <2>2
<1>6. InQueue' = InQueue
  BY <1>1, <1>4, <1>5, SameQueue
<1>7. Taken' = Taken
  BY <1>1 DEF Taken
<1> QED  BY <1>6, <1>7

(* The successful exchange of dequeue is Take. *)
LEMMA ClaimIsTake ==
  ASSUME Inv, Inv', NEW c \in Consumers, DequeueClaim(c)
  PROVE  Fifo!Take(c)
<1>1. headSeq \in Nat /\ tailSeq \in Nat /\ tailSeq <= headSeq
  BY DEF Inv, TypeOK, CountersOK
<1>2. /\ cpc[c] = "cas"
      /\ tail[c] = tailSeq
      /\ tailSeq' = tailSeq + 1
      /\ cpc' = [cpc EXCEPT ![c] = "read"]
      /\ UNCHANGED <<headSeq, seq, data, tail, out, ppc, head, arg>>
  BY DEF Inv, TypeOK, DequeueClaim, pvars
<1>3. /\ tailSeq < headSeq
      /\ seq[Slot(tailSeq)] = tailSeq + 1
      /\ data[Slot(tailSeq)] \in Items
  BY <1>2, ClaimFindsPublishedTicket
<1>4. QueueOK
  BY InQueueSeq
<1>5. QueueOK'
  BY InQueueSeq, PTL
<1>6. InQueue # <<>>
  BY <1>1, <1>3, <1>4 DEF QueueOK
<1>7. Head(InQueue) = data[Slot(tailSeq)]
  <2>1. InQueue[1] = Val(tailSeq)
    <3>1. tailSeq \in tailSeq..(headSeq - 1) /\ tailSeq - tailSeq + 1 = 1
      BY <1>1, <1>3
    <3> QED  BY <1>4, <3>1 DEF QueueOK
  <2>2. Val(tailSeq) = data[Slot(tailSeq)]
    BY <1>3 DEF Val
  <2> QED  BY <1>4, <1>6, <2>1, <2>2 DEF QueueOK
<1>8. Taken[c] = None
  BY <1>2 DEF Taken
<1>9. Taken' = [Taken EXCEPT ![c] = Head(InQueue)]
  <2>1. cpc'[c] = "read" /\ \A d \in Consumers : d # c => cpc'[d] = cpc[d]
    BY <1>2 DEF Inv, TypeOK
  <2> QED  BY <1>2, <1>7, <2>1 DEF Taken
<1>10. InQueue' = Tail(InQueue)
  <2>1. /\ Tail(InQueue) \in Seq(Items)
        /\ Len(Tail(InQueue)) = headSeq - tailSeq - 1
        /\ \A k \in 1..(headSeq - tailSeq - 1) :
              Tail(InQueue)[k] = InQueue[k + 1]
    BY <1>1, <1>4, <1>6, HeadTailProperties DEF QueueOK
  <2>2. InQueue' \in Seq(Items) /\ Len(InQueue') = headSeq - tailSeq - 1
    <3>1. InQueue' \in Seq(Items) /\ Len(InQueue') = headSeq' - tailSeq'
      BY <1>5, Zenon DEF QueueOK
    <3> QED  BY <1>1, <1>2, <3>1
  <2>3. ASSUME NEW k \in 1..(headSeq - tailSeq - 1)
        PROVE  InQueue'[k] = Tail(InQueue)[k]
    <3>1. PICK n \in (tailSeq + 1)..(headSeq - 1) :
             n - tailSeq + 1 = k + 1 /\ n - (tailSeq + 1) + 1 = k
      <4>1. tailSeq + k \in (tailSeq + 1)..(headSeq - 1)
        BY <1>1
      <4> QED  BY <1>1, <4>1
    <3>2. InQueue'[k] = Val(n)'
      <4>1. InQueue'[n - tailSeq' + 1] = Val(n)'
        BY <1>2, <1>5, <3>1 DEF QueueOK
      <4> QED  BY <1>2, <3>1, <4>1
    <3>3. InQueue[k + 1] = Val(n)
      <4>1. n \in tailSeq..(headSeq - 1)
        BY <1>1
      <4> QED  BY <1>4, <3>1, <4>1 DEF QueueOK
    <3>4. Writers' = Writers
      BY <1>2 DEF Writers
    <3>5. Val(n)' = Val(n)
      BY <1>2, <3>4 DEF Val
    <3> QED  BY <2>1, <3>2, <3>3, <3>5
  <2> QED  BY <2>1, <2>2, <2>3, SeqEqual
<1> QED  BY <1>6, <1>8, <1>9, <1>10 DEF Fifo!Take

(* Copying the data out is invisible. *)
LEMMA ReadStutters ==
  ASSUME Inv, Inv', NEW c \in Consumers, DequeueRead(c)
  PROVE  UNCHANGED <<InQueue, Taken>>
<1>1. /\ cpc[c] = "read"
      /\ cpc'[c] = "release"
      /\ out'[c] = data[Slot(tail[c])]
      /\ \A d \in Consumers \ {c} : cpc'[d] = cpc[d] /\ out'[d] = out[d]
      /\ UNCHANGED <<headSeq, tailSeq, seq, data, tail, ppc, head, arg>>
  BY DEF Inv, TypeOK, DequeueRead, shared, pvars
<1>2. Writers' = Writers
  BY <1>1 DEF Writers
<1>3. headSeq \in Nat /\ tailSeq \in Nat
  BY DEF Inv, TypeOK
<1>4. \A n \in tailSeq..(headSeq - 1) : Val(n)' = Val(n)
  BY <1>1, <1>2, SameVal
<1>5. InQueue' = InQueue
  BY <1>1, <1>3, <1>4, SameQueue
<1>6. Taken' = Taken
  BY <1>1 DEF Taken
<1> QED  BY <1>5, <1>6

(* The release of the slot is where dequeue returns. *)
LEMMA ReleaseIsReturn ==
  ASSUME Inv, Inv', NEW c \in Consumers, DequeueRelease(c)
  PROVE  Fifo!Return(c)
<1>0. headSeq \in Nat /\ tailSeq \in Nat /\ Size \in Nat \ {0}
  BY SizePositive DEF Inv, TypeOK
<1>1. /\ cpc[c] = "release"
      /\ c \in Readers
      /\ tail[c] \in Nat
      /\ cpc' = [cpc EXCEPT ![c] = "idle"]
      /\ seq' = [seq EXCEPT ![Slot(tail[c])] = NextRound(tail[c])]
      /\ UNCHANGED <<headSeq, tailSeq, data, tail, out, ppc, head, arg>>
  BY DEF Inv, TypeOK, DequeueRelease, Readers, pvars
<1>2. Writers' = Writers
  BY <1>1 DEF Writers
<1>3. ASSUME NEW n \in tailSeq..(headSeq - 1)
      PROVE  Val(n)' = Val(n)
  <2>1. Slot(n) # Slot(tail[c]) /\ Slot(n) \in Slots
    <3>1. tail[c] < tailSeq /\ headSeq <= tail[c] + Size /\ n \in Nat
      BY <1>0, <1>1 DEF Inv, ReadersOK
    <3> QED  BY <1>0, <1>1, <3>1, SlotInjective, SlotType
  <2>2. seq'[Slot(n)] = seq[Slot(n)]
    BY <1>1, <2>1 DEF Inv, TypeOK
  <2> QED  BY <1>1, <1>2, <2>2, SameVal
<1>4. InQueue' = InQueue
  BY <1>0, <1>1, <1>3, SameQueue
<1>5. Taken[c] # None
  BY <1>1, ValFacts, ConstAssumption DEF ValOK
<1>6. Taken' = [Taken EXCEPT ![c] = None]
  <2>1. cpc'[c] = "idle" /\ \A d \in Consumers : d # c => cpc'[d] = cpc[d]
    BY <1>1 DEF Inv, TypeOK
  <2> QED  BY <1>1, <2>1 DEF Taken
<1> QED  BY <1>4, <1>5, <1>6 DEF Fifo!Return

(* Every step of the lock-free code is a step of the FIFO queue or none. *)
LEMMA FifoStep ==
  ASSUME Inv, Inv', [Next]_vars, Size >= 2
  PROVE  [Fifo!Next]_(Fifo!vars)
<1>1. ASSUME NEW p \in Producers, Enqueue(p)
      PROVE  [Fifo!Next]_(Fifo!vars)
  <2>1. CASE EnqueueClaim(p)
    <3>1. Fifo!Put(arg[p]) /\ arg[p] \in Items
      BY <2>1, ClaimIsPut DEF Inv, CallersOK, EnqueueClaim
    <3> QED  BY <3>1 DEF Fifo!Next
  <2>2. CASE EnqueueWrite(p) \/ EnqueuePublish(p)
    BY <2>2, WriteStutters, PublishStutters DEF Fifo!vars
  <2>3. CASE \/ \E v \in Items : EnqueueCall(p, v)
             \/ EnqueueFree(p) \/ EnqueueFull(p) \/ EnqueueStale(p)
             \/ EnqueueReload(p) \/ EnqueueCasFails(p)
    BY <2>3, LocalActions DEF Fifo!vars
  <2> QED  BY <1>1, <2>1, <2>2, <2>3 DEF Enqueue
<1>2. ASSUME NEW c \in Consumers, Dequeue(c)
      PROVE  [Fifo!Next]_(Fifo!vars)
  <2>1. CASE DequeueClaim(c) \/ DequeueRelease(c)
    BY <2>1, ClaimIsTake, ReleaseIsReturn DEF Fifo!Next
  <2>2. CASE DequeueRead(c)
    BY <2>2, ReadStutters DEF Fifo!vars
  <2>3. CASE \/ DequeueCall(c)
             \/ DequeueReady(c) \/ DequeueEmpty(c) \/ DequeueStale(c)
             \/ DequeueReload(c) \/ DequeueCasFails(c)
    BY <2>3, LocalActions DEF Fifo!vars
  <2> QED  BY <1>2, <2>1, <2>2, <2>3 DEF Dequeue
<1>3. CASE UNCHANGED vars
  <2>1. Writers' = Writers /\ Readers' = Readers
    BY <1>3 DEF vars, Writers, Readers
  <2> QED  BY <1>3, <2>1, LocalStutters DEF vars, shared, Fifo!vars
<1> QED  BY <1>1, <1>2, <1>3 DEF Next

(* enqueue and dequeue of lfmpmc.h are linearisable, for any number of     *)
(* threads and any size of two or more.                                    *)
THEOREM FifoRefinement ==
  ASSUME Size >= 2
  PROVE  Spec => ImplementsFifo
<1>1. Init => Fifo!Init
  <2>1. SUFFICES ASSUME Init PROVE InQueue = <<>> /\ Taken = [c \in Consumers |-> None]
    BY DEF Fifo!Init
  <2>2. QueueOK
    BY <2>1, InvInit, InQueueSeq
  <2>3. Len(InQueue) = 0 /\ InQueue \in Seq(Items)
    BY <2>1, <2>2 DEF QueueOK, Init
  <2> QED  BY <2>1, <2>3 DEF Init, Taken
<1>2. Inv /\ Inv' /\ [Next]_vars => [Fifo!Next]_(Fifo!vars)
  BY FifoStep
<1> QED  BY <1>1, <1>2, Invariance, PTL DEF Spec, ImplementsFifo, Fifo!Spec

=============================================================================
