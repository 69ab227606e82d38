------------------------------- MODULE MpmcQueue -------------------------------
(***************************************************************************)
(* The lock-free bounded queue mpmc_bounded_queue_t of lfmpmc.h, one       *)
(* action per access to shared memory.  The server keeps its finished      *)
(* requests in one (end_req_Q): every thread of the storage engine that    *)
(* completes a request enqueues it, end_req_q_handler dequeues.            *)
(*                                                                         *)
(* A ticket is a value of _head_seq or _tail_seq.  Ticket n lives in slot  *)
(* n & _mask, which is n % Size as the size is a power of two.  The 64-bit *)
(* counters are modelled by the naturals: they do not wrap in the lifetime *)
(* of a process.                                                           *)
(*                                                                         *)
(* Memory order.  A load may return any value that the location has held   *)
(* so far (RelaxedLoads = TRUE), which is more than C++11 lets a relaxed   *)
(* or an acquire load do; only a successful compare_exchange must see the  *)
(* latest value.  With RelaxedLoads = FALSE memory is sequentially         *)
(* consistent.  node->data is a plain cell: MutualExclusion says that it is*)
(* never accessed by two threads at a time.                                *)
(***************************************************************************)
EXTENDS Integers, Sequences

CONSTANTS Producers,     \* threads that call enqueue
          Consumers,     \* threads that call dequeue
          Items,         \* the pointers that are enqueued
          None,          \* an uninitialised cell; never an item
          Size,          \* _size
          RelaxedLoads,  \* may loads return stale values?
          MaxTicket      \* bound: enqueue is not called beyond this ticket

(* The constructor's assertion that _size is a power of two. *)
ASSUME SizeAssumption ==
  /\ Size \in Nat \ {0}
  /\ \E k \in 0..Size : Size = 2^k

ASSUME ConstAssumption ==
  /\ MaxTicket \in Nat
  /\ RelaxedLoads \in BOOLEAN
  /\ None \notin Items

VARIABLES
  headSeq,   \* _head_seq: the next ticket to enqueue at
  tailSeq,   \* _tail_seq: the next ticket to dequeue at
  seq,       \* seq[i]: _buffer[i].seq
  data,      \* data[i]: _buffer[i].data
  ppc,       \* ppc[p]: where producer p is in enqueue
  head,      \* head[p]: its local head_seq
  arg,       \* arg[p]: its argument data
  cpc,       \* cpc[c]: where consumer c is in dequeue
  tail,      \* tail[c]: its local tail_seq
  out        \* out[c]: what it has stored through its pointer data

shared == <<headSeq, tailSeq, seq, data>>
pvars == <<ppc, head, arg>>
cvars == <<cpc, tail, out>>
vars == <<headSeq, tailSeq, seq, data, ppc, head, arg, cpc, tail, out>>

Slots == 0..(Size - 1)
Slot(n) == n % Size

TypeOK ==
  /\ headSeq \in Nat
  /\ tailSeq \in Nat
  /\ seq \in [Slots -> Nat]
  /\ data \in [Slots -> Items \cup {None}]
  /\ ppc \in [Producers -> {"idle", "seq", "cas", "reload", "write", "publish"}]
  /\ head \in [Producers -> Nat]
  /\ arg \in [Producers -> Items \cup {None}]
  /\ cpc \in [Consumers -> {"idle", "seq", "cas", "reload", "read", "release"}]
  /\ tail \in [Consumers -> Nat]
  /\ out \in [Consumers -> Items \cup {None}]

Init ==
  /\ headSeq = 0
  /\ tailSeq = 0
  /\ seq = [i \in Slots |-> i]
  /\ data = [i \in Slots |-> None]
  /\ ppc = [p \in Producers |-> "idle"]
  /\ head = [p \in Producers |-> 0]
  /\ arg = [p \in Producers |-> None]
  /\ cpc = [c \in Consumers |-> "idle"]
  /\ tail = [c \in Consumers |-> 0]
  /\ out = [c \in Consumers |-> None]

-----------------------------------------------------------------------------
(* What loads may return.  A counter has held every value up to its        *)
(* current one.  The seq of slot i has held the tickets of the slot, and   *)
(* each of them plus one.                                                  *)

Visible(now) == IF RelaxedLoads THEN 0..now ELSE {now}

VisibleSeq(i) ==
  {s \in Visible(seq[i]) : Slot(s) = i \/ (s > 0 /\ Slot(s - 1) = i)}

-----------------------------------------------------------------------------
(* Mutants: plausible slips in the code below, none of them part of the    *)
(* specification.  Each one breaks the property that it is paired with.    *)

(* The store to seq forgets the increment, or counts the wrong way. *)
PublishSameTicket(t) == t
PublishBackwards(t) == t - 1

(* The slot is handed back one ticket short of the next round. *)
NextRoundShort(t) == t + (Size - 1)

(* The ticket is published by the claim, before the data is written. *)
EnqueueClaimPublishes(p) ==
  /\ ppc[p] = "cas"
  /\ headSeq = head[p]
  /\ headSeq' = head[p] + 1
  /\ seq' = [seq EXCEPT ![Slot(head[p])] = head[p] + 1]
  /\ ppc' = [ppc EXCEPT ![p] = "write"]
  /\ UNCHANGED <<tailSeq, data, head, arg, cvars>>

(* A plain store instead of compare_exchange: the ticket is not compared. *)
EnqueueClaimStore(p) ==
  /\ ppc[p] = "cas"
  /\ headSeq' = head[p] + 1
  /\ ppc' = [ppc EXCEPT ![p] = "write"]
  /\ UNCHANGED <<tailSeq, seq, data, head, arg, cvars>>

(* dequeue compares with tail_seq, as enqueue does, and not with the       *)
(* published value tail_seq + 1.                                           *)
DequeueReadyEarly(c) ==
  /\ cpc[c] = "seq"
  /\ \E s \in VisibleSeq(Slot(tail[c])) : s - tail[c] = 0
  /\ cpc' = [cpc EXCEPT ![c] = "cas"]
  /\ UNCHANGED <<shared, tail, out, pvars>>

-----------------------------------------------------------------------------
(* bool enqueue(const T data) *)

EnqueueCall(p, v) ==
  /\ ppc[p] = "idle"
  /\ headSeq < MaxTicket
  /\ \E h \in Visible(headSeq) : head' = [head EXCEPT ![p] = h]
  /\ arg' = [arg EXCEPT ![p] = v]
  /\ ppc' = [ppc EXCEPT ![p] = "seq"]
  /\ UNCHANGED <<shared, cvars>>

(* dif == 0: the slot is free for this ticket. *)
EnqueueFree(p) ==
  /\ ppc[p] = "seq"
  /\ \E s \in VisibleSeq(Slot(head[p])) : s - head[p] = 0
  /\ ppc' = [ppc EXCEPT ![p] = "cas"]
  /\ UNCHANGED <<shared, head, arg, cvars>>

(* dif < 0: return false. *)
EnqueueFull(p) ==
  /\ ppc[p] = "seq"
  /\ \E s \in VisibleSeq(Slot(head[p])) : s - head[p] < 0
  /\ ppc' = [ppc EXCEPT ![p] = "idle"]
  /\ UNCHANGED <<shared, head, arg, cvars>>

(* dif > 0: another producer has used the ticket; reload _head_seq. *)
EnqueueStale(p) ==
  /\ ppc[p] = "seq"
  /\ \E s \in VisibleSeq(Slot(head[p])) : s - head[p] > 0
  /\ ppc' = [ppc EXCEPT ![p] = "reload"]
  /\ UNCHANGED <<shared, head, arg, cvars>>

EnqueueReload(p) ==
  /\ ppc[p] = "reload"
  /\ \E h \in Visible(headSeq) : head' = [head EXCEPT ![p] = h]
  /\ ppc' = [ppc EXCEPT ![p] = "seq"]
  /\ UNCHANGED <<shared, arg, cvars>>

(* compare_exchange_weak succeeds: the ticket is claimed. *)
EnqueueClaim(p) ==
  /\ ppc[p] = "cas"
  /\ headSeq = head[p]
  /\ headSeq' = head[p] + 1
  /\ ppc' = [ppc EXCEPT ![p] = "write"]
  /\ UNCHANGED <<tailSeq, seq, data, head, arg, cvars>>

(* compare_exchange_weak fails, for another value or spuriously, and       *)
(* leaves the value that it has seen in head_seq.                          *)
EnqueueCasFails(p) ==
  /\ ppc[p] = "cas"
  /\ \E h \in Visible(headSeq) : head' = [head EXCEPT ![p] = h]
  /\ ppc' = [ppc EXCEPT ![p] = "seq"]
  /\ UNCHANGED <<shared, arg, cvars>>

EnqueueWrite(p) ==
  /\ ppc[p] = "write"
  /\ data' = [data EXCEPT ![Slot(head[p])] = arg[p]]
  /\ ppc' = [ppc EXCEPT ![p] = "publish"]
  /\ UNCHANGED <<headSeq, tailSeq, seq, head, arg, cvars>>

(* What seq says once ticket t can be read. *)
Published(t) == t + 1

EnqueuePublish(p) ==
  /\ ppc[p] = "publish"
  /\ seq' = [seq EXCEPT ![Slot(head[p])] = Published(head[p])]
  /\ ppc' = [ppc EXCEPT ![p] = "idle"]
  /\ UNCHANGED <<headSeq, tailSeq, data, head, arg, cvars>>

-----------------------------------------------------------------------------
(* bool dequeue(T* data) *)

DequeueCall(c) ==
  /\ cpc[c] = "idle"
  /\ \E t \in Visible(tailSeq) : tail' = [tail EXCEPT ![c] = t]
  /\ cpc' = [cpc EXCEPT ![c] = "seq"]
  /\ out' = [out EXCEPT ![c] = None]
  /\ UNCHANGED <<shared, pvars>>

(* dif == 0: the ticket has been published. *)
DequeueReady(c) ==
  /\ cpc[c] = "seq"
  /\ \E s \in VisibleSeq(Slot(tail[c])) : s - (tail[c] + 1) = 0
  /\ cpc' = [cpc EXCEPT ![c] = "cas"]
  /\ UNCHANGED <<shared, tail, out, pvars>>

(* dif < 0: return false. *)
DequeueEmpty(c) ==
  /\ cpc[c] = "seq"
  /\ \E s \in VisibleSeq(Slot(tail[c])) : s - (tail[c] + 1) < 0
  /\ cpc' = [cpc EXCEPT ![c] = "idle"]
  /\ UNCHANGED <<shared, tail, out, pvars>>

(* dif > 0: another consumer has taken the ticket; reload _tail_seq. *)
DequeueStale(c) ==
  /\ cpc[c] = "seq"
  /\ \E s \in VisibleSeq(Slot(tail[c])) : s - (tail[c] + 1) > 0
  /\ cpc' = [cpc EXCEPT ![c] = "reload"]
  /\ UNCHANGED <<shared, tail, out, pvars>>

DequeueReload(c) ==
  /\ cpc[c] = "reload"
  /\ \E t \in Visible(tailSeq) : tail' = [tail EXCEPT ![c] = t]
  /\ cpc' = [cpc EXCEPT ![c] = "seq"]
  /\ UNCHANGED <<shared, out, pvars>>

DequeueClaim(c) ==
  /\ cpc[c] = "cas"
  /\ tailSeq = tail[c]
  /\ tailSeq' = tail[c] + 1
  /\ cpc' = [cpc EXCEPT ![c] = "read"]
  /\ UNCHANGED <<headSeq, seq, data, tail, out, pvars>>

DequeueCasFails(c) ==
  /\ cpc[c] = "cas"
  /\ \E t \in Visible(tailSeq) : tail' = [tail EXCEPT ![c] = t]
  /\ cpc' = [cpc EXCEPT ![c] = "seq"]
  /\ UNCHANGED <<shared, out, pvars>>

DequeueRead(c) ==
  /\ cpc[c] = "read"
  /\ out' = [out EXCEPT ![c] = data[Slot(tail[c])]]
  /\ cpc' = [cpc EXCEPT ![c] = "release"]
  /\ UNCHANGED <<shared, tail, pvars>>

(* The ticket that uses the slot of ticket t next. *)
NextRound(t) == t + (Size - 1) + 1

(* node->seq.store(tail_seq + _mask + 1): the slot is free again. *)
DequeueRelease(c) ==
  /\ cpc[c] = "release"
  /\ seq' = [seq EXCEPT ![Slot(tail[c])] = NextRound(tail[c])]
  /\ cpc' = [cpc EXCEPT ![c] = "idle"]
  /\ UNCHANGED <<headSeq, tailSeq, data, tail, out, pvars>>

-----------------------------------------------------------------------------

Enqueue(p) ==
  \/ \E v \in Items : EnqueueCall(p, v)
  \/ EnqueueFree(p) \/ EnqueueFull(p) \/ EnqueueStale(p) \/ EnqueueReload(p)
  \/ EnqueueClaim(p) \/ EnqueueCasFails(p)
  \/ EnqueueWrite(p) \/ EnqueuePublish(p)

Dequeue(c) ==
  \/ DequeueCall(c)
  \/ DequeueReady(c) \/ DequeueEmpty(c) \/ DequeueStale(c) \/ DequeueReload(c)
  \/ DequeueClaim(c) \/ DequeueCasFails(c)
  \/ DequeueRead(c) \/ DequeueRelease(c)

Next ==
  \/ \E p \in Producers : Enqueue(p)
  \/ \E c \in Consumers : Dequeue(c)

Spec == Init /\ [][Next]_vars

(* Fairness.  A thread inside enqueue or dequeue is scheduled again (WF on *)
(* its steps).  compare_exchange_weak may fail spuriously, but not for     *)
(* ever when it is retried (SF on the successful exchange).  The handler   *)
(* calls dequeue again whenever it returns (while(!dequeue(..))); nobody   *)
(* is obliged to call enqueue.                                             *)
Fairness ==
  /\ \A p \in Producers :
       /\ WF_vars(EnqueueFree(p) \/ EnqueueFull(p) \/ EnqueueStale(p)
                  \/ EnqueueReload(p) \/ EnqueueClaim(p)
                  \/ EnqueueWrite(p) \/ EnqueuePublish(p))
       /\ SF_vars(EnqueueClaim(p))
  /\ \A c \in Consumers :
       /\ WF_vars(Dequeue(c))
       /\ SF_vars(DequeueClaim(c))

FairSpec == Spec /\ Fairness

-----------------------------------------------------------------------------
(* Who owns a slot: between its compare_exchange and its store to seq.     *)

Writers == {p \in Producers : ppc[p] \in {"write", "publish"}}
Readers == {c \in Consumers : cpc[c] \in {"read", "release"}}

(* node->data is not atomic, so two threads must never be between claim    *)
(* and store on the same slot: enqueue's write of node->data (line 84) and *)
(* dequeue's read (lines 159-161) would race.                              *)
MutualExclusion ==
  /\ \A p, q \in Writers : Slot(head[p]) = Slot(head[q]) => p = q
  /\ \A c, d \in Readers : Slot(tail[c]) = Slot(tail[d]) => c = d
  /\ \A p \in Writers, c \in Readers : Slot(head[p]) # Slot(tail[c])

(* When no call is in progress, the slots of the tickets in the queue are  *)
(* published and every other slot is free for the ticket that will use it  *)
(* next: no interleaving of calls leaks a slot or jams the ring.           *)
QuiescentSlots ==
  (Writers = {} /\ Readers = {}) =>
     \A n \in tailSeq..(tailSeq + Size - 1) :
        seq[Slot(n)] = IF n < headSeq THEN n + 1 ELSE n

(* The item that ticket n stands for: in its slot once it is published,    *)
(* in the hands of its producer before.                                    *)
Val(n) ==
  IF seq[Slot(n)] = n + 1
  THEN data[Slot(n)]
  ELSE arg[CHOOSE p \in Writers : head[p] = n]

(* Refinement mapping: an item enters and leaves at the compare_exchange.  *)
InQueue == [k \in 1..(headSeq - tailSeq) |-> Val(tailSeq + k - 1)]

Taken ==
  [c \in Consumers |-> CASE cpc[c] = "read"    -> data[Slot(tail[c])]
                         [] cpc[c] = "release" -> out[c]
                         [] OTHER              -> None]

Fifo == INSTANCE BoundedFifo
          WITH Takers <- Consumers, Capacity <- Size,
               queue <- InQueue, got <- Taken

(* enqueue and dequeue are linearisable: every behaviour of the lock-free  *)
(* code is a behaviour of a bounded FIFO queue, whichever threads are      *)
(* between claim and store.                                                *)
ImplementsFifo == Fifo!Spec

(* Every ticket that a producer has claimed is read out of the queue, and  *)
(* its slot handed back, even when other calls overtake it.                *)
EveryTicketIsServed ==
  \A n \in 0..(MaxTicket - 1) :
     headSeq > n ~> (tailSeq > n /\ \A c \in Readers : tail[c] # n)

-----------------------------------------------------------------------------
(* The inductive invariant behind MutualExclusion and the refinement.  The *)
(* window of tickets tailSeq .. tailSeq + Size - 1 covers every slot once. *)

CountersOK ==
  /\ tailSeq <= headSeq
  /\ headSeq <= tailSeq + Size

WritersOK ==
  /\ \A p \in Writers :
       /\ tailSeq <= head[p]
       /\ head[p] < headSeq
       /\ seq[Slot(head[p])] = head[p]
       /\ arg[p] \in Items
       /\ ppc[p] = "publish" => data[Slot(head[p])] = arg[p]
  /\ \A p, q \in Writers : head[p] = head[q] => p = q

ReadersOK ==
  /\ \A c \in Readers :
       /\ tail[c] < tailSeq
       /\ headSeq <= tail[c] + Size
       /\ seq[Slot(tail[c])] = tail[c] + 1
       /\ data[Slot(tail[c])] \in Items
       /\ cpc[c] = "release" => out[c] = data[Slot(tail[c])]
  /\ \A c, d \in Readers : tail[c] = tail[d] => c = d

(* A ticket in the queue is published or still with its producer. *)
QueuedOK ==
  \A n \in tailSeq..(headSeq - 1) :
     \/ seq[Slot(n)] = n + 1 /\ data[Slot(n)] \in Items
     \/ seq[Slot(n)] = n /\ \E p \in Writers : head[p] = n

(* A ticket that may be claimed next finds its slot free, or its consumer  *)
(* of the round before has not released it yet.                            *)
FreeOK ==
  \A n \in headSeq..(tailSeq + Size - 1) :
     \/ seq[Slot(n)] = n
     \/ seq[Slot(n)] = n - Size + 1 /\ \E c \in Readers : tail[c] = n - Size

(* What a thread has concluded from a seq that may be stale by now. *)
CasOK ==
  /\ \A p \in Producers : ppc[p] = "cas" => seq[Slot(head[p])] >= head[p]
  /\ \A c \in Consumers : cpc[c] = "cas" => seq[Slot(tail[c])] >= tail[c] + 1

CallersOK == \A p \in Producers : ppc[p] # "idle" => arg[p] \in Items

(* The whole of it: the strengthening that is proved inductive. *)
Inv ==
  /\ TypeOK
  /\ CountersOK
  /\ WritersOK
  /\ ReadersOK
  /\ QueuedOK
  /\ FreeOK
  /\ CasOK
  /\ CallersOK

=============================================================================
