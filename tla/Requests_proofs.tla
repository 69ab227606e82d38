---------------------------- MODULE Requests_proofs ----------------------------
(***************************************************************************)
(* Proofs about Requests, for every set of requests, clients, workers and  *)
(* tags, every batch and every size of the queue, and wherever peers hang  *)
(* up: a request has one owner, writes stay away from the handler, and, as *)
(* long as nobody sends a DEL, every DMA buffer is accounted for.          *)
(***************************************************************************)
EXTENDS Requests, SequenceTheorems, FiniteSetTheorems, TLAPS

-----------------------------------------------------------------------------
(* The inductive invariant *)

(* Where the poll thread and the handler are, and what they hold there.    *)
ThreadsOK ==
  /\ cur # NoReq <=> pc \in {"dma", "make"}
  /\ pc # "idle" => /\ cmd \in [c : Clients, name : Commands]
                    /\ left >= 1
  /\ pc = "dma" => heap[cur].type \in {WRITE, READ}
  /\ hreq = NoReq <=> hpc = "dequeue"
  /\ got["handler"] # NoReq => hpc = "dequeue"

(* Somebody has the address of r. *)
Held(r) ==
  \/ cur = r
  \/ r \in engine
  \/ \E w \in Workers : ending[w] = r
  \/ \E i \in 1..Len(queue) : queue[i] = r
  \/ got["handler"] = r
  \/ hreq = r

(* No two of the places where a request can be hold the same one. *)
PollAlone ==
  cur # NoReq => /\ cur \notin engine
                 /\ \A w \in Workers : ending[w] # cur
                 /\ \A i \in 1..Len(queue) : queue[i] # cur
                 /\ got["handler"] # cur /\ hreq # cur

EngineAlone ==
  \A r \in engine : /\ \A w \in Workers : ending[w] # r
                    /\ \A i \in 1..Len(queue) : queue[i] # r
                    /\ got["handler"] # r /\ hreq # r

EndingAlone ==
  \A w \in Workers : ending[w] # NoReq =>
    /\ \A v \in Workers : ending[v] = ending[w] => v = w
    /\ \A i \in 1..Len(queue) : queue[i] # ending[w]
    /\ got["handler"] # ending[w] /\ hreq # ending[w]

QueueAlone ==
  /\ \A i, j \in 1..Len(queue) : queue[i] = queue[j] => i = j
  /\ \A i \in 1..Len(queue) : got["handler"] # queue[i] /\ hreq # queue[i]
  /\ got["handler"] # NoReq => hreq # got["handler"]

Disjoint == PollAlone /\ EngineAlone /\ EndingAlone /\ QueueAlone

OwnedOK == Disjoint /\ \A r \in Reqs : r \in Live <=> Held(r)

(* Writes stay away from the handler. *)
WritesOK ==
  /\ \A i \in 1..Len(queue) : heap[queue[i]].type # WRITE
  /\ got["handler"] # NoReq => heap[got["handler"]].type # WRITE
  /\ hreq # NoReq => heap[hreq].type # WRITE

Inv == TypeOK /\ ThreadsOK /\ OwnedOK /\ WritesOK

-----------------------------------------------------------------------------
(* Constants *)

(* The type of a command's requests; only a DEL makes deletes. *)
LEMMA CommandTypes ==
  ASSUME NEW name \in Commands
  PROVE  /\ ReqType[name] \in {WRITE, READ, DELETE}
         /\ ReqType[name] = DELETE => name = "del"
<1>1. name \in {"set", "upt", "mset", "get", "mget", "del"}
  BY RequestsAssumption DEF ReqType
<1> QED  BY <1>1 DEF ReqType, WRITE, READ, DELETE

(* Of the assumption, what the proofs use. *)
LEMMA Constants ==
  /\ NoReq \notin Reqs /\ MaxBatch \in Nat \ {0}
  /\ Pools = {WRITE, READ} /\ Tags[WRITE] \subseteq Nat /\ Tags[READ] \subseteq Nat
  /\ WRITE = 1 /\ READ = 2 /\ DELETE = 3 /\ NOT_FOUND = 255
  BY RequestsAssumption DEF Pools, WRITE, READ, DELETE, NOT_FOUND

(* What a req_t that is not freed looks like. *)
ReqRecords ==
  [c : Clients, type : {WRITE, READ, DELETE, NOT_FOUND},
   tag : {0} \cup UNION {Tags[k] : k \in Pools}]

(* No value of a req_t looks like a freed one. *)
LEMMA FreedIsNoRecord == Freed \notin ReqRecords
  BY Constants DEF Freed, ReqRecords

(* A request that somebody has the address of is not freed. *)
LEMMA HeldIsLive ==
  ASSUME Inv, NEW r \in Reqs, Held(r)
  PROVE  r \in Live /\ heap[r] \in ReqRecords
  BY DEF Inv, OwnedOK, Live, TypeOK, ReqRecords

-----------------------------------------------------------------------------
(* Steps of the poll thread *)

(* Clients are accepted and closed, peers read and hang up: no request     *)
(* changes.                                                                *)
LEMMA ConnectionStep ==
  ASSUME Inv, NEW c \in Clients, Accept(c) \/ Disconnect(c) \/ HangUp(c) \/ ReadsReply(c)
  PROVE  Inv'
<1>1. /\ conn' \in [Clients -> {"none", "room", "full", "hung"}]
      /\ UNCHANGED <<heap, free, pc, cmd, left, cur, engine, ending, done, queue, got, hreq, hpc>>
  BY DEF Accept, Disconnect, HangUp, ReadsReply, poll, handler, workers, Inv, TypeOK
<1>2. TypeOK' /\ ThreadsOK' /\ OwnedOK' /\ WritesOK'
  BY <1>1 DEF Inv, TypeOK, ThreadsOK, OwnedOK, WritesOK, Disjoint, PollAlone, EngineAlone,
         EndingAlone, QueueAlone, Held, Live
<1> QED  BY <1>2 DEF Inv

(* exec_<name> begins. *)
LEMMA ExecStep ==
  ASSUME Inv, NEW c \in Clients, NEW name \in Commands, Exec(c, name)
  PROVE  Inv'
<1>1. /\ pc = "idle" /\ pc' = "alloc"
      /\ cmd' = [c |-> c, name |-> name]
      /\ left' \in 1..MaxBatch
      /\ UNCHANGED <<heap, free, conn, cur, engine, ending, done, queue, got, hreq, hpc>>
  BY Constants DEF Exec, Batch, handler, workers
<1>2. TypeOK'
  BY <1>1 DEF Inv, TypeOK
<1>3. ThreadsOK' /\ OwnedOK' /\ WritesOK'
  BY <1>1 DEF Inv, ThreadsOK, OwnedOK, WritesOK, Disjoint, PollAlone, EngineAlone,
         EndingAlone, QueueAlone, Held, Live
<1> QED  BY <1>2, <1>3 DEF Inv

(* alloc_req: the address was nowhere, now the poll thread has it. *)
LEMMA AllocReqStep ==
  ASSUME Inv, NEW r \in Reqs, AllocReq(r)
  PROVE  Inv'
<1> DEFINE new == [c |-> cmd.c, type |-> ReqType[cmd.name], tag |-> 0]
<1>1. /\ pc = "alloc" /\ pc' \in {"dma", "make"} /\ heap[r] = Freed
      /\ pc' = "dma" => ReqType[cmd.name] # DELETE
      /\ heap' = [heap EXCEPT ![r] = new]
      /\ cur' = r
      /\ UNCHANGED <<free, conn, cmd, left, engine, ending, done, queue, got, hreq, hpc>>
  BY DEF AllocReq, handler, workers
<1>2. /\ cmd \in [c : Clients, name : Commands] /\ left >= 1
      /\ ReqType[cmd.name] \in {WRITE, READ, DELETE}
  BY <1>1, CommandTypes DEF Inv, ThreadsOK
<1>3. new \in ReqRecords /\ new.c = cmd.c /\ new.type = ReqType[cmd.name] /\ new # Freed
  BY <1>2, FreedIsNoRecord DEF ReqRecords
<1>4. /\ heap'[r] = new
      /\ \A s \in Reqs : s # r => heap'[s] = heap[s]
      /\ heap' \in [Reqs -> {Freed} \cup ReqRecords]
  BY <1>1, <1>3 DEF Inv, TypeOK, ReqRecords
<1> HIDE DEF new
<1>5. ~Held(r) /\ cur = NoReq /\ r # NoReq
  BY <1>1, Constants DEF Inv, OwnedOK, Live, ThreadsOK
<1>6. Live' = Live \cup {r}
  BY <1>3, <1>4 DEF Live
<1>7. TypeOK'
  BY <1>1, <1>4 DEF Inv, TypeOK, ReqRecords
<1>8. ThreadsOK'
  BY <1>1, <1>2, <1>3, <1>4, <1>5 DEF Inv, ThreadsOK
<1>9. OwnedOK'
  <2>1. Disjoint'
    BY <1>1, <1>5 DEF Inv, OwnedOK, Disjoint, PollAlone, EngineAlone,
         EndingAlone, QueueAlone, Held
  <2>2. \A s \in Reqs : Held(s)' <=> Held(s) \/ s = r
    BY <1>1, <1>5, Constants DEF Held
  <2> QED  BY <1>6, <2>1, <2>2 DEF Inv, OwnedOK
<1>10. WritesOK'
  <2>2. /\ \A i \in 1..Len(queue) : queue[i] \in Reqs /\ queue[i] # r
        /\ got["handler"] # NoReq => got["handler"] \in Reqs /\ got["handler"] # r
        /\ hreq # NoReq => hreq \in Reqs /\ hreq # r
    BY <1>5 DEF Held, Inv, TypeOK
  <2> QED  BY <1>1, <1>4, <2>2 DEF Inv, WritesOK
<1> QED  BY <1>7, <1>8, <1>9, <1>10 DEF Inv

(* alloc_dma returns a buffer. *)
LEMMA AllocDmaStep ==
  ASSUME Inv, NEW t \in UNION {Tags[k] : k \in Pools}, AllocDma(t)
  PROVE  Inv'
<1>1. /\ pc = "dma" /\ pc' = "make"
      /\ free' = [free EXCEPT ![Pool(heap[cur].type)] = @ \ {t}]
      /\ heap' = [heap EXCEPT ![cur].tag = t]
      /\ UNCHANGED <<conn, cmd, left, cur, engine, ending, done, queue, got, hreq, hpc>>
  BY DEF AllocDma, handler, workers
<1>2. cur \in Reqs /\ cur \in Live /\ heap[cur] \in ReqRecords
  <2>1. cur # NoReq
    BY <1>1 DEF Inv, ThreadsOK
  <2>2. cur \in Reqs
    BY <2>1 DEF Inv, TypeOK
  <2> QED  BY <2>2, HeldIsLive DEF Held
<1>3. /\ heap'[cur] = [heap[cur] EXCEPT !.tag = t]
      /\ \A s \in Reqs : s # cur => heap'[s] = heap[s]
      /\ heap' \in [Reqs -> {Freed} \cup ReqRecords]
  BY <1>1, <1>2 DEF Inv, TypeOK, ReqRecords
<1>4. /\ heap'[cur] \in ReqRecords /\ heap'[cur] # Freed
      /\ heap'[cur].c = heap[cur].c /\ heap'[cur].type = heap[cur].type
  BY <1>2, <1>3, FreedIsNoRecord DEF ReqRecords
<1>5. Live' = Live
  BY <1>2, <1>3, <1>4 DEF Live
<1>6. free' \in [Pools -> SUBSET Nat]
  BY <1>1 DEF Inv, TypeOK
<1>7. TypeOK'
  BY <1>1, <1>3, <1>6 DEF Inv, TypeOK, ReqRecords
<1>8. ThreadsOK' /\ OwnedOK'
  BY <1>1, <1>5 DEF Inv, ThreadsOK, OwnedOK, Disjoint, PollAlone, EngineAlone,
         EndingAlone, QueueAlone, Held
<1>9. WritesOK'
  <2>1. \A s \in Reqs : heap'[s].c = heap[s].c /\ heap'[s].type = heap[s].type
    BY <1>3, <1>4
  <2> QED  BY <1>1, <1>5, <2>1 DEF Inv, WritesOK, TypeOK, Live
<1> QED  BY <1>7, <1>8, <1>9 DEF Inv

(* make_req: from the poll thread to the engine. *)
LEMMA MakeReqStep ==
  ASSUME Inv, MakeReq
  PROVE  Inv'
<1>1. /\ pc = "make" /\ engine' = engine \cup {cur} /\ cur' = NoReq /\ left' = left - 1
      /\ \/ left > 1 /\ pc' = "alloc" /\ cmd' = cmd
         \/ ~(left > 1) /\ pc' = "idle" /\ cmd' = <<>>
      /\ UNCHANGED <<heap, free, conn, ending, done, queue, got, hreq, hpc>>
  BY DEF MakeReq, handler, workers
<1>2. cur # NoReq /\ cur \in Reqs /\ left \in 1..MaxBatch /\ MaxBatch \in Nat
  BY <1>1, Constants DEF Inv, ThreadsOK, TypeOK
<1>3. TypeOK'
  BY <1>1, <1>2 DEF Inv, TypeOK
<1>4. ThreadsOK'
  BY <1>1, <1>2 DEF Inv, ThreadsOK
<1>5. OwnedOK'
  BY <1>1, <1>2, Constants DEF Inv, OwnedOK, Disjoint, PollAlone, EngineAlone,
         EndingAlone, QueueAlone, Held, Live
<1>6. WritesOK'
  BY <1>1 DEF Inv, WritesOK, Live
<1> QED  BY <1>3, <1>4, <1>5, <1>6 DEF Inv

-----------------------------------------------------------------------------
(* Steps of the engine's threads *)

(* free_req gives the buffer to the pool of its type, deletes included. *)
LEMMA FreeReqFacts ==
  ASSUME Inv, NEW r \in Reqs, heap[r] \in ReqRecords, FreeReq(r)
  PROVE  /\ free' = [free EXCEPT ![HomePool(r)] = @ \cup {heap[r].tag}]
         /\ HomePool(r) \in Pools
         /\ free' \in [Pools -> SUBSET Nat]
         /\ heap' \in [Reqs -> {Freed} \cup ReqRecords]
         /\ heap'[r] = Freed
         /\ \A s \in Reqs : s # r => heap'[s] = heap[s]
         /\ Live' = Live \ {r}
<1>1. FreedType(heap[r].type) = HomePool(r) /\ HomePool(r) \in Pools /\ HomePool(r) <= 2
  BY Constants DEF FreedType, HomePool
<1>2. free' = [free EXCEPT ![HomePool(r)] = @ \cup {heap[r].tag}]
  BY <1>1 DEF FreeReq, Pool
<1>3. heap[r].tag \in Nat
  BY Constants DEF ReqRecords
<1>4. free' \in [Pools -> SUBSET Nat]
  BY <1>1, <1>2, <1>3 DEF Inv, TypeOK
<1>5. /\ heap' \in [Reqs -> {Freed} \cup ReqRecords]
      /\ heap'[r] = Freed
      /\ \A s \in Reqs : s # r => heap'[s] = heap[s]
  BY DEF FreeReq, Inv, TypeOK, ReqRecords
<1>6. Live' = Live \ {r}
  BY <1>5 DEF Live
<1> QED  BY <1>1, <1>2, <1>4, <1>5, <1>6

(* The engine hands a finished request to end_req. *)
LEMMA EngineDoneStep ==
  ASSUME Inv, NEW w \in Workers, NEW r \in Reqs, EngineDone(w, r)
  PROVE  Inv'
<1>1. /\ ending[w] = NoReq /\ r \in engine
      /\ engine' = engine \ {r}
      /\ ending' = [ending EXCEPT ![w] = r]
      /\ \/ heap' = heap
         \/ heap[r].type = READ /\ heap' = [heap EXCEPT ![r].type = NOT_FOUND]
      /\ UNCHANGED <<free, conn, pc, cmd, left, cur, done, queue, got, hreq, hpc>>
  BY DEF EngineDone, poll, handler, workers
<1>2. r \in Live /\ heap[r] \in ReqRecords /\ r # NoReq
  BY <1>1, HeldIsLive, Constants DEF Held
<1>3. heap[r].type = READ /\ heap' = [heap EXCEPT ![r].type = NOT_FOUND] =>
        heap'[r] = [heap[r] EXCEPT !.type = NOT_FOUND]
  BY DEF Inv, TypeOK
<1>4. /\ heap'[r] \in ReqRecords /\ heap'[r].c = heap[r].c
      /\ heap'[r].type # WRITE <=> heap[r].type # WRITE
  BY <1>1, <1>2, <1>3, Constants DEF ReqRecords
<1>5. /\ \A s \in Reqs : s # r => heap'[s] = heap[s]
      /\ heap' \in [Reqs -> {Freed} \cup ReqRecords]
  BY <1>1, <1>2, <1>3, <1>4 DEF Inv, TypeOK, ReqRecords
<1>6. Live' = Live
  BY <1>2, <1>4, <1>5, FreedIsNoRecord DEF Live
<1>7. /\ ending'[w] = r
      /\ \A v \in Workers : v # w => ending'[v] = ending[v]
      /\ ending' \in [Workers -> Reqs \cup {NoReq}]
  BY <1>1 DEF Inv, TypeOK
<1>8. TypeOK'
  BY <1>1, <1>5, <1>7 DEF Inv, TypeOK, ReqRecords
<1>9. ThreadsOK'
  <2>1. cur # r
    BY <1>1, <1>2 DEF Inv, OwnedOK, Disjoint, PollAlone, EngineAlone,
         EndingAlone, QueueAlone
  <2> QED  BY <1>1, <1>5, <2>1 DEF Inv, ThreadsOK, TypeOK
<1>10. OwnedOK'
  <2>1. Disjoint'
    BY <1>1, <1>2, <1>7 DEF Inv, OwnedOK, Disjoint, PollAlone, EngineAlone,
         EndingAlone, QueueAlone
  <2>2. \A s \in Reqs : Held(s)' <=> Held(s)
    BY <1>1, <1>2, <1>7, Constants DEF Held
  <2> QED  BY <1>6, <2>1, <2>2 DEF Inv, OwnedOK
<1>11. WritesOK'
  <2>1. \A s \in Reqs : /\ heap'[s].c = heap[s].c
                        /\ heap'[s].type # WRITE <=> heap[s].type # WRITE
    BY <1>4, <1>5
  <2> QED  BY <1>1, <1>6, <2>1 DEF Inv, WritesOK, TypeOK, Live
<1> QED  BY <1>8, <1>9, <1>10, <1>11 DEF Inv

(* end_req frees a write: nobody else has it. *)
LEMMA EndReqWriteStep ==
  ASSUME Inv, NEW w \in Workers, EndReqWrite(w)
  PROVE  Inv'
<1> DEFINE r == ending[w]
<1>1. /\ r # NoReq /\ heap[r].type = WRITE /\ FreeReq(r)
      /\ ending' = [ending EXCEPT ![w] = NoReq]
      /\ UNCHANGED <<conn, pc, cmd, left, cur, engine, done, queue, got, hreq, hpc>>
  BY DEF EndReqWrite, poll, handler, workers
<1>2. r \in Reqs /\ Held(r)
  BY <1>1 DEF Inv, TypeOK, Held
<1>3. heap[r] \in ReqRecords
  BY <1>2, HeldIsLive
<1>4. /\ free' \in [Pools -> SUBSET Nat]
      /\ heap' \in [Reqs -> {Freed} \cup ReqRecords]
      /\ \A s \in Reqs : s # r => heap'[s] = heap[s]
      /\ Live' = Live \ {r}
  BY <1>1, <1>2, <1>3, FreeReqFacts
<1>5. /\ ending'[w] = NoReq
      /\ \A v \in Workers : v # w => ending'[v] = ending[v]
      /\ ending' \in [Workers -> Reqs \cup {NoReq}]
  BY <1>1 DEF Inv, TypeOK
<1>6. TypeOK'
  BY <1>1, <1>4, <1>5 DEF Inv, TypeOK, ReqRecords
<1>7. /\ cur # r /\ r \notin engine /\ got["handler"] # r /\ hreq # r
      /\ \A v \in Workers : v # w => ending[v] # r
      /\ \A i \in 1..Len(queue) : queue[i] # r
  BY <1>1 DEF Inv, OwnedOK, Disjoint, PollAlone, EngineAlone,
         EndingAlone, QueueAlone
<1>8. ThreadsOK'
  BY <1>1, <1>4, <1>7 DEF Inv, ThreadsOK, TypeOK
<1>9. OwnedOK'
  <2>1. PollAlone' /\ EngineAlone' /\ QueueAlone'
    BY <1>1, <1>5, Constants DEF Inv, TypeOK, OwnedOK, Disjoint, PollAlone, EngineAlone, QueueAlone
  <2>2. EndingAlone'
    BY <1>1, <1>5 DEF Inv, OwnedOK, Disjoint, EndingAlone
  <2>3. \A s \in Reqs : Held(s)' <=> Held(s) /\ s # r
    BY <1>1, <1>2, <1>5, <1>7, Constants DEF Held
  <2> QED  BY <1>4, <2>1, <2>2, <2>3 DEF Inv, OwnedOK, Disjoint
<1>10. WritesOK'
  BY <1>1, <1>4, <1>7 DEF Inv, WritesOK, TypeOK, Live
<1> QED  BY <1>6, <1>8, <1>9, <1>10 DEF Inv

(* end_req enqueues anything else. *)
LEMMA EndReqEnqueueStep ==
  ASSUME Inv, NEW w \in Workers, EndReqEnqueue(w)
  PROVE  Inv'
<1> DEFINE r == ending[w]
<1>1. /\ r # NoReq /\ heap[r].type # WRITE
      /\ queue' = Append(queue, r)
      /\ ending' = [ending EXCEPT ![w] = NoReq]
      /\ done' = [done EXCEPT ![w] = r]
      /\ UNCHANGED <<heap, free, conn, pc, cmd, left, cur, engine, got, hreq, hpc>>
  BY DEF EndReqEnqueue, EndReqQ!Put, poll, handler
<1>2. r \in Reqs
  BY <1>1 DEF Inv, TypeOK
<1>3. /\ queue' \in Seq(Reqs) /\ Len(queue') = Len(queue) + 1
      /\ queue'[Len(queue) + 1] = r
      /\ \A i \in 1..Len(queue) : queue'[i] = queue[i]
      /\ Len(queue) \in Nat
  BY <1>1, <1>2, AppendProperties DEF Inv, TypeOK
<1>4. /\ ending'[w] = NoReq
      /\ \A v \in Workers : v # w => ending'[v] = ending[v]
      /\ ending' \in [Workers -> Reqs \cup {NoReq}]
  BY <1>1 DEF Inv, TypeOK
<1>5. \A i \in 1..Len(queue') : i = Len(queue) + 1 \/ i \in 1..Len(queue)
  BY <1>3
<1>6. TypeOK'
  BY <1>1, <1>3, <1>4 DEF Inv, TypeOK
<1>7. ThreadsOK'
  BY <1>1 DEF Inv, ThreadsOK
<1> HIDE DEF r
<1>8. /\ cur # r /\ r \notin engine /\ got["handler"] # r /\ hreq # r
      /\ \A v \in Workers : v # w => ending[v] # r
      /\ \A i \in 1..Len(queue) : queue[i] # r
  BY <1>1 DEF Inv, OwnedOK, Disjoint, EndingAlone, PollAlone, EngineAlone, r
<1>9. Disjoint'
  <2>1. \A i, j \in 1..Len(queue') : queue'[i] = queue'[j] => i = j
    BY <1>3, <1>5, <1>8 DEF Inv, OwnedOK, Disjoint, PollAlone, EngineAlone,
         EndingAlone, QueueAlone
  <2>2. \A i \in 1..Len(queue') :
          \/ queue'[i] = r
          \/ \E j \in 1..Len(queue) : queue'[i] = queue[j]
    BY <1>3, <1>5
  <2>3. PollAlone' /\ EngineAlone'
    BY <1>1, <1>4, <1>8, <2>2, Constants
    DEF Inv, TypeOK, OwnedOK, Disjoint, PollAlone, EngineAlone
  <2>4. EndingAlone'
    BY <1>1, <1>4, <1>8, <2>2 DEF Inv, OwnedOK, Disjoint, EndingAlone
  <2>5. QueueAlone'
    BY <1>1, <1>8, <2>1, <2>2 DEF Inv, OwnedOK, Disjoint, QueueAlone
  <2> QED  BY <2>3, <2>4, <2>5 DEF Disjoint
<1>10. OwnedOK'
  <2>1. \A s \in Reqs : (\E i \in 1..Len(queue') : queue'[i] = s)
                         <=> s = r \/ \E i \in 1..Len(queue) : queue[i] = s
    <3>1. Len(queue) + 1 \in 1..Len(queue') /\ 1..Len(queue) \subseteq 1..Len(queue')
      BY <1>3
    <3> QED  BY <1>3, <1>5, <3>1
  <2>2. \A s \in Reqs : (\E v \in Workers : ending'[v] = s) \/ s = r
                         <=> \E v \in Workers : ending[v] = s
    BY <1>4, Constants DEF r
  <2>3. \A s \in Reqs : Held(s)' <=> Held(s)
    BY <1>1, <2>1, <2>2 DEF Held
  <2>4. Live' = Live
    BY <1>1 DEF Live
  <2> QED  BY <1>9, <2>3, <2>4 DEF Inv, OwnedOK
<1>11. WritesOK'
  BY <1>1, <1>3, <1>5 DEF Inv, WritesOK, Live
<1> QED  BY <1>6, <1>7, <1>10, <1>11 DEF Inv

(* It returns: nothing that it knew is used any more. *)
LEMMA EndReqReturnStep ==
  ASSUME Inv, NEW w \in Workers, EndReqReturn(w)
  PROVE  Inv'
<1>1. /\ done' \in [Workers -> Reqs \cup {NoReq}]
      /\ UNCHANGED <<heap, free, conn, pc, cmd, left, cur, engine, ending, queue, got, hreq, hpc>>
  BY DEF EndReqReturn, poll, handler, Inv, TypeOK
<1>2. TypeOK' /\ ThreadsOK' /\ OwnedOK' /\ WritesOK'
  BY <1>1 DEF Inv, TypeOK, ThreadsOK, OwnedOK, WritesOK, Disjoint, PollAlone, EngineAlone,
         EndingAlone, QueueAlone, Held, Live
<1> QED  BY <1>2 DEF Inv

-----------------------------------------------------------------------------
(* Steps of end_req_q_handler *)

(* dequeue takes the oldest request out of the queue. *)
LEMMA HandlerTakeStep ==
  ASSUME Inv, HandlerTake
  PROVE  Inv'
<1> DEFINE r == Head(queue)
<1>1. /\ hpc = "dequeue" /\ got["handler"] = NoReq /\ queue # <<>>
      /\ got' = [got EXCEPT !["handler"] = r]
      /\ queue' = Tail(queue)
      /\ UNCHANGED <<heap, free, conn, pc, cmd, left, cur, engine, ending, done, hreq, hpc>>
  BY DEF HandlerTake, EndReqQ!Take, poll, handler, workers
<1>2. /\ Len(queue) \in Nat /\ Len(queue) >= 1 /\ r = queue[1] /\ r \in Reqs
      /\ queue' \in Seq(Reqs) /\ Len(queue') = Len(queue) - 1
      /\ \A i \in 1..Len(queue') : queue'[i] = queue[i + 1]
  BY <1>1, HeadTailProperties DEF Inv, TypeOK
<1>3. got'["handler"] = r /\ got' \in [{"handler"} -> Reqs \cup {NoReq}]
  BY <1>1, <1>2 DEF Inv, TypeOK
<1>4. 1 \in 1..Len(queue) /\ \A i \in 1..Len(queue') : i + 1 \in 1..Len(queue) /\ i + 1 # 1
  BY <1>2
<1>5. \A i \in 1..Len(queue) : i = 1 \/ \E j \in 1..Len(queue') : i = j + 1
  <2>1. SUFFICES ASSUME NEW i \in 1..Len(queue), i # 1
                 PROVE  \E j \in 1..Len(queue') : i = j + 1
    OBVIOUS
  <2>2. i - 1 \in 1..Len(queue') /\ i = (i - 1) + 1
    BY <1>2, <2>1
  <2> QED  BY <2>2
<1>6. r # NoReq /\ hreq = NoReq
  BY <1>1, <1>2, Constants DEF Inv, ThreadsOK
<1> HIDE DEF r
<1>7. TypeOK'
  BY <1>1, <1>2, <1>3 DEF Inv, TypeOK
<1>8. ThreadsOK'
  BY <1>1, <1>3 DEF Inv, ThreadsOK
<1>9. Disjoint'
  <2>1. \A i \in 1..Len(queue') : \E j \in 1..Len(queue) : queue'[i] = queue[j]
    BY <1>2, <1>4
  <2>2. PollAlone' /\ EngineAlone'
    BY <1>1, <1>2, <1>3, <1>4, <2>1 DEF Inv, OwnedOK, Disjoint, PollAlone, EngineAlone
  <2>3. EndingAlone'
    BY <1>1, <1>2, <1>3, <1>4, <2>1 DEF Inv, OwnedOK, Disjoint, EndingAlone
  <2>4. QueueAlone'
    <3>1. \A i, j \in 1..Len(queue') : queue'[i] = queue'[j] => i = j
      <4>1. SUFFICES ASSUME NEW i \in 1..Len(queue'), NEW j \in 1..Len(queue'),
                            queue'[i] = queue'[j]
                     PROVE  i = j
        OBVIOUS
      <4>2. i + 1 = j + 1
        BY <1>2, <1>4, <4>1 DEF Inv, OwnedOK, Disjoint, QueueAlone
      <4> QED  BY <4>2
    <3>2. \A i \in 1..Len(queue') : r # queue'[i]
      BY <1>2, <1>4 DEF Inv, OwnedOK, Disjoint, QueueAlone
    <3>3. \A i \in 1..Len(queue') : hreq # queue'[i]
      BY <2>1 DEF Inv, OwnedOK, Disjoint, QueueAlone
    <3> QED  BY <1>1, <1>3, <1>6, <3>1, <3>2, <3>3 DEF QueueAlone
  <2> QED  BY <2>2, <2>3, <2>4 DEF Disjoint
<1>10. OwnedOK'
  <2>1. \A s \in Reqs : (\E i \in 1..Len(queue) : queue[i] = s)
                         <=> s = r \/ \E i \in 1..Len(queue') : queue'[i] = s
    <3>1. \A i \in 1..Len(queue) :
            queue[i] = r \/ \E j \in 1..Len(queue') : queue'[j] = queue[i]
      BY <1>2, <1>5
    <3>2. \E i \in 1..Len(queue) : queue[i] = r
      BY <1>2, <1>4
    <3>3. \A j \in 1..Len(queue') : \E i \in 1..Len(queue) : queue[i] = queue'[j]
      BY <1>2, <1>4
    <3> QED  BY <3>1, <3>2, <3>3
  <2>2. \A s \in Reqs : Held(s)' <=> Held(s)
    BY <1>1, <1>3, <2>1, Constants DEF Held
  <2>3. Live' = Live
    BY <1>1 DEF Live
  <2> QED  BY <1>9, <2>2, <2>3 DEF Inv, OwnedOK
<1>11. WritesOK'
  BY <1>1, <1>2, <1>3, <1>4 DEF Inv, WritesOK, Live
<1> QED  BY <1>7, <1>8, <1>10, <1>11 DEF Inv

(* dequeue returns it. *)
LEMMA HandlerDequeuedStep ==
  ASSUME Inv, HandlerDequeued
  PROVE  Inv'
<1>1. /\ hpc = "dequeue" /\ hpc' = "reply" /\ got["handler"] # NoReq
      /\ got' = [got EXCEPT !["handler"] = NoReq]
      /\ hreq' = got["handler"]
      /\ UNCHANGED <<heap, free, conn, pc, cmd, left, cur, engine, ending, done, queue>>
  BY DEF HandlerDequeued, EndReqQ!Return, poll, workers
<1>2. got'["handler"] = NoReq /\ got["handler"] \in Reqs /\ hreq = NoReq
  BY <1>1 DEF Inv, TypeOK, ThreadsOK
<1>3. TypeOK'
  BY <1>1, <1>2 DEF Inv, TypeOK
<1>4. ThreadsOK'
  BY <1>1, <1>2, Constants DEF Inv, ThreadsOK
<1>5. Disjoint'
  <2>1. PollAlone' /\ EngineAlone'
    BY <1>1, <1>2, Constants DEF Inv, TypeOK, OwnedOK, Disjoint, PollAlone, EngineAlone
  <2>2. EndingAlone'
    BY <1>1, <1>2 DEF Inv, OwnedOK, Disjoint, EndingAlone
  <2>3. \A i \in 1..Len(queue) : queue[i] # NoReq
    BY Constants DEF Inv, TypeOK
  <2>4. QueueAlone'
    BY <1>1, <1>2, <2>3 DEF Inv, OwnedOK, Disjoint, QueueAlone
  <2> QED  BY <2>1, <2>2, <2>4 DEF Disjoint
<1>6. OwnedOK'
  <2>1. \A s \in Reqs : Held(s)' <=> Held(s)
    BY <1>1, <1>2, Constants DEF Held
  <2>2. Live' = Live
    BY <1>1 DEF Live
  <2> QED  BY <1>5, <2>1, <2>2 DEF Inv, OwnedOK
<1>7. WritesOK'
  BY <1>1, <1>2 DEF Inv, WritesOK, Live
<1> QED  BY <1>3, <1>4, <1>6, <1>7 DEF Inv

(* The answer is written and the client cleared: never for a write. *)
LEMMA HandlerReplyStep ==
  ASSUME Inv, HandlerReply \/ HandlerClear
  PROVE  Inv'
<1>1. /\ hpc \in {"reply", "clear"} /\ hpc' \in {"clear", "free", "ended"}
      /\ conn' \in [Clients -> {"none", "room", "full", "hung"}]
      /\ UNCHANGED <<heap, free, pc, cmd, left, cur, engine, ending, done, queue, got, hreq>>
  BY DEF HandlerReply, HandlerClear, poll, workers, Inv, TypeOK, ThreadsOK, WritesOK
<1>2. TypeOK' /\ ThreadsOK'
  BY <1>1 DEF Inv, TypeOK, ThreadsOK
<1>3. OwnedOK' /\ WritesOK'
  BY <1>1 DEF Inv, OwnedOK, WritesOK, Disjoint, PollAlone, EngineAlone, EndingAlone,
              QueueAlone, Held, Live
<1> QED  BY <1>2, <1>3 DEF Inv

(* The handler frees the request: nobody else has it. *)
LEMMA HandlerFreeStep ==
  ASSUME Inv, HandlerFree
  PROVE  Inv'
<1>1. /\ hpc = "free" /\ hpc' = "dequeue" /\ FreeReq(hreq) /\ hreq' = NoReq
      /\ UNCHANGED <<conn, pc, cmd, left, cur, engine, ending, done, queue, got>>
  BY DEF HandlerFree, poll, workers
<1>2. hreq \in Reqs /\ hreq # NoReq /\ Held(hreq) /\ got["handler"] = NoReq
  BY <1>1 DEF Inv, TypeOK, ThreadsOK, Held
<1>3. heap[hreq] \in ReqRecords
  BY <1>2, HeldIsLive
<1>4. /\ free' \in [Pools -> SUBSET Nat]
      /\ heap' \in [Reqs -> {Freed} \cup ReqRecords]
      /\ \A s \in Reqs : s # hreq => heap'[s] = heap[s]
      /\ Live' = Live \ {hreq}
  BY <1>1, <1>2, <1>3, FreeReqFacts
<1>5. /\ cur # hreq /\ hreq \notin engine
      /\ \A v \in Workers : ending[v] # hreq
      /\ \A i \in 1..Len(queue) : queue[i] # hreq
  BY <1>2 DEF Inv, OwnedOK, Disjoint, PollAlone, EngineAlone, EndingAlone, QueueAlone
<1>6. TypeOK'
  BY <1>1, <1>4 DEF Inv, TypeOK, ReqRecords
<1>7. ThreadsOK'
  BY <1>1, <1>4, <1>5 DEF Inv, ThreadsOK, TypeOK
<1>8. Disjoint'
  <2>1. PollAlone' /\ EngineAlone' /\ EndingAlone'
    BY <1>1, Constants
    DEF Inv, TypeOK, OwnedOK, Disjoint, PollAlone, EngineAlone, EndingAlone
  <2>2. \A i \in 1..Len(queue) : queue[i] # NoReq
    BY Constants DEF Inv, TypeOK
  <2>3. QueueAlone'
    BY <1>1, <1>2, <2>2 DEF Inv, OwnedOK, Disjoint, QueueAlone
  <2> QED  BY <2>1, <2>3 DEF Disjoint
<1>9. OwnedOK'
  <2>1. \A s \in Reqs : Held(s)' <=> Held(s) /\ s # hreq
    BY <1>1, <1>2, <1>5, Constants DEF Held
  <2> QED  BY <1>4, <1>8, <2>1 DEF Inv, OwnedOK
<1>10. WritesOK'
  BY <1>1, <1>2, <1>4, <1>5 DEF Inv, WritesOK, TypeOK, Live
<1> QED  BY <1>6, <1>7, <1>9, <1>10 DEF Inv

-----------------------------------------------------------------------------
(* Theorems *)

(* At the start nothing is allocated. *)
LEMMA InvInit == Init => Inv
<1> SUFFICES ASSUME Init PROVE Inv
  OBVIOUS
<1>1. queue = <<>> /\ got = [x \in {"handler"} |-> NoReq]
  BY DEF Init, EndReqQ!Init
<1>2. TypeOK
  BY <1>1, RequestsAssumption DEF Init, TypeOK
<1>3. ThreadsOK
  BY <1>1 DEF Init, ThreadsOK
<1>4. OwnedOK
  BY <1>1, Constants DEF Init, OwnedOK, Disjoint, PollAlone, EngineAlone, EndingAlone,
                         QueueAlone, Held, Live
<1>5. WritesOK
  BY <1>1 DEF Init, WritesOK, Live
<1> QED  BY <1>2, <1>3, <1>4, <1>5 DEF Inv

(* Every step of every thread keeps the invariant. *)
LEMMA InvStep == Inv /\ [Next]_vars => Inv'
<1> SUFFICES ASSUME Inv, [Next]_vars PROVE Inv'
  OBVIOUS
<1>1. CASE UNCHANGED vars \/ Ended
  BY <1>1 DEF Ended, vars, Inv, TypeOK, ThreadsOK, OwnedOK, WritesOK, Disjoint, PollAlone,
              EngineAlone, EndingAlone, QueueAlone, Held, Live
<1>2. CASE PollThread \/ Peers
  BY <1>2, ConnectionStep, ExecStep, AllocReqStep, AllocDmaStep, MakeReqStep DEF PollThread, Peers
<1>3. ASSUME NEW w \in Workers, EndReq(w) \/ \E r \in Reqs : EngineDone(w, r)
      PROVE  Inv'
  BY <1>3, EndReqWriteStep, EndReqEnqueueStep, EndReqReturnStep, EngineDoneStep DEF EndReq
<1>4. CASE Handler
  BY <1>4, HandlerTakeStep, HandlerDequeuedStep, HandlerReplyStep, HandlerFreeStep DEF Handler
<1> QED  BY <1>1, <1>2, <1>3, <1>4 DEF Next

LEMMA Invariant == Spec => []Inv
  BY InvInit, InvStep, PTL DEF Spec

(* The types of the requests, buffers and places. *)
THEOREM TypeCorrect == Spec => []TypeOK
<1>1. Inv => TypeOK
  BY DEF Inv
<1> QED  BY <1>1, Invariant, PTL

(* A write is never in the queue nor with the handler, so that a peer that *)
(* only writes may hang up whenever it likes.                              *)
THEOREM WritersMayHangUp == Spec => []WritesStayOff
<1>1. Inv => WritesStayOff
  <2> SUFFICES ASSUME Inv, NEW r \in Live, heap[r].type = WRITE
               PROVE  r \notin {queue[i] : i \in DOMAIN queue} \cup {got["handler"], hreq}
    BY DEF WritesStayOff
  <2>1. DOMAIN queue = 1..Len(queue) /\ r # NoReq
    BY Constants DEF Inv, TypeOK, Live
  <2> QED  BY <2>1 DEF Inv, WritesOK
<1> QED  BY <1>1, Invariant, PTL

(* A request that is allocated is in one place, one that is freed in none. *)
LEMMA InvOneOwner == Inv => OneOwner
<1> SUFFICES ASSUME Inv, NEW r \in Reqs
             PROVE  Owners(r) = IF r \in Live THEN 1 ELSE 0
  BY DEF OneOwner
<1> DEFINE W == {w \in Workers : ending[w] = r}
           Q == {i \in DOMAIN queue : queue[i] = r}
           T == {x \in {"poll"} : cur = r} \cup {x \in {"engine"} : r \in engine}
                \cup {x \in {"dequeue"} : got["handler"] = r}
                \cup {x \in {"handler"} : hreq = r}
<1>0. /\ r # NoReq /\ DOMAIN queue = 1..Len(queue)
      /\ r \in Live <=> Held(r)
  BY Constants DEF Inv, TypeOK, OwnedOK
<1>1. Cardinality({}) = 0 /\ \A x : Cardinality({x}) = 1
  BY FS_EmptySet, FS_Singleton
<1>2. Owners(r) = Cardinality(W) + Cardinality(Q) + Cardinality(T)
  BY DEF Owners
<1>3. CASE ~Held(r)
  <2>1. W = {} /\ Q = {} /\ T = {}
    BY <1>0, <1>3 DEF Held
  <2> HIDE DEF W, Q, T
  <2> QED  BY <1>0, <1>1, <1>2, <1>3, <2>1
<1>4. ASSUME NEW w \in Workers, ending[w] = r
      PROVE  Owners(r) = 1
  <2>1. W = {w} /\ Q = {} /\ T = {}
    BY <1>0, <1>4 DEF Inv, OwnedOK, Disjoint, PollAlone, EngineAlone, EndingAlone
  <2> HIDE DEF W, Q, T
  <2>2. Cardinality({w}) = 1
    BY <1>1, Zenon
  <2>3. Cardinality(W) = 1
    BY <2>1, <2>2
  <2>4. Cardinality(Q) = 0 /\ Cardinality(T) = 0
    BY <1>1, <2>1
  <2> QED  BY <1>2, <2>3, <2>4
<1>5. ASSUME NEW i \in 1..Len(queue), queue[i] = r
      PROVE  Owners(r) = 1
  <2>1. W = {} /\ Q = {i} /\ T = {}
    BY <1>0, <1>5
    DEF Inv, OwnedOK, Disjoint, PollAlone, EngineAlone, EndingAlone, QueueAlone
  <2> HIDE DEF W, Q, T
  <2>2. Cardinality({i}) = 1
    BY <1>1, Zenon
  <2>3. Cardinality(Q) = 1
    BY <2>1, <2>2
  <2>4. Cardinality(W) = 0 /\ Cardinality(T) = 0
    BY <1>1, <2>1
  <2> QED  BY <1>2, <2>3, <2>4
<1>6. ASSUME cur = r
      PROVE  Owners(r) = 1
  <2>1. W = {} /\ Q = {} /\ T = {"poll"}
    BY <1>0, <1>6 DEF Inv, OwnedOK, Disjoint, PollAlone
  <2> HIDE DEF W, Q, T
  <2>2. Cardinality({"poll"}) = 1
    BY <1>1, Zenon
  <2>3. Cardinality(T) = 1
    BY <2>1, <2>2
  <2>4. Cardinality(W) = 0 /\ Cardinality(Q) = 0
    BY <1>1, <2>1
  <2> QED  BY <1>2, <2>3, <2>4
<1>7. ASSUME r \in engine
      PROVE  Owners(r) = 1
  <2>1. W = {} /\ Q = {} /\ T = {"engine"}
    BY <1>0, <1>7 DEF Inv, OwnedOK, Disjoint, PollAlone, EngineAlone
  <2> HIDE DEF W, Q, T
  <2>2. Cardinality({"engine"}) = 1
    BY <1>1, Zenon
  <2>3. Cardinality(T) = 1
    BY <2>1, <2>2
  <2>4. Cardinality(W) = 0 /\ Cardinality(Q) = 0
    BY <1>1, <2>1
  <2> QED  BY <1>2, <2>3, <2>4
<1>8. ASSUME got["handler"] = r
      PROVE  Owners(r) = 1
  <2>1. W = {} /\ Q = {} /\ T = {"dequeue"}
    BY <1>0, <1>8
    DEF Inv, OwnedOK, Disjoint, PollAlone, EngineAlone, EndingAlone, QueueAlone
  <2> HIDE DEF W, Q, T
  <2>2. Cardinality({"dequeue"}) = 1
    BY <1>1, Zenon
  <2>3. Cardinality(T) = 1
    BY <2>1, <2>2
  <2>4. Cardinality(W) = 0 /\ Cardinality(Q) = 0
    BY <1>1, <2>1
  <2> QED  BY <1>2, <2>3, <2>4
<1>9. ASSUME hreq = r
      PROVE  Owners(r) = 1
  <2>1. W = {} /\ Q = {} /\ T = {"handler"}
    BY <1>0, <1>9
    DEF Inv, OwnedOK, Disjoint, PollAlone, EngineAlone, EndingAlone, QueueAlone
  <2> HIDE DEF W, Q, T
  <2>2. Cardinality({"handler"}) = 1
    BY <1>1, Zenon
  <2>3. Cardinality(T) = 1
    BY <2>1, <2>2
  <2>4. Cardinality(W) = 0 /\ Cardinality(Q) = 0
    BY <1>1, <2>1
  <2> QED  BY <1>2, <2>3, <2>4
<1> QED  BY <1>0, <1>3, <1>4, <1>5, <1>6, <1>7, <1>8, <1>9 DEF Held

(* A request has one owner from alloc_req to free_req, whatever the        *)
(* threads, the engine and the queue between them do: nobody uses one that *)
(* is freed, and none is lost.                                             *)
THEOREM OwnerUnique == Spec => []OneOwner
  BY InvOneOwner, Invariant, PTL

-----------------------------------------------------------------------------
(* DMA buffers, as long as nobody sends a DEL *)

NoDeletes == \A r \in Live : heap[r].type # DELETE

(* Request r has buffer t of pool k. *)
HasTag(r, k, t) == r \in Buffered /\ HomePool(r) = k /\ heap[r].tag = t

(* TagsAccounted, tag by tag. *)
TagwiseOK ==
  /\ \A r \in Reqs, k \in Pools, t \in Nat : HasTag(r, k, t) => t \notin free[k]
  /\ \A r, s \in Reqs, k \in Pools, t \in Nat : HasTag(r, k, t) /\ HasTag(s, k, t) => r = s
  /\ \A k \in Pools, t \in Nat :
        t \in Tags[k] <=> t \in free[k] \/ \E r \in Reqs : HasTag(r, k, t)

TagInv == Inv /\ NoDeletes /\ TagwiseOK

(* A request that has a buffer has it in one of the two pools. *)
LEMMA BufferedFacts ==
  ASSUME Inv, NEW r \in Buffered
  PROVE  /\ r \in Reqs /\ r \in Live /\ heap[r] \in ReqRecords
         /\ HomePool(r) \in Pools /\ heap[r].tag \in Nat
<1>1. r \in Reqs /\ r \in Live /\ heap[r] \in ReqRecords
  BY DEF Buffered, Live, Inv, TypeOK, ReqRecords
<1> QED  BY <1>1, Constants DEF HomePool, ReqRecords

(* Tag by tag is what TagsAccounted says. *)
LEMMA TagwiseImplies == TagInv => TagsAccounted
<1> SUFFICES ASSUME TagInv PROVE TagsAccounted
  OBVIOUS
<1>1. Inv /\ TagwiseOK
  BY DEF TagInv
<1>2. \A r \in Buffered : /\ r \in Reqs /\ HomePool(r) \in Pools /\ heap[r].tag \in Nat
                          /\ HasTag(r, HomePool(r), heap[r].tag)
  BY <1>1, BufferedFacts DEF HasTag
<1>3. \A r \in Buffered : heap[r].tag \notin free[HomePool(r)]
  BY <1>1, <1>2 DEF TagwiseOK
<1>4. \A r, s \in Buffered :
        heap[r].tag = heap[s].tag /\ HomePool(r) = HomePool(s) => r = s
  <2>1. SUFFICES ASSUME NEW r \in Buffered, NEW s \in Buffered,
                        heap[r].tag = heap[s].tag, HomePool(r) = HomePool(s)
                 PROVE  r = s
    OBVIOUS
  <2>2. HasTag(r, HomePool(r), heap[r].tag) /\ HasTag(s, HomePool(r), heap[r].tag)
    BY <1>2, <2>1
  <2> QED  BY <1>1, <1>2, <2>2 DEF TagwiseOK
<1>5. ASSUME NEW k \in Pools
      PROVE  Tags[k] = free[k] \cup {heap[r].tag : r \in {s \in Buffered : HomePool(s) = k}}
  <2>1. free[k] \subseteq Nat /\ Tags[k] \subseteq Nat
    BY <1>1, RequestsAssumption DEF Inv, TypeOK
  <2>2. \A t \in Nat : t \in Tags[k] <=> t \in free[k] \/ \E r \in Reqs : HasTag(r, k, t)
    BY <1>1 DEF TagwiseOK
  <2>3. \A t : (\E r \in Reqs : HasTag(r, k, t))
               <=> t \in {heap[r].tag : r \in {s \in Buffered : HomePool(s) = k}}
    BY <1>2 DEF HasTag
  <2>4. \A t \in {heap[r].tag : r \in {s \in Buffered : HomePool(s) = k}} : t \in Nat
    BY <1>2
  <2> QED  BY <2>1, <2>2, <2>3, <2>4
<1> QED  BY <1>3, <1>4, <1>5 DEF TagsAccounted

(* A step that moves no buffer. *)
LEMMA TagsFrame ==
  ASSUME TagwiseOK, UNCHANGED free,
         \A r \in Reqs, k \in Pools, t \in Nat : HasTag(r, k, t)' <=> HasTag(r, k, t)
  PROVE  TagwiseOK'
  BY DEF TagwiseOK

(* alloc_dma takes a buffer out of its pool. *)
LEMMA TagsAlloc ==
  ASSUME TagInv, Inv', NEW t \in UNION {Tags[k] : k \in Pools}, AllocDma(t)
  PROVE  TagwiseOK' /\ NoDeletes'
<1> DEFINE p == heap[cur].type
<1>1. /\ pc = "dma" /\ pc' = "make" /\ t \in free[p]
      /\ free' = [free EXCEPT ![p] = @ \ {t}]
      /\ heap' = [heap EXCEPT ![cur].tag = t]
      /\ UNCHANGED cur
  BY DEF AllocDma, Pool
<1>2. /\ cur \in Reqs /\ cur \in Live /\ heap[cur] \in ReqRecords /\ p \in Pools
      /\ t \in Nat
  <2>1. cur # NoReq /\ p \in Pools
    BY <1>1, Constants DEF TagInv, Inv, ThreadsOK
  <2>2. cur \in Reqs
    BY <2>1 DEF TagInv, Inv, TypeOK
  <2>3. t \in Nat
    BY <1>1, <2>1 DEF TagInv, Inv, TypeOK
  <2> QED  BY <2>1, <2>2, <2>3, HeldIsLive DEF Held, TagInv
<1>3. /\ heap'[cur].type = p /\ heap'[cur].tag = t /\ heap'[cur].c = heap[cur].c
      /\ \A s \in Reqs : s # cur => heap'[s] = heap[s]
  BY <1>1, <1>2 DEF TagInv, Inv, TypeOK, ReqRecords
<1>4. Live' = Live
  <2>1. heap'[cur] # Freed
    BY <1>2, <1>3, Constants DEF Freed, ReqRecords
  <2> QED  BY <1>2, <1>3, <2>1 DEF Live
<1>5. HomePool(cur) = p /\ p # DELETE
  BY <1>2, Constants DEF HomePool
<1> HIDE DEF p
<1>6. Buffered' = Buffered \cup {cur} /\ cur \notin Buffered
  BY <1>1, <1>2, <1>3, <1>4, <1>5 DEF Buffered, Live
<1>7. /\ free'[p] = free[p] \ {t}
      /\ \A k \in Pools : k # p => free'[k] = free[k]
  BY <1>1, <1>2 DEF TagInv, Inv, TypeOK
<1>8. \A s \in Reqs, k \in Pools, u \in Nat :
        HasTag(s, k, u)' <=> HasTag(s, k, u) \/ (s = cur /\ k = p /\ u = t)
  <2>1. HomePool(cur)' = p
    BY <1>1, <1>2, <1>3, <1>5 DEF HomePool
  <2>2. \A s \in Reqs : s # cur => HomePool(s)' = HomePool(s)
    BY <1>3 DEF HomePool
  <2>3. \A s \in Reqs : s # cur => (s \in Buffered' <=> s \in Buffered)
    BY <1>6
  <2>4. \A s \in Reqs, k \in Pools, u \in Nat :
           s # cur => (HasTag(s, k, u)' <=> HasTag(s, k, u))
    BY <1>1, <1>3, <2>2, <2>3 DEF HasTag
  <2>5. \A k \in Pools, u \in Nat : HasTag(cur, k, u)' <=> (k = p /\ u = t)
    BY <1>1, <1>3, <1>6, <2>1 DEF HasTag
  <2>6. \A k \in Pools, u \in Nat : ~HasTag(cur, k, u)
    BY <1>6 DEF HasTag
  <2> QED  BY <1>1, <2>4, <2>5, <2>6
<1>9. TagwiseOK'
  <2>1. t \in free[p] /\ t \in Tags[p]
    BY <1>1, <1>2 DEF TagInv, TagwiseOK, p
  <2> QED  BY <1>2, <1>7, <1>8, <2>1 DEF TagInv, TagwiseOK
<1>10. NoDeletes'
  BY <1>2, <1>3, <1>4, <1>5 DEF TagInv, NoDeletes, Live
<1> QED  BY <1>9, <1>10

(* free_req puts it back where it came from. *)
LEMMA TagsFree ==
  ASSUME TagInv, NEW r \in Reqs, Held(r), cur # r, FreeReq(r), UNCHANGED <<pc, cur>>
  PROVE  TagwiseOK' /\ NoDeletes'
<1> DEFINE p == HomePool(r)
           u == heap[r].tag
<1>1. Inv
  BY DEF TagInv
<1>2. r \in Live /\ heap[r] \in ReqRecords
  BY <1>1, HeldIsLive
<1>3. /\ free' = [free EXCEPT ![p] = @ \cup {u}]
      /\ p \in Pools
      /\ heap'[r] = Freed
      /\ \A s \in Reqs : s # r => heap'[s] = heap[s]
      /\ Live' = Live \ {r}
  BY <1>1, <1>2, FreeReqFacts
<1>4. r \in Buffered /\ u \in Nat
  <2>1. r \in Buffered
    BY <1>2 DEF Buffered, TagInv, NoDeletes
  <2> QED  BY <1>1, <2>1, BufferedFacts
<1>5. Buffered' = Buffered \ {r}
  BY <1>3 DEF Buffered, Live
<1>6. HasTag(r, p, u)
  BY <1>4 DEF HasTag
<1> HIDE DEF p, u
<1>7. /\ free'[p] = free[p] \cup {u}
      /\ \A k \in Pools : k # p => free'[k] = free[k]
  BY <1>3 DEF TagInv, Inv, TypeOK
<1>8. \A s \in Reqs, k \in Pools, t \in Nat :
        HasTag(s, k, t)' <=> HasTag(s, k, t) /\ s # r
  <2>1. \A s \in Reqs : s # r => HomePool(s)' = HomePool(s)
    BY <1>3 DEF HomePool
  <2> QED  BY <1>3, <1>5, <2>1 DEF HasTag
<1>9. \A k \in Pools, t \in Nat : HasTag(r, k, t) <=> k = p /\ t = u
  BY <1>6 DEF HasTag
<1>10. TagwiseOK'
  BY <1>3, <1>4, <1>7, <1>8, <1>9 DEF TagInv, TagwiseOK
<1>11. NoDeletes'
  BY <1>3 DEF TagInv, NoDeletes, Live
<1> QED  BY <1>10, <1>11

(* The other steps move no buffer: alloc_req gives none, a miss leaves a   *)
(* read in the pool of the reads.                                          *)
LEMMA TagsStep ==
  ASSUME "del" \notin Commands, TagInv, Inv', [Next]_vars
  PROVE  TagwiseOK' /\ NoDeletes'
<1>0. Inv /\ NoDeletes /\ TagwiseOK
  BY DEF TagInv
<1>1. CASE UNCHANGED <<heap, free, pc, cur>>
  <2>1. \A r \in Reqs, k \in Pools, t \in Nat : HasTag(r, k, t)' <=> HasTag(r, k, t)
    BY <1>1 DEF HasTag, Buffered, Live, HomePool
  <2> QED  BY <1>0, <1>1, <2>1, TagsFrame DEF NoDeletes, Live
<1>2. ASSUME NEW c \in Clients, NEW name \in Commands, Exec(c, name)
      PROVE  TagwiseOK' /\ NoDeletes'
  <2>1. pc # "dma" /\ pc' # "dma" /\ UNCHANGED <<heap, free, cur>>
    BY <1>2 DEF Exec
  <2>2. \A r \in Reqs, k \in Pools, t \in Nat : HasTag(r, k, t)' <=> HasTag(r, k, t)
    BY <2>1 DEF HasTag, Buffered, Live, HomePool
  <2> QED  BY <1>0, <2>1, <2>2, TagsFrame DEF NoDeletes, Live
<1>3. ASSUME NEW r \in Reqs, AllocReq(r)
      PROVE  TagwiseOK' /\ NoDeletes'
  <2>1. /\ pc = "alloc" /\ heap[r] = Freed
        /\ pc' = IF ReqType[cmd.name] = DELETE THEN "make" ELSE "dma"
        /\ heap' = [heap EXCEPT ![r] = [c |-> cmd.c, type |-> ReqType[cmd.name], tag |-> 0]]
        /\ cur' = r /\ UNCHANGED free
    BY <1>3 DEF AllocReq
  <2>2. ReqType[cmd.name] # DELETE /\ pc' = "dma"
    BY <1>0, <2>1, CommandTypes DEF Inv, ThreadsOK
  <2>3. /\ heap'[r].type = ReqType[cmd.name]
        /\ \A s \in Reqs : s # r => heap'[s] = heap[s]
    BY <1>0, <2>1 DEF Inv, TypeOK
  <2>4. r \notin Buffered /\ r \notin Buffered'
    BY <2>1, <2>2 DEF Buffered, Live
  <2>5. \A s \in Reqs : s # r => /\ HomePool(s)' = HomePool(s)
                                 /\ s \in Buffered' <=> s \in Buffered
    BY <2>1, <2>2, <2>3 DEF HomePool, Buffered, Live
  <2>6. \A s \in Reqs, k \in Pools, t \in Nat : HasTag(s, k, t)' <=> HasTag(s, k, t)
    BY <2>3, <2>4, <2>5 DEF HasTag
  <2> QED  BY <1>0, <2>1, <2>2, <2>3, <2>6, TagsFrame DEF NoDeletes, Live
<1>4. ASSUME NEW t \in UNION {Tags[k] : k \in Pools}, AllocDma(t)
      PROVE  TagwiseOK' /\ NoDeletes'
  BY <1>4, TagsAlloc
<1>5. CASE MakeReq
  <2>1. pc = "make" /\ pc' # "dma" /\ UNCHANGED <<heap, free>>
    BY <1>5 DEF MakeReq
  <2>2. \A r \in Reqs, k \in Pools, t \in Nat : HasTag(r, k, t)' <=> HasTag(r, k, t)
    BY <2>1 DEF HasTag, Buffered, Live, HomePool
  <2> QED  BY <1>0, <2>1, <2>2, TagsFrame DEF NoDeletes, Live
<1>6. ASSUME NEW w \in Workers, NEW r \in Reqs, EngineDone(w, r)
      PROVE  TagwiseOK' /\ NoDeletes'
  <2>1. /\ r \in engine /\ UNCHANGED <<free, pc, cur>>
        /\ \/ heap' = heap
           \/ heap[r].type = READ /\ heap' = [heap EXCEPT ![r].type = NOT_FOUND]
    BY <1>6 DEF EngineDone, poll
  <2>2. heap[r] \in ReqRecords
    BY <1>0, <2>1, HeldIsLive DEF Held
  <2>3. CASE heap' = heap
    BY <1>1, <2>1, <2>3
  <2>4. CASE heap[r].type = READ /\ heap' = [heap EXCEPT ![r].type = NOT_FOUND]
    <3>1. /\ heap'[r].type = NOT_FOUND /\ heap'[r].tag = heap[r].tag
          /\ heap'[r] # Freed /\ heap[r] # Freed
          /\ \A s \in Reqs : s # r => heap'[s] = heap[s]
      BY <1>0, <2>2, <2>4, Constants DEF Inv, TypeOK, ReqRecords, Freed
    <3>2. \A s \in Reqs : /\ HomePool(s)' = HomePool(s)
                          /\ heap'[s].tag = heap[s].tag
                          /\ s \in Buffered' <=> s \in Buffered
      BY <2>1, <2>4, <3>1, Constants DEF HomePool, Buffered, Live
    <3>3. \A s \in Reqs, k \in Pools, t \in Nat : HasTag(s, k, t)' <=> HasTag(s, k, t)
      BY <3>2 DEF HasTag
    <3> QED  BY <1>0, <2>1, <3>1, <3>3, TagsFrame, Constants DEF NoDeletes, Live
  <2> QED  BY <2>1, <2>3, <2>4
<1>7. ASSUME NEW w \in Workers, EndReqWrite(w)
      PROVE  TagwiseOK' /\ NoDeletes'
  <2>1. ending[w] # NoReq /\ FreeReq(ending[w]) /\ UNCHANGED <<pc, cur>>
    BY <1>7 DEF EndReqWrite, poll
  <2>2. ending[w] \in Reqs /\ Held(ending[w]) /\ cur # ending[w]
    BY <1>0, <2>1 DEF Inv, TypeOK, OwnedOK, Disjoint, PollAlone, Held
  <2> QED  BY <2>1, <2>2, TagsFree
<1>8. CASE HandlerFree
  <2>1. hpc = "free" /\ FreeReq(hreq) /\ UNCHANGED <<pc, cur>>
    BY <1>8 DEF HandlerFree, poll
  <2>2. hreq \in Reqs /\ Held(hreq) /\ cur # hreq
    BY <1>0, <2>1 DEF Inv, TypeOK, ThreadsOK, OwnedOK, Disjoint, PollAlone, Held
  <2> QED  BY <2>1, <2>2, TagsFree
<1>9. CASE \/ \E c \in Clients : Accept(c) \/ Disconnect(c) \/ HangUp(c) \/ ReadsReply(c)
           \/ \E w \in Workers : EndReqEnqueue(w) \/ EndReqReturn(w)
           \/ HandlerTake \/ HandlerDequeued \/ HandlerReply \/ HandlerClear
           \/ Ended \/ UNCHANGED vars
  BY <1>1, <1>9 DEF Accept, Disconnect, HangUp, ReadsReply, EndReqEnqueue, EndReqReturn, Ended, HandlerTake, HandlerDequeued,
                    HandlerReply, HandlerClear, poll, vars
<1> QED  BY <1>2, <1>3, <1>4, <1>5, <1>6, <1>7, <1>8, <1>9
         DEF Next, PollThread, Peers, EndReq, Handler

(* As long as no client sends a DEL, no DMA buffer is lost, freed twice or *)
(* put into the wrong pool.  (With a DEL it is otherwise: free_req gives   *)
(* the tag 0 that calloc left to the pool of the reads.)                   *)
THEOREM BuffersAccounted ==
  ASSUME "del" \notin Commands
  PROVE  Spec => []TagsAccounted
<1>1. Init => TagInv
  <2> SUFFICES ASSUME Init PROVE TagInv
    OBVIOUS
  <2>1. Live = {} /\ free = Tags
    BY DEF Init, Live
  <2>2. \A r, k, t : ~HasTag(r, k, t)
    BY <2>1 DEF HasTag, Buffered
  <2> QED  BY <2>1, <2>2, InvInit DEF TagInv, NoDeletes, TagwiseOK
<1>2. TagInv /\ [Next]_vars => TagInv'
  <2> SUFFICES ASSUME TagInv, [Next]_vars PROVE TagInv'
    OBVIOUS
  <2>1. Inv'
    BY InvStep DEF TagInv
  <2>2. TagwiseOK' /\ NoDeletes'
    BY <2>1, TagsStep
  <2> QED  BY <2>1, <2>2 DEF TagInv
<1> QED  BY <1>1, <1>2, TagwiseImplies, PTL DEF Spec

=============================================================================
