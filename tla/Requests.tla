-------------------------------- MODULE Requests --------------------------------
(***************************************************************************)
(* The life of a request (req_t): made by an exec_* function on the poll   *)
(* thread, finished by a thread of the storage engine, which calls         *)
(* end_req, and for everything but a write answered and freed by           *)
(* end_req_q_handler.  With it goes a DMA buffer of libmemio, from one     *)
(* pool for writes and one for reads, and a pointer to the client.         *)
(*                                                                         *)
(* end_req_Q is the queue of BoundedFifo, which MpmcQueue implements.  The *)
(* storage engine and libmemio are external: the engine finishes every     *)
(* request once, in any order, and turns the type of a read into NOT_FOUND *)
(* when there is no such key; memio_alloc_dma waits for a free buffer.     *)
(* lr_make_req returning -1 ends the process and is left out.              *)
(*                                                                         *)
(* Peers hang up when they like, also with reads pending, and read their   *)
(* answers when they like; the handler's write() waits for them.  (Their   *)
(* sockets are blocking; what the poll thread writes is in ReplyPath.)     *)
(***************************************************************************)
EXTENDS Integers, Sequences, FiniteSets

CONSTANTS
  Reqs,       \* addresses that calloc can return for a req_t
  NoReq,      \* no request
  Clients,    \* addresses that calloc can return for a client
  Readers,    \* those whose peers go on reading, whatever else they do
  Workers,    \* threads of the engine that call end_req
  Commands,   \* which commands the clients send, of DOMAIN ReqType
  MaxBatch,   \* bound: most keys in one MSET or MGET
  Tags,       \* Tags[pool]: the buffers 0 .. n-1 of that pool
  QueueSize   \* the size of end_req_Q

(* type_info->type, and the value that the engine reports a miss with *)
WRITE == 1
READ == 2
DELETE == 3
NOT_FOUND == 255

(* The type each exec_* gives to its requests. *)
ReqType == [set |-> WRITE, upt |-> WRITE, mset |-> WRITE,
            get |-> READ, mget |-> READ, del |-> DELETE]

Pools == {WRITE, READ}

ASSUME RequestsAssumption ==
  /\ NoReq \notin Reqs
  /\ Readers \subseteq Clients
  /\ Commands \subseteq DOMAIN ReqType
  /\ MaxBatch \in Nat \ {0}
  /\ QueueSize \in Nat \ {0}
  /\ Tags \in [Pools -> SUBSET Nat]

VARIABLES
  heap,    \* heap[r]: the request at address r, or Freed
  free,    \* free[pool]: the buffers that libmemio may hand out
  conn,    \* conn[c]: "none" when client c is not allocated; else its socket:
           \* "room" or "full" for the handler's answers, "hung" by the peer
  pc,      \* where the poll thread is: "idle", "alloc", "dma", "make"
  cmd,     \* the command it executes and for which client
  left,    \* how many requests that command has still to make
  cur,     \* the request that it is making
  engine,  \* the requests inside the engine
  ending,  \* ending[w]: the request with which worker w is in end_req
  done,    \* done[w]: the one it has enqueued, until it leaves end_req
  queue,   \* end_req_Q
  got,     \* what the handler's call of dequeue is carrying out
  hreq,    \* r of end_req_q_handler
  hpc      \* where the handler is: "dequeue", "reply", "clear", "free";
           \* "ended" when it has ended the process

poll == <<pc, cmd, left, cur>>
handler == <<hreq, hpc>>
workers == <<ending, done>>
vars == <<heap, free, conn, pc, cmd, left, cur, engine, ending, done,
          queue, got, hreq, hpc>>

EndReqQ == INSTANCE BoundedFifo
             WITH Items <- Reqs, Takers <- {"handler"},
                  Capacity <- QueueSize, None <- NoReq

Freed == [c |-> "freed", type |-> 0, tag |-> 0]
Live == {r \in Reqs : heap[r] # Freed}

(* exit(1), or a signal, stops all the threads. *)
Running == hpc # "ended"

TypeOK ==
  /\ heap \in [Reqs -> {Freed} \cup
                 [c : Clients, type : {WRITE, READ, DELETE, NOT_FOUND},
                  tag : {0} \cup UNION {Tags[k] : k \in Pools}]]
  /\ free \in [Pools -> SUBSET Nat]
  /\ conn \in [Clients -> {"none", "room", "full", "hung"}]
  /\ pc \in {"idle", "alloc", "dma", "make"}
  /\ cmd \in [c : Clients, name : Commands] \cup {<<>>}
  /\ left \in 0..MaxBatch
  /\ cur \in Reqs \cup {NoReq}
  /\ engine \subseteq Reqs
  /\ ending \in [Workers -> Reqs \cup {NoReq}]
  /\ done \in [Workers -> Reqs \cup {NoReq}]
  /\ queue \in Seq(Reqs)
  /\ got \in [{"handler"} -> Reqs \cup {NoReq}]
  /\ hreq \in Reqs \cup {NoReq}
  /\ hpc \in {"dequeue", "reply", "clear", "free", "ended"}

Init ==
  /\ heap = [r \in Reqs |-> Freed]
  /\ free = Tags
  /\ conn = [c \in Clients |-> "none"]
  /\ pc = "idle" /\ cmd = <<>> /\ left = 0 /\ cur = NoReq
  /\ engine = {}
  /\ ending = [w \in Workers |-> NoReq]
  /\ done = [w \in Workers |-> NoReq]
  /\ EndReqQ!Init
  /\ hreq = NoReq /\ hpc = "dequeue"

-----------------------------------------------------------------------------
(* Connections: client_new on accept, client_close when on_read reports    *)
(* the end of the connection, whatever requests of it are alive.           *)

Accept(c) ==
  /\ Running
  /\ pc = "idle"
  /\ conn[c] = "none"
  /\ conn' = [conn EXCEPT ![c] = "room"]
  /\ UNCHANGED <<heap, free, poll, engine, workers, queue, got, handler>>

Disconnect(c) ==
  /\ Running
  /\ pc = "idle"
  /\ conn[c] = "hung"
  /\ conn' = [conn EXCEPT ![c] = "none"]
  /\ UNCHANGED <<heap, free, poll, engine, workers, queue, got, handler>>

(* The peer's end of the socket. *)

HangUp(c) ==
  /\ Running
  /\ conn[c] \in {"room", "full"}
  /\ conn' = [conn EXCEPT ![c] = "hung"]
  /\ UNCHANGED <<heap, free, poll, engine, workers, queue, got, handler>>

ReadsReply(c) ==
  /\ Running
  /\ conn[c] = "full"
  /\ conn' = [conn EXCEPT ![c] = "room"]
  /\ UNCHANGED <<heap, free, poll, engine, workers, queue, got, handler>>

-----------------------------------------------------------------------------
(* Mutants: plausible slips in the code, none of them part of the          *)
(* specification.  Each one breaks the property that it is paired with.    *)

(* The loop over the keys tests its condition after the body. *)
BatchOfNone(name) == IF name \in {"mset", "mget"} THEN 0..MaxBatch ELSE {1}

(* free_req goes by the type that the engine has left in the request. *)
FreedTypeAsIs(type) == type

(* end_req frees what it has enqueued, as a line that is commented out     *)
(* there would.                                                            *)
EndReqReturnFrees(w) ==
  /\ Running
  /\ done[w] # NoReq
  /\ heap' = [heap EXCEPT ![done[w]] = Freed]
  /\ free' = [free EXCEPT ![READ] = @ \cup {heap[done[w]].tag}]
  /\ done' = [done EXCEPT ![w] = NoReq]
  /\ UNCHANGED <<conn, poll, engine, ending, queue, got, handler>>

(* end_req queues writes for the handler too. *)
EndReqWriteEnqueues(w) ==
  /\ Running
  /\ ending[w] # NoReq
  /\ heap[ending[w]].type = WRITE
  /\ EndReqQ!Put(ending[w])
  /\ ending' = [ending EXCEPT ![w] = NoReq]
  /\ UNCHANGED <<heap, free, conn, poll, engine, done, handler>>

(* end_req forgets to free a write. *)
EndReqWriteKeeps(w) ==
  /\ Running
  /\ ending[w] # NoReq
  /\ heap[ending[w]].type = WRITE
  /\ ending' = [ending EXCEPT ![w] = NoReq]
  /\ UNCHANGED <<heap, free, conn, poll, engine, done, queue, got, handler>>

(* The handler does not free what it has answered, as in                   *)
(* poll_server_busefs.cpp.                                                 *)
HandlerKeeps ==
  /\ hpc = "free"
  /\ hpc' = "dequeue"
  /\ hreq' = NoReq
  /\ UNCHANGED <<heap, free, conn, poll, engine, workers, queue, got>>

-----------------------------------------------------------------------------
(* The exec_* functions, on the poll thread *)

(* The number of requests of a command: one for each key.  An MSET or MGET *)
(* without keys makes none and changes nothing here.                       *)
Batch(name) == IF name \in {"mset", "mget"} THEN 1..MaxBatch ELSE {1}

(* exec_command has dispatched to exec_<name> of client c. *)
Exec(c, name) ==
  /\ Running
  /\ pc = "idle"
  /\ conn[c] # "none"
  /\ \E n \in Batch(name) : left' = n
  /\ cmd' = [c |-> c, name |-> name]
  /\ pc' = "alloc"
  /\ UNCHANGED <<heap, free, conn, cur, engine, workers, queue, got, handler>>

(* alloc_req, and the fields that the caller fills in.  calloc leaves      *)
(* dmaTag at 0.  exec_del goes on without a buffer.                        *)
AllocReq(r) ==
  /\ Running
  /\ pc = "alloc"
  /\ heap[r] = Freed
  /\ heap' = [heap EXCEPT ![r] = [c |-> cmd.c, type |-> ReqType[cmd.name],
                                  tag |-> 0]]
  /\ cur' = r
  /\ pc' = IF ReqType[cmd.name] = DELETE THEN "make" ELSE "dma"
  /\ UNCHANGED <<free, conn, cmd, left, engine, workers, queue, got, handler>>

(* The pool from which, or to which, libmemio moves a buffer. *)
Pool(type) == type

(* alloc_dma: memio_alloc_dma(type, ..) waits for a buffer. *)
AllocDma(t) ==
  /\ Running
  /\ pc = "dma"
  /\ t \in free[Pool(heap[cur].type)]
  /\ free' = [free EXCEPT ![Pool(heap[cur].type)] = @ \ {t}]
  /\ heap' = [heap EXCEPT ![cur].tag = t]
  /\ pc' = "make"
  /\ UNCHANGED <<conn, cmd, left, cur, engine, workers, queue, got, handler>>

(* make_req: lr_make_req hands the request to the engine. *)
MakeReq ==
  /\ Running
  /\ pc = "make"
  /\ engine' = engine \cup {cur}
  /\ cur' = NoReq
  /\ left' = left - 1
  /\ IF left > 1
     THEN pc' = "alloc" /\ UNCHANGED cmd
     ELSE pc' = "idle" /\ cmd' = <<>>
  /\ UNCHANGED <<heap, free, conn, workers, queue, got, handler>>

-----------------------------------------------------------------------------
(* free_req: all but writes are given type 2 first, so that the buffer     *)
(* goes back to the pool of the reads.                                     *)

FreedType(type) == IF type # WRITE THEN READ ELSE type

FreeReq(r) ==
  /\ LET type == FreedType(heap[r].type)
     IN  free' = IF type <= 2
                 THEN [free EXCEPT ![Pool(type)] = @ \cup {heap[r].tag}]
                 ELSE free
  /\ heap' = [heap EXCEPT ![r] = Freed]

(* The engine has finished request r on thread w and calls r->end_req. *)
EngineDone(w, r) ==
  /\ Running
  /\ ending[w] = NoReq
  /\ done[w] = NoReq
  /\ r \in engine
  /\ engine' = engine \ {r}
  /\ ending' = [ending EXCEPT ![w] = r]
  /\ \/ UNCHANGED heap
     \/ /\ heap[r].type = READ
        /\ heap' = [heap EXCEPT ![r].type = NOT_FOUND]
  /\ UNCHANGED <<free, conn, poll, done, queue, got, handler>>

(* end_req of a write: nobody waits for it. *)
EndReqWrite(w) ==
  /\ Running
  /\ ending[w] # NoReq
  /\ heap[ending[w]].type = WRITE
  /\ FreeReq(ending[w])
  /\ ending' = [ending EXCEPT ![w] = NoReq]
  /\ UNCHANGED <<conn, poll, engine, done, queue, got, handler>>

(* end_req of anything else: while(!enqueue(req)) into the queue of the    *)
(* client.  The worker still has the address until it returns, and the     *)
(* handler may be faster.                                                  *)
EndReqEnqueue(w) ==
  /\ Running
  /\ ending[w] # NoReq
  /\ heap[ending[w]].type # WRITE
  /\ EndReqQ!Put(ending[w])
  /\ ending' = [ending EXCEPT ![w] = NoReq]
  /\ done' = [done EXCEPT ![w] = ending[w]]
  /\ UNCHANGED <<heap, free, conn, poll, engine, handler>>

EndReqReturn(w) ==
  /\ Running
  /\ done[w] # NoReq
  /\ done' = [done EXCEPT ![w] = NoReq]
  /\ UNCHANGED <<heap, free, conn, poll, engine, ending, queue, got, handler>>

-----------------------------------------------------------------------------
(* end_req_q_handler *)

HandlerTake ==
  /\ hpc = "dequeue"
  /\ EndReqQ!Take("handler")
  /\ UNCHANGED <<heap, free, conn, poll, engine, workers, handler>>

(* dequeue returns true. *)
HandlerDequeued ==
  /\ hpc = "dequeue"
  /\ EndReqQ!Return("handler")
  /\ hreq' = got["handler"]
  /\ hpc' = "reply"
  /\ UNCHANGED <<heap, free, conn, poll, engine, workers>>

(* client_write and client_flush_offset on r->c: write() waits for room,   *)
(* and fails once the peer has hung up, which ends the process unless the  *)
(* peer's reset is still under way.  On a client that client_close has     *)
(* freed it may do either, or answer whoever has its descriptor now.       *)
HandlerReply ==
  /\ hpc = "reply"
  /\ LET c == heap[hreq].c
     IN  \/ /\ conn[c] = "room"
            /\ hpc' = "clear"
            /\ \E s \in {"room", "full"} : conn' = [conn EXCEPT ![c] = s]
         \/ /\ conn[c] \in {"hung", "none"}
            /\ hpc' \in {"clear", "ended"}
            /\ UNCHANGED conn
  /\ UNCHANGED <<heap, free, poll, engine, workers, queue, got, hreq>>

(* client_clear on r->c.  The branch of type 1 stops here. *)
HandlerClear ==
  /\ hpc = "clear"
  /\ \/ /\ heap[hreq].type = WRITE
        /\ hpc' = "dequeue" /\ hreq' = NoReq
     \/ /\ heap[hreq].type # WRITE
        /\ hpc' = "free" /\ UNCHANGED hreq
     \/ /\ conn[heap[hreq].c] = "none"
        /\ hpc' = "ended" /\ UNCHANGED hreq
  /\ UNCHANGED <<heap, free, conn, poll, engine, workers, queue, got>>

HandlerFree ==
  /\ hpc = "free"
  /\ FreeReq(hreq)
  /\ hpc' = "dequeue"
  /\ hreq' = NoReq
  /\ UNCHANGED <<conn, poll, engine, workers, queue, got>>

-----------------------------------------------------------------------------

PollThread ==
  \/ \E c \in Clients : Accept(c) \/ Disconnect(c)
  \/ \E c \in Clients, name \in Commands : Exec(c, name)
  \/ \E r \in Reqs : AllocReq(r)
  \/ \E t \in UNION {Tags[k] : k \in Pools} : AllocDma(t)
  \/ MakeReq

Peers == \E c \in Clients : HangUp(c) \/ ReadsReply(c)

EndReq(w) == EndReqWrite(w) \/ EndReqEnqueue(w) \/ EndReqReturn(w)

Handler ==
  HandlerTake \/ HandlerDequeued \/ HandlerReply \/ HandlerClear \/ HandlerFree

(* The process is gone. *)
Ended ==
  /\ hpc = "ended"
  /\ UNCHANGED vars

Next ==
  \/ PollThread
  \/ Peers
  \/ \E w \in Workers : EndReq(w) \/ \E r \in Reqs : EngineDone(w, r)
  \/ Handler
  \/ Ended

Spec == Init /\ [][Next]_vars

(* Fairness.  The poll thread goes on with a command that it has begun,    *)
(* the handler and the engine's threads keep running (end_req spins until  *)
(* the queue takes its request), and the engine finishes what it is given. *)
(* Nobody is obliged to send a command or to hang up, and only the peers   *)
(* in Readers to read.                                                     *)
Fairness ==
  /\ WF_vars(\E r \in Reqs : AllocReq(r))
  /\ WF_vars(\E t \in UNION {Tags[k] : k \in Pools} : AllocDma(t))
  /\ WF_vars(MakeReq)
  /\ WF_vars(Handler)
  /\ \A c \in Readers : WF_vars(ReadsReply(c))
  /\ \A w \in Workers : WF_vars(EndReq(w))
  /\ \A r \in Reqs : WF_vars(\E w \in Workers : EngineDone(w, r))

FairSpec == Spec /\ Fairness

-----------------------------------------------------------------------------

(* The requests that own a buffer: alloc_dma has returned.  A delete never *)
(* calls it.                                                               *)
Buffered == {r \in Live : /\ heap[r].type # DELETE
                          /\ ~(pc = "dma" /\ cur = r)}

HomePool(r) == IF heap[r].type = WRITE THEN WRITE ELSE READ

(* Every DMA buffer is free or belongs to exactly one request, in the pool *)
(* it was taken from, although the engine changes the type of a read that  *)
(* misses and free_req picks the pool by the type.  A buffer that is freed *)
(* twice, or into the other pool, would be handed to two requests; one     *)
(* that is not freed would be lost.                                        *)
TagsAccounted ==
  /\ \A r \in Buffered : heap[r].tag \notin free[HomePool(r)]
  /\ \A r, s \in Buffered :
        heap[r].tag = heap[s].tag /\ HomePool(r) = HomePool(s) => r = s
  /\ \A k \in Pools :
        Tags[k] = free[k] \cup {heap[r].tag : r \in {s \in Buffered : HomePool(s) = k}}

(* The threads and queues that have the address r. *)
Owners(r) ==
  Cardinality({w \in Workers : ending[w] = r})
  + Cardinality({i \in DOMAIN queue : queue[i] = r})
  + Cardinality({x \in {"poll"} : cur = r} \cup {x \in {"engine"} : r \in engine}
                \cup {x \in {"dequeue"} : got["handler"] = r}
                \cup {x \in {"handler"} : hreq = r})

(* A request that is allocated is in one place only: with the poll thread, *)
(* in the engine, in end_req, in the queue or with the handler; one that   *)
(* is freed is nowhere.  So no thread uses a request after free_req, and   *)
(* calloc may reuse its address.  A worker that has enqueued a request     *)
(* owns it no longer, though it has yet to return from end_req.            *)
OneOwner == \A r \in Reqs : Owners(r) = IF r \in Live THEN 1 ELSE 0

(* end_req frees the writes itself: none is ever in the queue or with the  *)
(* handler.  So nobody uses the client of a write after make_req, and a    *)
(* peer that only writes may hang up, and client_close free the client,    *)
(* with writes pending.  (A peer with a read pending may not: HandlerReply *)
(* and HandlerClear then work on a freed client.)                          *)
WritesStayOff ==
  \A r \in Live : heap[r].type = WRITE =>
    r \notin {queue[i] : i \in DOMAIN queue} \cup {got["handler"], hreq}

(* alloc_dma does not wait for ever: not when an MGET needs more buffers   *)
(* than there are, nor when the queue is full and the engine's threads     *)
(* spin, nor while the handler waits in write(), provided that the peers   *)
(* go on reading (Readers) and the process does not end meanwhile.         *)
DmaWaitEnds == pc = "dma" ~> pc = "make" \/ ~Running

(* When no more commands come and peers go on reading, every request is    *)
(* finished and freed, and every buffer is back in its pool.               *)
Drains ==
  <>[](pc = "idle" /\ Running) => <>[](Live = {} /\ free = Tags)

=============================================================================
