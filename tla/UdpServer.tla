------------------------------- MODULE UdpServer -------------------------------
(***************************************************************************)
(* udp_server.cpp: the main thread receives a datagram at a time and hands *)
(* it over the SPSC queue to request_handler, which makes a request of it  *)
(* (udp_GetRequest).  The answer is a datagram to the address that the     *)
(* first thread has stored (udp_SendOkCommand, udp_SendBulkValue).  Nobody *)
(* in the repository calls these two (end_req does not): that the engine's *)
(* side does, once for every request that it finishes, is assumed.         *)
(*                                                                         *)
(* A datagram is a sequence of three fields and a key; it may be lost,     *)
(* repeated or overtaken, so any sequence of datagrams may arrive.  The    *)
(* engine and libmemio are external, as in Requests.  req_map is left out: *)
(* udp_GetRequest always returns 0, so nothing is ever put into it (the    *)
(* addr_key that it is searched with is not initialised).                  *)
(***************************************************************************)
EXTENDS SpscQueue, FiniteSets

CONSTANTS
  Peers,        \* addresses of peers
  Datagrams,    \* what they send: [from, target, type, key, keyLen]
  MaxArrivals,  \* bound: datagrams that arrive
  SockBuf,      \* datagrams that the socket's receive buffer holds
  Buffers       \* DMA buffers

(* The fields have 4, 2, 2 and 10 digits, and the key is right-aligned in  *)
(* its field.  None, the null pointer, is neither a datagram nor an        *)
(* address nor a read_data.                                                *)
ASSUME UdpAssumption ==
  /\ Items = 1..MaxArrivals
  /\ None \notin Datagrams \cup Peers \cup [buf : Items, addr : Items]
  /\ \A d \in Datagrams :
       /\ d.from \in Peers
       /\ d.target \in 0..9999 /\ d.type \in {1, 2, 3}
       /\ d.keyLen \in 1..10 /\ d.key \in 0..(10^d.keyLen - 1)
  /\ MaxArrivals \in Nat /\ SockBuf \in Nat \ {0} /\ Buffers \in Nat \ {0}

VARIABLES
  sock,      \* datagrams in the socket's receive buffer
  mpc,       \* main thread: "poll", "recv", "enqueue", "ended"
  mbuf, maddr,  \* its buffer and clnt_addr
  rdata,     \* rdata[b]: the read_data at b, or None
  bufs,      \* bufs[b]: the datagram in the buffer at b, or None
  addrs,     \* addrs[b]: the address stored at b, or None
  hpc,       \* request_handler: "dequeue", "parse", "dma", "free"
  hreq,      \* the request that it is making
  made,      \* requests made, in order
  pending,   \* those inside the engine, as indices of made
  dma,       \* free DMA buffers
  received,  \* datagrams received, in order
  replies    \* replies sent: [to, target, type, of]

main == <<mpc, mbuf, maddr>>
memory == <<rdata, bufs, addrs>>
handler == <<hpc, hreq>>
vars == <<queueVars, sock, mpc, mbuf, maddr, rdata, bufs, addrs, hpc, hreq, made,
          pending, dma, received, replies>>

(* Addresses that malloc can return.  The addresses of peers are never     *)
(* freed, so it takes one for each datagram.                               *)
Blocks == 1..MaxArrivals

Running == mpc # "ended"

(* malloc: the lowest free address, so that what is freed is reused soonest *)
Malloc(blocks) ==
  CHOOSE b \in Blocks : blocks[b] = None /\ \A a \in Blocks : blocks[a] = None => b <= a

Init ==
  /\ QueueInit
  /\ sock = <<>>
  /\ mpc = "poll" /\ mbuf = None /\ maddr = None
  /\ rdata = [b \in Blocks |-> None]
  /\ bufs = [b \in Blocks |-> None]
  /\ addrs = [b \in Blocks |-> None]
  /\ hpc = "dequeue" /\ hreq = None
  /\ made = <<>> /\ pending = {} /\ dma = Buffers
  /\ received = <<>> /\ replies = {}

-----------------------------------------------------------------------------
(* Mutants: plausible slips in the code, none of them part of the          *)
(* specification.  Each one breaks the property that it is paired with.    *)

(* The commented-out free(rdata->addr) *)
HandlerFreesAddr ==
  /\ Running /\ hpc = "free"
  /\ bufs' = [bufs EXCEPT ![rdata[citem].buf] = None]
  /\ addrs' = [addrs EXCEPT ![rdata[citem].addr] = None]
  /\ rdata' = [rdata EXCEPT ![citem] = None]
  /\ DequeueReturn
  /\ hpc' = "dequeue" /\ hreq' = None
  /\ UNCHANGED <<sock, main, made, pending, dma, received, replies>>

(* key *= 10 once too often *)
ParsedTimesTen(d, addr) ==
  [addr |-> addr, target |-> d.target % 100, type |-> d.type,
   key |-> 10 * (d.key % 10^d.keyLen) + 1]

(* enqueue is tried once. *)
MainGivesUp ==
  /\ mpc = "enqueue"
  /\ \/ /\ Enqueue
        /\ ppc' # "check"
        /\ mpc' = IF ppc = "store" THEN "poll" ELSE mpc
     \/ /\ ppc = "check" /\ ~HasRoom(tail)
        /\ ppc' = "idle" /\ pitem' = None /\ mpc' = "poll"
        /\ UNCHANGED <<head, ptail, buffer, consumer>>
  /\ UNCHANGED <<sock, mbuf, maddr, memory, handler, made, pending, dma, received, replies>>

(* Deletes give a buffer back that they never had. *)
EngineFreesAlways(n) ==
  /\ Running /\ n \in pending
  /\ pending' = pending \ {n}
  /\ dma' = dma + 1
  /\ replies' = replies \cup
       {[to |-> addrs[made[n].addr], target |-> made[n].target, type |-> made[n].type, of |-> n]}
  /\ UNCHANGED <<queueVars, sock, main, memory, handler, made, received>>

-----------------------------------------------------------------------------
(* The network *)

Arrive(d) ==
  /\ Running
  /\ Len(received) + Len(sock) < MaxArrivals
  /\ Len(sock) < SockBuf
  /\ sock' = Append(sock, d)
  /\ UNCHANGED <<queueVars, main, memory, handler, made, pending, dma, received, replies>>

-----------------------------------------------------------------------------
(* main *)

PollReady ==
  /\ mpc = "poll" /\ sock # <<>>
  /\ mbuf' = Malloc(bufs)
  /\ maddr' = Malloc(addrs)
  /\ mpc' = "recv"
  /\ UNCHANGED <<queueVars, sock, memory, handler, made, pending, dma, received, replies>>

(* poll times out, fails or reports an error on the socket, or recvfrom    *)
(* fails, EWOULDBLOCK included: main returns, and with it ends the handler *)
(* with whatever is still in the queue.                                    *)
MainEnds ==
  /\ mpc \in {"poll", "recv"}
  /\ mpc' = "ended"
  /\ UNCHANGED <<queueVars, sock, mbuf, maddr, memory, handler, made, pending, dma,
                 received, replies>>

Recv ==
  /\ mpc = "recv"
  /\ bufs' = [bufs EXCEPT ![mbuf] = Head(sock)]
  /\ addrs' = [addrs EXCEPT ![maddr] = Head(sock).from]
  /\ rdata' = [rdata EXCEPT ![Malloc(rdata)] = [buf |-> mbuf, addr |-> maddr]]
  /\ EnqueueCall(Malloc(rdata))
  /\ received' = Append(received, Head(sock))
  /\ sock' = Tail(sock)
  /\ mpc' = "enqueue"
  /\ UNCHANGED <<mbuf, maddr, handler, made, pending, dma, replies>>

(* while(!req_q->enqueue(rdata)) *)
MainEnqueue ==
  /\ mpc = "enqueue"
  /\ Enqueue
  /\ mpc' = IF ppc = "store" THEN "poll" ELSE mpc
  /\ UNCHANGED <<sock, mbuf, maddr, memory, handler, made, pending, dma, received, replies>>

-----------------------------------------------------------------------------
(* request_handler *)

(* while(!req_q->dequeue(&rdata)) *)
HandlerDequeue ==
  /\ Running /\ hpc = "dequeue"
  /\ Dequeue
  /\ hpc' = IF cpc = "store" THEN "parse" ELSE hpc
  /\ UNCHANGED <<sock, main, memory, hreq, made, pending, dma, received, replies>>

(* The fields of a request, as udp_GetRequest computes them.  The loop     *)
(* over the target starts from the next digit each time instead of adding  *)
(* it, so that two of its four digits survive; the key is the last keyLen  *)
(* digits of its field, plus one.                                          *)
Parsed(d, addr) ==
  [addr |-> addr, target |-> d.target % 100, type |-> d.type,
   key |-> (d.key % 10^d.keyLen) + 1]

HandlerParse ==
  /\ Running /\ hpc = "parse"
  /\ hreq' = Parsed(bufs[rdata[citem].buf], rdata[citem].addr)
  /\ hpc' = "dma"
  /\ UNCHANGED <<queueVars, sock, main, memory, made, pending, dma, received, replies>>

(* make_req passes the request on with the next key. *)
Submitted(r) == [r EXCEPT !.key = @ + 1]

(* alloc_dma, which waits for a buffer, unless it is a delete; make_req *)
HandlerMake ==
  /\ Running /\ hpc = "dma"
  /\ IF hreq.type < 3 THEN dma > 0 /\ dma' = dma - 1 ELSE UNCHANGED dma
  /\ made' = Append(made, Submitted(hreq))
  /\ pending' = pending \cup {Len(made')}
  /\ hpc' = "free"
  /\ UNCHANGED <<queueVars, sock, main, memory, hreq, received, replies>>

(* free(rdata->buf), free(rdata); rdata->addr stays with the request. *)
HandlerFree ==
  /\ Running /\ hpc = "free"
  /\ bufs' = [bufs EXCEPT ![rdata[citem].buf] = None]
  /\ rdata' = [rdata EXCEPT ![citem] = None]
  /\ DequeueReturn
  /\ hpc' = "dequeue" /\ hreq' = None
  /\ UNCHANGED <<sock, main, addrs, made, pending, dma, received, replies>>

-----------------------------------------------------------------------------
(* The engine finishes a request, in any order, and has it answered *)

(* The datagram is sent to req->addr, which nobody frees. *)
Answer(n) ==
  [to |-> addrs[made[n].addr], target |-> made[n].target, type |-> made[n].type, of |-> n]

EngineDone(n) ==
  /\ Running /\ n \in pending
  /\ pending' = pending \ {n}
  /\ dma' = IF made[n].type < 3 THEN dma + 1 ELSE dma
  /\ replies' = replies \cup {Answer(n)}
  /\ UNCHANGED <<queueVars, sock, main, memory, handler, made, received>>

-----------------------------------------------------------------------------

Main == PollReady \/ Recv \/ MainEnqueue
Handler == HandlerDequeue \/ HandlerParse \/ HandlerMake \/ HandlerFree

Next ==
  \/ \E d \in Datagrams : Arrive(d)
  \/ Main \/ MainEnds
  \/ Handler
  \/ \E n \in pending : EngineDone(n)

Spec == Init /\ [][Next]_vars

(* Both threads run and the engine finishes what it has.  A store becomes  *)
(* visible to the other thread in the end, so that a check of the queue    *)
(* which could succeed again and again does.                               *)
FairSpec ==
  /\ Spec
  /\ WF_vars(Main)
  /\ WF_vars(Handler)
  /\ SF_vars(mpc = "enqueue" /\ MainEnqueue /\ ppc' = "write")
  /\ SF_vars(HandlerDequeue /\ cpc' = "read")
  /\ \A n \in 1..MaxArrivals : WF_vars(EngineDone(n))

-----------------------------------------------------------------------------

TypeOK ==
  /\ QueueTypeOK
  /\ sock \in Seq(Datagrams)
  /\ mpc \in {"poll", "recv", "enqueue", "ended"}
  /\ mpc = "enqueue" => ppc # "idle"
  /\ rdata \in [Blocks -> {None} \cup [buf : Blocks, addr : Blocks]]
  /\ bufs \in [Blocks -> Datagrams \cup {None}]
  /\ addrs \in [Blocks -> Peers \cup {None}]
  /\ hpc \in {"dequeue", "parse", "dma", "free"}
  /\ pending \subseteq DOMAIN made
  /\ dma \in 0..Buffers

(* The requests are the datagrams, one for one and in the order in which   *)
(* they were received, with the fields that the peer sent, although        *)
(* buffers, read_data and slots are reused while the handler is behind.    *)
(* (Keys are counted from two: udp_GetRequest and make_req add one each.   *)
(* Of a target, the last two digits are left.)                             *)
RequestsAsReceived ==
  /\ Len(made) <= Len(received)
  /\ \A n \in DOMAIN made :
       /\ made[n].target = received[n].target % 100
       /\ made[n].type = received[n].type
       /\ made[n].key = received[n].key + 2

(* An answer goes to the peer whose datagram it answers and carries what   *)
(* is left of that peer's target, and its type: the address must outlive   *)
(* the read_data that brought it, until the engine is done with the        *)
(* request.                                                                *)
AnswersReachSender ==
  \A r \in replies :
    LET d == received[r.of]
    IN  r.to = d.from /\ r.target = d.target % 100 /\ r.type = d.type

(* Every datagram received is answered, unless the program ends, also when *)
(* the queue is full or all DMA buffers are taken for a while.             *)
ReceivedIsAnswered ==
  \A n \in 1..MaxArrivals :
    Len(received) >= n ~> (\E r \in replies : r.of = n) \/ ~Running

=============================================================================
