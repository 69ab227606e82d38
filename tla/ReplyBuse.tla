-------------------------------- MODULE ReplyBuse --------------------------------
(***************************************************************************)
(* ReplyPath in poll_server_buse.cpp and poll_server_busefs.cpp, whose     *)
(* accept loop sets O_NONBLOCK on client sockets.  write() then does not   *)
(* wait for room: it takes what fits, or returns -1 with EWOULDBLOCK,      *)
(* which client_flush_offset adds to sent and offset.  sent is a size_t:   *)
(* below 0 it is larger than any size.                                     *)
(***************************************************************************)
EXTENDS ReplyPath

NonBlockingWrite(t) ==
  /\ At(t, "write")
  /\ LET room == SockBuf - Len(wire[on[t]])
         n == len[on[t]] - reg[t].off
         ret == IF room = 0 THEN -1 ELSE Min({n, room})
     IN  IF reg[t].sent \in 0..(reg[t].size - 1)
         THEN /\ n > 0
              /\ reg' = [reg EXCEPT ![t].sent = @ + ret, ![t].off = @ + ret]
              /\ wire' = [wire EXCEPT ![on[t]] =
                            @ \o [k \in 1..ret |-> output[on[t]][reg[t].off + k - 1]]]
              /\ UNCHANGED ops
         ELSE Done(t) /\ UNCHANGED <<reg, wire>>
  /\ UNCHANGED <<peer, buf, client, open, reading, queue, on, owed>>

EitherNonBlocking(t) ==
  \/ Copy(t) \/ Load(t) \/ SetLen(t) \/ SetOffset(t) \/ SetValid(t)
  \/ TestLen(t) \/ NonBlockingWrite(t)

(* on_read and end_req_q_handler of these servers *)
BusePoll == PollThread \/ EitherNonBlocking("poll")
BuseHandler == HandlerDequeues \/ EitherNonBlocking("handler")

BuseNext ==
  \/ \E c \in Clients : SendCommand(c) \/ ReadReply(c)
  \/ \E c \in Clients : \E found \in BOOLEAN : EngineFinishes(c, found)
  \/ BusePoll
  \/ BuseHandler

BuseSpec == Init /\ [][BuseNext]_vars

=============================================================================
