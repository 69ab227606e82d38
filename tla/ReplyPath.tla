-------------------------------- MODULE ReplyPath --------------------------------
(***************************************************************************)
(* How answers reach the peers.  A client's output buffer (output,         *)
(* output_len, output_offset, output_valid) is filled and flushed by two   *)
(* threads: the poll thread, in on_read, for commands that are answered at *)
(* once, and end_req_q_handler for reads.  Nothing locks it (flush_mtx is  *)
(* commented out), so every load and store of output_len is a step.        *)
(*                                                                         *)
(* A thread's remaining work is a list of such steps, ops[t].  A reply is  *)
(* one cell of the buffer, a bulk reply two; what it says is abstract.     *)
(* write() blocks while the socket buffer is full: accept's caller clears  *)
(* O_NONBLOCK.  The storage engine is external and finishes reads in any   *)
(* order.                                                                  *)
(***************************************************************************)
EXTENDS Integers, Sequences, FiniteSets, SequencesExt

CONSTANTS
  Clients,
  Scripts,     \* Scripts[c]: what the peer of c may send, as sequences of commands
  MaxScript,   \* bound: commands in a script
  Readers,     \* clients whose peers read what they are sent
  MgetKeys,    \* keys in an MGET
  Filler,      \* cells that exec_scan_keys writes ahead (filler = 128 bytes)
  SockBuf      \* cells that a socket buffer holds

Threads == {"poll", "handler"}
Most == MaxScript * (MgetKeys + 1)
Cells == 0..(Most * (Filler + 2))   \* OUTPUT_BUFSIZE, never exceeded here
Commands == {"set", "get", "mget", "bad", "keys", "echo", "quit", "junk"}
Replies == {"ok", "err", "bulk", "nil", "header", "array"}   \* first cells of replies

ASSUME ReplyPathAssumption ==
  /\ IsFiniteSet(Clients) /\ Clients # {}
  /\ Readers \subseteq Clients
  /\ MaxScript \in Nat \ {0}
  /\ \A c \in Clients : \A s \in Scripts[c] : s \in Seq(Commands) /\ Len(s) <= MaxScript
  \* client_close frees a client whose reads are still out; peers here do not
  \* quit with reads pending.
  /\ \A c \in Clients : \A s \in Scripts[c] :
       {"quit", "junk"} \cap ToSet(s) = {} \/ {"get", "mget"} \cap ToSet(s) = {}
  /\ MgetKeys \in Nat /\ Filler \in Nat \ {0} /\ SockBuf \in Nat \ {0}

VARIABLES
  inbox,     \* inbox[c]: commands that have arrived at the socket
  buf,       \* buf[c]: commands received and not yet executed (c->buf)
  output, len, offset, valid,   \* c->output, output_len, output_offset, output_valid
  open,      \* clients that are not closed
  reading,   \* reading[c]: reads inside the engine
  queue,     \* end_req_Q: finished reads, as client and outcome
  ops,       \* ops[t]: what thread t has still to do
  on,        \* on[t]: for which client
  reg,       \* reg[t]: locals: tmp of +=; offset, size, sent of flush; n of write
  wire,      \* wire[c]: cells in the socket buffer
  seen,      \* seen[c]: cells that the peer has read
  owed,      \* owed[c]: cells of all replies in the order they were produced
  script,    \* script[c]: what the peer has still to send
  due        \* due[c]: replies due for what it has sent

vars == <<inbox, buf, output, len, offset, valid, open, reading, queue, ops, on,
          reg, wire, seen, owed, script, due>>
client == <<output, len, offset, valid>>
peer == <<inbox, seen, script, due>>
thread == <<ops, on, reg>>

NoLocals == [tmp |-> 0, off |-> 0, size |-> 0, sent |-> 0, n |-> 0]

Init ==
  /\ inbox = [c \in Clients |-> <<>>]
  /\ buf = [c \in Clients |-> <<>>]
  /\ output = [c \in Clients |-> [k \in Cells |-> "junk"]]
  /\ len = [c \in Clients |-> 0]
  /\ offset = [c \in Clients |-> 0]
  /\ valid = [c \in Clients |-> FALSE]
  /\ open = Clients
  /\ reading = [c \in Clients |-> 0]
  /\ queue = <<>>
  /\ ops = [t \in Threads |-> <<>>]
  /\ on = [t \in Threads |-> CHOOSE c \in Clients : TRUE]
  /\ reg = [t \in Threads |-> NoLocals]
  /\ wire = [c \in Clients |-> <<>>]
  /\ seen = [c \in Clients |-> <<>>]
  /\ owed = [c \in Clients |-> <<>>]
  /\ script \in {f \in [Clients -> UNION {Scripts[c] : c \in Clients}] :
                   \A c \in Clients : f[c] \in Scripts[c]}
  /\ due = [c \in Clients |-> 0]

(* how many elements of the sequence s are in S *)
Count(s, S) == Cardinality({i \in 1..Len(s) : s[i] \in S})

(* finished reads of c in end_req_Q *)
Pending(c) == Count(queue, {c} \X BOOLEAN)

TypeOK ==
  /\ inbox \in [Clients -> Seq(Commands)]
  /\ buf \in [Clients -> Seq(Commands)]
  /\ output \in [Clients -> [Cells -> Replies \cup {"crlf", "?", "junk"}]]
  /\ len \in [Clients -> Cells]
  /\ offset \in [Clients -> Cells]
  /\ valid \in [Clients -> BOOLEAN]
  /\ open \subseteq Clients
  /\ reading \in [Clients -> 0..Most]
  /\ queue \in Seq(Clients \X BOOLEAN)
  /\ \A c \in Clients : reading[c] + Pending(c) <= due[c] /\ due[c] <= Most
  /\ on \in [Threads -> Clients]
  /\ reg \in [Threads -> [tmp : Cells, off : Cells, size : Cells, sent : Cells, n : Cells]]
  /\ \A c \in Clients : Len(wire[c]) <= SockBuf

-----------------------------------------------------------------------------
(* Mutants: plausible slips in the code, none of them part of the          *)
(* specification.  Each one breaks the property that it is paired with.    *)

(* output[++output_len] = b *)
WriteAhead(cell) == <<<<"load">>, <<"store">>, <<"copy", cell>>>>

(* The engine calls end_req again for a request that has ended. *)
EngineFinishesAgain(c, found) ==
  /\ reading[c] > 0
  /\ queue' = Append(queue, <<c, found>>)
  /\ UNCHANGED <<peer, buf, client, open, reading, thread, wire, owed>>

(* An error throws away the commands behind it. *)
ExecErrorDrops ==
  /\ ops["poll"] = <<<<"next">>>>
  /\ buf[on["poll"]] # <<>>
  /\ Head(buf[on["poll"]]) = "bad"
  /\ buf' = [buf EXCEPT ![on["poll"]] = <<>>]
  /\ ops' = [ops EXCEPT !["poll"] = <<<<"copy", "err">>, <<"load">>, <<"store">>,
                                     <<"valid?">>>>]
  /\ owed' = [owed EXCEPT ![on["poll"]] = Append(@, "err")]
  /\ UNCHANGED <<peer, client, open, reading, queue, on, reg, wire>>

(* output_valid is not set. *)
ExecSetInvalid ==
  /\ ops["poll"] = <<<<"next">>>>
  /\ buf[on["poll"]] # <<>>
  /\ Head(buf[on["poll"]]) = "set"
  /\ buf' = [buf EXCEPT ![on["poll"]] = Tail(@)]
  /\ ops' = [ops EXCEPT !["poll"] = <<<<"copy", "ok">>, <<"load">>, <<"store">>,
                                     <<"next">>>>]
  /\ owed' = [owed EXCEPT ![on["poll"]] = Append(@, "ok")]
  /\ UNCHANGED <<peer, client, open, reading, queue, on, reg, wire>>

-----------------------------------------------------------------------------
(* Lists of steps *)

(* client_write and client_write_byte; the latter loads output_len once    *)
(* for both, which only a second thread in the same buffer could tell.     *)
Write(cell) == <<<<"copy", cell>>, <<"load">>, <<"store">>>>

(* client_flush_offset(c, off); "own" is c->output_offset. *)
Flush(off) == <<<<"test", off>>, <<"write">>, <<"zero">>>>

(* client_clear *)
Clear == <<<<"zero">>, <<"zerooff">>>>

(* end_req_q_handler's answer to a read, found or not *)
Answer(found) ==
  (IF found THEN Write("bulk") \o Write("crlf") ELSE Write("nil"))
  \o Flush("zero") \o Clear

(* client_exec_commands and what on_read does after it *)
Execute == <<<<"next">>>>
FlushIfValid == <<<<"valid?">>>>
FlushAndClear == Flush("own") \o Clear \o <<<<"invalid">>>>

(* exec_scan_keys without a database: filler, header, output_offset *)
ScanKeys == [k \in 1..(3 * Filler) |-> Write("?")[1 + ((k - 1) % 3)]] \o <<<<"header">>>>

-----------------------------------------------------------------------------
(* The peers and the engine *)

(* An MGET is answered by a header and its reads; to a peer's own "+OK",   *)
(* "$-1" and the like (echo) nothing is answered.                          *)
RepliesTo(command) ==
  CASE command = "mget" -> 1 + MgetKeys
    [] command = "echo" -> 0
    [] OTHER -> 1
RepliesToAll(s) == Count(s, Commands \ {"echo"}) + MgetKeys * Count(s, {"mget"})

SendCommand(c) ==
  /\ c \in open
  /\ script[c] # <<>>
  /\ script' = [script EXCEPT ![c] = Tail(@)]
  /\ due' = [due EXCEPT ![c] = @ + RepliesTo(Head(script[c]))]
  /\ inbox' = [inbox EXCEPT ![c] = Append(@, Head(script[c]))]
  /\ UNCHANGED <<buf, client, open, reading, queue, thread, wire, seen, owed>>

ReadReply(c) ==
  /\ wire[c] # <<>>
  /\ seen' = [seen EXCEPT ![c] = Append(@, Head(wire[c]))]
  /\ wire' = [wire EXCEPT ![c] = Tail(@)]
  /\ UNCHANGED <<inbox, buf, client, open, reading, queue, thread, owed, script, due>>

EngineFinishes(c, found) ==
  /\ reading[c] > 0
  /\ reading' = [reading EXCEPT ![c] = @ - 1]
  /\ queue' = Append(queue, <<c, found>>)
  /\ UNCHANGED <<peer, buf, client, open, thread, wire, owed>>

-----------------------------------------------------------------------------
(* Where the threads take up work *)

(* poll reports c readable and on_read receives what there is. *)
OnRead(c) ==
  /\ ops["poll"] = <<>>
  /\ c \in open
  /\ inbox[c] # <<>>
  /\ buf' = [buf EXCEPT ![c] = @ \o inbox[c]]
  /\ inbox' = [inbox EXCEPT ![c] = <<>>]
  /\ on' = [on EXCEPT !["poll"] = c]
  /\ ops' = [ops EXCEPT !["poll"] = Execute]
  /\ UNCHANGED <<client, open, reading, queue, reg, wire, seen, owed, script, due>>

(* What a reply adds to owed. *)
Owes(c, cells) == owed' = [owed EXCEPT ![c] = @ \o cells]

HandlerDequeues ==
  /\ ops["handler"] = <<>>
  /\ queue # <<>>
  /\ queue' = Tail(queue)
  /\ on' = [on EXCEPT !["handler"] = Head(queue)[1]]
  /\ ops' = [ops EXCEPT !["handler"] = Answer(Head(queue)[2])]
  /\ Owes(Head(queue)[1], IF Head(queue)[2] THEN <<"bulk", "crlf">> ELSE <<"nil">>)
  /\ UNCHANGED <<peer, buf, client, open, reading, reg, wire>>

-----------------------------------------------------------------------------
(* client_exec_commands on the poll thread: one turn of its loop *)

At(t, op) == ops[t] # <<>> /\ Head(ops[t])[1] = op

Does(command) ==
  /\ At("poll", "next")
  /\ buf[on["poll"]] # <<>>
  /\ Head(buf[on["poll"]]) = command
  /\ buf' = [buf EXCEPT ![on["poll"]] = Tail(@)]

Continue(steps) == ops' = [ops EXCEPT !["poll"] = steps]

(* ERR_INCOMPLETE: no more commands. *)
ExecNone ==
  /\ At("poll", "next")
  /\ buf[on["poll"]] = <<>>
  /\ Continue(FlushIfValid)
  /\ UNCHANGED <<peer, buf, client, open, reading, queue, on, reg, wire, owed>>

(* exec_set, exec_upt, exec_mset, exec_flushdb *)
ExecSet ==
  /\ Does("set")
  /\ Continue(Write("ok") \o <<<<"validate">>>> \o Execute)
  /\ Owes(on["poll"], <<"ok">>)
  /\ UNCHANGED <<peer, client, open, reading, queue, on, reg, wire>>

(* exec_get: the reply is the handler's business. *)
ExecGet ==
  /\ Does("get")
  /\ reading' = [reading EXCEPT ![on["poll"]] = @ + 1]
  /\ UNCHANGED <<peer, client, open, queue, thread, wire, owed>>

(* exec_mget: the header waits in the buffer (output_valid is not set) for *)
(* the handler's answer to the first of the reads, which are made after it.*)
ExecMget ==
  /\ Does("mget")
  /\ Continue(Write("array") \o [k \in 1..MgetKeys |-> <<"read">>] \o Execute)
  /\ Owes(on["poll"], <<"array">>)
  /\ UNCHANGED <<peer, client, open, reading, queue, on, reg, wire>>

MakeRead ==
  /\ At("poll", "read")
  /\ reading' = [reading EXCEPT ![on["poll"]] = @ + 1]
  /\ Continue(Tail(ops["poll"]))
  /\ UNCHANGED <<peer, buf, client, open, queue, on, reg, wire, owed>>

(* exec_ok, exec_ko, exec_bulk, exec_not *)
ExecEcho ==
  /\ Does("echo")
  /\ UNCHANGED <<peer, client, open, reading, queue, thread, wire, owed>>

(* exec_command returns an error: it is written, and the loop is left with *)
(* the commands behind it still in the buffer.                             *)
ExecError ==
  /\ Does("bad")
  /\ Continue(Write("err") \o FlushIfValid)
  /\ Owes(on["poll"], <<"err">>)
  /\ UNCHANGED <<peer, client, open, reading, queue, on, reg, wire>>

(* client_read_command returns an error: it is written, the flush depends  *)
(* on what came before, and on_read returns TRUE.                          *)
ExecProtocolError ==
  /\ Does("junk")
  /\ Continue(Write("err") \o FlushIfValid \o <<<<"close">>>>)
  /\ Owes(on["poll"], <<"err">>)
  /\ UNCHANGED <<peer, client, open, reading, queue, on, reg, wire>>

(* exec_keys, exec_scan *)
ExecKeys ==
  /\ Does("keys")
  /\ Continue(ScanKeys \o Execute)
  /\ Owes(on["poll"], <<"header">>)
  /\ UNCHANGED <<peer, client, open, reading, queue, on, reg, wire>>

(* exec_quit: the reply is flushed, then on_read returns TRUE. *)
ExecQuit ==
  /\ Does("quit")
  /\ Continue(Write("ok") \o <<<<"validate">>>> \o FlushIfValid \o <<<<"close">>>>)
  /\ Owes(on["poll"], <<"ok">>)
  /\ UNCHANGED <<peer, client, open, reading, queue, on, reg, wire>>

-----------------------------------------------------------------------------
(* The steps of either thread t, on client c == on[t] *)

Done(t) == ops' = [ops EXCEPT ![t] = Tail(@)]

Copy(t) ==
  /\ At(t, "copy")
  /\ output' = [output EXCEPT ![on[t]][len[on[t]]] = Head(ops[t])[2]]
  /\ Done(t)
  /\ UNCHANGED <<peer, buf, len, offset, valid, open, reading, queue, on, reg,
                 wire, owed>>

Load(t) ==
  /\ At(t, "load")
  /\ reg' = [reg EXCEPT ![t].tmp = len[on[t]] + 1]
  /\ Done(t)
  /\ UNCHANGED <<peer, buf, client, open, reading, queue, on, wire, owed>>

(* The stores to output_len: the end of +=, the end of a flush, clear. *)
SetLen(t) ==
  /\ \/ At(t, "store") /\ len' = [len EXCEPT ![on[t]] = reg[t].tmp]
     \/ At(t, "zero") /\ len' = [len EXCEPT ![on[t]] = 0]
  /\ reg' = [reg EXCEPT ![t] = NoLocals]
  /\ Done(t)
  /\ UNCHANGED <<peer, buf, output, offset, valid, open, reading, queue, on,
                 wire, owed>>

SetOffset(t) ==
  /\ \/ At(t, "zerooff") /\ offset' = [offset EXCEPT ![on[t]] = 0] /\ UNCHANGED output
     \/ /\ At(t, "header")
        /\ output' = [output EXCEPT ![on[t]][Filler - 1] = "header"]
        /\ offset' = [offset EXCEPT ![on[t]] = Filler - 1]
  /\ Done(t)
  /\ UNCHANGED <<peer, buf, len, valid, open, reading, queue, on, reg, wire, owed>>

SetValid(t) ==
  /\ \/ At(t, "validate") /\ valid' = [valid EXCEPT ![on[t]] = TRUE]
     \/ At(t, "invalid") /\ valid' = [valid EXCEPT ![on[t]] = FALSE]
  /\ Done(t)
  /\ UNCHANGED <<peer, buf, output, len, offset, open, reading, queue, on, reg,
                 wire, owed>>

TestValid ==
  /\ At("poll", "valid?")
  /\ Continue((IF valid[on["poll"]] THEN FlushAndClear ELSE <<>>) \o Tail(ops["poll"]))
  /\ UNCHANGED <<peer, buf, client, open, reading, queue, on, reg, wire, owed>>

(* The head of client_flush_offset. *)
TestLen(t) ==
  /\ At(t, "test")
  /\ LET off == IF Head(ops[t])[2] = "own" THEN offset[on[t]] ELSE 0
     IN  IF len[on[t]] - off <= 0
         THEN /\ ops' = [ops EXCEPT ![t] = SubSeq(@, 4, Len(@))]
              /\ UNCHANGED reg
         ELSE /\ reg' = [reg EXCEPT ![t].off = off, ![t].sent = 0, ![t].n = 0,
                                    ![t].size = len[on[t]] - off]
              /\ Done(t)
  /\ UNCHANGED <<peer, buf, client, open, reading, queue, on, wire, owed>>

(* while (sent < size) write(fd, output + offset, output_len - offset).    *)
(* With nothing left to write it spins; below zero the call fails and the  *)
(* process exits, which is a step that is not taken.                       *)
CallWrite(t) ==
  /\ At(t, "write")
  /\ reg[t].n = 0
  /\ IF reg[t].sent < reg[t].size
     THEN /\ len[on[t]] > reg[t].off
          /\ reg' = [reg EXCEPT ![t].n = len[on[t]] - reg[t].off]
          /\ UNCHANGED ops
     ELSE Done(t) /\ UNCHANGED reg
  /\ UNCHANGED <<peer, buf, client, open, reading, queue, on, wire, owed>>

WriteCell(t) ==
  /\ At(t, "write")
  /\ reg[t].n > 0
  /\ Len(wire[on[t]]) < SockBuf
  /\ wire' = [wire EXCEPT ![on[t]] = Append(@, output[on[t]][reg[t].off])]
  /\ reg' = [reg EXCEPT ![t].n = @ - 1, ![t].off = @ + 1, ![t].sent = @ + 1]
  /\ UNCHANGED <<peer, buf, client, open, reading, queue, ops, on, owed>>

Close ==
  /\ At("poll", "close")
  /\ open' = open \ {on["poll"]}
  /\ Done("poll")
  /\ UNCHANGED <<peer, buf, client, reading, queue, on, reg, wire, owed>>

-----------------------------------------------------------------------------

PollThread ==
  \/ \E c \in Clients : OnRead(c)
  \/ ExecNone \/ ExecSet \/ ExecGet \/ ExecMget \/ MakeRead \/ ExecEcho
  \/ ExecError \/ ExecProtocolError \/ ExecKeys \/ ExecQuit
  \/ TestValid \/ Close

Either(t) ==
  \/ Copy(t) \/ Load(t) \/ SetLen(t) \/ SetOffset(t) \/ SetValid(t)
  \/ TestLen(t) \/ CallWrite(t) \/ WriteCell(t)

Next ==
  \/ \E c \in Clients : SendCommand(c)
  \/ \E c \in Clients : ReadReply(c) \/ \E found \in BOOLEAN : EngineFinishes(c, found)
  \/ PollThread
  \/ HandlerDequeues
  \/ \E t \in Threads : Either(t)

Spec == Init /\ [][Next]_vars

(* Both threads keep running, the engine finishes every read and the peers *)
(* in Readers read their replies.  Nobody is obliged to send.              *)
Fairness ==
  /\ WF_vars(PollThread \/ Either("poll"))
  /\ WF_vars(HandlerDequeues \/ Either("handler"))
  /\ \A c \in Clients : WF_vars(\E found \in BOOLEAN : EngineFinishes(c, found))
  /\ \A c \in Readers : WF_vars(ReadReply(c))

FairSpec == Spec /\ Fairness

-----------------------------------------------------------------------------

(* A peer asks if all it sends are GETs and an MGET, which comes before    *)
(* its first read; the replies are then the handler's.  It tells if it     *)
(* sends no reads, and lists keys before anything else that is answered;   *)
(* the replies are then the poll thread's.                                 *)
Before(s, command) == \A j \in 1..Len(s) :
  s[j] = command => \A i \in 1..(j - 1) : s[i] = "echo"
Asking == {"get", "mget", "echo"}
Asks(s) == s \in Seq(Asking) /\ Before(s, "mget")
Telling == {"set", "bad", "keys", "echo", "quit", "junk"}
Tells(s) == s \in Seq(Telling) /\ Before(s, "keys")

Askers == {c \in Clients : \A s \in Scripts[c] : Asks(s)}
Apart == {c \in Clients : c \in Askers \/ \A s \in Scripts[c] : Tells(s)}

(* What a peer that only asks or only tells has received, with what is on  *)
(* its way in the socket, is a prefix of its replies in the order in which *)
(* they were produced: no cell is lost, sent twice, overwritten or sent    *)
(* before it was filled, whatever the other peers send and whatever the    *)
(* two threads do to each other for them.  Of a peer that mixes reads with *)
(* other commands nothing of the kind can be said: both threads are in its *)
(* buffer and nothing excludes them.                                       *)
RepliesIntact == \A c \in Apart : IsPrefix(seen[c] \o wire[c], owed[c])

(* Every reply that is due for what a peer has sent is in exactly one      *)
(* place: with a command that is unread, in the client's buffer or being   *)
(* executed, with a read in the engine or in end_req_Q, or produced.  None *)
(* is dropped and none is produced twice, also when a batch is left behind *)
(* by an error in its middle.                                              *)
CommandsAccounted ==
  \A c \in Clients :
    due[c] = RepliesToAll(inbox[c]) + RepliesToAll(buf[c]) + reading[c]
             + (IF on["poll"] = c THEN Count(ops["poll"], {<<"read">>}) ELSE 0)
             + Pending(c)
             + Count(owed[c], Replies)

(* Once its peer stops sending, every command of a client whose peer reads *)
(* is executed and its reply arrives: the replies of sets leave with their *)
(* batch, those of reads one by one, the header of an MGET with the first  *)
(* of its reads, and neither thread stays behind.  It takes a peer that    *)
(* makes no errors and lists no keys, since those replies wait in the      *)
(* buffer for the next batch with another one, and that does not quit.     *)
(* And nobody may have sent a mix of reads and other commands: a thread    *)
(* whose output_len the other one clears between its test and its write()  *)
(* goes on writing nothing, for ever, and serves nobody.                   *)
Answered ==
  \A c \in Readers \cap Apart :
    <>[](\/ \E d \in Clients \ Apart : due[d] > 0
         \/ c \notin open
         \/ {"err", "header"} \cap ToSet(owed[c]) # {}
         \/ inbox[c] = <<>> /\ buf[c] = <<>> /\ reading[c] = 0 /\ seen[c] = owed[c])

=============================================================================
