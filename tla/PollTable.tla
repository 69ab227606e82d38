-------------------------------- MODULE PollTable --------------------------------
(***************************************************************************)
(* polling_worker: one thread, the listening socket and the table of the   *)
(* connections, fds[] and clients[], indexed in parallel.  The peers and   *)
(* the kernel are the environment: connections that wait to be accepted,   *)
(* sockets with data or an end of file to read.                            *)
(*                                                                         *)
(* A client is named by the descriptor that client_new's caller stores in  *)
(* clients[nfds]->fd.  One listening socket (PORT_NUM and THREAD_NUM are   *)
(* 1), at index 0.  The arrays have MAX_CLNT entries and nothing checks    *)
(* nfds against that: Connections bounds how many peers there are.         *)
(***************************************************************************)
EXTENDS Integers, FiniteSets

CONSTANTS
  Connections,   \* descriptors that accept can return
  Listener,      \* listen_sd
  Gone,          \* fds[i].fd = -1
  Null,          \* no client
  Faults         \* may poll and accept fail?

Entries == 2 * Cardinality(Connections) + 2   \* bound: entries of the table
Index == 0..Entries

(* accept returns neither -1 nor the descriptor that it accepts from. *)
ASSUME PollTableAssumption ==
  /\ IsFiniteSet(Connections) /\ Connections # {}
  /\ {Listener, Gone} \cap Connections = {} /\ Listener # Gone
  /\ Faults \in BOOLEAN

VARIABLES
  fd,          \* fd[i]: fds[i].fd
  revents,     \* revents[i]: fds[i].revents # 0
  client,      \* client[i]: the descriptor in *clients[i]
  nfds,
  i,
  currentSize,
  isListen,    \* isListen_sd
  compress,    \* compress_array
  endServer,
  pc,          \* "poll", "scan", "accept", "serve", "compress", "ended"
  open,        \* descriptors of accepted connections
  backlog,     \* connections that wait for accept
  data,        \* open connections with unread bytes
  eof          \* open connections whose peer has hung up

table == <<fd, client, nfds>>
control == <<i, currentSize, isListen, compress, endServer, pc>>
sockets == <<open, backlog, data, eof>>
vars == <<fd, revents, client, nfds, i, currentSize, isListen, compress,
          endServer, pc, open, backlog, data, eof>>

TypeOK ==
  /\ fd \in [Index -> Connections \cup {Listener, Gone}]
  /\ revents \in [Index -> BOOLEAN]
  /\ client \in [Index -> Connections \cup {Null}]
  /\ nfds \in 1..Entries
  /\ i \in Index
  /\ currentSize \in Index
  /\ {isListen, compress, endServer} \subseteq BOOLEAN
  /\ pc \in {"poll", "scan", "accept", "serve", "compress", "ended"}
  /\ open \subseteq Connections
  /\ backlog \subseteq Connections \ open
  /\ data \subseteq open
  /\ eof \subseteq open

Init ==
  /\ fd = [k \in Index |-> IF k = 0 THEN Listener ELSE Gone]
  /\ revents = [k \in Index |-> FALSE]
  /\ client = [k \in Index |-> Null]
  /\ nfds = 1
  /\ i = 0 /\ currentSize = 0
  /\ isListen = FALSE /\ compress = FALSE /\ endServer = FALSE
  /\ pc = "poll"
  /\ open = {} /\ backlog = {} /\ data = {} /\ eof = {}

-----------------------------------------------------------------------------
(* The peers.  A descriptor number is used again once it is closed. *)

Connect(x) ==
  /\ x \notin open \cup backlog
  /\ backlog' = backlog \cup {x}
  /\ UNCHANGED <<table, revents, control, open, data, eof>>

Send(x) ==
  /\ x \in open \ (data \cup eof)
  /\ data' = data \cup {x}
  /\ UNCHANGED <<table, revents, control, open, backlog, eof>>

HangUp(x) ==
  /\ x \in open \ eof
  /\ eof' = eof \cup {x}
  /\ UNCHANGED <<table, revents, control, open, backlog, data>>

-----------------------------------------------------------------------------
(* Parts of polling_worker's loops *)

(* What poll() reports for descriptor f. *)
Readable(f) ==
  \/ f = Listener /\ backlog # {}
  \/ f \in data \cup eof

(* What follows entry i: the next one, or the end of the round. *)
NextEntry ==
  IF i + 1 < currentSize
  THEN i' = i + 1 /\ pc' = "scan"
  ELSE i' = 0 /\ pc' = "compress"

(* The entries from k on move down by one.  The entry past the end is read *)
(* as well.                                                                *)
Shifted(array, k) ==
  [m \in Index |-> IF m \in k..(nfds - 1) THEN array[m + 1] ELSE array[m]]

-----------------------------------------------------------------------------
(* Mutants: plausible slips in the code, none of them part of the          *)
(* specification.  Each one breaks the property that it is paired with.    *)

(* nfds++ in the body and in the condition of the accept loop *)
AcceptCountsTwice(x) ==
  /\ pc = "accept"
  /\ x \in backlog
  /\ nfds < Entries
  /\ fd' = [fd EXCEPT ![nfds] = x]
  /\ client' = [client EXCEPT ![nfds] = x]
  /\ nfds' = nfds + 2
  /\ open' = open \cup {x}
  /\ backlog' = backlog \ {x}
  /\ UNCHANGED <<revents, control, data, eof>>

(* clients[] is not moved with fds[]. *)
SqueezeFdsOnly ==
  /\ pc = "compress"
  /\ compress /\ i < nfds
  /\ IF fd[i] = Gone
     THEN fd' = Shifted(fd, i) /\ nfds' = nfds - 1
     ELSE UNCHANGED <<fd, nfds>>
  /\ i' = i + 1
  /\ UNCHANGED <<client, revents, currentSize, isListen, compress, endServer, pc,
                 sockets>>

(* The compression stops at the first entry that it removes. *)
SqueezeOnce ==
  /\ pc = "compress"
  /\ compress /\ i < nfds
  /\ IF fd[i] = Gone
     THEN /\ fd' = Shifted(fd, i)
          /\ client' = Shifted(client, i)
          /\ nfds' = nfds - 1
          /\ i' = nfds
     ELSE UNCHANGED table /\ i' = i + 1
  /\ UNCHANGED <<revents, currentSize, isListen, compress, endServer, pc, sockets>>

(* The entry is removed at once, while the round goes on. *)
ServeCloseShifts ==
  /\ pc = "serve"
  /\ client[i] \in data \cup eof
  /\ fd' = Shifted(fd, i)
  /\ client' = Shifted(client, i)
  /\ nfds' = nfds - 1
  /\ open' = open \ {fd[i]}
  /\ data' = data \ {fd[i]}
  /\ eof' = eof \ {fd[i]}
  /\ NextEntry
  /\ UNCHANGED <<revents, currentSize, isListen, compress, endServer, backlog>>

(* isListen_sd is not reset before poll. *)
PollKeepsListen ==
  /\ pc = "poll"
  /\ \E k \in 0..(nfds - 1) : Readable(fd[k])
  /\ revents' = [k \in Index |-> IF k < nfds THEN Readable(fd[k]) ELSE revents[k]]
  /\ currentSize' = nfds
  /\ i' = 0
  /\ pc' = "scan"
  /\ UNCHANGED <<table, isListen, compress, endServer, sockets>>

(* nread == 0 is taken for no data. *)
ServeKeepAtEof ==
  /\ pc = "serve"
  /\ client[i] \in data \cup eof
  /\ data' = data \ {client[i]}
  /\ NextEntry
  /\ UNCHANGED <<table, revents, currentSize, isListen, compress, endServer,
                 open, backlog, eof>>

(* The accept loop may be left with connections waiting. *)
AcceptDoneEarly ==
  /\ pc = "accept"
  /\ NextEntry
  /\ UNCHANGED <<table, revents, currentSize, isListen, compress, endServer,
                 sockets>>

-----------------------------------------------------------------------------
(* polling_worker *)

(* poll() with no timeout returns when a descriptor is readable.  Negative *)
(* descriptors are ignored and get revents 0.                              *)
Poll ==
  /\ pc = "poll"
  /\ \E k \in 0..(nfds - 1) : Readable(fd[k])
  /\ revents' = [k \in Index |-> IF k < nfds THEN Readable(fd[k]) ELSE revents[k]]
  /\ isListen' = FALSE
  /\ currentSize' = nfds
  /\ i' = 0
  /\ pc' = "scan"
  /\ UNCHANGED <<table, compress, endServer, sockets>>

(* rc < 0: the loop is left at once. *)
PollFails ==
  /\ pc = "poll"
  /\ Faults
  /\ pc' = "ended"
  /\ UNCHANGED <<table, revents, i, currentSize, isListen, compress, endServer,
                 sockets>>

(* Nothing to do here; or a connection, once the listener was ready in     *)
(* this round: isListen_sd is reset by the next poll only.                 *)
SkipsEntry(k) == ~revents[k] \/ (fd[k] # Listener /\ isListen)

ScanSkip ==
  /\ pc = "scan"
  /\ SkipsEntry(i)
  /\ NextEntry
  /\ UNCHANGED <<table, revents, currentSize, isListen, compress, endServer,
                 sockets>>

ScanListener ==
  /\ pc = "scan"
  /\ revents[i]
  /\ fd[i] = Listener
  /\ isListen' = TRUE
  /\ pc' = "accept"
  /\ UNCHANGED <<table, revents, i, currentSize, compress, endServer, sockets>>

ScanClient ==
  /\ pc = "scan"
  /\ ~SkipsEntry(i)
  /\ fd[i] # Listener
  /\ pc' = "serve"
  /\ UNCHANGED <<table, revents, i, currentSize, isListen, compress, endServer,
                 sockets>>

(* One turn of the accept loop. *)
Accept(x) ==
  /\ pc = "accept"
  /\ x \in backlog
  /\ nfds < Entries
  /\ fd' = [fd EXCEPT ![nfds] = x]
  /\ client' = [client EXCEPT ![nfds] = x]
  /\ nfds' = nfds + 1
  /\ open' = open \cup {x}
  /\ backlog' = backlog \ {x}
  /\ UNCHANGED <<revents, control, data, eof>>

(* EWOULDBLOCK *)
AcceptDone ==
  /\ pc = "accept"
  /\ backlog = {}
  /\ NextEntry
  /\ UNCHANGED <<table, revents, currentSize, isListen, compress, endServer,
                 sockets>>

(* Any other error: the round goes on, but it is the last. *)
AcceptFails ==
  /\ pc = "accept"
  /\ Faults
  /\ endServer' = TRUE
  /\ NextEntry
  /\ UNCHANGED <<table, revents, currentSize, isListen, compress, sockets>>

(* on_read(clients[i]) reads what there is, executes it and keeps the      *)
(* connection.  (It has no return statement at its end; built without      *)
(* optimisation it returns what the test of keep_alive left, 0.)           *)
ServeKeep ==
  /\ pc = "serve"
  /\ client[i] \in data
  /\ data' = data \ {client[i]}
  /\ NextEntry
  /\ UNCHANGED <<table, revents, currentSize, isListen, compress, endServer,
                 open, backlog, eof>>

(* on_read returns TRUE, at the end of file or because a command asks for  *)
(* it (quit, protocol error): close, client_close.                         *)
ServeClose ==
  /\ pc = "serve"
  /\ client[i] \in data \cup eof
  /\ fd' = [fd EXCEPT ![i] = Gone]
  /\ open' = open \ {fd[i]}
  /\ data' = data \ {fd[i]}
  /\ eof' = eof \ {fd[i]}
  /\ compress' = TRUE
  /\ NextEntry
  /\ UNCHANGED <<client, nfds, revents, currentSize, isListen, endServer, backlog>>

(* One turn of the outer loop: i goes on even when another entry has moved *)
(* into its place.                                                         *)
Squeeze ==
  /\ pc = "compress"
  /\ compress /\ i < nfds
  /\ IF fd[i] = Gone
     THEN /\ fd' = Shifted(fd, i)
          /\ client' = Shifted(client, i)
          /\ nfds' = nfds - 1
     ELSE UNCHANGED table
  /\ i' = i + 1
  /\ UNCHANGED <<revents, currentSize, isListen, compress, endServer, pc, sockets>>

RoundEnds ==
  /\ pc = "compress"
  /\ ~compress \/ i >= nfds
  /\ compress' = FALSE
  /\ pc' = IF endServer THEN "ended" ELSE "poll"
  /\ i' = 0
  /\ currentSize' = 0
  /\ UNCHANGED <<table, revents, isListen, endServer, sockets>>

-----------------------------------------------------------------------------

Peers == \E x \in Connections : Connect(x) \/ Send(x) \/ HangUp(x)

Worker ==
  \/ Poll \/ PollFails
  \/ ScanSkip \/ ScanListener \/ ScanClient
  \/ (\E x \in Connections : Accept(x)) \/ AcceptDone \/ AcceptFails
  \/ ServeKeep \/ ServeClose
  \/ Squeeze \/ RoundEnds

Next == Peers \/ Worker

Spec == Init /\ [][Next]_vars

(* The poll thread keeps running.  Nobody is obliged to connect, to send   *)
(* or to hang up.                                                          *)
FairSpec == Spec /\ WF_vars(Worker)

-----------------------------------------------------------------------------

(* The connections of the table are the open ones, each of them at one     *)
(* index, where fds and clients agree; the listener stays at index 0.  The *)
(* moves of the compression keep the two arrays in step.                   *)
TableOK ==
  /\ fd[0] = Listener
  /\ \A k \in 1..(nfds - 1) :
        fd[k] # Gone => fd[k] \in open /\ client[k] = fd[k]
  /\ \A x \in open : Cardinality({k \in 0..(nfds - 1) : fd[k] = x}) = 1

(* on_read is called for a client that has not been freed and whose socket *)
(* has something to read: the sockets block (O_NONBLOCK is cleared), so a  *)
(* recv with nothing to read would stop the only thread of the server.     *)
RecvDoesNotBlock ==
  pc = "serve" => fd[i] \in open /\ client[i] = fd[i] /\ Readable(client[i])

(* The compression skips every second of a row of closed entries, but      *)
(* those that stay behind do not pile up: they are fewer than the          *)
(* connections that there can be, so MAX_CLNT entries are enough for half  *)
(* as many connections, however long the server runs.                      *)
TableStaysSmall == nfds <= 2 * Cardinality(Connections)

(* Data that has arrived is read, unless connections arrive for ever (in a *)
(* round with a new connection no client is served) or the loop has ended. *)
DataIsRead ==
  <>[](backlog = {}) => \A x \in Connections : x \in data ~> (x \notin data \/ pc = "ended")

(* A peer that hangs up is noticed and its entry closed, under the same    *)
(* conditions.                                                             *)
HangUpIsReaped ==
  <>[](backlog = {}) => \A x \in Connections : x \in eof ~> (x \notin open \/ pc = "ended")

(* A connection that waits is accepted, however busy the others are, as    *)
(* long as the loop runs.                                                  *)
BacklogIsAccepted ==
  \A x \in Connections : x \in backlog ~> (x \in open \/ pc = "ended")

=============================================================================
