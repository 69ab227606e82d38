------------------------------ MODULE MultiServer ------------------------------
(***************************************************************************)
(* polling_worker of multi_server.cpp.  Every worker has a listening       *)
(* socket and a table of its own and shares nothing with the others, so    *)
(* one of them is modelled.  The loops are those of PollTable with these   *)
(* differences: no flag keeps clients waiting in a round with a new        *)
(* connection, poll() gives up after three minutes without activity, and a *)
(* worker that ends closes its connections.                                *)
(***************************************************************************)
EXTENDS PollTable

MultiScanSkip ==
  /\ pc = "scan"
  /\ ~revents[i]
  /\ NextEntry
  /\ UNCHANGED <<table, revents, currentSize, isListen, compress, endServer,
                 sockets>>

MultiScanListener ==
  /\ pc = "scan"
  /\ revents[i]
  /\ fd[i] = Listener
  /\ pc' = "accept"
  /\ UNCHANGED <<table, revents, i, currentSize, isListen, compress, endServer,
                 sockets>>

MultiScanClient ==
  /\ pc = "scan"
  /\ revents[i]
  /\ fd[i] # Listener
  /\ pc' = "serve"
  /\ UNCHANGED <<table, revents, i, currentSize, isListen, compress, endServer,
                 sockets>>

(* rc == 0: nothing has happened for three minutes. *)
PollTimesOut ==
  /\ pc = "poll"
  /\ ~ \E k \in 0..(nfds - 1) : Readable(fd[k])
  /\ pc' = "ended"
  /\ UNCHANGED <<table, revents, i, currentSize, isListen, compress, endServer,
                 sockets>>

(* The listener and every connection that has an entry are closed, and the *)
(* arrays are given up.                                                    *)
CloseAll ==
  /\ pc = "ended"
  /\ LET closed == {fd[k] : k \in 0..(nfds - 1)}
     IN  /\ open' = open \ closed
         /\ data' = data \ closed
         /\ eof' = eof \ closed
  /\ backlog' = {}
  /\ fd' = [k \in Index |-> IF k = 0 THEN Listener ELSE Gone]
  /\ nfds' = 1
  /\ UNCHANGED <<client, revents, control>>

MultiWorker ==
  \/ Poll \/ PollFails \/ PollTimesOut
  \/ MultiScanSkip \/ MultiScanListener \/ MultiScanClient
  \/ (\E x \in Connections : Accept(x)) \/ AcceptDone \/ AcceptFails
  \/ ServeKeep \/ ServeClose
  \/ Squeeze \/ RoundEnds
  \/ CloseAll

MultiNext == Peers \/ MultiWorker

MultiSpec == Init /\ [][MultiNext]_vars

=============================================================================
