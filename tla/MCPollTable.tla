------------------------------ MODULE MCPollTable ------------------------------
(* PollTable and MultiServer for TLC: each behaviour is one of poll_server *)
(* or of multi_server                                                      *)
EXTENDS MultiServer

VARIABLE server

EitherWorker ==
  /\ \/ server = "poll" /\ Worker
     \/ server = "multi" /\ MultiWorker
  /\ UNCHANGED server

EitherInit == Init /\ server \in {"poll", "multi"}

EitherNext == EitherWorker \/ (Peers /\ UNCHANGED server)

EitherServer ==
  EitherInit /\ [][EitherNext]_<<vars, server>> /\ WF_<<vars, server>>(EitherWorker)

=============================================================================
