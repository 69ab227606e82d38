------------------------------- MODULE MCUdpServer -------------------------------
(* UdpServer for TLC: a read and a delete, from two peers *)
EXTENDS UdpServer

CONSTANTS p, q

Traffic ==
  {[from |-> p, target |-> 7, type |-> 2, key |-> 5, keyLen |-> 1],
   [from |-> q, target |-> 1234, type |-> 3, key |-> 12, keyLen |-> 2]}
=============================================================================
