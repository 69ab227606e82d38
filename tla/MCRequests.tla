------------------------------- MODULE MCRequests -------------------------------
(* Requests for TLC: one buffer for writes and two for reads, fewer than   *)
(* the requests that may be alive, so that alloc_dma has to wait.          *)
EXTENDS Requests

SmallPools == [k \in Pools |-> IF k = WRITE THEN {0} ELSE {0, 1}]
=============================================================================
