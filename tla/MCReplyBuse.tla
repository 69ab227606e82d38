------------------------------ MODULE MCReplyBuse ------------------------------
(* ReplyBuse for TLC: one peer that reads its replies in its own time *)
EXTENDS ReplyBuse

CONSTANT a

Gets == a :> {<<"get", "get">>}
=============================================================================
