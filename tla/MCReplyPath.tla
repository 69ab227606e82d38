------------------------------ MODULE MCReplyPath ------------------------------
(* ReplyPath for TLC: which peer sends what *)
EXTENDS ReplyPath

CONSTANTS a, b, m

(* a asks, b tells, and m mixes a read with a write, so that both threads  *)
(* are in its buffer.                                                      *)
Sends ==
  (a :> {<<"get", "get">>, <<"mget">>, <<"get">>})
  @@ (b :> {<<>>, <<"set", "bad", "set">>, <<"echo", "set", "quit">>, <<"set", "junk">>,
            <<"keys", "set">>})
  @@ (m :> {<<>>, <<"set", "get">>})

(* Two peers at a time; a GET is enough to be in the way of m. *)
TwoAtATime ==
  /\ Init
  /\ IF script[m] = <<>> THEN script[a] # <<"get">> /\ script[b] # <<>>
                         ELSE script[a] = <<"get">> /\ script[b] = <<>>

PairsSpec == TwoAtATime /\ [][Next]_vars /\ Fairness
=============================================================================
