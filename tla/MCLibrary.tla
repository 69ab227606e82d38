------------------------------- MODULE MCLibrary -------------------------------
(* StreamParser, LinkedQueue, PriorityQueue, KeyMap and KeyScan for TLC:   *)
(* parts that do not meet, of which each behaviour runs one                *)
EXTENDS Containers

CONSTANTS Sessions, MaxCuts, Letters, MaxTokens, MaxKey

VARIABLES
  part,
  wire, str, cur, pc, req, eager, session, made, oks, dma, cuts,
  tokens, key, listed

streamVars == <<wire, str, cur, pc, req, eager, session, made, oks, dma, cuts>>
listVars == <<mem, count, front, rear, open, destroying, queued>>
heapVars == <<nodes, len, size, call, item, hole, held, pushes, deep>>
mapVars == <<map, values, arg, hash>>
scanVars == <<tokens, key, listed>>
vars == <<part, streamVars, listVars, heapVars, mapVars, scanVars>>

Stream == INSTANCE StreamParser
Scan == INSTANCE KeyScan

Cmd(type, number, value) == [type |-> type, key |-> number, value |-> value]
Peers ==
  {<<Cmd(1, 7, <<65, 13, 10>>), Cmd(2, 12, <<>>)>>,
   <<Cmd(3, 0, <<>>), Cmd(1, 3, [k \in 1..11 |-> 64 + k]), Cmd(2, 5, <<>>)>>}

Init ==
  /\ part \in {"stream", "list", "heap", "map", "scan"}
  /\ Stream!Init
  /\ part = "stream" \/ (eager /\ session = CHOOSE s \in Sessions : TRUE)
  /\ List!Init
  /\ Heap!Init
  /\ Map!Init
  /\ IF part = "scan" THEN Scan!Init ELSE tokens = <<>> /\ key = <<>> /\ listed = "asked"

Next ==
  /\ \/ /\ part = "stream" /\ Stream!Next
        /\ UNCHANGED <<listVars, heapVars, mapVars, scanVars>>
     \/ /\ part = "list" /\ List!Next
        /\ UNCHANGED <<streamVars, heapVars, mapVars, scanVars>>
     \/ /\ part = "heap" /\ Heap!Next
        /\ UNCHANGED <<streamVars, listVars, mapVars, scanVars>>
     \/ /\ part = "map" /\ Map!Next
        /\ UNCHANGED <<streamVars, listVars, heapVars, scanVars>>
     \/ /\ part = "scan" /\ Scan!Next
        /\ UNCHANGED <<streamVars, listVars, heapVars, mapVars>>
  /\ UNCHANGED part

Spec == Init /\ [][Next]_vars

(* The stream parser of command.c makes the requests that the peer sent,   *)
(* but for what a cut behind the key of a SET does to it, and lengths are  *)
(* right over any cuts but one behind their digits (StreamParser).         *)
MadeAsSent == Stream!MadeAsSent

(* +OK and alloc_dma come once for each command and are repeated only by a *)
(* cut behind the name or the key of a SET (StreamParser).                 *)
OnceUnlessCut == Stream!OnceUnlessCut

(* pattern_limits and stringmatchlen select exactly the keys that a        *)
(* pattern matches (KeyScan).                                              *)
ListedIffMatched == Scan!ListedIffMatched
=============================================================================
