------------------------------ MODULE StreamParser ------------------------------
(***************************************************************************)
(* The parser of command.c (GetLength, GetType, GetKey, GetValue, and the  *)
(* loops master_GetRequest and GetRequest).  It keeps no input: what it    *)
(* has understood of a command that has not arrived completely is in the   *)
(* request, with which it is called again for the next segment.            *)
(*                                                                         *)
(* A character is its ASCII code.  The caller (no longer in the            *)
(* repository) receives a segment and calls the parser with the request    *)
(* that the last call returned.  Peers send SET, GET and DEL as arrays of  *)
(* bulk strings of less than 100 characters; TCP cuts them anywhere.       *)
(*                                                                         *)
(* One kind of cut makes GetLength miscount.  The parser is followed up to *)
(* there (LengthsAsCut) and not where the wrong length then leads it.      *)
(***************************************************************************)
EXTENDS Integers, Sequences, FiniteSets, SequencesExt

CONSTANTS
  Sessions,   \* what a peer may send: sequences of [type, key, value]
  MaxCuts     \* bound: how often the stream of a peer is cut

CR == 13
LF == 10
Zero == 48          \* '0'
Name == <<<<83, 69, 84>>, <<71, 69, 84>>, <<68, 69, 76>>>>   \* SET GET DEL

VARIABLES
  wire,    \* characters on the way
  str,     \* the segment
  cur,     \* the position in it; Len(str) + 1 is its end
  pc,      \* "recv", "top", "keyword", "typeLen", "type", "ok", "keyLen", "key",
           \* "bump", "valueLen", "value", "make"
  req,     \* new_req: [valid, len, text] of each field, and bumps; or NoReq
  eager,   \* GetRequest, which answers a SET at once, or master_GetRequest
  session, \* what the peer sends
  made,    \* requests made
  oks,     \* times that "+OK" was written
  dma,     \* calls of alloc_dma
  cuts     \* history: where the stream was cut

vars == <<wire, str, cur, pc, req, eager, session, made, oks, dma, cuts>>
parser == <<str, cur, req>>
done == <<made, oks, dma>>
setting == <<eager, session>>

-----------------------------------------------------------------------------
(* Numbers and what peers send *)

(* added_len: digits to a number, with whatever else is between them *)
Value(digits) == FoldLeft(LAMBDA n, ch : 10 * n + ch - Zero, 0, digits)
IsDigit(ch) == ch \in Zero..(Zero + 9)

Digits(n) == IF n < 10 THEN <<Zero + n>> ELSE <<Zero + (n \div 10), Zero + (n % 10)>>

(* A character is in one of the parts of a command ("head": the number of  *)
(* its strings), behind so many characters of its string.  It spoils when  *)
(* a cut in front of it makes GetLength miscount: it ends the line of a    *)
(* length, to which the next segment then adds a zero.  (In the head that  *)
(* does no harm, nobody uses the number.)                                  *)
Place(n, part) == [cmd |-> n, part |-> part, past |-> 0, spoils |-> FALSE]

Chars(text, at) == [k \in DOMAIN text |-> [ch |-> text[k], at |-> at]]

LengthLine(mark, n, at) ==
  Chars(<<mark>> \o Digits(n), at)
  \o Chars(<<CR>>, [at EXCEPT !.spoils = n # 0 /\ at.part # "head"])
  \o Chars(<<LF>>, at)

Bulk(text, at) ==
  LengthLine(36, Len(text), at)
  \o [k \in DOMAIN text |-> [ch |-> text[k], at |-> [at EXCEPT !.past = k - 1]]]
  \o Chars(<<CR, LF>>, [at EXCEPT !.past = Len(text)])

(* A key is a letter and digits. *)
Encoded(n, c) ==
  LengthLine(42, IF c.type = 1 THEN 3 ELSE 2, Place(n, "head"))
  \o Bulk(Name[c.type], Place(n, "type"))
  \o Bulk(<<107>> \o Digits(c.key), Place(n, "key"))
  \o (IF c.type = 1 THEN Bulk(c.value, Place(n, "value")) ELSE <<>>)

-----------------------------------------------------------------------------

Fields == {"keyword", "type", "key", "value"}
NoReq == [bumps |-> -1]
Unknown == -1       \* what a DMA buffer holds before it is written
Fresh == [f \in Fields |-> [valid |-> 0, len |-> 0, text |-> <<>>]] @@ [bumps |-> 0]

Init ==
  /\ session \in Sessions
  /\ eager \in BOOLEAN
  /\ wire = FlattenSeq([k \in DOMAIN session |-> Encoded(k, session[k])])
  /\ str = <<>> /\ cur = 1 /\ pc = "recv" /\ req = NoReq
  /\ made = <<>> /\ oks = 0 /\ dma = 0 /\ cuts = <<>>

-----------------------------------------------------------------------------
(* Mutants: plausible slips in the code, none of them part of the          *)
(* specification.  Each one breaks the property that it is paired with.    *)

(* A length that is resumed starts over. *)
ContinuedAnew(n, digits) == Value(digits)

(* A delete gets a buffer as well. *)
BumpAlways ==
  /\ pc = "bump"
  /\ req' = [req EXCEPT !.bumps = @ + 1]
  /\ dma' = dma + 1
  /\ pc' = IF req.type.text # Name[1] THEN "make" ELSE "valueLen"
  /\ UNCHANGED <<wire, str, cur, made, oks, cuts, setting>>

-----------------------------------------------------------------------------
(* The caller *)

Recv(n) ==
  /\ pc = "recv"
  /\ n \in 1..Len(wire)
  /\ \/ n = Len(wire) /\ UNCHANGED cuts
     \/ /\ n < Len(wire) /\ Len(cuts) < MaxCuts
        /\ cuts' = Append(cuts, wire[n + 1].at)
  /\ str' = [k \in 1..n |-> wire[k].ch]
  /\ wire' = SubSeq(wire, n + 1, Len(wire))
  /\ cur' = 1
  /\ pc' = "top"
  /\ UNCHANGED <<req, done, setting>>

(* The head of the loop: with something left in the segment a new request  *)
(* is begun or the last one resumed.                                       *)
Top ==
  /\ pc = "top"
  /\ IF cur <= Len(str)
     THEN pc' = "keyword" /\ req' = IF req = NoReq THEN Fresh ELSE req
     ELSE pc' = "recv" /\ UNCHANGED req
  /\ UNCHANGED <<wire, str, cur, done, cuts, setting>>

-----------------------------------------------------------------------------
(* The fields.  Each part is skipped when a former call has completed it,  *)
(* and returns (-1) to the caller when the segment ends within it.         *)

(* GetLength: the number may continue one of the last segment, by one      *)
(* digit, or so it is taken.                                               *)
Continued(n, digits) == 10 * n + Value(digits)

LengthAt(f, mark) ==
  LET start == IF str[cur] = mark THEN cur + 1 ELSE cur
      crs == {k \in start..Len(str) : str[k] = CR}
      end == IF crs = {} THEN Len(str) + 1 ELSE Min(crs)
      full == crs # {} /\ end < Len(str) /\ str[end + 1] = LF
      digits == SubSeq(str, start, end - 1)
  IN  IF cur > Len(str) THEN [cur |-> -1, field |-> req[f]]
      ELSE IF str[cur] = LF
      THEN [cur |-> cur + 1, field |-> [req[f] EXCEPT !.valid = @ + 1]]
      ELSE IF start > Len(str) THEN [cur |-> -1, field |-> req[f]]
      ELSE [cur |-> IF full THEN end + 2 ELSE -1,
            field |-> [req[f] EXCEPT !.len = Continued(@, digits),
                                     !.valid = IF full THEN @ + 1 ELSE @]]

(* GetType, GetKey, GetValue: what the segment has of the text, and the    *)
(* end of its line.                                                        *)
TextAt(f) ==
  LET left == req[f].len - Len(req[f].text)
      there == Len(str) - cur + 1
  IN  SubSeq(str, cur, cur + (IF there > left THEN left ELSE there) - 1)

FieldAt(f) ==
  LET text == TextAt(f)
      end == cur + Len(text)
      lf == IF end <= Len(str) /\ str[end] = CR THEN end + 1 ELSE end
      full == lf <= Len(str) /\ str[lf] = LF
  IN  [cur |-> IF full THEN lf + 1 ELSE -1,
       field |-> [req[f] EXCEPT !.text = @ \o text, !.valid = IF full THEN @ + 1 ELSE @]]

Apply(f, result, next) ==
  /\ req' = [req EXCEPT ![f] = result.field]
  /\ IF result.cur = -1
     THEN pc' = "recv" /\ UNCHANGED cur
     ELSE pc' = next /\ cur' = result.cur

GetLength(at, f, mark, next) ==
  /\ pc = at
  /\ IF req[f].valid = 0 THEN Apply(f, LengthAt(f, mark), next)
                         ELSE pc' = next /\ UNCHANGED <<req, cur>>
  /\ UNCHANGED <<wire, str, done, cuts, setting>>

(* The length of the string that is being received *)
SentLen(f) ==
  LET c == session[Len(made) + 1]
  IN  CASE f = "type" -> 3
        [] f = "key" -> 1 + Len(Digits(c.key))
        [] f = "value" -> Len(c.value)

(* With a length that is not the one sent the copy would run past the      *)
(* string, and past type_str: nothing is said of it.                       *)
GetText(f, next) ==
  /\ pc = f
  /\ req[f].len = SentLen(f)
  /\ IF req[f].valid = 1 THEN Apply(f, FieldAt(f), next)
                         ELSE pc' = next /\ UNCHANGED <<req, cur>>
  /\ UNCHANGED <<wire, str, done, cuts, setting>>

(* The key's digits, whatever else is among them, and what was added *)
Key == Value(SelectSeq(req.key.text, IsDigit)) + req.bumps

(* type_info->type; 0 for other names *)
Type == IF \E t \in 1..3 : req.type.text = Name[t]
        THEN CHOOSE t \in 1..3 : req.type.text = Name[t] ELSE 0

(* GetRequest only: write(fd, "+OK\r\n", 5), before the rest has arrived *)
AckSet ==
  /\ pc = "ok"
  /\ oks' = IF eager /\ Type = 1 THEN oks + 1 ELSE oks
  /\ pc' = "keyLen"
  /\ UNCHANGED <<wire, parser, made, dma, cuts, setting>>

(* key++ and alloc_dma, also when the request is resumed behind its key.   *)
(* The value goes on in the new buffer where it stopped in the old one.    *)
Bump ==
  /\ pc = "bump"
  /\ IF Type < 3
     THEN /\ dma' = dma + 1
          /\ req' = [req EXCEPT !.bumps = @ + 1,
                                !.value.text = [k \in DOMAIN @ |-> Unknown]]
     ELSE /\ UNCHANGED dma
          /\ req' = [req EXCEPT !.bumps = @ + 1]
  /\ pc' = IF Type > 1 THEN "make" ELSE "valueLen"
  /\ UNCHANGED <<wire, str, cur, made, oks, cuts, setting>>

(* make_req of request.cc adds one to the key; master_make_req, which is   *)
(* not in the repository, is taken to leave the request as it is.          *)
Made(k) == IF eager THEN k + 1 ELSE k

MakeReq ==
  /\ pc = "make"
  /\ made' = Append(made, [type |-> Type, key |-> Made(Key), value |-> req.value.text])
  /\ req' = NoReq
  /\ pc' = "top"
  /\ UNCHANGED <<wire, str, cur, oks, dma, cuts, setting>>

-----------------------------------------------------------------------------

Next ==
  \/ \E n \in 1..Len(wire) : Recv(n)
  \/ Top
  \/ GetLength("keyword", "keyword", 42, "typeLen")
  \/ GetLength("typeLen", "type", 36, "type")
  \/ GetText("type", "ok")
  \/ AckSet
  \/ GetLength("keyLen", "key", 36, "key")
  \/ GetText("key", "bump")
  \/ Bump
  \/ GetLength("valueLen", "value", 36, "value")
  \/ GetText("value", "make")
  \/ MakeReq

Spec == Init /\ [][Next]_vars

-----------------------------------------------------------------------------

(* Properties.  They speak of streams that are not cut where GetLength     *)
(* miscounts; LengthsAsCut of all.                                         *)

Spoilt == \E k \in DOMAIN cuts : cuts[k].spoils

(* The cuts in these parts of command n.  A SET that is cut there is       *)
(* resumed behind a step that has been taken and is taken again.           *)
Late(n, parts) == SelectSeq(cuts, LAMBDA at : at.cmd = n /\ at.part \in parts)

(* The request of command n: the key is counted from one, or from two with *)
(* make_req, and one more for every cut behind it; of the value, what had  *)
(* arrived by the last of these cuts is in a buffer that is given up.      *)
Request(n) ==
  LET c == session[n]
      late == Late(n, {"value"})
      lost == IF late = <<>> THEN 0 ELSE Last(late).past
  IN  [type |-> c.type,
       key |-> c.key + (IF eager THEN 2 ELSE 1) + Len(late),
       value |-> [k \in DOMAIN c.value |-> IF k <= lost THEN Unknown ELSE c.value[k]]]

Requests == [n \in DOMAIN session |-> Request(n)]

(* A length that counts as valid is the one that the peer sent, over any   *)
(* cuts, and ten times as much if the stream was cut behind its digits.    *)
LengthsAsCut ==
  req # NoReq => \A f \in {"type", "key", "value"} :
    LET behind == SelectSeq(Late(Len(made) + 1, {f}), LAMBDA at : at.spoils)
    IN  req[f].valid # 0 => req[f].len = SentLen(f) * 10^Len(behind)

(* The requests are the commands that the peer has sent, in order, each    *)
(* with its type, key and value, wherever the others and it are cut, but   *)
(* for a SET that is cut behind its key: its key counts those cuts, and    *)
(* its value begins behind the last of them.  When all has arrived, all is *)
(* made.  And LengthsAsCut, wherever the stream is cut.                    *)
MadeAsSent ==
  /\ LengthsAsCut
  /\ ~Spoilt => /\ IsPrefix(made, Requests)
                /\ wire = <<>> /\ pc = "recv" => made = Requests

(* Between commands, the parser has acknowledged each SET once (GetRequest *)
(* does, master_GetRequest does not) and once more for every cut behind    *)
(* its name, and has taken one DMA buffer for each SET and GET and one     *)
(* more for every cut behind the key of a SET: the steps that are not      *)
(* guarded by a valid flag are repeated on those occasions and no others.  *)
OnceUnlessCut ==
  LET sets == {n \in DOMAIN made : session[n].type = 1}
      gets == {n \in DOMAIN made : session[n].type = 2}
      extra(parts) == Len(SelectSeq(cuts, LAMBDA at : at.cmd \in sets /\ at.part \in parts))
  IN  ~Spoilt /\ pc = "recv" /\ req = NoReq =>
        /\ oks = IF eager THEN Cardinality(sets) + extra({"key", "value"}) ELSE 0
        /\ dma = Cardinality(sets \cup gets) + extra({"value"})

=============================================================================
