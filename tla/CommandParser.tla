------------------------------ MODULE CommandParser ------------------------------
(***************************************************************************)
(* A client's input: on_read receives part of the byte stream behind what  *)
(* is still in c->buf, client_exec_commands parses and executes commands   *)
(* until one is incomplete or fails, and what is left is moved to the      *)
(* front of the buffer when there is little room behind it.                *)
(*                                                                         *)
(* The stream is cut anywhere.  A cell is a byte, except that a decimal    *)
(* number is one cell: the parser looks at a number only once it has found *)
(* the line feed behind it.  A peer sends arrays of bulk strings, lines of *)
(* text, and, since the server is also told what other servers answer,     *)
(* the replies +OK, +KO, $... and $-1.                                     *)
(***************************************************************************)
EXTENDS Integers, Sequences, FiniteSets, SequencesExt

CONSTANTS
  Sessions,     \* what a peer may send: sequences of commands, [cells, args]
  Bad,          \* the args for which exec_command returns an error
  BufSize,      \* BUFSIZE
  Margin,       \* the 100000 of on_read
  Window,       \* the peer has no more cells than this outstanding
  CleanCuts     \* no cut in the length line of a last argument

(* on_read's numbers fit, 1 MB and 100000, for windows up to 474000 bytes. *)
ASSUME SizesAssumption ==
  /\ Margin \in Nat \ {0}
  /\ Window \in Nat
  /\ BufSize \in Nat
  /\ BufSize >= Margin + 2 * Window

Commands == UNION {ToSet(session) : session \in Sessions}

ASSUME PeerAssumption ==
  /\ Bad \subseteq {command.args : command \in Commands}
  /\ CleanCuts \in BOOLEAN

VARIABLES
  wire,      \* cells on the way
  buf,       \* c->buf
  idx, len,  \* c->buf_idx, c->buf_len
  pc,        \* "recv", "read", "arg", "line", "exec", "compact", "closed", "undefined"
  i,         \* the parser's position
  left,      \* arguments that it has still to read
  bulk,      \* bulk_flag
  word,      \* s of client_parse_telnet_command; NoWord when first is true
  args,      \* c->args
  sent,      \* commands sent
  executed   \* commands executed

vars == <<wire, buf, idx, len, pc, i, left, bulk, word, args, sent, executed>>
input == <<buf, idx, len>>
parser == <<i, left, bulk, word, args>>
NoWord == -1

-----------------------------------------------------------------------------
(* Cells and their sequences *)

(* inLast: the cell follows '$' in the length line of a last argument.  The *)
(* server does not see that.                                                *)
Cell(is, value, inLast) == [is |-> is, value |-> value, inLast |-> inLast]
Mark(is) == Cell(is, is, FALSE)
Data(text) ==
  [k \in 1..Len(text) |-> IF text[k] = " " THEN Mark(" ") ELSE Cell("data", text[k], FALSE)]
Crlf == <<Mark("\r"), Mark("\n")>>

LengthLine(n, last) ==
  <<Mark("$"), Cell("number", n, last), Cell("\r", "\r", last), Cell("\n", "\n", last)>>

Bulk(arg, last) == LengthLine(Len(arg), last) \o Data(arg) \o Crlf

(* What peers send, with the arguments that it stands for. *)
Array(args_) ==
  [args |-> args_,
   cells |-> <<Mark("*"), Cell("number", Len(args_), FALSE)>> \o Crlf
             \o FlattenSeq([k \in 1..Len(args_) |-> Bulk(args_[k], k = Len(args_))])]

(* A line of words.  The last word is not in quotes if the line ends with  *)
(* "\r\n": the '\r' would be taken for one more word, an empty one.        *)
Word(text) == [text |-> text, cells |-> Data(text)]
Quoted(text) == [text |-> text, cells |-> <<Mark("'")>> \o Data(text) \o <<Mark("'")>>]
Line(words, end) ==
  [args |-> [k \in 1..Len(words) |-> words[k].text],
   cells |-> FlattenSeq([k \in 1..Len(words) |->
               words[k].cells \o (IF k < Len(words) THEN <<Mark(" ")>> ELSE end)])]

Status(c1, c2) == [args |-> <<<<c1, c2>>>>, cells |-> <<Mark("+")>> \o Data(<<c1, c2>>) \o Crlf]
BulkReply(text) == [args |-> <<<<"BULK">>, text>>, cells |-> Bulk(text, TRUE)]
NilReply == [args |-> <<<<"NOT">>>>, cells |-> LengthLine(-1, TRUE)]

Alphabet == UNION {ToSet(command.cells) : command \in Commands}
Junk == Mark("junk")

(* Sessions, commands and their arguments are finite. *)
ASSUME EncodingAssumption ==
  /\ Sessions \subseteq Seq(Commands)
  /\ \A command \in Commands : command.cells \in Seq(Alphabet)

-----------------------------------------------------------------------------

Room == BufSize - idx - len
End == idx + len           \* z of client_read_command

Init ==
  /\ wire = <<>>
  /\ buf = [k \in 0..(BufSize - 1) |-> Junk]
  /\ idx = 0 /\ len = 0
  /\ pc = "recv"
  /\ i = 0 /\ left = 0 /\ bulk = FALSE /\ word = NoWord /\ args = <<>>
  /\ sent = <<>> /\ executed = <<>>

-----------------------------------------------------------------------------
(* Mutants: plausible slips in the code, none of them part of the          *)
(* specification.  Each one breaks the property that it is paired with.    *)

NeedsRoomBehindIndex == BufSize - idx < Margin
NeedsRoomAlways == idx + len > 0

(* buf_idx is reset before the copy, which then copies nothing. *)
CompactIndexFirst ==
  /\ pc = "compact"
  /\ idx' = IF Room < Margin THEN 0 ELSE idx
  /\ pc' = "recv"
  /\ UNCHANGED <<wire, buf, len, parser, sent, executed>>

(* One command for each recv *)
ExecOne ==
  /\ pc = "exec"
  /\ args \notin Bad
  /\ executed' = Append(executed, args)
  /\ pc' = "compact"
  /\ UNCHANGED <<wire, input, parser, sent>>

(* buf_len is reduced by the position instead of the distance. *)
ConsumeFromZero(k) ==
  /\ len' = len - k
  /\ idx' = IF len' = 0 THEN 0 ELSE k

-----------------------------------------------------------------------------
(* The peer and the network *)

(* The next command of a session that the peer may be following *)
Send(session) ==
  /\ Len(sent) < Len(session)
  /\ \A k \in DOMAIN sent : session[k].args = sent[k]
  /\ LET command == session[Len(sent) + 1]
     IN  /\ Len(wire) + len + Len(command.cells) <= Window
         /\ wire' = wire \o command.cells
         /\ sent' = Append(sent, command.args)
  /\ UNCHANGED <<input, pc, parser, executed>>

(* recv returns n cells; with no room it returns 0, which is taken for the *)
(* end of the connection.                                                  *)
Recv(n) ==
  /\ pc = "recv"
  /\ wire # <<>>
  /\ IF Room = 0
     THEN pc' = "closed" /\ UNCHANGED <<wire, input>>
     ELSE /\ n <= Len(wire) /\ n <= Room
          /\ CleanCuts /\ n < Len(wire) => ~wire[n + 1].inLast
          /\ buf' = [k \in 0..(BufSize - 1) |->
                       IF k \in End..(End + n - 1) THEN wire[k - End + 1] ELSE buf[k]]
          /\ len' = len + n
          /\ wire' = SubSeq(wire, n + 1, Len(wire))
          /\ pc' = "read"
          /\ UNCHANGED idx
  /\ UNCHANGED <<parser, sent, executed>>

-----------------------------------------------------------------------------
(* client_read_command *)

(* The first line feed from k on, or the end. *)
LineEnd(k) ==
  LET feeds == {m \in k..(End - 1) : buf[m].is = "\n"}
  IN  IF feeds = {} THEN End ELSE Min(feeds)

(* atoi *)
Number(k) ==
  IF buf[k].is = "number" /\ buf[k].value \in Int THEN buf[k].value ELSE 0

(* A length line from s to its line feed at k: "\r" before that, nothing   *)
(* negative, and zero only as "0".                                         *)
LineOK(s, k) ==
  buf[k - 1].is = "\r" /\ Number(s) >= 0 /\ (Number(s) = 0 => k - s = 2)

(* The cells from s up to e, as an argument. *)
Text(s, e) == [m \in 1..(e - s) |-> buf[s + m - 1].value]

ReadNothing ==
  /\ pc = "read"
  /\ len = 0
  /\ pc' = "compact"
  /\ UNCHANGED <<wire, input, parser, sent, executed>>

(* "*", the number of arguments and the end of its line.  What is          *)
(* incomplete waits ("compact"); an error ends the connection.             *)
ReadCount ==
  /\ pc = "read"
  /\ len > 0
  /\ buf[idx].is = "*"
  /\ args' = <<>>
  /\ bulk' = FALSE
  /\ LET k == LineEnd(idx + 1)
     IN  IF k + 1 < End /\ LineOK(idx + 1, k)
         THEN /\ left' = Number(idx + 1)
              /\ i' = k + 1
              /\ pc' = "arg"
         ELSE /\ pc' = IF k < End /\ ~LineOK(idx + 1, k) THEN "closed" ELSE "compact"
              /\ UNCHANGED <<i, left>>
  /\ UNCHANGED <<wire, input, word, sent, executed>>

(* A bulk string that is not in an array: a reply *)
ReadBulk ==
  /\ pc = "read"
  /\ len > 0
  /\ buf[idx].is = "$"
  /\ args' = <<>>
  /\ bulk' = TRUE
  /\ left' = 1
  /\ i' = idx
  /\ pc' = "arg"
  /\ UNCHANGED <<wire, input, word, sent, executed>>

(* buf_len and buf_idx once the parser has got to k *)
Consume(k) ==
  /\ len' = len - (k - idx)
  /\ idx' = IF len' = 0 THEN 0 ELSE k

(* +OK and +KO.  Behind any other text args_len would be used without a    *)
(* value; peers do not send that.                                          *)
ReadStatus ==
  /\ pc = "read"
  /\ len > 0
  /\ buf[idx].is = "+"
  /\ IF len < 5
     THEN pc' = "compact" /\ args' = <<>> /\ UNCHANGED <<idx, len>>
     ELSE IF /\ Text(idx + 1, idx + 3) \in {<<"O", "K">>, <<"K", "O">>}
             /\ buf[idx + 3].is = "\r" /\ buf[idx + 4].is = "\n"
     THEN pc' = "exec" /\ args' = <<Text(idx + 1, idx + 3)>> /\ Consume(idx + 5)
     ELSE pc' = "undefined" /\ args' = <<>> /\ UNCHANGED <<idx, len>>
  /\ UNCHANGED <<wire, buf, i, left, bulk, word, sent, executed>>

(* Are the n bytes from s on and their "\r\n" there? *)
Complete(s, n) == End - s >= n + 2

(* One argument: "$", its length n, and n bytes from s on.  A length line  *)
(* that has not arrived completely ends the search for its line feed at    *)
(* the end of the buffer, and the loop goes on to the next argument,       *)
(* without this one.                                                       *)
ReadArg ==
  /\ pc = "arg"
  /\ left > 0
  /\ LET k == LineEnd(i + 1)
         n == Number(i + 1)
         s == k + 1
         line == buf[i].is = "$" /\ LineOK(i + 1, k)
     IN  IF i >= End THEN pc' = "compact" /\ UNCHANGED <<i, left, bulk, args>>
         ELSE IF buf[i].is = "$" /\ k = End
         THEN i' = k /\ left' = left - 1 /\ UNCHANGED <<bulk, args, pc>>
         ELSE IF buf[i].is = "$" /\ buf[k - 1].is = "\r" /\ n = -1
         THEN /\ args' = Append(args, <<"NOT">>)
              /\ bulk' = FALSE
              /\ i' = s
              /\ left' = left - 1
              /\ UNCHANGED pc
         ELSE IF line /\ Complete(s, n)
                 /\ buf[s + n].is = "\r" /\ buf[s + n + 1].is = "\n"
         THEN /\ args' = args \o (IF bulk THEN <<<<"BULK">>>> ELSE <<>>) \o <<Text(s, s + n)>>
              /\ bulk' = FALSE
              /\ i' = s + n + 2
              /\ left' = left - 1
              /\ UNCHANGED pc
         ELSE /\ pc' = IF line /\ ~Complete(s, n) THEN "compact" ELSE "closed"
              /\ UNCHANGED <<i, left, bulk, args>>
  /\ UNCHANGED <<wire, input, word, sent, executed>>

ReadDone ==
  /\ pc = "arg"
  /\ left = 0
  /\ Consume(i)
  /\ pc' = "exec"
  /\ UNCHANGED <<wire, buf, parser, sent, executed>>

-----------------------------------------------------------------------------
(* client_parse_telnet_command: anything that begins otherwise is a line *)

Quotes == {"'", "\""}

LineStart ==
  /\ pc = "read"
  /\ len > 0
  /\ buf[idx].is \notin {"*", "$", "+"}
  /\ args' = <<>>
  /\ i' = idx
  /\ word' = NoWord
  /\ pc' = "line"
  /\ UNCHANGED <<wire, input, left, bulk, sent, executed>>

(* The end of what has been received comes before the end of the line. *)
LineIncomplete ==
  /\ pc = "line"
  /\ i = End
  /\ pc' = "compact"
  /\ UNCHANGED <<wire, input, parser, sent, executed>>

LineAt == pc = "line" /\ i < End

(* A word in quotes, which must begin where a word may begin and end where *)
(* one may end.                                                            *)
LineQuote ==
  /\ LineAt
  /\ buf[i].is \in Quotes
  /\ LET closing == {m \in (i + 1)..(End - 1) : buf[m].is = buf[i].is}
         m == Min(closing)
     IN  IF word = NoWord /\ closing # {}
            /\ (m + 1 < End => buf[m + 1].is \in {" ", "\r", "\n"})
         THEN args' = Append(args, Text(i + 1, m)) /\ i' = m + 1 /\ UNCHANGED pc
         ELSE /\ pc' = IF word = NoWord /\ closing = {} THEN "compact" ELSE "closed"
              /\ UNCHANGED <<args, i>>
  /\ UNCHANGED <<wire, input, left, bulk, word, sent, executed>>

WithWord(e) == IF word = NoWord THEN args ELSE Append(args, Text(word, e))

LineEnds ==
  /\ LineAt
  /\ buf[i].is = "\n"
  /\ args' = WithWord(IF i > word /\ buf[i - 1].is = "\r" THEN i - 1 ELSE i)
  /\ Consume(i + 1)
  /\ pc' = "exec"
  /\ UNCHANGED <<wire, buf, i, left, bulk, word, sent, executed>>

LineSpace ==
  /\ LineAt
  /\ buf[i].is = " "
  /\ args' = WithWord(i)
  /\ word' = NoWord
  /\ i' = i + 1
  /\ UNCHANGED <<wire, input, pc, left, bulk, sent, executed>>

LineChar ==
  /\ LineAt
  /\ buf[i].is \notin {" ", "\n"} \cup Quotes
  /\ word' = IF word = NoWord THEN i ELSE word
  /\ i' = i + 1
  /\ UNCHANGED <<wire, input, pc, left, bulk, args, sent, executed>>

-----------------------------------------------------------------------------
(* client_exec_commands and the end of on_read *)

Exec ==
  /\ pc = "exec"
  /\ args \notin Bad
  /\ executed' = Append(executed, args)
  /\ pc' = "read"
  /\ UNCHANGED <<wire, input, parser, sent>>

(* The loop is left; what is behind the command waits for the next recv. *)
ExecFails ==
  /\ pc = "exec"
  /\ args \in Bad
  /\ executed' = Append(executed, args)
  /\ pc' = "compact"
  /\ UNCHANGED <<wire, input, parser, sent>>

NeedsRoom == Room < Margin

Compact ==
  /\ pc = "compact"
  /\ IF NeedsRoom
     THEN /\ buf' = [k \in 0..(BufSize - 1) |-> IF k < len THEN buf[idx + k] ELSE buf[k]]
          /\ idx' = 0
     ELSE UNCHANGED <<buf, idx>>
  /\ pc' = "recv"
  /\ UNCHANGED <<wire, len, parser, sent, executed>>

-----------------------------------------------------------------------------

ReadLine ==
  LineStart \/ LineIncomplete \/ LineQuote \/ LineEnds \/ LineSpace \/ LineChar

Parse ==
  \/ ReadNothing \/ ReadCount \/ ReadBulk \/ ReadStatus \/ ReadArg \/ ReadDone
  \/ ReadLine

Serve ==
  \/ \E n \in 1..Window : Recv(n)
  \/ Parse \/ Exec \/ ExecFails \/ Compact

Next == Serve \/ \E session \in Sessions : Send(session)

Spec == Init /\ [][Next]_vars

(* The poll thread keeps running and the network delivers. *)
FairSpec == Spec /\ WF_vars(Serve)

-----------------------------------------------------------------------------

TypeOK ==
  /\ wire \in Seq(Alphabet)
  /\ idx \in 0..BufSize
  /\ len \in 0..BufSize
  /\ idx + len <= BufSize
  /\ Len(wire) + len <= Window
  /\ pc \in {"recv", "read", "arg", "line", "exec", "compact", "closed", "undefined"}
  /\ pc \in {"arg", "line"} => i \in idx..End
  /\ pc = "arg" => left \in Nat

(* The server executes what the peer sent: the commands executed are a     *)
(* prefix of those sent, each with its arguments, wherever the stream is   *)
(* cut and whatever has been moved in the buffer.                          *)
ParsedAsSent == IsPrefix(executed, sent)

(* recv is never called with no room, which on_read would take for the end *)
(* of the connection.                                                      *)
RoomLeft == pc = "recv" => Room > 0

(* memcpy's source and target do not overlap. *)
MoveDoesNotOverlap == pc = "compact" /\ NeedsRoom => len <= idx

(* Everything that was sent is executed, unless a command fails: what is   *)
(* behind that one waits in the buffer until the peer sends more.          *)
AllExecuted ==
  <>[](executed = sent \/ \E k \in DOMAIN executed : executed[k] \in Bad)

=============================================================================
