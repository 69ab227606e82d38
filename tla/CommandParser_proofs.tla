-------------------------- MODULE CommandParser_proofs --------------------------
(***************************************************************************)
(* The input buffer of a client is big enough, and moving what is left in  *)
(* it is safe, for every size of the buffer, margin and window that fit    *)
(* together, all commands and all ways of cutting the stream.              *)
(***************************************************************************)
EXTENDS CommandParser, SequenceTheorems, WellFoundedInduction, TLAPS

(* After on_read there is the margin, which is what makes RoomLeft         *)
(* inductive.                                                              *)
BufferInv ==
  /\ TypeOK
  /\ pc = "recv" => Room >= Margin

(* A set of naturals that is not empty has a least element. *)
LEMMA MinIsMember ==
  ASSUME NEW S, S \subseteq Nat, S # {}
  PROVE  Min(S) \in S
<1> DEFINE R == OpToRel(<, Nat)
<1>1. \E x \in S : \A y \in S : ~(<<y, x>> \in R)
  <2>1. IsWellFoundedOn(R, Nat)
    BY NatLessThanWellFounded
  <2> HIDE DEF R
  <2> QED
    BY <2>1, WFMin
<1>2. PICK x \in S : \A y \in S : ~(<<y, x>> \in R)
  BY <1>1
<1>3. \A y \in S : x =< y
  <2> TAKE y \in S
  <2>1. <<y, x>> \in Nat \X Nat
    OBVIOUS
  <2>2. ~(y < x)
    BY <1>2, <2>1 DEF OpToRel
  <2> QED
    BY <2>2
<1> HIDE DEF R
<1> QED
  BY <1>3 DEF Min

(* A search for a line feed stays inside what has been received. *)
LEMMA LineEndBounds ==
  ASSUME TypeOK, NEW k \in Nat, k <= End
  PROVE  LineEnd(k) \in k..End
<1> DEFINE feeds == {m \in k..(End - 1) : buf[m].is = "\n"}
<1>1. End \in Nat
  BY SizesAssumption DEF TypeOK, End
<1>2. CASE feeds = {}
  BY <1>1, <1>2 DEF LineEnd
<1>3. CASE feeds # {}
  <2>1. feeds \subseteq Nat
    BY <1>1
  <2>2. LineEnd(k) = Min(feeds)
    BY <1>3 DEF LineEnd
  <2>3. Min(feeds) \in feeds
    <3> HIDE DEF feeds
    <3> QED
      BY <1>3, <2>1, MinIsMember
  <2> QED
    BY <1>1, <2>2, <2>3
<1> QED
  BY <1>2, <1>3

LEMMA LengthIsNatural ==
  ASSUME NEW s, NEW k, LineOK(s, k)
  PROVE  Number(s) \in Nat
<1>1. Number(s) \in Int
  BY DEF Number
<1> QED
  BY <1>1 DEF LineOK

LEMMA SizesAreNatural == BufSize \in Nat /\ Window \in Nat /\ Margin \in Nat
  BY SizesAssumption

(* What Consume leaves of the buffer, for a position k inside it *)
LEMMA ConsumeStays ==
  ASSUME BufferInv, NEW k \in Int, idx <= k, k <= End, Consume(k), UNCHANGED wire
  PROVE  /\ len' \in 0..BufSize /\ idx' \in 0..BufSize
         /\ idx' + len' <= BufSize /\ Len(wire') + len' <= Window
<1>1. /\ idx \in Nat /\ len \in Nat /\ idx + len <= BufSize /\ k <= idx + len
      /\ Len(wire) \in Nat /\ Len(wire) + len <= Window
  BY SizesAssumption DEF BufferInv, TypeOK, End
<1>2. len' = len - (k - idx) /\ (idx' = 0 \/ idx' = k) /\ Len(wire') = Len(wire)
  BY DEF Consume
<1> QED
  BY ONLY <1>1, <1>2, SizesAreNatural, idx <= k, k \in Int

-----------------------------------------------------------------------------

LEMMA InitBufferInv == Init => BufferInv
<1> SUFFICES ASSUME Init
             PROVE  BufferInv
  OBVIOUS
<1>1. wire \in Seq(Alphabet) /\ Len(wire) = 0
  BY DEF Init
<1> QED
  BY <1>1, SizesAssumption DEF Init, BufferInv, TypeOK, Room, End

LEMMA SendStep ==
  ASSUME BufferInv, NEW session \in Sessions, Send(session)
  PROVE  BufferInv'
<1> DEFINE command == session[Len(sent) + 1]
           new == command.cells
<1>1. new \in Seq(Alphabet)
  <2>1. command \in Commands
    BY EncodingAssumption DEF Send
  <2> QED
    BY <2>1, EncodingAssumption
<1>2. wire \in Seq(Alphabet) /\ wire' = wire \o new /\ Len(wire) + len + Len(new) <= Window
  BY DEF BufferInv, TypeOK, Send
<1> HIDE DEF new, command
<1>3. wire' \in Seq(Alphabet) /\ Len(wire') = Len(wire) + Len(new)
  BY <1>1, <1>2
<1>4. Len(wire') + len <= Window
  BY <1>1, <1>2, <1>3 DEF BufferInv, TypeOK
<1> QED
  BY <1>3, <1>4 DEF BufferInv, TypeOK, Send, Room, End, input, parser

LEMMA RecvStep ==
  ASSUME BufferInv, NEW n \in 1..Window, Recv(n)
  PROVE  BufferInv'
<1>1. CASE Room = 0
  BY <1>1 DEF BufferInv, TypeOK, Recv, Room, End, input, parser
<1>2. CASE Room # 0
  <2>1. /\ n <= Len(wire) /\ n <= Room
        /\ len' = len + n /\ idx' = idx /\ pc' = "read"
        /\ wire' = SubSeq(wire, n + 1, Len(wire))
    BY <1>2 DEF Recv
  <2>2. wire \in Seq(Alphabet) /\ n \in Nat /\ n >= 1
    BY SizesAssumption DEF BufferInv, TypeOK
  <2>3. wire' \in Seq(Alphabet) /\ Len(wire') = Len(wire) - n
    BY <2>1, <2>2
  <2>4. len' \in 0..BufSize /\ idx' + len' <= BufSize
    BY <2>1, <2>2, SizesAssumption DEF BufferInv, TypeOK, Room
  <2>5. Len(wire') + len' <= Window
    <3>1. Len(wire) \in Nat /\ len \in Nat /\ Len(wire) + len <= Window
      BY <2>2, SizesAssumption DEF BufferInv, TypeOK
    <3>2. Len(wire') = Len(wire) - n /\ len' = len + n /\ n \in Nat
      BY <2>1, <2>2, <2>3
    <3> QED
      BY ONLY <3>1, <3>2, SizesAreNatural
  <2> QED
    BY <2>1, <2>3, <2>4, <2>5 DEF BufferInv, TypeOK
<1> QED
  BY <1>1, <1>2

LEMMA ReadCountStep ==
  ASSUME BufferInv, ReadCount
  PROVE  BufferInv'
<1> DEFINE k == LineEnd(idx + 1)
<1>1. End \in Nat /\ idx \in Nat /\ len \in Nat /\ len > 0 /\ idx + 1 <= End
  BY SizesAssumption DEF BufferInv, TypeOK, ReadCount, End
<1>2. k \in (idx + 1)..End
  BY <1>1, LineEndBounds DEF BufferInv
<1>3. UNCHANGED <<wire, buf, idx, len>>
  BY DEF ReadCount, input
<1>4. \/ pc' \in {"compact", "closed"}
      \/ /\ pc' = "arg" /\ left' = Number(idx + 1) /\ i' = k + 1
         /\ k + 1 < End /\ LineOK(idx + 1, k)
  BY DEF ReadCount
<1> HIDE DEF k
<1>5. CASE pc' \in {"compact", "closed"}
  BY <1>3, <1>5 DEF BufferInv, TypeOK, Room, End
<1>6. CASE /\ pc' = "arg" /\ left' = Number(idx + 1) /\ i' = k + 1
           /\ k + 1 < End /\ LineOK(idx + 1, k)
  <2>1. left' \in Nat
    BY <1>6, LengthIsNatural
  <2>2. i' \in idx'..End'
    BY <1>1, <1>2, <1>3, <1>6 DEF End
  <2> QED
    BY <1>3, <1>6, <2>1, <2>2 DEF BufferInv, TypeOK, Room, End
<1> QED
  BY <1>4, <1>5, <1>6

LEMMA ReadBulkStep ==
  ASSUME BufferInv, ReadBulk
  PROVE  BufferInv'
<1>1. UNCHANGED <<wire, buf, idx, len>> /\ pc' = "arg" /\ left' = 1 /\ i' = idx
  BY DEF ReadBulk, input
<1>2. i' \in idx'..End'
  BY <1>1, SizesAssumption DEF BufferInv, TypeOK, End
<1> QED
  BY <1>1, <1>2 DEF BufferInv, TypeOK, Room, End

LEMMA ReadStatusStep ==
  ASSUME BufferInv, ReadStatus
  PROVE  BufferInv'
<1>1. UNCHANGED wire
  BY DEF ReadStatus
<1>2. \/ pc' \in {"compact", "undefined"} /\ UNCHANGED <<idx, len>>
      \/ pc' = "exec" /\ len >= 5 /\ Consume(idx + 5)
  <2>1. len \in Nat
    BY SizesAssumption DEF BufferInv, TypeOK
  <2> QED
    BY <2>1 DEF ReadStatus
<1>3. CASE pc' \in {"compact", "undefined"} /\ UNCHANGED <<idx, len>>
  BY <1>1, <1>3 DEF BufferInv, TypeOK, Room, End
<1>4. CASE pc' = "exec" /\ len >= 5 /\ Consume(idx + 5)
  <2>1. idx + 5 \in Int /\ idx <= idx + 5 /\ idx + 5 <= End
    BY <1>4, SizesAssumption DEF BufferInv, TypeOK, End
  <2>2. /\ len' \in 0..BufSize /\ idx' \in 0..BufSize
        /\ idx' + len' <= BufSize /\ Len(wire') + len' <= Window
    BY <1>1, <1>4, <2>1, ConsumeStays
  <2> QED
    BY <1>1, <1>4, <2>2 DEF BufferInv, TypeOK
<1> QED
  BY <1>2, <1>3, <1>4

LEMMA ReadArgStep ==
  ASSUME BufferInv, ReadArg
  PROVE  BufferInv'
<1> DEFINE k == LineEnd(i + 1)
           n == Number(i + 1)
<1>1. /\ End \in Nat /\ idx \in Nat /\ len \in Nat /\ i \in idx..End
      /\ left \in Nat /\ left > 0
  BY SizesAssumption DEF BufferInv, TypeOK, ReadArg, End
<1>2. UNCHANGED <<wire, buf, idx, len>>
  BY DEF ReadArg, input
<1>4. i < End => k \in (i + 1)..End
  BY <1>1, LineEndBounds DEF BufferInv
<1>5. \/ pc' \in {"compact", "closed"}
      \/ i < End /\ k = End /\ i' = k /\ left' = left - 1 /\ pc' = pc
      \/ i < End /\ k # End /\ i' = k + 1 /\ left' = left - 1 /\ pc' = pc
      \/ /\ i < End /\ k # End /\ LineOK(i + 1, k) /\ Complete(k + 1, n)
         /\ i' = k + 1 + n + 2 /\ left' = left - 1 /\ pc' = pc
  BY <1>1, <1>4 DEF ReadArg, parser
<1> HIDE DEF k, n
<1>6. CASE pc' \in {"compact", "closed"}
  BY <1>2, <1>6 DEF BufferInv, TypeOK, Room, End
<1>7. CASE /\ i < End /\ left' = left - 1 /\ pc' = pc
           /\ \/ k = End /\ i' = k
              \/ k # End /\ i' = k + 1
              \/ /\ k # End /\ LineOK(i + 1, k)
                 /\ Complete(k + 1, n) /\ i' = k + 1 + n + 2
  <2>1. LineOK(i + 1, k) => n \in Nat
    BY LengthIsNatural DEF n
  <2>2. i' \in idx..End /\ left' \in Nat
    BY <1>1, <1>4, <1>7, <2>1 DEF Complete
  <2> QED
    BY <1>2, <1>7, <2>2 DEF BufferInv, TypeOK, Room, End, ReadArg
<1> QED
  BY <1>5, <1>6, <1>7

LEMMA ReadDoneStep ==
  ASSUME BufferInv, ReadDone
  PROVE  BufferInv'
<1>1. i \in Int /\ idx <= i /\ i <= End
  BY SizesAssumption DEF BufferInv, TypeOK, ReadDone, End
<1>2. Consume(i) /\ UNCHANGED wire /\ pc' = "exec"
  BY DEF ReadDone
<1>3. /\ len' \in 0..BufSize /\ idx' \in 0..BufSize
      /\ idx' + len' <= BufSize /\ Len(wire') + len' <= Window
  BY <1>1, <1>2, ConsumeStays
<1> QED
  BY <1>2, <1>3 DEF BufferInv, TypeOK

(* The search for a closing quote, too, stays inside what has been received. *)
LEMMA LineQuoteStep ==
  ASSUME BufferInv, LineQuote
  PROVE  BufferInv'
<1> DEFINE closing == {m \in (i + 1)..(End - 1) : buf[m].is = buf[i].is}
<1>1. End \in Nat /\ idx \in Nat /\ i \in idx..End /\ i < End
  <2>1. LineAt
    BY DEF LineQuote
  <2> QED
    BY <2>1, SizesAssumption DEF BufferInv, TypeOK, LineAt, End
<1>2. UNCHANGED <<wire, buf, idx, len>>
  BY DEF LineQuote, input
<1>3. \/ pc' \in {"compact", "closed"}
      \/ pc' = "line" /\ closing # {} /\ i' = Min(closing) + 1
  BY DEF LineQuote, LineAt
<1>4. closing # {} => Min(closing) \in closing
  <2>1. closing \subseteq Nat
    BY <1>1
  <2> HIDE DEF closing
  <2> QED
    BY <2>1, MinIsMember
<1>5. CASE pc' \in {"compact", "closed"}
  BY <1>2, <1>5 DEF BufferInv, TypeOK, Room, End
<1>6. CASE pc' = "line" /\ closing # {} /\ i' = Min(closing) + 1
  <2>1. Min(closing) \in (i + 1)..(End - 1)
    BY <1>4, <1>6
  <2> HIDE DEF closing
  <2>2. i' \in idx..End
    BY <1>1, <1>6, <2>1
  <2> QED
    BY <1>2, <1>6, <2>2 DEF BufferInv, TypeOK, Room, End
<1> QED
  BY <1>3, <1>5, <1>6

LEMMA LineEndsStep ==
  ASSUME BufferInv, LineEnds
  PROVE  BufferInv'
<1>1. i + 1 \in Int /\ idx <= i + 1 /\ i + 1 <= End
  BY SizesAssumption DEF BufferInv, TypeOK, LineEnds, LineAt, End
<1>2. Consume(i + 1) /\ UNCHANGED wire /\ pc' = "exec"
  BY DEF LineEnds
<1>3. /\ len' \in 0..BufSize /\ idx' \in 0..BufSize
      /\ idx' + len' <= BufSize /\ Len(wire') + len' <= Window
  BY <1>1, <1>2, ConsumeStays
<1> QED
  BY <1>2, <1>3 DEF BufferInv, TypeOK

LEMMA ReadLineStep ==
  ASSUME BufferInv, ReadLine
  PROVE  BufferInv'
<1>1. CASE LineStart
  <2>1. UNCHANGED <<wire, buf, idx, len>> /\ pc' = "line" /\ i' = idx
    BY <1>1 DEF LineStart, input
  <2>2. i' \in idx'..End'
    BY <2>1, SizesAssumption DEF BufferInv, TypeOK, End
  <2> QED
    BY <2>1, <2>2 DEF BufferInv, TypeOK, Room, End
<1>2. CASE LineIncomplete
  BY <1>2 DEF LineIncomplete, BufferInv, TypeOK, Room, End, input, parser
<1>3. CASE LineSpace \/ LineChar
  <2>1. UNCHANGED <<wire, buf, idx, len, pc>> /\ pc = "line" /\ i' = i + 1 /\ i < End
    BY <1>3 DEF LineSpace, LineChar, LineAt, input
  <2>2. i' \in idx'..End'
    BY <2>1, SizesAssumption DEF BufferInv, TypeOK, End
  <2> QED
    BY <2>1, <2>2 DEF BufferInv, TypeOK, Room, End
<1> QED
  BY <1>1, <1>2, <1>3, LineQuoteStep, LineEndsStep DEF ReadLine

LEMMA CompactStep ==
  ASSUME BufferInv, Compact
  PROVE  BufferInv'
<1>1. /\ idx \in Nat /\ len \in Nat /\ idx + len <= BufSize
      /\ Len(wire) \in Nat /\ Len(wire) + len <= Window
  BY SizesAssumption DEF BufferInv, TypeOK
<1>2. UNCHANGED <<wire, len>> /\ pc' = "recv"
  BY DEF Compact
<1>3. \/ idx' = 0
      \/ idx' = idx /\ Room >= Margin
  BY <1>1, SizesAssumption DEF Compact, NeedsRoom, Room
<1>4. Room' >= Margin
  BY <1>1, <1>2, <1>3, SizesAssumption DEF Room
<1>5. idx' \in 0..BufSize /\ idx' + len' <= BufSize
  BY <1>1, <1>2, <1>3, SizesAssumption
<1> QED
  BY <1>2, <1>4, <1>5 DEF BufferInv, TypeOK

LEMMA NextBufferInv == BufferInv /\ [Next]_vars => BufferInv'
<1> SUFFICES ASSUME BufferInv, [Next]_vars
             PROVE  BufferInv'
  OBVIOUS
<1>1. ASSUME NEW session \in Sessions, Send(session)
      PROVE  BufferInv'
  BY <1>1, SendStep
<1>2. ASSUME NEW n \in 1..Window, Recv(n)
      PROVE  BufferInv'
  BY <1>2, RecvStep
<1>3. CASE ReadNothing
  BY <1>3 DEF BufferInv, TypeOK, ReadNothing, Room, End, input, parser
<1>4. CASE ReadCount
  BY <1>4, ReadCountStep
<1>5. CASE ReadArg
  BY <1>5, ReadArgStep
<1>6. CASE ReadDone \/ ReadBulk \/ ReadStatus \/ ReadLine
  BY <1>6, ReadDoneStep, ReadBulkStep, ReadStatusStep, ReadLineStep
<1>7. CASE Exec \/ ExecFails
  BY <1>7 DEF BufferInv, TypeOK, Exec, ExecFails, Room, End, input, parser
<1>8. CASE Compact
  BY <1>8, CompactStep
<1>9. CASE UNCHANGED vars
  BY <1>9 DEF BufferInv, TypeOK, vars, Room, End
<1> QED
  BY <1>1, <1>2, <1>3, <1>4, <1>5, <1>6, <1>7, <1>8, <1>9 DEF Next, Serve, Parse

(* A client's buffer indices stay inside its buffer, and the parser's      *)
(* position inside what has been received, for all sizes.                  *)
THEOREM ParserTypeCorrect == Spec => []TypeOK
<1>1. BufferInv => TypeOK
  BY DEF BufferInv
<1> QED
  BY <1>1, InitBufferInv, NextBufferInv, PTL DEF Spec

(* on_read never calls recv without room: a peer with at most Window bytes *)
(* outstanding is not disconnected by a full buffer.                       *)
THEOREM RoomIsLeft == Spec => []RoomLeft
<1>1. BufferInv => RoomLeft
  BY SizesAssumption DEF BufferInv, TypeOK, RoomLeft, Room
<1> QED
  BY <1>1, InitBufferInv, NextBufferInv, PTL DEF Spec

(* on_read's memcpy to the front of the buffer never has overlapping       *)
(* source and target, which would be undefined.                            *)
THEOREM MovesDoNotOverlap == Spec => []MoveDoesNotOverlap
<1>1. BufferInv => MoveDoesNotOverlap
  <2> SUFFICES ASSUME BufferInv, NeedsRoom
               PROVE  len <= idx
    BY DEF MoveDoesNotOverlap
  <2>1. idx \in Nat /\ len \in Nat /\ Len(wire) \in Nat /\ Len(wire) + len <= Window
    BY SizesAssumption DEF BufferInv, TypeOK
  <2> QED
    BY <2>1, SizesAssumption DEF NeedsRoom, Room
<1> QED
  BY <1>1, InitBufferInv, NextBufferInv, PTL DEF Spec

=============================================================================
