---------------------------- MODULE ReplyPath_proofs ----------------------------
(***************************************************************************)
(* RepliesIntact, for any clients, scripts and cells: the replies to every *)
(* peer that only asks or only tells (Apart), next to any others.  Nothing *)
(* in the code keeps the two threads from one client's output buffer; what *)
(* does, for these clients, is that the poll thread fills it only while    *)
(* the engine and the handler have nothing of the client's (Alone).  Keys  *)
(* are listed from an empty buffer (KeysOK): exec_scan_keys puts its       *)
(* header at a fixed place.  What the threads do for a client that is not  *)
(* apart is only typed (ReplyCount_proofs) and touches no other client     *)
(* (OthersKeep).                                                           *)
(***************************************************************************)
EXTENDS ReplyCount_proofs

-----------------------------------------------------------------------------
(* The inductive invariant *)

Locals == [tmp : Nat, off : Nat, size : Nat, sent : Nat, n : Nat]

Types ==
  /\ inbox \in [Clients -> Seq(Commands)]
  /\ buf \in [Clients -> Seq(Commands)]
  /\ script \in [Clients -> Seq(Commands)]
  /\ output \in [Clients -> [Cells -> Symbols]]
  /\ len \in [Clients -> Nat]
  /\ offset \in [Clients -> Nat]
  /\ valid \in [Clients -> BOOLEAN]
  /\ reading \in [Clients -> Nat]
  /\ queue \in Seq(Clients \X BOOLEAN)
  /\ ops \in [Threads -> Seq(Steps)]
  /\ on \in [Threads -> Clients]
  /\ reg \in [Threads -> Locals]
  /\ wire \in [Clients -> Seq(Symbols)]
  /\ seen \in [Clients -> Seq(Symbols)]
  /\ owed \in [Clients -> Seq(Symbols)]

(* What thread t does next, and whether that touches the buffer. *)
Doing(t) == IF ops[t] = <<>> THEN "nothing" ELSE ops[t][1][1]
Filling == {"copy", "load", "store", "header"}
Working(t) == on[t] \in Apart /\ Doing(t) \in Filling \cup {"test", "write", "zero", "zerooff"}

(* Commands of c that are still to be executed. *)
Commanded(c) == (buf[c] \o inbox[c]) \o script[c]
MgetAhead(c) == \E i \in 1..Len(Commanded(c)) : Commanded(c)[i] = "mget"
KeysAhead(c) == \E i \in 1..Len(Commanded(c)) : Commanded(c)[i] = "keys"

(* Neither the engine nor the handler has anything of c's. *)
Alone(c) ==
  /\ reading[c] = 0
  /\ \A i \in 1..Len(queue) : queue[i][1] # c
  /\ on["handler"] = c => ops["handler"] = <<>>

(* The lists of steps, by what may follow a step on the poll thread and by *)
(* the distance from the end on the handler.                               *)
PollAfter(op) ==
  CASE op = "copy" -> {"load"}
    [] op = "load" -> {"store"}
    [] op = "store" -> {"validate", "valid?", "read", "next"}
    [] op = "read" -> {"read", "next"}
    [] op = "validate" -> {"valid?", "next"}
    [] op \in {"valid?", "invalid"} -> {"close", "nothing"}
    [] op = "test" -> {"write"}
    [] op = "write" -> {"zero"}
    [] op = "zero" -> {"zero", "zerooff"}
    [] op = "zerooff" -> {"invalid"}
    [] op \in {"next", "close"} -> {"nothing"}
    [] OTHER -> {}

AskerOps == {"copy", "load", "store", "read", "next", "valid?"}

PollList(l, asker) ==
  \A i \in 1..Len(l) :
    /\ (IF i = Len(l) THEN "nothing" ELSE l[i + 1][1]) \in PollAfter(l[i][1])
    /\ IF asker THEN l[i][1] \in AskerOps ELSE l[i][1] # "read"

(* exec_scan_keys: the filler is written, then the header, where it ends.  *)
ScanOp(k) ==
  CASE k = 1 -> "next"
    [] k = 2 -> "header"
    [] k % 3 = 0 -> "store"
    [] k % 3 = 1 /\ k # 1 -> "load"
    [] OTHER -> "copy"

ScanList(l) == \A i \in 1..Len(l) : l[i][1] = ScanOp(Len(l) - i + 1)

Scanning ==
  on["poll"] \in Apart /\ \E i \in 1..Len(ops["poll"]) : ops["poll"][i][1] = "header"

PollOK ==
  IF Scanning THEN on["poll"] \notin Askers /\ ScanList(ops["poll"])
  ELSE on["poll"] \in Apart => PollList(ops["poll"], on["poll"] \in Askers)

HandlerOp(k) ==
  CASE k = 1 -> "zerooff"
    [] k \in {2, 3} -> "zero"
    [] k = 4 -> "write"
    [] k = 5 -> "test"
    [] k \in {6, 9} -> "store"
    [] k \in {7, 10} -> "load"
    [] OTHER -> "copy"

HandlerList(l) ==
  /\ Len(l) <= 11
  /\ \A i \in 1..Len(l) : l[i][1] = HandlerOp(Len(l) - i + 1)
  /\ Len(l) > 8 => l[Len(l) - 7][2] = "crlf"

(* Cells of the reply under way that are not in the buffer yet. *)
Unstored(t) ==
  IF t = "poll" THEN (IF Doing(t) \in Filling THEN 1 ELSE 0)
  ELSE IF Len(ops[t]) > 8 THEN 2 ELSE IF Len(ops[t]) > 5 THEN 1 ELSE 0

(* Where the cells that are still to be sent begin; the filler is none of  *)
(* them.                                                                   *)
Scans(t) == t = "poll" /\ Scanning
Sent(t) ==
  CASE Scans(t) -> len[on[t]]
    [] Doing(t) = "write" -> reg[t].off
    [] Doing(t) = "zero" -> len[on[t]]
    [] Doing(t) = "zerooff" -> 0
    [] OTHER -> offset[on[t]]

(* o is what the peer has seen (s), what the socket holds (w), the cells   *)
(* f .. n - 1 of the buffer and k more.                                    *)
Adds(s, w, o, out, n, f, k) ==
  /\ f \in 0..n
  /\ Len(o) = Len(s) + Len(w) + (n - f) + k
  /\ \A i \in 1..Len(s) : o[i] = s[i]
  /\ \A i \in 1..Len(w) : o[Len(s) + i] = w[i]
  /\ \A i \in f..(n - 1) : o[Len(s) + Len(w) + (i - f) + 1] = out[i]

AddsUp(c, f, k) == Adds(seen[c], wire[c], owed[c], output[c], len[c], f, k)

(* The next cell to be stored. *)
NextCell(t) == owed[on[t]][Len(owed[on[t]]) - Unstored(t) + 1]

(* While keys are listed: as many cells are to be filled as steps are      *)
(* left, and there is room behind the header for what comes after it.      *)
ScanRest(t) ==
  CASE Doing(t) = "load" -> 1
    [] Doing(t) = "store" -> 2
    [] OTHER -> 0

AtScan(t) ==
  LET c == on[t] IN
  /\ NextCell(t) = "header"
  /\ offset[c] = 0
  /\ Len(ops[t]) + ScanRest(t) = 3 * (Filler - len[c]) + 2
  /\ 1 + Len(Commanded(c)) <= MaxScript

(* What holds of the client of a thread that works on its buffer. *)
AtWork(t) ==
  LET c == on[t] IN
  /\ AddsUp(c, Sent(t), Unstored(t))
  /\ IF Scans(t) THEN AtScan(t)
     ELSE /\ Doing(t) = "copy" => ops[t][1][2] = NextCell(t)
          /\ Doing(t) \in {"load", "store"} => output[c][len[c]] = NextCell(t)
  /\ Doing(t) = "store" => reg[t].tmp = len[c] + 1
  /\ Doing(t) = "write" => /\ reg[t].sent + offset[c] = reg[t].off
                           /\ reg[t].size + offset[c] = len[c]
                           /\ reg[t].n \in {0, len[c] - reg[t].off}
  /\ Doing(t) = "test" => offset[c] = 0 \/ (ops[t][1][2] = "own" /\ ops[t][4][1] = "zero")
  /\ Doing(t) = "zerooff" => len[c] = 0
  /\ Unstored(t) = 2 => owed[c][Len(owed[c])] = "crlf"
  /\ IF c \in Askers THEN /\ len[c] + Unstored(t) <= 3 /\ offset[c] = 0
                          /\ t = "poll" => len[c] = 0
     ELSE Scans(t) \/ len[c] + Unstored(t) + Len(Commanded(c)) <= MaxScript + Filler

(* What holds of a client on whose buffer no thread works. *)
AtRest(c) ==
  /\ AddsUp(c, offset[c], 0)
  /\ IF c \in Askers THEN offset[c] = 0 /\ len[c] <= 1 /\ (MgetAhead(c) => len[c] = 0)
     ELSE len[c] + Len(Commanded(c)) <= MaxScript + Filler

Touched(c) == \E t \in Threads : Working(t) /\ on[t] = c

BuffersOK ==
  /\ \A t \in Threads : Working(t) => AtWork(t)
  /\ \A c \in Apart : ~ Touched(c) => AtRest(c)

CommandsOK ==
  \A c \in Apart :
    IF c \in Askers THEN Asks(Commanded(c)) /\ valid[c] = FALSE
    ELSE Tells(Commanded(c)) /\ Len(Commanded(c)) <= MaxScript

(* Whoever has still to list keys has an empty buffer. *)
KeysOK ==
  \A c \in Apart :
    KeysAhead(c) => /\ valid[c] = FALSE /\ len[c] = 0 /\ offset[c] = 0
                    /\ on["poll"] = c => Doing("poll") \in {"nothing", "next", "valid?", "close"}

AloneOK ==
  /\ \A c \in Apart : c \notin Askers \/ MgetAhead(c) => Alone(c)
  /\ Working("poll") => Alone(on["poll"])
  /\ on["poll"] \in Askers /\ Doing("poll") \in Filling \cup {"read"} =>
       ~ MgetAhead(on["poll"])

Inv ==
  /\ Types
  /\ PollOK
  /\ HandlerList(ops["handler"])
  /\ CommandsOK
  /\ KeysOK
  /\ AloneOK
  /\ BuffersOK

LEMMA ApartClients == Apart \subseteq Clients
  BY DEF Apart
USE ApartClients

-----------------------------------------------------------------------------
(* Sequences *)

(* Commands are moved from the peer to the socket to the buffer, and the   *)
(* first of the buffer is the first of all.                                *)
LEMMA MovesOn ==
  \A b, i, s \in Seq(Commands) :
    s # <<>> => (b \o Append(i, Head(s))) \o Tail(s) = (b \o i) \o s
<1> SUFFICES ASSUME NEW b \in Seq(Commands), NEW i \in Seq(Commands),
                    NEW s \in Seq(Commands), s # <<>>
             PROVE  (b \o Append(i, Head(s))) \o Tail(s) = (b \o i) \o s
  OBVIOUS
<1> DEFINE l == (b \o Append(i, Head(s))) \o Tail(s)
           r == (b \o i) \o s
<1>1. /\ Head(s) \in Commands /\ Tail(s) \in Seq(Commands) /\ Len(Tail(s)) = Len(s) - 1
      /\ s[1] = Head(s) /\ Len(s) \in Nat \ {0}
      /\ \A k \in 1..Len(Tail(s)) : Tail(s)[k] = s[k + 1]
  OBVIOUS
<1>2. /\ Append(i, Head(s)) \in Seq(Commands) /\ Len(Append(i, Head(s))) = Len(i) + 1
      /\ \A k \in 1..Len(i) : Append(i, Head(s))[k] = i[k]
      /\ Append(i, Head(s))[Len(i) + 1] = s[1]
  BY <1>1
<1>3. /\ b \o Append(i, Head(s)) \in Seq(Commands)
      /\ Len(b \o Append(i, Head(s))) = Len(b) + Len(i) + 1
      /\ \A k \in 1..(Len(b) + Len(i)) : (b \o Append(i, Head(s)))[k] = (b \o i)[k]
      /\ (b \o Append(i, Head(s)))[Len(b) + Len(i) + 1] = s[1]
  BY <1>2
<1>4. b \o i \in Seq(Commands) /\ Len(b \o i) = Len(b) + Len(i)
  OBVIOUS
<1>5. l \in Seq(Commands) /\ r \in Seq(Commands) /\ Len(l) = Len(r) /\ Len(r) = Len(b) + Len(i) + Len(s)
  BY <1>1, <1>3, <1>4
<1>6. ASSUME NEW k \in 1..Len(l)
      PROVE  l[k] = r[k]
  <2>1. CASE k <= Len(b) + Len(i)
    BY <1>1, <1>3, <1>4, <1>5, <2>1
  <2>2. CASE k = Len(b) + Len(i) + 1
    BY <1>1, <1>3, <1>4, <1>5, <2>2
  <2>3. CASE k > Len(b) + Len(i) + 1
    BY <1>1, <1>3, <1>4, <1>5, <2>3
  <2> QED  BY <2>1, <2>2, <2>3, <1>5
<1> HIDE DEF l, r
<1>7. l = r
  BY <1>5, <1>6, SeqEqual
<1> QED  BY <1>7 DEF l, r

LEMMA Moves ==
  ASSUME NEW S, NEW b \in Seq(S), NEW i \in Seq(S), NEW s \in Seq(S)
  PROVE  /\ (b \o i) \o s \in Seq(S)
         /\ Len((b \o i) \o s) = Len(b) + Len(i) + Len(s)
         /\ ((b \o i) \o <<>>) \o s = (b \o i) \o s
<1>1. (b \o i) \o s \in Seq(S) /\ Len((b \o i) \o s) = Len(b) + Len(i) + Len(s)
  OBVIOUS
<1>2. (b \o i) \o <<>> = b \o i
  <2>1. b \o i \in Seq(S)
    OBVIOUS
  <2> QED  BY <2>1, ConcatEmptySeq
<1> QED  BY <1>1, <1>2

(* p is m behind command. *)
IsBehind(m, p, command) ==
  /\ m \in Seq(Commands)
  /\ Len(p) \in Nat \ {0} /\ Len(m) = Len(p) - 1
  /\ p[1] = command
  /\ \A k \in 1..Len(m) : m[k] = p[k + 1]

LEMMA Takes ==
  \A b, i, s \in Seq(Commands) :
    b # <<>> => IsBehind((Tail(b) \o i) \o s, (b \o i) \o s, Head(b))
<1> SUFFICES ASSUME NEW b \in Seq(Commands), NEW i \in Seq(Commands),
                    NEW s \in Seq(Commands), b # <<>>
             PROVE  IsBehind((Tail(b) \o i) \o s, (b \o i) \o s, Head(b))
  OBVIOUS
<1>1. /\ Tail(b) \in Seq(Commands) /\ Len(Tail(b)) = Len(b) - 1 /\ Len(b) \in Nat \ {0}
      /\ b[1] = Head(b)
      /\ \A k \in 1..Len(Tail(b)) : Tail(b)[k] = b[k + 1]
  OBVIOUS
<1>2. /\ Tail(b) \o i \in Seq(Commands) /\ b \o i \in Seq(Commands)
      /\ Len(Tail(b) \o i) = Len(b) + Len(i) - 1
      /\ Len(b \o i) = Len(b) + Len(i)
      /\ (b \o i)[1] = Head(b)
  BY <1>1
<1>3. ASSUME NEW k \in 1..Len(Tail(b) \o i)
      PROVE  (Tail(b) \o i)[k] = (b \o i)[k + 1]
  BY <1>1, <1>2, <1>3
<1>4. Len(b) \in Nat \ {0}
  BY <1>1
<1>5. /\ (Tail(b) \o i) \o s \in Seq(Commands)
      /\ Len((Tail(b) \o i) \o s) = Len((b \o i) \o s) - 1
      /\ Len((b \o i) \o s) \in Nat \ {0}
      /\ ((b \o i) \o s)[1] = Head(b)
      /\ \A k \in 1..Len((Tail(b) \o i) \o s) :
           ((Tail(b) \o i) \o s)[k] = ((b \o i) \o s)[k + 1]
  BY <1>2, <1>3, <1>4
<1> QED  BY <1>5 DEF IsBehind

(* The peer reads a cell. *)
LEMMA AddsRead ==
  ASSUME NEW s \in Seq(Symbols), NEW w \in Seq(Symbols), NEW o \in Seq(Symbols),
         NEW out, NEW n \in Nat, NEW f, NEW k,
         Adds(s, w, o, out, n, f, k), w # <<>>
  PROVE  Adds(Append(s, Head(w)), Tail(w), o, out, n, f, k)
<1>1. /\ f \in 0..n
      /\ \A i \in 1..Len(Append(s, Head(w))) : o[i] = Append(s, Head(w))[i]
      /\ \A i \in 1..Len(Tail(w)) : o[Len(Append(s, Head(w))) + i] = Tail(w)[i]
  BY DEF Adds
<1>2. Len(Append(s, Head(w))) + Len(Tail(w)) = Len(s) + Len(w)
  OBVIOUS
<1>3. /\ Len(o) = Len(s) + Len(w) + (n - f) + k
      /\ \A i \in f..(n - 1) : o[Len(s) + Len(w) + (i - f) + 1] = out[i]
  BY DEF Adds
<1> QED  BY <1>1, <1>2, <1>3, Zenon DEF Adds

(* A cell is written to the socket. *)
LEMMA AddsSend ==
  ASSUME NEW s \in Seq(Symbols), NEW w \in Seq(Symbols), NEW o \in Seq(Symbols),
         NEW out \in [Cells -> Symbols], NEW n \in Nat, NEW f \in Nat, NEW k \in Nat,
         Adds(s, w, o, out, n, f, k), f < n, f \in Cells
  PROVE  Adds(s, Append(w, out[f]), o, out, n, f + 1, k)
  BY DEF Adds

(* A cell that is owed is stored. *)
LEMMA AddsStore ==
  ASSUME NEW s \in Seq(Symbols), NEW w \in Seq(Symbols), NEW o \in Seq(Symbols),
         NEW out, NEW n \in Nat, NEW f, NEW k \in Nat \ {0},
         Adds(s, w, o, out, n, f, k), out[n] = o[Len(o) - k + 1]
  PROVE  Adds(s, w, o, out, n + 1, f, k - 1)
  BY DEF Adds

(* A cell is filled at the end of the buffer. *)
LEMMA AddsCopy ==
  ASSUME NEW s \in Seq(Symbols), NEW w \in Seq(Symbols), NEW o \in Seq(Symbols),
         NEW out \in [Cells -> Symbols], NEW n \in Nat, NEW f, NEW k \in Nat, NEW x,
         Adds(s, w, o, out, n, f, k), 0..n \subseteq Cells
  PROVE  /\ Adds(s, w, o, [out EXCEPT ![n] = x], n, f, k)
         /\ [out EXCEPT ![n] = x][n] = x
  BY DEF Adds

(* The buffer is emptied when all of it has been sent. *)
LEMMA AddsClear ==
  ASSUME NEW s \in Seq(Symbols), NEW w \in Seq(Symbols), NEW o \in Seq(Symbols),
         NEW out, NEW n \in Nat, Adds(s, w, o, out, n, n, 0)
  PROVE  Adds(s, w, o, out, 0, 0, 0)
  BY DEF Adds

(* A reply is produced. *)
LEMMA AddsOwe ==
  ASSUME NEW s \in Seq(Symbols), NEW w \in Seq(Symbols), NEW o \in Seq(Symbols),
         NEW out, NEW n \in Nat, NEW f, NEW r \in Seq(Symbols), Adds(s, w, o, out, n, f, 0)
  PROVE  /\ Adds(s, w, o \o r, out, n, f, Len(r))
         /\ o \o r \in Seq(Symbols)
         /\ Len(o \o r) = Len(o) + Len(r)
         /\ \A i \in 1..Len(r) : (o \o r)[Len(o) + i] = r[i]
<1>1. /\ o \o r \in Seq(Symbols) /\ Len(o \o r) = Len(o) + Len(r)
      /\ \A i \in 1..Len(o) : (o \o r)[i] = o[i]
      /\ \A i \in 1..Len(r) : (o \o r)[Len(o) + i] = r[i]
  OBVIOUS
<1>2. Len(o) \in Nat /\ Len(r) \in Nat /\ Len(s) \in Nat /\ Len(w) \in Nat
  OBVIOUS
<1> DEFINE p == o \o r
<1> HIDE DEF p
<1>3. Len(p) = Len(o) + Len(r) /\ \A i \in 1..Len(o) : p[i] = o[i]
  BY <1>1 DEF p
<1>4. Adds(s, w, p, out, n, f, Len(r))
  <2>1. f \in 0..n /\ Len(o) = Len(s) + Len(w) + (n - f)
    BY <1>2 DEF Adds
  <2>2. Len(p) = Len(s) + Len(w) + (n - f) + Len(r)
    BY <1>2, <1>3, <2>1
  <2>3. /\ \A i \in 1..Len(s) : p[i] = s[i]
        /\ \A i \in 1..Len(w) : p[Len(s) + i] = w[i]
    BY <1>2, <1>3, <2>1 DEF Adds
  <2>4. \A i \in f..(n - 1) : p[Len(s) + Len(w) + (i - f) + 1] = out[i]
    BY <1>2, <1>3, <2>1 DEF Adds
  <2> QED  BY <2>1, <2>2, <2>3, <2>4 DEF Adds
<1> QED  BY <1>1, <1>4 DEF p


(* The cells that are not in the buffer yet are the last ones owed. *)
LEMMA AddsLast ==
  ASSUME NEW s \in Seq(Symbols), NEW w \in Seq(Symbols), NEW o \in Seq(Symbols),
         NEW out, NEW n \in Nat, NEW f, NEW k \in Nat \ {0}, Adds(s, w, o, out, n, f, k)
  PROVE  o[Len(o) - k + 1] \in Symbols
<1>1. PICK a \in Nat, b \in Nat, m \in Nat : a = Len(s) /\ b = Len(w) /\ m = Len(o)
  OBVIOUS
<1>2. f \in 0..n /\ m = a + b + (n - f) + k
  BY <1>1 DEF Adds
<1>3. m - k + 1 \in 1..m
  BY <1>2
<1> QED  BY <1>1, <1>3

(* The buffer has room for what a peer may be owed. *)
LEMMA Room == 0..(MaxScript + Filler) \subseteq Cells /\ 0..3 \subseteq Cells
<1>1. /\ MaxScript \in Nat \ {0} /\ MgetKeys \in Nat /\ Filler \in Nat \ {0}
  BY ReplyPathAssumption, Zenon
<1>2. PICK k \in Nat : k = MaxScript * MgetKeys
  BY <1>1, Z3T(10)
<1>3. Most = MaxScript + k
  <2>1. MaxScript * (MgetKeys + 1) = MaxScript * MgetKeys + MaxScript
    BY <1>1, Z3T(10)
  <2> QED  BY <1>1, <1>2, <2>1 DEF Most
<1>4. PICK m \in Nat : m = (MaxScript + k) * (Filler - 1)
  BY <1>1, <1>2, Z3T(10)
<1>5. Most * (Filler + 2) = 3 * (MaxScript + k) + m
  <2>1. (MaxScript + k) * (Filler + 2) = 3 * (MaxScript + k) + (MaxScript + k) * (Filler - 1)
    BY <1>1, <1>2, Z3T(10)
  <2> QED  BY <1>3, <1>4, <2>1
<1>6. m >= Filler - 1
  <2>1. PICK x \in Nat : x = MaxScript + k - 1
    BY <1>1, <1>2
  <2>2. m = Filler - 1 + x * (Filler - 1) /\ x * (Filler - 1) \in Nat
    BY <1>1, <1>2, <1>4, <2>1, Z3T(10)
  <2> QED  BY <1>1, <2>2
<1> QED  BY <1>1, <1>2, <1>4, <1>5, <1>6 DEF Cells

-----------------------------------------------------------------------------
(* Lists of steps *)

(* m is l without its first d steps. *)
IsEnd(m, l, d) == Len(m) = Len(l) - d /\ \A i \in 1..Len(m) : m[i] = l[i + d]

(* The end of a list is a list. *)
LEMMA Ends ==
  ASSUME NEW l \in Seq(Steps), NEW m \in Seq(Steps), NEW d \in Nat,
         IsEnd(m, l, d)
  PROVE  /\ \A asker \in BOOLEAN : PollList(l, asker) => PollList(m, asker)
         /\ HandlerList(l) => HandlerList(m)
<1>1. Len(l) \in Nat /\ Len(m) \in Nat /\ Len(m) = Len(l) - d
  BY DEF IsEnd
<1>2. PICK p \in Nat, q \in Nat : p = Len(m) /\ q = Len(l)
  BY <1>1
<1>3. p = q - d
  BY <1>1, <1>2
<1>4. \A j \in 1..p : m[j] = l[j + d]
  BY <1>2 DEF IsEnd
<1>5. ASSUME NEW asker \in BOOLEAN, PollList(l, asker)
      PROVE  PollList(m, asker)
  <2>1. SUFFICES ASSUME NEW i \in 1..p
        PROVE  /\ (IF i = p THEN "nothing" ELSE m[i + 1][1]) \in PollAfter(m[i][1])
               /\ IF asker THEN m[i][1] \in AskerOps ELSE m[i][1] # "read"
    BY <1>2 DEF PollList
  <2>2. PICK k \in 1..q : k = i + d /\ m[i] = l[k]
    BY <1>3, <1>4
  <2>3. (IF k = q THEN "nothing" ELSE l[k + 1][1]) \in PollAfter(l[k][1])
        /\ IF asker THEN l[k][1] \in AskerOps ELSE l[k][1] # "read"
    BY <1>2, <1>5 DEF PollList
  <2>4. CASE i = p
    <3>1. k = q
      BY <1>3, <2>2, <2>4
    <3> QED  BY <2>2, <2>3, <2>4, <3>1, Zenon
  <2>5. CASE i # p
    <3>1. k # q /\ i + 1 \in 1..p /\ (i + 1) + d = k + 1
      BY <1>3, <2>2, <2>5
    <3>2. m[i + 1] = l[(i + 1) + d]
      BY <1>4, <3>1
    <3> QED  BY <2>2, <2>3, <2>5, <3>1, <3>2, Zenon
  <2> QED  BY <2>4, <2>5
<1>6. ASSUME HandlerList(l) PROVE HandlerList(m)
  <2>1. ASSUME NEW i \in 1..p
        PROVE  m[i][1] = HandlerOp(p - i + 1)
    <3>1. PICK k \in 1..q : k = i + d /\ m[i] = l[k]
      BY <1>3, <1>4
    <3>2. q - k + 1 = p - i + 1
      BY <1>3, <3>1
    <3>3. l[k][1] = HandlerOp(q - k + 1)
      BY <1>2, <1>6 DEF HandlerList
    <3> QED  BY <3>1, <3>2, <3>3
  <2>2. p > 8 => m[p - 7][2] = "crlf"
    <3>1. SUFFICES ASSUME p > 8 PROVE m[p - 7][2] = "crlf"
      OBVIOUS
    <3>2. /\ p - 7 \in 1..p /\ q > 8
          /\ (p - 7) + d = q - 7
      BY <1>3, <3>1
    <3>3. m[p - 7] = l[q - 7]
      BY <1>2, <3>2 DEF IsEnd
    <3> QED  BY <1>2, <1>6, <3>2, <3>3 DEF HandlerList
  <2>3. p <= 11
    BY <1>1, <1>2, <1>6 DEF HandlerList
  <2> QED  BY <1>2, <2>1, <2>2, <2>3 DEF HandlerList
<1> QED  BY <1>5, <1>6

LEMMA Rest ==
  ASSUME NEW l \in Seq(Steps), l # <<>>
  PROVE  /\ Tail(l) \in Seq(Steps)
         /\ IsEnd(Tail(l), l, 1)
         /\ \A asker \in BOOLEAN : PollList(l, asker) => PollList(Tail(l), asker)
         /\ HandlerList(l) => HandlerList(Tail(l))
<1>1. Tail(l) \in Seq(Steps) /\ IsEnd(Tail(l), l, 1)
  BY HeadTailProperties DEF IsEnd
<1> QED  BY <1>1, Ends

(* A list that begins with the writing of a cell. *)
Writes(l, cell, asker) ==
  /\ l \in Seq(Steps) /\ l # <<>>
  /\ l[1] = <<"copy", cell>>
  /\ PollList(l, asker)

LEMMA StepsType ==
  /\ \A x \in Symbols : <<"copy", x>> \in Steps
  /\ {<<"test", "own">>, <<"test", "zero">>, <<"load">>, <<"store">>, <<"read">>,
      <<"next">>, <<"valid?">>, <<"validate">>, <<"invalid">>, <<"write">>, <<"zero">>,
      <<"zerooff">>, <<"close">>} \subseteq Steps
  /\ {"ok", "err", "bulk", "nil", "array", "crlf"} \subseteq Symbols
  BY DEF Steps, Symbols, Replies

(* Lists that are put together from short ones, of the given lengths. *)
LEMMA Join31 ==
  ASSUME NEW a, NEW b, NEW c, NEW d
  PROVE  <<a, b, c>> \o <<d>> = <<a, b, c, d>>
<1> DEFINE S == {a, b, c, d}
           l == <<a, b, c>> \o <<d>>
           r == <<a, b, c, d>>
<1>1. {a, b, c, d} \subseteq S
  OBVIOUS
<1> HIDE DEF S
<1>2. l \in Seq(S) /\ r \in Seq(S) /\ Len(l) = Len(r)
  BY <1>1
<1>3. \A z \in 1..Len(l) : l[z] = r[z]
  BY <1>1
<1> HIDE DEF l, r
<1>4. l = r
  BY <1>2, <1>3, SeqEqual
<1> QED  BY <1>4 DEF l, r

LEMMA Join311 ==
  ASSUME NEW a, NEW b, NEW c, NEW d, NEW e
  PROVE  <<a, b, c>> \o <<d>> \o <<e>> = <<a, b, c, d, e>>
<1> DEFINE S == {a, b, c, d, e}
           l == <<a, b, c>> \o <<d>> \o <<e>>
           r == <<a, b, c, d, e>>
<1>1. {a, b, c, d, e} \subseteq S
  OBVIOUS
<1> HIDE DEF S
<1>2. l \in Seq(S) /\ r \in Seq(S) /\ Len(l) = Len(r)
  BY <1>1
<1>3. \A z \in 1..Len(l) : l[z] = r[z]
  BY <1>1
<1> HIDE DEF l, r
<1>4. l = r
  BY <1>2, <1>3, SeqEqual
<1> QED  BY <1>4 DEF l, r

LEMMA Join3111 ==
  ASSUME NEW a, NEW b, NEW c, NEW d, NEW e, NEW f
  PROVE  <<a, b, c>> \o <<d>> \o <<e>> \o <<f>> = <<a, b, c, d, e, f>>
<1> DEFINE S == {a, b, c, d, e, f}
           l == <<a, b, c>> \o <<d>> \o <<e>> \o <<f>>
           r == <<a, b, c, d, e, f>>
<1>1. {a, b, c, d, e, f} \subseteq S
  OBVIOUS
<1> HIDE DEF S
<1>2. l \in Seq(S) /\ r \in Seq(S) /\ Len(l) = Len(r)
  BY <1>1
<1>3. \A z \in 1..Len(l) : l[z] = r[z]
  BY <1>1
<1> HIDE DEF l, r
<1>4. l = r
  BY <1>2, <1>3, SeqEqual
<1> QED  BY <1>4 DEF l, r

LEMMA Join321 ==
  ASSUME NEW a, NEW b, NEW c, NEW d, NEW e, NEW f
  PROVE  <<a, b, c>> \o <<d, e>> \o <<f>> = <<a, b, c, d, e, f>>
<1> DEFINE S == {a, b, c, d, e, f}
           l == <<a, b, c>> \o <<d, e>> \o <<f>>
           r == <<a, b, c, d, e, f>>
<1>1. {a, b, c, d, e, f} \subseteq S
  OBVIOUS
<1> HIDE DEF S
<1>2. l \in Seq(S) /\ r \in Seq(S) /\ Len(l) = Len(r)
  BY <1>1
<1>3. \A z \in 1..Len(l) : l[z] = r[z]
  BY <1>1
<1> HIDE DEF l, r
<1>4. l = r
  BY <1>2, <1>3, SeqEqual
<1> QED  BY <1>4 DEF l, r

LEMMA Join61 ==
  ASSUME NEW a, NEW b, NEW c, NEW d, NEW e, NEW f, NEW g
  PROVE  <<a, b, c, d, e, f>> \o <<g>> = <<a, b, c, d, e, f, g>>
<1> DEFINE S == {a, b, c, d, e, f, g}
           l == <<a, b, c, d, e, f>> \o <<g>>
           r == <<a, b, c, d, e, f, g>>
<1>1. {a, b, c, d, e, f, g} \subseteq S
  OBVIOUS
<1> HIDE DEF S
<1>2. l \in Seq(S) /\ r \in Seq(S) /\ Len(l) = Len(r)
  BY <1>1
<1>3. \A z \in 1..Len(l) : l[z] = r[z]
  BY <1>1
<1> HIDE DEF l, r
<1>4. l = r
  BY <1>2, <1>3, SeqEqual
<1> QED  BY <1>4 DEF l, r

LEMMA Join3332 ==
  ASSUME NEW a, NEW b, NEW c, NEW d, NEW e, NEW f, NEW g, NEW h, NEW i, NEW j, NEW k
  PROVE  <<a, b, c>> \o <<d, e, f>> \o <<g, h, i>> \o <<j, k>> = <<a, b, c, d, e, f, g, h, i, j, k>>
<1> DEFINE S == {a, b, c, d, e, f, g, h, i, j, k}
           l == <<a, b, c>> \o <<d, e, f>> \o <<g, h, i>> \o <<j, k>>
           r == <<a, b, c, d, e, f, g, h, i, j, k>>
<1>1. {a, b, c, d, e, f, g, h, i, j, k} \subseteq S
  OBVIOUS
<1> HIDE DEF S
<1>2. l \in Seq(S) /\ r \in Seq(S) /\ Len(l) = Len(r)
  BY <1>1
<1>3. \A z \in 1..Len(l) : l[z] = r[z]
  BY <1>1
<1> HIDE DEF l, r
<1>4. l = r
  BY <1>2, <1>3, SeqEqual
<1> QED  BY <1>4 DEF l, r

LEMMA Join332 ==
  ASSUME NEW a, NEW b, NEW c, NEW d, NEW e, NEW f, NEW g, NEW h
  PROVE  <<a, b, c>> \o <<d, e, f>> \o <<g, h>> = <<a, b, c, d, e, f, g, h>>
<1> DEFINE S == {a, b, c, d, e, f, g, h}
           l == <<a, b, c>> \o <<d, e, f>> \o <<g, h>>
           r == <<a, b, c, d, e, f, g, h>>
<1>1. {a, b, c, d, e, f, g, h} \subseteq S
  OBVIOUS
<1> HIDE DEF S
<1>2. l \in Seq(S) /\ r \in Seq(S) /\ Len(l) = Len(r)
  BY <1>1
<1>3. \A z \in 1..Len(l) : l[z] = r[z]
  BY <1>1
<1> HIDE DEF l, r
<1>4. l = r
  BY <1>2, <1>3, SeqEqual
<1> QED  BY <1>4 DEF l, r

(* The lists of ExecSet, ExecError, ExecProtocolError and ExecQuit. *)
LEMMA TellerLists ==
  /\ Writes(Write("ok") \o <<<<"validate">>>> \o Execute, "ok", FALSE)
  /\ Writes(Write("err") \o FlushIfValid, "err", FALSE)
  /\ Writes(Write("err") \o FlushIfValid \o <<<<"close">>>>, "err", FALSE)
  /\ Writes(Write("ok") \o <<<<"validate">>>> \o FlushIfValid \o <<<<"close">>>>,
            "ok", FALSE)
<1> DEFINE a == <<<<"copy", "ok">>, <<"load">>, <<"store">>, <<"validate">>, <<"next">>>>
           b == <<<<"copy", "err">>, <<"load">>, <<"store">>, <<"valid?">>>>
           c == <<<<"copy", "err">>, <<"load">>, <<"store">>, <<"valid?">>, <<"close">>>>
           d == <<<<"copy", "ok">>, <<"load">>, <<"store">>, <<"validate">>, <<"valid?">>,
                  <<"close">>>>
<1>0. /\ <<"copy", "ok">> \in Steps /\ <<"copy", "err">> \in Steps
      /\ <<"load">> \in Steps /\ <<"store">> \in Steps /\ <<"validate">> \in Steps
      /\ <<"next">> \in Steps /\ <<"valid?">> \in Steps /\ <<"close">> \in Steps
  BY StepsType
<1>1. Write("ok") \o <<<<"validate">>>> \o Execute = a
  BY Join311, Zenon DEF Write, Execute
<1>2. Write("err") \o FlushIfValid = b
  BY Join31, Zenon DEF Write, FlushIfValid
<1>3. Write("err") \o FlushIfValid \o <<<<"close">>>> = c
  BY Join311, Zenon DEF Write, FlushIfValid
<1>4. Write("ok") \o <<<<"validate">>>> \o FlushIfValid \o <<<<"close">>>> = d
  <2> DEFINE w == <<"copy", "ok">>
             x == <<"load">>
             y == <<"store">>
             z == <<"validate">>
             u == <<"valid?">>
             v == <<"close">>
  <2> HIDE DEF u, v, w, x, y, z
  <2>1. <<w, x, y>> \o <<z>> \o <<u>> \o <<v>> = <<w, x, y, z, u, v>>
    BY Join3111
  <2> QED  BY <2>1 DEF u, v, w, x, y, z, Write, FlushIfValid
<1>5. a \in Seq(Steps) /\ b \in Seq(Steps) /\ c \in Seq(Steps) /\ d \in Seq(Steps)
  BY <1>0
<1>6. PollList(a, FALSE)
  BY DEF PollList, PollAfter
<1>7. PollList(b, FALSE)
  BY DEF PollList, PollAfter
<1>8. PollList(c, FALSE)
  BY DEF PollList, PollAfter
<1>9. PollList(d, FALSE)
  BY DEF PollList, PollAfter
<1>10. /\ a # <<>> /\ a[1] = <<"copy", "ok">>
       /\ b # <<>> /\ b[1] = <<"copy", "err">>
       /\ c # <<>> /\ c[1] = <<"copy", "err">>
       /\ d # <<>> /\ d[1] = <<"copy", "ok">>
  OBVIOUS
<1> HIDE DEF a, b, c, d
<1> QED  BY <1>1, <1>2, <1>3, <1>4, <1>5, <1>6, <1>7, <1>8, <1>9, <1>10 DEF Writes

(* The list of ExecMget. *)
LEMMA AskerList ==
  Writes(Write("array") \o [k \in 1..MgetKeys |-> <<"read">>] \o Execute, "array", TRUE)
<1> DEFINE r == [k \in 1..MgetKeys |-> <<"read">>]
           w == Write("array")
           v == w \o r
           l == v \o Execute
<1>1. MgetKeys \in Nat
  BY ReplyPathAssumption, Zenon
<1>2. r \in Seq(Steps) /\ Len(r) = MgetKeys /\ \A k \in 1..MgetKeys : r[k] = <<"read">>
  BY <1>1, StepsType
<1>3. /\ w \in Seq(Steps) /\ Len(w) = 3
      /\ w[1] = <<"copy", "array">> /\ w[2] = <<"load">> /\ w[3] = <<"store">>
      /\ Execute \in Seq(Steps) /\ Len(Execute) = 1 /\ Execute[1] = <<"next">>
  BY StepsType DEF Write, Execute
<1>4. /\ l \in Seq(Steps) /\ Len(l) = MgetKeys + 4
      /\ l[1] = <<"copy", "array">> /\ l[2] = <<"load">> /\ l[3] = <<"store">>
      /\ \A i \in 4..(MgetKeys + 3) : l[i] = <<"read">>
      /\ l[MgetKeys + 4] = <<"next">>
  <2> HIDE DEF r, w
  <2>1. /\ v \in Seq(Steps) /\ Len(v) = Len(w) + Len(r)
        /\ \A i \in 1..Len(w) : v[i] = w[i]
        /\ \A i \in 1..Len(r) : v[Len(w) + i] = r[i]
    <3>1. w \in Seq(Steps) /\ r \in Seq(Steps)
      BY <1>2, <1>3
    <3> QED  BY <3>1
  <2> HIDE DEF v
  <2>2. /\ l \in Seq(Steps) /\ Len(l) = Len(v) + Len(Execute)
        /\ \A i \in 1..Len(v) : l[i] = v[i]
        /\ \A i \in 1..Len(Execute) : l[Len(v) + i] = Execute[i]
    <3>1. v \in Seq(Steps) /\ Execute \in Seq(Steps)
      BY <1>3, <2>1
    <3> QED  BY <3>1
  <2> HIDE DEF l
  <2>3. /\ Len(v) = MgetKeys + 3
        /\ v[1] = w[1] /\ v[2] = w[2] /\ v[3] = w[3]
        /\ \A i \in 1..MgetKeys : v[3 + i] = <<"read">>
    <3>1. Len(v) = MgetKeys + 3
      BY <1>1, <1>2, <1>3, <2>1
    <3>2. v[1] = w[1] /\ v[2] = w[2] /\ v[3] = w[3]
      BY <1>3, <2>1
    <3>3. ASSUME NEW i \in 1..MgetKeys PROVE v[3 + i] = <<"read">>
      BY <1>2, <1>3, <2>1
    <3> QED  BY <3>1, <3>2, <3>3
  <2>4. \A i \in 4..(MgetKeys + 3) : v[i] = <<"read">>
    <3>1. \A i \in 4..(MgetKeys + 3) : i - 3 \in 1..MgetKeys /\ 3 + (i - 3) = i
      BY <1>1
    <3> QED  BY <2>3, <3>1
  <2>5. /\ l[1] = v[1] /\ l[2] = v[2] /\ l[3] = v[3]
        /\ \A i \in 4..(MgetKeys + 3) : l[i] = v[i]
    BY <1>1, <2>2, <2>3
  <2>6. Len(l) = MgetKeys + 4 /\ l[MgetKeys + 4] = Execute[1]
    BY <1>1, <1>3, <2>2, <2>3
  <2> QED  BY <1>3, <2>2, <2>3, <2>4, <2>5, <2>6
<1> HIDE DEF l
<1>5. ASSUME NEW i \in 1..(MgetKeys + 4)
      PROVE  /\ (IF i = MgetKeys + 4 THEN "nothing" ELSE l[i + 1][1]) \in PollAfter(l[i][1])
             /\ l[i][1] \in AskerOps
  <2>1. CASE i \in 1..3
    BY <1>1, <1>4, <2>1 DEF PollAfter, AskerOps
  <2>2. CASE i \in 4..(MgetKeys + 3)
    BY <1>1, <1>4, <2>2 DEF PollAfter, AskerOps
  <2>3. CASE i = MgetKeys + 4
    BY <1>1, <1>4, <2>3 DEF PollAfter, AskerOps
  <2> QED  BY <1>1, <2>1, <2>2, <2>3
<1>6. PollList(l, TRUE)
  BY <1>4, <1>5 DEF PollList
<1>7. l # <<>>
  BY <1>1, <1>4
<1> QED  BY <1>4, <1>6, <1>7 DEF Writes, l, v, r, w

(* The list of ExecKeys. *)
Lists(l) ==
  /\ l \in Seq(Steps) /\ l # <<>> /\ l[1][1] = "copy"
  /\ Len(l) = 3 * Filler + 2
  /\ ScanList(l)
  /\ \E i \in 1..Len(l) : l[i][1] = "header"

LEMMA KeysList == Lists(ScanKeys \o Execute)
<1> DEFINE w == [k \in 1..(3 * Filler) |-> Write("?")[1 + ((k - 1) % 3)]]
           v == w \o <<<<"header">>>>
           l == v \o Execute
<1>1. PICK F \in Nat \ {0} : F = Filler
  BY ReplyPathAssumption, Zenon
<1>2. ASSUME NEW k \in 1..(3 * F)
      PROVE  /\ Write("?")[1 + ((k - 1) % 3)] \in Steps
             /\ Write("?")[1 + ((k - 1) % 3)][1] = ScanOp(3 * F + 2 - k + 1)
  <2>1. PICK a \in Nat, b \in {0, 1, 2} : k - 1 = 3 * a + b
    <3>1. PICK j \in Nat : j = k - 1
      OBVIOUS
    <3>2. j = 3 * (j \div 3) + (j % 3) /\ j \div 3 \in Nat /\ j % 3 \in {0, 1, 2}
      OBVIOUS
    <3> QED  BY <3>1, <3>2
  <2>2. (k - 1) % 3 = b
    BY <2>1
  <2>3. PICK n \in Nat : n = 3 * F + 2 - k + 1 /\ n >= 3
    OBVIOUS
  <2>4. n = 3 * (F - a) + (2 - b)
    BY <2>1, <2>3
  <2>5. n % 3 = 2 - b
    <3>1. F - a \in Nat
      BY <2>1
    <3> QED  BY <2>4, <3>1
  <2>6. ScanOp(n) = IF b = 2 THEN "store" ELSE IF b = 1 THEN "load" ELSE "copy"
    BY <2>3, <2>5 DEF ScanOp
  <2>7. /\ "?" \in Symbols
        /\ <<"copy", "?">> \in Steps /\ <<"load">> \in Steps /\ <<"store">> \in Steps
    BY StepsType DEF Symbols
  <2>8. CASE b = 0
    BY <2>2, <2>3, <2>6, <2>7, <2>8 DEF Write
  <2>9. CASE b = 1
    BY <2>2, <2>3, <2>6, <2>7, <2>9 DEF Write
  <2>10. CASE b = 2
    BY <2>2, <2>3, <2>6, <2>7, <2>10 DEF Write
  <2> QED  BY <2>8, <2>9, <2>10
<1>3. /\ w \in Seq(Steps) /\ Len(w) = 3 * F
      /\ \A k \in 1..(3 * F) : w[k][1] = ScanOp(3 * F + 2 - k + 1)
  BY <1>1, <1>2
<1>4. /\ <<<<"header">>>> \in Seq(Steps) /\ Execute \in Seq(Steps)
      /\ Len(<<<<"header">>>>) = 1 /\ Len(Execute) = 1
      /\ <<<<"header">>>>[1] = <<"header">> /\ Execute[1] = <<"next">>
  <2>1. <<"header">> \in Steps
    BY DEF Steps
  <2> QED  BY <2>1, StepsType DEF Execute
<1> HIDE DEF w
<1>5. /\ v \in Seq(Steps) /\ Len(v) = 3 * F + 1
      /\ \A k \in 1..(3 * F) : v[k] = w[k]
      /\ v[3 * F + 1] = <<"header">>
  <2>1. PICK x \in Seq(Steps) : x = <<<<"header">>>>
    BY <1>4
  <2>2. Len(x) = 1 /\ x[1] = <<"header">> /\ v = w \o x /\ w \in Seq(Steps)
    BY <1>3, <1>4, <2>1
  <2> HIDE DEF v
  <2>3. /\ v \in Seq(Steps) /\ Len(v) = Len(w) + Len(x)
        /\ \A k \in 1..Len(w) : v[k] = w[k]
        /\ \A k \in 1..Len(x) : v[Len(w) + k] = x[k]
    BY <2>1, <2>2
  <2> QED  BY <1>3, <2>2, <2>3
<1> HIDE DEF v
<1>6. /\ l \in Seq(Steps) /\ Len(l) = 3 * F + 2
      /\ \A k \in 1..(3 * F + 1) : l[k] = v[k]
      /\ l[3 * F + 2] = <<"next">>
  <2>1. v \in Seq(Steps) /\ Execute \in Seq(Steps)
    BY <1>4, <1>5
  <2>2. /\ l \in Seq(Steps) /\ Len(l) = Len(v) + Len(Execute)
        /\ \A k \in 1..Len(v) : l[k] = v[k]
        /\ \A k \in 1..Len(Execute) : l[Len(v) + k] = Execute[k]
    BY <2>1
  <2> HIDE DEF l
  <2> QED  BY <1>4, <1>5, <2>2
<1> HIDE DEF l
<1>7. ASSUME NEW i \in 1..(3 * F + 2)
      PROVE  l[i][1] = ScanOp(3 * F + 2 - i + 1)
  <2>1. CASE i \in 1..(3 * F)
    <3>1. l[i] = w[i]
      BY <1>5, <1>6, <2>1
    <3> QED  BY <1>3, <2>1, <3>1
  <2>2. CASE i = 3 * F + 1
    <3>1. l[i] = <<"header">> /\ 3 * F + 2 - i + 1 = 2
      BY <1>5, <1>6, <2>2
    <3> QED  BY <3>1 DEF ScanOp
  <2>3. CASE i = 3 * F + 2
    <3>1. l[i] = <<"next">> /\ 3 * F + 2 - i + 1 = 1
      BY <1>6, <2>3
    <3> QED  BY <3>1 DEF ScanOp
  <2> QED  BY <2>1, <2>2, <2>3
<1>8. l # <<>> /\ l[1][1] = "copy"
  <2>1. l # <<>>
    BY <1>6
  <2>2. 1 \in 1..(3 * F + 2) /\ 3 * F + 2 - 1 + 1 = 3 * F + 2
    OBVIOUS
  <2>3. l[1][1] = ScanOp(3 * F + 2)
    BY <1>7, <2>2
  <2>4. (3 * F + 2) % 3 = 2 /\ 3 * F + 2 >= 5
    OBVIOUS
  <2>5. ScanOp(3 * F + 2) = "copy"
    BY <2>4 DEF ScanOp
  <2> QED  BY <2>1, <2>3, <2>5
<1>9. ScanList(l)
  BY <1>6, <1>7 DEF ScanList
<1>10. \E i \in 1..Len(l) : l[i][1] = "header"
  <2>1. 3 * F + 1 \in 1..Len(l) /\ 3 * F + 1 \in 1..(3 * F + 1)
    BY <1>6
  <2>2. l[3 * F + 1] = <<"header">>
    BY <1>5, <1>6, <2>1
  <2> QED  BY <2>1, <2>2
<1>11. Lists(l)
  BY <1>1, <1>6, <1>8, <1>9, <1>10 DEF Lists
<1> QED  BY <1>11 DEF l, v, w, ScanKeys

(* The lists of OnRead and ExecNone. *)
LEMMA ShortLists ==
  /\ Execute \in Seq(Steps) /\ Execute # <<>> /\ Execute[1][1] = "next"
  /\ FlushIfValid \in Seq(Steps) /\ FlushIfValid # <<>>
  /\ FlushIfValid[1][1] = "valid?"
  /\ \A asker \in BOOLEAN : PollList(Execute, asker) /\ PollList(FlushIfValid, asker)
  BY StepsType DEF Execute, FlushIfValid, PollList, PollAfter, AskerOps

(* The list of TestValid. *)
LEMMA FlushList ==
  ASSUME NEW m, m = <<>> \/ m = <<<<"close">>>>
  PROVE  /\ FlushAndClear \o m \in Seq(Steps) /\ FlushAndClear \o m # <<>>
         /\ (FlushAndClear \o m)[1] = <<"test", "own">>
         /\ (FlushAndClear \o m)[4] = <<"zero">>
         /\ PollList(FlushAndClear \o m, FALSE)
<1> DEFINE a == <<<<"test", "own">>, <<"write">>, <<"zero">>, <<"zero">>, <<"zerooff">>,
                  <<"invalid">>>>
           b == <<<<"test", "own">>, <<"write">>, <<"zero">>, <<"zero">>, <<"zerooff">>,
                  <<"invalid">>, <<"close">>>>
<1>0. /\ <<"test", "own">> \in Steps /\ <<"write">> \in Steps /\ <<"zero">> \in Steps
      /\ <<"zerooff">> \in Steps /\ <<"invalid">> \in Steps /\ <<"close">> \in Steps
  BY StepsType
<1>1. a \in Seq(Steps) /\ b \in Seq(Steps)
  BY <1>0
<1>2. FlushAndClear = a
  <2> DEFINE u == <<"test", "own">>
             v == <<"write">>
             w == <<"zero">>
             x == <<"zerooff">>
             y == <<"invalid">>
  <2> HIDE DEF u, v, w, x, y
  <2>1. <<u, v, w>> \o <<w, x>> \o <<y>> = <<u, v, w, w, x, y>>
    BY Join321
  <2> QED  BY <2>1 DEF u, v, w, x, y, FlushAndClear, Flush, Clear
<1>3. a \o <<<<"close">>>> = b
  BY Join61, Zenon
<1>4. a # <<>> /\ a[1] = <<"test", "own">> /\ a[4] = <<"zero">> /\ PollList(a, FALSE)
  BY DEF PollList, PollAfter
<1>5. b # <<>> /\ b[1] = <<"test", "own">> /\ b[4] = <<"zero">> /\ PollList(b, FALSE)
  BY DEF PollList, PollAfter
<1> HIDE DEF a, b
<1>6. a \o <<>> = a
  BY <1>1, ConcatEmptySeq
<1> QED  BY <1>1, <1>2, <1>3, <1>4, <1>5, <1>6

(* The list of HandlerDequeues. *)
LEMMA AnswerList ==
  ASSUME NEW found \in BOOLEAN
  PROVE  /\ Answer(found) \in Seq(Steps) /\ Answer(found) # <<>>
         /\ HandlerList(Answer(found))
         /\ Len(Answer(found)) = (IF found THEN 11 ELSE 8)
         /\ Answer(found)[1] = <<"copy", IF found THEN "bulk" ELSE "nil">>
<1> DEFINE a == <<<<"copy", "bulk">>, <<"load">>, <<"store">>,
                  <<"copy", "crlf">>, <<"load">>, <<"store">>,
                  <<"test", "zero">>, <<"write">>, <<"zero">>, <<"zero">>, <<"zerooff">>>>
           b == <<<<"copy", "nil">>, <<"load">>, <<"store">>,
                  <<"test", "zero">>, <<"write">>, <<"zero">>, <<"zero">>, <<"zerooff">>>>
<1>0. /\ <<"copy", "bulk">> \in Steps /\ <<"copy", "crlf">> \in Steps
      /\ <<"copy", "nil">> \in Steps /\ <<"load">> \in Steps /\ <<"store">> \in Steps
      /\ <<"test", "zero">> \in Steps /\ <<"write">> \in Steps /\ <<"zero">> \in Steps
      /\ <<"zerooff">> \in Steps
  BY StepsType
<1>1. found => Answer(found) = a
  <2> DEFINE n == <<"copy", "bulk">>
             m == <<"copy", "crlf">>
             p == <<"load">>
             q == <<"store">>
             u == <<"test", "zero">>
             v == <<"write">>
             w == <<"zero">>
             x == <<"zerooff">>
  <2> HIDE DEF m, n, p, q, u, v, w, x
  <2>1. <<n, p, q>> \o <<m, p, q>> \o <<u, v, w>> \o <<w, x>>
          = <<n, p, q, m, p, q, u, v, w, w, x>>
    BY Join3332
  <2> QED  BY <2>1 DEF m, n, p, q, u, v, w, x, Answer, Write, Flush, Clear
<1>2. ~ found => Answer(found) = b
  <2> DEFINE n == <<"copy", "nil">>
             p == <<"load">>
             q == <<"store">>
             u == <<"test", "zero">>
             v == <<"write">>
             w == <<"zero">>
             x == <<"zerooff">>
  <2> HIDE DEF n, p, q, u, v, w, x
  <2>1. <<n, p, q>> \o <<u, v, w>> \o <<w, x>> = <<n, p, q, u, v, w, w, x>>
    BY Join332
  <2> QED  BY <2>1 DEF n, p, q, u, v, w, x, Answer, Write, Flush, Clear
<1>3. a \in Seq(Steps) /\ b \in Seq(Steps)
  BY <1>0
<1>4. a # <<>> /\ Len(a) = 11 /\ a[1] = <<"copy", "bulk">>
  OBVIOUS
<1>5. b # <<>> /\ Len(b) = 8 /\ b[1] = <<"copy", "nil">>
  OBVIOUS
<1>6. HandlerList(a)
  BY DEF HandlerList, HandlerOp
<1>7. HandlerList(b)
  BY DEF HandlerList, HandlerOp
<1> HIDE DEF a, b
<1>8. CASE found
  BY <1>1, <1>3, <1>4, <1>6, <1>8
<1>9. CASE ~ found
  BY <1>2, <1>3, <1>5, <1>7, <1>9
<1> QED  BY <1>8, <1>9

-----------------------------------------------------------------------------
(* What the invariant says of a thread *)

(* A thread is at the first step of its list. *)
LEMMA AtDoing ==
  ASSUME Types, NEW t \in Threads, NEW op, At(t, op)
  PROVE  Doing(t) = op /\ ops[t] # <<>> /\ ops[t] \in Seq(Steps)
  BY DEF Types, At, Doing

(* While keys are listed the header comes last but one. *)
LEMMA ScanDoes ==
  ASSUME Inv, Scanning
  PROVE  /\ on["poll"] \notin Askers
         /\ Len(ops["poll"]) \in Nat /\ Len(ops["poll"]) >= 2
         /\ Doing("poll") = ScanOp(Len(ops["poll"]))
         /\ Doing("poll") \in Filling
<1>1. ops["poll"] \in Seq(Steps) /\ ScanList(ops["poll"]) /\ on["poll"] \notin Askers
  BY DEF Inv, Types, Threads, PollOK
<1>2. PICK n \in Nat : n = Len(ops["poll"])
  BY <1>1
<1>3. PICK i \in 1..n : ops["poll"][i][1] = "header"
  BY <1>2 DEF Scanning
<1>4. ScanOp(n - i + 1) = "header"
  BY <1>1, <1>2, <1>3 DEF ScanList
<1>5. n - i + 1 # 1
  BY <1>4 DEF ScanOp
<1>6. n >= 2 /\ 1 \in 1..n /\ n - 1 + 1 = n
  BY <1>3, <1>5
<1>7. ops["poll"][1][1] = ScanOp(n)
  BY <1>1, <1>2, <1>6 DEF ScanList
<1>8. ops["poll"] # <<>>
  BY <1>1, <1>2, <1>6
<1>9. ScanOp(n) \in Filling
  BY <1>6 DEF ScanOp, Filling
<1> QED  BY <1>1, <1>2, <1>6, <1>7, <1>8, <1>9 DEF Doing

LEMMA ScansFill ==
  ASSUME Inv, NEW t \in Threads, Doing(t) \notin Filling
  PROVE  ~ Scans(t)
  BY ScanDoes DEF Scans

(* Which steps the threads do. *)
LEMMA PollDoes ==
  ASSUME Inv, on["poll"] \in Apart, ops["poll"] # <<>>, ~ Scanning
  PROVE  /\ (IF Len(ops["poll"]) = 1 THEN "nothing" ELSE ops["poll"][2][1])
              \in PollAfter(Doing("poll"))
         /\ IF on["poll"] \in Askers THEN Doing("poll") \in AskerOps
            ELSE Doing("poll") # "read"
<1>1. ops["poll"] \in Seq(Steps) /\ Len(ops["poll"]) \in Nat \ {0}
  BY DEF Inv, Types, Threads
<1>2. 1 \in 1..Len(ops["poll"]) /\ 1 + 1 = 2
  BY <1>1
<1>3. /\ (IF 1 = Len(ops["poll"]) THEN "nothing" ELSE ops["poll"][2][1])
            \in PollAfter(ops["poll"][1][1])
      /\ IF on["poll"] \in Askers THEN ops["poll"][1][1] \in AskerOps
         ELSE ops["poll"][1][1] # "read"
  BY <1>2 DEF Inv, PollOK, PollList
<1> QED  BY <1>3 DEF Doing

LEMMA HandlerDoes ==
  ASSUME Inv, ops["handler"] # <<>>
  PROVE  /\ Len(ops["handler"]) \in 1..11
         /\ Doing("handler") = HandlerOp(Len(ops["handler"]))
<1>1. ops["handler"] \in Seq(Steps) /\ Len(ops["handler"]) \in Nat \ {0}
  BY DEF Inv, Types, Threads
<1>2. 1 \in 1..Len(ops["handler"]) /\ Len(ops["handler"]) - 1 + 1 = Len(ops["handler"])
  BY <1>1
<1>3. ops["handler"][1][1] = HandlerOp(Len(ops["handler"]))
  BY <1>2 DEF Inv, HandlerList
<1>4. Len(ops["handler"]) <= 11
  BY DEF Inv, HandlerList
<1>5. Len(ops["handler"]) \in 1..11
  <2>1. PICK n \in Nat \ {0} : n = Len(ops["handler"])
    BY <1>1
  <2>2. n <= 11
    BY <1>4, <2>1
  <2>3. n \in 1..11
    BY <2>2
  <2> QED  BY <2>1, <2>3
<1> QED  BY <1>3, <1>5 DEF Doing

(* The two threads never work on the same buffer. *)
LEMMA Exclusive ==
  ASSUME Inv, NEW t \in Threads, NEW u \in Threads, t # u, Working(t), Working(u)
  PROVE  on[t] # on[u]
<1>1. Working("poll") /\ Working("handler")
  BY DEF Threads
<1>2. ops["handler"] # <<>>
  BY <1>1 DEF Working, Doing, Filling
<1>3. on["poll"] # on["handler"]
  BY <1>1, <1>2 DEF Inv, AloneOK, Alone
<1> QED  BY <1>3 DEF Threads

(* Cells are unstored exactly while the buffer is filled. *)
LEMMA UnstoredFacts ==
  ASSUME Inv, NEW t \in Threads
  PROVE  /\ Unstored(t) \in 0..2
         /\ Doing(t) \in Filling <=> Unstored(t) # 0
<1>1. CASE t = "poll"
  BY <1>1 DEF Unstored
<1>2. CASE t = "handler" /\ ops[t] = <<>>
  BY <1>2 DEF Unstored, Doing, Filling
<1>3. CASE t = "handler" /\ ops[t] # <<>>
  <2>1. PICK n \in 1..11 : n = Len(ops[t]) /\ Doing(t) = HandlerOp(n)
    BY <1>3, HandlerDoes
  <2>2. Unstored(t) = IF n > 8 THEN 2 ELSE IF n > 5 THEN 1 ELSE 0
    BY <1>3, <2>1 DEF Unstored
  <2>3. Doing(t) = HandlerOp(n)
    BY <2>1
  <2> QED  BY <2>2, <2>3 DEF HandlerOp, Filling
<1> QED  BY <1>1, <1>2, <1>3 DEF Threads

(* What a thread does after a step. *)
LEMMA Advance ==
  ASSUME Inv, NEW t \in Threads, ops[t] # <<>>, Done(t)
  PROVE  /\ ops' \in [Threads -> Seq(Steps)]
         /\ ops'[t] = Tail(ops[t])
         /\ \A u \in Threads \ {t} : ops'[u] = ops[u]
         /\ \A asker \in BOOLEAN :
              PollList(ops["poll"], asker) => PollList(ops'["poll"], asker)
         /\ HandlerList(ops'["handler"])
         /\ t = "poll" /\ on["poll"] \in Apart /\ ~ Scanning => Doing(t)' \in PollAfter(Doing(t))
         /\ t = "handler" => /\ Len(ops'[t]) = Len(ops[t]) - 1
                             /\ Doing(t)' = IF Len(ops[t]) = 1 THEN "nothing"
                                            ELSE HandlerOp(Len(ops[t]) - 1)
                             /\ Len(ops'[t]) = 8 /\ Doing(t) = "store" =>
                                  ops'[t][1][2] = "crlf"
<1>0. ops[t] \in Seq(Steps) /\ ops \in [Threads -> Seq(Steps)]
  BY DEF Inv, Types
<1>1. ops[t] \in Seq(Steps) /\ ops \in [Threads -> Seq(Steps)]
      /\ Len(ops[t]) \in Nat \ {0}
  BY <1>0, EmptySeq
<1>n. PICK n \in Nat \ {0} : n = Len(ops[t])
  BY <1>1
<1>2. ops'[t] = Tail(ops[t]) /\ \A u \in Threads \ {t} : ops'[u] = ops[u]
  BY <1>1 DEF Done
<1>3. /\ Tail(ops[t]) \in Seq(Steps)
      /\ IsEnd(Tail(ops[t]), ops[t], 1)
      /\ \A asker \in BOOLEAN : PollList(ops[t], asker) => PollList(Tail(ops[t]), asker)
      /\ HandlerList(ops[t]) => HandlerList(Tail(ops[t]))
  BY <1>1, Rest
<1>4. ops' \in [Threads -> Seq(Steps)]
  BY <1>1, <1>3 DEF Done
<1>5. /\ \A asker \in BOOLEAN :
           PollList(ops["poll"], asker) => PollList(ops'["poll"], asker)
      /\ HandlerList(ops'["handler"])
  BY <1>2, <1>3 DEF Threads, Inv
<1>6. /\ Len(ops'[t]) = Len(ops[t]) - 1
      /\ \A i \in 1..(Len(ops[t]) - 1) : ops'[t][i] = ops[t][i + 1]
  <2>1. IsEnd(ops'[t], ops[t], 1)
    BY <1>2, <1>3
  <2>2. Len(ops'[t]) = Len(ops[t]) - 1
    BY <2>1 DEF IsEnd
  <2> QED  BY <2>1, <2>2 DEF IsEnd
<1>7. Doing(t)' = IF Len(ops[t]) = 1 THEN "nothing" ELSE ops[t][2][1]
  <2>1. CASE Len(ops[t]) = 1
    <3>1. ops'[t] \in Seq(Steps) /\ Len(ops'[t]) = 0
      BY <1>4, <1>6, <2>1
    <3>2. ops'[t] = <<>>
      BY <3>1, EmptySeq
    <3> QED  BY <2>1, <3>2 DEF Doing
  <2>2. CASE Len(ops[t]) # 1
    <3>4. n # 1
      BY <1>n, <2>2
    <3>0. 1 \in 1..(n - 1) /\ 1 + 1 = 2 /\ n - 1 # 0
      BY <3>4
    <3>1. 1 \in 1..(Len(ops[t]) - 1) /\ 1 + 1 = 2 /\ Len(ops'[t]) # 0
      BY <1>n, <1>6, <3>0
    <3>2. ops'[t][1] = ops[t][2]
      BY <1>6, <3>1
    <3>3. ops'[t] # <<>>
      BY <3>1, EmptySeq
    <3> QED  BY <2>2, <3>2, <3>3 DEF Doing
  <2> QED  BY <2>1, <2>2
<1>8. t = "poll" /\ on["poll"] \in Apart /\ ~ Scanning => Doing(t)' \in PollAfter(Doing(t))
  BY <1>7, PollDoes
<1>9. ASSUME t = "handler"
      PROVE  Doing(t)' = IF Len(ops[t]) = 1 THEN "nothing" ELSE HandlerOp(Len(ops[t]) - 1)
  <2>1. CASE Len(ops[t]) = 1
    BY <1>7, <2>1
  <2>2. CASE Len(ops[t]) # 1
    <3>3. n # 1
      BY <1>n, <2>2
    <3>0. 2 \in 1..n /\ n - 2 + 1 = n - 1
      BY <3>3
    <3>1. 2 \in 1..Len(ops[t]) /\ Len(ops[t]) - 2 + 1 = Len(ops[t]) - 1
      BY <1>n, <3>0
    <3>2. ops[t][2][1] = HandlerOp(Len(ops[t]) - 2 + 1)
      BY <1>9, <3>1 DEF Inv, HandlerList
    <3> QED  BY <1>7, <2>2, <3>1, <3>2
  <2> QED  BY <2>1, <2>2
<1>10. ASSUME t = "handler", Len(ops'[t]) = 8
       PROVE  ops'[t][1][2] = "crlf"
  <2>0. n - 1 = 8
    BY <1>n, <1>6, <1>10
  <2>1. Len(ops[t]) = 9
    BY <1>n, <2>0
  <2>2. ops[t][Len(ops[t]) - 7][2] = "crlf" /\ Len(ops[t]) - 7 = 2
    BY <1>10, <2>1 DEF Inv, HandlerList
  <2>3. 1 \in 1..(Len(ops[t]) - 1) /\ 1 + 1 = 2
    BY <2>1
  <2>4. ops'[t][1] = ops[t][2]
    BY <1>6, <2>3
  <2> QED  BY <2>2, <2>4
<1> QED  BY <1>2, <1>4, <1>5, <1>6, <1>8, <1>9, <1>10

(* The three phases of a list: filling, storing, flushing. *)
LEMMA AdvanceFill ==
  ASSUME Inv, NEW t \in Threads, on[t] \in Apart, ~ Scans(t), ops[t] # <<>>, Done(t),
         Doing(t) \in {"copy", "load"}
  PROVE  /\ Doing(t)' = IF Doing(t) = "copy" THEN "load" ELSE "store"
         /\ Unstored(t)' = Unstored(t)
<1>1. CASE t = "poll"
  BY <1>1, Advance DEF PollAfter, Unstored, Filling, Scans
<1>2. CASE t = "handler"
  <2>1. PICK n \in 1..11 : n = Len(ops[t]) /\ Doing(t) = HandlerOp(n)
    BY <1>2, HandlerDoes
  <2>2. Doing(t) = HandlerOp(n)
    BY <2>1
  <2>3. n \in {7, 8, 10, 11}
    BY <2>2 DEF HandlerOp
  <2>4. /\ Len(ops'[t]) = n - 1
        /\ Doing(t)' = IF n = 1 THEN "nothing" ELSE HandlerOp(n - 1)
    BY <1>2, <2>1, Advance
  <2>5. /\ Unstored(t) = IF n > 8 THEN 2 ELSE IF n > 5 THEN 1 ELSE 0
        /\ Unstored(t)' = IF n - 1 > 8 THEN 2 ELSE IF n - 1 > 5 THEN 1 ELSE 0
    BY <1>2, <2>1, <2>4 DEF Unstored
  <2>6. Doing(t)' = IF n = 1 THEN "nothing" ELSE HandlerOp(n - 1)
    BY <2>4
  <2> QED  BY <2>2, <2>3, <2>5, <2>6 DEF HandlerOp
<1> QED  BY <1>1, <1>2 DEF Threads

LEMMA AdvanceStore ==
  ASSUME Inv, NEW t \in Threads, on[t] \in Apart, ~ Scans(t), ops[t] # <<>>, Done(t),
         Doing(t) = "store"
  PROVE  /\ Unstored(t) \in {1, 2} /\ Unstored(t)' = Unstored(t) - 1
         /\ \/ t = "poll" /\ Unstored(t) = 1 /\ ~ Working(t)'
            \/ t = "handler" /\ Unstored(t) = 1 /\ Doing(t)' = "test"
            \/ /\ t = "handler" /\ Unstored(t) = 2
               /\ Doing(t)' = "copy" /\ ops'[t][1][2] = "crlf"
<1>1. CASE t = "poll"
  BY <1>1, Advance DEF PollAfter, Unstored, Filling, Working, Scans
<1>2. CASE t = "handler"
  <2>1. PICK n \in 1..11 : n = Len(ops[t]) /\ Doing(t) = HandlerOp(n)
    BY <1>2, HandlerDoes
  <2>2. Doing(t) = HandlerOp(n)
    BY <2>1
  <2>3. n \in {6, 9}
    BY <2>2 DEF HandlerOp
  <2>4. /\ Len(ops'[t]) = n - 1
        /\ Doing(t)' = IF n = 1 THEN "nothing" ELSE HandlerOp(n - 1)
    BY <1>2, <2>1, Advance
  <2>5. /\ Unstored(t) = IF n > 8 THEN 2 ELSE IF n > 5 THEN 1 ELSE 0
        /\ Unstored(t)' = IF n - 1 > 8 THEN 2 ELSE IF n - 1 > 5 THEN 1 ELSE 0
    BY <1>2, <2>1, <2>4 DEF Unstored
  <2>6. Doing(t)' = IF n = 1 THEN "nothing" ELSE HandlerOp(n - 1)
    BY <2>4
  <2>7. n = 9 => ops'[t][1][2] = "crlf"
    BY <1>2, <2>4, Advance
  <2> QED  BY <1>2, <2>3, <2>5, <2>6, <2>7 DEF HandlerOp
<1> QED  BY <1>1, <1>2 DEF Threads

LEMMA AdvanceFlush ==
  ASSUME Inv, NEW t \in Threads, on[t] \in Apart, ~ Scans(t), ops[t] # <<>>, Done(t),
         Doing(t) \in {"test", "write", "zero", "zerooff"}
  PROVE  /\ Unstored(t) = 0 /\ Unstored(t)' = 0
         /\ Doing(t) = "test" => Doing(t)' = "write"
         /\ Doing(t) = "write" => Doing(t)' = "zero"
         /\ Doing(t) = "zero" => Doing(t)' \in {"zero", "zerooff"}
         /\ Doing(t) = "zerooff" => ~ Working(t)'
<1>1. CASE t = "poll"
  BY <1>1, Advance DEF PollAfter, Unstored, Filling, Working, Scans
<1>2. CASE t = "handler"
  <2>1. PICK n \in 1..11 : n = Len(ops[t]) /\ Doing(t) = HandlerOp(n)
    BY <1>2, HandlerDoes
  <2>2. Doing(t) = HandlerOp(n)
    BY <2>1
  <2>3. n \in 1..5
    BY <2>2 DEF HandlerOp
  <2>4. /\ Len(ops'[t]) = n - 1
        /\ Doing(t)' = IF n = 1 THEN "nothing" ELSE HandlerOp(n - 1)
    BY <1>2, <2>1, Advance
  <2>5. /\ Unstored(t) = IF n > 8 THEN 2 ELSE IF n > 5 THEN 1 ELSE 0
        /\ Unstored(t)' = IF n - 1 > 8 THEN 2 ELSE IF n - 1 > 5 THEN 1 ELSE 0
    BY <1>2, <2>1, <2>4 DEF Unstored
  <2>6. Doing(t)' = IF n = 1 THEN "nothing" ELSE HandlerOp(n - 1)
    BY <2>4
  <2> QED  BY <2>2, <2>3, <2>5, <2>6 DEF HandlerOp, Working, Filling
<1> QED  BY <1>1, <1>2 DEF Threads

-----------------------------------------------------------------------------
(* What a step leaves alone *)

LEMMA CommandedType ==
  ASSUME Types, NEW c \in Clients
  PROVE  Commanded(c) \in Seq(Commands) /\ Len(Commanded(c)) \in Nat
<1>1. buf[c] \in Seq(Commands) /\ inbox[c] \in Seq(Commands) /\ script[c] \in Seq(Commands)
  BY DEF Types
<1>2. Commanded(c) \in Seq(Commands)
  BY <1>1, Moves DEF Commanded
<1> QED  BY <1>2, LenProperties

(* Nothing more is to be executed for c than before. *)
NoMoreCommands(c) ==
  /\ Len(Commanded(c)') <= Len(Commanded(c))
  /\ MgetAhead(c)' => MgetAhead(c)
  /\ KeysAhead(c)' => KeysAhead(c)

(* What c is owed adds up as before. *)
SameReplies(c) ==
  /\ output'[c] = output[c] /\ len'[c] = len[c] /\ offset'[c] = offset[c]
  /\ owed'[c] = owed[c]
  /\ \A f, k : AddsUp(c, f, k) => AddsUp(c, f, k)'

LEMMA SameRepliesIfUnchanged ==
  ASSUME NEW c, output'[c] = output[c], len'[c] = len[c], offset'[c] = offset[c],
         owed'[c] = owed[c], wire'[c] = wire[c], seen'[c] = seen[c]
  PROVE  SameReplies(c)
  BY DEF SameReplies, AddsUp

LEMMA NoMoreCommandsIfUnchanged ==
  ASSUME NEW c \in Clients, Types, Commanded(c)' = Commanded(c)
  PROVE  NoMoreCommands(c)
  BY CommandedType DEF NoMoreCommands, MgetAhead, KeysAhead

LEMMA StillAtWork ==
  ASSUME Inv, Types', NEW u \in Threads, AtWork(u),
         ops'[u] = ops[u], on'[u] = on[u], reg'[u] = reg[u],
         SameReplies(on[u]), NoMoreCommands(on[u])
  PROVE  AtWork(u)'
<1>1. Doing(u)' = Doing(u) /\ Unstored(u)' = Unstored(u) /\ Scans(u)' = Scans(u)
  BY DEF Doing, Unstored, Scans, Scanning
<1>2. Sent(u)' = Sent(u) /\ NextCell(u)' = NextCell(u)
  BY <1>1 DEF Sent, NextCell, SameReplies
<1>3. AddsUp(on[u], Sent(u), Unstored(u))'
  BY <1>1, <1>2 DEF SameReplies, AtWork
<1>4. on[u] \in Clients /\ len[on[u]] \in Nat /\ Unstored(u) \in 0..2
      /\ Len(Commanded(on[u])) \in Nat
  BY CommandedType, UnstoredFacts DEF Inv, Types
<1>5. Len(Commanded(on[u])') \in Nat
  <2>1. Commanded(on[u])' \in Seq(Commands)
    <3>1. /\ buf'[on[u]] \in Seq(Commands) /\ inbox'[on[u]] \in Seq(Commands)
          /\ script'[on[u]] \in Seq(Commands)
      BY <1>4 DEF Types
    <3> QED  BY <3>1, Moves DEF Commanded
  <2> QED  BY <2>1, LenProperties
<1>6. IF on'[u] \in Askers THEN /\ len'[on'[u]] + Unstored(u)' <= 3
                                /\ u = "poll" => len'[on'[u]] = 0
      ELSE Scans(u)' \/ len'[on'[u]] + Unstored(u)' + Len(Commanded(on[u])') <= MaxScript + Filler
  <2>1. MaxScript \in Nat /\ Filler \in Nat
    BY ReplyPathAssumption, Zenon
  <2> QED  BY <1>1, <1>4, <1>5, <2>1 DEF AtWork, SameReplies, NoMoreCommands
<1>7. Scans(u) => AtScan(u)'
  <2>1. MaxScript \in Nat
    BY ReplyPathAssumption, Zenon
  <2>2. ScanRest(u)' = ScanRest(u)
    BY <1>1 DEF ScanRest
  <2> QED  BY <1>2, <1>4, <1>5, <2>1, <2>2 DEF AtWork, AtScan, SameReplies, NoMoreCommands
<1> QED  BY <1>1, <1>2, <1>3, <1>6, <1>7 DEF AtWork, SameReplies

LEMMA StillAtRest ==
  ASSUME Inv, Types', NEW c \in Clients, AtRest(c), SameReplies(c), NoMoreCommands(c)
  PROVE  AtRest(c)'
<1>1. len[c] \in Nat /\ Len(Commanded(c)) \in Nat
  BY CommandedType DEF Inv, Types
<1>2. Len(Commanded(c)') \in Nat
  <2>1. /\ buf'[c] \in Seq(Commands) /\ inbox'[c] \in Seq(Commands)
        /\ script'[c] \in Seq(Commands)
    BY DEF Types
  <2>2. Commanded(c)' \in Seq(Commands)
    BY <2>1, Moves DEF Commanded
  <2> QED  BY <2>2, LenProperties
<1>3. MaxScript \in Nat /\ Filler \in Nat
  BY ReplyPathAssumption, Zenon
<1>4. c \notin Askers => len'[c] + Len(Commanded(c)') <= MaxScript + Filler
  BY <1>1, <1>2, <1>3 DEF AtRest, SameReplies, NoMoreCommands
<1>5. c \in Askers => offset'[c] = 0 /\ len'[c] <= 1 /\ (MgetAhead(c)' => len'[c] = 0)
  BY DEF AtRest, SameReplies, NoMoreCommands
<1> QED  BY <1>4, <1>5 DEF AtRest, SameReplies

(* No thread touches a buffer or stops doing so. *)
LEMMA NoBufferTouched ==
  ASSUME Inv, Types',
         \A c \in Apart : SameReplies(c) /\ NoMoreCommands(c),
         \A t \in Threads :
           \/ ~ Working(t) /\ ~ Working(t)'
           \/ ops'[t] = ops[t] /\ on'[t] = on[t] /\ reg'[t] = reg[t]
  PROVE  BuffersOK'
<1>1. ASSUME NEW t \in Threads
      PROVE  Working(t)' = Working(t) /\ (Working(t) => on'[t] = on[t])
  BY DEF Working, Doing
<1>2. ASSUME NEW t \in Threads, Working(t)' PROVE AtWork(t)'
  <2>1. Working(t) /\ AtWork(t) /\ on[t] \in Apart
    BY <1>1, <1>2 DEF Inv, BuffersOK, Working
  <2>2. ops'[t] = ops[t] /\ on'[t] = on[t] /\ reg'[t] = reg[t]
    BY <2>1
  <2> QED  BY <2>1, <2>2, StillAtWork
<1>3. ASSUME NEW c \in Apart, ~ Touched(c)' PROVE AtRest(c)'
  <2>1. ~ Touched(c)
    BY <1>1, <1>3 DEF Touched
  <2> QED  BY <2>1, StillAtRest DEF Inv, BuffersOK
<1> QED  BY <1>2, <1>3 DEF BuffersOK

(* Thread t takes a step on the buffer of c, which is its own. *)
LEMMA OneBufferTouched ==
  ASSUME Inv, Types', NEW t \in Threads, NEW c \in Apart,
         \A u \in Threads \ {t} :
           ops'[u] = ops[u] /\ on'[u] = on[u] /\ reg'[u] = reg[u]
                            /\ (Working(u) => on[u] # c),
         on'[t] = c, Working(t) => on[t] = c,
         \A d \in Apart \ {c} : SameReplies(d) /\ NoMoreCommands(d),
         Working(t)' => AtWork(t)',
         ~ Working(t)' => AtRest(c)'
  PROVE  BuffersOK'
<1>1. ASSUME NEW u \in Threads \ {t} PROVE Working(u)' = Working(u)
  BY DEF Working, Doing
<1>2. ASSUME NEW u \in Threads, Working(u)' PROVE AtWork(u)'
  <2>1. CASE u = t
    BY <1>2, <2>1
  <2>2. CASE u # t
    <3>1. /\ Working(u) /\ AtWork(u) /\ on[u] \in Apart \ {c}
          /\ ops'[u] = ops[u] /\ on'[u] = on[u] /\ reg'[u] = reg[u]
      BY <1>1, <1>2, <2>2 DEF Inv, BuffersOK, Working
    <3> QED  BY <3>1, StillAtWork
  <2> QED  BY <2>1, <2>2
<1>3. ASSUME NEW d \in Apart, ~ Touched(d)' PROVE AtRest(d)'
  <2>1. CASE d = c
    BY <1>3, <2>1 DEF Touched
  <2>2. CASE d # c
    <3>1. ~ Touched(d)
      BY <1>1, <1>3, <2>2 DEF Touched
    <3> QED  BY <2>2, <3>1, StillAtRest DEF Inv, BuffersOK
  <2> QED  BY <2>1, <2>2
<1> QED  BY <1>2, <1>3 DEF BuffersOK

(* Who is alone with a buffer stays so unless the engine, end_req_Q or the *)
(* commands change or the poll thread begins to fill an asker's buffer.    *)
LEMMA StillAlone ==
  ASSUME Inv, UNCHANGED <<reading, queue, on>>,
         \A c \in Apart : Commanded(c)' = Commanded(c),
         ops["handler"] = <<>> => ops'["handler"] = <<>>,
         on["poll"] \in Askers =>
           /\ Working("poll")' => Working("poll")
           /\ Doing("poll")' \in Filling \cup {"read"} =>
                Doing("poll") \in Filling \cup {"read"}
  PROVE  AloneOK'
<1>1. \A c \in Apart : Alone(c) => Alone(c)'
  BY DEF Alone
<1>2. \A c \in Apart : MgetAhead(c)' = MgetAhead(c)
  BY DEF MgetAhead
<1>3. /\ on["poll"] \in Askers => on["poll"] \in Apart
      /\ Working("poll")' => on["poll"] \in Apart
  BY DEF Askers, Apart, Working
<1> QED  BY <1>1, <1>2, <1>3 DEF Inv, AloneOK

(* Who has still to list keys has an empty buffer as long as nobody works  *)
(* on it.                                                                  *)
LEMMA StillEmpty ==
  ASSUME Inv,
         \A c \in Apart : KeysAhead(c)' =>
           /\ KeysAhead(c)
           /\ valid'[c] = valid[c] /\ len'[c] = len[c] /\ offset'[c] = offset[c]
           /\ on'["poll"] = c => Doing("poll")' \in {"nothing", "next", "valid?", "close"}
  PROVE  KeysOK'
  BY Zenon DEF Inv, KeysOK

LEMMA WorkNoKeys ==
  ASSUME Inv, NEW t \in Threads, Working(t)
  PROVE  ~ KeysAhead(on[t])
<1>1. on[t] \in Apart /\ ops[t] # <<>>
  BY DEF Working, Doing, Filling
<1>2. CASE t = "poll"
  BY <1>1, <1>2 DEF Inv, KeysOK, Working, Filling
<1>3. CASE t = "handler"
  <2>1. on[t] \in Askers
    BY <1>1, <1>3 DEF Inv, AloneOK, Alone
  <2>2. Asks(Commanded(on[t]))
    BY <1>1, <2>1 DEF Inv, CommandsOK
  <2> QED  BY <2>2 DEF Asks, Before, Asking, KeysAhead
<1> QED  BY <1>2, <1>3 DEF Threads

(* Other lists than that of exec_scan_keys have no header. *)
LEMMA NoHeader ==
  ASSUME PollList(ops["poll"], on["poll"] \in Askers)
  PROVE  ~ Scanning /\ PollOK
<1>1. ~ Scanning
  BY DEF Scanning, PollList, PollAfter
<1> QED  BY <1>1 DEF PollOK

LEMMA NoHeaderNext ==
  ASSUME PollList(ops'["poll"], on'["poll"] \in Askers)
  PROVE  ~ Scanning' /\ PollOK'
<1>1. ~ Scanning'
  BY DEF Scanning, PollList, PollAfter
<1> QED  BY <1>1 DEF PollOK, Askers

(* The parts of the invariant that are not about the buffers, when a       *)
(* thread takes a step of its list.                                        *)
LEMMA StepOfList ==
  ASSUME Inv, NEW t \in Threads, on[t] \in Apart, ~ Scans(t), ops[t] # <<>>, Done(t),
         UNCHANGED <<reading, queue, on, buf, inbox, script>>,
         \A c \in Askers : valid'[c] = valid[c]
  PROVE  /\ PollOK' /\ ~ Scans(t)'
         /\ HandlerList(ops["handler"])'
         /\ CommandsOK'
         /\ AloneOK'
<1>1. PollOK' /\ ~ Scans(t)' /\ HandlerList(ops["handler"])'
  <2>1. /\ PollList(ops["poll"], on["poll"] \in Askers)
           => PollList(ops'["poll"], on["poll"] \in Askers)
        /\ HandlerList(ops'["handler"])
    <3>1. (on["poll"] \in Askers) \in BOOLEAN
      OBVIOUS
    <3> QED  BY <3>1, Advance, Zenon
  <2>2. on'["poll"] = on["poll"]
    OBVIOUS
  <2>0. CASE on["poll"] \notin Apart
    BY <2>0, <2>1, <2>2 DEF PollOK, Scans, Scanning
  <2>3. CASE on["poll"] \in Apart /\ ~ Scanning
    <3>1. PollList(ops'["poll"], on'["poll"] \in Askers)
      BY <2>1, <2>2, <2>3 DEF Inv, PollOK
    <3> QED  BY <2>1, <3>1, NoHeaderNext DEF Scans
  <2>4. CASE Scanning
    <3>1. t = "handler"
      BY <2>4 DEF Scans, Threads
    <3>2. ops'["poll"] = ops["poll"]
      BY <3>1, Advance DEF Threads
    <3>3. Scanning' /\ ScanList(ops'["poll"]) /\ on'["poll"] \notin Askers
      BY <2>2, <2>4, <3>2 DEF Scanning, Inv, PollOK
    <3> QED  BY <2>1, <3>1, <3>3 DEF PollOK, Askers, Scans
  <2> QED  BY <2>0, <2>3, <2>4
<1>2. \A c \in Clients : Commanded(c)' = Commanded(c)
  BY DEF Commanded
<1>3. CommandsOK'
  BY <1>2 DEF Inv, CommandsOK, Askers
<1>6. UNCHANGED <<reading, queue, on>>
  OBVIOUS
<1>4. ASSUME t = "poll" PROVE AloneOK'
  <2>1. Doing("poll")' \in PollAfter(Doing("poll")) /\ ops'["handler"] = ops["handler"]
    BY <1>4, Advance DEF Threads, Scans
  <2>2. /\ Working("poll")' => Working("poll")
        /\ Doing("poll")' \in Filling \cup {"read"} =>
             Doing("poll") \in Filling \cup {"read"}
    BY <2>1 DEF PollAfter, Working, Filling
  <2>3. ops["handler"] = <<>> => ops'["handler"] = <<>>
    BY <2>1
  <2> QED  BY <1>2, <1>6, <2>2, <2>3, StillAlone, Zenon
<1>5. ASSUME t = "handler" PROVE AloneOK'
  <2>1. ops'["poll"] = ops["poll"]
    BY <1>5, Advance DEF Threads
  <2>2. Working("poll")' = Working("poll") /\ Doing("poll")' = Doing("poll")
    BY <2>1 DEF Working, Doing
  <2>3. ops["handler"] = <<>> => ops'["handler"] = <<>>
    BY <1>5
  <2> QED  BY <1>2, <1>6, <2>2, <2>3, StillAlone, Zenon
<1> QED  BY <1>1, <1>3, <1>4, <1>5 DEF Threads

-----------------------------------------------------------------------------
(* The steps of either thread *)

ListsOK ==
  /\ PollOK
  /\ HandlerList(ops["handler"])
  /\ CommandsOK
  /\ AloneOK

(* A thread at work: its client is its own, and the buffer has room. *)
LEMMA WorkFacts ==
  ASSUME Inv, NEW t \in Threads, Working(t)
  PROVE  /\ on[t] \in Clients /\ ops[t] # <<>> /\ AtWork(t)
         /\ \A u \in Threads \ {t} : Working(u) => on[u] # on[t]
         /\ len[on[t]] \in Nat /\ 0..len[on[t]] \subseteq Cells
<1>1. on[t] \in Clients /\ ops[t] # <<>> /\ AtWork(t) /\ len[on[t]] \in Nat
  BY DEF Inv, Types, BuffersOK, Working, Doing, Filling
<1>2. \A u \in Threads \ {t} : Working(u) => on[u] # on[t]
  BY Exclusive
<1>3. 0..len[on[t]] \subseteq Cells
  <2>1. Unstored(t) \in 0..2 /\ Len(Commanded(on[t])) \in Nat
        /\ MaxScript \in Nat /\ Filler \in Nat
    <3>1. MaxScript \in Nat /\ Filler \in Nat
      BY ReplyPathAssumption, Zenon
    <3> QED  BY <1>1, <3>1, UnstoredFacts, CommandedType DEF Inv
  <2>2. CASE on[t] \in Askers
    <3>1. len[on[t]] <= 3
      BY <1>1, <2>1, <2>2 DEF AtWork
    <3>2. 0..len[on[t]] \subseteq 0..3
      BY <1>1, <3>1
    <3> QED  BY <3>2, Room
  <2>3. CASE on[t] \notin Askers
    <3>1. len[on[t]] <= MaxScript + Filler
      <4>1. CASE Scans(t)
        <5>1. Len(ops[t]) + ScanRest(t) = 3 * (Filler - len[on[t]]) + 2
          BY <1>1, <4>1 DEF AtWork, AtScan
        <5>2. ScanRest(t) \in 0..2
          BY DEF ScanRest
        <5>3. Len(ops[t]) \in Nat
          BY DEF Inv, Types
        <5> QED  BY <1>1, <2>1, <5>1, <5>2, <5>3
      <4>2. CASE ~ Scans(t)
        BY <1>1, <2>1, <2>3, <4>2 DEF AtWork
      <4> QED  BY <4>1, <4>2
    <3>2. 0..len[on[t]] \subseteq 0..(MaxScript + Filler)
      BY <1>1, <2>1, <3>1
    <3> QED  BY <3>2, Room
  <2> QED  BY <2>2, <2>3
<1> QED  BY <1>1, <1>2, <1>3

(* A step on the buffer of the thread's client. *)
LEMMA WorkStep ==
  ASSUME Inv, Types', ListsOK', NEW t \in Threads, Working(t),
         UNCHANGED <<on, buf, inbox, script, seen, owed, valid>>,
         \A u \in Threads \ {t} : ops'[u] = ops[u] /\ reg'[u] = reg[u],
         \A d \in Clients \ {on[t]} :
           /\ output'[d] = output[d] /\ len'[d] = len[d]
           /\ offset'[d] = offset[d] /\ wire'[d] = wire[d],
         Working(t)' => AtWork(t)',
         ~ Working(t)' => AtRest(on[t])'
  PROVE  Inv'
<1>1. on[t] \in Apart /\ \A u \in Threads \ {t} : Working(u) => on[u] # on[t]
  BY WorkFacts DEF Working
<1>2. \A u \in Threads \ {t} : ops'[u] = ops[u] /\ on'[u] = on[u] /\ reg'[u] = reg[u]
                               /\ (Working(u) => on[u] # on[t])
  BY <1>1
<1>3. \A d \in Clients : Commanded(d)' = Commanded(d)
  BY DEF Commanded
<1>4. \A d \in Clients \ {on[t]} : SameReplies(d) /\ NoMoreCommands(d)
  <2>1. SUFFICES ASSUME NEW d \in Clients \ {on[t]}
                 PROVE  SameReplies(d) /\ NoMoreCommands(d)
    OBVIOUS
  <2>2. output'[d] = output[d] /\ len'[d] = len[d] /\ owed'[d] = owed[d]
        /\ offset'[d] = offset[d] /\ wire'[d] = wire[d] /\ seen'[d] = seen[d]
    OBVIOUS
  <2>3. SameReplies(d)
    BY <2>2, SameRepliesIfUnchanged
  <2>4. NoMoreCommands(d)
    BY <1>3, NoMoreCommandsIfUnchanged DEF Inv
  <2> QED  BY <2>3, <2>4
<1>5. on'[t] = on[t]
  OBVIOUS
<1>6. BuffersOK'
  BY <1>1, <1>2, <1>4, <1>5, OneBufferTouched
<1>7. KeysOK'
  <2>1. ASSUME NEW d \in Apart, KeysAhead(d)'
        PROVE  /\ KeysAhead(d)
               /\ valid'[d] = valid[d] /\ len'[d] = len[d] /\ offset'[d] = offset[d]
               /\ on'["poll"] = d => Doing("poll")' \in {"nothing", "next", "valid?", "close"}
    <3>1. KeysAhead(d)
      BY <1>3, <2>1 DEF KeysAhead
    <3>2. d # on[t]
      BY <3>1, WorkNoKeys
    <3>3. on["poll"] = d => ops'["poll"] = ops["poll"]
      BY <3>2 DEF Threads
    <3>4. on["poll"] = d => Doing("poll")' \in {"nothing", "next", "valid?", "close"}
      BY <3>1, <3>3 DEF Inv, KeysOK, Doing
    <3> QED  BY <3>1, <3>2, <3>4
  <2> QED  BY <2>1, StillEmpty
<1> QED  BY <1>6, <1>7 DEF Inv, ListsOK

(* Filling a cell. *)
LEMMA CopyKeeps ==
  ASSUME Inv, NEW t \in Threads, on[t] \in Apart, Copy(t), ~ Scans(t)
  PROVE  Inv'
<1> DEFINE c == on[t]
<1>1. Doing(t) = "copy" /\ ops[t] # <<>> /\ Working(t)
  <2>1. Types /\ At(t, "copy")
    BY DEF Copy, Inv
  <2> QED  BY <2>1, AtDoing DEF Working, Filling
<1>2. /\ c \in Clients /\ AtWork(t) /\ len[c] \in Nat /\ 0..len[c] \subseteq Cells
      /\ output[c] \in [Cells -> Symbols] /\ len[c] \in Cells
  <2>1. c \in Clients /\ AtWork(t) /\ len[c] \in Nat /\ 0..len[c] \subseteq Cells
    BY <1>1, WorkFacts
  <2>2. len[c] \in 0..len[c]
    BY <2>1
  <2> QED  BY <2>1, <2>2 DEF Inv, Types
<1>3. /\ ops[t][1][2] = NextCell(t) /\ Unstored(t) \in {1, 2}
      /\ AddsUp(c, offset[c], Unstored(t))
  <2>1. Unstored(t) \in {1, 2}
    BY <1>1, UnstoredFacts DEF Filling
  <2> QED  BY <1>1, <1>2, <2>1 DEF AtWork, Sent
<1>4. NextCell(t) \in Symbols
  <2>1. owed[c] \in Seq(Symbols) /\ seen[c] \in Seq(Symbols) /\ wire[c] \in Seq(Symbols)
    BY <1>2 DEF Inv, Types
  <2> QED  BY <1>2, <1>3, <2>1, AddsLast DEF AddsUp, NextCell
<1>5. /\ output' = [output EXCEPT ![c][len[c]] = NextCell(t)]
      /\ Done(t)
      /\ UNCHANGED <<inbox, seen, script, due, buf, len, offset, valid, open, reading,
                     queue, on, reg, wire, owed>>
  <2>1. ops[t] \in Seq(Steps)
    BY DEF Inv, Types
  <2>2. Head(ops[t])[2] = NextCell(t)
    BY <1>1, <1>3, <2>1
  <2> QED  BY <2>2 DEF Copy, peer
<1>6. /\ output'[c] = [output[c] EXCEPT ![len[c]] = NextCell(t)]
      /\ \A d \in Clients \ {c} : output'[d] = output[d]
      /\ output' \in [Clients -> [Cells -> Symbols]]
  BY <1>2, <1>4, <1>5 DEF Inv, Types
<1>7. ListsOK' /\ ~ Scans(t)' /\ ops' \in [Threads -> Seq(Steps)]
      /\ \A u \in Threads \ {t} : ops'[u] = ops[u]
  BY <1>1, <1>5, StepOfList, Advance DEF ListsOK
<1>8. Types'
  BY <1>5, <1>6, <1>7 DEF Inv, Types
<1>9. Doing(t)' = "load" /\ Unstored(t)' = Unstored(t)
  BY <1>1, <1>5, AdvanceFill
<1>10. AtWork(t)'
  <2>1. NextCell(t)' = NextCell(t)
    BY <1>5, <1>9 DEF NextCell
  <2>2. /\ AddsUp(c, offset[c], Unstored(t))'
        /\ output'[c][len'[c]] = NextCell(t)
    <3>1. owed[c] \in Seq(Symbols) /\ seen[c] \in Seq(Symbols) /\ wire[c] \in Seq(Symbols)
      BY <1>2 DEF Inv, Types
    <3>2. Adds(seen[c], wire[c], owed[c], output[c], len[c], offset[c], Unstored(t))
          /\ Unstored(t) \in Nat
      BY <1>3 DEF AddsUp
    <3>3. /\ Adds(seen[c], wire[c], owed[c], [output[c] EXCEPT ![len[c]] = NextCell(t)],
                  len[c], offset[c], Unstored(t))
          /\ [output[c] EXCEPT ![len[c]] = NextCell(t)][len[c]] = NextCell(t)
      <4> HIDE DEF c
      <4> QED  BY <1>2, <3>1, <3>2, AddsCopy, Zenon
    <3>4. /\ Adds(seen[c], wire[c], owed[c], output'[c], len[c], offset[c], Unstored(t))
          /\ output'[c][len[c]] = NextCell(t)
      BY <1>6, <3>3
    <3> QED  BY <1>5, <1>9, <3>4 DEF AddsUp
  <2>3. Sent(t)' = offset[c] /\ on'[t] = c
    BY <1>5, <1>7, <1>9 DEF Sent
  <2>4. Commanded(c)' = Commanded(c)
    BY <1>5 DEF Commanded
  <2> QED  BY <1>2, <1>5, <1>7, <1>9, <2>1, <2>2, <2>3, <2>4 DEF AtWork
<1>11. Working(t)'
  BY <1>5, <1>9 DEF Working, Filling
<1> QED  BY <1>1, <1>5, <1>6, <1>7, <1>8, <1>10, <1>11, WorkStep

(* Loading output_len. *)
LEMMA LoadKeeps ==
  ASSUME Inv, NEW t \in Threads, on[t] \in Apart, Load(t), ~ Scans(t)
  PROVE  Inv'
<1> DEFINE c == on[t]
<1>1. Doing(t) = "load" /\ ops[t] # <<>> /\ Working(t)
  <2>1. Types /\ At(t, "load")
    BY DEF Load, Inv
  <2> QED  BY <2>1, AtDoing DEF Working, Filling
<1>2. c \in Clients /\ AtWork(t) /\ len[c] \in Nat
  BY <1>1, WorkFacts
<1>3. /\ reg' = [reg EXCEPT ![t].tmp = len[c] + 1]
      /\ Done(t)
      /\ UNCHANGED <<inbox, seen, script, due, buf, output, len, offset, valid, open,
                     reading, queue, on, wire, owed>>
  BY DEF Load, peer, client
<1>4. /\ reg'[t].tmp = len[c] + 1
      /\ \A u \in Threads \ {t} : reg'[u] = reg[u]
      /\ reg' \in [Threads -> Locals]
  <2>1. reg \in [Threads -> Locals] /\ reg[t] \in Locals
    BY DEF Inv, Types
  <2>2. reg' = [reg EXCEPT ![t] = [reg[t] EXCEPT !.tmp = len[c] + 1]]
    BY <1>3, <2>1
  <2>3. /\ [reg[t] EXCEPT !.tmp = len[c] + 1] \in Locals
        /\ [reg[t] EXCEPT !.tmp = len[c] + 1].tmp = len[c] + 1
    BY <1>2, <2>1 DEF Locals
  <2> QED  BY <2>1, <2>2, <2>3
<1>5. ListsOK' /\ ~ Scans(t)' /\ ops' \in [Threads -> Seq(Steps)]
      /\ \A u \in Threads \ {t} : ops'[u] = ops[u]
  BY <1>1, <1>3, StepOfList, Advance DEF ListsOK
<1>6. Types'
  BY <1>3, <1>4, <1>5 DEF Inv, Types
<1>7. Doing(t)' = "store" /\ Unstored(t)' = Unstored(t)
  BY <1>1, <1>3, AdvanceFill
<1>8. AtWork(t)'
  <2>1. NextCell(t)' = NextCell(t)
    BY <1>3, <1>7 DEF NextCell
  <2>2. AddsUp(c, offset[c], Unstored(t))'
    BY <1>1, <1>2, <1>3, <1>7 DEF AtWork, AddsUp, Sent
  <2>3. Sent(t)' = offset[c] /\ on'[t] = c /\ Commanded(c)' = Commanded(c)
    BY <1>3, <1>5, <1>7 DEF Sent, Commanded
  <2> QED  BY <1>1, <1>2, <1>3, <1>4, <1>5, <1>7, <2>1, <2>2, <2>3 DEF AtWork
<1>9. Working(t)'
  BY <1>3, <1>7 DEF Working, Filling
<1> QED  BY <1>1, <1>3, <1>4, <1>5, <1>6, <1>8, <1>9, WorkStep

LEMMA NoLocalsType == NoLocals \in Locals
  BY DEF NoLocals, Locals

(* output_len is stored. *)
LEMMA LenStored ==
  ASSUME Types, NEW t \in Threads, NEW c \in Clients, NEW n \in Nat,
         len' = [len EXCEPT ![c] = n], reg' = [reg EXCEPT ![t] = NoLocals]
  PROVE  /\ len'[c] = n /\ len' \in [Clients -> Nat]
         /\ \A d \in Clients \ {c} : len'[d] = len[d]
         /\ reg' \in [Threads -> Locals]
         /\ \A u \in Threads \ {t} : reg'[u] = reg[u]
<1>1. len \in [Clients -> Nat] /\ reg \in [Threads -> Locals]
  BY DEF Types
<1>2. /\ len'[c] = n /\ len' \in [Clients -> Nat]
      /\ \A d \in Clients \ {c} : len'[d] = len[d]
  BY <1>1
<1>3. reg' \in [Threads -> Locals] /\ \A u \in Threads \ {t} : reg'[u] = reg[u]
  BY <1>1, NoLocalsType
<1> QED  BY <1>2, <1>3

(* The parts of AtWork for a thread that flushes. *)
LEMMA FlushAtWork ==
  ASSUME NEW t \in Threads, NEW c \in Apart, NEW f, on'[t] = c, Sent(t)' = f, ~ Scans(t)',
         Doing(t)' \in {"test", "write", "zero", "zerooff"},
         Unstored(t)' = 0, AddsUp(c, f, 0)',
         Doing(t)' = "write" => /\ reg'[t].sent + offset'[c] = reg'[t].off
                                /\ reg'[t].size + offset'[c] = len'[c]
                                /\ reg'[t].n \in {0, len'[c] - reg'[t].off},
         Doing(t)' = "test" =>
           offset'[c] = 0 \/ (ops'[t][1][2] = "own" /\ ops'[t][4][1] = "zero"),
         Doing(t)' = "zerooff" => len'[c] = 0,
         c \in Askers => len'[c] + 0 <= 3 /\ offset'[c] = 0 /\ (t = "poll" => len'[c] = 0),
         c \notin Askers => len'[c] + 0 + Len(Commanded(c)') <= MaxScript + Filler
  PROVE  AtWork(t)' /\ Working(t)'
<1>1. AddsUp(on[t], Sent(t), Unstored(t))'
  BY DEF AddsUp
<1>2. Working(t)'
  BY DEF Working
<1> QED  BY <1>1, <1>2 DEF AtWork

(* The end of += : the cell becomes part of the buffer. *)
LEMMA StoreKeeps ==
  ASSUME Inv, NEW t \in Threads, on[t] \in Apart, SetLen(t), At(t, "store"), ~ Scans(t)
  PROVE  Inv'
<1>1. Doing(t) = "store" /\ ops[t] # <<>> /\ Working(t) /\ Types
  <2>1. Types
    BY DEF Inv
  <2> QED  BY <2>1, AtDoing DEF Working, Filling
<1>0. PICK c \in Apart : c = on[t]
  BY <1>1 DEF Types
<1>2. /\ AtWork(t) /\ len[c] \in Nat
      /\ Len(Commanded(c)) \in Nat /\ MaxScript \in Nat /\ Filler \in Nat
  <2>1. MaxScript \in Nat /\ Filler \in Nat
    BY ReplyPathAssumption, Zenon
  <2> QED  BY <1>0, <1>1, <2>1, WorkFacts, CommandedType DEF Inv
<1>3. reg[t].tmp = len[c] + 1 /\ AddsUp(c, offset[c], Unstored(t))
      /\ output[c][len[c]] = NextCell(t)
  BY <1>0, <1>1, <1>2 DEF AtWork, Sent
<1>4. /\ len' = [len EXCEPT ![c] = len[c] + 1]
      /\ reg' = [reg EXCEPT ![t] = NoLocals]
      /\ Done(t)
      /\ UNCHANGED <<inbox, seen, script, due, buf, output, offset, valid, open,
                     reading, queue, on, wire, owed>>
  <2>1. ~ At(t, "zero")
    BY DEF At
  <2> QED  BY <1>0, <1>3, <2>1 DEF SetLen, peer
<1>5. /\ len'[c] = len[c] + 1 /\ len' \in [Clients -> Nat]
      /\ \A d \in Clients \ {c} : len'[d] = len[d]
      /\ reg' \in [Threads -> Locals]
      /\ \A u \in Threads \ {t} : reg'[u] = reg[u]
  <2>1. len[c] + 1 \in Nat
    BY <1>2
  <2> QED  BY <1>1, <1>4, <2>1, LenStored
<1>6. ListsOK' /\ ~ Scans(t)' /\ ops' \in [Threads -> Seq(Steps)]
      /\ \A u \in Threads \ {t} : ops'[u] = ops[u]
  BY <1>1, <1>4, StepOfList, Advance DEF ListsOK
<1>7. Types'
  BY <1>4, <1>5, <1>6 DEF Inv, Types
<1>8. /\ Unstored(t) \in {1, 2} /\ Unstored(t)' = Unstored(t) - 1
      /\ \/ t = "poll" /\ Unstored(t) = 1 /\ ~ Working(t)'
         \/ t = "handler" /\ Unstored(t) = 1 /\ Doing(t)' = "test"
         \/ /\ t = "handler" /\ Unstored(t) = 2
            /\ Doing(t)' = "copy" /\ ops'[t][1][2] = "crlf"
  BY <1>1, <1>4, AdvanceStore
<1>9. Adds(seen'[c], wire'[c], owed'[c], output'[c], len'[c], offset'[c], Unstored(t)')
  <2>1. owed[c] \in Seq(Symbols) /\ seen[c] \in Seq(Symbols) /\ wire[c] \in Seq(Symbols)
    BY <1>1 DEF Types
  <2>2. PICK k \in Nat \ {0} : k = Unstored(t)
    BY <1>8
  <2>3. Adds(seen[c], wire[c], owed[c], output[c], len[c], offset[c], k)
    BY <1>3, <2>2 DEF AddsUp
  <2>4. output[c][len[c]] = owed[c][Len(owed[c]) - k + 1]
    BY <1>0, <1>3, <2>2 DEF NextCell
  <2>5. Adds(seen[c], wire[c], owed[c], output[c], len[c] + 1, offset[c], k - 1)
    BY <1>2, <2>1, <2>3, <2>4, AddsStore, Zenon
  <2>6. k - 1 = Unstored(t)'
    BY <1>8, <2>2
  <2> QED  BY <1>4, <1>5, <2>5, <2>6
<1>10. Commanded(c)' = Commanded(c) /\ on'[t] = c
  BY <1>0, <1>4 DEF Commanded
<1>14. \A d \in Clients \ {on[t]} :
         output'[d] = output[d] /\ len'[d] = len[d]
         /\ offset'[d] = offset[d] /\ wire'[d] = wire[d]
  BY <1>0, <1>4, <1>5
<1>15. UNCHANGED <<on, buf, inbox, script, seen, owed, valid>>
       /\ \A u \in Threads \ {t} : ops'[u] = ops[u] /\ reg'[u] = reg[u]
  BY <1>4, <1>5, <1>6
<1>11. CASE t = "poll" /\ Unstored(t) = 1 /\ ~ Working(t)'
  <2>1. AddsUp(c, offset[c], 0)' /\ offset'[c] = offset[c]
    BY <1>4, <1>8, <1>9, <1>11 DEF AddsUp
  <2>2. c \in Askers => ~ MgetAhead(c) /\ len[c] = 0 /\ offset[c] = 0
    BY <1>0, <1>1, <1>2, <1>11 DEF Inv, AloneOK, AtWork, Filling
  <2>3. c \in Askers => ~ MgetAhead(c)'
    BY <1>10, <2>2 DEF MgetAhead
  <2>4. c \notin Askers => len'[c] + Len(Commanded(c)') <= MaxScript + Filler
    BY <1>0, <1>2, <1>5, <1>10, <1>11 DEF AtWork
  <2>5. AtRest(c)'
    BY <1>5, <1>10, <2>1, <2>2, <2>3, <2>4 DEF AtRest
  <2>6. AtRest(on[t])'
    BY <1>10, <2>5 DEF AtRest, AddsUp, MgetAhead, Commanded
  <2> QED  BY <1>1, <1>6, <1>7, <1>11, <1>14, <1>15, <2>6, WorkStep
<1>12. CASE t = "handler" /\ Unstored(t) = 1 /\ Doing(t)' = "test"
  <2>1. Sent(t)' = offset'[c] /\ Unstored(t)' = 0 /\ offset'[c] = offset[c]
    BY <1>4, <1>6, <1>8, <1>10, <1>12 DEF Sent
  <2>2. AddsUp(c, offset[c], 0)'
    BY <1>9, <2>1 DEF AddsUp
  <2>3. /\ c \in Askers => len'[c] + 0 <= 3 /\ offset'[c] = 0
        /\ c \notin Askers => len'[c] + 0 + Len(Commanded(c)') <= MaxScript + Filler
    BY <1>0, <1>2, <1>5, <1>10, <1>12, <2>1 DEF AtWork
  <2>5. c \in Askers
    BY <1>0, <1>1, <1>12 DEF Inv, AloneOK, Alone
  <2>4. AtWork(t)' /\ Working(t)'
    BY <1>6, <1>10, <1>12, <2>1, <2>2, <2>3, <2>5, FlushAtWork
  <2> QED  BY <1>1, <1>6, <1>7, <1>14, <1>15, <2>4, WorkStep
<1>13. CASE /\ t = "handler" /\ Unstored(t) = 2
            /\ Doing(t)' = "copy" /\ ops'[t][1][2] = "crlf"
  <2>1. Sent(t)' = offset'[c] /\ Unstored(t)' = 1 /\ offset'[c] = offset[c]
    BY <1>4, <1>6, <1>8, <1>10, <1>13 DEF Sent
  <2>2. AddsUp(on[t], Sent(t), Unstored(t))'
    BY <1>9, <1>10, <2>1 DEF AddsUp
  <2>3. /\ c \in Askers => len'[c] + 1 <= 3 /\ offset'[c] = 0
        /\ c \notin Askers => len'[c] + 1 + Len(Commanded(c)') <= MaxScript + Filler
    BY <1>0, <1>2, <1>5, <1>10, <1>13, <2>1 DEF AtWork
  <2>4. NextCell(t)' = "crlf"
    <3>1. Len(owed[c]) \in Nat
      BY <1>1 DEF Types
    <3>2. NextCell(t)' = owed[c][Len(owed[c]) - 1 + 1]
      BY <1>0, <1>4, <2>1 DEF NextCell
    <3>3. Len(owed[c]) - 1 + 1 = Len(owed[c])
      BY <3>1
    <3> QED  BY <1>0, <1>2, <1>13, <3>2, <3>3 DEF AtWork
  <2>5. AtWork(t)'
    BY <1>6, <1>10, <1>13, <2>1, <2>2, <2>3, <2>4 DEF AtWork
  <2>6. Working(t)'
    BY <1>4, <1>13 DEF Working, Filling
  <2> QED  BY <1>1, <1>6, <1>7, <1>14, <1>15, <2>5, <2>6, WorkStep
<1> QED  BY <1>8, <1>11, <1>12, <1>13

(* The end of a flush and client_clear. *)
LEMMA ZeroKeeps ==
  ASSUME Inv, NEW t \in Threads, on[t] \in Apart, SetLen(t), At(t, "zero")
  PROVE  Inv'
<1>1. Doing(t) = "zero" /\ ops[t] # <<>> /\ Working(t) /\ Types
  <2>1. Types
    BY DEF Inv
  <2> QED  BY <2>1, AtDoing DEF Working
<1>0. PICK c \in Apart : c = on[t]
  BY <1>1 DEF Types
<1>2. /\ AtWork(t) /\ len[c] \in Nat
      /\ Len(Commanded(c)) \in Nat /\ MaxScript \in Nat /\ Filler \in Nat
  <2>1. MaxScript \in Nat /\ Filler \in Nat
    BY ReplyPathAssumption, Zenon
  <2> QED  BY <1>0, <1>1, <2>1, WorkFacts, CommandedType DEF Inv
<1>3. /\ len' = [len EXCEPT ![c] = 0]
      /\ reg' = [reg EXCEPT ![t] = NoLocals]
      /\ Done(t)
      /\ UNCHANGED <<inbox, seen, script, due, buf, output, offset, valid, open,
                     reading, queue, on, wire, owed>>
  <2>1. ~ At(t, "store")
    BY DEF At
  <2> QED  BY <1>0, <2>1 DEF SetLen, peer
<1>4. /\ len'[c] = 0 /\ len' \in [Clients -> Nat]
      /\ \A d \in Clients \ {c} : len'[d] = len[d]
      /\ reg' \in [Threads -> Locals]
      /\ \A u \in Threads \ {t} : reg'[u] = reg[u]
  <2>1. 0 \in Nat
    OBVIOUS
  <2> QED  BY <1>1, <1>3, <2>1, LenStored
<1>s. ~ Scans(t)
  BY <1>1, ScansFill DEF Filling
<1>5. ListsOK' /\ ~ Scans(t)' /\ ops' \in [Threads -> Seq(Steps)]
      /\ \A u \in Threads \ {t} : ops'[u] = ops[u]
  BY <1>1, <1>3, <1>s, StepOfList, Advance DEF ListsOK
<1>6. Types'
  BY <1>3, <1>4, <1>5 DEF Inv, Types
<1>7. Unstored(t) = 0 /\ Unstored(t)' = 0 /\ Doing(t)' \in {"zero", "zerooff"}
  BY <1>1, <1>3, <1>s, AdvanceFlush
<1>8. AddsUp(c, 0, 0)'
  <2>1. owed[c] \in Seq(Symbols) /\ seen[c] \in Seq(Symbols) /\ wire[c] \in Seq(Symbols)
    BY <1>1 DEF Types
  <2>2. Adds(seen[c], wire[c], owed[c], output[c], len[c], len[c], 0)
    BY <1>0, <1>1, <1>2, <1>7, <1>s DEF AtWork, AddsUp, Sent
  <2>3. Adds(seen[c], wire[c], owed[c], output[c], 0, 0, 0)
    BY <1>2, <2>1, <2>2, AddsClear
  <2> QED  BY <1>3, <1>4, <2>3 DEF AddsUp
<1>9. Commanded(c)' = Commanded(c) /\ on'[t] = c
  BY <1>0, <1>3 DEF Commanded
<1>10. Sent(t)' = 0
  BY <1>4, <1>5, <1>7, <1>9 DEF Sent
<1>11. c \notin Askers => 0 + 0 + Len(Commanded(c)') <= MaxScript + Filler
  <2>1. c \notin Askers => len[c] + 0 + Len(Commanded(c)) <= MaxScript + Filler
    BY <1>0, <1>2, <1>7, <1>s DEF AtWork
  <2> QED  BY <1>2, <1>9, <2>1
<1>12. AtWork(t)' /\ Working(t)'
  <2>1. c \in Askers => offset'[c] = 0
    BY <1>0, <1>2, <1>3 DEF AtWork
  <2>2. len'[c] + 0 <= 3 /\ Doing(t)' # "write"
    BY <1>4, <1>7
  <2> QED  BY <1>4, <1>5, <1>7, <1>8, <1>9, <1>10, <1>11, <2>1, <2>2, FlushAtWork
<1>13. \A d \in Clients \ {on[t]} :
         output'[d] = output[d] /\ len'[d] = len[d]
         /\ offset'[d] = offset[d] /\ wire'[d] = wire[d]
  BY <1>0, <1>3, <1>4
<1>14. UNCHANGED <<on, buf, inbox, script, seen, owed, valid>>
       /\ \A u \in Threads \ {t} : ops'[u] = ops[u] /\ reg'[u] = reg[u]
  BY <1>3, <1>4, <1>5
<1> QED  BY <1>1, <1>5, <1>6, <1>12, <1>13, <1>14, WorkStep

(* client_clear's other store *)
LEMMA OffsetKeeps ==
  ASSUME Inv, NEW t \in Threads, on[t] \in Apart, SetOffset(t), At(t, "zerooff")
  PROVE  Inv'
<1>1. Types
  BY DEF Inv
<1>2. At(t, "zerooff")
  OBVIOUS
<1>3. Doing(t) = "zerooff" /\ ops[t] # <<>> /\ Working(t)
  BY <1>1, <1>2, AtDoing DEF Working
<1>4. PICK c \in Apart : c = on[t]
  BY <1>1 DEF Types
<1>5. /\ AtWork(t) /\ len[c] \in Nat /\ len[c] = 0
      /\ Len(Commanded(c)) \in Nat /\ MaxScript \in Nat /\ Filler \in Nat
  <2>1. MaxScript \in Nat /\ Filler \in Nat
    BY ReplyPathAssumption, Zenon
  <2>2. AtWork(t) /\ len[c] \in Nat /\ Len(Commanded(c)) \in Nat
    BY <1>1, <1>3, <1>4, WorkFacts, CommandedType
  <2> QED  BY <1>3, <1>4, <2>1, <2>2 DEF AtWork
<1>6. /\ offset' = [offset EXCEPT ![c] = 0] /\ Done(t)
      /\ UNCHANGED <<inbox, seen, script, due, buf, output, len, valid, open,
                     reading, queue, on, reg, wire, owed>>
  <2>1. ~ At(t, "header")
    BY <1>2 DEF At
  <2> QED  BY <1>4, <2>1 DEF SetOffset, peer
<1>o. /\ offset'[c] = 0 /\ offset' \in [Clients -> Nat]
      /\ \A d \in Clients \ {c} : offset'[d] = offset[d]
  BY <1>1, <1>6 DEF Types
<1>s. ~ Scans(t)
  BY <1>3, ScansFill DEF Filling
<1>7. ListsOK' /\ ~ Scans(t)' /\ ops' \in [Threads -> Seq(Steps)]
      /\ \A u \in Threads \ {t} : ops'[u] = ops[u]
  BY <1>3, <1>6, <1>s, StepOfList, Advance DEF ListsOK
<1>8. Types'
  BY <1>1, <1>6, <1>7, <1>o DEF Types
<1>9. Unstored(t) = 0 /\ ~ Working(t)'
  BY <1>3, <1>6, <1>s, AdvanceFlush
<1>10. AddsUp(c, 0, 0)'
  BY <1>3, <1>4, <1>5, <1>6, <1>9, <1>s DEF AtWork, AddsUp, Sent
<1>11. Commanded(c)' = Commanded(c) /\ on'[t] = c /\ len'[c] = 0
  BY <1>4, <1>5, <1>6 DEF Commanded
<1>12. c \notin Askers => 0 + Len(Commanded(c)') <= MaxScript + Filler
  BY <1>4, <1>5, <1>9, <1>11, <1>s DEF AtWork
<1>13. AtRest(on[t])'
  <2>1. AtRest(c)'
    BY <1>10, <1>11, <1>12, <1>o DEF AtRest
  <2> QED  BY <1>11, <2>1 DEF AtRest, AddsUp, MgetAhead, Commanded
<1>14. \A d \in Clients \ {on[t]} :
         output'[d] = output[d] /\ len'[d] = len[d]
         /\ offset'[d] = offset[d] /\ wire'[d] = wire[d]
  BY <1>4, <1>6, <1>o
<1>15. UNCHANGED <<on, buf, inbox, script, seen, owed, valid>>
       /\ \A u \in Threads \ {t} : ops'[u] = ops[u] /\ reg'[u] = reg[u]
  BY <1>6, <1>7
<1> QED  BY <1>3, <1>7, <1>8, <1>9, <1>13, <1>14, <1>15, WorkStep

(* The poll thread keeps its list. *)
LEMMA SamePollList ==
  ASSUME Inv, ops'["poll"] = ops["poll"], on'["poll"] = on["poll"]
  PROVE  PollOK'
<1>1. Scanning' = Scanning
  BY DEF Scanning
<1> QED  BY <1>1 DEF Inv, PollOK, Askers

(* The parts of the invariant that are not about the buffers, when the     *)
(* threads keep their lists.                                               *)
LEMMA SameLists ==
  ASSUME Inv, UNCHANGED <<reading, queue, on, buf, inbox, script, ops, valid>>
  PROVE  ListsOK'
<1>1. \A c \in Clients : Commanded(c)' = Commanded(c)
  BY DEF Commanded
<1>2. CommandsOK'
  BY <1>1 DEF Inv, CommandsOK, Askers
<1>3. Working("poll")' = Working("poll") /\ Doing("poll")' = Doing("poll")
  BY DEF Working, Doing
<1>4. UNCHANGED <<reading, queue, on>> /\ ops'["handler"] = ops["handler"]
  OBVIOUS
<1>5. AloneOK'
  BY <1>1, <1>3, <1>4, StillAlone, Zenon
<1>6. ops' = ops /\ on' = on
  OBVIOUS
<1>7. PollOK'
  BY <1>6, SamePollList
<1> QED  BY <1>2, <1>5, <1>6, <1>7 DEF Inv, ListsOK

(* A cell goes to the socket. *)
LEMMA WriteCellKeeps ==
  ASSUME Inv, NEW t \in Threads, on[t] \in Apart, WriteCell(t)
  PROVE  Inv'
<1>1. Types /\ Doing(t) = "write" /\ ops[t] # <<>> /\ Working(t)
  <2>1. Types /\ At(t, "write")
    BY DEF Inv, WriteCell
  <2> QED  BY <2>1, AtDoing DEF Working
<1>2. PICK c \in Apart : c = on[t]
  BY <1>1 DEF Types
<1>3. /\ AtWork(t) /\ len[c] \in Nat /\ 0..len[c] \subseteq Cells
      /\ Len(Commanded(c)) \in Nat
  BY <1>1, <1>2, WorkFacts, CommandedType
<1>4. PICK f \in Nat : f = reg[t].off
  <2>1. reg[t] \in Locals
    BY <1>1 DEF Types
  <2> QED  BY <2>1 DEF Locals
<1>s. ~ Scans(t)
  BY <1>1, ScansFill DEF Filling
<1>5. /\ AddsUp(c, f, Unstored(t)) /\ reg[t].n = len[c] - f
      /\ reg[t].sent + offset[c] = f /\ reg[t].size + offset[c] = len[c]
  BY <1>1, <1>2, <1>3, <1>4, <1>s DEF AtWork, Sent, WriteCell
<1>6. f < len[c] /\ f \in Cells
  <2>1. f < len[c]
    BY <1>3, <1>4, <1>5 DEF WriteCell
  <2> QED  BY <1>3, <1>4, <2>1
<1>7. /\ wire' = [wire EXCEPT ![c] = Append(@, output[c][f])]
      /\ reg' = [reg EXCEPT ![t].n = @ - 1, ![t].off = @ + 1, ![t].sent = @ + 1]
      /\ UNCHANGED <<inbox, seen, script, due, buf, output, len, offset, valid, open,
                     reading, queue, ops, on, owed>>
  BY <1>2, <1>4 DEF WriteCell, peer, client
<1>8. /\ wire'[c] = Append(wire[c], output[c][f])
      /\ \A d \in Clients \ {c} : wire'[d] = wire[d]
      /\ wire' \in [Clients -> Seq(Symbols)]
  <2>1. wire \in [Clients -> Seq(Symbols)] /\ output[c] \in [Cells -> Symbols]
    BY <1>1 DEF Types
  <2>2. Append(wire[c], output[c][f]) \in Seq(Symbols)
    BY <1>6, <2>1
  <2> QED  BY <1>7, <2>1, <2>2
<1>9. /\ reg' \in [Threads -> Locals]
      /\ \A u \in Threads \ {t} : reg'[u] = reg[u]
      /\ reg'[t].off = f + 1 /\ reg'[t].n = len[c] - (f + 1)
      /\ reg'[t].sent = reg[t].sent + 1 /\ reg'[t].size = reg[t].size
  <2>1. reg \in [Threads -> Locals] /\ reg[t] \in Locals
    BY <1>1 DEF Types
  <2>2. PICK k \in Nat : k = len[c] - f - 1 /\ k = len[c] - (f + 1)
    BY <1>3, <1>6
  <2>3. PICK j \in Nat : j = f + 1
    OBVIOUS
  <2>6. PICK h \in Nat : h = reg[t].sent + 1
    BY <2>1 DEF Locals
  <2> DEFINE r == [reg[t] EXCEPT !.n = k, !.off = j, !.sent = h]
  <2>4. reg' = [reg EXCEPT ![t] = r]
    BY <1>4, <1>5, <1>7, <2>1, <2>2, <2>3, <2>6
  <2>5. r \in Locals /\ r.off = j /\ r.sent = h /\ r.size = reg[t].size /\ r.n = k
    BY <2>1 DEF Locals
  <2> HIDE DEF r
  <2> QED  BY <2>1, <2>2, <2>3, <2>4, <2>5, <2>6
<1>10. ListsOK'
  <2>1. UNCHANGED <<reading, queue, on, buf, inbox, script, ops, valid>>
    BY <1>7
  <2> QED  BY <2>1, SameLists
<1>11. Types'
  BY <1>1, <1>7, <1>8, <1>9 DEF Types
<1>12. /\ Doing(t)' = "write" /\ Unstored(t) = 0 /\ Unstored(t)' = 0 /\ Sent(t)' = f + 1
       /\ ~ Scans(t)'
  <2>1. Unstored(t) = 0
    BY <1>1, UnstoredFacts DEF Filling
  <2>2. Doing(t)' = Doing(t) /\ Unstored(t)' = Unstored(t) /\ Scans(t)' = Scans(t)
    BY <1>7 DEF Doing, Unstored, Scans, Scanning
  <2> QED  BY <1>1, <1>9, <1>s, <2>1, <2>2 DEF Sent
<1>13. AddsUp(c, f + 1, 0)'
  <2>1. owed[c] \in Seq(Symbols) /\ seen[c] \in Seq(Symbols) /\ wire[c] \in Seq(Symbols)
        /\ output[c] \in [Cells -> Symbols]
    BY <1>1 DEF Types
  <2>2. Adds(seen[c], wire[c], owed[c], output[c], len[c], f, 0) /\ 0 \in Nat
    BY <1>5, <1>12 DEF AddsUp
  <2>3. Adds(seen[c], Append(wire[c], output[c][f]), owed[c], output[c], len[c], f + 1, 0)
    BY <1>3, <1>4, <1>6, <2>1, <2>2, AddsSend, Zenon
  <2> QED  BY <1>7, <1>8, <2>3 DEF AddsUp
<1>14. Commanded(c)' = Commanded(c) /\ on'[t] = c /\ len'[c] = len[c] /\ offset'[c] = offset[c]
  BY <1>2, <1>7 DEF Commanded
<1>15. /\ c \in Askers => len'[c] + 0 <= 3 /\ offset'[c] = 0 /\ (t = "poll" => len'[c] = 0)
       /\ c \notin Askers => len'[c] + 0 + Len(Commanded(c)') <= MaxScript + Filler
  BY <1>2, <1>3, <1>12, <1>14, <1>s DEF AtWork
<1>16. AtWork(t)' /\ Working(t)'
  <2>1. /\ reg'[t].sent + offset'[c] = reg'[t].off /\ reg'[t].size + offset'[c] = len'[c]
        /\ reg'[t].n \in {0, len'[c] - reg'[t].off}
    <3>1. reg[t].sent \in Nat /\ offset[c] \in Nat
      BY <1>1 DEF Types, Locals
    <3> QED  BY <1>5, <1>9, <1>14, <3>1
  <2> QED  BY <1>12, <1>13, <1>14, <1>15, <2>1, FlushAtWork
<1>17. \A d \in Clients \ {on[t]} :
         output'[d] = output[d] /\ len'[d] = len[d]
         /\ offset'[d] = offset[d] /\ wire'[d] = wire[d]
  BY <1>2, <1>7, <1>8
<1>18. UNCHANGED <<on, buf, inbox, script, seen, owed, valid>>
       /\ \A u \in Threads \ {t} : ops'[u] = ops[u] /\ reg'[u] = reg[u]
  BY <1>7, <1>9
<1> QED  BY <1>1, <1>10, <1>11, <1>16, <1>17, <1>18, WorkStep

(* The loop of client_flush_offset. *)
LEMMA CallWriteKeeps ==
  ASSUME Inv, NEW t \in Threads, on[t] \in Apart, CallWrite(t)
  PROVE  Inv'
<1>1. Types /\ Doing(t) = "write" /\ ops[t] # <<>> /\ Working(t)
  <2>1. Types /\ At(t, "write")
    BY DEF Inv, CallWrite
  <2> QED  BY <2>1, AtDoing DEF Working
<1>2. PICK c \in Apart : c = on[t]
  BY <1>1 DEF Types
<1>3. AtWork(t) /\ len[c] \in Nat /\ Len(Commanded(c)) \in Nat
  BY <1>1, <1>2, WorkFacts, CommandedType
<1>4. PICK f \in Nat : f = reg[t].off
  <2>1. reg[t] \in Locals
    BY <1>1 DEF Types
  <2> QED  BY <2>1 DEF Locals
<1>s. ~ Scans(t)
  BY <1>1, ScansFill DEF Filling
<1>5. /\ AddsUp(c, f, Unstored(t)) /\ f \in 0..len[c]
      /\ reg[t].sent + offset[c] = f /\ reg[t].size + offset[c] = len[c]
      /\ reg[t].sent < reg[t].size <=> f < len[c]
  <2>1. /\ AddsUp(c, f, Unstored(t)) /\ f \in 0..len[c]
        /\ reg[t].sent + offset[c] = f /\ reg[t].size + offset[c] = len[c]
    BY <1>1, <1>2, <1>3, <1>4, <1>s DEF AtWork, Sent, AddsUp, Adds
  <2>2. reg[t].sent \in Nat /\ reg[t].size \in Nat /\ offset[c] \in Nat
    BY <1>1 DEF Types, Locals
  <2> QED  BY <1>3, <1>4, <2>1, <2>2
<1>6. UNCHANGED <<inbox, seen, script, due, buf, output, len, offset, valid, open,
                  reading, queue, on, wire, owed>>
  BY DEF CallWrite, peer, client
<1>7. Unstored(t) = 0
  BY <1>1, UnstoredFacts DEF Filling
<1>8. Commanded(c)' = Commanded(c) /\ on'[t] = c /\ len'[c] = len[c] /\ offset'[c] = offset[c]
  BY <1>2, <1>6 DEF Commanded
<1>9. /\ c \in Askers => len'[c] + 0 <= 3 /\ offset'[c] = 0 /\ (t = "poll" => len'[c] = 0)
      /\ c \notin Askers => len'[c] + 0 + Len(Commanded(c)') <= MaxScript + Filler
  BY <1>2, <1>3, <1>7, <1>8, <1>s DEF AtWork
<1>10. \A d \in Clients \ {on[t]} :
         output'[d] = output[d] /\ len'[d] = len[d]
         /\ offset'[d] = offset[d] /\ wire'[d] = wire[d]
  BY <1>6
<1>11. AddsUp(c, f, 0)'
  BY <1>5, <1>6, <1>7 DEF AddsUp
<1>12. UNCHANGED <<on, buf, inbox, script, seen, owed, valid>>
  BY <1>6
<1>13. CASE f < len[c]
  <2>1. /\ reg' = [reg EXCEPT ![t].n = len[c] - f]
        /\ ops' = ops
    BY <1>2, <1>4, <1>5, <1>13 DEF CallWrite
  <2>2. /\ reg' \in [Threads -> Locals]
        /\ \A u \in Threads \ {t} : reg'[u] = reg[u]
        /\ reg'[t].off = f /\ reg'[t].sent = reg[t].sent /\ reg'[t].size = reg[t].size
        /\ reg'[t].n = len[c] - f
    <3>1. reg \in [Threads -> Locals] /\ reg[t] \in Locals
      BY <1>1 DEF Types
    <3>4. PICK k \in Nat : k = len[c] - f
      BY <1>3, <1>13
    <3> DEFINE r == [reg[t] EXCEPT !.n = k]
    <3>2. reg' = [reg EXCEPT ![t] = r]
      BY <2>1, <3>1, <3>4
    <3>3. /\ r \in Locals /\ r.off = f /\ r.n = k
          /\ r.sent = reg[t].sent /\ r.size = reg[t].size
      BY <1>4, <3>1 DEF Locals
    <3> HIDE DEF r
    <3> QED  BY <3>1, <3>2, <3>3, <3>4
  <2>3. ListsOK'
    <3>1. UNCHANGED <<reading, queue, on, buf, inbox, script, ops, valid>>
      BY <1>6, <2>1
    <3> QED  BY <3>1, SameLists
  <2>4. Types'
    BY <1>1, <1>6, <2>1, <2>2 DEF Types
  <2>5. Doing(t)' = "write" /\ Unstored(t)' = 0 /\ Sent(t)' = f /\ ~ Scans(t)'
    <3>1. Doing(t)' = Doing(t) /\ Unstored(t)' = Unstored(t) /\ Scans(t)' = Scans(t)
      BY <1>6, <2>1 DEF Doing, Unstored, Scans, Scanning
    <3> QED  BY <1>1, <1>7, <1>s, <2>2, <3>1 DEF Sent
  <2>6. AtWork(t)' /\ Working(t)'
    <3>1. /\ reg'[t].sent + offset'[c] = reg'[t].off /\ reg'[t].size + offset'[c] = len'[c]
          /\ reg'[t].n \in {0, len'[c] - reg'[t].off}
      BY <1>5, <1>8, <2>2
    <3> QED  BY <1>8, <1>9, <1>11, <2>5, <3>1, FlushAtWork
  <2>7. \A u \in Threads \ {t} : ops'[u] = ops[u] /\ reg'[u] = reg[u]
    BY <2>1, <2>2
  <2> QED  BY <1>1, <1>10, <1>12, <2>3, <2>4, <2>6, <2>7, WorkStep
<1>14. CASE ~ (f < len[c])
  <2>1. f = len[c]
    BY <1>3, <1>5, <1>14
  <2>2. Done(t) /\ reg' = reg
    BY <1>5, <1>14 DEF CallWrite
  <2>3. ListsOK' /\ ~ Scans(t)' /\ ops' \in [Threads -> Seq(Steps)]
        /\ \A u \in Threads \ {t} : ops'[u] = ops[u]
    BY <1>1, <1>6, <1>s, <2>2, StepOfList, Advance DEF ListsOK
  <2>4. Types'
    BY <1>1, <1>6, <2>2, <2>3 DEF Types
  <2>5. Doing(t)' = "zero" /\ Unstored(t)' = 0
    BY <1>1, <1>s, <2>2, AdvanceFlush
  <2>6. Sent(t)' = f
    BY <1>8, <2>1, <2>3, <2>5 DEF Sent
  <2>7. AtWork(t)' /\ Working(t)'
    BY <1>8, <1>9, <1>11, <2>3, <2>5, <2>6, FlushAtWork
  <2>8. \A u \in Threads \ {t} : ops'[u] = ops[u] /\ reg'[u] = reg[u]
    BY <2>2, <2>3
  <2> QED  BY <1>1, <1>10, <1>12, <2>3, <2>4, <2>7, <2>8, WorkStep
<1> QED  BY <1>13, <1>14

LEMMA DropThree ==
  ASSUME NEW S, NEW l \in Seq(S), NEW q \in Nat, q = Len(l), 4 <= q
  PROVE  /\ SubSeq(l, 4, Len(l)) \in Seq(S)
         /\ Len(SubSeq(l, 4, Len(l))) = q - 3
         /\ \A i \in 1..(q - 3) : SubSeq(l, 4, Len(l))[i] = l[i + 3]
  OBVIOUS

(* Skipping a flush, when the buffer is empty. *)
LEMMA Skips ==
  ASSUME Inv, NEW t \in Threads, on[t] \in Apart, Doing(t) = "test", ops[t] # <<>>,
         ops' = [ops EXCEPT ![t] = SubSeq(@, 4, Len(@))],
         UNCHANGED <<reading, queue, on, buf, inbox, script, valid>>
  PROVE  /\ ListsOK' /\ ~ Scans(t)' /\ ops' \in [Threads -> Seq(Steps)]
         /\ \A u \in Threads \ {t} : ops'[u] = ops[u]
         /\ Unstored(t) = 0 /\ Unstored(t)' = 0 /\ Doing(t)' \in {"zero", "zerooff"}
         /\ Doing(t)' = ops[t][4][1]
<1>s. ~ Scans(t)
  BY ScansFill DEF Filling
<1>1. PICK l \in Seq(Steps) : l = ops[t]
  BY DEF Inv, Types
<1>2. ops \in [Threads -> Seq(Steps)] /\ l # <<>> /\ l[1][1] = "test"
  BY <1>1 DEF Inv, Types, Doing
<1>3. PICK q \in Nat \ {0} : q = Len(l)
  BY <1>2
<1>4. /\ q >= 4 /\ l[4][1] \in {"zero", "zerooff"}
      /\ t = "handler" => q = 5
      /\ t = "poll" => on["poll"] \notin Askers
  <2>1. CASE t = "poll"
    <3>1. /\ \A i \in 1..q : (IF i = q THEN "nothing" ELSE l[i + 1][1]) \in PollAfter(l[i][1])
          /\ on["poll"] \in Askers => l[1][1] \in AskerOps
      <4>1. PollList(l, on["poll"] \in Askers)
        BY <1>1, <1>s, <2>1 DEF Inv, PollOK, Scans
      <4>2. 1 \in 1..q
        BY <1>3
      <4> QED  BY <1>3, <4>1, <4>2 DEF PollList
    <3>2. on["poll"] \notin Askers
      BY <1>2, <3>1 DEF AskerOps
    <3>3. PollAfter("test") = {"write"} /\ PollAfter("write") = {"zero"}
          /\ PollAfter("zero") = {"zero", "zerooff"}
      BY DEF PollAfter
    <3>4. q # 1 /\ l[2][1] = "write"
      <4>1. 1 \in 1..q /\ 1 + 1 = 2
        BY <1>3
      <4>2. (IF 1 = q THEN "nothing" ELSE l[2][1]) \in {"write"}
        BY <1>2, <3>1, <3>3, <4>1
      <4> QED  BY <1>3, <4>2
    <3>5. q # 2 /\ l[3][1] = "zero"
      <4>1. 2 \in 1..q /\ 2 + 1 = 3
        BY <1>3, <3>4
      <4>2. (IF 2 = q THEN "nothing" ELSE l[3][1]) \in {"zero"}
        BY <3>1, <3>3, <3>4, <4>1
      <4> QED  BY <1>3, <4>2
    <3>6. q # 3 /\ l[4][1] \in {"zero", "zerooff"}
      <4>1. 3 \in 1..q /\ 3 + 1 = 4
        BY <1>3, <3>4, <3>5
      <4>2. (IF 3 = q THEN "nothing" ELSE l[4][1]) \in {"zero", "zerooff"}
        BY <3>1, <3>3, <3>5, <4>1
      <4> QED  BY <1>3, <4>2
    <3>7. q >= 4
      BY <1>3, <3>4, <3>5, <3>6
    <3> QED  BY <2>1, <3>2, <3>6, <3>7
  <2>2. CASE t = "handler"
    <3>1. q <= 11 /\ \A i \in 1..q : l[i][1] = HandlerOp(q - i + 1)
      BY <1>1, <1>3, <2>2 DEF Inv, HandlerList
    <3>2. HandlerOp(q) = "test"
      <4>1. 1 \in 1..q /\ q - 1 + 1 = q
        BY <1>3
      <4> QED  BY <1>2, <3>1, <4>1
    <3>3. q = 5
      BY <1>3, <3>1, <3>2 DEF HandlerOp
    <3>4. l[4][1] = HandlerOp(2)
      <4>1. 4 \in 1..q /\ q - 4 + 1 = 2
        BY <3>3
      <4> QED  BY <3>1, <4>1
    <3> QED  BY <2>2, <3>3, <3>4 DEF HandlerOp
  <2> QED  BY <2>1, <2>2 DEF Threads
<1>5. PICK m : m = SubSeq(l, 4, Len(l))
  OBVIOUS
<1>6. /\ m \in Seq(Steps) /\ IsEnd(m, l, 3) /\ Len(m) = q - 3
      /\ m[1] = l[4]
  <2>2. m \in Seq(Steps) /\ Len(m) = q - 3 /\ \A i \in 1..(q - 3) : m[i] = l[i + 3]
    BY <1>3, <1>4, <1>5, DropThree
  <2>3. 1 \in 1..(q - 3) /\ 1 + 3 = 4
    BY <1>4
  <2>4. m[1] = l[4]
    BY <2>2, <2>3
  <2> QED  BY <1>3, <2>2, <2>4 DEF IsEnd
<1>7. /\ ops' \in [Threads -> Seq(Steps)] /\ ops'[t] = m
      /\ \A u \in Threads \ {t} : ops'[u] = ops[u]
  BY <1>1, <1>2, <1>5, <1>6
<1>8. m # <<>> /\ Doing(t)' \in {"zero", "zerooff"} /\ Doing(t)' = l[4][1]
  <2>1. m # <<>>
    BY <1>3, <1>4, <1>6
  <2> QED  BY <1>4, <1>6, <1>7, <2>1 DEF Doing
<1>9. Unstored(t) = 0 /\ Unstored(t)' = 0
  <2>1. Unstored(t) = 0
    BY UnstoredFacts DEF Filling
  <2>2. t = "poll" => Unstored(t)' = 0
    BY <1>8 DEF Unstored, Filling
  <2>3. ASSUME t = "handler" PROVE Unstored(t)' = 0
    <3>1. q - 3 = 2
      BY <1>4, <2>3
    <3>2. Len(ops'[t]) = 2
      BY <1>6, <1>7, <3>1
    <3>3. ~ 2 > 8 /\ ~ 2 > 5
      OBVIOUS
    <3> QED  BY <2>3, <3>2, <3>3, Zenon DEF Unstored
  <2> QED  BY <2>1, <2>2, <2>3 DEF Threads
<1>10. ListsOK' /\ ~ Scans(t)'
  <2>1. \A asker \in BOOLEAN : PollList(l, asker) => PollList(m, asker)
    BY <1>6, Ends
  <2>2. HandlerList(l) => HandlerList(m)
    BY <1>6, Ends
  <2>3. PollOK' /\ ~ Scans(t)'
    <3>1. CASE t = "poll"
      <4>1. (on["poll"] \in Askers) \in BOOLEAN /\ PollList(l, on["poll"] \in Askers)
        BY <1>1, <1>s, <3>1 DEF Inv, PollOK, Scans
      <4>2. PollList(m, on["poll"] \in Askers)
        BY <2>1, <4>1, Zenon
      <4>3. PollList(ops'["poll"], on'["poll"] \in Askers)
        BY <1>7, <3>1, <4>2
      <4> QED  BY <3>1, <4>3, NoHeaderNext DEF Scans
    <3>2. CASE t # "poll"
      <4>1. ops'["poll"] = ops["poll"] /\ on'["poll"] = on["poll"]
        BY <1>7, <3>2 DEF Threads
      <4>2. Scanning' = Scanning
        BY <4>1 DEF Scanning
      <4> QED  BY <3>2, <4>1, <4>2 DEF Inv, PollOK, Askers, Scans
    <3> QED  BY <3>1, <3>2
  <2>4. HandlerList(ops'["handler"])
    <3>1. CASE t = "handler"
      BY <1>1, <1>7, <2>2, <3>1 DEF Inv
    <3>2. CASE t # "handler"
      BY <1>7, <3>2 DEF Inv, Threads
    <3> QED  BY <3>1, <3>2
  <2>5. \A c \in Clients : Commanded(c)' = Commanded(c)
    BY DEF Commanded
  <2>6. CommandsOK'
    BY <2>5 DEF Inv, CommandsOK, Askers
  <2>7. AloneOK'
    <3>1. UNCHANGED <<reading, queue, on>>
      OBVIOUS
    <3>2. ops["handler"] = <<>> => ops'["handler"] = <<>>
      BY <1>7 DEF Threads
    <3>3. on["poll"] \in Askers => Working("poll")' = Working("poll")
                                   /\ Doing("poll")' = Doing("poll")
      BY <1>4, <1>7 DEF Threads, Working, Doing
    <3> QED  BY <2>5, <3>1, <3>2, <3>3, StillAlone, Zenon
  <2>8. on' = on
    OBVIOUS
  <2> QED  BY <2>3, <2>4, <2>6, <2>7, <2>8 DEF ListsOK
<1> QED  BY <1>1, <1>7, <1>8, <1>9, <1>10

(* The head of client_flush_offset. *)
LEMMA TestLenKeeps ==
  ASSUME Inv, NEW t \in Threads, on[t] \in Apart, TestLen(t)
  PROVE  Inv'
<1>1. Types /\ Doing(t) = "test" /\ ops[t] # <<>> /\ Working(t)
  <2>1. Types /\ At(t, "test")
    BY DEF Inv, TestLen
  <2> QED  BY <2>1, AtDoing DEF Working
<1>2. PICK c \in Apart : c = on[t]
  BY <1>1 DEF Types
<1>3. AtWork(t) /\ len[c] \in Nat /\ Len(Commanded(c)) \in Nat
  BY <1>1, <1>2, WorkFacts, CommandedType
<1>s. ~ Scans(t)
  BY <1>1, ScansFill DEF Filling
<1>g. PICK g \in Nat : g = offset[c]
  BY <1>1 DEF Types
<1>4. Unstored(t) = 0 /\ AddsUp(c, g, 0) /\ g \in 0..len[c]
      /\ (g = 0 \/ (ops[t][1][2] = "own" /\ ops[t][4][1] = "zero"))
  <2>1. Unstored(t) = 0
    BY <1>1, UnstoredFacts DEF Filling
  <2>2. AddsUp(c, g, 0) /\ (g = 0 \/ (ops[t][1][2] = "own" /\ ops[t][4][1] = "zero"))
    BY <1>1, <1>2, <1>3, <1>g, <1>s, <2>1 DEF AtWork, Sent
  <2> QED  BY <2>1, <2>2 DEF AddsUp, Adds
<1>5. UNCHANGED <<inbox, seen, script, due, buf, output, len, offset, valid, open,
                  reading, queue, on, wire, owed>>
  BY DEF TestLen, peer, client
<1>6. IF len[c] - g <= 0
      THEN /\ ops' = [ops EXCEPT ![t] = SubSeq(@, 4, Len(@))]
           /\ reg' = reg
      ELSE /\ reg' = [reg EXCEPT ![t].off = g, ![t].sent = 0, ![t].n = 0,
                                 ![t].size = len[c] - g]
           /\ Done(t)
  <2>1. Head(ops[t]) = ops[t][1]
    BY <1>1 DEF Types
  <2>2. (IF Head(ops[t])[2] = "own" THEN offset[on[t]] ELSE 0) = g
    BY <1>2, <1>4, <1>g, <2>1
  <2> QED  BY <1>2, <2>2, Zenon DEF TestLen
<1>7. Commanded(c)' = Commanded(c) /\ on'[t] = c /\ len'[c] = len[c] /\ offset'[c] = g
  BY <1>2, <1>5, <1>g DEF Commanded
<1>8. /\ c \in Askers => len'[c] + 0 <= 3 /\ offset'[c] = 0 /\ (t = "poll" => len'[c] = 0)
      /\ c \notin Askers => len'[c] + 0 + Len(Commanded(c)') <= MaxScript + Filler
  BY <1>2, <1>3, <1>4, <1>7, <1>g, <1>s DEF AtWork
<1>9. \A d \in Clients \ {on[t]} :
        output'[d] = output[d] /\ len'[d] = len[d]
        /\ offset'[d] = offset[d] /\ wire'[d] = wire[d]
  BY <1>5
<1>10. AddsUp(c, g, 0)'
  BY <1>4, <1>5 DEF AddsUp
<1>11. UNCHANGED <<on, buf, inbox, script, seen, owed, valid>>
       /\ UNCHANGED <<reading, queue, on, buf, inbox, script, valid>>
  BY <1>5
<1>12. CASE len[c] = g
  <2>1. ops' = [ops EXCEPT ![t] = SubSeq(@, 4, Len(@))] /\ reg' = reg
    BY <1>6, <1>12
  <2>2. /\ ListsOK' /\ ~ Scans(t)' /\ ops' \in [Threads -> Seq(Steps)]
        /\ \A u \in Threads \ {t} : ops'[u] = ops[u]
        /\ Unstored(t)' = 0 /\ Doing(t)' \in {"zero", "zerooff"}
        /\ Doing(t)' = ops[t][4][1]
    BY <1>1, <1>11, <2>1, Skips
  <2>3. Types'
    BY <1>1, <1>5, <2>1, <2>2 DEF Types
  <2>4. Sent(t)' = g /\ Doing(t)' # "write" /\ (Doing(t)' = "zerooff" => len'[c] = 0)
    BY <1>4, <1>7, <1>12, <2>2 DEF Sent
  <2>5. AtWork(t)' /\ Working(t)'
    BY <1>7, <1>8, <1>10, <2>2, <2>4, FlushAtWork
  <2>6. \A u \in Threads \ {t} : ops'[u] = ops[u] /\ reg'[u] = reg[u]
    BY <2>1, <2>2
  <2> QED  BY <1>1, <1>9, <1>11, <2>2, <2>3, <2>5, <2>6, WorkStep
<1>13. CASE len[c] # g
  <2>0. PICK n \in Nat : n = len[c] - g /\ n + g = len[c]
    BY <1>3, <1>4
  <2>1. /\ reg' = [reg EXCEPT ![t].off = g, ![t].sent = 0, ![t].n = 0, ![t].size = n]
        /\ Done(t)
    <3>1. ~ (len[c] - g <= 0)
      BY <1>3, <1>4, <1>13
    <3> QED  BY <1>6, <2>0, <3>1
  <2>2. /\ reg' \in [Threads -> Locals]
        /\ \A u \in Threads \ {t} : reg'[u] = reg[u]
        /\ reg'[t].off = g /\ reg'[t].sent = 0 /\ reg'[t].size = n
        /\ reg'[t].n = 0
    <3>1. reg \in [Threads -> Locals] /\ reg[t] \in Locals
      BY <1>1 DEF Types
    <3>3. PICK z \in Nat : z = 0
      OBVIOUS
    <3> DEFINE r == [reg[t] EXCEPT !.off = g, !.sent = z, !.n = z, !.size = n]
    <3>4. reg' = [reg EXCEPT ![t] = r]
      BY <2>1, <3>1, <3>3
    <3>5. r \in Locals /\ r.off = g /\ r.sent = z /\ r.size = n /\ r.n = z
      BY <3>1 DEF Locals
    <3> HIDE DEF r
    <3> QED  BY <3>1, <3>3, <3>4, <3>5
  <2>3. ListsOK' /\ ~ Scans(t)' /\ ops' \in [Threads -> Seq(Steps)]
        /\ \A u \in Threads \ {t} : ops'[u] = ops[u]
    BY <1>1, <1>5, <1>s, <2>1, StepOfList, Advance DEF ListsOK
  <2>4. Types'
    BY <1>1, <1>5, <2>2, <2>3 DEF Types
  <2>5. Doing(t)' = "write" /\ Unstored(t)' = 0
    BY <1>1, <1>s, <2>1, AdvanceFlush
  <2>6. Sent(t)' = g
    BY <2>2, <2>3, <2>5 DEF Sent
  <2>7. AtWork(t)' /\ Working(t)'
    <3>1. /\ reg'[t].sent + offset'[c] = reg'[t].off /\ reg'[t].size + offset'[c] = len'[c]
          /\ reg'[t].n \in {0, len'[c] - reg'[t].off}
      BY <1>7, <2>0, <2>2
    <3> QED  BY <1>7, <1>8, <1>10, <2>3, <2>5, <2>6, <3>1, FlushAtWork
  <2>8. \A u \in Threads \ {t} : ops'[u] = ops[u] /\ reg'[u] = reg[u]
    BY <2>2, <2>3
  <2> QED  BY <1>1, <1>9, <1>11, <2>3, <2>4, <2>7, <2>8, WorkStep
<1> QED  BY <1>12, <1>13

(* output_valid: the handler never sets it, and for an asker nobody does.  *)
LEMMA SetValidKeeps ==
  ASSUME Inv, NEW t \in Threads, on[t] \in Apart, SetValid(t)
  PROVE  Inv'
<1>1. Types /\ Doing(t) \in {"validate", "invalid"} /\ ops[t] # <<>>
  <2>1. Types /\ (At(t, "validate") \/ At(t, "invalid"))
    BY DEF Inv, SetValid
  <2> QED  BY <2>1, AtDoing
<1>2. t = "poll"
  <2>1. SUFFICES ASSUME t = "handler" PROVE FALSE
    BY DEF Threads
  <2>2. Doing("handler") = HandlerOp(Len(ops["handler"]))
    BY <1>1, <2>1, HandlerDoes
  <2> QED  BY <1>1, <2>1, <2>2 DEF HandlerOp
<1>3. PICK c \in Apart : c = on["poll"]
  BY <1>2
<1>s. ~ Scans(t)
  BY <1>1, ScansFill DEF Filling
<1>4. c \notin Askers
  BY <1>1, <1>2, <1>3, <1>s, PollDoes DEF AskerOps, Scans
<1>5. /\ \A d \in Clients \ {c} : valid'[d] = valid[d]
      /\ valid' \in [Clients -> BOOLEAN]
      /\ Done(t)
      /\ UNCHANGED <<inbox, seen, script, due, buf, output, len, offset, open, reading,
                     queue, on, reg, wire, owed>>
  <2>1. valid \in [Clients -> BOOLEAN]
    BY <1>1 DEF Types
  <2>2. PICK b \in BOOLEAN : valid' = [valid EXCEPT ![c] = b]
    BY <1>2, <1>3 DEF SetValid
  <2> QED  BY <2>1, <2>2 DEF SetValid, peer
<1>6. ListsOK' /\ ops' \in [Threads -> Seq(Steps)]
      /\ \A u \in Threads \ {t} : ops'[u] = ops[u]
  <2>1. \A d \in Askers : valid'[d] = valid[d]
    BY <1>4, <1>5 DEF Askers
  <2>2. UNCHANGED <<reading, queue, on, buf, inbox, script>>
    BY <1>5
  <2> QED  BY <1>1, <1>5, <1>s, <2>1, <2>2, StepOfList, Advance DEF ListsOK
<1>7. Types'
  BY <1>1, <1>5, <1>6 DEF Types
<1>8. ~ Working(t) /\ ~ Working(t)'
  <2>1. Doing(t)' \in PollAfter(Doing(t))
    BY <1>1, <1>2, <1>5, <1>s, Advance DEF Scans
  <2> QED  BY <1>1, <2>1 DEF Working, Filling, PollAfter
<1>9. BuffersOK'
  <2>1. \A d \in Clients : SameReplies(d) /\ NoMoreCommands(d)
    <3>1. SUFFICES ASSUME NEW d \in Clients PROVE SameReplies(d) /\ NoMoreCommands(d)
      OBVIOUS
    <3>2. SameReplies(d)
      BY <1>5, SameRepliesIfUnchanged
    <3>3. Commanded(d)' = Commanded(d)
      BY <1>5 DEF Commanded
    <3> QED  BY <1>1, <3>2, <3>3, NoMoreCommandsIfUnchanged
  <2>2. \A u \in Threads : \/ ~ Working(u) /\ ~ Working(u)'
                           \/ ops'[u] = ops[u] /\ on'[u] = on[u] /\ reg'[u] = reg[u]
    BY <1>5, <1>6, <1>8
  <2> QED  BY <1>7, <2>1, <2>2, NoBufferTouched
<1>10. KeysOK'
  <2>1. ASSUME NEW d \in Apart, KeysAhead(d)'
        PROVE  /\ KeysAhead(d)
               /\ valid'[d] = valid[d] /\ len'[d] = len[d] /\ offset'[d] = offset[d]
               /\ on'["poll"] = d => Doing("poll")' \in {"nothing", "next", "valid?", "close"}
    <3>1. KeysAhead(d)
      BY <1>5, <2>1 DEF KeysAhead, Commanded
    <3>2. d # c
      BY <1>1, <1>2, <1>3, <3>1 DEF Inv, KeysOK
    <3> QED  BY <1>3, <1>5, <3>1, <3>2
  <2> QED  BY <2>1, StillEmpty
<1> QED  BY <1>6, <1>7, <1>9, <1>10 DEF Inv, ListsOK

-----------------------------------------------------------------------------
(* exec_scan_keys *)

(* With nothing in the buffer that is still to be sent, it does not matter *)
(* what is in it.                                                          *)
LEMMA AddsNothing ==
  ASSUME NEW s, NEW w, NEW o, NEW out, NEW n \in Nat, NEW k, Adds(s, w, o, out, n, n, k),
         NEW put, NEW m \in Nat
  PROVE  Adds(s, w, o, put, m, m, k)
<1>1. n - n = 0 /\ m - m = 0 /\ m \in 0..m /\ m..(m - 1) = {}
  OBVIOUS
<1> QED  BY <1>1 DEF Adds

(* n is the number of steps that are left, header and next included. *)
LEMMA AboveTwo == \A n \in Nat : n >= 2 => n > 2 \/ n = 2
  OBVIOUS

(* A step of the list of exec_scan_keys. *)
LEMMA ScanStep ==
  ASSUME Inv, Scanning, Done("poll"),
         UNCHANGED <<reading, queue, on, buf, inbox, script, valid>>,
         NEW n \in Nat, n = Len(ops["poll"])
  PROVE  /\ ListsOK' /\ ops' \in [Threads -> Seq(Steps)]
         /\ \A u \in Threads \ {"poll"} : ops'[u] = ops[u]
         /\ n >= 2 /\ Doing("poll") = ScanOp(n)
         /\ n > 2 => Scans("poll")' /\ Doing("poll")' = ScanOp(n - 1) /\ Len(ops'["poll"]) = n - 1
         /\ n = 2 => Doing("poll")' = "next"
<1>1. /\ n >= 2 /\ Doing("poll") = ScanOp(n) /\ on["poll"] \notin Askers
      /\ ScanList(ops["poll"]) /\ ops["poll"] \in Seq(Steps) /\ ops["poll"] # <<>>
  <2>1. n >= 2 /\ Doing("poll") = ScanOp(n) /\ on["poll"] \notin Askers
    BY ScanDoes
  <2>2. ScanList(ops["poll"]) /\ ops["poll"] \in Seq(Steps)
    BY DEF Inv, Types, Threads, PollOK
  <2>3. ops["poll"] # <<>>
    BY <2>1, <2>2
  <2> QED  BY <2>1, <2>2, <2>3
<1>2. PICK l \in Seq(Steps), m \in Seq(Steps) : l = ops["poll"] /\ m = Tail(l)
  <2>1. Tail(ops["poll"]) \in Seq(Steps)
    BY <1>1
  <2> QED  BY <1>1, <2>1
<1>3. /\ Len(l) = n /\ Len(m) = n - 1
      /\ \A i \in 1..(n - 1) : m[i] = l[i + 1] /\ i + 1 \in 1..n
  <2>1. l # <<>> /\ Len(l) = n
    BY <1>1, <1>2
  <2>2. Len(m) = Len(l) - 1 /\ \A i \in 1..Len(m) : m[i] = l[i + 1]
    BY <1>2, <2>1
  <2> QED  BY <2>1, <2>2
<1>4. \A i \in 1..n : l[i][1] = ScanOp(n - i + 1)
  BY <1>1, <1>2, <1>3 DEF ScanList
<1>5. \A i \in 1..(n - 1) : m[i][1] = ScanOp((n - 1) - i + 1)
  <2>1. SUFFICES ASSUME NEW i \in 1..(n - 1) PROVE m[i][1] = ScanOp((n - 1) - i + 1)
    OBVIOUS
  <2>2. i + 1 \in 1..n /\ m[i] = l[i + 1] /\ n - (i + 1) + 1 = (n - 1) - i + 1
    BY <1>3
  <2> QED  BY <1>4, <2>2
<1>6. /\ ops' \in [Threads -> Seq(Steps)] /\ ops'["poll"] = m
      /\ \A u \in Threads \ {"poll"} : ops'[u] = ops[u]
  <2>1. "poll" \in Threads
    BY DEF Threads
  <2> QED  BY <1>1, <1>2, <2>1, Advance
<1>7. m # <<>> /\ Doing("poll")' = ScanOp(n - 1) /\ m[1][1] = ScanOp(n - 1)
  <2>1. m # <<>> /\ 1 \in 1..(n - 1) /\ (n - 1) - 1 + 1 = n - 1
    BY <1>1, <1>3
  <2>2. m[1][1] = ScanOp(n - 1)
    BY <1>5, <2>1
  <2> QED  BY <1>6, <2>1, <2>2 DEF Doing
<1>8. on'["poll"] = on["poll"]
  OBVIOUS
<1>9. n > 2 => Scanning' /\ PollOK'
  <2>1. SUFFICES ASSUME n > 2 PROVE Scanning' /\ PollOK'
    OBVIOUS
  <2>2. n - 2 \in 1..(n - 1) /\ (n - 1) - (n - 2) + 1 = 2
    BY <2>1
  <2>3. m[n - 2][1] = "header"
    <3>1. ScanOp(2) = "header"
      BY DEF ScanOp
    <3> QED  BY <1>5, <2>2, <3>1
  <2>4. Scanning'
    BY <1>3, <1>6, <2>2, <2>3 DEF Scanning
  <2>5. ScanList(ops'["poll"])
    BY <1>3, <1>5, <1>6 DEF ScanList
  <2> QED  BY <1>1, <1>8, <2>4, <2>5 DEF PollOK, Askers
<1>10. n = 2 => PollOK' /\ Doing("poll")' = "next"
  <2>1. SUFFICES ASSUME n = 2 PROVE PollOK' /\ Doing("poll")' = "next"
    OBVIOUS
  <2>2. n - 1 = 1
    BY <2>1
  <2>3. ScanOp(n - 1) = "next"
    <3>1. ScanOp(1) = "next"
      BY DEF ScanOp
    <3> QED  BY <2>2, <3>1
  <2>4. PollList(m, FALSE)
    BY <1>3, <1>7, <2>2, <2>3 DEF PollList, PollAfter
  <2>5. (on'["poll"] \in Askers) = FALSE
    BY <1>1, <1>8
  <2>6. PollList(ops'["poll"], on'["poll"] \in Askers)
    BY <1>6, <2>4, <2>5
  <2> QED  BY <1>7, <2>3, <2>6, NoHeaderNext
<1>11. \A c \in Clients : Commanded(c)' = Commanded(c)
  BY DEF Commanded
<1>12. CommandsOK'
  BY <1>11 DEF Inv, CommandsOK, Askers
<1>13. ops'["handler"] = ops["handler"] /\ HandlerList(ops'["handler"])
  BY <1>6 DEF Inv, Threads
<1>14. AloneOK'
  <2>1. UNCHANGED <<reading, queue, on>>
    OBVIOUS
  <2> QED  BY <1>1, <1>11, <1>13, <2>1, StillAlone, Zenon
<1>15. PollOK'
  <2>0. n >= 2
    BY <1>1
  <2>1. n > 2 \/ n = 2
    BY <2>0, AboveTwo, Zenon
  <2> QED  BY <2>1, <1>9, <1>10, Zenon
<1>16. ListsOK'
  BY <1>12, <1>13, <1>14, <1>15 DEF ListsOK
<1> QED  BY <1>1, <1>3, <1>6, <1>7, <1>9, <1>10, <1>16 DEF Scans

(* What holds of the client whose keys are listed. *)
LEMMA ScanFacts ==
  ASSUME Inv, Scanning, NEW c \in Clients, c = on["poll"]
  PROVE  /\ Working("poll") /\ AtWork("poll") /\ c \notin Askers /\ offset[c] = 0
         /\ len[c] \in Nat /\ len[c] \in Cells /\ Len(Commanded(c)) \in Nat
         /\ Adds(seen[c], wire[c], owed[c], output[c], len[c], len[c], 1)
         /\ owed[c][Len(owed[c])] = "header"
         /\ Len(ops["poll"]) + ScanRest("poll") = 3 * (Filler - len[c]) + 2
         /\ 1 + Len(Commanded(c)) <= MaxScript
<1>1. Doing("poll") \in Filling /\ c \notin Askers
  BY ScanDoes
<1>2. Working("poll") /\ Unstored("poll") = 1 /\ "poll" \in Threads /\ Scans("poll")
  BY <1>1 DEF Working, Unstored, Threads, Scans, Scanning
<1>3. /\ AtWork("poll") /\ len[c] \in Nat /\ 0..len[c] \subseteq Cells
      /\ Len(Commanded(c)) \in Nat
  BY <1>2, WorkFacts, CommandedType DEF Inv
<1>4. AtScan("poll") /\ AddsUp(c, Sent("poll"), 1)
  BY <1>2, <1>3 DEF AtWork
<1>5. Sent("poll") = len[c]
  BY <1>1, <1>2 DEF Sent, Filling
<1>6. owed[c][Len(owed[c])] = "header"
  <2>0. owed[c] \in Seq(Symbols)
    BY DEF Inv, Types
  <2>1. PICK k \in Nat : k = Len(owed[c])
    BY <2>0
  <2>2. k - 1 + 1 = k
    OBVIOUS
  <2>3. owed[c][k - 1 + 1] = "header"
    BY <1>2, <1>4, <2>1 DEF AtScan, NextCell
  <2> QED  BY <2>1, <2>2, <2>3
<1>7. len[c] \in Cells
  <2>1. len[c] \in 0..len[c]
    BY <1>3
  <2> QED  BY <1>3, <2>1
<1> QED  BY <1>1, <1>2, <1>3, <1>4, <1>5, <1>6, <1>7 DEF AtScan, AddsUp

(* The parts of AtWork while keys are listed. *)
LEMMA ScanAtWork ==
  ASSUME Types', NEW c \in Clients, on'["poll"] = c, c \notin Askers, Scans("poll")',
         Doing("poll")' \in Filling, offset'[c] = 0,
         Adds(seen'[c], wire'[c], owed'[c], output'[c], len'[c], len'[c], 1),
         owed'[c][Len(owed'[c])] = "header",
         Len(ops'["poll"]) + ScanRest("poll")' = 3 * (Filler - len'[c]) + 2,
         1 + Len(Commanded(c)') <= MaxScript,
         Doing("poll")' = "store" => reg'["poll"].tmp = len'[c] + 1
  PROVE  AtWork("poll")' /\ Working("poll")'
<1>1. Working("poll")' /\ Unstored("poll")' = 1
  BY DEF Working, Unstored, Scans, Scanning
<1>2. Sent("poll")' = len'[c]
  BY DEF Sent, Filling
<1>3. AddsUp(on["poll"], Sent("poll"), Unstored("poll"))'
  BY <1>1, <1>2 DEF AddsUp
<1>4. NextCell("poll")' = "header"
  <2>1. PICK k \in Nat : k = Len(owed'[c])
    BY DEF Types
  <2>2. k - 1 + 1 = k
    OBVIOUS
  <2> QED  BY <1>1, <2>1, <2>2 DEF NextCell
<1>5. AtScan("poll")'
  BY <1>4 DEF AtScan
<1> QED  BY <1>1, <1>3, <1>5 DEF AtWork, Filling

(* The filler is written: it goes where no cell is still to be sent. *)
LEMMA ScanCopyKeeps ==
  ASSUME Inv, Scanning, Copy("poll")
  PROVE  Inv'
<1>1. PICK c \in Apart : c = on["poll"]
  BY DEF Scanning
<1>2. /\ Working("poll") /\ AtWork("poll") /\ c \notin Askers /\ offset[c] = 0
      /\ len[c] \in Nat /\ len[c] \in Cells /\ Len(Commanded(c)) \in Nat
      /\ Adds(seen[c], wire[c], owed[c], output[c], len[c], len[c], 1)
      /\ owed[c][Len(owed[c])] = "header"
      /\ Len(ops["poll"]) + ScanRest("poll") = 3 * (Filler - len[c]) + 2
      /\ 1 + Len(Commanded(c)) <= MaxScript
  BY <1>1, ScanFacts
<1>3. Types /\ Doing("poll") = "copy" /\ "poll" \in Threads /\ ops["poll"] \in Seq(Steps)
      /\ ops["poll"] # <<>>
  <2>1. Types /\ At("poll", "copy") /\ "poll" \in Threads
    BY DEF Inv, Copy, Threads
  <2> QED  BY <2>1, AtDoing
<1>4. PICK x \in Symbols : x = Head(ops["poll"])[2]
  <2>1. Head(ops["poll"]) \in Steps /\ Head(ops["poll"])[1] = "copy"
    BY <1>3 DEF Copy, At
  <2> QED  BY <2>1 DEF Steps
<1>5. /\ output' = [output EXCEPT ![c][len[c]] = x]
      /\ Done("poll")
      /\ UNCHANGED <<inbox, seen, script, due, buf, len, offset, valid, open, reading,
                     queue, on, reg, wire, owed>>
  BY <1>1, <1>4 DEF Copy, peer
<1>6. /\ \A d \in Clients \ {c} : output'[d] = output[d]
      /\ output' \in [Clients -> [Cells -> Symbols]]
  BY <1>2, <1>3, <1>5 DEF Types
<1>7. PICK n \in Nat : n = Len(ops["poll"])
  BY <1>3
<1>8. /\ ListsOK' /\ ops' \in [Threads -> Seq(Steps)]
      /\ \A u \in Threads \ {"poll"} : ops'[u] = ops[u]
      /\ n >= 2 /\ ScanOp(n) = "copy"
      /\ n > 2 => Scans("poll")' /\ Doing("poll")' = ScanOp(n - 1) /\ Len(ops'["poll"]) = n - 1
  <2>1. UNCHANGED <<reading, queue, on, buf, inbox, script, valid>>
    BY <1>5
  <2> QED  BY <1>3, <1>5, <1>7, <2>1, ScanStep
<1>9. n > 2 /\ ScanOp(n - 1) = "load"
  <2>1. n > 2 /\ n % 3 = 2
    BY <1>8 DEF ScanOp
  <2>2. PICK k \in Nat : k = n - 1 /\ k % 3 = 1 /\ k > 1 /\ k # 2
    BY <2>1
  <2>3. ScanOp(k) = "load"
    BY <2>2 DEF ScanOp
  <2> QED  BY <2>1, <2>2, <2>3
<1>10. Types'
  BY <1>3, <1>5, <1>6, <1>8 DEF Types
<1>11. AtWork("poll")' /\ Working("poll")'
  <2>1. on'["poll"] = c /\ len' = len /\ offset'[c] = 0 /\ owed' = owed
        /\ 1 + Len(Commanded(c)') <= MaxScript
    BY <1>1, <1>2, <1>5 DEF Commanded
  <2>2. Doing("poll")' = "load" /\ Scans("poll")' /\ Len(ops'["poll"]) = n - 1
    BY <1>8, <1>9
  <2>3. Adds(seen'[c], wire'[c], owed'[c], output'[c], len'[c], len'[c], 1)
    BY <1>2, <1>5, AddsNothing
  <2>4. Len(ops'["poll"]) + ScanRest("poll")' = 3 * (Filler - len'[c]) + 2
    <3>1. ScanRest("poll") = 0 /\ ScanRest("poll")' = 1
      BY <1>3, <2>2 DEF ScanRest
    <3>2. n + 0 = (n - 1) + 1
      OBVIOUS
    <3> QED  BY <1>2, <1>7, <2>1, <2>2, <3>1, <3>2
  <2>5. Doing("poll")' \in Filling /\ Doing("poll")' # "store"
    BY <2>2 DEF Filling
  <2> QED  BY <1>2, <1>10, <2>1, <2>2, <2>3, <2>4, <2>5, ScanAtWork
<1>12. \A d \in Clients \ {on["poll"]} :
         output'[d] = output[d] /\ len'[d] = len[d]
         /\ offset'[d] = offset[d] /\ wire'[d] = wire[d]
  BY <1>1, <1>5, <1>6
<1>13. UNCHANGED <<on, buf, inbox, script, seen, owed, valid>>
       /\ \A u \in Threads \ {"poll"} : ops'[u] = ops[u] /\ reg'[u] = reg[u]
  BY <1>5, <1>8
<1> QED  BY <1>2, <1>3, <1>8, <1>10, <1>11, <1>12, <1>13, WorkStep

LEMMA ScanLoadKeeps ==
  ASSUME Inv, Scanning, Load("poll")
  PROVE  Inv'
<1>1. PICK c \in Apart : c = on["poll"]
  BY DEF Scanning
<1>2. /\ Working("poll") /\ AtWork("poll") /\ c \notin Askers /\ offset[c] = 0
      /\ len[c] \in Nat /\ len[c] \in Cells /\ Len(Commanded(c)) \in Nat
      /\ Adds(seen[c], wire[c], owed[c], output[c], len[c], len[c], 1)
      /\ owed[c][Len(owed[c])] = "header"
      /\ Len(ops["poll"]) + ScanRest("poll") = 3 * (Filler - len[c]) + 2
      /\ 1 + Len(Commanded(c)) <= MaxScript
  BY <1>1, ScanFacts
<1>3. Types /\ Doing("poll") = "load" /\ "poll" \in Threads /\ ops["poll"] \in Seq(Steps)
      /\ ops["poll"] # <<>>
  <2>1. Types /\ At("poll", "load") /\ "poll" \in Threads
    BY DEF Inv, Load, Threads
  <2> QED  BY <2>1, AtDoing
<1>4. PICK x \in Nat : x = len[c] + 1
  BY <1>2
<1>5. /\ reg' = [reg EXCEPT !["poll"].tmp = x]
      /\ Done("poll")
      /\ UNCHANGED <<inbox, seen, script, due, buf, output, len, offset, valid, open, reading,
                     queue, on, wire, owed>>
  BY <1>1, <1>4 DEF Load, peer, client
<1>6. /\ reg' \in [Threads -> Locals] /\ reg'["poll"].tmp = x
      /\ \A u \in Threads \ {"poll"} : reg'[u] = reg[u]
  <2>1. reg \in [Threads -> Locals] /\ reg["poll"] \in Locals
    BY <1>3 DEF Types
  <2> DEFINE r == [reg["poll"] EXCEPT !.tmp = x]
  <2>2. reg' = [reg EXCEPT !["poll"] = r]
    BY <1>5, <2>1
  <2>3. r \in Locals /\ r.tmp = x
    BY <2>1 DEF Locals
  <2> HIDE DEF r
  <2> QED  BY <1>3, <2>1, <2>2, <2>3
<1>7. PICK n \in Nat : n = Len(ops["poll"])
  BY <1>3
<1>8. /\ ListsOK' /\ ops' \in [Threads -> Seq(Steps)]
      /\ \A u \in Threads \ {"poll"} : ops'[u] = ops[u]
      /\ n >= 2 /\ ScanOp(n) = "load"
      /\ n > 2 => Scans("poll")' /\ Doing("poll")' = ScanOp(n - 1) /\ Len(ops'["poll"]) = n - 1
  <2>1. UNCHANGED <<reading, queue, on, buf, inbox, script, valid>>
    BY <1>5
  <2> QED  BY <1>3, <1>5, <1>7, <2>1, ScanStep
<1>9. n > 2 /\ ScanOp(n - 1) = "store"
  <2>1. n > 2 /\ n % 3 = 1
    BY <1>8 DEF ScanOp
  <2>2. PICK k \in Nat : k = n - 1 /\ k % 3 = 0 /\ k > 1 /\ k # 2
    BY <2>1
  <2>3. ScanOp(k) = "store"
    BY <2>2 DEF ScanOp
  <2> QED  BY <2>1, <2>2, <2>3
<1>10. Types'
  BY <1>3, <1>5, <1>6, <1>8 DEF Types
<1>11. AtWork("poll")' /\ Working("poll")'
  <2>1. on'["poll"] = c /\ len' = len /\ offset'[c] = 0 /\ owed' = owed
        /\ 1 + Len(Commanded(c)') <= MaxScript
    BY <1>1, <1>2, <1>5 DEF Commanded
  <2>2. Doing("poll")' = "store" /\ Scans("poll")' /\ Len(ops'["poll"]) = n - 1
    BY <1>8, <1>9
  <2>3. Adds(seen'[c], wire'[c], owed'[c], output'[c], len'[c], len'[c], 1)
    BY <1>2, <1>5
  <2>4. Len(ops'["poll"]) + ScanRest("poll")' = 3 * (Filler - len'[c]) + 2
    <3>1. ScanRest("poll") = 1 /\ ScanRest("poll")' = 2
      BY <1>3, <2>2 DEF ScanRest
    <3>2. n + 1 = (n - 1) + 2
      OBVIOUS
    <3> QED  BY <1>2, <1>7, <2>1, <2>2, <3>1, <3>2
  <2>5. Doing("poll")' \in Filling /\ reg'["poll"].tmp = len'[c] + 1
    BY <1>4, <1>6, <2>1, <2>2 DEF Filling
  <2> QED  BY <1>2, <1>10, <2>1, <2>2, <2>3, <2>4, <2>5, ScanAtWork
<1>12. \A d \in Clients \ {on["poll"]} :
         output'[d] = output[d] /\ len'[d] = len[d]
         /\ offset'[d] = offset[d] /\ wire'[d] = wire[d]
  BY <1>1, <1>5
<1>13. UNCHANGED <<on, buf, inbox, script, seen, owed, valid>>
       /\ \A u \in Threads \ {"poll"} : ops'[u] = ops[u] /\ reg'[u] = reg[u]
  BY <1>5, <1>6, <1>8
<1> QED  BY <1>2, <1>3, <1>8, <1>10, <1>11, <1>12, <1>13, WorkStep

LEMMA ScanStoreKeeps ==
  ASSUME Inv, Scanning, SetLen("poll")
  PROVE  Inv'
<1>1. PICK c \in Apart : c = on["poll"]
  BY DEF Scanning
<1>2. /\ Working("poll") /\ AtWork("poll") /\ c \notin Askers /\ offset[c] = 0
      /\ len[c] \in Nat /\ len[c] \in Cells /\ Len(Commanded(c)) \in Nat
      /\ Adds(seen[c], wire[c], owed[c], output[c], len[c], len[c], 1)
      /\ owed[c][Len(owed[c])] = "header"
      /\ Len(ops["poll"]) + ScanRest("poll") = 3 * (Filler - len[c]) + 2
      /\ 1 + Len(Commanded(c)) <= MaxScript
  BY <1>1, ScanFacts
<1>0. At("poll", "store") /\ ~ At("poll", "zero")
  <2>1. Doing("poll") \in Filling
    BY ScanDoes
  <2>2. ~ At("poll", "zero")
    <3>1. Types /\ "poll" \in Threads
      BY DEF Inv, Threads
    <3> QED  BY <2>1, <3>1, AtDoing DEF Filling
  <2> QED  BY <2>2 DEF SetLen
<1>3. Types /\ Doing("poll") = "store" /\ "poll" \in Threads /\ ops["poll"] \in Seq(Steps)
      /\ ops["poll"] # <<>>
  <2>1. Types /\ "poll" \in Threads
    BY DEF Inv, Threads
  <2> QED  BY <1>0, <2>1, AtDoing
<1>4. PICK x \in Nat : x = len[c] + 1 /\ x = reg["poll"].tmp
  BY <1>1, <1>2, <1>3 DEF AtWork
<1>5. /\ len' = [len EXCEPT ![c] = x]
      /\ reg' = [reg EXCEPT !["poll"] = NoLocals]
      /\ Done("poll")
      /\ UNCHANGED <<inbox, seen, script, due, buf, output, offset, valid, open, reading,
                     queue, on, wire, owed>>
  BY <1>0, <1>1, <1>4 DEF SetLen, peer
<1>6. /\ len'[c] = x /\ len' \in [Clients -> Nat]
      /\ \A d \in Clients \ {c} : len'[d] = len[d]
      /\ reg' \in [Threads -> Locals]
      /\ \A u \in Threads \ {"poll"} : reg'[u] = reg[u]
  BY <1>3, <1>5, LenStored
<1>7. PICK n \in Nat : n = Len(ops["poll"])
  BY <1>3
<1>8. /\ ListsOK' /\ ops' \in [Threads -> Seq(Steps)]
      /\ \A u \in Threads \ {"poll"} : ops'[u] = ops[u]
      /\ n >= 2 /\ ScanOp(n) = "store"
      /\ n > 2 => Scans("poll")' /\ Doing("poll")' = ScanOp(n - 1) /\ Len(ops'["poll"]) = n - 1
  <2>1. UNCHANGED <<reading, queue, on, buf, inbox, script, valid>>
    BY <1>5
  <2> QED  BY <1>3, <1>5, <1>7, <2>1, ScanStep
<1>9. n > 2 /\ ScanOp(n - 1) \in {"header", "copy"}
  <2>1. n > 2 /\ n % 3 = 0
    BY <1>8 DEF ScanOp
  <2>2. PICK k \in Nat : k = n - 1 /\ k % 3 = 2 /\ k > 1
    BY <2>1
  <2>3. ScanOp(k) \in {"header", "copy"}
    BY <2>2 DEF ScanOp
  <2> QED  BY <2>1, <2>2, <2>3
<1>10. Types'
  BY <1>3, <1>5, <1>6, <1>8 DEF Types
<1>11. AtWork("poll")' /\ Working("poll")'
  <2>1. on'["poll"] = c /\ offset'[c] = 0 /\ owed' = owed
        /\ 1 + Len(Commanded(c)') <= MaxScript
    BY <1>1, <1>2, <1>5 DEF Commanded
  <2>2. Doing("poll")' \in {"header", "copy"} /\ Scans("poll")' /\ Len(ops'["poll"]) = n - 1
    BY <1>8, <1>9
  <2>3. Adds(seen'[c], wire'[c], owed'[c], output'[c], len'[c], len'[c], 1)
    BY <1>2, <1>5, <1>6, AddsNothing
  <2>4. Len(ops'["poll"]) + ScanRest("poll")' = 3 * (Filler - len'[c]) + 2
    <3>1. ScanRest("poll") = 2 /\ ScanRest("poll")' = 0
      BY <1>3, <2>2 DEF ScanRest
    <3>2. Filler \in Nat
      BY ReplyPathAssumption, Zenon
    <3>3. n + 2 = 3 * (Filler - len[c]) + 2
      BY <1>2, <1>7, <3>1
    <3>4. (n - 1) + 0 = 3 * (Filler - x) + 2
      <4>1. PICK y \in Nat : y = len[c]
        BY <1>2
      <4>2. x = y + 1 /\ n + 2 = 3 * (Filler - y) + 2
        BY <1>4, <3>3, <4>1
      <4> QED  BY <3>2, <4>2
    <3> QED  BY <1>6, <2>2, <3>1, <3>4
  <2>5. Doing("poll")' \in Filling /\ Doing("poll")' # "store"
    BY <2>2 DEF Filling
  <2> QED  BY <1>2, <1>10, <2>1, <2>2, <2>3, <2>4, <2>5, ScanAtWork
<1>12. \A d \in Clients \ {on["poll"]} :
         output'[d] = output[d] /\ len'[d] = len[d]
         /\ offset'[d] = offset[d] /\ wire'[d] = wire[d]
  BY <1>1, <1>5, <1>6
<1>13. UNCHANGED <<on, buf, inbox, script, seen, owed, valid>>
       /\ \A u \in Threads \ {"poll"} : ops'[u] = ops[u] /\ reg'[u] = reg[u]
  BY <1>5, <1>6, <1>8
<1> QED  BY <1>2, <1>3, <1>8, <1>10, <1>11, <1>12, <1>13, WorkStep

(* The header takes the last cell of the filler, and output_offset says so. *)
LEMMA HeaderKeeps ==
  ASSUME Inv, NEW t \in Threads, on[t] \in Apart, SetOffset(t), At(t, "header")
  PROVE  Inv'
<1>0. t = "poll" /\ Types /\ Doing("poll") = "header" /\ "poll" \in Threads
      /\ ops["poll"] \in Seq(Steps) /\ ops["poll"] # <<>> /\ Scanning
  <2>1. Types /\ Doing(t) = "header" /\ ops[t] # <<>> /\ ops[t] \in Seq(Steps)
    BY AtDoing DEF Inv
  <2>2. t = "poll"
    <3>1. SUFFICES ASSUME t = "handler" PROVE FALSE
      BY DEF Threads
    <3>2. Doing("handler") = HandlerOp(Len(ops["handler"]))
      BY <2>1, <3>1, HandlerDoes
    <3> QED  BY <2>1, <3>1, <3>2 DEF HandlerOp
  <2>3. Scanning
    <3>1. 1 \in 1..Len(ops["poll"]) /\ ops["poll"][1][1] = "header"
      BY <2>1, <2>2 DEF Doing
    <3> QED  BY <2>2, <3>1 DEF Scanning
  <2> QED  BY <2>1, <2>2, <2>3
<1>1. PICK c \in Apart : c = on["poll"]
  BY <1>0 DEF Types
<1>2. /\ Working("poll") /\ AtWork("poll") /\ c \notin Askers /\ offset[c] = 0
      /\ len[c] \in Nat /\ len[c] \in Cells /\ Len(Commanded(c)) \in Nat
      /\ Adds(seen[c], wire[c], owed[c], output[c], len[c], len[c], 1)
      /\ owed[c][Len(owed[c])] = "header"
      /\ Len(ops["poll"]) + ScanRest("poll") = 3 * (Filler - len[c]) + 2
      /\ 1 + Len(Commanded(c)) <= MaxScript
  BY <1>0, <1>1, ScanFacts
<1>3. MaxScript \in Nat /\ Filler \in Nat \ {0}
  BY ReplyPathAssumption, Zenon
<1>4. PICK x \in Nat : x = Filler - 1 /\ x + 1 = Filler
  BY <1>3
<1>5. /\ output' = [output EXCEPT ![c][x] = "header"]
      /\ offset' = [offset EXCEPT ![c] = x]
      /\ Done("poll")
      /\ UNCHANGED <<inbox, seen, script, due, buf, len, valid, open, reading,
                     queue, on, reg, wire, owed>>
  <2>1. ~ At("poll", "zerooff")
    BY <1>0 DEF At
  <2> QED  BY <1>0, <1>1, <1>4, <2>1 DEF SetOffset, peer
<1>7. PICK n \in Nat : n = Len(ops["poll"])
  BY <1>0
<1>8. /\ ListsOK' /\ ops' \in [Threads -> Seq(Steps)]
      /\ \A u \in Threads \ {"poll"} : ops'[u] = ops[u]
      /\ n >= 2 /\ ScanOp(n) = "header" /\ (n = 2 => Doing("poll")' = "next")
  <2>1. UNCHANGED <<reading, queue, on, buf, inbox, script, valid>>
    BY <1>5
  <2> QED  BY <1>0, <1>5, <1>7, <2>1, ScanStep
<1>9. n = 2 /\ Doing("poll")' = "next" /\ len[c] = Filler
  <2>1. n = 2
    BY <1>8 DEF ScanOp
  <2>2. ScanRest("poll") = 0
    BY <1>0 DEF ScanRest
  <2>3. 2 + 0 = 3 * (Filler - len[c]) + 2
    BY <1>2, <1>7, <2>1, <2>2
  <2> QED  BY <1>2, <1>3, <1>8, <2>1, <2>3
<1>6. /\ \A d \in Clients \ {c} : output'[d] = output[d] /\ offset'[d] = offset[d]
      /\ output' \in [Clients -> [Cells -> Symbols]] /\ output'[c][x] = "header"
      /\ offset' \in [Clients -> Nat] /\ offset'[c] = x
  <2>1. x \in Cells
    <3>1. x \in 0..len[c] /\ 0..len[c] \subseteq Cells
      <4>1. 0..len[c] \subseteq Cells
        BY <1>0, <1>1, <1>2, WorkFacts
      <4>2. x + 1 = len[c]
        BY <1>4, <1>9
      <4>3. x \in 0..len[c]
        BY <1>2, <4>2
      <4> QED  BY <4>1, <4>3
    <3> QED  BY <3>1
  <2>2. "header" \in Symbols
    BY DEF Symbols, Replies
  <2> QED  BY <1>0, <1>5, <2>1, <2>2 DEF Types
<1>10. Types'
  BY <1>0, <1>5, <1>6, <1>8 DEF Types
<1>11. ~ Working("poll")' /\ AtRest(on["poll"])'
  <2>1. ~ Working("poll")'
    BY <1>9 DEF Working, Filling
  <2>2. Adds(seen[c], wire[c], owed[c], output'[c], x + 1, x, 0)
    <3>1. PICK a \in Nat, b \in Nat, k \in Nat :
            a = Len(seen[c]) /\ b = Len(wire[c]) /\ k = Len(owed[c])
      BY <1>0 DEF Types
    <3>2. k = a + b + (len[c] - len[c]) + 1
      BY <1>2, <3>1 DEF Adds
    <3>3. k = a + b + 1
      BY <1>2, <3>2
    <3>4. /\ \A i \in 1..a : owed[c][i] = seen[c][i]
          /\ \A i \in 1..b : owed[c][a + i] = wire[c][i]
      BY <1>2, <3>1 DEF Adds
    <3>5. ASSUME NEW i \in x..((x + 1) - 1)
          PROVE  owed[c][a + b + (i - x) + 1] = output'[c][i]
      <4>1. i = x /\ a + b + (i - x) + 1 = k
        BY <3>3
      <4> QED  BY <1>2, <1>6, <3>1, <4>1
    <3>6. x \in 0..(x + 1) /\ k = a + b + ((x + 1) - x) + 0
      BY <3>3
    <3> QED  BY <3>1, <3>4, <3>5, <3>6 DEF Adds
  <2>3. on'["poll"] = c /\ len'[c] = x + 1 /\ offset'[c] = x
    BY <1>1, <1>4, <1>5, <1>6, <1>9
  <2>4. AddsUp(on["poll"], offset[on["poll"]], 0)'
    BY <1>5, <2>2, <2>3 DEF AddsUp
  <2>5. len'[c] + Len(Commanded(c)') <= MaxScript + Filler
    <3>1. Commanded(c)' = Commanded(c)
      BY <1>5 DEF Commanded
    <3>2. (x + 1) + Len(Commanded(c)) <= MaxScript + Filler
      BY <1>2, <1>3, <1>4
    <3> QED  BY <2>3, <3>1, <3>2
  <2> QED  BY <1>2, <2>1, <2>3, <2>4, <2>5 DEF AtRest
<1>12. \A d \in Clients \ {on["poll"]} :
         output'[d] = output[d] /\ len'[d] = len[d]
         /\ offset'[d] = offset[d] /\ wire'[d] = wire[d]
  BY <1>1, <1>5, <1>6
<1>13. UNCHANGED <<on, buf, inbox, script, seen, owed, valid>>
       /\ \A u \in Threads \ {"poll"} : ops'[u] = ops[u] /\ reg'[u] = reg[u]
  BY <1>5, <1>8
<1> QED  BY <1>0, <1>2, <1>8, <1>10, <1>11, <1>12, <1>13, WorkStep

-----------------------------------------------------------------------------
(* The peers, the engine and end_req_Q *)

(* The threads stay where they are, and what is owed adds up as before. *)
LEMMA ThreadsStay ==
  ASSUME Inv, Types', UNCHANGED <<reading, queue, on, ops, reg, valid>>,
         \A c \in Apart : Commanded(c)' = Commanded(c) /\ SameReplies(c)
  PROVE  Inv'
<1>1. CommandsOK'
  BY DEF Inv, CommandsOK, Askers
<1>2. Working("poll")' = Working("poll") /\ Doing("poll")' = Doing("poll")
  BY DEF Working, Doing
<1>3. /\ UNCHANGED <<reading, queue, on>> /\ ops'["handler"] = ops["handler"]
      /\ \A c \in Apart : Commanded(c)' = Commanded(c)
  OBVIOUS
<1>4. AloneOK'
  BY <1>2, <1>3, StillAlone, Zenon
<1>5. BuffersOK'
  <2>1. Types
    BY DEF Inv
  <2>2. \A c \in Apart : SameReplies(c) /\ NoMoreCommands(c)
    BY <2>1, NoMoreCommandsIfUnchanged
  <2>3. \A t \in Threads : ops'[t] = ops[t] /\ on'[t] = on[t] /\ reg'[t] = reg[t]
    OBVIOUS
  <2> QED  BY <2>2, <2>3, NoBufferTouched
<1>6. ops' = ops /\ on' = on
  OBVIOUS
<1>7. PollOK'
  BY <1>6, SamePollList
<1>8. KeysOK'
  <2>1. ASSUME NEW c \in Apart, KeysAhead(c)'
        PROVE  /\ KeysAhead(c)
               /\ valid'[c] = valid[c] /\ len'[c] = len[c] /\ offset'[c] = offset[c]
               /\ on'["poll"] = c => Doing("poll")' \in {"nothing", "next", "valid?", "close"}
    <3>1. KeysAhead(c)
      BY <2>1 DEF KeysAhead
    <3> QED  BY <1>2, <1>6, <3>1 DEF SameReplies, Inv, KeysOK
  <2> QED  BY <2>1, StillEmpty
<1> QED  BY <1>1, <1>4, <1>5, <1>6, <1>7, <1>8 DEF Inv

(* A command moves on from the peer to the socket. *)
LEMMA SendCommandKeeps ==
  ASSUME Inv, NEW c \in Clients, SendCommand(c)
  PROVE  Inv'
<1>1. Types
  BY DEF Inv
<1>2. /\ script[c] # <<>>
      /\ script' = [script EXCEPT ![c] = Tail(@)]
      /\ inbox' = [inbox EXCEPT ![c] = Append(@, Head(script[c]))]
      /\ UNCHANGED <<buf, output, len, offset, valid, open, reading, queue, ops, on, reg,
                     wire, seen, owed>>
  BY DEF SendCommand, client, thread
<1>3. /\ inbox \in [Clients -> Seq(Commands)] /\ script \in [Clients -> Seq(Commands)]
      /\ buf \in [Clients -> Seq(Commands)]
  BY <1>1 DEF Types
<1>4. Tail(script[c]) \in Seq(Commands) /\ Append(inbox[c], Head(script[c])) \in Seq(Commands)
  BY <1>2, <1>3
<1>5. /\ script'[c] = Tail(script[c]) /\ inbox'[c] = Append(inbox[c], Head(script[c]))
      /\ \A d \in Clients \ {c} : script'[d] = script[d] /\ inbox'[d] = inbox[d]
      /\ script' \in [Clients -> Seq(Commands)] /\ inbox' \in [Clients -> Seq(Commands)]
  BY <1>2, <1>3, <1>4
<1>6. Types'
  BY <1>1, <1>2, <1>5 DEF Types
<1>7. ASSUME NEW d \in Clients PROVE Commanded(d)' = Commanded(d) /\ SameReplies(d)
  <2>1. SameReplies(d)
    BY <1>2, SameRepliesIfUnchanged
  <2>2. CASE d = c
    <3>1. (buf[c] \o Append(inbox[c], Head(script[c]))) \o Tail(script[c])
            = (buf[c] \o inbox[c]) \o script[c]
      <4>1. buf[c] \in Seq(Commands) /\ inbox[c] \in Seq(Commands)
            /\ script[c] \in Seq(Commands) /\ script[c] # <<>>
        BY <1>2, <1>3
      <4> QED  BY <4>1, MovesOn, Zenon
    <3> QED  BY <1>2, <1>5, <2>1, <2>2, <3>1 DEF Commanded
  <2>3. CASE d # c
    BY <1>2, <1>5, <2>1, <2>3 DEF Commanded
  <2> QED  BY <2>2, <2>3
<1>8. UNCHANGED <<reading, queue, on, ops, reg, valid>>
  BY <1>2
<1> QED  BY <1>6, <1>7, <1>8, ThreadsStay

(* The peer takes a cell from the socket. *)
LEMMA ReadReplyKeeps ==
  ASSUME Inv, NEW c \in Clients, ReadReply(c)
  PROVE  Inv'
<1>1. Types
  BY DEF Inv
<1>2. /\ wire[c] # <<>>
      /\ seen' = [seen EXCEPT ![c] = Append(@, Head(wire[c]))]
      /\ wire' = [wire EXCEPT ![c] = Tail(@)]
      /\ UNCHANGED <<inbox, buf, output, len, offset, valid, open, reading, queue, ops, on,
                     reg, owed, script, due>>
  BY DEF ReadReply, client, thread
<1>3. seen \in [Clients -> Seq(Symbols)] /\ wire \in [Clients -> Seq(Symbols)]
      /\ owed[c] \in Seq(Symbols) /\ len[c] \in Nat
  BY <1>1 DEF Types
<1>4. Tail(wire[c]) \in Seq(Symbols) /\ Append(seen[c], Head(wire[c])) \in Seq(Symbols)
  BY <1>2, <1>3
<1>5. /\ wire'[c] = Tail(wire[c]) /\ seen'[c] = Append(seen[c], Head(wire[c]))
      /\ \A d \in Clients \ {c} : seen'[d] = seen[d] /\ wire'[d] = wire[d]
      /\ wire' \in [Clients -> Seq(Symbols)] /\ seen' \in [Clients -> Seq(Symbols)]
  BY <1>2, <1>3, <1>4
<1>6. Types'
  BY <1>1, <1>2, <1>5 DEF Types
<1>7. SameReplies(c)
  <2>1. ASSUME NEW f, NEW k, AddsUp(c, f, k) PROVE AddsUp(c, f, k)'
    <3>1. Adds(seen[c], wire[c], owed[c], output[c], len[c], f, k)
      BY <2>1 DEF AddsUp
    <3>2. seen[c] \in Seq(Symbols) /\ wire[c] \in Seq(Symbols)
      BY <1>3
    <3>3. Adds(Append(seen[c], Head(wire[c])), Tail(wire[c]), owed[c], output[c], len[c], f, k)
      BY <1>2, <1>3, <3>1, <3>2, AddsRead, Zenon
    <3> QED  BY <1>2, <1>5, <3>3 DEF AddsUp
  <2> QED  BY <1>2, <2>1 DEF SameReplies
<1>8. \A d \in Clients : Commanded(d)' = Commanded(d) /\ SameReplies(d)
  <2>1. \A d \in Clients \ {c} : SameReplies(d)
    BY <1>2, <1>5, SameRepliesIfUnchanged
  <2> QED  BY <1>2, <1>7, <2>1 DEF Commanded
<1>9. UNCHANGED <<reading, queue, on, ops, reg, valid>>
  BY <1>2
<1> QED  BY <1>6, <1>8, <1>9, ThreadsStay

(* The engine hands over a read: only an asker's, and none of one whose    *)
(* MGET is still to come.                                                  *)
LEMMA EngineFinishesKeeps ==
  ASSUME Inv, NEW c \in Clients, NEW found \in BOOLEAN, EngineFinishes(c, found)
  PROVE  Inv'
<1>1. Types
  BY DEF Inv
<1>2. /\ reading[c] > 0
      /\ reading' = [reading EXCEPT ![c] = @ - 1]
      /\ queue' = Append(queue, <<c, found>>)
      /\ UNCHANGED <<inbox, seen, script, due, buf, output, len, offset, valid, open, ops,
                     on, reg, wire, owed>>
  BY DEF EngineFinishes, peer, client, thread
<1>3. reading \in [Clients -> Nat] /\ queue \in Seq(Clients \X BOOLEAN)
  BY <1>1 DEF Types
<1>4. /\ reading' \in [Clients -> Nat] /\ \A d \in Clients \ {c} : reading'[d] = reading[d]
      /\ queue' \in Seq(Clients \X BOOLEAN)
  <2>1. reading[c] - 1 \in Nat /\ <<c, found>> \in Clients \X BOOLEAN
    BY <1>2, <1>3
  <2> QED  BY <1>2, <1>3, <2>1
<1>5. Types'
  BY <1>1, <1>2, <1>4 DEF Types
<1>6. ~ Alone(c)
  BY <1>2 DEF Alone
<1>7. ASSUME NEW d \in Clients, Alone(d) PROVE Alone(d)'
  <2>1. d # c
    BY <1>6, <1>7
  <2>2. reading'[d] = 0 /\ (on'["handler"] = d => ops'["handler"] = <<>>)
    BY <1>2, <1>4, <1>7, <2>1 DEF Alone
  <2>3. ASSUME NEW i \in 1..Len(queue') PROVE queue'[i][1] # d
    <3>1. \A k \in 1..Len(queue) : queue[k][1] # d
      BY <1>7 DEF Alone
    <3>2. <<c, found>>[1] # d
      BY <2>1
    <3>3. queue'[i] = <<c, found>> \/ \E k \in 1..Len(queue) : queue'[i] = queue[k]
      BY <1>2, <1>3, <2>3
    <3> QED  BY <3>1, <3>2, <3>3
  <2> QED  BY <2>2, <2>3 DEF Alone
<1>8. \A d \in Clients : Commanded(d)' = Commanded(d) /\ MgetAhead(d)' = MgetAhead(d)
  BY <1>2 DEF Commanded, MgetAhead
<1>9. Working("poll")' = Working("poll") /\ Doing("poll")' = Doing("poll")
  BY <1>2 DEF Working, Doing
<1>10. AloneOK'
  <2>1. on' = on /\ on["poll"] \in Clients
    BY <1>1, <1>2 DEF Types, Threads
  <2> QED  BY <1>7, <1>8, <1>9, <2>1 DEF Inv, AloneOK
<1>11. CommandsOK'
  BY <1>2, <1>8 DEF Inv, CommandsOK, Askers
<1>12. BuffersOK'
  <2>1. \A d \in Clients : SameReplies(d) /\ NoMoreCommands(d)
    BY <1>1, <1>2, <1>8, SameRepliesIfUnchanged, NoMoreCommandsIfUnchanged
  <2>2. \A t \in Threads : ops'[t] = ops[t] /\ on'[t] = on[t] /\ reg'[t] = reg[t]
    BY <1>2
  <2> QED  BY <1>5, <2>1, <2>2, NoBufferTouched
<1>13. ops' = ops /\ on' = on
  BY <1>2
<1>14. PollOK'
  BY <1>13, SamePollList
<1>15. KeysOK'
  <2>1. ASSUME NEW d \in Apart, KeysAhead(d)'
        PROVE  /\ KeysAhead(d)
               /\ valid'[d] = valid[d] /\ len'[d] = len[d] /\ offset'[d] = offset[d]
               /\ on'["poll"] = d => Doing("poll")' \in {"nothing", "next", "valid?", "close"}
    <3>1. KeysAhead(d)
      BY <1>8, <2>1 DEF KeysAhead
    <3> QED  BY <1>2, <1>9, <3>1 DEF Inv, KeysOK
  <2> QED  BY <2>1, StillEmpty
<1> QED  BY <1>5, <1>10, <1>11, <1>12, <1>13, <1>14, <1>15 DEF Inv

(* end_req_q_handler takes up a read and produces its answer. *)
LEMMA HandlerDequeuesKeeps ==
  ASSUME Inv, HandlerDequeues, Head(queue)[1] \in Apart
  PROVE  Inv'
<1>1. Types /\ ops["handler"] = <<>> /\ queue # <<>>
  BY DEF Inv, HandlerDequeues
<1>2. queue \in Seq(Clients \X BOOLEAN) /\ ops \in [Threads -> Seq(Steps)]
      /\ on \in [Threads -> Clients] /\ owed \in [Clients -> Seq(Symbols)]
  BY <1>1 DEF Types
<1>3. PICK c \in Apart, found \in BOOLEAN :
        Head(queue) = <<c, found>> /\ Head(queue)[1] = c /\ Head(queue)[2] = found
        /\ queue[1][1] = c
  BY <1>1, <1>2
<1>4. PICK cells : cells = IF found THEN <<"bulk", "crlf">> ELSE <<"nil">>
  OBVIOUS
<1>5. PICK k \in {1, 2} : k = IF found THEN 2 ELSE 1
  OBVIOUS
<1>6. /\ cells \in Seq(Symbols) /\ Len(cells) = k
      /\ cells[1] = (IF found THEN "bulk" ELSE "nil")
      /\ k = 2 => cells[2] = "crlf"
  <2>1. {"bulk", "crlf", "nil"} \subseteq Symbols
    BY DEF Symbols, Replies
  <2>2. CASE found
    BY <1>4, <1>5, <2>1, <2>2
  <2>3. CASE ~ found
    BY <1>4, <1>5, <2>1, <2>3
  <2> QED  BY <2>2, <2>3
<1>7. /\ queue' = Tail(queue)
      /\ on' = [on EXCEPT !["handler"] = c]
      /\ ops' = [ops EXCEPT !["handler"] = Answer(found)]
      /\ owed' = [owed EXCEPT ![c] = @ \o cells]
      /\ UNCHANGED <<inbox, seen, script, due, buf, output, len, offset, valid, open,
                     reading, reg, wire>>
  BY <1>3, <1>4 DEF HandlerDequeues, Owes, peer, client
<1>8. ~ Alone(c)
  <2>1. 1 \in 1..Len(queue)
    BY <1>1, <1>2
  <2> QED  BY <1>3, <2>1 DEF Alone
<1>9. /\ c \in Askers /\ ~ MgetAhead(c)
      /\ Working("poll") => on["poll"] # c
  BY <1>8 DEF Inv, AloneOK
<1>10. ~ Working("handler") /\ ~ Touched(c) /\ AtRest(c)
  <2>1. ~ Working("handler")
    BY <1>1 DEF Working, Doing, Filling
  <2>2. ~ Touched(c)
    BY <1>9, <2>1 DEF Touched, Threads
  <2> QED  BY <2>1, <2>2 DEF Inv, BuffersOK
<1>11. AddsUp(c, 0, 0) /\ len[c] \in Nat /\ len[c] <= 1 /\ offset[c] = 0
  BY <1>1, <1>9, <1>10 DEF AtRest, Types
<1>12. /\ ops' \in [Threads -> Seq(Steps)] /\ ops'["handler"] = Answer(found)
       /\ ops'["poll"] = ops["poll"]
       /\ on' \in [Threads -> Clients] /\ on'["handler"] = c /\ on'["poll"] = on["poll"]
  BY <1>2, <1>7, AnswerList DEF Threads
<1>13. queue' \in Seq(Clients \X BOOLEAN)
       /\ \A d : (\A i \in 1..Len(queue) : queue[i][1] # d)
                 => \A i \in 1..Len(queue') : queue'[i][1] # d
  <2>1. /\ Tail(queue) \in Seq(Clients \X BOOLEAN)
        /\ \A i \in 1..Len(Tail(queue)) : i + 1 \in 1..Len(queue)
                                         /\ Tail(queue)[i] = queue[i + 1]
    BY <1>1, <1>2
  <2> QED  BY <1>7, <2>1
<1>14. /\ owed'[c] = owed[c] \o cells
       /\ \A d \in Clients \ {c} : owed'[d] = owed[d]
       /\ owed' \in [Clients -> Seq(Symbols)]
  <2>1. owed[c] \o cells \in Seq(Symbols)
    BY <1>2, <1>6
  <2> QED  BY <1>2, <1>7, <2>1
<1>15. Types'
  BY <1>1, <1>7, <1>12, <1>13, <1>14 DEF Types
<1>16. \A d \in Clients : Commanded(d)' = Commanded(d) /\ MgetAhead(d)' = MgetAhead(d)
  BY <1>7 DEF Commanded, MgetAhead
<1>17. HandlerList(ops'["handler"]) /\ PollOK' /\ CommandsOK' /\ KeysOK'
  <2>1. CommandsOK'
    BY <1>7, <1>16 DEF Inv, CommandsOK, Askers
  <2>2. PollOK'
    BY <1>12, SamePollList
  <2>3. ASSUME NEW d \in Apart, KeysAhead(d)'
        PROVE  /\ KeysAhead(d)
               /\ valid'[d] = valid[d] /\ len'[d] = len[d] /\ offset'[d] = offset[d]
               /\ on'["poll"] = d => Doing("poll")' \in {"nothing", "next", "valid?", "close"}
    <3>1. KeysAhead(d)
      BY <1>16, <2>3 DEF KeysAhead
    <3>2. Doing("poll")' = Doing("poll")
      BY <1>12 DEF Doing
    <3> QED  BY <1>7, <1>12, <3>1, <3>2 DEF Inv, KeysOK
  <2>4. KeysOK'
    BY <2>3, StillEmpty
  <2> QED  BY <1>12, <2>1, <2>2, <2>4, AnswerList
<1>18. AloneOK'
  <2>1. ASSUME NEW d \in Clients, Alone(d) PROVE Alone(d)'
    <3>1. d # c
      BY <1>8, <2>1
    <3> QED  BY <1>7, <1>12, <1>13, <2>1, <3>1 DEF Alone
  <2>2. Working("poll")' = Working("poll") /\ Doing("poll")' = Doing("poll")
    BY <1>12 DEF Working, Doing
  <2>3. on["poll"] \in Clients
    BY <1>2 DEF Threads
  <2> QED  BY <1>12, <1>16, <2>1, <2>2, <2>3 DEF Inv, AloneOK
<1>19. /\ Doing("handler")' = "copy" /\ Unstored("handler")' = k /\ Sent("handler")' = 0
       /\ ~ Scans("handler")' /\ ops'["handler"][1][2] = cells[1]
  <2>1. /\ Answer(found) # <<>> /\ Len(Answer(found)) = (IF found THEN 11 ELSE 8)
        /\ Answer(found)[1] = <<"copy", IF found THEN "bulk" ELSE "nil">>
    BY AnswerList
  <2>2. Doing("handler")' = "copy" /\ ops'["handler"][1][2] = cells[1]
    BY <1>6, <1>12, <2>1 DEF Doing
  <2>3. Unstored("handler")' = k
    <3>1. CASE found
      BY <1>5, <1>12, <2>1, <3>1 DEF Unstored
    <3>2. CASE ~ found
      BY <1>5, <1>12, <2>1, <3>2 DEF Unstored
    <3> QED  BY <3>1, <3>2
  <2>4. ~ Scans("handler")'
    BY DEF Scans
  <2> QED  BY <1>7, <1>11, <1>12, <2>2, <2>3, <2>4 DEF Sent
<1>20. /\ AddsUp(c, 0, k)'
       /\ owed'[c][Len(owed'[c]) - k + 1] = cells[1]
       /\ k = 2 => owed'[c][Len(owed'[c])] = "crlf"
  <2>1. seen[c] \in Seq(Symbols) /\ wire[c] \in Seq(Symbols) /\ owed[c] \in Seq(Symbols)
    BY <1>1 DEF Types
  <2>2. Adds(seen[c], wire[c], owed[c], output[c], len[c], 0, 0)
    BY <1>11 DEF AddsUp
  <2>3. Adds(seen[c], wire[c], owed[c] \o cells, output[c], len[c], 0, Len(cells))
    BY <1>6, <1>11, <2>1, <2>2, AddsOwe, Zenon
  <2>4. PICK n \in Nat : n = Len(owed[c])
    BY <2>1
  <2>5. Len(owed'[c]) = n + k /\ \A i \in 1..k : owed'[c][n + i] = cells[i]
    <3>1. /\ Len(owed[c] \o cells) = Len(owed[c]) + Len(cells)
          /\ \A i \in 1..Len(cells) : (owed[c] \o cells)[Len(owed[c]) + i] = cells[i]
      BY <1>6, <2>1
    <3> QED  BY <1>6, <1>14, <2>4, <3>1
  <2>6. AddsUp(c, 0, k)'
    BY <1>6, <1>7, <1>14, <2>3 DEF AddsUp
  <2>7. (n + k) - k + 1 = n + 1 /\ 1 \in 1..k /\ (k = 2 => 2 \in 1..k)
    OBVIOUS
  <2>8. owed'[c][Len(owed'[c]) - k + 1] = cells[1]
    BY <2>5, <2>7
  <2> QED  BY <1>6, <2>5, <2>6, <2>7, <2>8
<1>21. AtWork("handler")'
  <2>1. NextCell("handler")' = cells[1]
    BY <1>12, <1>19, <1>20 DEF NextCell
  <2>2. AddsUp(on["handler"], Sent("handler"), Unstored("handler"))'
    BY <1>12, <1>19, <1>20 DEF AddsUp
  <2>3. c \in Askers /\ len'[c] + k <= 3 /\ offset'[c] = 0
    BY <1>7, <1>9, <1>11
  <2> QED  BY <1>12, <1>19, <1>20, <2>1, <2>2, <2>3 DEF AtWork
<1>22. BuffersOK'
  <2>1. "handler" \in Threads /\ Threads \ {"handler"} = {"poll"}
    BY DEF Threads
  <2>2. \A u \in Threads \ {"handler"} :
          ops'[u] = ops[u] /\ on'[u] = on[u] /\ reg'[u] = reg[u]
                           /\ (Working(u) => on[u] # c)
    BY <1>7, <1>9, <1>12, <2>1
  <2>3. \A d \in Clients \ {c} : SameReplies(d) /\ NoMoreCommands(d)
    BY <1>1, <1>7, <1>14, <1>16, SameRepliesIfUnchanged, NoMoreCommandsIfUnchanged
  <2>4. Working("handler")'
    BY <1>12, <1>19 DEF Working, Filling
  <2> QED  BY <1>10, <1>12, <1>15, <1>21, <2>1, <2>2, <2>3, <2>4, OneBufferTouched
<1> QED  BY <1>15, <1>17, <1>18, <1>22 DEF Inv

-----------------------------------------------------------------------------
(* client_exec_commands *)

(* The poll thread goes to a step that is not about a buffer, with l as    *)
(* its list, and touches no buffer.                                        *)
LEMMA PollElsewhere ==
  ASSUME Inv, NEW l \in Seq(Steps), NEW c \in Apart,
         ops' = [ops EXCEPT !["poll"] = l],
         on' = [on EXCEPT !["poll"] = c],
         ~ Working("poll"), l # <<>>, l[1][1] \in {"next", "valid?"},
         PollList(l, c \in Askers),
         \A d \in Clients : Commanded(d)' = Commanded(d),
         buf' \in [Clients -> Seq(Commands)], inbox' \in [Clients -> Seq(Commands)],
         UNCHANGED <<script, output, len, offset, valid, reading, queue, reg, wire, seen,
                     owed>>
  PROVE  Inv'
<1>1. Types
  BY DEF Inv
<1>2. ops \in [Threads -> Seq(Steps)] /\ on \in [Threads -> Clients]
  BY <1>1 DEF Types
<1>3. /\ ops' \in [Threads -> Seq(Steps)] /\ on' \in [Threads -> Clients]
      /\ ops'["poll"] = l /\ ops'["handler"] = ops["handler"]
      /\ on'["poll"] = c /\ on'["handler"] = on["handler"]
  BY <1>2 DEF Threads
<1>4. Types'
  BY <1>1, <1>3 DEF Types
<1>5. Doing("poll")' \in {"next", "valid?"} /\ ~ Working("poll")'
  BY <1>3 DEF Doing, Working, Filling
<1>6. CommandsOK'
  BY DEF Inv, CommandsOK, Askers
<1>7. AloneOK'
  <2>1. \A d \in Clients : Alone(d) => Alone(d)'
    BY <1>3 DEF Alone
  <2>2. \A d \in Clients : MgetAhead(d)' = MgetAhead(d)
    BY DEF MgetAhead
  <2>3. Doing("poll")' \notin Filling \cup {"read"}
    BY <1>5 DEF Filling
  <2> QED  BY <1>5, <2>1, <2>2, <2>3 DEF Inv, AloneOK
<1>8. BuffersOK'
  <2>1. \A d \in Clients : SameReplies(d) /\ NoMoreCommands(d)
    BY <1>1, SameRepliesIfUnchanged, NoMoreCommandsIfUnchanged
  <2>2. \A t \in Threads : \/ ~ Working(t) /\ ~ Working(t)'
                           \/ ops'[t] = ops[t] /\ on'[t] = on[t] /\ reg'[t] = reg[t]
    BY <1>3, <1>5 DEF Threads
  <2> QED  BY <1>4, <2>1, <2>2, NoBufferTouched
<1>9. PollOK'
  BY <1>3, NoHeaderNext
<1>10. KeysOK'
  <2>1. \A d \in Clients : KeysAhead(d)' => KeysAhead(d)
    BY DEF KeysAhead
  <2> QED  BY <1>5, <2>1, StillEmpty
<1> QED  BY <1>3, <1>4, <1>6, <1>7, <1>8, <1>9, <1>10 DEF Inv

(* on_read receives the commands of c. *)
LEMMA OnReadKeeps ==
  ASSUME Inv, NEW c \in Apart, OnRead(c)
  PROVE  Inv'
<1>1. Types /\ ops["poll"] = <<>>
  BY DEF Inv, OnRead
<1>2. /\ buf' = [buf EXCEPT ![c] = @ \o inbox[c]]
      /\ inbox' = [inbox EXCEPT ![c] = <<>>]
      /\ on' = [on EXCEPT !["poll"] = c]
      /\ ops' = [ops EXCEPT !["poll"] = Execute]
      /\ UNCHANGED <<script, output, len, offset, valid, reading, queue, reg, wire, seen,
                     owed>>
  BY DEF OnRead, client
<1>3. /\ buf \in [Clients -> Seq(Commands)] /\ inbox \in [Clients -> Seq(Commands)]
      /\ script \in [Clients -> Seq(Commands)]
  BY <1>1 DEF Types
<1>4. /\ buf'[c] = buf[c] \o inbox[c] /\ inbox'[c] = <<>>
      /\ \A d \in Clients \ {c} : buf'[d] = buf[d] /\ inbox'[d] = inbox[d]
      /\ buf' \in [Clients -> Seq(Commands)] /\ inbox' \in [Clients -> Seq(Commands)]
  <2>1. buf[c] \o inbox[c] \in Seq(Commands) /\ <<>> \in Seq(Commands)
    BY <1>3
  <2> QED  BY <1>2, <1>3, <2>1
<1>5. ASSUME NEW d \in Clients PROVE Commanded(d)' = Commanded(d)
  <2>1. CASE d = c
    <3>1. (buf[c] \o inbox[c]) \o <<>> = buf[c] \o inbox[c]
      <4>1. buf[c] \o inbox[c] \in Seq(Commands)
        BY <1>3
      <4> QED  BY <4>1, ConcatEmptySeq
    <3> QED  BY <1>2, <1>4, <2>1, <3>1 DEF Commanded
  <2>2. CASE d # c
    BY <1>2, <1>4, <2>2 DEF Commanded
  <2> QED  BY <2>1, <2>2
<1>6. ~ Working("poll")
  BY <1>1 DEF Working, Doing, Filling
<1>7. /\ Execute \in Seq(Steps) /\ Execute # <<>> /\ Execute[1][1] \in {"next", "valid?"}
      /\ PollList(Execute, c \in Askers)
  <2>1. (c \in Askers) \in BOOLEAN
    OBVIOUS
  <2> QED  BY <2>1, ShortLists
<1> QED  BY <1>2, <1>4, <1>5, <1>6, <1>7, PollElsewhere

(* No more commands. *)
LEMMA ExecNoneKeeps ==
  ASSUME Inv, on["poll"] \in Apart, ExecNone
  PROVE  Inv'
<1>1. Types /\ Doing("poll") = "next" /\ ops["poll"] # <<>>
  <2>1. Types /\ At("poll", "next") /\ "poll" \in Threads
    BY DEF Inv, ExecNone, Threads
  <2> QED  BY <2>1, AtDoing
<1>2. PICK c \in Apart : c = on["poll"]
  BY <1>1 DEF Types, Threads
<1>3. /\ ops' = [ops EXCEPT !["poll"] = FlushIfValid]
      /\ UNCHANGED <<inbox, buf, on>>
      /\ UNCHANGED <<script, output, len, offset, valid, reading, queue, reg, wire, seen,
                     owed>>
  BY DEF ExecNone, Continue, peer, client
<1>4. on' = [on EXCEPT !["poll"] = c]
  <2>1. on \in [Threads -> Clients]
    BY <1>1 DEF Types
  <2> QED  BY <1>2, <1>3, <2>1
<1>5. \A d \in Clients : Commanded(d)' = Commanded(d)
  BY <1>3 DEF Commanded
<1>6. ~ Working("poll") /\ buf' \in [Clients -> Seq(Commands)]
      /\ inbox' \in [Clients -> Seq(Commands)]
  BY <1>1, <1>3 DEF Working, Filling, Types
<1>7. /\ FlushIfValid \in Seq(Steps) /\ FlushIfValid # <<>>
      /\ FlushIfValid[1][1] \in {"next", "valid?"}
      /\ PollList(FlushIfValid, c \in Askers)
  <2>1. (c \in Askers) \in BOOLEAN
    OBVIOUS
  <2> QED  BY <2>1, ShortLists
<1> QED  BY <1>3, <1>4, <1>5, <1>6, <1>7, PollElsewhere

(* A command is taken from the buffer of c. *)
LEMMA Executes ==
  ASSUME Inv, on["poll"] \in Apart, NEW command, Does(command), UNCHANGED <<inbox, script>>,
         NEW c \in Clients, c = on["poll"]
  PROVE  /\ Doing("poll") = "next" /\ ops["poll"] # <<>> /\ ~ Working("poll")
         /\ buf' \in [Clients -> Seq(Commands)]
         /\ \A d \in Clients \ {c} : Commanded(d)' = Commanded(d)
         /\ \A d \in Clients : NoMoreCommands(d)
         /\ Len(Commanded(c)) \in Nat /\ Len(Commanded(c)') = Len(Commanded(c)) - 1
         /\ c \in Askers => command \in Asking /\ Asks(Commanded(c)')
         /\ c \notin Askers => /\ command \in Telling /\ Tells(Commanded(c)')
                              /\ 1 + Len(Commanded(c)') <= MaxScript
         /\ command = "mget" => MgetAhead(c)
         /\ c \in Askers /\ command # "echo" => ~ MgetAhead(c)'
         /\ command = "keys" => KeysAhead(c)
         /\ command # "echo" => ~ KeysAhead(c)'
<1>1. Types
  BY DEF Inv
<1>2. Doing("poll") = "next" /\ ops["poll"] # <<>> /\ ~ Working("poll")
  <2>1. At("poll", "next") /\ "poll" \in Threads
    BY DEF Does, Threads
  <2> QED  BY <1>1, <2>1, AtDoing DEF Working, Filling
<1>3. /\ buf[c] # <<>> /\ Head(buf[c]) = command
      /\ buf' = [buf EXCEPT ![c] = Tail(@)]
  BY DEF Does
<1>4. /\ buf \in [Clients -> Seq(Commands)] /\ inbox \in [Clients -> Seq(Commands)]
      /\ script \in [Clients -> Seq(Commands)]
  BY <1>1 DEF Types
<1>5. /\ buf'[c] = Tail(buf[c]) /\ buf' \in [Clients -> Seq(Commands)]
      /\ \A d \in Clients \ {c} : buf'[d] = buf[d]
  <2>1. Tail(buf[c]) \in Seq(Commands)
    BY <1>3, <1>4
  <2> QED  BY <1>3, <1>4, <2>1
<1>6. \A d \in Clients \ {c} : Commanded(d)' = Commanded(d)
  BY <1>5 DEF Commanded
<1>7. PICK m : m = Commanded(c)'
  OBVIOUS
<1>8. PICK p \in Seq(Commands) : p = Commanded(c)
  BY <1>1, CommandedType
<1>9. /\ m \in Seq(Commands) /\ Len(m) = Len(p) - 1 /\ Len(p) \in Nat \ {0}
      /\ p[1] = command
      /\ \A k \in 1..Len(m) : m[k] = p[k + 1]
  <2>1. PICK b \in Seq(Commands), i \in Seq(Commands), s \in Seq(Commands) :
          b = buf[c] /\ i = inbox[c] /\ s = script[c] /\ b # <<>>
    BY <1>3, <1>4
  <2>2. p = (b \o i) \o s /\ m = (Tail(b) \o i) \o s
    BY <1>5, <1>7, <1>8, <2>1 DEF Commanded
  <2>3. IsBehind((Tail(b) \o i) \o s, (b \o i) \o s, Head(b))
    BY <2>1, Takes, Zenon
  <2>4. IsBehind(m, p, command)
    BY <1>3, <2>1, <2>2, <2>3, Zenon
  <2> QED  BY <2>4 DEF IsBehind
<1>10. PICK q \in Nat : q = Len(m) /\ Len(p) = q + 1
  BY <1>9
<1>11. \A k \in 1..q : k + 1 \in 1..(q + 1) /\ m[k] = p[k + 1]
  BY <1>9, <1>10
<1>12. ASSUME Asks(p)
       PROVE  command \in Asking /\ Asks(m) /\ (command # "echo" => \A k \in 1..q : m[k] # "mget")
  <2>1. p \in Seq(Asking) /\ \A k \in 1..(q + 1) : p[k] \in Asking
    BY <1>10, <1>12 DEF Asks, Before
  <2>2. \A j \in 1..(q + 1) : p[j] = "mget" => \A i \in 1..(j - 1) : p[i] = "echo"
    BY <1>10, <1>12 DEF Asks, Before
  <2>3. 1 \in 1..(q + 1)
    OBVIOUS
  <2>4. command \in Asking
    BY <1>9, <2>1, <2>3
  <2>5. m \in Seq(Asking)
    BY <1>9, <1>10, <1>11, <2>1
  <2>6. ASSUME NEW j \in 1..q, m[j] = "mget", NEW i \in 1..(j - 1)
        PROVE  m[i] = "echo"
    <3>1. j + 1 \in 1..(q + 1) /\ p[j + 1] = "mget" /\ i \in 1..q
          /\ i + 1 \in 1..((j + 1) - 1)
      BY <1>11, <2>6
    <3>2. p[i + 1] = "echo"
      BY <2>2, <3>1
    <3> QED  BY <1>11, <3>1, <3>2
  <2>7. ASSUME NEW k \in 1..q, m[k] = "mget" PROVE command = "echo"
    <3>1. k + 1 \in 1..(q + 1) /\ p[k + 1] = "mget" /\ 1 \in 1..((k + 1) - 1)
      BY <1>11, <2>7
    <3> QED  BY <1>9, <2>2, <3>1
  <2>8. Asks(m)
    BY <1>10, <2>5, <2>6 DEF Asks, Before
  <2> QED  BY <2>4, <2>7, <2>8
<1>13. ASSUME Tells(p)
       PROVE  command \in Telling /\ Tells(m) /\ (command # "echo" => \A k \in 1..q : m[k] # "keys")
  <2>1. \A k \in 1..(q + 1) : p[k] \in Telling
    BY <1>10, <1>13 DEF Tells, Before
  <2>2. \A j \in 1..(q + 1) : p[j] = "keys" => \A i \in 1..(j - 1) : p[i] = "echo"
    BY <1>10, <1>13 DEF Tells, Before
  <2>3. 1 \in 1..(q + 1)
    OBVIOUS
  <2>4. command \in Telling
    BY <1>9, <2>1, <2>3
  <2>5. m \in Seq(Telling)
    BY <1>9, <1>10, <1>11, <2>1
  <2>6. ASSUME NEW j \in 1..q, m[j] = "keys", NEW i \in 1..(j - 1)
        PROVE  m[i] = "echo"
    <3>1. j + 1 \in 1..(q + 1) /\ p[j + 1] = "keys" /\ i \in 1..q
          /\ i + 1 \in 1..((j + 1) - 1)
      BY <1>11, <2>6
    <3>2. p[i + 1] = "echo"
      BY <2>2, <3>1
    <3> QED  BY <1>11, <3>1, <3>2
  <2>7. ASSUME NEW k \in 1..q, m[k] = "keys" PROVE command = "echo"
    <3>1. k + 1 \in 1..(q + 1) /\ p[k + 1] = "keys" /\ 1 \in 1..((k + 1) - 1)
      BY <1>11, <2>7
    <3> QED  BY <1>9, <2>2, <3>1
  <2>8. Tells(m)
    BY <1>10, <2>5, <2>6 DEF Tells, Before
  <2> QED  BY <2>4, <2>7, <2>8
<1>14. MgetAhead(c) <=> \E k \in 1..(q + 1) : p[k] = "mget"
  BY <1>8, <1>10 DEF MgetAhead
<1>15. MgetAhead(c)' <=> \E k \in 1..q : m[k] = "mget"
  BY <1>7, <1>10 DEF MgetAhead
<1>20. KeysAhead(c) <=> \E k \in 1..(q + 1) : p[k] = "keys"
  BY <1>8, <1>10 DEF KeysAhead
<1>21. KeysAhead(c)' <=> \E k \in 1..q : m[k] = "keys"
  BY <1>7, <1>10 DEF KeysAhead
<1>16. \A d \in Clients : NoMoreCommands(d)
  <2>1. NoMoreCommands(c)
    <3>1. MgetAhead(c)' => MgetAhead(c)
      BY <1>11, <1>14, <1>15
    <3>2. Len(m) <= Len(p)
      BY <1>10
    <3>3. KeysAhead(c)' => KeysAhead(c)
      BY <1>11, <1>20, <1>21
    <3> QED  BY <1>7, <1>8, <3>1, <3>2, <3>3 DEF NoMoreCommands
  <2>2. \A d \in Clients \ {c} : NoMoreCommands(d)
    BY <1>1, <1>6, NoMoreCommandsIfUnchanged
  <2> QED  BY <2>1, <2>2
<1>17. (command = "mget" => MgetAhead(c)) /\ (command = "keys" => KeysAhead(c))
  <2>1. 1 \in 1..(q + 1)
    OBVIOUS
  <2> QED  BY <1>9, <1>14, <1>20, <2>1
<1>18. Len(Commanded(c)) \in Nat /\ Len(Commanded(c)') = Len(Commanded(c)) - 1
  BY <1>7, <1>8, <1>9
<1>19. IF c \in Askers THEN Asks(p) ELSE Tells(p)
  BY <1>8 DEF Inv, CommandsOK
<1>22. command # "echo" => ~ KeysAhead(c)'
  <2>1. CASE c \in Askers
    <3>1. m \in Seq(Asking)
      BY <1>12, <1>19, <2>1 DEF Asks, Before
    <3>2. \A k \in 1..q : m[k] # "keys"
      BY <1>10, <3>1 DEF Asking
    <3> QED  BY <1>21, <3>2
  <2>2. CASE c \notin Askers
    BY <1>13, <1>19, <1>21, <2>2
  <2> QED  BY <2>1, <2>2
<1>23. c \notin Askers => 1 + Len(Commanded(c)') <= MaxScript
  <2>1. c \notin Askers => Len(p) <= MaxScript
    BY <1>8 DEF Inv, CommandsOK
  <2>2. 1 + Len(m) = Len(p)
    BY <1>10
  <2> QED  BY <1>7, <2>1, <2>2
<1>24. /\ c \in Askers => command \in Asking /\ Asks(Commanded(c)')
       /\ c \notin Askers => command \in Telling /\ Tells(Commanded(c)')
  BY <1>7, <1>12, <1>13, <1>19
<1>25. c \in Askers /\ command # "echo" => ~ MgetAhead(c)'
  BY <1>12, <1>15, <1>19
<1> QED  BY <1>2, <1>5, <1>6, <1>16, <1>17, <1>18, <1>22, <1>23, <1>24, <1>25

(* Commands that leave the threads where they are: exec_get, exec_ok. *)
LEMMA QuietCommand ==
  ASSUME Inv, on["poll"] \in Apart, NEW command, Does(command), command \in {"get", "echo"},
         UNCHANGED <<inbox, script, output, len, offset, valid, queue, ops, on, reg, wire,
                     seen, owed>>,
         reading' \in [Clients -> Nat],
         \A d \in Clients : d # on["poll"] \/ command = "echo" => reading'[d] = reading[d]
  PROVE  Inv'
<1>1. Types
  BY DEF Inv
<1>2. PICK c \in Apart : c = on["poll"]
  BY <1>1 DEF Types, Threads
<1>3. UNCHANGED <<inbox, script>>
  OBVIOUS
<1>4. /\ Doing("poll") = "next" /\ ~ Working("poll")
      /\ buf' \in [Clients -> Seq(Commands)]
      /\ \A d \in Clients \ {c} : Commanded(d)' = Commanded(d)
      /\ \A d \in Clients : NoMoreCommands(d)
      /\ c \in Askers => Asks(Commanded(c)')
      /\ c \notin Askers => /\ command \in Telling /\ Tells(Commanded(c)')
                           /\ Len(Commanded(c)') <= MaxScript
      /\ c \in Askers /\ command # "echo" => ~ MgetAhead(c)'
  <2>1. /\ Len(Commanded(c)) \in Nat /\ Len(Commanded(c)') = Len(Commanded(c)) - 1
        /\ c \notin Askers => 1 + Len(Commanded(c)') <= MaxScript
    BY <1>2, <1>3, Executes
  <2>2. c \notin Askers => Len(Commanded(c)') <= MaxScript
    <3>1. MaxScript \in Nat
      BY ReplyPathAssumption, Zenon
    <3> QED  BY <2>1, <3>1
  <2> QED  BY <1>2, <1>3, <2>2, Executes
<1>5. Types'
  BY <1>1, <1>4 DEF Types
<1>6. CommandsOK'
  <2>1. ASSUME NEW d \in Apart
        PROVE  IF d \in Askers THEN Asks(Commanded(d)') /\ valid'[d] = FALSE
               ELSE Tells(Commanded(d)') /\ Len(Commanded(d)') <= MaxScript
    <3>1. valid' = valid
      OBVIOUS
    <3>2. CASE d = c
      BY <1>4, <3>1, <3>2 DEF Inv, CommandsOK
    <3>3. CASE d # c
      BY <1>4, <3>1, <3>3 DEF Inv, CommandsOK
    <3> QED  BY <3>2, <3>3
  <2> QED  BY <2>1 DEF CommandsOK, Askers, Asks, Tells, Before
<1>7. AloneOK'
  <2>1. ASSUME NEW d \in Apart, d \notin Askers \/ MgetAhead(d)' PROVE Alone(d)'
    <3>1. Alone(d)
      BY <1>4, <2>1 DEF Inv, AloneOK, NoMoreCommands
    <3>2. reading'[d] = reading[d]
      <4>1. SUFFICES ASSUME d = c, command = "get" PROVE FALSE
        BY <1>2
      <4> QED  BY <1>4, <2>1, <4>1 DEF Telling
    <3> QED  BY <3>1, <3>2 DEF Alone
  <2>2. Doing("poll")' = "next" /\ ~ Working("poll")'
    BY <1>4 DEF Doing, Working
  <2>3. Doing("poll")' \notin Filling \cup {"read"}
    BY <2>2 DEF Filling
  <2> QED  BY <2>1, <2>2, <2>3 DEF AloneOK, Askers
<1>8. BuffersOK'
  <2>1. \A d \in Clients : SameReplies(d) /\ NoMoreCommands(d)
    BY <1>4, SameRepliesIfUnchanged
  <2>2. \A t \in Threads : ops'[t] = ops[t] /\ on'[t] = on[t] /\ reg'[t] = reg[t]
    OBVIOUS
  <2> QED  BY <1>5, <2>1, <2>2, NoBufferTouched
<1>9. ops' = ops /\ on' = on
  OBVIOUS
<1>10. PollOK'
  BY <1>9, SamePollList
<1>11. KeysOK'
  <2>1. ASSUME NEW d \in Apart, KeysAhead(d)'
        PROVE  /\ KeysAhead(d)
               /\ valid'[d] = valid[d] /\ len'[d] = len[d] /\ offset'[d] = offset[d]
               /\ on'["poll"] = d => Doing("poll")' \in {"nothing", "next", "valid?", "close"}
    <3>1. KeysAhead(d)
      BY <1>4, <2>1 DEF NoMoreCommands
    <3>2. Doing("poll")' = Doing("poll")
      BY DEF Doing
    <3> QED  BY <1>4, <3>1, <3>2
  <2> QED  BY <2>1, StillEmpty
<1> QED  BY <1>5, <1>6, <1>7, <1>8, <1>9, <1>10, <1>11 DEF Inv

LEMMA ExecGetKeeps ==
  ASSUME Inv, on["poll"] \in Apart, ExecGet
  PROVE  Inv'
<1>1. Types
  BY DEF Inv
<1>2. /\ Does("get")
      /\ reading' = [reading EXCEPT ![on["poll"]] = @ + 1]
      /\ UNCHANGED <<inbox, script, output, len, offset, valid, queue, ops, on, reg, wire,
                     seen, owed>>
  BY DEF ExecGet, peer, client, thread
<1>3. reading \in [Clients -> Nat] /\ on["poll"] \in Clients
  BY <1>1 DEF Types, Threads
<1>4. /\ reading' \in [Clients -> Nat]
      /\ \A d \in Clients : d # on["poll"] => reading'[d] = reading[d]
  <2>1. reading[on["poll"]] + 1 \in Nat
    BY <1>3
  <2> QED  BY <1>2, <1>3, <2>1
<1> QED  BY <1>2, <1>4, QuietCommand

LEMMA ExecEchoKeeps ==
  ASSUME Inv, on["poll"] \in Apart, ExecEcho
  PROVE  Inv'
<1>1. /\ Does("echo")
      /\ UNCHANGED <<inbox, script, output, len, offset, valid, queue, ops, on, reg, wire,
                     seen, owed>>
      /\ reading' = reading
  BY DEF ExecEcho, peer, client, thread
<1>2. reading' \in [Clients -> Nat]
  BY <1>1 DEF Inv, Types
<1> QED  BY <1>1, <1>2, QuietCommand

(* One of the reads of an MGET. *)
LEMMA MakeReadKeeps ==
  ASSUME Inv, on["poll"] \in Apart, MakeRead
  PROVE  Inv'
<1>1. Types /\ Doing("poll") = "read" /\ ops["poll"] # <<>> /\ "poll" \in Threads
  <2>1. Types /\ At("poll", "read") /\ "poll" \in Threads
    BY DEF Inv, MakeRead, Threads
  <2> QED  BY <2>1, AtDoing
<1>2. PICK c \in Apart : c = on["poll"]
  BY <1>1 DEF Types
<1>3. /\ reading' = [reading EXCEPT ![c] = @ + 1]
      /\ Done("poll")
      /\ UNCHANGED <<inbox, script, buf, output, len, offset, valid, queue, on, reg, wire,
                     seen, owed>>
  <2>1. [ops EXCEPT !["poll"] = Tail(ops["poll"])] = [ops EXCEPT !["poll"] = Tail(@)]
    OBVIOUS
  <2> QED  BY <1>2, <2>1 DEF MakeRead, Continue, Done, peer, client
<1>s. ~ Scanning
  BY <1>1, ScansFill DEF Filling, Scans
<1>4. c \in Askers /\ ~ MgetAhead(c)
  <2>1. c \in Askers
    BY <1>1, <1>2, <1>s, PollDoes
  <2> QED  BY <1>1, <1>2, <2>1 DEF Inv, AloneOK
<1>5. reading' \in [Clients -> Nat] /\ \A d \in Clients \ {c} : reading'[d] = reading[d]
  <2>1. reading \in [Clients -> Nat]
    BY <1>1 DEF Types
  <2>2. reading[c] + 1 \in Nat
    BY <2>1
  <2> QED  BY <1>3, <2>1, <2>2
<1>6. /\ ops' \in [Threads -> Seq(Steps)]
      /\ ops'["handler"] = ops["handler"]
      /\ PollList(ops'["poll"], on["poll"] \in Askers)
      /\ Doing("poll")' \in PollAfter("read")
  <2>1. (on["poll"] \in Askers) \in BOOLEAN /\ PollList(ops["poll"], on["poll"] \in Askers)
        /\ "handler" \in Threads \ {"poll"}
    BY <1>s DEF Inv, PollOK, Threads
  <2>2. \A asker \in BOOLEAN : PollList(ops["poll"], asker) => PollList(ops'["poll"], asker)
    BY <1>1, <1>3, Advance
  <2>3. PollList(ops'["poll"], on["poll"] \in Askers)
    BY <2>1, <2>2, Zenon
  <2> QED  BY <1>1, <1>3, <1>s, <2>1, <2>3, Advance
<1>7. Types'
  BY <1>1, <1>3, <1>5, <1>6 DEF Types
<1>8. \A d \in Clients : Commanded(d)' = Commanded(d) /\ MgetAhead(d)' = MgetAhead(d)
  BY <1>3 DEF Commanded, MgetAhead
<1>9. CommandsOK'
  BY <1>3, <1>8 DEF Inv, CommandsOK, Askers
<1>10. ~ Working("poll") /\ ~ Working("poll")'
  BY <1>1, <1>6 DEF Working, Filling, PollAfter
<1>11. AloneOK'
  <2>1. ASSUME NEW d \in Apart, d \notin Askers \/ MgetAhead(d)' PROVE Alone(d)'
    <3>1. Alone(d) /\ d # c
      BY <1>4, <1>8, <2>1 DEF Inv, AloneOK
    <3> QED  BY <1>3, <1>5, <1>6, <3>1 DEF Alone
  <2>2. ~ MgetAhead(c)' /\ on'["poll"] = c
    BY <1>2, <1>3, <1>4, <1>8
  <2>3. ~ MgetAhead(on["poll"])'
    BY <2>2 DEF MgetAhead, Commanded
  <2> QED  BY <1>10, <2>1, <2>3 DEF AloneOK, Askers
<1>12. BuffersOK'
  <2>1. \A d \in Clients : SameReplies(d) /\ NoMoreCommands(d)
    BY <1>1, <1>3, <1>8, SameRepliesIfUnchanged, NoMoreCommandsIfUnchanged
  <2>2. \A t \in Threads : \/ ~ Working(t) /\ ~ Working(t)'
                           \/ ops'[t] = ops[t] /\ on'[t] = on[t] /\ reg'[t] = reg[t]
    BY <1>3, <1>6, <1>10 DEF Threads
  <2> QED  BY <1>7, <2>1, <2>2, NoBufferTouched
<1>13. on' = on /\ HandlerList(ops'["handler"])
  BY <1>3, <1>6 DEF Inv
<1>14. PollOK'
  BY <1>6, <1>13, NoHeaderNext
<1>15. KeysOK'
  <2>1. ASSUME NEW d \in Apart, KeysAhead(d)'
        PROVE  /\ KeysAhead(d)
               /\ valid'[d] = valid[d] /\ len'[d] = len[d] /\ offset'[d] = offset[d]
               /\ on'["poll"] = d => Doing("poll")' \in {"nothing", "next", "valid?", "close"}
    <3>1. KeysAhead(d)
      BY <1>8, <2>1 DEF KeysAhead
    <3>2. d # c
      BY <1>1, <1>2, <3>1 DEF Inv, KeysOK
    <3> QED  BY <1>2, <1>3, <3>1, <3>2
  <2> QED  BY <2>1, StillEmpty
<1> QED  BY <1>6, <1>7, <1>9, <1>11, <1>12, <1>13, <1>14, <1>15 DEF Inv

(* A command that is answered at once: the reply is produced, and l, which *)
(* begins with filling its cell, becomes the list of the poll thread.  The *)
(* client is one that tells, or asks for its MGET.                         *)
LEMMA Produces ==
  ASSUME Inv, on["poll"] \in Apart, NEW command, Does(command), command # "echo",
         NEW l, NEW cell \in Symbols,
         Continue(l), Owes(on["poll"], <<cell>>),
         UNCHANGED <<inbox, seen, script, due, output, len, offset, valid, open, reading,
                     queue, on, reg, wire>>,
         on["poll"] \in Askers => command = "mget",
         \/ Writes(l, cell, on["poll"] \in Askers)
         \/ command = "keys" /\ cell = "header" /\ Lists(l)
  PROVE  Inv'
<1>1. Types /\ "poll" \in Threads /\ Threads \ {"poll"} = {"handler"}
  BY DEF Inv, Threads
<1>2. PICK c \in Apart : c = on["poll"]
  BY <1>1 DEF Types
<1>3. /\ Doing("poll") = "next" /\ ~ Working("poll")
      /\ buf' \in [Clients -> Seq(Commands)]
      /\ \A d \in Clients \ {c} : Commanded(d)' = Commanded(d)
      /\ \A d \in Clients : NoMoreCommands(d)
      /\ Len(Commanded(c)) \in Nat /\ Len(Commanded(c)') = Len(Commanded(c)) - 1
      /\ c \in Askers => Asks(Commanded(c)') /\ MgetAhead(c) /\ ~ MgetAhead(c)'
      /\ c \notin Askers => Tells(Commanded(c)') /\ 1 + Len(Commanded(c)') <= MaxScript
      /\ (command = "keys" => KeysAhead(c)) /\ ~ KeysAhead(c)'
  <2>1. UNCHANGED <<inbox, script>>
    OBVIOUS
  <2> QED  BY <1>2, <2>1, Executes
<1>4. Alone(c) /\ ~ Touched(c) /\ AtRest(c)
  <2>1. Alone(c)
    BY <1>3 DEF Inv, AloneOK
  <2>2. Working("handler") => on["handler"] # c
    BY <2>1 DEF Alone, Working, Doing, Filling
  <2>3. ~ Touched(c)
    BY <1>3, <2>2 DEF Touched, Threads
  <2> QED  BY <2>1, <2>3 DEF Inv, BuffersOK
<1>g. PICK g \in Nat : g = offset[c]
  BY <1>1 DEF Types
<1>5. /\ AddsUp(c, g, 0) /\ len[c] \in Nat
      /\ c \in Askers => len[c] = 0 /\ g = 0
      /\ c \notin Askers => len[c] + Len(Commanded(c)) <= MaxScript + Filler
      /\ command = "keys" => len[c] = 0 /\ g = 0
  <2>1. command = "keys" => len[c] = 0 /\ g = 0
    BY <1>3, <1>g DEF Inv, KeysOK
  <2> QED  BY <1>1, <1>3, <1>4, <1>g, <2>1 DEF AtRest, Types
<1>6. l \in Seq(Steps) /\ l # <<>> /\ l[1][1] = "copy"
  BY DEF Writes, Lists
<1>7. /\ ops' \in [Threads -> Seq(Steps)] /\ ops'["poll"] = l
      /\ ops'["handler"] = ops["handler"] /\ on'["poll"] = c
  <2>1. ops \in [Threads -> Seq(Steps)]
    BY <1>1 DEF Types
  <2> QED  BY <1>2, <1>6, <2>1 DEF Continue, Threads
<1>8. /\ owed'[c] = owed[c] \o <<cell>>
      /\ \A d \in Clients \ {c} : owed'[d] = owed[d]
      /\ owed' \in [Clients -> Seq(Symbols)]
  <2>1. owed \in [Clients -> Seq(Symbols)]
    BY <1>1 DEF Types
  <2>2. owed[c] \o <<cell>> \in Seq(Symbols)
    BY <2>1
  <2> QED  BY <1>2, <2>1, <2>2 DEF Owes
<1>9. Types'
  BY <1>1, <1>3, <1>7, <1>8 DEF Types
<1>10. CommandsOK'
  <2>1. ASSUME NEW d \in Apart
        PROVE  IF d \in Askers THEN Asks(Commanded(d)') /\ valid'[d] = FALSE
               ELSE Tells(Commanded(d)') /\ Len(Commanded(d)') <= MaxScript
    <3>1. valid' = valid
      OBVIOUS
    <3>4. c \notin Askers => Len(Commanded(c)') <= MaxScript
      <4>1. MaxScript \in Nat
        BY ReplyPathAssumption, Zenon
      <4> QED  BY <1>3, <4>1
    <3>2. CASE d = c
      BY <1>3, <3>1, <3>2, <3>4 DEF Inv, CommandsOK
    <3>3. CASE d # c
      BY <1>3, <3>1, <3>3 DEF Inv, CommandsOK
    <3> QED  BY <3>2, <3>3
  <2> QED  BY <2>1 DEF CommandsOK, Askers, Asks, Tells, Before
<1>11. \A d \in Clients : Alone(d) => Alone(d)'
  BY <1>7 DEF Alone
<1>12. AloneOK'
  <2>1. ASSUME NEW d \in Apart, d \notin Askers \/ MgetAhead(d)' PROVE Alone(d)'
    <3>1. Alone(d)
      BY <1>3, <2>1 DEF Inv, AloneOK, NoMoreCommands
    <3> QED  BY <1>11, <3>1
  <2>2. Alone(on["poll"])'
    BY <1>4, <1>7, <1>11 DEF Alone
  <2>3. c \in Askers => ~ MgetAhead(on["poll"])'
    BY <1>3, <1>7 DEF MgetAhead, Commanded
  <2> QED  BY <1>7, <2>1, <2>2, <2>3 DEF AloneOK, Askers
<1>13. Doing("poll")' = "copy" /\ Unstored("poll")' = 1
  <2>1. Doing("poll")' = "copy"
    BY <1>6, <1>7 DEF Doing
  <2> QED  BY <2>1 DEF Unstored, Filling
<1>14. AddsUp(c, g, 1)' /\ owed'[c][Len(owed'[c]) - 1 + 1] = cell
  <2>1. /\ seen[c] \in Seq(Symbols) /\ wire[c] \in Seq(Symbols) /\ owed[c] \in Seq(Symbols)
        /\ <<cell>> \in Seq(Symbols) /\ Len(<<cell>>) = 1
    BY <1>1 DEF Types
  <2>2. Adds(seen[c], wire[c], owed[c], output[c], len[c], g, 0)
    BY <1>5 DEF AddsUp
  <2>3. Adds(seen[c], wire[c], owed[c] \o <<cell>>, output[c], len[c], g, Len(<<cell>>))
    BY <1>5, <2>1, <2>2, AddsOwe, Zenon
  <2>4. PICK n \in Nat : n = Len(owed[c])
    BY <2>1
  <2>5. Len(owed'[c]) = n + 1 /\ owed'[c][n + 1] = cell
    BY <1>8, <2>1, <2>4
  <2>6. AddsUp(c, g, 1)'
    BY <1>8, <2>1, <2>3 DEF AddsUp
  <2>7. (n + 1) - 1 + 1 = n + 1
    OBVIOUS
  <2> QED  BY <2>5, <2>6, <2>7
<1>15. NextCell("poll")' = cell
  BY <1>7, <1>13, <1>14 DEF NextCell
<1>18. HandlerList(ops'["handler"]) /\ MaxScript \in Nat /\ Filler \in Nat
       /\ len' = len /\ offset'[c] = g
  <2>1. MaxScript \in Nat /\ Filler \in Nat
    BY ReplyPathAssumption, Zenon
  <2> QED  BY <1>7, <1>g, <2>1 DEF Inv
<1>19. ASSUME Writes(l, cell, on["poll"] \in Askers)
       PROVE  PollOK' /\ AtWork("poll")'
  <2>1. PollOK' /\ ~ Scans("poll")'
    <3>1. PollList(ops'["poll"], on'["poll"] \in Askers)
      BY <1>2, <1>7, <1>19 DEF Writes
    <3> QED  BY <3>1, NoHeaderNext DEF Scans
  <2>2. Sent("poll")' = g /\ ops'["poll"][1][2] = cell
    <3>1. l[1] = <<"copy", cell>>
      BY <1>19 DEF Writes
    <3> QED  BY <1>7, <1>13, <1>18, <2>1, <3>1 DEF Sent
  <2>3. AddsUp(on["poll"], Sent("poll"), Unstored("poll"))'
    BY <1>7, <1>13, <1>14, <2>2 DEF AddsUp
  <2>4. /\ c \in Askers => len'[c] = 0 /\ len'[c] + 1 <= 3 /\ offset'[c] = 0
        /\ c \notin Askers => len'[c] + 1 + Len(Commanded(c)') <= MaxScript + Filler
    BY <1>3, <1>5, <1>18
  <2>5. AtWork("poll")'
    BY <1>7, <1>13, <1>15, <2>1, <2>2, <2>3, <2>4 DEF AtWork
  <2> QED  BY <2>1, <2>5
<1>20. ASSUME command = "keys" /\ cell = "header" /\ Lists(l)
       PROVE  PollOK' /\ AtWork("poll")'
  <2>1. c \notin Askers
    BY <1>2, <1>20
  <2>2. PollOK' /\ Scans("poll")'
    <3>1. Scanning' /\ ScanList(ops'["poll"])
      BY <1>7, <1>20 DEF Scanning, Lists
    <3> QED  BY <1>7, <2>1, <3>1 DEF PollOK, Scans, Askers
  <2>3. Sent("poll")' = 0 /\ len'[c] = 0 /\ offset'[c] = 0 /\ g = 0
    BY <1>5, <1>7, <1>13, <1>18, <1>20, <2>2 DEF Sent
  <2>4. AddsUp(on["poll"], Sent("poll"), Unstored("poll"))'
    BY <1>7, <1>13, <1>14, <2>3 DEF AddsUp
  <2>5. AtScan("poll")'
    <3>1. Len(ops'["poll"]) + 0 = 3 * (Filler - 0) + 2
      BY <1>7, <1>18, <1>20 DEF Lists
    <3>2. ScanRest("poll")' = 0
      BY <1>13 DEF ScanRest
    <3> QED  BY <1>3, <1>7, <1>15, <1>20, <2>1, <2>3, <3>1, <3>2 DEF AtScan
  <2>6. AtWork("poll")'
    BY <1>7, <1>13, <2>1, <2>2, <2>4, <2>5 DEF AtWork
  <2> QED  BY <2>2, <2>6
<1>21. PollOK' /\ AtWork("poll")'
  BY <1>19, <1>20
<1>22. KeysOK'
  <2>1. ASSUME NEW d \in Apart, KeysAhead(d)'
        PROVE  /\ KeysAhead(d)
               /\ valid'[d] = valid[d] /\ len'[d] = len[d] /\ offset'[d] = offset[d]
               /\ on'["poll"] = d => Doing("poll")' \in {"nothing", "next", "valid?", "close"}
    <3>1. KeysAhead(d) /\ d # c
      BY <1>3, <2>1 DEF NoMoreCommands
    <3> QED  BY <1>7, <3>1
  <2> QED  BY <2>1, StillEmpty
<1>16. BuffersOK'
  <2>1. \A u \in Threads \ {"poll"} :
          ops'[u] = ops[u] /\ on'[u] = on[u] /\ reg'[u] = reg[u]
                           /\ (Working(u) => on[u] # c)
    BY <1>1, <1>4, <1>7 DEF Touched
  <2>2. \A d \in Clients \ {c} : SameReplies(d) /\ NoMoreCommands(d)
    BY <1>3, <1>8, SameRepliesIfUnchanged
  <2>3. Working("poll")'
    BY <1>13 DEF Working, Filling
  <2> QED  BY <1>1, <1>3, <1>7, <1>9, <1>21, <2>1, <2>2, <2>3, OneBufferTouched
<1> QED  BY <1>9, <1>10, <1>12, <1>16, <1>18, <1>21, <1>22 DEF Inv

(* Who sends what. *)
LEMMA WhoSends ==
  ASSUME Inv, on["poll"] \in Apart, NEW command, Does(command), UNCHANGED <<inbox, script>>
  PROVE  /\ command \in Asking \cup Telling
         /\ command \notin Telling => on["poll"] \in Askers
         /\ command \notin Asking => on["poll"] \notin Askers
<1>1. PICK c \in Apart : c = on["poll"]
  BY DEF Scanning
<1>2. /\ c \in Askers => command \in Asking
      /\ c \notin Askers => command \in Telling
  BY <1>1, Executes
<1> QED  BY <1>1, <1>2

(* exec_set and the like, errors, exec_quit, exec_mget, exec_keys. *)
LEMMA RepliesAtOnce ==
  ASSUME Inv, on["poll"] \in Apart,
         ExecSet \/ ExecError \/ ExecProtocolError \/ ExecQuit \/ ExecMget \/ ExecKeys
  PROVE  Inv'
<1>1. UNCHANGED <<inbox, seen, script, due, output, len, offset, valid, open, reading,
                  queue, on, reg, wire>>
  BY DEF ExecSet, ExecError, ExecProtocolError, ExecQuit, ExecMget, ExecKeys, peer, client
<1>2. UNCHANGED <<inbox, script>>
  BY <1>1
<1>3. {"ok", "err", "array", "header"} \subseteq Symbols
  BY DEF Symbols, Replies
<1>4. ASSUME NEW command \in {"set", "bad", "junk", "quit", "keys"}, Does(command)
      PROVE  (on["poll"] \in Askers) = FALSE /\ command # "echo"
  <2>1. command \notin Asking
    BY DEF Asking
  <2> QED  BY <1>2, <1>4, <2>1, WhoSends
<1>5. CASE ExecSet
  <2>1. /\ Does("set") /\ Owes(on["poll"], <<"ok">>)
        /\ Continue(Write("ok") \o <<<<"validate">>>> \o Execute)
    BY <1>5 DEF ExecSet
  <2>2. (on["poll"] \in Askers) = FALSE
    BY <1>4, <2>1
  <2>3. Writes(Write("ok") \o <<<<"validate">>>> \o Execute, "ok", on["poll"] \in Askers)
    BY <2>2, TellerLists
  <2> QED  BY <1>1, <1>3, <2>1, <2>2, <2>3, Produces
<1>6. CASE ExecError
  <2>1. /\ Does("bad") /\ Owes(on["poll"], <<"err">>)
        /\ Continue(Write("err") \o FlushIfValid)
    BY <1>6 DEF ExecError
  <2>2. (on["poll"] \in Askers) = FALSE
    BY <1>4, <2>1
  <2>3. Writes(Write("err") \o FlushIfValid, "err", on["poll"] \in Askers)
    BY <2>2, TellerLists
  <2> QED  BY <1>1, <1>3, <2>1, <2>2, <2>3, Produces
<1>7. CASE ExecProtocolError
  <2>1. /\ Does("junk") /\ Owes(on["poll"], <<"err">>)
        /\ Continue(Write("err") \o FlushIfValid \o <<<<"close">>>>)
    BY <1>7 DEF ExecProtocolError
  <2>2. (on["poll"] \in Askers) = FALSE
    BY <1>4, <2>1
  <2>3. Writes(Write("err") \o FlushIfValid \o <<<<"close">>>>, "err", on["poll"] \in Askers)
    BY <2>2, TellerLists
  <2> QED  BY <1>1, <1>3, <2>1, <2>2, <2>3, Produces
<1>8. CASE ExecQuit
  <2>1. /\ Does("quit") /\ Owes(on["poll"], <<"ok">>)
        /\ Continue(Write("ok") \o <<<<"validate">>>> \o FlushIfValid \o <<<<"close">>>>)
    BY <1>8 DEF ExecQuit
  <2>2. (on["poll"] \in Askers) = FALSE
    BY <1>4, <2>1
  <2>3. Writes(Write("ok") \o <<<<"validate">>>> \o FlushIfValid \o <<<<"close">>>>, "ok",
               on["poll"] \in Askers)
    BY <2>2, TellerLists
  <2> QED  BY <1>1, <1>3, <2>1, <2>2, <2>3, Produces
<1>9. CASE ExecMget
  <2>1. /\ Does("mget") /\ Owes(on["poll"], <<"array">>)
        /\ Continue(Write("array") \o [k \in 1..MgetKeys |-> <<"read">>] \o Execute)
    BY <1>9 DEF ExecMget
  <2>2. (on["poll"] \in Askers) = TRUE
    <3>1. "mget" \notin Telling
      BY DEF Telling
    <3> QED  BY <1>2, <2>1, <3>1, WhoSends
  <2>3. Writes(Write("array") \o [k \in 1..MgetKeys |-> <<"read">>] \o Execute, "array",
               on["poll"] \in Askers)
    BY <2>2, AskerList
  <2> QED  BY <1>1, <1>3, <2>1, <2>3, Produces
<1>10. CASE ExecKeys
  <2>1. /\ Does("keys") /\ Owes(on["poll"], <<"header">>)
        /\ Continue(ScanKeys \o Execute)
    BY <1>10 DEF ExecKeys
  <2>2. (on["poll"] \in Askers) = FALSE
    BY <1>4, <2>1
  <2> QED  BY <1>1, <1>3, <2>1, <2>2, KeysList, Produces
<1> QED  BY <1>5, <1>6, <1>7, <1>8, <1>9, <1>10

(* The poll thread drops a step that is not about a buffer. *)
LEMMA PollMovesOn ==
  ASSUME Inv, on["poll"] \in Apart, ops["poll"] # <<>>, Done("poll"),
         Doing("poll") \in {"valid?", "close"},
         UNCHANGED <<inbox, script, buf, output, len, offset, valid, reading, queue, on,
                     reg, wire, seen, owed>>
  PROVE  Inv'
<1>1. Types /\ "poll" \in Threads
  BY DEF Inv, Threads
<1>2. UNCHANGED <<reading, queue, on, buf, inbox, script>> /\ valid' = valid
  OBVIOUS
<1>s. ~ Scans("poll")
  BY <1>1, ScansFill DEF Filling
<1>3. ListsOK' /\ ops' \in [Threads -> Seq(Steps)]
      /\ \A u \in Threads \ {"poll"} : ops'[u] = ops[u]
  BY <1>1, <1>2, <1>s, StepOfList, Advance DEF ListsOK
<1>4. Types'
  BY <1>1, <1>3 DEF Types
<1>5. /\ ~ Working("poll") /\ ~ Working("poll")'
      /\ Doing("poll")' \in {"nothing", "close"}
  <2>1. Doing("poll")' \in PollAfter(Doing("poll"))
    BY <1>1, <1>s, Advance DEF Scans
  <2>2. Doing("poll")' \in {"nothing", "close"}
    BY <2>1 DEF PollAfter
  <2> QED  BY <2>2 DEF Working, Filling
<1>6. BuffersOK'
  <2>1. \A d \in Clients : Commanded(d)' = Commanded(d)
    BY DEF Commanded
  <2>2. \A d \in Clients : SameReplies(d) /\ NoMoreCommands(d)
    BY <1>1, <2>1, SameRepliesIfUnchanged, NoMoreCommandsIfUnchanged
  <2>3. \A t \in Threads : \/ ~ Working(t) /\ ~ Working(t)'
                           \/ ops'[t] = ops[t] /\ on'[t] = on[t] /\ reg'[t] = reg[t]
    BY <1>3, <1>5
  <2> QED  BY <1>4, <2>2, <2>3, NoBufferTouched
<1>7. KeysOK'
  <2>1. \A d \in Clients : KeysAhead(d)' => KeysAhead(d)
    BY DEF KeysAhead, Commanded
  <2> QED  BY <1>5, <2>1, StillEmpty
<1> QED  BY <1>3, <1>4, <1>6, <1>7 DEF Inv, ListsOK

LEMMA CloseKeeps ==
  ASSUME Inv, on["poll"] \in Apart, Close
  PROVE  Inv'
<1>1. Doing("poll") = "close" /\ ops["poll"] # <<>>
  <2>1. Types /\ At("poll", "close") /\ "poll" \in Threads
    BY DEF Inv, Close, Threads
  <2> QED  BY <2>1, AtDoing
<1>2. /\ Done("poll")
      /\ UNCHANGED <<inbox, script, buf, output, len, offset, valid, reading, queue, on,
                     reg, wire, seen, owed>>
  BY DEF Close, peer, client
<1> QED  BY <1>1, <1>2, PollMovesOn

LEMMA TailOfOne ==
  ASSUME NEW S, NEW l \in Seq(S), l # <<>>, Len(l) = 1
  PROVE  Tail(l) = <<>>
<1>1. Tail(l) \in Seq(S) /\ Len(Tail(l)) = Len(l) - 1
  BY HeadTailProperties
<1>2. Len(Tail(l)) = 0
  BY <1>1
<1> QED  BY <1>1, <1>2, EmptySeq

LEMMA TailOfTwo ==
  ASSUME NEW S, NEW l \in Seq(S), l # <<>>, Len(l) = 2
  PROVE  Tail(l) = <<l[2]>>
<1> DEFINE k == <<l[2]>>
           m == Tail(l)
<1>1. m \in Seq(S) /\ Len(m) = 2 - 1 /\ \A i \in 1..(2 - 1) : m[i] = l[i + 1]
  OBVIOUS
<1>2. 2 - 1 = 1 /\ 1 \in 1..1 /\ 1 + 1 = 2
  OBVIOUS
<1>3. m[1] = l[2] /\ Len(m) = 1
  BY <1>1, <1>2, Zenon
<1>4. l[2] \in S
  <2>1. PICK q \in Nat : q = Len(l) /\ 2 \in 1..q
    OBVIOUS
  <2> QED  BY <2>1
<1>5. k \in Seq(S) /\ Len(k) = 1 /\ k[1] = l[2]
  BY <1>4
<1> HIDE DEF k, m
<1>6. \A i \in 1..1 : m[i] = k[i]
  BY <1>3, <1>5
<1>7. m = k
  BY <1>1, <1>3, <1>5, <1>6, SeqEqual
<1> QED  BY <1>7 DEF m, k

(* What follows the test of output_valid. *)
LEMMA AfterTheTest ==
  ASSUME Inv, on["poll"] \in Apart, Doing("poll") = "valid?", ops["poll"] # <<>>
  PROVE  Tail(ops["poll"]) = <<>> \/ Tail(ops["poll"]) = <<<<"close">>>>
<1>1. PICK l \in Seq(Steps) : l = ops["poll"]
  BY DEF Inv, Types, Threads
<1>2. l # <<>> /\ l[1][1] = "valid?"
  BY <1>1 DEF Doing
<1>3. PICK q \in Nat \ {0} : q = Len(l)
  BY <1>2
<1>4. \A i \in 1..q : (IF i = q THEN "nothing" ELSE l[i + 1][1]) \in PollAfter(l[i][1])
  <2>1. PollList(l, on["poll"] \in Askers)
    <3>1. ~ Scans("poll")
      BY ScansFill DEF Filling, Threads
    <3> QED  BY <1>1, <3>1 DEF Inv, PollOK, Scans
  <2> QED  BY <1>3, <2>1 DEF PollList
<1>5. PollAfter("valid?") = {"close", "nothing"} /\ PollAfter("close") = {"nothing"}
      /\ \A x \in Steps : x[1] # "nothing"
  BY DEF PollAfter, Steps
<1>6. CASE q = 1
  <2>1. Len(l) = 1
    BY <1>3, <1>6
  <2>2. Tail(l) = <<>>
    BY <1>2, <2>1, TailOfOne
  <2> QED  BY <1>1, <2>2
<1>7. CASE q # 1
  <2>1. 1 \in 1..q /\ 2 \in 1..q /\ 1 + 1 = 2
    BY <1>3, <1>7
  <2>2. l[2] \in Steps
    BY <1>3, <2>1
  <2>3. l[2][1] = "close"
    <3>1. l[2][1] \in {"close", "nothing"}
      BY <1>2, <1>4, <1>5, <1>7, <2>1
    <3> QED  BY <1>5, <2>2, <3>1
  <2>4. q = 2
    <3>1. SUFFICES ASSUME q # 2 PROVE FALSE
      OBVIOUS
    <3>2. 3 \in 1..q /\ 2 + 1 = 3
      BY <1>3, <1>7, <3>1
    <3>3. l[3] \in Steps
      BY <1>3, <3>2
    <3>4. l[3][1] \in {"nothing"}
      BY <1>4, <1>5, <2>1, <2>3, <3>1, <3>2
    <3> QED  BY <1>5, <3>3, <3>4
  <2>5. l[2] = <<"close">>
    BY <2>2, <2>3 DEF Steps
  <2>6. Tail(l) = <<l[2]>>
    <3>1. Len(l) = 2
      BY <1>3, <2>4
    <3> QED  BY <1>2, <3>1, TailOfTwo
  <2> QED  BY <1>1, <2>5, <2>6
<1> QED  BY <1>6, <1>7

(* on_read flushes what client_exec_commands has produced. *)
LEMMA TestValidKeeps ==
  ASSUME Inv, on["poll"] \in Apart, TestValid
  PROVE  Inv'
<1>1. Types /\ Doing("poll") = "valid?" /\ ops["poll"] # <<>>
      /\ "poll" \in Threads /\ Threads \ {"poll"} = {"handler"}
  <2>1. Types /\ At("poll", "valid?") /\ "poll" \in Threads
    BY DEF Inv, TestValid, Threads
  <2> QED  BY <2>1, AtDoing DEF Threads
<1>2. PICK c \in Apart : c = on["poll"]
  BY <1>1 DEF Types
<1>3. /\ UNCHANGED <<inbox, script, buf, output, len, offset, valid, reading, queue, on,
                     reg, wire, seen, owed>>
      /\ ops' = [ops EXCEPT !["poll"] =
                   (IF valid[c] THEN FlushAndClear ELSE <<>>) \o Tail(ops["poll"])]
  BY <1>2 DEF TestValid, Continue, peer, client
<1>4. ops \in [Threads -> Seq(Steps)] /\ Tail(ops["poll"]) \in Seq(Steps)
  BY <1>1 DEF Types
<1>5. CASE ~ valid[c]
  <2>1. <<>> \o Tail(ops["poll"]) = Tail(ops["poll"])
    BY <1>4, ConcatEmptySeq
  <2>2. Done("poll")
    BY <1>3, <1>5, <2>1 DEF Done
  <2> QED  BY <1>1, <1>3, <2>2, PollMovesOn
<1>6. CASE valid[c]
  <2>1. c \notin Askers /\ Alone(c) /\ ~ Working("poll")
    <3>1. c \notin Askers
      BY <1>6 DEF Inv, CommandsOK
    <3> QED  BY <1>1, <3>1 DEF Inv, AloneOK, Working, Filling
  <2>2. PICK l : l = FlushAndClear \o Tail(ops["poll"])
    OBVIOUS
  <2>3. /\ l \in Seq(Steps) /\ l # <<>> /\ l[1] = <<"test", "own">> /\ l[4] = <<"zero">>
        /\ PollList(l, FALSE)
    <3>1. PICK m : m = Tail(ops["poll"])
      OBVIOUS
    <3>2. m = <<>> \/ m = <<<<"close">>>>
      BY <1>1, <3>1, AfterTheTest
    <3>3. /\ FlushAndClear \o m \in Seq(Steps) /\ FlushAndClear \o m # <<>>
          /\ (FlushAndClear \o m)[1] = <<"test", "own">>
          /\ (FlushAndClear \o m)[4] = <<"zero">>
          /\ PollList(FlushAndClear \o m, FALSE)
      BY <3>2, FlushList, Zenon
    <3> QED  BY <2>2, <3>1, <3>3
  <2>4. /\ ops' \in [Threads -> Seq(Steps)] /\ ops'["poll"] = l
        /\ ops'["handler"] = ops["handler"] /\ on'["poll"] = c
    BY <1>2, <1>3, <1>4, <1>6, <2>2, <2>3 DEF Threads
  <2>5. Types'
    BY <1>1, <1>3, <2>4 DEF Types
  <2>6. \A d \in Clients : Commanded(d)' = Commanded(d) /\ MgetAhead(d)' = MgetAhead(d)
    BY <1>3 DEF Commanded, MgetAhead
  <2>7. CommandsOK'
    BY <1>3, <2>6 DEF Inv, CommandsOK, Askers
  <2>8. AloneOK'
    <3>1. \A d \in Clients : Alone(d) => Alone(d)'
      BY <1>3, <2>4 DEF Alone
    <3>2. Alone(on["poll"])'
      BY <2>1, <2>4, <3>1 DEF Alone
    <3> QED  BY <2>1, <2>4, <2>6, <3>1, <3>2 DEF Inv, AloneOK
  <2>9. ~ Touched(c) /\ AtRest(c)
    <3>1. Working("handler") => on["handler"] # c
      BY <2>1 DEF Alone, Working, Doing, Filling
    <3>2. ~ Touched(c)
      BY <2>1, <3>1 DEF Touched, Threads
    <3> QED  BY <3>2 DEF Inv, BuffersOK
  <2>13. HandlerList(ops'["handler"]) /\ PollOK' /\ ~ Scans("poll")'
    <3>1. (on'["poll"] \in Askers) = FALSE
      BY <2>1, <2>4
    <3>2. PollList(ops'["poll"], on'["poll"] \in Askers)
      BY <2>3, <2>4, <3>1
    <3> QED  BY <2>4, <3>2, NoHeaderNext DEF Inv, Scans
  <2>0. PICK g \in Nat : g = offset[c]
    BY <1>1 DEF Types
  <2>10. Doing("poll")' = "test" /\ Unstored("poll")' = 0 /\ Sent("poll")' = g
    <3>1. Doing("poll")' = "test"
      BY <2>3, <2>4 DEF Doing
    <3> QED  BY <1>3, <2>0, <2>4, <2>13, <3>1 DEF Unstored, Filling, Sent
  <2>11. AtWork("poll")' /\ Working("poll")'
    <3>1. AddsUp(c, g, 0)'
      BY <1>3, <2>0, <2>9 DEF AtRest, AddsUp
    <3>2. len'[c] + 0 + Len(Commanded(c)') <= MaxScript + Filler
      <4>1. len[c] \in Nat /\ Len(Commanded(c)) \in Nat
        BY <1>1, CommandedType DEF Types
      <4>2. len[c] + Len(Commanded(c)) <= MaxScript + Filler
        BY <2>1, <2>9 DEF AtRest
      <4>3. len[c] + 0 = len[c] /\ len' = len
        BY <1>3, <4>1
      <4> QED  BY <2>6, <4>2, <4>3
    <3>3. ops'["poll"][1][2] = "own" /\ ops'["poll"][4][1] = "zero"
      BY <2>3, <2>4
    <3> QED  BY <1>1, <2>1, <2>4, <2>10, <2>13, <3>1, <3>2, <3>3, FlushAtWork
  <2>12. BuffersOK'
    <3>1. \A u \in Threads \ {"poll"} :
            ops'[u] = ops[u] /\ on'[u] = on[u] /\ reg'[u] = reg[u]
                             /\ (Working(u) => on[u] # c)
      BY <1>1, <1>3, <2>4, <2>9 DEF Touched
    <3>2. \A d \in Clients \ {c} : SameReplies(d) /\ NoMoreCommands(d)
      BY <1>1, <1>3, <2>6, SameRepliesIfUnchanged, NoMoreCommandsIfUnchanged
    <3> QED  BY <1>1, <2>1, <2>4, <2>5, <2>11, <3>1, <3>2, OneBufferTouched
  <2>14. KeysOK'
    <3>1. ASSUME NEW d \in Apart, KeysAhead(d)'
          PROVE  /\ KeysAhead(d)
                 /\ valid'[d] = valid[d] /\ len'[d] = len[d] /\ offset'[d] = offset[d]
                 /\ on'["poll"] = d => Doing("poll")' \in {"nothing", "next", "valid?", "close"}
      <4>1. KeysAhead(d)
        BY <2>6, <3>1 DEF KeysAhead
      <4>2. d # c
        BY <1>6, <4>1 DEF Inv, KeysOK
      <4> QED  BY <1>3, <2>4, <4>1, <4>2
    <3> QED  BY <3>1, StillEmpty
  <2> QED  BY <2>5, <2>7, <2>8, <2>12, <2>13, <2>14 DEF Inv
<1> QED  BY <1>5, <1>6

-----------------------------------------------------------------------------
(* The theorem *)

LEMMA StartsIntact ==
  ASSUME Init
  PROVE  Inv
<1>1. \A c \in Clients : script[c] \in Scripts[c]
  BY DEF Init
<1>2. /\ script \in [Clients -> Seq(Commands)] /\ MaxScript \in Nat /\ Filler \in Nat
      /\ \A c \in Clients : Len(script[c]) <= MaxScript
  <2>1. \A c \in Clients : script[c] \in Seq(Commands) /\ Len(script[c]) <= MaxScript
    BY <1>1, ReplyPathAssumption, Zenon
  <2>2. MaxScript \in Nat /\ Filler \in Nat
    BY ReplyPathAssumption, Zenon
  <2>3. \E S : script \in [Clients -> S]
    BY DEF Init
  <2> QED  BY <2>1, <2>2, <2>3
<1>3. ASSUME NEW c \in Clients
      PROVE  /\ buf[c] = <<>> /\ inbox[c] = <<>> /\ seen[c] = <<>> /\ wire[c] = <<>>
             /\ owed[c] = <<>> /\ len[c] = 0 /\ offset[c] = 0 /\ valid[c] = FALSE /\ reading[c] = 0
  BY DEF Init
<1>4. ASSUME NEW c \in Clients PROVE Commanded(c) = script[c]
  <2>1. script[c] \in Seq(Commands)
    BY <1>2
  <2>2. <<>> \o <<>> = <<>> /\ <<>> \o script[c] = script[c]
    <3>1. <<>> \in Seq(Commands)
      OBVIOUS
    <3> QED  BY <2>1, <3>1, ConcatEmptySeq
  <2> QED  BY <1>3, <2>2 DEF Commanded
<1>5. Types
  <2>1. "junk" \in Symbols
    BY DEF Symbols
  <2>2. output \in [Clients -> [Cells -> Symbols]]
    BY <2>1 DEF Init
  <2>3. reg \in [Threads -> Locals]
    BY NoLocalsType DEF Init
  <2>4. on \in [Threads -> Clients]
    <3>1. (CHOOSE c \in Clients : TRUE) \in Clients
      <4>1. \E c \in Clients : TRUE
        BY ReplyPathAssumption, Zenon
      <4> QED  BY <4>1
    <3> QED  BY <3>1 DEF Init
  <2>5. /\ inbox \in [Clients -> Seq(Commands)] /\ buf \in [Clients -> Seq(Commands)]
        /\ ops \in [Threads -> Seq(Steps)] /\ queue \in Seq(Clients \X BOOLEAN)
        /\ wire \in [Clients -> Seq(Symbols)] /\ seen \in [Clients -> Seq(Symbols)]
        /\ owed \in [Clients -> Seq(Symbols)]
    BY DEF Init
  <2>6. /\ len \in [Clients -> Nat] /\ offset \in [Clients -> Nat]
        /\ valid \in [Clients -> BOOLEAN] /\ reading \in [Clients -> Nat]
    BY DEF Init
  <2> QED  BY <1>2, <2>2, <2>3, <2>4, <2>5, <2>6 DEF Types
<1>6. ops["poll"] = <<>> /\ ops["handler"] = <<>> /\ queue = <<>>
  BY DEF Init, Threads
<1>7. PollOK /\ HandlerList(ops["handler"])
  <2>1. Len(<<>>) = 0 /\ 1..0 = {} /\ 0 <= 11 /\ ~ 0 > 8
    OBVIOUS
  <2>2. PollList(ops["poll"], on["poll"] \in Askers) /\ HandlerList(ops["handler"])
    BY <1>6, <2>1, Zenon DEF PollList, HandlerList
  <2> QED  BY <2>2, NoHeader
<1>8. CommandsOK
  BY <1>1, <1>2, <1>3, <1>4 DEF CommandsOK, Apart, Askers
<1>9. \A t \in Threads : Doing(t) = "nothing" /\ ~ Working(t)
  BY <1>6 DEF Threads, Doing, Working, Filling
<1>10. AloneOK
  <2>1. Len(<<>>) = 0 /\ 1..0 = {}
    OBVIOUS
  <2>2. \A c \in Clients : Alone(c)
    BY <1>3, <1>6, <2>1, Zenon DEF Alone
  <2>3. Doing("poll") \notin Filling \cup {"read"} /\ ~ Working("poll")
    BY <1>9 DEF Threads, Filling
  <2> QED  BY <2>2, <2>3 DEF AloneOK
<1>11. BuffersOK
  <2>1. ASSUME NEW c \in Clients PROVE AtRest(c)
    <3>1. AddsUp(c, 0, 0)
      <4>1. Adds(<<>>, <<>>, <<>>, output[c], 0, 0, 0)
        BY DEF Adds
      <4> QED  BY <1>3, <4>1 DEF AddsUp
    <3>2. 0 + Len(Commanded(c)) <= MaxScript + Filler
      <4>1. PICK n \in Nat : n = Len(script[c]) /\ n <= MaxScript
        BY <1>2
      <4>2. 0 + n <= MaxScript + Filler
        BY <1>2, <4>1
      <4> QED  BY <1>4, <4>1, <4>2
    <3>3. len[c] = 0 /\ offset[c] = 0
      BY <1>3, Zenon
    <3>4. 0 <= 1
      OBVIOUS
    <3> QED  BY <3>1, <3>2, <3>3, <3>4, Zenon DEF AtRest
  <2> QED  BY <1>9, <2>1 DEF BuffersOK
<1>12. KeysOK
  <2>1. Doing("poll") = "nothing"
    BY <1>9 DEF Threads
  <2> QED  BY <1>3, <2>1 DEF KeysOK
<1> QED  BY <1>5, <1>7, <1>8, <1>10, <1>11, <1>12 DEF Inv

(* What adds up is a prefix. *)
LEMMA AddsPrefix ==
  ASSUME NEW s \in Seq(Symbols), NEW w \in Seq(Symbols), NEW o \in Seq(Symbols),
         NEW out, NEW n \in Nat, NEW f, NEW k \in Nat, Adds(s, w, o, out, n, f, k)
  PROVE  IsPrefix(s \o w, o)
<1>1. PICK p \in Seq(Symbols) : p = s \o w
  <2>1. s \o w \in Seq(Symbols)
    OBVIOUS
  <2> QED  BY <2>1, Zenon
<1>2. PICK a \in Nat, b \in Nat, m \in Nat : a = Len(s) /\ b = Len(w) /\ m = Len(o)
  OBVIOUS
<1>3. /\ Len(p) = a + b
      /\ \A i \in 1..a : p[i] = s[i]
      /\ \A i \in 1..b : p[a + i] = w[i]
  BY <1>1, <1>2
<1>4. /\ f \in 0..n /\ m = a + b + (n - f) + k
      /\ \A i \in 1..a : o[i] = s[i]
      /\ \A i \in 1..b : o[a + i] = w[i]
  BY <1>2 DEF Adds
<1>5. a + b <= m
  BY <1>4
<1>6. ASSUME NEW i \in 1..(a + b) PROVE p[i] = o[i]
  <2>1. CASE i <= a
    BY <1>3, <1>4, <2>1
  <2>2. CASE i > a
    <3>1. i - a \in 1..b /\ a + (i - a) = i
      BY <2>2
    <3> QED  BY <1>3, <1>4, <3>1
  <2> QED  BY <2>1, <2>2
<1>7. SubSeq(p, 1, a + b) = SubSeq(o, 1, a + b)
  <2> DEFINE x == SubSeq(p, 1, a + b)
             y == SubSeq(o, 1, a + b)
  <2>1. x \in Seq(Symbols) /\ Len(x) = a + b /\ \A i \in 1..(a + b) : x[i] = p[i]
    BY <1>3
  <2>2. y \in Seq(Symbols) /\ Len(y) = a + b /\ \A i \in 1..(a + b) : y[i] = o[i]
    BY <1>2, <1>5
  <2> HIDE DEF x, y
  <2>3. x = y
    BY <1>6, <2>1, <2>2, SeqEqual
  <2> QED  BY <2>3 DEF x, y
<1>8. IsPrefix(p, o)
  BY <1>2, <1>3, <1>5, <1>7 DEF IsPrefix
<1> QED  BY <1>1, <1>8

LEMMA Intact ==
  ASSUME Inv
  PROVE  RepliesIntact
<1>1. SUFFICES ASSUME NEW c \in Apart PROVE IsPrefix(seen[c] \o wire[c], owed[c])
  BY DEF RepliesIntact
<1>2. seen[c] \in Seq(Symbols) /\ wire[c] \in Seq(Symbols) /\ owed[c] \in Seq(Symbols)
      /\ len[c] \in Nat
  BY DEF Inv, Types
<1>3. \E f : \E k \in Nat : Adds(seen[c], wire[c], owed[c], output[c], len[c], f, k)
  <2>1. CASE Touched(c)
    <3>1. PICK t \in Threads : Working(t) /\ on[t] = c
      BY <2>1 DEF Touched
    <3>2. AddsUp(c, Sent(t), Unstored(t)) /\ Unstored(t) \in Nat
      BY <3>1, UnstoredFacts DEF Inv, BuffersOK, AtWork
    <3> QED  BY <3>2 DEF AddsUp
  <2>2. CASE ~ Touched(c)
    BY <2>2 DEF Inv, BuffersOK, AtRest, AddsUp
  <2> QED  BY <2>1, <2>2
<1> QED  BY <1>2, <1>3, AddsPrefix, Zenon

-----------------------------------------------------------------------------
(* Clients whose peers mix reads with other commands.  Both threads may be *)
(* in their buffers, and what they do to each other there touches no       *)
(* client that is apart.                                                   *)

LEMMA TypesStay ==
  ASSUME Types, CellTypes', UNCHANGED seen
  PROVE  Types'
<1>1. Cells \subseteq Nat /\ CellLocals \subseteq Locals
  BY DEF Cells, CellLocals, Locals
<1>2. reg' \in [Threads -> Locals] /\ offset' \in [Clients -> Nat]
  BY <1>1 DEF CellTypes
<1> QED  BY <1>2 DEF CellTypes, Types

(* A thread either stays where it is or goes on with a client that is not  *)
(* apart, having nothing left to do for one that is.                       *)
LEMMA OthersKeep ==
  ASSUME Inv, Types',
         \A d \in Apart : /\ Commanded(d)' = Commanded(d) /\ SameReplies(d)
                          /\ valid'[d] = valid[d] /\ reading'[d] = reading[d],
         \A d \in Apart : (\A i \in 1..Len(queue) : queue[i][1] # d)
                            => \A i \in 1..Len(queue') : queue'[i][1] # d,
         \A t \in Threads :
           \/ ops'[t] = ops[t] /\ on'[t] = on[t] /\ reg'[t] = reg[t]
           \/ on'[t] \notin Apart /\ (on[t] \in Apart => ops[t] = <<>>),
         HandlerList(ops'["handler"])
  PROVE  Inv'
<1>1. "poll" \in Threads /\ "handler" \in Threads
  BY DEF Threads
<1>2. ASSUME NEW d \in Apart, Alone(d) PROVE Alone(d)'
  BY <1>1, <1>2 DEF Alone
<1>3. \A d \in Apart : MgetAhead(d)' = MgetAhead(d) /\ KeysAhead(d)' = KeysAhead(d)
  BY DEF MgetAhead, KeysAhead
<1>4. on'["poll"] \in Apart => ops'["poll"] = ops["poll"] /\ on'["poll"] = on["poll"]
  BY <1>1
<1>5. on'["poll"] \in Apart => /\ Doing("poll")' = Doing("poll")
                               /\ Working("poll")' = Working("poll")
                               /\ Scanning' = Scanning
  BY <1>4 DEF Doing, Working, Scanning
<1>6. PollOK'
  <2>1. CASE on'["poll"] \notin Apart
    BY <2>1 DEF PollOK, Scanning
  <2>2. CASE on'["poll"] \in Apart
    BY <1>4, <2>2, SamePollList
  <2> QED  BY <2>1, <2>2
<1>7. CommandsOK'
  BY DEF Inv, CommandsOK, Askers
<1>8. KeysOK'
  <2>1. ASSUME NEW d \in Apart, KeysAhead(d)'
        PROVE  /\ KeysAhead(d)
               /\ valid'[d] = valid[d] /\ len'[d] = len[d] /\ offset'[d] = offset[d]
               /\ on'["poll"] = d => Doing("poll")' \in {"nothing", "next", "valid?", "close"}
    BY <1>3, <1>4, <1>5, <2>1 DEF Inv, KeysOK, SameReplies
  <2> QED  BY <2>1, StillEmpty
<1>9. AloneOK'
  <2>1. on'["poll"] \in Askers => on'["poll"] \in Apart
    BY DEF Askers, Apart
  <2>2. Working("poll")' => on'["poll"] \in Apart
    BY DEF Working
  <2> QED  BY <1>2, <1>3, <1>4, <1>5, <2>1, <2>2 DEF Inv, AloneOK, Askers
<1>10. BuffersOK'
  <2>1. \A d \in Apart : SameReplies(d) /\ NoMoreCommands(d)
    BY NoMoreCommandsIfUnchanged DEF Inv
  <2>2. ASSUME NEW t \in Threads
        PROVE  \/ ~ Working(t) /\ ~ Working(t)'
               \/ ops'[t] = ops[t] /\ on'[t] = on[t] /\ reg'[t] = reg[t]
    BY <2>2 DEF Working, Doing, Filling
  <2> QED  BY <2>1, <2>2, NoBufferTouched
<1> QED  BY <1>6, <1>7, <1>8, <1>9, <1>10 DEF Inv

(* A step of the poll thread for such a client. *)
LEMMA MixedPollStep ==
  ASSUME Inv, CellTypes', on["poll"] \notin Apart,
         UNCHANGED <<inbox, seen, script, output, len, offset, valid, queue, on, reg, wire>>,
         ops'["handler"] = ops["handler"],
         \A d \in Clients \ {on["poll"]} :
           buf'[d] = buf[d] /\ reading'[d] = reading[d] /\ owed'[d] = owed[d]
  PROVE  Inv'
<1>1. Types'
  BY TypesStay DEF Inv
<1>2. ASSUME NEW d \in Apart
      PROVE  /\ Commanded(d)' = Commanded(d) /\ SameReplies(d)
             /\ valid'[d] = valid[d] /\ reading'[d] = reading[d]
  <2>1. d \in Clients \ {on["poll"]}
    OBVIOUS
  <2> QED  BY <2>1, SameRepliesIfUnchanged DEF Commanded
<1>3. ASSUME NEW t \in Threads
      PROVE  \/ ops'[t] = ops[t] /\ on'[t] = on[t] /\ reg'[t] = reg[t]
             \/ on'[t] \notin Apart /\ (on[t] \in Apart => ops[t] = <<>>)
  BY DEF Threads
<1>4. HandlerList(ops'["handler"])
  BY DEF Inv
<1> QED  BY <1>1, <1>2, <1>3, <1>4, OthersKeep

LEMMA MixedPoll ==
  ASSUME Inv, CellTypes', on["poll"] \notin Apart,
         \/ ExecNone \/ ExecSet \/ ExecGet \/ ExecMget \/ MakeRead \/ ExecEcho
         \/ ExecError \/ ExecProtocolError \/ ExecKeys \/ ExecQuit \/ TestValid \/ Close
  PROVE  Inv'
<1>1. /\ UNCHANGED <<inbox, seen, script, output, len, offset, valid, queue, on, reg, wire>>
      /\ \/ UNCHANGED ops
         \/ \E l : Continue(l)
         \/ Done("poll")
      /\ UNCHANGED buf \/ buf' = [buf EXCEPT ![on["poll"]] = Tail(@)]
      /\ UNCHANGED reading \/ reading' = [reading EXCEPT ![on["poll"]] = @ + 1]
      /\ UNCHANGED owed \/ \E cells : Owes(on["poll"], cells)
  BY DEF ExecNone, ExecSet, ExecGet, ExecMget, MakeRead, ExecEcho, ExecError,
         ExecProtocolError, ExecKeys, ExecQuit, TestValid, Close, Does, peer, client, thread
<1>2. /\ buf \in [Clients -> Seq(Commands)] /\ reading \in [Clients -> Nat]
      /\ owed \in [Clients -> Seq(Symbols)] /\ ops \in [Threads -> Seq(Steps)]
  BY DEF Inv, Types
<1>3. ops'["handler"] = ops["handler"]
  BY <1>1, <1>2 DEF Continue, Done, Threads
<1>4. \A d \in Clients \ {on["poll"]} :
        buf'[d] = buf[d] /\ reading'[d] = reading[d] /\ owed'[d] = owed[d]
  BY <1>1, <1>2 DEF Owes
<1> QED  BY <1>1, <1>3, <1>4, MixedPollStep

LEMMA MixedOnRead ==
  ASSUME Inv, CellTypes', NEW c \in Clients \ Apart, OnRead(c)
  PROVE  Inv'
<1>1. /\ ops["poll"] = <<>>
      /\ buf' = [buf EXCEPT ![c] = @ \o inbox[c]] /\ inbox' = [inbox EXCEPT ![c] = <<>>]
      /\ on' = [on EXCEPT !["poll"] = c] /\ ops' = [ops EXCEPT !["poll"] = Execute]
      /\ UNCHANGED <<output, len, offset, valid, reading, queue, reg, wire, seen, owed, script>>
  BY DEF OnRead, client
<1>2. Types /\ Types'
  BY <1>1, TypesStay DEF Inv
<1>3. ASSUME NEW d \in Apart
      PROVE  /\ Commanded(d)' = Commanded(d) /\ SameReplies(d)
             /\ valid'[d] = valid[d] /\ reading'[d] = reading[d]
  <2>1. buf'[d] = buf[d] /\ inbox'[d] = inbox[d]
    BY <1>1, <1>2 DEF Types
  <2> QED  BY <1>1, <2>1, SameRepliesIfUnchanged DEF Commanded
<1>4. /\ on'["poll"] = c /\ on'["handler"] = on["handler"]
      /\ ops'["handler"] = ops["handler"] /\ reg' = reg
  BY <1>1, <1>2 DEF Types, Threads
<1>5. ASSUME NEW t \in Threads
      PROVE  \/ ops'[t] = ops[t] /\ on'[t] = on[t] /\ reg'[t] = reg[t]
             \/ on'[t] \notin Apart /\ (on[t] \in Apart => ops[t] = <<>>)
  BY <1>1, <1>4 DEF Threads
<1>6. HandlerList(ops'["handler"])
  BY <1>4 DEF Inv
<1>7. queue' = queue
  BY <1>1
<1> QED  BY <1>2, <1>3, <1>5, <1>6, <1>7, OthersKeep

LEMMA MixedDequeues ==
  ASSUME Inv, CellTypes', HandlerDequeues, Head(queue)[1] \notin Apart
  PROVE  Inv'
<1>1. Types /\ ops["handler"] = <<>> /\ queue # <<>>
  BY DEF Inv, HandlerDequeues
<1>2. queue \in Seq(Clients \X BOOLEAN)
  BY <1>1 DEF Types
<1>3. PICK c \in Clients \ Apart, found \in BOOLEAN : Head(queue)[1] = c /\ Head(queue)[2] = found
  BY <1>1, <1>2
<1>4. /\ queue' = Tail(queue)
      /\ on' = [on EXCEPT !["handler"] = c]
      /\ ops' = [ops EXCEPT !["handler"] = Answer(found)]
      /\ \E cells : owed' = [owed EXCEPT ![c] = @ \o cells]
      /\ UNCHANGED <<inbox, seen, script, buf, output, len, offset, valid, reading, reg, wire>>
  BY <1>3 DEF HandlerDequeues, Owes, peer, client
<1>5. Types'
  BY <1>1, <1>4, TypesStay
<1>6. ASSUME NEW d \in Apart
      PROVE  /\ Commanded(d)' = Commanded(d) /\ SameReplies(d)
             /\ valid'[d] = valid[d] /\ reading'[d] = reading[d]
  <2>1. owed'[d] = owed[d]
    BY <1>1, <1>4 DEF Types
  <2> QED  BY <1>4, <2>1, SameRepliesIfUnchanged DEF Commanded
<1>7. /\ on'["handler"] = c /\ on'["poll"] = on["poll"]
      /\ ops'["handler"] = Answer(found) /\ ops'["poll"] = ops["poll"] /\ reg' = reg
  BY <1>1, <1>4 DEF Types, Threads
<1>8. ASSUME NEW t \in Threads
      PROVE  \/ ops'[t] = ops[t] /\ on'[t] = on[t] /\ reg'[t] = reg[t]
             \/ on'[t] \notin Apart /\ (on[t] \in Apart => ops[t] = <<>>)
  BY <1>1, <1>7 DEF Threads
<1>9. HandlerList(ops'["handler"])
  BY <1>7, AnswerList
<1>10. ASSUME NEW d \in Apart, \A i \in 1..Len(queue) : queue[i][1] # d
       PROVE  \A i \in 1..Len(queue') : queue'[i][1] # d
  <2>1. /\ Len(queue') = Len(queue) - 1 /\ Len(queue) \in Nat
        /\ \A i \in 1..Len(queue') : queue'[i] = queue[i + 1]
    BY <1>1, <1>2, <1>4
  <2>2. \A i \in 1..Len(queue') : i + 1 \in 1..Len(queue)
    BY <2>1
  <2> QED  BY <1>10, <2>1, <2>2
<1> QED  BY <1>5, <1>6, <1>8, <1>9, <1>10, OthersKeep

(* The handler leaves a flush that has nothing to send. *)
LEMMA HandlerSkips ==
  ASSUME NEW l \in Seq(Steps), HandlerList(l), l # <<>>, Head(l)[1] = "test"
  PROVE  HandlerList(SubSeq(l, 4, Len(l)))
<1>1. PICK n \in Nat : n = Len(l) /\ n >= 1 /\ n <= 11
  BY DEF HandlerList
<1>2. l[1][1] = "test" /\ 1 \in 1..n /\ n - 1 + 1 = n
  BY <1>1
<1>3. HandlerOp(n) = "test"
  BY <1>1, <1>2 DEF HandlerList
<1>4. n = 5
  BY <1>1, <1>3 DEF HandlerOp
<1>5. PICK m \in Seq(Steps) :
        /\ m = SubSeq(l, 4, Len(l)) /\ Len(m) = 2 /\ m[1] = l[4] /\ m[2] = l[5]
  <2>1. /\ SubSeq(l, 4, Len(l)) \in Seq(Steps) /\ Len(SubSeq(l, 4, Len(l))) = n - 3
        /\ \A i \in 1..(n - 3) : SubSeq(l, 4, Len(l))[i] = l[i + 3]
    <3>1. n \in Nat /\ n = Len(l) /\ 4 <= n
      BY <1>1, <1>4
    <3> QED  BY <3>1, DropThree, Zenon
  <2>2. n - 3 = 2 /\ 1 \in 1..(n - 3) /\ 2 \in 1..(n - 3) /\ 1 + 3 = 4 /\ 2 + 3 = 5
    BY <1>4
  <2>3. /\ Len(SubSeq(l, 4, Len(l))) = 2
        /\ SubSeq(l, 4, Len(l))[1] = l[4] /\ SubSeq(l, 4, Len(l))[2] = l[5]
    <3>1. SubSeq(l, 4, Len(l))[1] = l[1 + 3] /\ SubSeq(l, 4, Len(l))[2] = l[2 + 3]
      BY <2>1, <2>2, Zenon
    <3> QED  BY <2>1, <2>2, <3>1, Zenon
  <2> QED  BY <2>1, <2>3, Zenon
<1>6. l[4][1] = HandlerOp(2) /\ l[5][1] = HandlerOp(1)
  BY <1>1, <1>4 DEF HandlerList
<1>7. HandlerList(m)
  BY <1>5, <1>6 DEF HandlerList
<1> QED  BY <1>5, <1>7

(* A step of either thread on the buffer of such a client. *)
LEMMA MixedEither ==
  ASSUME Inv, CellTypes', NEW t \in Threads, on[t] \notin Apart, Either(t)
  PROVE  Inv'
<1>1. /\ UNCHANGED <<inbox, seen, script, buf, reading, queue, on, owed>>
      /\ \/ UNCHANGED ops
         \/ Done(t)
         \/ At(t, "test") /\ ops' = [ops EXCEPT ![t] = SubSeq(@, 4, Len(@))]
      /\ UNCHANGED reg \/ \E x : reg' = [reg EXCEPT ![t] = x]
      /\ UNCHANGED output \/ \E x : output' = [output EXCEPT ![on[t]] = x]
      /\ UNCHANGED len \/ \E x : len' = [len EXCEPT ![on[t]] = x]
      /\ UNCHANGED offset \/ \E x : offset' = [offset EXCEPT ![on[t]] = x]
      /\ UNCHANGED valid \/ \E x : valid' = [valid EXCEPT ![on[t]] = x]
      /\ UNCHANGED wire \/ \E x : wire' = [wire EXCEPT ![on[t]] = x]
  <2>1. CASE Copy(t)
    BY <2>1 DEF Copy, peer
  <2>2. CASE Load(t)
    BY <2>2 DEF Load, peer, client
  <2>3. CASE SetLen(t)
    BY <2>3 DEF SetLen, peer
  <2>4. CASE SetOffset(t)
    BY <2>4 DEF SetOffset, peer
  <2>5. CASE SetValid(t)
    BY <2>5 DEF SetValid, peer
  <2>6. CASE TestLen(t)
    BY <2>6 DEF TestLen, peer, client
  <2>7. CASE CallWrite(t)
    BY <2>7 DEF CallWrite, peer, client
  <2>8. CASE WriteCell(t)
    BY <2>8 DEF WriteCell, peer, client
  <2> QED  BY <2>1, <2>2, <2>3, <2>4, <2>5, <2>6, <2>7, <2>8 DEF Either
<1>2. Types /\ Types'
  BY <1>1, TypesStay DEF Inv
<1>3. ASSUME NEW d \in Apart
      PROVE  /\ Commanded(d)' = Commanded(d) /\ SameReplies(d)
             /\ valid'[d] = valid[d] /\ reading'[d] = reading[d]
  <2>1. d \in Clients /\ d # on[t]
    OBVIOUS
  <2>2. /\ output'[d] = output[d] /\ len'[d] = len[d] /\ offset'[d] = offset[d]
        /\ valid'[d] = valid[d] /\ wire'[d] = wire[d]
    <3>1. output'[d] = output[d]
      BY <1>1, <1>2, <2>1 DEF Types
    <3>2. len'[d] = len[d]
      BY <1>1, <1>2, <2>1 DEF Types
    <3>3. offset'[d] = offset[d]
      BY <1>1, <1>2, <2>1 DEF Types
    <3>4. valid'[d] = valid[d]
      <4>1. CASE UNCHANGED valid
        BY <4>1
      <4>2. ASSUME NEW x, valid' = [valid EXCEPT ![on[t]] = x] PROVE valid'[d] = valid[d]
        <5>1. DOMAIN valid = Clients
          BY <1>2, Zenon DEF Types
        <5> QED  BY <2>1, <4>2, <5>1, Zenon
      <4> QED  BY <1>1, <4>1, <4>2, Zenon
    <3>5. wire'[d] = wire[d]
      BY <1>1, <1>2, <2>1 DEF Types
    <3> QED  BY <3>1, <3>2, <3>3, <3>4, <3>5
  <2> QED  BY <1>1, <2>2, SameRepliesIfUnchanged DEF Commanded
<1>4. \A u \in Threads \ {t} : ops'[u] = ops[u] /\ reg'[u] = reg[u]
  BY <1>1, <1>2 DEF Types, Done
<1>5. ASSUME NEW u \in Threads
      PROVE  \/ ops'[u] = ops[u] /\ on'[u] = on[u] /\ reg'[u] = reg[u]
             \/ on'[u] \notin Apart /\ (on[u] \in Apart => ops[u] = <<>>)
  BY <1>1, <1>4
<1>6. HandlerList(ops'["handler"])
  <2>1. CASE t = "poll" \/ UNCHANGED ops
    BY <1>4, <2>1 DEF Inv, Threads
  <2>2. CASE t = "handler" /\ Done(t) /\ ops[t] # <<>>
    BY <2>2, Advance
  <2>3. CASE t = "handler" /\ Done(t) /\ ops[t] = <<>>
    BY <2>3 DEF Either, Copy, Load, SetLen, SetOffset, SetValid, TestLen, CallWrite,
                WriteCell, At
  <2>4. CASE t = "handler" /\ At(t, "test") /\ ops' = [ops EXCEPT ![t] = SubSeq(@, 4, Len(@))]
    BY <1>2, <2>4, HandlerSkips DEF Inv, Types, At
  <2> QED  BY <1>1, <2>1, <2>2, <2>3, <2>4 DEF Threads
<1> QED  BY <1>1, <1>2, <1>3, <1>5, <1>6, OthersKeep

-----------------------------------------------------------------------------

LEMMA StepKeeps ==
  ASSUME Inv, CellTypes', [Next]_vars
  PROVE  Inv'
<1>1. CASE UNCHANGED vars
  <2>1. UNCHANGED <<inbox, buf, output, len, offset, valid, open, reading, queue, ops, on,
                    reg, wire, seen, owed, script, due>>
    BY <1>1 DEF vars
  <2>2. Types'
    BY <2>1 DEF Inv, Types
  <2>3. \A c \in Clients : Commanded(c)' = Commanded(c) /\ SameReplies(c)
    BY <2>1, SameRepliesIfUnchanged DEF Commanded
  <2>4. UNCHANGED <<reading, queue, on, ops, reg, valid>>
    BY <2>1
  <2> QED  BY <2>2, <2>3, <2>4, ThreadsStay
<1>2. ASSUME NEW c \in Clients,
             \/ SendCommand(c) \/ ReadReply(c)
             \/ \E found \in BOOLEAN : EngineFinishes(c, found)
             \/ OnRead(c)
      PROVE  Inv'
  BY <1>2, SendCommandKeeps, ReadReplyKeeps, EngineFinishesKeeps, OnReadKeeps, MixedOnRead
<1>3. ASSUME PollThread, \A c \in Clients : ~ OnRead(c) PROVE Inv'
  <2>1. CASE on["poll"] \in Apart
    BY <1>3, <2>1, ExecNoneKeeps, ExecGetKeeps, ExecEchoKeeps, MakeReadKeeps, RepliesAtOnce,
       TestValidKeeps, CloseKeeps DEF PollThread
  <2>2. CASE on["poll"] \notin Apart
    BY <1>3, <2>2, MixedPoll DEF PollThread
  <2> QED  BY <2>1, <2>2
<1>4. ASSUME NEW t \in Threads, Either(t) PROVE Inv'
  <2>0. CASE on[t] \notin Apart
    BY <1>4, <2>0, MixedEither
  <2>4. SUFFICES ASSUME on[t] \in Apart PROVE Inv'
    BY <2>0
  <2>1. CASE Scans(t) /\ (Copy(t) \/ Load(t) \/ SetLen(t))
    BY <2>1, ScanCopyKeeps, ScanLoadKeeps, ScanStoreKeeps DEF Scans
  <2>2. CASE ~ Scans(t) /\ (Copy(t) \/ Load(t) \/ SetLen(t))
    BY <2>4, <2>2, CopyKeeps, LoadKeeps, StoreKeeps, ZeroKeeps DEF SetLen
  <2>3. CASE SetOffset(t)
    BY <2>4, <2>3, OffsetKeeps, HeaderKeeps DEF SetOffset
  <2> QED  BY <2>4, <1>4, <2>1, <2>2, <2>3, SetValidKeeps, TestLenKeeps, CallWriteKeeps,
              WriteCellKeeps DEF Either
<1>5. CASE Next
  BY <1>2, <1>3, <1>4, <1>5, HandlerDequeuesKeeps, MixedDequeues DEF Next
<1> QED  BY <1>1, <1>5

(* However the threads, the engine and the peers interleave, and whatever  *)
(* other peers send, what a peer that only asks or only tells has received *)
(* is a prefix of its replies in the order in which they were produced:    *)
(* the unlocked output buffer of poll_server.cpp loses, repeats and        *)
(* overwrites nothing of it.  The two threads do spoil each other's        *)
(* replies to a peer that mixes, but no one else's.                        *)
THEOREM RepliesStayIntact == Spec => []RepliesIntact
<1>1. Init => Inv
  BY StartsIntact
<1>2. Inv /\ Accounts' /\ [Next]_vars => Inv'
  BY StepKeeps DEF Accounts
<1>3. Inv => RepliesIntact
  BY Intact
<1> QED  BY <1>1, <1>2, <1>3, InvAlways, PTL DEF Spec

=============================================================================
