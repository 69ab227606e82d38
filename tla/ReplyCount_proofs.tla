--------------------------- MODULE ReplyCount_proofs ---------------------------
(***************************************************************************)
(* Types and the account of the replies of ReplyPath, for any clients,     *)
(* scripts and cells: no condition on what a peer may mix.  Both threads   *)
(* may then be in one buffer and spoil its contents, but what they do to   *)
(* its length is bounded: a store puts back at most what was loaded and    *)
(* one, and every cell to be stored belongs to a reply that is due.        *)
(***************************************************************************)
EXTENDS ReplyPath, SequenceTheorems, FiniteSetTheorems, FunctionTheorems, TLAPS

-----------------------------------------------------------------------------
(* The invariant *)

Symbols == Replies \cup {"crlf", "?", "junk"}
Steps ==
  {<<"copy", x>> : x \in Symbols} \cup {<<"test", off>> : off \in {"own", "zero"}}
  \cup {<<op>> : op \in {"load", "store", "read", "next", "valid?", "validate", "invalid",
                       "write", "zero", "zerooff", "header", "close"}}

(* A load is followed by its store, a test by the rest of its flush, and   *)
(* the next command comes last.                                            *)
Complete(l) ==
  \A i \in 1..Len(l) :
    /\ l[i][1] = "load" => i < Len(l) /\ l[i + 1] = <<"store">>
    /\ l[i][1] = "test" => i + 2 <= Len(l) /\ l[i + 1] = <<"write">> /\ l[i + 2] = <<"zero">>
    /\ l[i][1] = "next" => i = Len(l)

Reads(l) == Count(l, {<<"read">>})
Stores(l) == Count(l, {<<"store">>})

(* The replies that are still to be produced, and the cells still to be    *)
(* stored of those that are.                                               *)
PollReads(c) == IF on["poll"] = c THEN Reads(ops["poll"]) ELSE 0
Ahead(c) ==
  RepliesToAll(script[c]) + RepliesToAll(inbox[c]) + RepliesToAll(buf[c]) + reading[c]
  + PollReads(c) + Pending(c)
StoresOf(t, c) == IF on[t] = c THEN Stores(ops[t]) ELSE 0
ToStore(c) == StoresOf("poll", c) + StoresOf("handler", c)

(* Room for all of them behind cell n; no reply takes more than Space.     *)
Space == Filler + 2
Bound == Most * Space
Fits(c, n) == n + ToStore(c) + Space * Ahead(c) <= Bound

CellLocals == [tmp : Cells, off : Cells, size : Cells, sent : Cells, n : Cells]

CellTypes ==
  /\ inbox \in [Clients -> Seq(Commands)]
  /\ buf \in [Clients -> Seq(Commands)]
  /\ script \in [Clients -> Seq(Commands)]
  /\ output \in [Clients -> [Cells -> Symbols]]
  /\ len \in [Clients -> Nat]
  /\ offset \in [Clients -> Cells]
  /\ valid \in [Clients -> BOOLEAN]
  /\ open \subseteq Clients
  /\ reading \in [Clients -> Nat]
  /\ queue \in Seq(Clients \X BOOLEAN)
  /\ ops \in [Threads -> Seq(Steps)]
  /\ on \in [Threads -> Clients]
  /\ reg \in [Threads -> CellLocals]
  /\ wire \in [Clients -> Seq(Symbols)]
  /\ owed \in [Clients -> Seq(Symbols)]
  /\ due \in [Clients -> Nat]

WiresOK == \A c \in Clients : Len(wire[c]) <= SockBuf
ListsComplete == \A t \in Threads : Complete(ops[t])
LocalsOK == \A t \in Threads : reg[t].sent <= reg[t].off /\ reg[t].off + reg[t].n <= Bound

AccountOK ==
  \A c \in Clients :
    /\ due[c] + RepliesToAll(script[c]) = Ahead(c) + Count(owed[c], Replies)
    /\ due[c] + RepliesToAll(script[c]) <= Most

RoomOK ==
  /\ \A c \in Clients : Fits(c, len[c])
  /\ \A t \in Threads :
       reg[t].tmp # 0 => At(t, "store") /\ Fits(on[t], reg[t].tmp - 1)

Accounts == CellTypes /\ WiresOK /\ ListsComplete /\ LocalsOK /\ AccountOK /\ RoomOK

-----------------------------------------------------------------------------
(* Counting *)

Places(s, S) == {i \in 1..Len(s) : s[i] \in S}

LEMMA PlacesFinite ==
  ASSUME NEW T, NEW s \in Seq(T), NEW S
  PROVE  /\ IsFiniteSet(Places(s, S))
         /\ Cardinality(Places(s, S)) \in 0..Len(s)
         /\ Count(s, S) = Cardinality(Places(s, S))
<1>1. Len(s) \in Nat
  OBVIOUS
<1>2. IsFiniteSet(1..Len(s)) /\ Cardinality(1..Len(s)) = Len(s)
  BY <1>1, FS_Interval
<1>3. Places(s, S) \subseteq 1..Len(s)
  BY DEF Places
<1>4. IsFiniteSet(Places(s, S)) /\ Cardinality(Places(s, S)) <= Len(s)
  BY <1>2, <1>3, FS_Subset
<1>5. Cardinality(Places(s, S)) \in Nat
  BY <1>4, FS_CardinalityType
<1> QED  BY <1>1, <1>4, <1>5 DEF Count, Places

(* All elements are in S. *)
LEMMA CountAll ==
  ASSUME NEW T, NEW s \in Seq(T), NEW S, \A i \in 1..Len(s) : s[i] \in S
  PROVE  Count(s, S) = Len(s)
<1>1. Len(s) \in Nat /\ Places(s, S) = 1..Len(s)
  BY DEF Places
<1> QED  BY <1>1, PlacesFinite, FS_Interval

(* No element is. *)
LEMMA CountNone ==
  ASSUME NEW T, NEW s \in Seq(T), NEW S, \A i \in 1..Len(s) : s[i] \notin S
  PROVE  Count(s, S) = 0
<1>1. Places(s, S) = {}
  BY DEF Places
<1> QED  BY <1>1, PlacesFinite, FS_EmptySet

LEMMA CountConcat ==
  ASSUME NEW T, NEW s \in Seq(T), NEW t \in Seq(T), NEW S
  PROVE  Count(s \o t, S) = Count(s, S) + Count(t, S)
<1> DEFINE A == Places(s, S)
           B == Places(t, S)
           C == Places(s \o t, S)
           D == {Len(s) + j : j \in B}
           f == [j \in B |-> Len(s) + j]
<1>1. /\ s \o t \in Seq(T) /\ Len(s) \in Nat /\ Len(t) \in Nat
      /\ Len(s \o t) = Len(s) + Len(t)
      /\ \A i \in 1..Len(s) : (s \o t)[i] = s[i]
      /\ \A i \in 1..Len(t) : (s \o t)[Len(s) + i] = t[i]
  OBVIOUS
<1>2. A \subseteq 1..Len(s) /\ B \subseteq 1..Len(t) /\ C \subseteq 1..(Len(s) + Len(t))
  BY <1>1 DEF Places
<1>3. C = A \cup D
  <2>1. ASSUME NEW i \in C PROVE i \in A \cup D
    <3>1. CASE i <= Len(s)
      BY <1>1, <1>2, <2>1, <3>1 DEF Places
    <3>2. CASE i > Len(s)
      <4>1. i - Len(s) \in 1..Len(t) /\ Len(s) + (i - Len(s)) = i
        BY <1>1, <1>2, <2>1, <3>2
      <4>2. i - Len(s) \in B
        BY <1>1, <2>1, <4>1 DEF Places
      <4> QED  BY <4>1, <4>2
    <3> QED  BY <1>1, <1>2, <3>1, <3>2
  <2>2. ASSUME NEW i \in A PROVE i \in C
    BY <1>1, <2>2 DEF Places
  <2>3. ASSUME NEW j \in B PROVE Len(s) + j \in C
    BY <1>1, <2>3 DEF Places
  <2> QED  BY <2>1, <2>2, <2>3
<1>4. A \cap D = {}
  BY <1>1, <1>2
<1>5. ExistsBijection(B, D)
  <2>1. f \in [B -> D]
    OBVIOUS
  <2>2. f \in Injection(B, D)
    BY <1>1, <1>2, <2>1 DEF Injection, IsInjective
  <2>3. f \in Surjection(B, D)
    BY <2>1 DEF Surjection
  <2> QED  BY <2>2, <2>3 DEF ExistsBijection, Bijection
<1>6. IsFiniteSet(A) /\ IsFiniteSet(B)
  BY PlacesFinite
<1>7. IsFiniteSet(D) /\ Cardinality(D) = Cardinality(B)
  BY <1>5, <1>6, FS_Bijection
<1>8. Cardinality(C) = Cardinality(A) + Cardinality(D) - Cardinality(A \cap D)
  BY <1>3, <1>6, <1>7, FS_Union
<1>9. Cardinality(A \cap D) = 0
  BY <1>4, FS_EmptySet
<1>10. Cardinality(A) \in Nat /\ Cardinality(B) \in Nat
  BY <1>6, FS_CardinalityType
<1>11. /\ Count(s, S) = Cardinality(A) /\ Count(t, S) = Cardinality(B)
       /\ Count(s \o t, S) = Cardinality(C)
  BY <1>1, PlacesFinite
<1> HIDE DEF A, B, C, D
<1> QED  BY <1>7, <1>8, <1>9, <1>10, <1>11

LEMMA CountOne ==
  ASSUME NEW x, NEW S
  PROVE  Count(<<x>>, S) = IF x \in S THEN 1 ELSE 0
<1>1. PICK s \in Seq({x}) : s = <<x>> /\ Len(s) = 1 /\ \A i \in 1..Len(s) : s[i] = x
  <2>1. <<x>> \in Seq({x}) /\ Len(<<x>>) = 1 /\ \A i \in 1..1 : <<x>>[i] = x
    OBVIOUS
  <2> QED  BY <2>1, Zenon
<1>2. CASE x \in S
  <2>1. Count(s, S) = Len(s)
    BY <1>1, <1>2, CountAll, Zenon
  <2> QED  BY <1>1, <1>2, <2>1
<1>3. CASE x \notin S
  <2>1. Count(s, S) = 0
    BY <1>1, <1>3, CountNone, Zenon
  <2> QED  BY <1>1, <1>3, <2>1
<1> QED  BY <1>2, <1>3

LEMMA CountAppend ==
  ASSUME NEW T, NEW s \in Seq(T), NEW x \in T, NEW S
  PROVE  Count(Append(s, x), S) = Count(s, S) + (IF x \in S THEN 1 ELSE 0)
<1>1. PICK t \in Seq(T) : t = <<x>> /\ Append(s, x) = s \o t
  <2>1. <<x>> \in Seq(T) /\ Append(s, x) = s \o <<x>>
    OBVIOUS
  <2> QED  BY <2>1, Zenon
<1>2. Count(s \o t, S) = Count(s, S) + Count(t, S)
  BY CountConcat, Zenon
<1>3. Count(t, S) = IF x \in S THEN 1 ELSE 0
  BY <1>1, CountOne, Zenon
<1> QED  BY <1>1, <1>2, <1>3, Zenon

LEMMA CountTail ==
  ASSUME NEW T, NEW s \in Seq(T), s # <<>>, NEW S
  PROVE  Count(s, S) = (IF Head(s) \in S THEN 1 ELSE 0) + Count(Tail(s), S)
<1>1. PICK t \in Seq(T) : t = <<Head(s)>> /\ Tail(s) \in Seq(T) /\ t \o Tail(s) = s
  <2>1. <<Head(s)>> \in Seq(T) /\ Tail(s) \in Seq(T) /\ <<Head(s)>> \o Tail(s) = s
    OBVIOUS
  <2> QED  BY <2>1, Zenon
<1>2. Count(t \o Tail(s), S) = Count(t, S) + Count(Tail(s), S)
  BY <1>1, CountConcat, Zenon
<1>3. Count(t, S) = IF Head(s) \in S THEN 1 ELSE 0
  BY <1>1, CountOne, Zenon
<1> QED  BY <1>1, <1>2, <1>3, Zenon

LEMMA CountType ==
  ASSUME NEW T, NEW s \in Seq(T), NEW S
  PROVE  Count(s, S) \in 0..Len(s)
  BY PlacesFinite, Zenon

LEMMA CountEmpty ==
  ASSUME NEW S
  PROVE  Count(<<>>, S) = 0
<1>1. <<>> \in Seq(S) /\ Len(<<>>) = 0 /\ 1..0 = {}
  OBVIOUS
<1> QED  BY <1>1, CountNone, Zenon

-----------------------------------------------------------------------------
(* Replies *)

LEMMA Constants ==
  /\ MgetKeys \in Nat /\ Filler \in Nat \ {0} /\ SockBuf \in Nat \ {0}
  /\ MaxScript \in Nat \ {0} /\ Most \in Nat \ {0}
  /\ Space \in Nat /\ Space >= 3 /\ Space = Filler + 2
  /\ Bound \in Nat /\ Bound >= Space /\ Cells = 0..Bound
<1>1. MgetKeys \in Nat /\ Filler \in Nat \ {0} /\ SockBuf \in Nat \ {0} /\ MaxScript \in Nat \ {0}
  BY ReplyPathAssumption, Zenon
<1>2. Most \in Nat \ {0}
  BY <1>1 DEF Most
<1>3. Space \in Nat /\ Space >= 3 /\ Space = Filler + 2
  BY <1>1 DEF Space
<1>4. Most * Space \in Nat /\ Most * Space >= Space
  BY <1>2, <1>3
<1>5. Cells = 0..Bound
  BY DEF Cells, Bound, Space
<1> QED  BY <1>1, <1>2, <1>3, <1>4, <1>5 DEF Bound

LEMMA RepliesType ==
  ASSUME NEW s \in Seq(Commands)
  PROVE  /\ RepliesToAll(s) \in Nat
         /\ RepliesToAll(s) <= Len(s) * (MgetKeys + 1)
<1>1. PICK m \in Nat, n \in Nat, k \in Nat :
        /\ m = Count(s, Commands \ {"echo"}) /\ n = Count(s, {"mget"}) /\ k = Len(s)
        /\ m <= k /\ n <= k
  BY CountType
<1>2. MgetKeys \in Nat
  BY Constants
<1>3. PICK q \in Nat : q = MgetKeys
  BY <1>2
<1>4. RepliesToAll(s) = m + q * n
  BY <1>1, <1>3 DEF RepliesToAll
<1>5. q * n \in Nat /\ q * n <= q * k
  BY <1>1
<1>6. k * (q + 1) = q * k + k
  OBVIOUS
<1> QED  BY <1>1, <1>3, <1>4, <1>5, <1>6

LEMMA RepliesOne ==
  ASSUME NEW command \in Commands
  PROVE  /\ RepliesTo(command) \in Nat
         /\ RepliesTo(command) =
              (IF command \in Commands \ {"echo"} THEN 1 ELSE 0)
              + MgetKeys * (IF command \in {"mget"} THEN 1 ELSE 0)
<1>1. MgetKeys \in Nat
  BY Constants
<1>2. CASE command = "mget"
  <2>1. RepliesTo(command) = 1 + MgetKeys
    BY <1>2 DEF RepliesTo
  <2> QED  BY <1>1, <1>2, <2>1
<1>3. CASE command = "echo"
  <2>1. RepliesTo(command) = 0
    BY <1>3 DEF RepliesTo
  <2> QED  BY <1>1, <1>3, <2>1
<1>4. CASE command \notin {"mget", "echo"}
  <2>1. RepliesTo(command) = 1
    BY <1>4 DEF RepliesTo
  <2> QED  BY <1>1, <1>4, <2>1
<1> QED  BY <1>2, <1>3, <1>4

LEMMA RepliesAppend ==
  ASSUME NEW s \in Seq(Commands), NEW command \in Commands
  PROVE  RepliesToAll(Append(s, command)) = RepliesToAll(s) + RepliesTo(command)
<1>1. PICK m \in Nat, n \in Nat, q \in Nat :
        m = Count(s, Commands \ {"echo"}) /\ n = Count(s, {"mget"}) /\ q = MgetKeys
  BY CountType, Constants
<1> DEFINE i == IF command \in Commands \ {"echo"} THEN 1 ELSE 0
           j == IF command \in {"mget"} THEN 1 ELSE 0
<1>2. /\ Count(Append(s, command), Commands \ {"echo"}) = m + i
      /\ Count(Append(s, command), {"mget"}) = n + j
  <2>1. Count(Append(s, command), Commands \ {"echo"}) = m + i
    <3>1. \A S : Count(Append(s, command), S) = Count(s, S) + (IF command \in S THEN 1 ELSE 0)
      BY CountAppend, Zenon
    <3> QED  BY <1>1, <3>1
  <2>2. Count(Append(s, command), {"mget"}) = n + j
    BY <1>1, CountAppend, Zenon
  <2> QED  BY <2>1, <2>2
<1>3. RepliesTo(command) = i + q * j
  BY <1>1, RepliesOne, Zenon
<1>4. i \in Nat /\ j \in Nat
  OBVIOUS
<1> HIDE DEF i, j
<1>5. (m + i) + q * (n + j) = (m + q * n) + (i + q * j)
  BY <1>4
<1> QED  BY <1>1, <1>2, <1>3, <1>5 DEF RepliesToAll

LEMMA RepliesTail ==
  ASSUME NEW s \in Seq(Commands), s # <<>>
  PROVE  /\ Head(s) \in Commands
         /\ RepliesToAll(s) = RepliesTo(Head(s)) + RepliesToAll(Tail(s))
<1>1. Head(s) \in Commands /\ Tail(s) \in Seq(Commands)
  OBVIOUS
<1>2. PICK command \in Commands : command = Head(s)
  BY <1>1, Zenon
<1>3. PICK m \in Nat, n \in Nat, q \in Nat :
        /\ m = Count(Tail(s), Commands \ {"echo"}) /\ n = Count(Tail(s), {"mget"})
        /\ q = MgetKeys
  <2>1. /\ Count(Tail(s), Commands \ {"echo"}) \in Nat /\ Count(Tail(s), {"mget"}) \in Nat
        /\ MgetKeys \in Nat
    <3>1. \A t \in Seq(Commands) : \A S : Count(t, S) \in Nat
      BY CountType
    <3> QED  BY <1>1, <3>1, Constants, Zenon
  <2> QED  BY <2>1, Zenon
<1> DEFINE i == IF command \in Commands \ {"echo"} THEN 1 ELSE 0
           j == IF command \in {"mget"} THEN 1 ELSE 0
<1>4. /\ Count(s, Commands \ {"echo"}) = i + m
      /\ Count(s, {"mget"}) = j + n
  BY <1>2, <1>3, CountTail, Zenon
<1>5. RepliesTo(command) = i + q * j
  BY <1>3, RepliesOne, Zenon
<1>6. i \in Nat /\ j \in Nat
  OBVIOUS
<1> HIDE DEF i, j
<1>7. (i + m) + q * (j + n) = (i + q * j) + (m + q * n)
  BY <1>6
<1> QED  BY <1>1, <1>2, <1>3, <1>4, <1>5, <1>7 DEF RepliesToAll

LEMMA RepliesConcat ==
  ASSUME NEW s \in Seq(Commands), NEW t \in Seq(Commands)
  PROVE  RepliesToAll(s \o t) = RepliesToAll(s) + RepliesToAll(t)
<1>1. PICK m \in Nat, n \in Nat, q \in Nat, i \in Nat, j \in Nat :
        /\ m = Count(s, Commands \ {"echo"}) /\ n = Count(s, {"mget"}) /\ q = MgetKeys
        /\ i = Count(t, Commands \ {"echo"}) /\ j = Count(t, {"mget"})
  <2>1. /\ Count(s, Commands \ {"echo"}) \in Nat /\ Count(s, {"mget"}) \in Nat
        /\ Count(t, Commands \ {"echo"}) \in Nat /\ Count(t, {"mget"}) \in Nat
        /\ MgetKeys \in Nat
    BY CountType, Constants
  <2> QED  BY <2>1, Zenon
<1>2. /\ Count(s \o t, Commands \ {"echo"}) = m + i
      /\ Count(s \o t, {"mget"}) = n + j
  BY <1>1, CountConcat, Zenon
<1>3. (m + i) + q * (n + j) = (m + q * n) + (i + q * j)
  OBVIOUS
<1> QED  BY <1>1, <1>2, <1>3 DEF RepliesToAll

LEMMA RepliesEmpty == RepliesToAll(<<>>) = 0
<1>1. Count(<<>>, Commands \ {"echo"}) = 0 /\ Count(<<>>, {"mget"}) = 0
  BY CountEmpty
<1>2. PICK q \in Nat : q = MgetKeys
  BY Constants
<1>3. 0 + q * 0 = 0
  OBVIOUS
<1> QED  BY <1>1, <1>2, <1>3 DEF RepliesToAll

-----------------------------------------------------------------------------
(* Lists of steps *)

(* l is a list of steps with r reads and n stores. *)
IsList(l, r, n) ==
  /\ l \in Seq(Steps) /\ Complete(l)
  /\ Reads(l) = r /\ Stores(l) = n
  /\ r \in Nat /\ n \in Nat

(* Others may follow it. *)
IsPlain(l, r, n) ==
  /\ IsList(l, r, n)
  /\ \A i \in 1..Len(l) : l[i][1] # "next"

LEMMA StepsAre ==
  /\ \A x \in Symbols : <<"copy", x>> \in Steps /\ <<"copy", x>>[1] = "copy"
  /\ \A off \in {"own", "zero"} : <<"test", off>> \in Steps /\ <<"test", off>>[1] = "test"
  /\ \A op \in {"load", "store", "read", "next", "valid?", "validate", "invalid",
                "write", "zero", "zerooff", "header", "close"} :
       <<op>> \in Steps /\ <<op>>[1] = op
  /\ \A step \in Steps : step[1] = "read" <=> step = <<"read">>
  /\ \A step \in Steps : step[1] = "store" <=> step = <<"store">>
  /\ \A step \in Steps : step[1] = "copy" => step[2] \in Symbols
  BY DEF Steps

LEMMA ListJoin ==
  ASSUME NEW k, NEW l, NEW r1, NEW n1, NEW r2, NEW n2,
         IsPlain(k, r1, n1), IsList(l, r2, n2)
  PROVE  /\ IsList(k \o l, r1 + r2, n1 + n2)
         /\ IsPlain(l, r2, n2) => IsPlain(k \o l, r1 + r2, n1 + n2)
<1>1. /\ k \in Seq(Steps) /\ l \in Seq(Steps) /\ r1 \in Nat /\ r2 \in Nat /\ n1 \in Nat /\ n2 \in Nat
      /\ Complete(k) /\ Complete(l)
      /\ \A i \in 1..Len(k) : k[i][1] # "next"
  BY DEF IsList, IsPlain
<1>2. k \o l \in Seq(Steps)
  BY <1>1
<1>3. Reads(k \o l) = r1 + r2 /\ Stores(k \o l) = n1 + n2
  <2>1. Reads(k \o l) = Reads(k) + Reads(l) /\ Stores(k \o l) = Stores(k) + Stores(l)
    BY <1>1, CountConcat DEF Reads, Stores
  <2> QED  BY <2>1 DEF IsList, IsPlain
<1>4. /\ Complete(k \o l)
      /\ (\A i \in 1..Len(l) : l[i][1] # "next") =>
           \A i \in 1..Len(k \o l) : (k \o l)[i][1] # "next"
  <2>1. /\ Len(k) \in Nat /\ Len(l) \in Nat /\ Len(k \o l) = Len(k) + Len(l)
        /\ \A i \in 1..Len(k) : (k \o l)[i] = k[i]
        /\ \A i \in 1..Len(l) : (k \o l)[Len(k) + i] = l[i]
    BY <1>1
  <2>2. PICK m \in Seq(Steps), a \in Nat, b \in Nat :
          m = k \o l /\ a = Len(k) /\ b = Len(l)
    BY <1>2, <2>1, Zenon
  <2>3. ASSUME NEW i \in 1..(a + b)
        PROVE  /\ m[i][1] = "load" => i < a + b /\ m[i + 1] = <<"store">>
               /\ m[i][1] = "test" => i + 2 <= a + b /\ m[i + 1] = <<"write">>
                                      /\ m[i + 2] = <<"zero">>
               /\ m[i][1] = "next" => i = a + b /\ \E j \in 1..b : l[j][1] = "next"
    <3>1. CASE i <= a
      <4>1. i \in 1..a /\ m[i] = k[i]
        BY <2>1, <2>2, <3>1
      <4>2. /\ m[i][1] = "load" => i + 1 \in 1..a /\ k[i + 1] = <<"store">>
            /\ m[i][1] = "test" => i + 1 \in 1..a /\ i + 2 \in 1..a /\ k[i + 1] = <<"write">>
                                   /\ k[i + 2] = <<"zero">>
            /\ m[i][1] # "next"
        BY <1>1, <2>2, <4>1 DEF Complete
      <4> QED  BY <2>1, <2>2, <4>2
    <3>2. CASE i > a
      <4>1. PICK j \in 1..b : i = a + j /\ m[i] = l[j]
        <5>1. i - a \in 1..b /\ i = a + (i - a)
          BY <3>2
        <5> QED  BY <2>1, <2>2, <5>1
      <4>2. /\ m[i][1] = "load" => j + 1 \in 1..b /\ l[j + 1] = <<"store">>
            /\ m[i][1] = "test" => j + 1 \in 1..b /\ j + 2 \in 1..b /\ l[j + 1] = <<"write">>
                                   /\ l[j + 2] = <<"zero">>
            /\ m[i][1] = "next" => j = b /\ l[j][1] = "next"
        BY <1>1, <2>2, <4>1 DEF Complete
      <4>3. (a + j) + 1 = a + (j + 1) /\ (a + j) + 2 = a + (j + 2)
        OBVIOUS
      <4> QED  BY <2>1, <2>2, <4>1, <4>2, <4>3
    <3> QED  BY <3>1, <3>2
  <2>4. Len(m) = a + b
    BY <2>1, <2>2
  <2> QED  BY <2>2, <2>3, <2>4 DEF Complete
<1> QED  BY <1>1, <1>2, <1>3, <1>4 DEF IsList, IsPlain

LEMMA PlainJoin ==
  ASSUME NEW k, NEW l, NEW r1, NEW n1, NEW r2, NEW n2,
         IsPlain(k, r1, n1), IsPlain(l, r2, n2)
  PROVE  IsPlain(k \o l, r1 + r2, n1 + n2)
  BY ListJoin DEF IsPlain

(* One step that needs no other behind it *)
LEMMA ListOne ==
  ASSUME NEW step \in Steps, step[1] \notin {"load", "test"}, NEW r, NEW n,
         r = (IF step = <<"read">> THEN 1 ELSE 0), n = (IF step = <<"store">> THEN 1 ELSE 0)
  PROVE  /\ IsList(<<step>>, r, n)
         /\ step[1] # "next" => IsPlain(<<step>>, r, n)
<1>1. <<step>> \in Seq(Steps) /\ Len(<<step>>) = 1 /\ \A i \in 1..1 : <<step>>[i] = step
  OBVIOUS
<1>2. Complete(<<step>>)
  BY <1>1 DEF Complete
<1>3. /\ Reads(<<step>>) = (IF step = <<"read">> THEN 1 ELSE 0)
      /\ Stores(<<step>>) = (IF step = <<"store">> THEN 1 ELSE 0)
  BY CountOne DEF Reads, Stores
<1> QED  BY <1>1, <1>2, <1>3 DEF IsList, IsPlain

LEMMA ListSingles ==
  /\ \A op \in {"valid?", "validate", "invalid", "zero", "zerooff", "header", "close"} :
       IsPlain(<<<<op>>>>, 0, 0)
  /\ IsList(<<<<"next">>>>, 0, 0)
  BY StepsAre, ListOne

LEMMA ListEmpty == IsPlain(<<>>, 0, 0)
  BY CountEmpty DEF IsPlain, IsList, Complete, Reads, Stores

LEMMA ListWrite ==
  ASSUME NEW x \in Symbols
  PROVE  IsPlain(Write(x), 0, 1)
<1>1. PICK l : l = Write(x) /\ l = <<<<"copy", x>>, <<"load">>, <<"store">>>>
  BY DEF Write
<1>2. /\ l \in Seq(Steps) /\ Len(l) = 3
      /\ l[1] = <<"copy", x>> /\ l[2] = <<"load">> /\ l[3] = <<"store">>
  BY <1>1, StepsAre
<1>3. Complete(l)
  BY <1>2, StepsAre DEF Complete
<1>4. Reads(l) = 0
  <2>1. \A i \in 1..Len(l) : l[i] \notin {<<"read">>}
    BY <1>2, StepsAre
  <2> QED  BY <1>2, <2>1, CountNone DEF Reads
<1>5. Stores(l) = 1
  <2>1. Places(l, {<<"store">>}) = {3}
    BY <1>2, StepsAre DEF Places
  <2>2. Cardinality({3}) = 1
    BY FS_Singleton
  <2> QED  BY <1>2, <2>1, <2>2, PlacesFinite DEF Stores
<1> QED  BY <1>1, <1>2, <1>3, <1>4, <1>5 DEF IsPlain, IsList

LEMMA ListFlush ==
  ASSUME NEW off \in {"own", "zero"}
  PROVE  IsPlain(Flush(off), 0, 0)
<1>1. PICK l : l = Flush(off) /\ l = <<<<"test", off>>, <<"write">>, <<"zero">>>>
  BY DEF Flush
<1>2. /\ l \in Seq(Steps) /\ Len(l) = 3
      /\ l[1] = <<"test", off>> /\ l[2] = <<"write">> /\ l[3] = <<"zero">>
  BY <1>1, StepsAre
<1>3. Complete(l)
  BY <1>2, StepsAre DEF Complete
<1>4. \A i \in 1..Len(l) : l[i] \notin {<<"read">>} /\ l[i] \notin {<<"store">>}
  BY <1>2, StepsAre
<1>5. Reads(l) = 0 /\ Stores(l) = 0
  BY <1>2, <1>4, CountNone DEF Reads, Stores
<1> QED  BY <1>1, <1>2, <1>3, <1>5 DEF IsPlain, IsList

LEMMA ListClear == IsPlain(Clear, 0, 0)
<1>1. Clear = <<<<"zero">>>> \o <<<<"zerooff">>>>
  BY DEF Clear
<1> QED  BY <1>1, ListSingles, PlainJoin

LEMMA ListFlushAndClear == IsPlain(FlushAndClear, 0, 0)
<1>1. IsPlain(Flush("own") \o Clear, 0, 0)
  BY ListFlush, ListClear, PlainJoin
<1> QED  BY <1>1, ListSingles, PlainJoin DEF FlushAndClear

LEMMA ListAnswer ==
  ASSUME NEW found \in BOOLEAN
  PROVE  \E n \in {1, 2} : IsPlain(Answer(found), 0, n)
<1>1. "bulk" \in Symbols /\ "crlf" \in Symbols /\ "nil" \in Symbols
  BY DEF Symbols, Replies
<1>2. IsPlain(Write("bulk") \o Write("crlf"), 0, 2)
  BY <1>1, ListWrite, PlainJoin
<1>3. PICK n \in {1, 2} : IsPlain(IF found THEN Write("bulk") \o Write("crlf") ELSE Write("nil"), 0, n)
  BY <1>1, <1>2, ListWrite
<1>4. IsPlain((IF found THEN Write("bulk") \o Write("crlf") ELSE Write("nil")) \o Flush("zero"), 0, n)
  BY <1>3, ListFlush, PlainJoin
<1>5. IsPlain(Answer(found), 0, n)
  <2>1. 0 + 0 = 0 /\ n + 0 = n
    OBVIOUS
  <2>2. IsPlain(Answer(found), 0 + 0, n + 0)
    BY <1>4, ListClear, PlainJoin, Zenon DEF Answer
  <2> QED  BY <2>1, <2>2
<1> QED  BY <1>5

(* The reads of an MGET *)
LEMMA ListReads == IsPlain([k \in 1..MgetKeys |-> <<"read">>], MgetKeys, 0)
<1>1. PICK l : l = [k \in 1..MgetKeys |-> <<"read">>]
  OBVIOUS
<1>2. MgetKeys \in Nat
  BY Constants
<1>3. <<"read">> \in Steps
  BY StepsAre
<1>4. l \in Seq(Steps) /\ Len(l) = MgetKeys /\ \A i \in 1..MgetKeys : l[i] = <<"read">>
  BY <1>1, <1>2, <1>3
<1>5. Complete(l)
  BY <1>4, StepsAre DEF Complete
<1>6. Reads(l) = MgetKeys /\ Stores(l) = 0
  BY <1>4, CountAll, CountNone, StepsAre DEF Reads, Stores
<1> QED  BY <1>1, <1>2, <1>4, <1>5, <1>6 DEF IsPlain, IsList

(* What exec_scan_keys writes *)
LEMMA ListScanKeys == IsPlain(ScanKeys, 0, Filler)
<1>1. PICK l : l = [k \in 1..(3 * Filler) |-> Write("?")[1 + ((k - 1) % 3)]]
  OBVIOUS
<1>2. PICK n \in Nat \ {0} : n = Filler
  BY Constants
<1>3. \A k \in 1..(3 * n) :
        l[k] = (IF (k - 1) % 3 = 0 THEN <<"copy", "?">>
                ELSE IF (k - 1) % 3 = 1 THEN <<"load">> ELSE <<"store">>)
  <2>1. Write("?")[1] = <<"copy", "?">> /\ Write("?")[2] = <<"load">> /\ Write("?")[3] = <<"store">>
    BY DEF Write
  <2>2. ASSUME NEW k \in 1..(3 * n)
        PROVE  l[k] = Write("?")[1 + ((k - 1) % 3)] /\ (k - 1) % 3 \in {0, 1, 2}
    BY <1>1, <1>2
  <2> QED  BY <2>1, <2>2
<1>4. <<"copy", "?">> \in Steps /\ <<"load">> \in Steps /\ <<"store">> \in Steps
  BY StepsAre DEF Symbols
<1>5. l \in Seq(Steps) /\ Len(l) = 3 * n
  <2>1. \A k \in 1..(3 * n) : l[k] \in Steps
    BY <1>3, <1>4
  <2>2. l \in [1..(3 * n) -> Steps]
    <3>1. l = [k \in 1..(3 * n) |-> l[k]]
      BY <1>1, <1>2
    <3> QED  BY <2>1, <3>1
  <2> QED  BY <2>2
<1>6. Complete(l)
  <2>1. ASSUME NEW i \in 1..(3 * n)
        PROVE  /\ l[i][1] # "test" /\ l[i][1] # "next"
               /\ l[i][1] = "load" => i < 3 * n /\ l[i + 1] = <<"store">>
    <3>1. l[i][1] # "test" /\ l[i][1] # "next" /\ (l[i][1] = "load" => (i - 1) % 3 = 1)
      BY <1>3
    <3>2. (i - 1) % 3 = 1 => i + 1 \in 1..(3 * n) /\ ((i + 1) - 1) % 3 = 2
      OBVIOUS
    <3> QED  BY <1>3, <3>1, <3>2
  <2> QED  BY <1>5, <2>1 DEF Complete
<1>7. Reads(l) = 0
  <2>1. \A i \in 1..Len(l) : l[i] \notin {<<"read">>}
    BY <1>3, <1>5, StepsAre
  <2> QED  BY <1>5, <2>1, CountNone DEF Reads
<1>8. Stores(l) = n
  <2> DEFINE P == Places(l, {<<"store">>})
             f == [j \in 1..n |-> 3 * j]
  <2>1. ASSUME NEW k \in 1..(3 * n) PROVE k \in P <=> (k - 1) % 3 = 2
    BY <1>3, <1>5, StepsAre DEF Places
  <2>2. P \subseteq 1..(3 * n)
    BY <1>5 DEF Places
  <2>3. f \in [1..n -> P]
    <3>1. \A j \in 1..n : 3 * j \in 1..(3 * n) /\ (3 * j - 1) % 3 = 2
      OBVIOUS
    <3> QED  BY <2>1, <3>1
  <2>4. \A x \in P : \E j \in 1..n : f[j] = x
    <3>1. ASSUME NEW x \in 1..(3 * n), (x - 1) % 3 = 2 PROVE x \div 3 \in 1..n /\ 3 * (x \div 3) = x
      BY <3>1
    <3> QED  BY <2>1, <2>2, <3>1
  <2>5. f \in Bijection(1..n, P)
    <3>1. \A i, j \in 1..n : f[i] = f[j] => i = j
      OBVIOUS
    <3> QED  BY <2>3, <2>4, <3>1, Fun_IsBij, Zenon
  <2>6. Cardinality(P) = n
    BY <2>5, FS_CountingElements, Zenon DEF ExistsBijection
  <2> QED  BY <1>5, <2>6, PlacesFinite, Zenon DEF Stores
<1>9. IsPlain(l, 0, n)
  <2>1. \A i \in 1..Len(l) : l[i][1] # "next"
    BY <1>3, <1>5
  <2> QED  BY <2>1, <1>5, <1>6, <1>7, <1>8 DEF IsPlain, IsList
<1>10. IsPlain(l \o <<<<"header">>>>, 0 + 0, n + 0)
  BY <1>9, ListSingles, PlainJoin
<1> QED  BY <1>1, <1>2, <1>10 DEF ScanKeys

(* Taking the first step of a list, or the three of a flush *)
LEMMA ListTail ==
  ASSUME NEW l \in Seq(Steps), Complete(l), l # <<>>
  PROVE  /\ Head(l) \in Steps /\ l[1] = Head(l)
         /\ Tail(l) \in Seq(Steps) /\ Complete(Tail(l))
         /\ Reads(l) = (IF Head(l) = <<"read">> THEN 1 ELSE 0) + Reads(Tail(l))
         /\ Stores(l) = (IF Head(l) = <<"store">> THEN 1 ELSE 0) + Stores(Tail(l))
         /\ Reads(Tail(l)) \in Nat /\ Stores(Tail(l)) \in Nat
<1>1. /\ Head(l) \in Steps /\ l[1] = Head(l) /\ Tail(l) \in Seq(Steps)
      /\ Len(Tail(l)) = Len(l) - 1 /\ Len(l) \in Nat \ {0}
      /\ \A i \in 1..Len(Tail(l)) : Tail(l)[i] = l[i + 1]
  OBVIOUS
<1>2. Complete(Tail(l))
  <2>1. PICK n \in Nat, t \in {Tail(l)} : n = Len(Tail(l)) /\ t = Tail(l) /\ Len(l) = n + 1
    <3>1. Len(Tail(l)) \in Nat /\ Len(l) = Len(Tail(l)) + 1
      BY <1>1
    <3> QED  BY <3>1, Zenon
  <2>2. \A i \in 1..n : t[i] = l[i + 1] /\ i + 1 \in 1..(n + 1)
    BY <1>1, <2>1
  <2>3. ASSUME NEW i \in 1..n
        PROVE  /\ t[i][1] = "load" => i < n /\ t[i + 1] = <<"store">>
               /\ t[i][1] = "test" => i + 2 <= n /\ t[i + 1] = <<"write">> /\ t[i + 2] = <<"zero">>
               /\ t[i][1] = "next" => i = n
    <3>1. /\ t[i][1] = "load" => i + 1 < n + 1 /\ l[(i + 1) + 1] = <<"store">>
          /\ t[i][1] = "test" => (i + 1) + 2 <= n + 1 /\ l[(i + 1) + 1] = <<"write">>
                                 /\ l[(i + 1) + 2] = <<"zero">>
          /\ t[i][1] = "next" => i + 1 = n + 1
      BY <2>1, <2>2 DEF Complete
    <3>2. (i + 1) + 2 = (i + 2) + 1
      OBVIOUS
    <3> QED  BY <2>2, <3>1, <3>2
  <2> QED  BY <2>1, <2>3 DEF Complete
<1>3. /\ Reads(l) = (IF Head(l) = <<"read">> THEN 1 ELSE 0) + Reads(Tail(l))
      /\ Stores(l) = (IF Head(l) = <<"store">> THEN 1 ELSE 0) + Stores(Tail(l))
  <2>1. \A S : Count(l, S) = (IF Head(l) \in S THEN 1 ELSE 0) + Count(Tail(l), S)
    BY CountTail, Zenon
  <2> QED  BY <2>1 DEF Reads, Stores
<1>4. Reads(Tail(l)) \in Nat /\ Stores(Tail(l)) \in Nat
  <2>1. \A t \in Seq(Steps) : Reads(t) \in Nat /\ Stores(t) \in Nat
    BY CountType DEF Reads, Stores
  <2> QED  BY <1>1, <2>1
<1> QED  BY <1>1, <1>2, <1>3, <1>4

LEMMA ListTail3 ==
  ASSUME NEW l \in Seq(Steps), Complete(l), l # <<>>, Head(l)[1] = "test"
  PROVE  IsList(SubSeq(l, 4, Len(l)), Reads(l), Stores(l))
<1>1. /\ Len(l) \in Nat /\ Len(l) >= 3 /\ l[2] = <<"write">> /\ l[3] = <<"zero">>
  BY DEF Complete
<1>2. PICK m \in Seq(Steps) : m = Tail(l)
  BY ListTail, Zenon
<1>3. /\ m # <<>> /\ Head(m) = <<"write">> /\ Len(m) = Len(l) - 1
      /\ \A i \in 1..Len(m) : m[i] = l[i + 1]
  <2>1. Len(m) = Len(l) - 1 /\ \A i \in 1..Len(m) : m[i] = l[i + 1]
    BY <1>2
  <2>2. m # <<>> /\ Head(m) = m[1] /\ 1 \in 1..Len(m) /\ 1 + 1 = 2
    BY <1>1, <2>1
  <2> QED  BY <1>1, <2>1, <2>2
<1>4. PICK k \in Seq(Steps) : k = Tail(m)
  BY <1>3, Zenon, HeadTailProperties
<1>5. /\ k # <<>> /\ Len(k) = Len(l) - 2 /\ Head(k) = k[1]
      /\ \A i \in 1..Len(k) : k[i] = l[i + 2]
  <2>1. Len(k) = Len(m) - 1 /\ Len(k) >= 1 /\ \A i \in 1..Len(k) : k[i] = m[i + 1]
    BY <1>1, <1>3, <1>4
  <2>2. ASSUME NEW i \in 1..Len(k) PROVE k[i] = l[i + 2]
    <3>1. i + 1 \in 1..Len(m) /\ (i + 1) + 1 = i + 2
      BY <1>1, <1>3, <2>1
    <3> QED  BY <1>3, <2>1, <3>1
  <2> QED  BY <1>1, <1>3, <2>1, <2>2
<1>6. SubSeq(l, 4, Len(l)) = Tail(k) /\ Head(k) = <<"zero">>
  <2> DEFINE x == SubSeq(l, 4, Len(l))
             y == Tail(k)
  <2>1. /\ x \in Seq(Steps) /\ Len(x) = Len(l) - 3
        /\ \A i \in 1..(Len(l) - 3) : x[i] = l[i + 3]
    <3>1. PICK n \in Nat : n = Len(l) /\ n >= 3 /\ \A i \in 4..n : l[i] \in Steps
      BY <1>1
    <3>2. /\ SubSeq(l, 4, n) \in Seq(Steps)
          /\ Len(SubSeq(l, 4, n)) = IF 4 <= n THEN n - 4 + 1 ELSE 0
          /\ \A i \in 1..(n - 4 + 1) : SubSeq(l, 4, n)[i] = l[4 + i - 1]
      BY <3>1, SubSeqProperties
    <3>3. n - 4 + 1 = n - 3 /\ \A i \in 1..(n - 3) : 4 + i - 1 = i + 3
      OBVIOUS
    <3> QED  BY <3>1, <3>2, <3>3
  <2>2. /\ y \in Seq(Steps) /\ Len(y) = Len(l) - 3
        /\ \A i \in 1..(Len(l) - 3) : y[i] = k[i + 1] /\ i + 1 \in 1..Len(k) /\ (i + 1) + 2 = i + 3
    BY <1>1, <1>5
  <2> HIDE DEF x, y
  <2>3. x = y
    <3>1. \A i \in 1..(Len(l) - 3) : x[i] = y[i]
      BY <1>5, <2>1, <2>2
    <3> QED  BY <2>1, <2>2, <3>1, SeqEqual
  <2>4. Head(k) = <<"zero">>
    <3>1. 1 \in 1..Len(k) /\ 1 + 2 = 3
      BY <1>1, <1>5
    <3> QED  BY <1>1, <1>5, <3>1
  <2> QED  BY <2>3, <2>4 DEF x, y
<1>7. Head(l) # <<"read">> /\ Head(l) # <<"store">>
  BY StepsAre
<1>8. /\ <<"write">> # <<"read">> /\ <<"write">> # <<"store">>
      /\ <<"zero">> # <<"read">> /\ <<"zero">> # <<"store">>
  OBVIOUS
<1>9. Complete(m) /\ Reads(l) = Reads(m) /\ Stores(l) = Stores(m)
  BY <1>2, <1>7, ListTail
<1>10. Complete(k) /\ Reads(m) = Reads(k) /\ Stores(m) = Stores(k)
  BY <1>3, <1>4, <1>8, <1>9, ListTail
<1>11. /\ Tail(k) \in Seq(Steps) /\ Complete(Tail(k)) /\ Reads(k) = Reads(Tail(k))
       /\ Stores(k) = Stores(Tail(k)) /\ Reads(Tail(k)) \in Nat /\ Stores(Tail(k)) \in Nat
  BY <1>5, <1>6, <1>8, <1>10, ListTail
<1> QED  BY <1>2, <1>4, <1>6, <1>9, <1>10, <1>11 DEF IsList

-----------------------------------------------------------------------------
(* What a step does to the sums *)

LEMMA SumTypes ==
  ASSUME CellTypes, NEW c \in Clients
  PROVE  /\ RepliesToAll(script[c]) \in Nat /\ RepliesToAll(inbox[c]) \in Nat
         /\ RepliesToAll(buf[c]) \in Nat /\ reading[c] \in Nat /\ due[c] \in Nat
         /\ len[c] \in Nat
         /\ PollReads(c) \in Nat /\ Pending(c) \in Nat /\ Count(owed[c], Replies) \in Nat
         /\ Ahead(c) \in Nat /\ ToStore(c) \in Nat
         /\ \A t \in Threads : StoresOf(t, c) \in Nat
<1>1. /\ RepliesToAll(script[c]) \in Nat /\ RepliesToAll(inbox[c]) \in Nat
      /\ RepliesToAll(buf[c]) \in Nat /\ reading[c] \in Nat /\ due[c] \in Nat /\ len[c] \in Nat
  BY RepliesType DEF CellTypes
<1>2. \A t \in Threads : Reads(ops[t]) \in Nat /\ Stores(ops[t]) \in Nat
  BY CountType DEF CellTypes, Reads, Stores
<1>3. PollReads(c) \in Nat /\ \A t \in Threads : StoresOf(t, c) \in Nat
  BY <1>2 DEF PollReads, StoresOf, Threads
<1>4. Pending(c) \in Nat /\ Count(owed[c], Replies) \in Nat
  BY CountType DEF CellTypes, Pending
<1>5. Ahead(c) \in Nat
  BY <1>1, <1>3, <1>4 DEF Ahead
<1>6. ToStore(c) \in Nat
  BY <1>3 DEF ToStore, Threads
<1> QED  BY <1>1, <1>3, <1>4, <1>5, <1>6

LEMMA SumTypesNext ==
  ASSUME CellTypes', NEW c \in Clients
  PROVE  Ahead(c)' \in Nat /\ ToStore(c)' \in Nat /\ len'[c] \in Nat
<1>1. /\ RepliesToAll(script'[c]) \in Nat /\ RepliesToAll(inbox'[c]) \in Nat
      /\ RepliesToAll(buf'[c]) \in Nat /\ reading'[c] \in Nat /\ len'[c] \in Nat
  BY RepliesType DEF CellTypes
<1>2. \A t \in Threads : Reads(ops'[t]) \in Nat /\ Stores(ops'[t]) \in Nat
  BY CountType DEF CellTypes, Reads, Stores
<1>3. PollReads(c)' \in Nat /\ \A t \in Threads : StoresOf(t, c)' \in Nat
  BY <1>2 DEF PollReads, StoresOf, Threads
<1>4. Pending(c)' \in Nat
  BY CountType DEF CellTypes, Pending
<1>5. Ahead(c)' \in Nat
  BY <1>1, <1>3, <1>4 DEF Ahead
<1>6. ToStore(c)' \in Nat
  BY <1>3 DEF ToStore, Threads
<1> QED  BY <1>1, <1>5, <1>6

(* A reply fewer to come makes room for its cells. *)
LEMMA RoomForOne ==
  ASSUME NEW n \in Int, NEW m \in Int, NEW s1 \in Nat, NEW s2 \in Nat, NEW a1 \in Nat,
         NEW a2 \in Nat, NEW d \in {0, 1},
         n + s1 + Space * a1 <= Bound, a2 = a1 - d, m + s2 <= n + s1 + d * Space
  PROVE  m + s2 + Space * a2 <= Bound
<1>1. PICK k \in Nat, b \in Nat : k = Space /\ b = Bound
  BY Constants
<1>2. CASE d = 0
  BY <1>1, <1>2
<1>3. CASE d = 1
  <2>1. k * (a1 - 1) = k * a1 - k /\ k * a1 \in Nat
    BY <1>1
  <2> QED  BY <1>1, <1>3, <2>1
<1> QED  BY <1>2, <1>3

(* d more replies of c are produced, and for them what is to be stored     *)
(* grows by no more than their space.                                      *)
ProducesFor(c, d) ==
  /\ due'[c] + RepliesToAll(script'[c]) = due[c] + RepliesToAll(script[c])
  /\ Ahead(c)' = Ahead(c) - d
  /\ Count(owed'[c], Replies) = Count(owed[c], Replies) + d
  /\ ToStore(c)' <= ToStore(c) + d * Space

LEMMA Balance ==
  ASSUME Accounts, CellTypes', WiresOK', ListsComplete', LocalsOK',
         \A c \in Clients : \E d \in {0, 1} :
           /\ ProducesFor(c, d)
           /\ \E n \in Int : Fits(c, n) /\ len'[c] + ToStore(c)' <= n + ToStore(c) + d * Space,
         \A t \in Threads :
           reg'[t].tmp # 0 => At(t, "store")' /\ Fits(on'[t], reg'[t].tmp - 1)
  PROVE  Accounts'
<1>1. ASSUME NEW c \in Clients
      PROVE  /\ due'[c] + RepliesToAll(script'[c]) = Ahead(c)' + Count(owed'[c], Replies)
             /\ due'[c] + RepliesToAll(script'[c]) <= Most
             /\ Fits(c, len[c])'
             /\ \A n \in Int : Fits(c, n) => Fits(c, n)'
  <2>1. PICK d \in {0, 1}, n \in Int :
          /\ ProducesFor(c, d) /\ Fits(c, n)
          /\ len'[c] + ToStore(c)' <= n + ToStore(c) + d * Space
    OBVIOUS
  <2>2. /\ due[c] + RepliesToAll(script[c]) = Ahead(c) + Count(owed[c], Replies)
        /\ due[c] + RepliesToAll(script[c]) <= Most
    BY DEF Accounts, AccountOK
  <2>3. Ahead(c) \in Nat /\ ToStore(c) \in Nat /\ Count(owed[c], Replies) \in Nat
    BY SumTypes DEF Accounts
  <2>4. Ahead(c)' \in Nat /\ ToStore(c)' \in Nat /\ len'[c] \in Nat
    BY SumTypesNext
  <2>5. /\ due'[c] + RepliesToAll(script'[c]) = Ahead(c)' + Count(owed'[c], Replies)
        /\ due'[c] + RepliesToAll(script'[c]) <= Most
    BY <2>1, <2>2, <2>3 DEF ProducesFor
  <2>6. len'[c] + ToStore(c)' + Space * Ahead(c)' <= Bound
    <3>1. n + ToStore(c) + Space * Ahead(c) <= Bound /\ Ahead(c)' = Ahead(c) - d
      BY <2>1 DEF Fits, ProducesFor
    <3>2. PICK m \in Int, s1 \in Nat, s2 \in Nat, a1 \in Nat, a2 \in Nat :
            m = len'[c] /\ s1 = ToStore(c) /\ s2 = ToStore(c)' /\ a1 = Ahead(c) /\ a2 = Ahead(c)'
      BY <2>3, <2>4
    <3>3. n + s1 + Space * a1 <= Bound /\ a2 = a1 - d /\ m + s2 <= n + s1 + d * Space
      BY <2>1, <3>1, <3>2
    <3>4. m + s2 + Space * a2 <= Bound
      BY <3>3, RoomForOne
    <3> QED  BY <3>2, <3>4
  <2>7. ASSUME NEW m \in Int, Fits(c, m)
        PROVE  m + ToStore(c)' + Space * Ahead(c)' <= Bound
    <3>1. m + ToStore(c) + Space * Ahead(c) <= Bound /\ Ahead(c)' = Ahead(c) - d
      BY <2>1, <2>7 DEF Fits, ProducesFor
    <3>2. m + ToStore(c)' <= m + ToStore(c) + d * Space
      <4>1. PICK k \in Nat : k = Space
        BY Constants
      <4> QED  BY <2>1, <2>3, <2>4, <4>1 DEF ProducesFor
    <3>3. PICK s1 \in Nat, s2 \in Nat, a1 \in Nat, a2 \in Nat :
            s1 = ToStore(c) /\ s2 = ToStore(c)' /\ a1 = Ahead(c) /\ a2 = Ahead(c)'
      BY <2>3, <2>4
    <3>4. m + s1 + Space * a1 <= Bound /\ a2 = a1 - d /\ m + s2 <= m + s1 + d * Space
      BY <3>1, <3>2, <3>3
    <3>5. m + s2 + Space * a2 <= Bound
      BY <3>4, RoomForOne
    <3> QED  BY <3>3, <3>5
  <2> QED  BY <2>5, <2>6, <2>7 DEF Fits
<1>2. AccountOK'
  BY <1>1 DEF AccountOK
<1>3. RoomOK'
  <2>1. ASSUME NEW t \in Threads, reg'[t].tmp # 0
        PROVE  At(t, "store")' /\ Fits(on[t], reg[t].tmp - 1)'
    <3>1. on'[t] \in Clients /\ reg'[t].tmp - 1 \in Int
      BY Constants DEF CellTypes, CellLocals
    <3>2. At(t, "store")' /\ Fits(on'[t], reg'[t].tmp - 1)
      BY <2>1
    <3>3. PICK c \in Clients, n \in Int : c = on'[t] /\ n = reg'[t].tmp - 1 /\ Fits(c, n)
      BY <3>1, <3>2
    <3>4. n + ToStore(c)' + Space * Ahead(c)' <= Bound
      BY <1>1, <3>3 DEF Fits
    <3> QED  BY <3>2, <3>3, <3>4 DEF Fits
  <2> QED  BY <1>1, <2>1 DEF RoomOK
<1> QED  BY <1>2, <1>3 DEF Accounts

(* Thread t goes on with l, for c, which is its client unless it was idle. *)
MovesTo(t, c, l) ==
  /\ ops' = [ops EXCEPT ![t] = l]
  /\ on' = [on EXCEPT ![t] = c]
  /\ c = on[t] \/ ops[t] = <<>>

(* It had loaded nothing, and the locals of += stay or are reset. *)
NothingLoaded(t) ==
  /\ ~ At(t, "store")
  /\ \A u \in Threads : reg'[u].tmp \in {0, reg[u].tmp}

LEMMA MoveSums ==
  ASSUME Accounts, NEW t \in Threads, NEW c \in Clients, NEW l, NEW r, NEW n, IsList(l, r, n),
         MovesTo(t, c, l)
  PROVE  /\ ops' \in [Threads -> Seq(Steps)] /\ on' \in [Threads -> Clients] /\ ListsComplete'
         /\ Reads(ops[t]) \in Nat /\ Stores(ops[t]) \in Nat
         /\ \A d \in Clients :
              /\ PollReads(d)' = PollReads(d)
                                 + (IF t = "poll" /\ c = d THEN r - Reads(ops[t]) ELSE 0)
              /\ ToStore(d)' = ToStore(d) + (IF c = d THEN n - Stores(ops[t]) ELSE 0)
<1>1. /\ l \in Seq(Steps) /\ Complete(l) /\ r \in Nat /\ n \in Nat
      /\ Reads(l) = r /\ Stores(l) = n
  BY DEF IsList
<1>2. ops \in [Threads -> Seq(Steps)] /\ on \in [Threads -> Clients] /\ ListsComplete
  BY DEF Accounts, CellTypes
<1>3. ops' \in [Threads -> Seq(Steps)] /\ on' \in [Threads -> Clients] /\ ListsComplete'
  BY <1>1, <1>2 DEF MovesTo, ListsComplete
<1>4. \A u \in Threads : Reads(ops[u]) \in Nat /\ Stores(ops[u]) \in Nat
  BY <1>2, CountType DEF Reads, Stores
<1>5. ops'[t] = l /\ on'[t] = c /\ \A u \in Threads \ {t} : ops'[u] = ops[u] /\ on'[u] = on[u]
  BY <1>2 DEF MovesTo
<1>6. c = on[t] \/ (Reads(ops[t]) = 0 /\ Stores(ops[t]) = 0)
  BY CountEmpty DEF MovesTo, Reads, Stores
<1>7. ASSUME NEW d \in Clients
      PROVE  /\ PollReads(d)' = PollReads(d)
                                + (IF t = "poll" /\ c = d THEN r - Reads(ops[t]) ELSE 0)
             /\ ToStore(d)' = ToStore(d) + (IF c = d THEN n - Stores(ops[t]) ELSE 0)
  <2>1. PollReads(d)' = IF on'["poll"] = d THEN Reads(ops'["poll"]) ELSE 0
    BY DEF PollReads
  <2>2. \A u \in Threads : StoresOf(u, d)' = IF on'[u] = d THEN Stores(ops'[u]) ELSE 0
    BY DEF StoresOf
  <2>3. CASE t = "poll"
    <3>1. PollReads(d)' = PollReads(d) + (IF c = d THEN r - Reads(ops[t]) ELSE 0)
      BY <1>1, <1>4, <1>5, <1>6, <2>1, <2>3 DEF PollReads
    <3>2. StoresOf("handler", d)' = StoresOf("handler", d)
      BY <1>5, <2>2, <2>3 DEF Threads, StoresOf
    <3>3. StoresOf("poll", d)' = StoresOf("poll", d) + (IF c = d THEN n - Stores(ops[t]) ELSE 0)
      BY <1>1, <1>4, <1>5, <1>6, <2>2, <2>3 DEF Threads, StoresOf
    <3>4. StoresOf("handler", d) \in Nat /\ StoresOf("poll", d) \in Nat
      BY <1>4 DEF StoresOf, Threads
    <3> QED  BY <1>1, <1>4, <2>3, <3>1, <3>2, <3>3, <3>4 DEF ToStore
  <2>4. CASE t = "handler"
    <3>1. PollReads(d)' = PollReads(d) /\ PollReads(d) \in Nat
      BY <1>4, <1>5, <2>1, <2>4 DEF PollReads, Threads
    <3>2. StoresOf("poll", d)' = StoresOf("poll", d)
      BY <1>5, <2>2, <2>4 DEF Threads, StoresOf
    <3>3. StoresOf("handler", d)' = StoresOf("handler", d)
                                    + (IF c = d THEN n - Stores(ops[t]) ELSE 0)
      BY <1>1, <1>4, <1>5, <1>6, <2>2, <2>4 DEF Threads, StoresOf
    <3>4. StoresOf("handler", d) \in Nat /\ StoresOf("poll", d) \in Nat
      BY <1>4 DEF StoresOf, Threads
    <3> QED  BY <1>1, <1>4, <2>4, <3>1, <3>2, <3>3, <3>4 DEF ToStore
  <2> QED  BY <2>3, <2>4 DEF Threads
<1> QED  BY <1>3, <1>4, <1>7

LEMMA TmpStays ==
  ASSUME Accounts, NEW t \in Threads, NEW c \in Clients, NEW l, MovesTo(t, c, l), NothingLoaded(t)
  PROVE  \A u \in Threads :
           reg'[u].tmp # 0 => At(u, "store")' /\ Fits(on'[u], reg'[u].tmp - 1)
<1> SUFFICES ASSUME NEW u \in Threads, reg'[u].tmp # 0
             PROVE  At(u, "store")' /\ Fits(on'[u], reg'[u].tmp - 1)
  OBVIOUS
<1>1. reg'[u].tmp = reg[u].tmp /\ reg[u].tmp # 0
  BY DEF NothingLoaded
<1>2. At(u, "store") /\ Fits(on[u], reg[u].tmp - 1)
  BY <1>1 DEF Accounts, RoomOK
<1>3. u # t
  BY <1>2 DEF NothingLoaded
<1>4. ops'[u] = ops[u] /\ on'[u] = on[u]
  BY <1>3 DEF Accounts, CellTypes, MovesTo
<1> QED  BY <1>1, <1>2, <1>4 DEF At

(* Only one command is executed at a time. *)
LEMMA AtNext ==
  ASSUME Accounts, At("poll", "next")
  PROVE  Reads(ops["poll"]) = 0 /\ Stores(ops["poll"]) = 0 /\ ~ At("poll", "store")
<1>1. PICK l \in Seq(Steps) : l = ops["poll"] /\ Complete(l) /\ l # <<>> /\ Head(l)[1] = "next"
  BY DEF Accounts, CellTypes, ListsComplete, At, Threads
<1>2. Len(l) = 1
  <2>1. Head(l) = l[1] /\ 1 \in 1..Len(l)
    BY <1>1
  <2> QED  BY <1>1, <2>1 DEF Complete
<1>3. Tail(l) = <<>>
  <2>1. Tail(l) \in Seq(Steps) /\ Len(Tail(l)) = 0
    BY <1>1, <1>2
  <2> QED  BY <2>1, EmptySeq
<1>4. Head(l) # <<"read">> /\ Head(l) # <<"store">>
  BY <1>1
<1>5. Reads(l) = 0 + Reads(<<>>) /\ Stores(l) = 0 + Stores(<<>>)
  BY <1>1, <1>3, <1>4, ListTail
<1>6. Reads(<<>>) = 0 /\ Stores(<<>>) = 0
  BY CountEmpty DEF Reads, Stores
<1>7. ~ At("poll", "store")
  BY <1>1 DEF At
<1> QED  BY <1>1, <1>5, <1>6, <1>7

(* Nothing is produced. *)
LEMMA NothingProduced ==
  ASSUME Accounts, NEW c \in Clients, UNCHANGED <<due, script>>, len'[c] = len[c], owed'[c] = owed[c],
         Ahead(c)' = Ahead(c), ToStore(c)' = ToStore(c)
  PROVE  \E d \in {0, 1} :
           /\ ProducesFor(c, d)
           /\ \E n \in Int : Fits(c, n) /\ len'[c] + ToStore(c)' <= n + ToStore(c) + d * Space
<1>1. /\ Ahead(c) \in Nat /\ ToStore(c) \in Nat /\ len[c] \in Nat /\ Count(owed[c], Replies) \in Nat
      /\ due[c] \in Nat
  BY SumTypes DEF Accounts
<1>2. PICK k \in Nat : k = Space
  BY Constants
<1>3. ProducesFor(c, 0)
  BY <1>1, <1>2 DEF ProducesFor
<1>4. Fits(c, len[c])
  BY DEF Accounts, RoomOK
<1>5. len[c] \in Int /\ len'[c] + ToStore(c)' <= len[c] + ToStore(c) + 0 * Space
  BY <1>1, <1>2
<1> QED  BY <1>3, <1>4, <1>5

(* The threads and the buffers stay as they are. *)
LEMMA ThreadsRest ==
  ASSUME Accounts, UNCHANGED <<ops, on, reg>>
  PROVE  /\ ListsComplete' /\ LocalsOK'
         /\ \A c \in Clients : PollReads(c)' = PollReads(c) /\ ToStore(c)' = ToStore(c)
         /\ \A t \in Threads :
              reg'[t].tmp # 0 => At(t, "store")' /\ Fits(on'[t], reg'[t].tmp - 1)
<1>1. ListsComplete' /\ LocalsOK'
  BY DEF Accounts, ListsComplete, LocalsOK
<1>2. \A c \in Clients : PollReads(c)' = PollReads(c) /\ ToStore(c)' = ToStore(c)
  BY DEF PollReads, ToStore, StoresOf
<1>3. \A t \in Threads : reg[t].tmp # 0 => At(t, "store") /\ Fits(on[t], reg[t].tmp - 1)
  BY DEF Accounts, RoomOK
<1>4. \A t \in Threads : At(t, "store")' = At(t, "store")
  BY DEF At
<1> QED  BY <1>1, <1>2, <1>3, <1>4

-----------------------------------------------------------------------------
(* The peers and the engine *)

LEMMA SendCommandCounts ==
  ASSUME Accounts, NEW c \in Clients, SendCommand(c)
  PROVE  Accounts'
<1>1. UNCHANGED <<buf, output, len, offset, valid, open, reading, queue, ops, on, reg, wire, seen, owed>>
  BY DEF SendCommand, client, thread
<1>2. PICK command \in Commands :
        /\ command = Head(script[c]) /\ Tail(script[c]) \in Seq(Commands)
        /\ RepliesToAll(script[c]) = RepliesTo(command) + RepliesToAll(Tail(script[c]))
        /\ RepliesTo(command) \in Nat /\ RepliesToAll(Tail(script[c])) \in Nat
  <2>1. script[c] \in Seq(Commands) /\ script[c] # <<>>
    BY DEF Accounts, CellTypes, SendCommand
  <2>2. Head(script[c]) \in Commands /\ Tail(script[c]) \in Seq(Commands)
    BY <2>1
  <2> QED  BY <2>1, <2>2, RepliesTail, RepliesOne, RepliesType
<1>3. /\ script' = [script EXCEPT ![c] = Tail(script[c])]
      /\ due' = [due EXCEPT ![c] = due[c] + RepliesTo(command)]
      /\ inbox' = [inbox EXCEPT ![c] = Append(inbox[c], command)]
  BY <1>2 DEF SendCommand
<1>4. inbox[c] \in Seq(Commands) /\ Append(inbox[c], command) \in Seq(Commands)
  BY DEF Accounts, CellTypes
<1>5. CellTypes'
  <2>1. due[c] + RepliesTo(command) \in Nat
    BY <1>2 DEF Accounts, CellTypes
  <2> QED  BY <1>1, <1>2, <1>3, <1>4, <2>1 DEF Accounts, CellTypes
<1>6. WiresOK'
  BY <1>1 DEF Accounts, WiresOK
<1>7. RepliesToAll(Append(inbox[c], command)) = RepliesToAll(inbox[c]) + RepliesTo(command)
  BY <1>4, RepliesAppend
<1>8. ASSUME NEW d \in Clients
      PROVE  \E e \in {0, 1} :
               /\ ProducesFor(d, e)
               /\ \E n \in Int : Fits(d, n) /\ len'[d] + ToStore(d)' <= n + ToStore(d) + e * Space
  <2>1. /\ RepliesToAll(script'[d]) + RepliesToAll(inbox'[d])
             = RepliesToAll(script[d]) + RepliesToAll(inbox[d])
        /\ due'[d] + RepliesToAll(script'[d]) = due[d] + RepliesToAll(script[d])
    <3>1. /\ RepliesToAll(script[d]) \in Nat /\ RepliesToAll(inbox[d]) \in Nat
          /\ due[d] \in Nat
      BY SumTypes DEF Accounts
    <3>2. CASE d = c
      <4>1. /\ script'[d] = Tail(script[c]) /\ due'[d] = due[c] + RepliesTo(command)
            /\ inbox'[d] = Append(inbox[c], command)
        BY <1>3, <3>2 DEF Accounts, CellTypes
      <4> QED  BY <1>2, <1>7, <3>1, <3>2, <4>1
    <3>3. CASE d # c
      BY <1>3, <3>3 DEF Accounts, CellTypes
    <3> QED  BY <3>2, <3>3
  <2>2. PollReads(d)' = PollReads(d) /\ ToStore(d)' = ToStore(d) /\ Pending(d)' = Pending(d)
    BY <1>1, ThreadsRest DEF Pending
  <2>3. Ahead(d)' = Ahead(d)
    <3>1. /\ RepliesToAll(script[d]) \in Nat /\ RepliesToAll(inbox[d]) \in Nat
          /\ RepliesToAll(buf[d]) \in Nat /\ reading[d] \in Nat /\ PollReads(d) \in Nat
          /\ Pending(d) \in Nat
      BY SumTypes DEF Accounts
    <3>2. RepliesToAll(script'[d]) \in Nat /\ RepliesToAll(inbox'[d]) \in Nat
      BY <1>5, RepliesType DEF CellTypes
    <3> QED  BY <1>1, <2>1, <2>2, <3>1, <3>2 DEF Ahead
  <2>4. PICK k \in Nat : k = Space
    BY Constants
  <2>5. ToStore(d) \in Nat /\ Ahead(d) \in Nat /\ len[d] \in Nat /\ Count(owed[d], Replies) \in Nat
    BY SumTypes DEF Accounts
  <2>6. ProducesFor(d, 0)
    BY <1>1, <2>1, <2>2, <2>3, <2>4, <2>5 DEF ProducesFor
  <2>7. Fits(d, len[d]) /\ len'[d] + ToStore(d)' <= len[d] + ToStore(d) + 0 * Space
    BY <1>1, <2>2, <2>4, <2>5 DEF Accounts, RoomOK
  <2> QED  BY <2>5, <2>6, <2>7
<1> QED  BY <1>1, <1>5, <1>6, <1>8, ThreadsRest, Balance

LEMMA ReadReplyCounts ==
  ASSUME Accounts, NEW c \in Clients, ReadReply(c)
  PROVE  Accounts'
<1>1. /\ UNCHANGED <<inbox, buf, output, len, offset, valid, open, reading, queue, ops, on, reg, owed,
                     script, due>>
      /\ wire' = [wire EXCEPT ![c] = Tail(@)]
  BY DEF ReadReply, client, thread
<1>2. wire[c] \in Seq(Symbols) /\ wire[c] # <<>> /\ Len(wire[c]) <= SockBuf
  BY DEF Accounts, CellTypes, WiresOK, ReadReply
<1>3. Tail(wire[c]) \in Seq(Symbols) /\ Len(Tail(wire[c])) <= SockBuf
  <2>1. Tail(wire[c]) \in Seq(Symbols) /\ Len(Tail(wire[c])) = Len(wire[c]) - 1 /\ Len(wire[c]) \in Nat
    BY <1>2
  <2>2. SockBuf \in Nat
    BY Constants
  <2> QED  BY <1>2, <2>1, <2>2
<1>4. CellTypes'
  BY <1>1, <1>3 DEF Accounts, CellTypes
<1>5. WiresOK'
  BY <1>1, <1>3 DEF Accounts, CellTypes, WiresOK
<1>6. ASSUME NEW d \in Clients PROVE Ahead(d)' = Ahead(d) /\ ToStore(d)' = ToStore(d)
  BY <1>1, ThreadsRest DEF Ahead, Pending
<1> QED  BY <1>1, <1>4, <1>5, <1>6, NothingProduced, ThreadsRest, Balance

LEMMA EngineFinishesCounts ==
  ASSUME Accounts, NEW c \in Clients, NEW found \in BOOLEAN, EngineFinishes(c, found)
  PROVE  Accounts'
<1>1. /\ UNCHANGED <<inbox, buf, output, len, offset, valid, open, ops, on, reg, wire, owed,
                     script, due>>
      /\ reading[c] > 0 /\ reading' = [reading EXCEPT ![c] = @ - 1]
      /\ queue' = Append(queue, <<c, found>>)
  BY DEF EngineFinishes, peer, client, thread
<1>2. queue \in Seq(Clients \X BOOLEAN) /\ reading \in [Clients -> Nat]
  BY DEF Accounts, CellTypes
<1>3. CellTypes'
  <2>1. queue' \in Seq(Clients \X BOOLEAN)
    BY <1>1, <1>2
  <2>2. reading' \in [Clients -> Nat]
    BY <1>1, <1>2
  <2> QED  BY <1>1, <2>1, <2>2 DEF Accounts, CellTypes
<1>4. WiresOK'
  BY <1>1 DEF Accounts, WiresOK
<1>5. ASSUME NEW d \in Clients PROVE Ahead(d)' = Ahead(d) /\ ToStore(d)' = ToStore(d)
  <2>1. Pending(d)' = Pending(d) + (IF <<c, found>> \in {d} \X BOOLEAN THEN 1 ELSE 0)
    <3>1. <<c, found>> \in Clients \X BOOLEAN
      OBVIOUS
    <3>2. Count(Append(queue, <<c, found>>), {d} \X BOOLEAN)
            = Count(queue, {d} \X BOOLEAN) + (IF <<c, found>> \in {d} \X BOOLEAN THEN 1 ELSE 0)
      <4>1. PICK T, x, S : /\ T = Clients \X BOOLEAN /\ queue \in Seq(T) /\ x \in T
                           /\ x = <<c, found>> /\ S = {d} \X BOOLEAN
        BY <1>2, <3>1, Zenon
      <4>2. queue \in Seq(T) /\ x \in T
        BY <4>1, Zenon
      <4>3. Count(Append(queue, x), S) = Count(queue, S) + (IF x \in S THEN 1 ELSE 0)
        BY <4>2, CountAppend, Zenon
      <4> QED  BY <4>1, <4>3, Zenon
    <3> QED  BY <1>1, <3>2 DEF Pending
  <2>2. reading[d] + Pending(d) = reading'[d] + Pending(d)'
    <3>1. Pending(d) \in Nat /\ reading[d] \in Nat
      BY SumTypes DEF Accounts
    <3>2. CASE d = c
      BY <1>1, <1>2, <2>1, <3>1, <3>2
    <3>3. CASE d # c
      BY <1>1, <1>2, <2>1, <3>1, <3>3
    <3> QED  BY <3>2, <3>3
  <2>3. /\ RepliesToAll(script[d]) \in Nat /\ RepliesToAll(inbox[d]) \in Nat
        /\ RepliesToAll(buf[d]) \in Nat /\ reading[d] \in Nat /\ PollReads(d) \in Nat
        /\ Pending(d) \in Nat
    BY SumTypes DEF Accounts
  <2>4. reading'[d] \in Nat /\ Pending(d)' \in Nat
    BY <1>3, CountType DEF CellTypes, Pending
  <2>5. PollReads(d)' = PollReads(d) /\ ToStore(d)' = ToStore(d)
    BY <1>1, ThreadsRest
  <2>6. Ahead(d)' = RepliesToAll(script[d]) + RepliesToAll(inbox[d]) + RepliesToAll(buf[d])
                    + reading'[d] + PollReads(d)' + Pending(d)'
    BY <1>1 DEF Ahead
  <2> QED  BY <2>2, <2>3, <2>4, <2>5, <2>6 DEF Ahead
<1> QED  BY <1>1, <1>3, <1>4, <1>5, NothingProduced, ThreadsRest, Balance

-----------------------------------------------------------------------------
(* Where the threads take up work *)

LEMMA OnReadCounts ==
  ASSUME Accounts, NEW c \in Clients, OnRead(c)
  PROVE  Accounts'
<1>1. /\ UNCHANGED <<output, len, offset, valid, open, reading, queue, reg, wire, owed, script, due>>
      /\ buf' = [buf EXCEPT ![c] = buf[c] \o inbox[c]] /\ inbox' = [inbox EXCEPT ![c] = <<>>]
      /\ ops["poll"] = <<>>
  BY DEF OnRead, client
<1>2. MovesTo("poll", c, Execute) /\ NothingLoaded("poll") /\ "poll" \in Threads
  BY <1>1 DEF OnRead, MovesTo, NothingLoaded, At, Threads
<1>3. IsList(Execute, 0, 0)
  BY ListSingles DEF Execute
<1>4. Reads(ops["poll"]) = 0 /\ Stores(ops["poll"]) = 0
  BY <1>1, CountEmpty DEF Reads, Stores
<1>5. /\ ops' \in [Threads -> Seq(Steps)] /\ on' \in [Threads -> Clients] /\ ListsComplete'
      /\ \A d \in Clients : PollReads(d)' = PollReads(d) + 0 /\ ToStore(d)' = ToStore(d) + 0
  BY <1>2, <1>3, <1>4, MoveSums
<1>6. CellTypes'
  <2>1. buf[c] \o inbox[c] \in Seq(Commands) /\ <<>> \in Seq(Commands)
    BY DEF Accounts, CellTypes
  <2> QED  BY <1>1, <1>5, <2>1 DEF Accounts, CellTypes
<1>7. WiresOK' /\ LocalsOK'
  BY <1>1 DEF Accounts, WiresOK, LocalsOK
<1>8. ASSUME NEW d \in Clients PROVE Ahead(d)' = Ahead(d) /\ ToStore(d)' = ToStore(d)
  <2>1. /\ RepliesToAll(script[d]) \in Nat /\ RepliesToAll(inbox[d]) \in Nat
        /\ RepliesToAll(buf[d]) \in Nat /\ reading[d] \in Nat /\ PollReads(d) \in Nat
        /\ Pending(d) \in Nat /\ ToStore(d) \in Nat
    BY SumTypes DEF Accounts
  <2>2. RepliesToAll(inbox'[d]) + RepliesToAll(buf'[d]) = RepliesToAll(inbox[d]) + RepliesToAll(buf[d])
        /\ RepliesToAll(inbox'[d]) \in Nat /\ RepliesToAll(buf'[d]) \in Nat
    <3>1. inbox[c] \in Seq(Commands) /\ buf[c] \in Seq(Commands)
      BY DEF Accounts, CellTypes
    <3>2. CASE d = c
      <4>1. inbox'[d] = <<>> /\ buf'[d] = buf[c] \o inbox[c]
        BY <1>1, <3>2 DEF Accounts, CellTypes
      <4>2. RepliesToAll(buf'[d]) = RepliesToAll(buf[c]) + RepliesToAll(inbox[c])
        BY <3>1, <4>1, RepliesConcat
      <4> QED  BY <2>1, <3>2, <4>1, <4>2, RepliesEmpty
    <3>3. CASE d # c
      BY <1>1, <2>1, <3>3 DEF Accounts, CellTypes
    <3> QED  BY <3>2, <3>3
  <2>3. Pending(d)' = Pending(d)
    BY <1>1 DEF Pending
  <2>4. Ahead(d)' = RepliesToAll(script[d]) + RepliesToAll(inbox'[d]) + RepliesToAll(buf'[d])
                    + reading[d] + PollReads(d)' + Pending(d)'
    BY <1>1 DEF Ahead
  <2>5. PollReads(d)' = PollReads(d) /\ ToStore(d)' = ToStore(d)
    BY <1>5, <2>1
  <2>6. Ahead(d) = RepliesToAll(script[d]) + RepliesToAll(inbox[d]) + RepliesToAll(buf[d])
                   + reading[d] + PollReads(d) + Pending(d)
    BY DEF Ahead
  <2> QED  BY <2>1, <2>2, <2>3, <2>4, <2>5, <2>6
<1>9. \A t \in Threads : reg'[t].tmp # 0 => At(t, "store")' /\ Fits(on'[t], reg'[t].tmp - 1)
  BY <1>2, TmpStays
<1> QED  BY <1>1, <1>5, <1>6, <1>7, <1>8, <1>9, NothingProduced, Balance

(* A reply of c is produced: x heads its cells, and n stores are to come.  *)
LEMMA OneProduced ==
  ASSUME Accounts, NEW c \in Clients, NEW n \in 0..Space, UNCHANGED <<due, script, len>>,
         Ahead(c)' = Ahead(c) - 1, ToStore(c)' = ToStore(c) + n,
         Count(owed'[c], Replies) = Count(owed[c], Replies) + 1
  PROVE  \E d \in {0, 1} :
           /\ ProducesFor(c, d)
           /\ \E m \in Int : Fits(c, m) /\ len'[c] + ToStore(c)' <= m + ToStore(c) + d * Space
<1>1. /\ Ahead(c) \in Nat /\ ToStore(c) \in Nat /\ len[c] \in Nat /\ Count(owed[c], Replies) \in Nat
      /\ due[c] \in Nat
  BY SumTypes DEF Accounts
<1>2. PICK k \in Nat : k = Space /\ n \in 0..k
  BY Constants
<1>3. ProducesFor(c, 1)
  BY <1>1, <1>2 DEF ProducesFor
<1>4. Fits(c, len[c])
  BY DEF Accounts, RoomOK
<1>5. len[c] \in Int /\ len'[c] + ToStore(c)' <= len[c] + ToStore(c) + 1 * Space
  BY <1>1, <1>2
<1> QED  BY <1>3, <1>4, <1>5

LEMMA HandlerDequeuesCounts ==
  ASSUME Accounts, HandlerDequeues
  PROVE  Accounts'
<1>1. PICK c \in Clients, found \in BOOLEAN :
        /\ queue \in Seq(Clients \X BOOLEAN) /\ queue # <<>> /\ Head(queue) = <<c, found>>
        /\ Head(queue)[1] = c /\ Head(queue)[2] = found
        /\ Tail(queue) \in Seq(Clients \X BOOLEAN)
  <2>1. queue \in Seq(Clients \X BOOLEAN) /\ queue # <<>>
    BY DEF HandlerDequeues, Accounts, CellTypes
  <2>2. Head(queue) \in Clients \X BOOLEAN /\ Tail(queue) \in Seq(Clients \X BOOLEAN)
    BY <2>1
  <2> QED  BY <2>1, <2>2
<1>2. /\ UNCHANGED <<inbox, buf, output, len, offset, valid, open, reading, reg, wire, script, due>>
      /\ queue' = Tail(queue) /\ ops["handler"] = <<>>
      /\ owed' = [owed EXCEPT ![c] = @ \o (IF found THEN <<"bulk", "crlf">> ELSE <<"nil">>)]
  <2>1. owed' = [owed EXCEPT ![c] = @ \o (IF found THEN <<"bulk", "crlf">> ELSE <<"nil">>)]
    BY <1>1, Zenon DEF HandlerDequeues, Owes
  <2> QED  BY <2>1 DEF HandlerDequeues, client, peer
<1>3. MovesTo("handler", c, Answer(found)) /\ NothingLoaded("handler") /\ "handler" \in Threads
  <2>1. MovesTo("handler", c, Answer(found))
    BY <1>1, <1>2, Zenon DEF HandlerDequeues, MovesTo
  <2> QED  BY <1>2, <2>1 DEF NothingLoaded, At, Threads
<1>4. PICK n \in {1, 2} : IsList(Answer(found), 0, n)
  BY ListAnswer DEF IsPlain
<1>5. Stores(ops["handler"]) = 0
  BY <1>2, CountEmpty DEF Stores
<1>6. /\ ops' \in [Threads -> Seq(Steps)] /\ on' \in [Threads -> Clients] /\ ListsComplete'
      /\ \A d \in Clients : /\ PollReads(d)' = PollReads(d) + 0
                            /\ ToStore(d)' = ToStore(d) + (IF c = d THEN n - 0 ELSE 0)
  BY <1>3, <1>4, <1>5, MoveSums
<1>7. PICK o \in Seq(Symbols) :
        o = (IF found THEN <<"bulk", "crlf">> ELSE <<"nil">>) /\ Count(o, Replies) = 1
  <2>1. "bulk" \in Replies /\ "nil" \in Replies /\ "crlf" \notin Replies
    BY DEF Replies
  <2>2. Count(<<"nil">>, Replies) = 1 /\ Count(<<"bulk">>, Replies) = 1
    BY <2>1, CountOne
  <2>3. <<"bulk">> \in Seq(Symbols) /\ "crlf" \in Symbols /\ <<"nil">> \in Seq(Symbols)
        /\ <<"bulk", "crlf">> = Append(<<"bulk">>, "crlf") /\ <<"bulk", "crlf">> \in Seq(Symbols)
    BY DEF Symbols, Replies
  <2>4. Count(Append(<<"bulk">>, "crlf"), Replies) = Count(<<"bulk">>, Replies) + 0
    BY <2>1, <2>3, CountAppend
  <2>5. CASE found
    <3>1. Count(<<"bulk", "crlf">>, Replies) = Count(<<"bulk">>, Replies) + 0
      BY <2>3, <2>4, Zenon
    <3>2. Count(<<"bulk", "crlf">>, Replies) = 1
      BY <2>2, <3>1
    <3> QED  BY <2>3, <2>5, <3>2, Zenon
  <2>6. CASE ~ found
    BY <2>2, <2>3, <2>6, Zenon
  <2> QED  BY <2>5, <2>6
<1>8. CellTypes'
  <2>1. owed[c] \o o \in Seq(Symbols)
    BY DEF Accounts, CellTypes
  <2> QED  BY <1>1, <1>2, <1>6, <1>7, <2>1 DEF Accounts, CellTypes
<1>9. WiresOK' /\ LocalsOK'
  BY <1>2 DEF Accounts, WiresOK, LocalsOK
<1>10. ASSUME NEW d \in Clients
       PROVE  /\ Pending(d) = (IF d = c THEN 1 ELSE 0) + Pending(d)'
              /\ Count(owed'[d], Replies) = Count(owed[d], Replies) + (IF d = c THEN 1 ELSE 0)
              /\ Pending(d)' \in Nat
  <2>1. Pending(d) = (IF <<c, found>> \in {d} \X BOOLEAN THEN 1 ELSE 0) + Pending(d)'
    <3>1. \A S : Count(queue, S) = (IF Head(queue) \in S THEN 1 ELSE 0) + Count(Tail(queue), S)
      BY <1>1, CountTail, Zenon
    <3> QED  BY <1>1, <1>2, <3>1 DEF Pending
  <2>2. <<c, found>> \in {d} \X BOOLEAN <=> d = c
    OBVIOUS
  <2>3. Count(owed'[d], Replies) = Count(owed[d], Replies) + (IF d = c THEN 1 ELSE 0)
    <3>1. owed[c] \in Seq(Symbols) /\ owed \in [Clients -> Seq(Symbols)]
      BY DEF Accounts, CellTypes
    <3>2. Count(owed[d], Replies) \in Nat
      BY SumTypes DEF Accounts
    <3>3. Count(owed[c] \o o, Replies) = Count(owed[c], Replies) + 1
      <4>1. Count(owed[c] \o o, Replies) = Count(owed[c], Replies) + Count(o, Replies)
        BY <3>1, CountConcat, Zenon
      <4> QED  BY <1>7, <4>1, Zenon
    <3> QED  BY <1>2, <1>7, <3>1, <3>2, <3>3
  <2>4. Pending(d)' \in Nat
    BY <1>8, CountType DEF CellTypes, Pending
  <2> QED  BY <2>1, <2>2, <2>3, <2>4
<1>11. ASSUME NEW d \in Clients
       PROVE  \E e \in {0, 1} :
                /\ ProducesFor(d, e)
                /\ \E m \in Int : Fits(d, m) /\ len'[d] + ToStore(d)' <= m + ToStore(d) + e * Space
  <2>1. /\ RepliesToAll(script[d]) \in Nat /\ RepliesToAll(inbox[d]) \in Nat
        /\ RepliesToAll(buf[d]) \in Nat /\ reading[d] \in Nat /\ PollReads(d) \in Nat
        /\ Pending(d) \in Nat /\ ToStore(d) \in Nat
    BY SumTypes DEF Accounts
  <2>2. Ahead(d)' = RepliesToAll(script[d]) + RepliesToAll(inbox[d]) + RepliesToAll(buf[d])
                    + reading[d] + PollReads(d)' + Pending(d)'
    BY <1>2 DEF Ahead
  <2>3. CASE d = c
    <3>1. Ahead(d)' = Ahead(d) - 1 /\ ToStore(d)' = ToStore(d) + n
      <4>1. PollReads(d)' = PollReads(d) /\ ToStore(d)' = ToStore(d) + n
        BY <1>6, <2>1, <2>3
      <4>2. Pending(d) = 1 + Pending(d)' /\ Pending(d)' \in Nat
        BY <1>10, <2>3
      <4>3. Ahead(d) = RepliesToAll(script[d]) + RepliesToAll(inbox[d]) + RepliesToAll(buf[d])
                       + reading[d] + PollReads(d) + Pending(d)
        BY DEF Ahead
      <4> QED  BY <2>1, <2>2, <4>1, <4>2, <4>3
    <3>2. n \in 0..Space
      BY Constants
    <3> QED  BY <1>2, <1>10, <2>3, <3>1, <3>2, OneProduced
  <2>4. CASE d # c
    <3>1. Ahead(d)' = Ahead(d) /\ ToStore(d)' = ToStore(d)
      BY <1>6, <1>10, <2>1, <2>2, <2>4 DEF Ahead
    <3>2. owed'[d] = owed[d]
      BY <1>2, <2>4 DEF Accounts, CellTypes
    <3>3. PICK k \in Nat : k = Space
      BY Constants
    <3>4. len[d] \in Nat /\ Ahead(d) \in Nat /\ Count(owed[d], Replies) \in Nat /\ due[d] \in Nat
      BY SumTypes DEF Accounts
    <3>5. ProducesFor(d, 0)
      BY <1>2, <2>1, <3>1, <3>2, <3>3, <3>4 DEF ProducesFor
    <3>6. Fits(d, len[d]) /\ len'[d] + ToStore(d)' <= len[d] + ToStore(d) + 0 * Space
      BY <1>2, <2>1, <3>1, <3>3, <3>4 DEF Accounts, RoomOK
    <3> QED  BY <3>4, <3>5, <3>6
  <2> QED  BY <2>3, <2>4
<1>12. \A t \in Threads : reg'[t].tmp # 0 => At(t, "store")' /\ Fits(on'[t], reg'[t].tmp - 1)
  BY <1>3, TmpStays
<1> QED  BY <1>6, <1>8, <1>9, <1>11, <1>12, Balance

-----------------------------------------------------------------------------
(* client_exec_commands *)

(* A command is executed whose first reply is produced at once: x heads    *)
(* its cells, and l makes the reads of the others.                         *)
LEMMA ExecCounts ==
  ASSUME Accounts, NEW command \in Commands, Does(command), NEW l, NEW k \in Nat, NEW n \in 0..Space,
         RepliesTo(command) = k + 1, IsList(l, k, n), Continue(l),
         NEW x \in Replies, Owes(on["poll"], <<x>>),
         UNCHANGED <<peer, client, open, reading, queue, on, reg, wire>>
  PROVE  Accounts'
<1>1. /\ UNCHANGED <<inbox, output, len, offset, valid, open, reading, queue, on, reg, wire, script, due>>
      /\ ops' = [ops EXCEPT !["poll"] = l]
  BY DEF peer, client, Continue
<1>2. PICK c \in Clients : c = on["poll"]
  BY DEF Accounts, CellTypes, Threads
<1>3. /\ buf[c] \in Seq(Commands) /\ buf[c] # <<>> /\ Head(buf[c]) = command
      /\ Tail(buf[c]) \in Seq(Commands) /\ buf' = [buf EXCEPT ![c] = Tail(buf[c])]
      /\ At("poll", "next")
  BY <1>2 DEF Does, Accounts, CellTypes
<1>4. MovesTo("poll", c, l) /\ NothingLoaded("poll") /\ "poll" \in Threads
  <2>1. on' = [on EXCEPT !["poll"] = c]
    BY <1>1, <1>2 DEF Accounts, CellTypes
  <2> QED  BY <1>1, <1>2, <1>3, <2>1, AtNext DEF MovesTo, NothingLoaded, Threads
<1>5. /\ ops' \in [Threads -> Seq(Steps)] /\ on' \in [Threads -> Clients] /\ ListsComplete'
      /\ \A d \in Clients : /\ PollReads(d)' = PollReads(d) + (IF c = d THEN k - 0 ELSE 0)
                            /\ ToStore(d)' = ToStore(d) + (IF c = d THEN n - 0 ELSE 0)
  BY <1>3, <1>4, AtNext, MoveSums
<1>6. owed' = [owed EXCEPT ![c] = Append(owed[c], x)] /\ x \in Symbols /\ owed[c] \in Seq(Symbols)
  <2>1. x \in Symbols /\ owed[c] \in Seq(Symbols)
    BY DEF Accounts, CellTypes, Symbols
  <2>2. owed[c] \o <<x>> = Append(owed[c], x)
    BY <2>1
  <2> QED  BY <1>2, <2>1, <2>2 DEF Owes
<1>7. CellTypes'
  <2>1. Append(owed[c], x) \in Seq(Symbols)
    BY <1>6
  <2> QED  BY <1>1, <1>3, <1>5, <1>6, <2>1 DEF Accounts, CellTypes
<1>8. WiresOK' /\ LocalsOK'
  BY <1>1 DEF Accounts, WiresOK, LocalsOK
<1>9. RepliesToAll(buf[c]) = (k + 1) + RepliesToAll(Tail(buf[c])) /\ RepliesToAll(Tail(buf[c])) \in Nat
  BY <1>3, RepliesTail, RepliesType
<1>10. Count(Append(owed[c], x), Replies) = Count(owed[c], Replies) + 1
  <2>1. \A S : Count(Append(owed[c], x), S) = Count(owed[c], S) + (IF x \in S THEN 1 ELSE 0)
    BY <1>6, CountAppend, Zenon
  <2> QED  BY <2>1
<1>11. ASSUME NEW d \in Clients
       PROVE  \E e \in {0, 1} :
                /\ ProducesFor(d, e)
                /\ \E m \in Int : Fits(d, m) /\ len'[d] + ToStore(d)' <= m + ToStore(d) + e * Space
  <2>1. /\ RepliesToAll(script[d]) \in Nat /\ RepliesToAll(inbox[d]) \in Nat
        /\ RepliesToAll(buf[d]) \in Nat /\ reading[d] \in Nat /\ PollReads(d) \in Nat
        /\ Pending(d) \in Nat /\ ToStore(d) \in Nat
    BY SumTypes DEF Accounts
  <2>2. Ahead(d)' = RepliesToAll(script[d]) + RepliesToAll(inbox[d]) + RepliesToAll(buf'[d])
                    + reading[d] + PollReads(d)' + Pending(d)
    BY <1>1 DEF Ahead, Pending
  <2>3. CASE d = c
    <3>1. buf'[d] = Tail(buf[c]) /\ owed'[d] = Append(owed[c], x)
      BY <1>3, <1>6, <2>3 DEF Accounts, CellTypes
    <3>2. Ahead(d)' = Ahead(d) - 1 /\ ToStore(d)' = ToStore(d) + n
      <4>1. PollReads(d)' = PollReads(d) + k /\ ToStore(d)' = ToStore(d) + n
        <5>1. PICK i \in Nat : i = Space /\ n \in 0..i
          BY Constants
        <5>2. n - 0 = n /\ k - 0 = k
          BY <5>1
        <5> QED  BY <1>5, <2>3, <5>2
      <4>2. RepliesToAll(buf[d]) = (k + 1) + RepliesToAll(buf'[d]) /\ RepliesToAll(buf'[d]) \in Nat
        BY <1>9, <2>3, <3>1
      <4>3. Ahead(d)' = Ahead(d) - 1
        BY <2>1, <2>2, <4>1, <4>2 DEF Ahead
      <4> QED  BY <4>1, <4>3
    <3> QED  BY <1>1, <1>10, <2>3, <3>1, <3>2, OneProduced
  <2>4. CASE d # c
    <3>1. buf'[d] = buf[d] /\ owed'[d] = owed[d]
      BY <1>3, <1>6, <2>4 DEF Accounts, CellTypes
    <3>2. Ahead(d)' = Ahead(d) /\ ToStore(d)' = ToStore(d)
      BY <1>5, <2>1, <2>2, <2>4, <3>1 DEF Ahead
    <3> QED  BY <1>1, <3>1, <3>2, NothingProduced
  <2> QED  BY <2>3, <2>4
<1>12. \A t \in Threads : reg'[t].tmp # 0 => At(t, "store")' /\ Fits(on'[t], reg'[t].tmp - 1)
  BY <1>4, TmpStays
<1> QED  BY <1>5, <1>7, <1>8, <1>11, <1>12, Balance

LEMMA ExecSetCounts ==
  ASSUME Accounts, ExecSet
  PROVE  Accounts'
<1>1. "set" \in Commands /\ RepliesTo("set") = 0 + 1
  BY DEF Commands, RepliesTo
<1>2. "ok" \in Symbols /\ "ok" \in Replies /\ 1 \in 0..Space
  BY Constants DEF Symbols, Replies
<1>3. IsPlain(Write("ok") \o <<<<"validate">>>>, 0, 1)
  <2>1. IsPlain(Write("ok"), 0, 1) /\ IsPlain(<<<<"validate">>>>, 0, 0)
    BY <1>2, ListWrite, ListSingles
  <2>2. IsPlain(Write("ok") \o <<<<"validate">>>>, 0 + 0, 1 + 0)
    BY <2>1, PlainJoin, Zenon
  <2> QED  BY <2>2
<1>4. IsList(Write("ok") \o <<<<"validate">>>> \o Execute, 0, 1)
  BY <1>3, ListSingles, ListJoin DEF Execute
<1> QED  BY <1>1, <1>2, <1>4, ExecCounts DEF ExecSet

LEMMA ExecMgetCounts ==
  ASSUME Accounts, ExecMget
  PROVE  Accounts'
<1>1. "mget" \in Commands /\ RepliesTo("mget") = MgetKeys + 1 /\ MgetKeys \in Nat
  BY Constants DEF Commands, RepliesTo
<1>2. "array" \in Symbols /\ "array" \in Replies /\ 1 \in 0..Space
  BY Constants DEF Symbols, Replies
<1>3. IsPlain(Write("array") \o [k \in 1..MgetKeys |-> <<"read">>], 0 + MgetKeys, 1 + 0)
  BY <1>2, ListWrite, ListReads, PlainJoin
<1>4. IsList(Write("array") \o [k \in 1..MgetKeys |-> <<"read">>] \o Execute,
             (0 + MgetKeys) + 0, (1 + 0) + 0)
  BY <1>3, ListSingles, ListJoin, Zenon DEF Execute
<1>5. (0 + MgetKeys) + 0 = MgetKeys /\ (1 + 0) + 0 = 1
  BY <1>1
<1>6. PICK l : l = Write("array") \o [k \in 1..MgetKeys |-> <<"read">>] \o Execute
  OBVIOUS
<1>7. IsList(l, MgetKeys, 1)
  BY <1>4, <1>5, <1>6, Zenon
<1>8. Continue(l)
  BY <1>6 DEF ExecMget
<1> QED  BY <1>1, <1>2, <1>7, <1>8, ExecCounts DEF ExecMget

LEMMA ExecErrorCounts ==
  ASSUME Accounts, ExecError
  PROVE  Accounts'
<1>1. "bad" \in Commands /\ RepliesTo("bad") = 0 + 1
  BY DEF Commands, RepliesTo
<1>2. "err" \in Symbols /\ "err" \in Replies /\ 1 \in 0..Space
  BY Constants DEF Symbols, Replies
<1>3. IsPlain(Write("err") \o FlushIfValid, 0, 1)
  BY <1>2, ListWrite, ListSingles, PlainJoin DEF FlushIfValid
<1> QED  BY <1>1, <1>2, <1>3, ExecCounts DEF ExecError, IsPlain

LEMMA ExecProtocolErrorCounts ==
  ASSUME Accounts, ExecProtocolError
  PROVE  Accounts'
<1>1. "junk" \in Commands /\ RepliesTo("junk") = 0 + 1
  BY DEF Commands, RepliesTo
<1>2. "err" \in Symbols /\ "err" \in Replies /\ 1 \in 0..Space
  BY Constants DEF Symbols, Replies
<1>3. IsPlain(Write("err") \o FlushIfValid, 0, 1)
  BY <1>2, ListWrite, ListSingles, PlainJoin DEF FlushIfValid
<1>4. IsPlain(Write("err") \o FlushIfValid \o <<<<"close">>>>, 0, 1)
  BY <1>3, ListSingles, PlainJoin
<1> QED  BY <1>1, <1>2, <1>4, ExecCounts DEF ExecProtocolError, IsPlain

LEMMA ExecKeysCounts ==
  ASSUME Accounts, ExecKeys
  PROVE  Accounts'
<1>1. "keys" \in Commands /\ RepliesTo("keys") = 0 + 1
  BY DEF Commands, RepliesTo
<1>2. "header" \in Replies /\ Filler \in 0..Space
  BY Constants DEF Replies
<1>3. IsList(ScanKeys \o Execute, 0 + 0, Filler + 0)
  BY ListScanKeys, ListSingles, ListJoin, Zenon DEF Execute
<1>4. IsList(ScanKeys \o Execute, 0, Filler)
  <2>1. 0 + 0 = 0 /\ Filler + 0 = Filler
    BY Constants
  <2> QED  BY <1>3, <2>1, Zenon
<1> QED  BY <1>1, <1>2, <1>4, ExecCounts DEF ExecKeys

LEMMA ExecQuitCounts ==
  ASSUME Accounts, ExecQuit
  PROVE  Accounts'
<1>1. "quit" \in Commands /\ RepliesTo("quit") = 0 + 1
  BY DEF Commands, RepliesTo
<1>2. "ok" \in Symbols /\ "ok" \in Replies /\ 1 \in 0..Space
  BY Constants DEF Symbols, Replies
<1>3. IsPlain(Write("ok") \o <<<<"validate">>>>, 0, 1)
  <2>1. IsPlain(Write("ok"), 0, 1) /\ IsPlain(<<<<"validate">>>>, 0, 0)
    BY <1>2, ListWrite, ListSingles
  <2>2. IsPlain(Write("ok") \o <<<<"validate">>>>, 0 + 0, 1 + 0)
    BY <2>1, PlainJoin, Zenon
  <2> QED  BY <2>2
<1>4. IsPlain(Write("ok") \o <<<<"validate">>>> \o FlushIfValid, 0, 1)
  BY <1>3, ListSingles, PlainJoin DEF FlushIfValid
<1>5. IsPlain(Write("ok") \o <<<<"validate">>>> \o FlushIfValid \o <<<<"close">>>>, 0, 1)
  BY <1>4, ListSingles, PlainJoin
<1> QED  BY <1>1, <1>2, <1>5, ExecCounts DEF ExecQuit, IsPlain

(* A command is executed whose replies are all left to the reads it makes. *)
LEMMA ReadsKeep ==
  ASSUME Accounts, NEW command \in Commands, Does(command),
         reading' = [reading EXCEPT ![on["poll"]] = @ + RepliesTo(command)],
         UNCHANGED <<peer, client, open, queue, thread, wire, owed>>
  PROVE  Accounts'
<1>1. UNCHANGED <<inbox, output, len, offset, valid, open, queue, ops, on, reg, wire, owed, script, due>>
  BY DEF peer, client, thread
<1>2. PICK c \in Clients, k \in Nat : c = on["poll"] /\ k = RepliesTo(command)
  BY RepliesOne DEF Accounts, CellTypes, Threads
<1>3. /\ buf[c] \in Seq(Commands) /\ buf[c] # <<>> /\ Head(buf[c]) = command
      /\ Tail(buf[c]) \in Seq(Commands) /\ buf' = [buf EXCEPT ![c] = Tail(buf[c])]
      /\ reading' = [reading EXCEPT ![c] = reading[c] + k] /\ reading[c] + k \in Nat
  BY <1>2 DEF Does, Accounts, CellTypes
<1>4. CellTypes'
  <2>1. buf \in [Clients -> Seq(Commands)] /\ reading \in [Clients -> Nat]
    BY DEF Accounts, CellTypes
  <2>2. buf' \in [Clients -> Seq(Commands)]
    BY <1>3, <2>1
  <2>3. reading' \in [Clients -> Nat]
    BY <1>3, <2>1
  <2> QED  BY <1>1, <2>2, <2>3 DEF Accounts, CellTypes
<1>5. WiresOK'
  BY <1>1 DEF Accounts, WiresOK
<1>6. RepliesToAll(buf[c]) = k + RepliesToAll(Tail(buf[c])) /\ RepliesToAll(Tail(buf[c])) \in Nat
  BY <1>2, <1>3, RepliesTail, RepliesType
<1>7. ASSUME NEW d \in Clients PROVE Ahead(d)' = Ahead(d) /\ ToStore(d)' = ToStore(d)
  <2>1. /\ RepliesToAll(script[d]) \in Nat /\ RepliesToAll(inbox[d]) \in Nat
        /\ RepliesToAll(buf[d]) \in Nat /\ reading[d] \in Nat /\ PollReads(d) \in Nat
        /\ Pending(d) \in Nat
    BY SumTypes DEF Accounts
  <2>2. PollReads(d)' = PollReads(d) /\ ToStore(d)' = ToStore(d)
    BY <1>1, ThreadsRest
  <2>3. Ahead(d)' = RepliesToAll(script[d]) + RepliesToAll(inbox[d]) + RepliesToAll(buf'[d])
                    + reading'[d] + PollReads(d) + Pending(d)
    BY <1>1, <2>2 DEF Ahead, Pending
  <2>4. CASE d = c
    <3>1. buf'[d] = Tail(buf[d]) /\ reading'[d] = reading[d] + k
      BY <1>3, <2>4 DEF Accounts, CellTypes
    <3> QED  BY <1>6, <2>1, <2>2, <2>3, <2>4, <3>1 DEF Ahead
  <2>5. CASE d # c
    <3>1. buf'[d] = buf[d] /\ reading'[d] = reading[d]
      BY <1>3, <2>5 DEF Accounts, CellTypes
    <3> QED  BY <2>1, <2>2, <2>3, <3>1 DEF Ahead
  <2> QED  BY <2>4, <2>5
<1> QED  BY <1>1, <1>4, <1>5, <1>7, NothingProduced, ThreadsRest, Balance

LEMMA ExecGetCounts ==
  ASSUME Accounts, ExecGet
  PROVE  Accounts'
<1>1. "get" \in Commands /\ RepliesTo("get") = 1
  BY DEF Commands, RepliesTo
<1> QED  BY <1>1, ReadsKeep DEF ExecGet

LEMMA ExecEchoCounts ==
  ASSUME Accounts, ExecEcho
  PROVE  Accounts'
<1>1. "echo" \in Commands /\ RepliesTo("echo") = 0
  BY DEF Commands, RepliesTo
<1>2. reading' = [reading EXCEPT ![on["poll"]] = @ + 0]
  BY DEF ExecEcho, Accounts, CellTypes, Threads
<1> QED  BY <1>1, <1>2, ReadsKeep DEF ExecEcho

-----------------------------------------------------------------------------
(* Steps that change neither output_len nor what is owed *)

OthersOK ==
  /\ output \in [Clients -> [Cells -> Symbols]]
  /\ offset \in [Clients -> Cells]
  /\ valid \in [Clients -> BOOLEAN]
  /\ open \subseteq Clients
  /\ reading \in [Clients -> Nat]
  /\ reg \in [Threads -> CellLocals]
  /\ wire \in [Clients -> Seq(Symbols)]

(* Thread t goes on with l; the reads that l lacks are in the engine.      *)
LEMMA MoveCounts ==
  ASSUME Accounts, NEW t \in Threads, NEW l, NEW r, IsList(l, r, Stores(ops[t])),
         ops' = [ops EXCEPT ![t] = l], NothingLoaded(t), OthersOK', WiresOK', LocalsOK',
         UNCHANGED <<inbox, buf, len, queue, on, owed, script, due>>,
         \A d \in Clients : d # on[t] => reading'[d] = reading[d],
         t = "poll" => reading'[on[t]] + r = reading[on[t]] + Reads(ops[t]),
         t # "poll" => reading'[on[t]] = reading[on[t]]
  PROVE  Accounts'
<1>1. PICK c \in Clients : c = on[t]
  BY DEF Accounts, CellTypes
<1>2. MovesTo(t, c, l)
  BY <1>1 DEF MovesTo, Accounts, CellTypes
<1>3. /\ ops' \in [Threads -> Seq(Steps)] /\ on' \in [Threads -> Clients] /\ ListsComplete'
      /\ Reads(ops[t]) \in Nat /\ Stores(ops[t]) \in Nat
      /\ \A d \in Clients :
           /\ PollReads(d)' = PollReads(d) + (IF t = "poll" /\ c = d THEN r - Reads(ops[t]) ELSE 0)
           /\ ToStore(d)' = ToStore(d) + (IF c = d THEN Stores(ops[t]) - Stores(ops[t]) ELSE 0)
  BY <1>2, MoveSums
<1>4. CellTypes'
  BY <1>3 DEF Accounts, CellTypes, OthersOK
<1>5. ASSUME NEW d \in Clients PROVE Ahead(d)' = Ahead(d) /\ ToStore(d)' = ToStore(d)
  <2>1. /\ RepliesToAll(script[d]) \in Nat /\ RepliesToAll(inbox[d]) \in Nat
        /\ RepliesToAll(buf[d]) \in Nat /\ reading[d] \in Nat /\ PollReads(d) \in Nat
        /\ Pending(d) \in Nat /\ ToStore(d) \in Nat /\ reading'[d] \in Nat /\ r \in Nat
    BY <1>4, SumTypes DEF Accounts, IsList, CellTypes
  <2>2. ToStore(d)' = ToStore(d)
    BY <1>3, <2>1
  <2>3. reading'[d] + PollReads(d)' = reading[d] + PollReads(d) /\ PollReads(d)' \in Int
    <3>1. CASE t = "poll" /\ d = c
      <4>1. PollReads(d)' = PollReads(d) + (r - Reads(ops[t]))
        BY <1>3, <3>1
      <4>2. reading'[d] + r = reading[d] + Reads(ops[t])
        BY <1>1, <3>1
      <4>3. PICK i \in Nat : i = Reads(ops[t])
        BY <1>3
      <4> QED  BY <2>1, <4>1, <4>2, <4>3
    <3>2. CASE t # "poll" \/ d # c
      <4>1. PollReads(d)' = PollReads(d) + 0
        BY <1>3, <3>2
      <4>2. reading'[d] = reading[d]
        BY <1>1, <3>2
      <4> QED  BY <2>1, <4>1, <4>2
    <3> QED  BY <3>1, <3>2
  <2>4. Ahead(d)' = RepliesToAll(script[d]) + RepliesToAll(inbox[d]) + RepliesToAll(buf[d])
                    + reading'[d] + PollReads(d)' + Pending(d)
    BY DEF Ahead, Pending
  <2> QED  BY <2>1, <2>2, <2>3, <2>4 DEF Ahead
<1>6. \A u \in Threads : reg'[u].tmp # 0 => At(u, "store")' /\ Fits(on'[u], reg'[u].tmp - 1)
  BY <1>2, TmpStays
<1> QED  BY <1>3, <1>4, <1>5, <1>6, NothingProduced, Balance

(* Thread t is at a step that neither reads nor stores, and goes on.       *)
LEMMA DoneCounts ==
  ASSUME Accounts, NEW t \in Threads, ops[t] # <<>>, Head(ops[t])[1] \notin {"store", "read"},
         Done(t), \A u \in Threads : reg'[u].tmp \in {0, reg[u].tmp},
         OthersOK', WiresOK', LocalsOK',
         UNCHANGED <<inbox, buf, len, reading, queue, on, owed, script, due>>
  PROVE  Accounts'
<1>1. PICK l \in Seq(Steps) : l = ops[t] /\ Complete(l) /\ l # <<>>
  BY DEF Accounts, CellTypes, ListsComplete
<1>2. Head(l) # <<"store">> /\ Head(l) # <<"read">>
  BY <1>1
<1>3. IsList(Tail(l), Reads(l), Stores(l))
  BY <1>1, <1>2, ListTail DEF IsList
<1>4. ops' = [ops EXCEPT ![t] = Tail(l)]
  BY <1>1 DEF Done, Accounts, CellTypes
<1>5. NothingLoaded(t)
  BY DEF NothingLoaded, At
<1>6. IsList(Tail(l), Reads(ops[t]), Stores(ops[t]))
  BY <1>1, <1>3
<1> QED  BY <1>4, <1>5, <1>6, MoveCounts

LEMMA ExecNoneCounts ==
  ASSUME Accounts, ExecNone
  PROVE  Accounts'
<1>1. /\ UNCHANGED <<inbox, buf, output, len, offset, valid, open, reading, queue, on, reg, wire, owed,
                     script, due>>
      /\ ops' = [ops EXCEPT !["poll"] = FlushIfValid] /\ At("poll", "next")
  BY DEF ExecNone, peer, client, Continue
<1>2. Reads(ops["poll"]) = 0 /\ Stores(ops["poll"]) = 0 /\ NothingLoaded("poll")
  BY <1>1, AtNext DEF NothingLoaded
<1>3. IsList(FlushIfValid, 0, Stores(ops["poll"])) /\ "poll" \in Threads
  BY <1>2, ListSingles DEF FlushIfValid, IsPlain, Threads
<1>4. OthersOK' /\ WiresOK' /\ LocalsOK'
  BY <1>1 DEF Accounts, CellTypes, OthersOK, WiresOK, LocalsOK
<1> QED  BY <1>1, <1>2, <1>3, <1>4, MoveCounts

LEMMA MakeReadCounts ==
  ASSUME Accounts, MakeRead
  PROVE  Accounts'
<1>1. /\ UNCHANGED <<inbox, buf, output, len, offset, valid, open, queue, on, reg, wire, owed, script, due>>
      /\ ops["poll"] # <<>> /\ Head(ops["poll"])[1] = "read"
  BY DEF MakeRead, peer, client, At
<1>2. PICK l \in Seq(Steps) : l = ops["poll"] /\ Complete(l) /\ l # <<>> /\ Head(l)[1] = "read"
  BY <1>1 DEF Accounts, CellTypes, ListsComplete, Threads
<1>3. Head(l) \in Steps
  BY <1>2
<1>4. Head(l) = <<"read">> /\ Head(l) # <<"store">>
  BY <1>2, <1>3, StepsAre
<1>5. PICK r \in Nat : r = Reads(Tail(l)) /\ Reads(l) = 1 + r /\ IsList(Tail(l), r, Stores(l))
  BY <1>2, <1>4, ListTail DEF IsList
<1>6. PICK c \in Clients : c = on["poll"]
  BY DEF Accounts, CellTypes, Threads
<1>7. /\ reading' = [reading EXCEPT ![c] = reading[c] + 1]
      /\ reading \in [Clients -> Nat] /\ reading' \in [Clients -> Nat]
  <2>1. reading' = [reading EXCEPT ![c] = reading[c] + 1]
    BY <1>6 DEF MakeRead
  <2>2. reading \in [Clients -> Nat] /\ reading[c] + 1 \in Nat
    BY DEF Accounts, CellTypes
  <2> QED  BY <2>1, <2>2
<1>8. reading'[c] + r = reading[c] + Reads(l)
  BY <1>5, <1>7
<1>9. OthersOK' /\ WiresOK' /\ LocalsOK'
  BY <1>1, <1>7 DEF Accounts, CellTypes, OthersOK, WiresOK, LocalsOK
<1>10. NothingLoaded("poll") /\ "poll" \in Threads
  BY <1>1 DEF NothingLoaded, At, Threads
<1>11. ops' = [ops EXCEPT !["poll"] = Tail(l)]
  BY <1>2 DEF MakeRead, Continue
<1>12. \A d \in Clients : d # on["poll"] => reading'[d] = reading[d]
  BY <1>6, <1>7
<1>13. reading'[on["poll"]] + r = reading[on["poll"]] + Reads(ops["poll"])
  BY <1>2, <1>6, <1>8
<1>14. IsList(Tail(l), r, Stores(ops["poll"]))
  BY <1>2, <1>5
<1> QED  BY <1>1, <1>9, <1>10, <1>11, <1>12, <1>13, <1>14, MoveCounts

LEMMA TestValidCounts ==
  ASSUME Accounts, TestValid
  PROVE  Accounts'
<1>1. /\ UNCHANGED <<inbox, buf, output, len, offset, valid, open, reading, queue, on, reg, wire, owed,
                     script, due>>
      /\ ops["poll"] # <<>> /\ Head(ops["poll"])[1] = "valid?"
  BY DEF TestValid, peer, client, At
<1>2. PICK l \in Seq(Steps) : l = ops["poll"] /\ Complete(l) /\ l # <<>> /\ Head(l)[1] = "valid?"
  BY <1>1 DEF Accounts, CellTypes, ListsComplete, Threads
<1>3. Head(l) # <<"read">> /\ Head(l) # <<"store">>
  BY <1>2
<1>4. PICK r \in Nat, n \in Nat : r = Reads(l) /\ n = Stores(l) /\ IsList(Tail(l), r, n)
  BY <1>2, <1>3, ListTail DEF IsList
<1>5. PICK k : k = (IF valid[on["poll"]] THEN FlushAndClear ELSE <<>>)
  OBVIOUS
<1>6. IsPlain(k, 0, 0)
  BY <1>5, ListFlushAndClear, ListEmpty
<1>7. IsList(k \o Tail(l), r, n)
  <2>1. IsList(k \o Tail(l), 0 + r, 0 + n)
    BY <1>4, <1>6, ListJoin, Zenon
  <2>2. 0 + r = r /\ 0 + n = n
    OBVIOUS
  <2> QED  BY <2>1, <2>2, Zenon
<1>8. ops' = [ops EXCEPT !["poll"] = k \o Tail(l)]
  BY <1>2, <1>5 DEF TestValid, Continue
<1>9. OthersOK' /\ WiresOK' /\ LocalsOK'
  BY <1>1 DEF Accounts, CellTypes, OthersOK, WiresOK, LocalsOK
<1>10. NothingLoaded("poll") /\ "poll" \in Threads
  BY <1>1 DEF NothingLoaded, At, Threads
<1>11. IsList(k \o Tail(l), Reads(ops["poll"]), Stores(ops["poll"]))
  BY <1>2, <1>4, <1>7
<1> QED  BY <1>1, <1>8, <1>9, <1>10, <1>11, MoveCounts

LEMMA CloseCounts ==
  ASSUME Accounts, Close
  PROVE  Accounts'
<1>1. /\ UNCHANGED <<inbox, buf, output, len, offset, valid, reading, queue, on, reg, wire, owed, script, due>>
      /\ ops["poll"] # <<>> /\ Head(ops["poll"])[1] = "close" /\ open' \subseteq open
      /\ Done("poll") /\ "poll" \in Threads
  BY DEF Close, peer, client, At, Threads
<1>2. OthersOK' /\ WiresOK' /\ LocalsOK'
  BY <1>1 DEF Accounts, CellTypes, OthersOK, WiresOK, LocalsOK
<1> QED  BY <1>1, <1>2, DoneCounts

-----------------------------------------------------------------------------
(* The steps of either thread *)

LEMMA CopyCounts ==
  ASSUME Accounts, NEW t \in Threads, Copy(t)
  PROVE  Accounts'
<1>1. /\ UNCHANGED <<inbox, buf, len, offset, valid, open, reading, queue, on, reg, wire, owed, script, due>>
      /\ ops[t] # <<>> /\ Head(ops[t])[1] = "copy" /\ Done(t)
  BY DEF Copy, peer, At
<1>2. PICK c \in Clients : c = on[t]
  BY DEF Accounts, CellTypes
<1>3. Head(ops[t]) \in Steps
  BY <1>1 DEF Accounts, CellTypes
<1>4. PICK x \in Symbols : x = Head(ops[t])[2]
  BY <1>1, <1>3, StepsAre
<1>5. output' = [output EXCEPT ![c][len[c]] = x]
  BY <1>2, <1>4 DEF Copy
<1>6. output' \in [Clients -> [Cells -> Symbols]]
  <2>1. output \in [Clients -> [Cells -> Symbols]] /\ output[c] \in [Cells -> Symbols]
    BY DEF Accounts, CellTypes
  <2>2. [output[c] EXCEPT ![len[c]] = x] \in [Cells -> Symbols]
    BY <2>1
  <2>3. output' = [output EXCEPT ![c] = [output[c] EXCEPT ![len[c]] = x]]
    BY <1>5
  <2> QED  BY <2>1, <2>2, <2>3
<1>7. OthersOK' /\ WiresOK' /\ LocalsOK'
  BY <1>1, <1>6 DEF Accounts, CellTypes, OthersOK, WiresOK, LocalsOK
<1> QED  BY <1>1, <1>7, DoneCounts

LEMMA SetOffsetCounts ==
  ASSUME Accounts, NEW t \in Threads, SetOffset(t)
  PROVE  Accounts'
<1>1. /\ UNCHANGED <<inbox, buf, len, valid, open, reading, queue, on, reg, wire, owed, script, due>>
      /\ ops[t] # <<>> /\ Head(ops[t])[1] \in {"zerooff", "header"} /\ Done(t)
  BY DEF SetOffset, peer, At
<1>2. PICK c \in Clients : c = on[t]
  BY DEF Accounts, CellTypes
<1>3. 0 \in Cells /\ Filler - 1 \in Cells /\ "header" \in Symbols
  BY Constants DEF Symbols, Replies
<1>4. output' \in [Clients -> [Cells -> Symbols]] /\ offset' \in [Clients -> Cells]
  <2>1. /\ output \in [Clients -> [Cells -> Symbols]] /\ output[c] \in [Cells -> Symbols]
        /\ offset \in [Clients -> Cells]
    BY DEF Accounts, CellTypes
  <2>2. CASE At(t, "zerooff") /\ offset' = [offset EXCEPT ![on[t]] = 0] /\ UNCHANGED output
    BY <1>2, <1>3, <2>1, <2>2
  <2>3. CASE /\ output' = [output EXCEPT ![on[t]][Filler - 1] = "header"]
             /\ offset' = [offset EXCEPT ![on[t]] = Filler - 1]
    <3>1. output' = [output EXCEPT ![c] = [output[c] EXCEPT ![Filler - 1] = "header"]]
      BY <1>2, <2>3
    <3>2. [output[c] EXCEPT ![Filler - 1] = "header"] \in [Cells -> Symbols]
      BY <1>3, <2>1
    <3> QED  BY <1>2, <1>3, <2>1, <2>3, <3>1, <3>2
  <2> QED  BY <2>2, <2>3 DEF SetOffset
<1>5. OthersOK' /\ WiresOK' /\ LocalsOK'
  BY <1>1, <1>4 DEF Accounts, CellTypes, OthersOK, WiresOK, LocalsOK
<1> QED  BY <1>1, <1>5, DoneCounts

LEMMA SetValidCounts ==
  ASSUME Accounts, NEW t \in Threads, SetValid(t)
  PROVE  Accounts'
<1>1. /\ UNCHANGED <<inbox, buf, output, len, offset, open, reading, queue, on, reg, wire, owed, script, due>>
      /\ ops[t] # <<>> /\ Head(ops[t])[1] \in {"validate", "invalid"} /\ Done(t)
  BY DEF SetValid, peer, At
<1>2. valid' \in [Clients -> BOOLEAN]
  BY DEF SetValid, Accounts, CellTypes
<1>3. OthersOK' /\ WiresOK' /\ LocalsOK'
  BY <1>1, <1>2 DEF Accounts, CellTypes, OthersOK, WiresOK, LocalsOK
<1> QED  BY <1>1, <1>3, DoneCounts

(* The locals of thread t change. *)
LEMMA LocalsStay ==
  ASSUME Accounts, NEW t \in Threads, NEW f \in CellLocals, f.sent <= f.off, f.off + f.n <= Bound,
         reg' = [reg EXCEPT ![t] = f]
  PROVE  /\ reg' \in [Threads -> CellLocals] /\ LocalsOK'
         /\ reg'[t] = f /\ \A u \in Threads \ {t} : reg'[u] = reg[u]
<1>1. reg \in [Threads -> CellLocals] /\ LocalsOK
  BY DEF Accounts, CellTypes
<1>2. reg' \in [Threads -> CellLocals] /\ reg'[t] = f /\ \A u \in Threads \ {t} : reg'[u] = reg[u]
  BY <1>1
<1> QED  BY <1>1, <1>2 DEF LocalsOK

(* What a client's buffer holds fits in it. *)
LEMMA LenFits ==
  ASSUME Accounts, NEW c \in Clients, NEW n \in Int, Fits(c, n)
  PROVE  /\ n <= Bound
         /\ ToStore(c) >= 1 => n + 1 <= Bound
<1>1. n + ToStore(c) + Space * Ahead(c) <= Bound
  BY DEF Fits
<1>2. PICK a \in Nat, b \in Nat, k \in Nat, m \in Nat :
        a = ToStore(c) /\ b = Ahead(c) /\ k = Space /\ m = Bound
  BY SumTypes, Constants DEF Accounts
<1>3. k * b \in Nat
  BY <1>2
<1> QED  BY <1>1, <1>2, <1>3

LEMMA TestLenCounts ==
  ASSUME Accounts, NEW t \in Threads, TestLen(t)
  PROVE  Accounts'
<1>1. /\ UNCHANGED <<inbox, buf, output, len, offset, valid, open, reading, queue, on, wire, owed, script, due>>
      /\ ops[t] # <<>> /\ Head(ops[t])[1] = "test"
  BY DEF TestLen, peer, client, At
<1>2. PICK c \in Clients : c = on[t]
  BY DEF Accounts, CellTypes
<1>3. PICK off \in Cells : off = IF Head(ops[t])[2] = "own" THEN offset[c] ELSE 0
  <2>1. 0 \in Cells /\ offset[c] \in Cells
    BY Constants DEF Accounts, CellTypes
  <2> QED  BY <2>1
<1>4. CASE ops' = [ops EXCEPT ![t] = SubSeq(@, 4, Len(@))] /\ UNCHANGED reg
  <2>1. PICK l \in Seq(Steps) : l = ops[t] /\ Complete(l) /\ l # <<>> /\ Head(l)[1] = "test"
    BY <1>1 DEF Accounts, CellTypes, ListsComplete
  <2>2. IsList(SubSeq(l, 4, Len(l)), Reads(l), Stores(l))
    BY <2>1, ListTail3
  <2>3. ops' = [ops EXCEPT ![t] = SubSeq(l, 4, Len(l))]
    BY <1>4, <2>1 DEF Accounts, CellTypes
  <2>4. NothingLoaded(t)
    BY <1>1, <1>4 DEF NothingLoaded, At
  <2>5. OthersOK' /\ WiresOK' /\ LocalsOK'
    BY <1>1, <1>4 DEF Accounts, CellTypes, OthersOK, WiresOK, LocalsOK
  <2>6. IsList(SubSeq(l, 4, Len(l)), Reads(ops[t]), Stores(ops[t]))
    BY <2>1, <2>2
  <2> QED  BY <1>1, <2>3, <2>4, <2>5, <2>6, MoveCounts
<1>5. CASE /\ reg' = [reg EXCEPT ![t].off = off, ![t].sent = 0, ![t].n = 0, ![t].size = len[c] - off]
           /\ Done(t) /\ ~ (len[c] - off <= 0)
  <2>1. reg \in [Threads -> CellLocals] /\ reg[t] \in CellLocals
    BY DEF Accounts, CellTypes
  <2>2. len[c] \in Cells
    <3>1. len[c] \in Nat /\ len[c] \in Int /\ Fits(c, len[c])
      BY DEF Accounts, CellTypes, RoomOK
    <3>2. len[c] <= Bound
      BY <3>1, LenFits
    <3> QED  BY <3>1, <3>2, Constants
  <2>3. PICK f : /\ reg' = [reg EXCEPT ![t] = f]
                 /\ f = [reg[t] EXCEPT !.off = off, !.sent = 0, !.n = 0, !.size = len[c] - off]
    BY <1>5, <2>1
  <2>4. f = [tmp |-> reg[t].tmp, off |-> off, size |-> len[c] - off, sent |-> 0, n |-> 0]
    BY <2>1, <2>3 DEF CellLocals
  <2>5. f \in CellLocals /\ f.sent <= f.off /\ f.off + f.n <= Bound
    <3>1. PICK b \in Nat : b = Bound /\ Cells = 0..b
      BY Constants
    <3>2. 0 \in Cells /\ len[c] - off \in Cells /\ reg[t].tmp \in Cells /\ off + 0 <= Bound
      BY <1>5, <2>1, <2>2, <3>1 DEF CellLocals
    <3> QED  BY <2>4, <3>1, <3>2 DEF CellLocals
  <2>6. /\ reg' \in [Threads -> CellLocals] /\ LocalsOK'
        /\ reg'[t] = f /\ \A u \in Threads \ {t} : reg'[u] = reg[u]
    BY <2>3, <2>5, LocalsStay
  <2>7. \A u \in Threads : reg'[u].tmp \in {0, reg[u].tmp}
    BY <2>4, <2>6
  <2>8. OthersOK' /\ WiresOK'
    BY <1>1, <2>6 DEF Accounts, CellTypes, OthersOK, WiresOK
  <2> QED  BY <1>1, <1>5, <2>6, <2>7, <2>8, DoneCounts
<1> QED  BY <1>2, <1>3, <1>4, <1>5 DEF TestLen

LEMMA CallWriteCounts ==
  ASSUME Accounts, NEW t \in Threads, CallWrite(t)
  PROVE  Accounts'
<1>1. /\ UNCHANGED <<inbox, buf, output, len, offset, valid, open, reading, queue, on, wire, owed, script, due>>
      /\ ops[t] # <<>> /\ Head(ops[t])[1] = "write"
  BY DEF CallWrite, peer, client, At
<1>2. PICK c \in Clients : c = on[t]
  BY DEF Accounts, CellTypes
<1>3. CASE Done(t) /\ UNCHANGED reg
  <2>1. OthersOK' /\ WiresOK' /\ LocalsOK'
    BY <1>1, <1>3 DEF Accounts, CellTypes, OthersOK, WiresOK, LocalsOK
  <2> QED  BY <1>1, <1>3, <2>1, DoneCounts
<1>4. CASE /\ len[c] > reg[t].off /\ reg' = [reg EXCEPT ![t].n = len[c] - reg[t].off]
           /\ UNCHANGED ops
  <2>1. reg \in [Threads -> CellLocals] /\ reg[t] \in CellLocals /\ reg[t].sent <= reg[t].off
    BY DEF Accounts, CellTypes, LocalsOK
  <2>2. len[c] \in Nat /\ len[c] <= Bound
    <3>1. len[c] \in Nat /\ len[c] \in Int /\ Fits(c, len[c])
      BY DEF Accounts, CellTypes, RoomOK
    <3> QED  BY <3>1, LenFits
  <2>3. PICK f : reg' = [reg EXCEPT ![t] = f] /\ f = [reg[t] EXCEPT !.n = len[c] - reg[t].off]
    BY <1>4, <2>1
  <2>4. f = [tmp |-> reg[t].tmp, off |-> reg[t].off, size |-> reg[t].size,
             sent |-> reg[t].sent, n |-> len[c] - reg[t].off]
    BY <2>1, <2>3 DEF CellLocals
  <2>5. f \in CellLocals /\ f.sent <= f.off /\ f.off + f.n <= Bound
    <3>1. PICK b \in Nat : b = Bound /\ Cells = 0..b
      BY Constants
    <3>2. PICK x \in 0..b, y \in Nat : x = reg[t].off /\ y = len[c] /\ y <= b /\ y > x
      BY <1>4, <2>1, <2>2, <3>1 DEF CellLocals
    <3>3. y - x \in 0..b /\ x + (y - x) <= b
      BY <3>2
    <3> QED  BY <2>1, <2>4, <3>1, <3>2, <3>3 DEF CellLocals
  <2>6. /\ reg' \in [Threads -> CellLocals] /\ LocalsOK'
        /\ reg'[t] = f /\ \A u \in Threads \ {t} : reg'[u] = reg[u]
    BY <2>3, <2>5, LocalsStay
  <2>7. NothingLoaded(t)
    BY <1>1, <2>4, <2>6 DEF NothingLoaded, At
  <2>8. OthersOK' /\ WiresOK'
    BY <1>1, <2>6 DEF Accounts, CellTypes, OthersOK, WiresOK
  <2>9. IsList(ops[t], Reads(ops[t]), Stores(ops[t])) /\ ops' = [ops EXCEPT ![t] = ops[t]]
    BY <1>4, CountType DEF IsList, Accounts, CellTypes, ListsComplete, Reads, Stores
  <2> QED  BY <1>1, <2>6, <2>7, <2>8, <2>9, MoveCounts
<1> QED  BY <1>2, <1>3, <1>4 DEF CallWrite

LEMMA WriteCellCounts ==
  ASSUME Accounts, NEW t \in Threads, WriteCell(t)
  PROVE  Accounts'
<1>1. /\ UNCHANGED <<inbox, buf, output, len, offset, valid, open, reading, queue, ops, on, owed, script, due>>
      /\ ops[t] # <<>> /\ Head(ops[t])[1] = "write" /\ reg[t].n > 0
  BY DEF WriteCell, peer, client, At
<1>2. PICK c \in Clients : c = on[t]
  BY DEF Accounts, CellTypes
<1>3. reg \in [Threads -> CellLocals] /\ reg[t] \in CellLocals /\ reg[t].sent <= reg[t].off
      /\ reg[t].off + reg[t].n <= Bound
  BY DEF Accounts, CellTypes, LocalsOK
<1>4. wire' \in [Clients -> Seq(Symbols)] /\ WiresOK'
  <2>1. PICK x \in Symbols : x = output[c][reg[t].off]
    BY <1>3 DEF Accounts, CellTypes, CellLocals
  <2>2. wire' = [wire EXCEPT ![c] = Append(wire[c], x)] /\ Len(wire[c]) < SockBuf
    BY <1>2, <2>1 DEF WriteCell
  <2>3. wire \in [Clients -> Seq(Symbols)] /\ WiresOK
    BY DEF Accounts, CellTypes
  <2>4. Append(wire[c], x) \in Seq(Symbols) /\ Len(Append(wire[c], x)) <= SockBuf
    <3>1. Append(wire[c], x) \in Seq(Symbols) /\ Len(Append(wire[c], x)) = Len(wire[c]) + 1
          /\ Len(wire[c]) \in Nat
      BY <2>3
    <3> QED  BY <2>2, <3>1, Constants
  <2> QED  BY <2>2, <2>3, <2>4 DEF WiresOK
<1>5. PICK f : /\ reg' = [reg EXCEPT ![t] = f]
               /\ f = [reg[t] EXCEPT !.n = reg[t].n - 1, !.off = reg[t].off + 1,
                                    !.sent = reg[t].sent + 1]
  <2>1. reg' = [reg EXCEPT ![t].n = @ - 1, ![t].off = @ + 1, ![t].sent = @ + 1]
    BY DEF WriteCell
  <2>2. DOMAIN reg[t] = {"tmp", "off", "size", "sent", "n"}
    BY <1>3 DEF CellLocals
  <2> QED  BY <1>3, <2>1, <2>2
<1>6. f = [tmp |-> reg[t].tmp, off |-> reg[t].off + 1, size |-> reg[t].size,
           sent |-> reg[t].sent + 1, n |-> reg[t].n - 1]
  BY <1>3, <1>5 DEF CellLocals
<1>7. f \in CellLocals /\ f.sent <= f.off /\ f.off + f.n <= Bound
  <2>1. PICK b \in Nat : b = Bound /\ Cells = 0..b
    BY Constants
  <2>2. PICK x \in 0..b, y \in 0..b, z \in 0..b :
          x = reg[t].off /\ y = reg[t].n /\ z = reg[t].sent /\ z <= x /\ x + y <= b /\ y > 0
    BY <1>1, <1>3, <2>1 DEF CellLocals
  <2>3. x + 1 \in 0..b /\ y - 1 \in 0..b /\ z + 1 \in 0..b /\ (x + 1) + (y - 1) <= b /\ z + 1 <= x + 1
    BY <2>2
  <2> QED  BY <1>3, <1>6, <2>1, <2>2, <2>3 DEF CellLocals
<1>8. /\ reg' \in [Threads -> CellLocals] /\ LocalsOK'
      /\ reg'[t] = f /\ \A u \in Threads \ {t} : reg'[u] = reg[u]
  BY <1>5, <1>7, LocalsStay
<1>9. NothingLoaded(t)
  BY <1>1, <1>6, <1>8 DEF NothingLoaded, At
<1>10. OthersOK'
  BY <1>1, <1>4, <1>8 DEF Accounts, CellTypes, OthersOK
<1>11. IsList(ops[t], Reads(ops[t]), Stores(ops[t])) /\ ops' = [ops EXCEPT ![t] = ops[t]]
  <2>1. ops[t] \in Seq(Steps) /\ Complete(ops[t]) /\ ops \in [Threads -> Seq(Steps)]
    BY DEF Accounts, CellTypes, ListsComplete
  <2>2. Len(ops[t]) \in Nat /\ Reads(ops[t]) \in 0..Len(ops[t]) /\ Stores(ops[t]) \in 0..Len(ops[t])
    BY <2>1, CountType DEF Reads, Stores
  <2>3. ops' = ops /\ ops = [ops EXCEPT ![t] = ops[t]]
    BY <1>1, <2>1
  <2> QED  BY <2>1, <2>2, <2>3 DEF IsList
<1> QED  BY <1>1, <1>4, <1>8, <1>9, <1>10, <1>11, MoveCounts

LEMMA LoadCounts ==
  ASSUME Accounts, NEW t \in Threads, Load(t)
  PROVE  Accounts'
<1>1. /\ UNCHANGED <<inbox, buf, output, len, offset, valid, open, reading, queue, on, wire, owed, script, due>>
      /\ ops[t] # <<>> /\ Head(ops[t])[1] = "load"
  BY DEF Load, peer, client, At
<1>2. PICK c \in Clients : c = on[t]
  BY DEF Accounts, CellTypes
<1>3. PICK l \in Seq(Steps) : l = ops[t] /\ Complete(l) /\ l # <<>> /\ Head(l)[1] = "load"
  BY <1>1 DEF Accounts, CellTypes, ListsComplete
<1>4. Head(l) # <<"store">> /\ Head(l) # <<"read">>
  BY <1>3
<1>5. IsList(Tail(l), Reads(l), Stores(l))
  BY <1>3, <1>4, ListTail DEF IsList
<1>6. Tail(l) # <<>> /\ Head(Tail(l)) = <<"store">> /\ Tail(l) \in Seq(Steps)
  <2>1. Head(l) = l[1] /\ 1 \in 1..Len(l) /\ Len(l) \in Nat
    BY <1>3
  <2>2. 1 < Len(l) /\ l[1 + 1] = <<"store">>
    BY <1>3, <2>1 DEF Complete
  <2>3. /\ Tail(l) \in Seq(Steps) /\ Len(Tail(l)) = Len(l) - 1
        /\ \A i \in 1..Len(Tail(l)) : Tail(l)[i] = l[i + 1]
    BY <1>3
  <2>4. PICK k \in Seq(Steps) : k = Tail(l)
    BY <2>3, Zenon
  <2>5. Len(k) >= 1 /\ k[1] = <<"store">>
    <3>1. Len(k) >= 1 /\ 1 \in 1..Len(k)
      BY <2>1, <2>2, <2>3, <2>4
    <3> QED  BY <2>2, <2>3, <2>4, <3>1
  <2>6. k # <<>> /\ Head(k) = <<"store">>
    BY <2>5
  <2> QED  BY <2>4, <2>6
<1>7. Stores(l) >= 1
  <2>1. \A S : Count(Tail(l), S) = (IF Head(Tail(l)) \in S THEN 1 ELSE 0) + Count(Tail(Tail(l)), S)
    BY <1>6, CountTail, Zenon
  <2>2. Tail(Tail(l)) \in Seq(Steps)
    BY <1>6
  <2>3. Count(Tail(Tail(l)), {<<"store">>}) \in Nat
    <3>1. \A s \in Seq(Steps) : \A S : Count(s, S) \in Nat
      BY CountType
    <3> QED  BY <2>2, <3>1, Zenon
  <2>4. Stores(Tail(l)) = 1 + Count(Tail(Tail(l)), {<<"store">>})
    BY <1>6, <2>1 DEF Stores
  <2>5. Stores(l) = Stores(Tail(l))
    BY <1>5 DEF IsList
  <2> QED  BY <2>3, <2>4, <2>5
<1>8. ops' = [ops EXCEPT ![t] = Tail(l)]
  BY <1>3 DEF Load, Done, Accounts, CellTypes
<1>9. MovesTo(t, c, Tail(l))
  BY <1>1, <1>2, <1>8 DEF MovesTo, Accounts, CellTypes
<1>10. IsList(Tail(l), Reads(ops[t]), Stores(ops[t]))
  BY <1>3, <1>5
<1>11. /\ ops' \in [Threads -> Seq(Steps)] /\ on' \in [Threads -> Clients] /\ ListsComplete'
       /\ Reads(ops[t]) \in Nat /\ Stores(ops[t]) \in Nat
       /\ \A d \in Clients :
            /\ PollReads(d)' = PollReads(d)
                 + (IF t = "poll" /\ c = d THEN Reads(ops[t]) - Reads(ops[t]) ELSE 0)
            /\ ToStore(d)' = ToStore(d) + (IF c = d THEN Stores(ops[t]) - Stores(ops[t]) ELSE 0)
  BY <1>9, <1>10, MoveSums
<1>12. len[c] \in Nat /\ len[c] \in Int /\ Fits(c, len[c])
  BY DEF Accounts, CellTypes, RoomOK
<1>13. ToStore(c) >= 1
  <2>1. StoresOf("poll", c) \in Nat /\ StoresOf("handler", c) \in Nat
    BY SumTypes DEF Accounts, Threads
  <2>2. StoresOf(t, c) >= 1
    BY <1>2, <1>3, <1>7 DEF StoresOf
  <2> QED  BY <2>1, <2>2 DEF ToStore, Threads
<1>14. len[c] + 1 \in Cells
  <2>1. len[c] + 1 <= Bound
    BY <1>12, <1>13, LenFits
  <2> QED  BY <1>12, <2>1, Constants
<1>15. reg \in [Threads -> CellLocals] /\ reg[t] \in CellLocals /\ reg[t].sent <= reg[t].off
       /\ reg[t].off + reg[t].n <= Bound
  BY DEF Accounts, CellTypes, LocalsOK
<1>16. PICK f : reg' = [reg EXCEPT ![t] = f] /\ f = [reg[t] EXCEPT !.tmp = len[c] + 1]
  BY <1>2, <1>15 DEF Load
<1>17. f = [tmp |-> len[c] + 1, off |-> reg[t].off, size |-> reg[t].size, sent |-> reg[t].sent,
            n |-> reg[t].n]
  BY <1>15, <1>16 DEF CellLocals
<1>18. f \in CellLocals /\ f.sent <= f.off /\ f.off + f.n <= Bound
  BY <1>14, <1>15, <1>17 DEF CellLocals
<1>19. /\ reg' \in [Threads -> CellLocals] /\ LocalsOK'
       /\ reg'[t] = f /\ \A u \in Threads \ {t} : reg'[u] = reg[u]
  BY <1>16, <1>18, LocalsStay
<1>20. CellTypes' /\ WiresOK'
  BY <1>1, <1>11, <1>19 DEF Accounts, CellTypes, WiresOK
<1>21. ASSUME NEW d \in Clients PROVE Ahead(d)' = Ahead(d) /\ ToStore(d)' = ToStore(d)
  <2>1. PollReads(d) \in Nat /\ ToStore(d) \in Nat
    BY SumTypes DEF Accounts
  <2>2. PollReads(d)' = PollReads(d) /\ ToStore(d)' = ToStore(d)
    BY <1>11, <2>1
  <2> QED  BY <1>1, <2>2 DEF Ahead, Pending
<1>22. ASSUME NEW u \in Threads, reg'[u].tmp # 0
       PROVE  At(u, "store")' /\ Fits(on'[u], reg'[u].tmp - 1)
  <2>1. CASE u = t
    <3>1. reg'[u].tmp = len[c] + 1 /\ (len[c] + 1) - 1 = len[c] /\ on'[u] = c
      BY <1>1, <1>2, <1>12, <1>17, <1>19, <2>1
    <3>2. ops'[u] = Tail(l)
      BY <1>8, <2>1 DEF Accounts, CellTypes
    <3>3. At(u, "store")'
      BY <1>6, <3>2 DEF At
    <3> QED  BY <1>12, <3>1, <3>3
  <2>2. CASE u # t
    <3>1. reg'[u] = reg[u] /\ ops'[u] = ops[u] /\ on'[u] = on[u]
      BY <1>1, <1>8, <1>19, <2>2 DEF Accounts, CellTypes
    <3>2. At(u, "store") /\ Fits(on[u], reg[u].tmp - 1)
      BY <1>22, <3>1 DEF Accounts, RoomOK
    <3> QED  BY <3>1, <3>2 DEF At
  <2> QED  BY <2>1, <2>2
<1> QED  BY <1>1, <1>11, <1>19, <1>20, <1>21, <1>22, NothingProduced, Balance

LEMMA SetLenCounts ==
  ASSUME Accounts, NEW t \in Threads, SetLen(t)
  PROVE  Accounts'
<1>1. /\ UNCHANGED <<inbox, buf, output, offset, valid, open, reading, queue, on, wire, owed, script, due>>
      /\ ops[t] # <<>> /\ Head(ops[t])[1] \in {"store", "zero"}
      /\ reg' = [reg EXCEPT ![t] = NoLocals]
  BY DEF SetLen, peer, At
<1>2. PICK c \in Clients : c = on[t]
  BY DEF Accounts, CellTypes
<1>3. PICK l \in Seq(Steps) : l = ops[t] /\ Complete(l) /\ l # <<>>
                              /\ Head(l)[1] \in {"store", "zero"} /\ Head(l) \in Steps
  <2>1. PICK l \in Seq(Steps) : l = ops[t] /\ Complete(l)
    BY DEF Accounts, CellTypes, ListsComplete
  <2>2. Head(l) \in Steps
    BY <1>1, <2>1
  <2> QED  BY <1>1, <2>1, <2>2
<1>4. PICK r \in Nat, n \in Nat, k \in {0, 1} :
        /\ r = Reads(l) /\ n = Stores(Tail(l)) /\ Stores(l) = n + k /\ IsList(Tail(l), r, n)
        /\ k = 1 <=> Head(l)[1] = "store"
  <2>1. Head(l) # <<"read">>
    BY <1>3
  <2>2. Head(l) = <<"store">> <=> Head(l)[1] = "store"
    BY <1>3, StepsAre
  <2>3. Reads(l) = Reads(Tail(l)) /\ Reads(Tail(l)) \in Nat /\ Stores(Tail(l)) \in Nat
    BY <1>3, <2>1, ListTail
  <2>4. Stores(l) = (IF Head(l) = <<"store">> THEN 1 ELSE 0) + Stores(Tail(l))
    BY <1>3, ListTail
  <2>5. IsList(Tail(l), Reads(l), Stores(Tail(l)))
    BY <1>3, <2>3, ListTail DEF IsList
  <2>6. CASE Head(l)[1] = "store"
    BY <2>2, <2>3, <2>4, <2>5, <2>6
  <2>7. CASE Head(l)[1] # "store"
    BY <2>2, <2>3, <2>4, <2>5, <2>7
  <2> QED  BY <2>6, <2>7
<1>5. ops' = [ops EXCEPT ![t] = Tail(l)]
  BY <1>3 DEF SetLen, Done, Accounts, CellTypes
<1>6. MovesTo(t, c, Tail(l))
  BY <1>1, <1>2, <1>5 DEF MovesTo, Accounts, CellTypes
<1>7. /\ ops' \in [Threads -> Seq(Steps)] /\ on' \in [Threads -> Clients] /\ ListsComplete'
      /\ \A d \in Clients :
           /\ PollReads(d)' = PollReads(d)
                + (IF t = "poll" /\ c = d THEN r - Reads(ops[t]) ELSE 0)
           /\ ToStore(d)' = ToStore(d) + (IF c = d THEN n - Stores(ops[t]) ELSE 0)
  BY <1>4, <1>6, MoveSums
<1>8. reg \in [Threads -> CellLocals] /\ reg[t] \in CellLocals /\ reg[t].tmp \in Nat
  <2>1. reg \in [Threads -> CellLocals]
    BY DEF Accounts, CellTypes
  <2>2. reg[t] \in CellLocals
    BY <2>1
  <2> QED  BY <2>1, <2>2, Constants DEF CellLocals
<1>9. /\ reg' \in [Threads -> CellLocals] /\ LocalsOK'
      /\ reg'[t] = NoLocals /\ NoLocals.tmp = 0 /\ \A u \in Threads \ {t} : reg'[u] = reg[u]
  <2>1. /\ NoLocals \in CellLocals /\ NoLocals.sent = 0 /\ NoLocals.off = 0 /\ NoLocals.n = 0
        /\ NoLocals.tmp = 0
    BY Constants DEF NoLocals, CellLocals
  <2>2. NoLocals.sent <= NoLocals.off /\ NoLocals.off + NoLocals.n <= Bound
    BY <2>1, Constants
  <2> QED  BY <1>1, <2>1, <2>2, LocalsStay
<1>10. PICK m \in Nat, i \in Int :
         len' = [len EXCEPT ![c] = m] /\ Fits(c, i) /\ m + n <= i + (n + k)
  <2>1. len[c] \in Nat /\ len[c] \in Int /\ 0 \in Nat /\ Fits(c, len[c])
    BY DEF Accounts, CellTypes, RoomOK
  <2>2. CASE At(t, "store") /\ len' = [len EXCEPT ![on[t]] = reg[t].tmp]
    <3>1. k = 1
      BY <1>3, <1>4, <2>2 DEF At
    <3>2. CASE reg[t].tmp = 0
      <4>1. len' = [len EXCEPT ![c] = 0] /\ 0 + n <= len[c] + (n + k)
        BY <1>2, <2>1, <2>2, <3>1, <3>2
      <4> QED  BY <2>1, <4>1, Zenon
    <3>3. CASE reg[t].tmp # 0
      <4>1. Fits(c, reg[t].tmp - 1)
        BY <1>2, <3>3 DEF Accounts, RoomOK
      <4>2. reg[t].tmp - 1 \in Int /\ reg[t].tmp + n <= (reg[t].tmp - 1) + (n + k)
        BY <1>8, <3>1
      <4>3. len' = [len EXCEPT ![c] = reg[t].tmp]
        BY <1>2, <2>2
      <4> QED  BY <1>8, <4>1, <4>2, <4>3
    <3> QED  BY <3>2, <3>3
  <2>3. CASE At(t, "zero") /\ len' = [len EXCEPT ![on[t]] = 0]
    <3>1. len' = [len EXCEPT ![c] = 0] /\ 0 + n <= len[c] + (n + k)
      BY <1>2, <2>1, <2>3
    <3> QED  BY <2>1, <3>1, Zenon
  <2> QED  BY <2>2, <2>3 DEF SetLen
<1>11. CellTypes' /\ WiresOK'
  <2>1. len' \in [Clients -> Nat]
    BY <1>10 DEF Accounts, CellTypes
  <2> QED  BY <1>1, <1>7, <1>9, <2>1 DEF Accounts, CellTypes, WiresOK
<1>12. ASSUME NEW d \in Clients
       PROVE  \E e \in {0, 1} :
                /\ ProducesFor(d, e)
                /\ \E j \in Int : Fits(d, j) /\ len'[d] + ToStore(d)' <= j + ToStore(d) + e * Space
  <2>1. /\ PollReads(d) \in Nat /\ ToStore(d) \in Nat /\ Ahead(d) \in Nat
        /\ Count(owed[d], Replies) \in Nat
    BY SumTypes DEF Accounts
  <2>2. Ahead(d)' = Ahead(d)
    <3>1. PollReads(d)' = PollReads(d)
      BY <1>3, <1>4, <1>7, <2>1
    <3> QED  BY <1>1, <3>1 DEF Ahead, Pending
  <2>3. CASE d = c
    <3>1. ToStore(d)' = ToStore(d) + (n - (n + k))
      BY <1>3, <1>4, <1>7, <2>3
    <3>2. len'[d] = m
      BY <1>10, <2>3 DEF Accounts, CellTypes
    <3>3. PICK a \in Nat : a = Space
      BY Constants
    <3>4. Fits(d, i) /\ len'[d] + ToStore(d)' <= i + ToStore(d) + 0 * Space
      BY <1>10, <2>1, <2>3, <3>1, <3>2, <3>3
    <3>5. ProducesFor(d, 0)
      BY <1>1, <2>1, <2>2, <3>1, <3>3 DEF ProducesFor
    <3> QED  BY <3>4, <3>5
  <2>4. CASE d # c
    <3>1. ToStore(d)' = ToStore(d) /\ len'[d] = len[d]
      BY <1>7, <1>10, <2>1, <2>4 DEF Accounts, CellTypes
    <3> QED  BY <1>1, <2>2, <3>1, NothingProduced
  <2> QED  BY <2>3, <2>4
<1>13. ASSUME NEW u \in Threads, reg'[u].tmp # 0
       PROVE  At(u, "store")' /\ Fits(on'[u], reg'[u].tmp - 1)
  <2>1. u # t
    BY <1>9, <1>13
  <2>2. reg'[u] = reg[u] /\ ops'[u] = ops[u] /\ on'[u] = on[u]
    BY <1>1, <1>5, <1>9, <2>1 DEF Accounts, CellTypes
  <2>3. At(u, "store") /\ Fits(on[u], reg[u].tmp - 1)
    BY <1>13, <2>2 DEF Accounts, RoomOK
  <2> QED  BY <2>2, <2>3 DEF At
<1> QED  BY <1>7, <1>9, <1>11, <1>12, <1>13, Balance

-----------------------------------------------------------------------------
(* The theorems *)

LEMMA InvInit == Init => Accounts
<1> SUFFICES ASSUME Init PROVE Accounts
  OBVIOUS
<1>1. PICK k : k \in Clients /\ on = [t \in Threads |-> k]
  <2>1. (CHOOSE c \in Clients : TRUE) \in Clients
    BY ReplyPathAssumption
  <2> QED  BY <2>1 DEF Init
<1>2. \A c \in Clients : script[c] \in Seq(Commands) /\ Len(script[c]) <= MaxScript
  BY ReplyPathAssumption DEF Init
<1>3. 0 \in Cells /\ NoLocals \in CellLocals /\ NoLocals.tmp = 0 /\ NoLocals.sent = 0 /\ NoLocals.off = 0
      /\ NoLocals.n = 0
  BY Constants DEF NoLocals, CellLocals
<1>4. CellTypes
  <2>1. script \in [Clients -> Seq(Commands)]
    BY <1>2 DEF Init
  <2>2. "junk" \in Symbols
    BY DEF Symbols
  <2> QED  BY <1>1, <1>3, <2>1, <2>2 DEF Init, CellTypes
<1>5. WiresOK /\ ListsComplete /\ LocalsOK
  BY <1>3, Constants DEF Init, WiresOK, ListsComplete, LocalsOK, Complete
<1>6. ASSUME NEW c \in Clients
      PROVE  /\ due[c] = 0 /\ len[c] = 0 /\ ToStore(c) = 0
             /\ Ahead(c) = RepliesToAll(script[c]) /\ Count(owed[c], Replies) = 0
             /\ RepliesToAll(script[c]) \in 0..Most
  <2>1. due[c] = 0 /\ len[c] = 0 /\ reading[c] = 0 /\ inbox[c] = <<>> /\ buf[c] = <<>>
        /\ owed[c] = <<>> /\ queue = <<>> /\ \A t \in Threads : ops[t] = <<>>
    BY DEF Init
  <2>2. Count(owed[c], Replies) = 0 /\ Pending(c) = 0
    BY <2>1, CountEmpty DEF Pending
  <2>3. \A t \in Threads : Reads(ops[t]) = 0 /\ Stores(ops[t]) = 0
    BY <2>1, CountEmpty DEF Reads, Stores
  <2>4. PollReads(c) = 0 /\ ToStore(c) = 0
    BY <2>3 DEF PollReads, ToStore, StoresOf, Threads
  <2>5. RepliesToAll(inbox[c]) = 0 /\ RepliesToAll(buf[c]) = 0
    BY <2>1, RepliesEmpty
  <2>6. RepliesToAll(script[c]) \in Nat /\ RepliesToAll(script[c]) <= Len(script[c]) * (MgetKeys + 1)
    BY <1>2, RepliesType
  <2>7. Ahead(c) = RepliesToAll(script[c])
    BY <2>1, <2>2, <2>4, <2>5, <2>6 DEF Ahead
  <2>8. RepliesToAll(script[c]) <= Most
    <3>1. PICK a \in Nat, b \in Nat, m \in Nat :
            a = Len(script[c]) /\ b = MaxScript /\ m = MgetKeys + 1 /\ a <= b
      BY <1>2, Constants
    <3>2. a * m <= b * m /\ Most = b * m
      BY <3>1 DEF Most
    <3> QED  BY <2>6, <3>1, <3>2
  <2> QED  BY <2>1, <2>2, <2>4, <2>6, <2>7, <2>8, Constants
<1>7. AccountOK
  BY <1>6, Constants DEF AccountOK
<1>8. RoomOK
  <2>1. ASSUME NEW c \in Clients PROVE Fits(c, len[c])
    <3>1. PICK a \in Nat, b \in Nat, k2 \in Nat : a = Ahead(c) /\ b = Most /\ k2 = Space /\ a <= b
      BY <1>6, Constants
    <3>2. k2 * a \in Nat /\ k2 * a <= b * k2
      BY <3>1
    <3> QED  BY <1>6, <3>1, <3>2 DEF Fits, Bound
  <2>2. \A t \in Threads : reg[t].tmp = 0
    BY <1>3 DEF Init
  <2> QED  BY <2>1, <2>2 DEF RoomOK
<1> QED  BY <1>4, <1>5, <1>7, <1>8 DEF Accounts

LEMMA InvNext == Accounts /\ [Next]_vars => Accounts'
<1> SUFFICES ASSUME Accounts, [Next]_vars PROVE Accounts'
  OBVIOUS
<1>1. CASE Next
  <2>1. CASE \E c \in Clients : SendCommand(c)
    BY <2>1, SendCommandCounts
  <2>2. CASE \E c \in Clients : ReadReply(c) \/ \E found \in BOOLEAN : EngineFinishes(c, found)
    BY <2>2, ReadReplyCounts, EngineFinishesCounts
  <2>3. CASE PollThread
    BY <2>3, OnReadCounts, ExecNoneCounts, ExecSetCounts, ExecGetCounts, ExecMgetCounts, MakeReadCounts,
       ExecEchoCounts, ExecErrorCounts, ExecProtocolErrorCounts, ExecKeysCounts, ExecQuitCounts,
       TestValidCounts, CloseCounts DEF PollThread
  <2>4. CASE HandlerDequeues
    BY <2>4, HandlerDequeuesCounts
  <2>5. CASE \E t \in Threads : Either(t)
    BY <2>5, CopyCounts, LoadCounts, SetLenCounts, SetOffsetCounts, SetValidCounts, TestLenCounts,
       CallWriteCounts, WriteCellCounts DEF Either
  <2> QED  BY <1>1, <2>1, <2>2, <2>3, <2>4, <2>5 DEF Next
<1>2. CASE UNCHANGED vars
  <2>1. UNCHANGED <<inbox, buf, output, len, offset, valid, open, reading, queue, ops, on, reg, wire, owed,
                    script, due>>
    BY <1>2 DEF vars
  <2>2. CellTypes' /\ WiresOK'
    BY <2>1 DEF Accounts, CellTypes, WiresOK
  <2>3. ASSUME NEW c \in Clients PROVE Ahead(c)' = Ahead(c) /\ ToStore(c)' = ToStore(c)
    BY <2>1, ThreadsRest DEF Ahead, Pending
  <2> QED  BY <2>1, <2>2, <2>3, NothingProduced, ThreadsRest, Balance
<1> QED  BY <1>1, <1>2

LEMMA InvAlways == Spec => []Accounts
  BY InvInit, InvNext, PTL DEF Spec

LEMMA DueIs ==
  ASSUME Accounts, NEW c \in Clients
  PROVE  /\ due[c] = RepliesToAll(inbox[c]) + RepliesToAll(buf[c]) + reading[c]
                      + PollReads(c) + Pending(c) + Count(owed[c], Replies)
         /\ reading[c] + Pending(c) <= due[c] /\ due[c] <= Most /\ reading[c] \in 0..Most
<1>1. /\ due[c] + RepliesToAll(script[c]) = Ahead(c) + Count(owed[c], Replies)
      /\ due[c] + RepliesToAll(script[c]) <= Most
  BY DEF Accounts, AccountOK
<1>2. PICK s \in Nat, i \in Nat, b \in Nat, r \in Nat, p \in Nat, q \in Nat, d \in Nat, o \in Nat :
        /\ s = RepliesToAll(script[c]) /\ i = RepliesToAll(inbox[c]) /\ b = RepliesToAll(buf[c])
        /\ r = reading[c] /\ p = PollReads(c) /\ q = Pending(c) /\ d = due[c]
        /\ o = Count(owed[c], Replies)
  BY SumTypes, Zenon DEF Accounts
<1>3. PICK m \in Nat : m = Most
  BY Constants
<1>4. d + s = (s + i + b + r + p + q) + o /\ d + s <= m
  BY <1>1, <1>2, <1>3 DEF Ahead
<1>5. d = i + b + r + p + q + o /\ r + q <= d /\ d <= m /\ r \in 0..m
  BY <1>4
<1> QED  BY <1>2, <1>3, <1>5, Zenon

(* Whatever the peers send, mixed batches too: every index into a buffer   *)
(* is inside it, no more reads are out than replies are due, and nothing   *)
(* is put into a socket buffer that is full.                               *)
THEOREM ReplyTypes == Spec => []TypeOK
<1>1. Accounts => TypeOK
  <2> SUFFICES ASSUME Accounts PROVE TypeOK
    OBVIOUS
  <2>1. ASSUME NEW c \in Clients
        PROVE  /\ reading[c] + Pending(c) <= due[c] /\ due[c] <= Most
               /\ reading[c] \in 0..Most /\ len[c] \in Cells
    <3>1. reading[c] + Pending(c) <= due[c] /\ due[c] <= Most /\ reading[c] \in 0..Most
      BY DueIs
    <3>2. len[c] \in Nat /\ len[c] \in Int /\ Fits(c, len[c])
      BY DEF Accounts, CellTypes, RoomOK
    <3>3. len[c] <= Bound
      BY <3>2, LenFits
    <3> QED  BY <3>1, <3>2, <3>3, Constants
  <2>2. len \in [Clients -> Cells] /\ reading \in [Clients -> 0..Most]
    BY <2>1 DEF Accounts, CellTypes
  <2>3. \A c \in Clients : Len(wire[c]) <= SockBuf
    BY DEF Accounts, WiresOK
  <2> QED  BY <2>1, <2>2, <2>3 DEF Accounts, CellTypes, TypeOK, Symbols, CellLocals
<1> QED  BY <1>1, InvAlways, PTL

(* Whatever the peers send and however the threads interleave on a client's *)
(* buffer, each reply that is due is in exactly one place.                  *)
THEOREM RepliesAccounted == Spec => []CommandsAccounted
<1>1. Accounts => CommandsAccounted
  <2> SUFFICES ASSUME Accounts, NEW c \in Clients
               PROVE  due[c] = RepliesToAll(inbox[c]) + RepliesToAll(buf[c]) + reading[c]
                               + PollReads(c) + Pending(c) + Count(owed[c], Replies)
    BY DEF CommandsAccounted, PollReads, Reads
  <2> QED  BY DueIs
<1> QED  BY <1>1, InvAlways, PTL

=============================================================================
