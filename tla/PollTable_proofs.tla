---------------------------- MODULE PollTable_proofs ----------------------------
(***************************************************************************)
(* Proofs about PollTable and MultiServer, for every set of connections:   *)
(* fds[] and clients[] stay in step, on_read is called for live clients    *)
(* with something to read, and the closed entries that the compression     *)
(* leaves behind do not pile up.                                           *)
(***************************************************************************)
EXTENDS MultiServer, FiniteSetTheorems, TLAPS

-----------------------------------------------------------------------------
(* The inductive invariant *)

(* TableOK with its count of the entries of a connection taken apart: no   *)
(* connection has two entries, and every open one has an entry.            *)
SlotsOK ==
  /\ fd[0] = Listener
  /\ \A k \in 1..(nfds - 1) : fd[k] # Gone => fd[k] \in open /\ client[k] = fd[k]
  /\ \A k, m \in 1..(nfds - 1) : fd[k] # Gone /\ fd[k] = fd[m] => k = m
  /\ \A x \in open : \E k \in 1..(nfds - 1) : fd[k] = x

(* In the loop over the entries: what poll() has reported about those that *)
(* are still to come holds, only the listener is accepted from, and it     *)
(* comes before every connection that the round may close.                 *)
RoundOK ==
  /\ pc \in {"scan", "accept", "serve"} =>
       /\ i < currentSize /\ currentSize <= nfds
       /\ \A k \in i..(currentSize - 1) :
             k # 0 /\ revents[k] => fd[k] \in data \cup eof
  /\ pc = "serve" => i # 0 /\ revents[i]
  /\ pc = "accept" => i = 0
  /\ pc = "poll" \/ (pc \in {"scan", "accept"} /\ i = 0) => ~compress

(* The closed entries of the table, and those that the compression has     *)
(* passed and will leave behind.                                           *)
Holes == {k \in 0..(nfds - 1) : fd[k] = Gone}
Passed == {k \in Holes : k < i}

(* A compression removes one closed entry for each that it leaves.  Before *)
(* it there are fewer than 2N of them, N the number of connections, as the *)
(* table has at most 2N entries and one is the listener; so fewer than N   *)
(* are left, and with N more entries the next round stays within 2N.       *)
CountOK ==
  /\ TableStaysSmall
  /\ ~compress => Cardinality(Holes) < Cardinality(Connections)
  /\ pc = "compress" /\ compress =>
       Cardinality(Holes) + Cardinality(Passed) < 2 * Cardinality(Connections)

Inv == TypeOK /\ SlotsOK /\ RoundOK /\ CountOK

-----------------------------------------------------------------------------
(* Lemmas *)

LEMMA Constants ==
  /\ Cardinality(Connections) \in Nat \ {0}
  /\ Entries \in Nat /\ Entries = 2 * Cardinality(Connections) + 2
  /\ Index = 0..Entries
  /\ Listener \notin Connections /\ Gone \notin Connections /\ Listener # Gone
<1>1. Cardinality(Connections) \in Nat /\ Cardinality(Connections) # 0
  BY PollTableAssumption, FS_CardinalityType, FS_EmptySet
<1> QED  BY <1>1, PollTableAssumption DEF Entries, Index

(* The closed entries of a table f of n entries, the first of them open,   *)
(* are fewer than its entries.                                             *)
LEMMA FewHoles ==
  ASSUME NEW f, NEW n \in Nat \ {0}, f[0] # Gone
  PROVE  LET H == {k \in 0..(n - 1) : f[k] = Gone}
         IN  /\ IsFiniteSet(H)
             /\ Cardinality(H) \in Nat
             /\ Cardinality(H) < n
<1> DEFINE H == {k \in 0..(n - 1) : f[k] = Gone}
<1>1. IsFiniteSet(1..(n - 1)) /\ Cardinality(1..(n - 1)) = n - 1
  BY FS_Interval, 1 \in Int, n - 1 \in Int
<1>2. H \in SUBSET (1..(n - 1))
  OBVIOUS
<1>3. IsFiniteSet(H) /\ Cardinality(H) <= n - 1
  <2> HIDE DEF H
  <2> QED  BY <1>1, <1>2, FS_Subset
<1>4. Cardinality(H) \in Nat
  <2> HIDE DEF H
  <2> QED  BY <1>3, FS_CardinalityType
<1> QED  BY <1>3, <1>4

LEMMA HolesFinite ==
  ASSUME Inv
  PROVE  /\ IsFiniteSet(Holes) /\ Cardinality(Holes) \in Nat /\ Cardinality(Holes) < nfds
         /\ IsFiniteSet(Passed) /\ Cardinality(Passed) \in Nat
<1>1. nfds \in Nat \ {0} /\ fd[0] # Gone
  BY Constants DEF Inv, TypeOK, SlotsOK
<1>2. IsFiniteSet(Holes) /\ Cardinality(Holes) \in Nat /\ Cardinality(Holes) < nfds
  BY <1>1, FewHoles DEF Holes
<1>3. Passed \in SUBSET Holes
  BY DEF Passed
<1>4. IsFiniteSet(Passed)
  BY <1>2, <1>3, FS_Subset
<1> QED  BY <1>2, <1>4, FS_CardinalityType

(* What poll() has reported about the entries to come, after an entry of a *)
(* round.                                                                  *)
LEMMA NextEntryRound ==
  ASSUME Inv, pc \in {"scan", "accept", "serve"}, NextEntry,
         UNCHANGED <<nfds, revents, currentSize>>,
         \A k \in (i + 1)..(currentSize - 1) : revents[k] => fd'[k] \in data' \cup eof'
  PROVE  RoundOK'
<1>1. CASE i + 1 < currentSize
  <2>1. i' = i + 1 /\ pc' = "scan"
    BY <1>1 DEF NextEntry
  <2> QED  BY <1>1, <2>1, Constants DEF Inv, TypeOK, RoundOK
<1>2. CASE ~(i + 1 < currentSize)
  <2>1. pc' = "compress"
    BY <1>2 DEF NextEntry
  <2> QED  BY <2>1 DEF RoundOK
<1> QED  BY <1>1, <1>2

(* The counts after an entry of a round, once compress_array and the table *)
(* are what they will be: the compression starts with nothing passed.      *)
LEMMA NextEntryCount ==
  ASSUME Inv, NextEntry, nfds' = nfds, fd' \in [Index -> Connections \cup {Listener, Gone}],
         fd'[0] = Listener, ~compress' => Cardinality(Holes') < Cardinality(Connections)
  PROVE  CountOK'
<1>1. nfds' \in Nat \ {0} /\ fd'[0] # Gone
  BY Constants DEF Inv, TypeOK
<1>2. Cardinality(Holes') \in Nat /\ Cardinality(Holes') < nfds'
  BY <1>1, FewHoles DEF Holes
<1>3. TableStaysSmall'
  BY DEF Inv, CountOK, TableStaysSmall
<1>4. ASSUME pc' = "compress" PROVE Cardinality(Passed') = 0
  <2>1. i' = 0
    BY <1>4 DEF NextEntry
  <2>2. Passed' = {}
    BY <2>1 DEF Passed, Holes
  <2> QED  BY <2>2, FS_EmptySet
<1>5. pc' = "compress" => Cardinality(Holes') + Cardinality(Passed') < 2 * Cardinality(Connections)
  BY <1>1, <1>2, <1>3, <1>4, Constants DEF TableStaysSmall
<1> QED  BY <1>3, <1>5 DEF CountOK

-----------------------------------------------------------------------------
(* Each action preserves the invariant. *)

LEMMA InvInit == Init => Inv
<1> SUFFICES ASSUME Init PROVE Inv
  OBVIOUS
<1>1. TypeOK
  <2>1. /\ fd \in [Index -> Connections \cup {Listener, Gone}]
        /\ client \in [Index -> Connections \cup {Null}]
        /\ nfds \in 1..Entries /\ i \in Index /\ currentSize \in Index
    BY Constants DEF Init
  <2>2. revents \in [Index -> BOOLEAN] /\ {isListen, compress, endServer} \subseteq BOOLEAN
    BY Zenon DEF Init
  <2> QED  BY <2>1, <2>2 DEF Init, TypeOK
<1>2. SlotsOK
  BY Constants DEF Init, SlotsOK
<1>3. RoundOK
  BY DEF Init, RoundOK
<1>4. Cardinality(Holes) = 0
  <2>1. Holes = {}
    BY Constants DEF Init, Holes
  <2> QED  BY <2>1, FS_EmptySet
<1>5. CountOK
  BY <1>4, Constants DEF Init, CountOK, TableStaysSmall
<1> QED  BY <1>1, <1>2, <1>3, <1>5 DEF Inv

LEMMA PeersStep ==
  ASSUME Inv, Peers
  PROVE  Inv'
<1> PICK x \in Connections : Connect(x) \/ Send(x) \/ HangUp(x)
  BY DEF Peers
<1>1. /\ UNCHANGED <<fd, client, nfds, revents, i, currentSize, isListen, compress,
                     endServer, pc, open>>
      /\ data \subseteq data' /\ eof \subseteq eof'
  BY DEF Connect, Send, HangUp, table, control
<1>2. TypeOK'
  BY <1>1 DEF Inv, TypeOK, Connect, Send, HangUp
<1>3. SlotsOK'
  BY <1>1 DEF Inv, SlotsOK
<1>4. RoundOK'
  BY <1>1 DEF Inv, RoundOK
<1>5. CountOK'
  BY <1>1 DEF Inv, CountOK, TableStaysSmall, Passed, Holes
<1> QED  BY <1>2, <1>3, <1>4, <1>5 DEF Inv

LEMMA PollStep ==
  ASSUME Inv, Poll
  PROVE  Inv'
<1>1. TypeOK'
  <2>1. \A k \in Index : IF k < nfds THEN Readable(fd[k]) \in BOOLEAN
                         ELSE revents[k] \in BOOLEAN
    <3>1. \A k \in Index : revents[k] \in BOOLEAN
      BY DEF Inv, TypeOK
    <3>2. \A f : Readable(f) \in BOOLEAN
      BY DEF Readable
    <3> QED  BY <3>1, <3>2
  <2>2. revents' \in [Index -> BOOLEAN]
    BY <2>1, Zenon DEF Poll
  <2>3. {isListen', compress', endServer'} \subseteq BOOLEAN
    BY Zenon DEF Inv, TypeOK, Poll
  <2>4. nfds' \in 1..Entries /\ i' \in Index /\ currentSize' \in Index
    BY Constants DEF Inv, TypeOK, Poll, table
  <2> QED  BY <2>2, <2>3, <2>4 DEF Inv, TypeOK, Poll, table, sockets
<1>2. SlotsOK'
  BY DEF Inv, SlotsOK, Poll, table, sockets
<1>3. RoundOK'
  <2>1. ASSUME NEW k \in 0..(nfds - 1), k # 0, revents'[k]
        PROVE  fd[k] \in data \cup eof
    <3>1. k \in Index /\ k \in 1..(nfds - 1)
      BY <2>1, Constants DEF Inv, TypeOK
    <3>2. fd[k] # Listener
      BY <3>1, Constants DEF Inv, SlotsOK, TypeOK
    <3>3. k < nfds
      BY <3>1 DEF Inv, TypeOK
    <3>4. revents'[k] = Readable(fd[k])
      BY <3>1, <3>3, Zenon DEF Poll
    <3> QED  BY <2>1, <3>2, <3>4 DEF Readable
  <2> QED  BY <2>1 DEF Inv, TypeOK, RoundOK, Poll, table, sockets
<1>4. CountOK'
  BY DEF Inv, CountOK, TableStaysSmall, Holes, Poll, table
<1> QED  BY <1>1, <1>2, <1>3, <1>4 DEF Inv

(* PollFails and PollTimesOut *)
LEMMA PollEndsStep ==
  ASSUME Inv, pc' = "ended",
         UNCHANGED <<table, revents, i, currentSize, isListen, compress, endServer, sockets>>
  PROVE  Inv'
<1>1. TypeOK' /\ SlotsOK'
  BY DEF Inv, TypeOK, SlotsOK, table, sockets
<1>2. RoundOK'
  BY DEF RoundOK
<1>3. CountOK'
  BY DEF Inv, CountOK, TableStaysSmall, Holes, table
<1> QED  BY <1>1, <1>2, <1>3 DEF Inv

(* ScanSkip, AcceptDone, AcceptFails: an entry is done with, and nothing   *)
(* has happened to the table or to a socket.                               *)
LEMMA EntryDoneStep ==
  ASSUME Inv, pc \in {"scan", "accept"}, NextEntry, endServer' \in BOOLEAN,
         UNCHANGED <<table, revents, currentSize, isListen, compress, sockets>>
  PROVE  Inv'
<1>1. TypeOK'
  <2>1. i' \in Index
    BY Constants DEF Inv, TypeOK, NextEntry
  <2>2. pc' \in {"scan", "compress"}
    BY DEF NextEntry
  <2> QED  BY <2>1, <2>2 DEF Inv, TypeOK, table, sockets
<1>2. SlotsOK'
  BY DEF Inv, SlotsOK, table, sockets
<1>3. RoundOK'
  <2>1. \A k \in (i + 1)..(currentSize - 1) : revents[k] => fd[k] \in data \cup eof
    BY Constants DEF Inv, TypeOK, RoundOK
  <2> QED  BY <2>1, NextEntryRound DEF table, sockets
<1>4. CountOK'
  <2>1. Holes' = Holes
    BY DEF Holes, table
  <2> QED  BY <2>1, NextEntryCount DEF Inv, TypeOK, SlotsOK, CountOK, table
<1> QED  BY <1>1, <1>2, <1>3, <1>4 DEF Inv

(* ScanListener of both servers *)
LEMMA ListenerStep ==
  ASSUME Inv, pc = "scan", fd[i] = Listener, pc' = "accept", isListen' \in BOOLEAN,
         UNCHANGED <<table, revents, i, currentSize, compress, endServer, sockets>>
  PROVE  Inv'
<1>1. TypeOK' /\ SlotsOK'
  BY DEF Inv, TypeOK, SlotsOK, table, sockets
<1>2. i = 0
  <2> SUFFICES ASSUME i # 0 PROVE FALSE
    OBVIOUS
  <2>1. i \in 1..(nfds - 1)
    BY DEF Inv, TypeOK, RoundOK, Index
  <2> QED  BY <2>1, Constants DEF Inv, TypeOK, SlotsOK
<1>3. RoundOK'
  BY <1>2 DEF Inv, RoundOK, table, sockets
<1>4. CountOK'
  BY DEF Inv, CountOK, TableStaysSmall, Holes, table
<1> QED  BY <1>1, <1>3, <1>4 DEF Inv

(* ScanClient of both servers *)
LEMMA ClientStep ==
  ASSUME Inv, pc = "scan", revents[i], fd[i] # Listener, pc' = "serve",
         UNCHANGED <<table, revents, i, currentSize, isListen, compress, endServer, sockets>>
  PROVE  Inv'
<1>1. TypeOK' /\ SlotsOK'
  BY DEF Inv, TypeOK, SlotsOK, table, sockets
<1>2. RoundOK'
  BY DEF Inv, SlotsOK, RoundOK, table, sockets
<1>3. CountOK'
  BY DEF Inv, CountOK, TableStaysSmall, Holes, table
<1> QED  BY <1>1, <1>2, <1>3 DEF Inv

(* A connection that is accepted had no entry, so before it there were at  *)
(* most the listener, N - 1 connections and N - 1 closed entries.          *)
LEMMA AcceptRoom ==
  ASSUME Inv, ~compress, NEW x \in Connections \ open
  PROVE  nfds < 2 * Cardinality(Connections)
<1> DEFINE N == Cardinality(Connections)
           used == {k \in 1..(nfds - 1) : fd[k] # Gone}
<1>1. nfds \in Nat /\ nfds # 0 /\ N \in Nat
  BY Constants DEF Inv, TypeOK
<1>2. IsFiniteSet(open) /\ Cardinality(open) \in Nat /\ Cardinality(open) < N
  <2>1. open \in SUBSET (Connections \ {x})
    BY DEF Inv, TypeOK
  <2>2. IsFiniteSet(Connections \ {x}) /\ Cardinality(Connections \ {x}) = N - 1
    BY PollTableAssumption, FS_RemoveElement
  <2>3. IsFiniteSet(open) /\ Cardinality(open) <= N - 1
    BY <2>1, <2>2, FS_Subset
  <2>4. Cardinality(open) \in Nat
    BY <2>3, FS_CardinalityType
  <2> QED  BY <1>1, <2>3, <2>4
<1>3. IsFiniteSet(used) /\ Cardinality(used) <= Cardinality(open)
  <2> DEFINE entry == [k \in used |-> fd[k]]
  <2>1. entry \in Injection(used, open)
    BY DEF Injection, IsInjective, Inv, SlotsOK
  <2> HIDE DEF used, entry
  <2> QED  BY <1>2, <2>1, FS_Injection
<1>4. IsFiniteSet(Holes) /\ Cardinality(Holes) \in Nat /\ Cardinality(Holes) < N
  BY HolesFinite DEF Inv, CountOK
<1>5. 1..(nfds - 1) \in SUBSET (used \cup Holes)
  BY <1>1 DEF Holes
<1>6. Cardinality(1..(nfds - 1)) = nfds - 1
  BY <1>1, FS_Interval
<1> HIDE DEF used
<1>7. Cardinality(used) \in Nat
  BY <1>3, FS_CardinalityType
<1>8. /\ IsFiniteSet(used \cup Holes)
      /\ Cardinality(used \cup Holes) <= Cardinality(used) + Cardinality(Holes)
  <2>1. /\ IsFiniteSet(used \cup Holes)
        /\ Cardinality(used \cup Holes)
             = Cardinality(used) + Cardinality(Holes) - Cardinality(used \cap Holes)
    BY <1>3, <1>4, FS_Union
  <2>2. Cardinality(used \cap Holes) \in Nat
    BY <1>3, FS_Intersection, FS_CardinalityType
  <2> QED  BY <1>4, <1>7, <2>1, <2>2
<1>9. Cardinality(1..(nfds - 1)) <= Cardinality(used \cup Holes)
  BY <1>5, <1>8, FS_Subset
<1>10. Cardinality(used \cup Holes) \in Nat
  BY <1>8, FS_CardinalityType
<1> QED  BY <1>1, <1>2, <1>3, <1>4, <1>6, <1>7, <1>8, <1>9, <1>10

LEMMA AcceptStep ==
  ASSUME Inv, NEW x \in Connections, Accept(x)
  PROVE  Inv'
<1>1. x \in Connections \ open /\ ~compress /\ nfds \in Index /\ nfds # 0
  BY Constants DEF Inv, TypeOK, RoundOK, Accept
<1>2. TypeOK'
  BY <1>1, Constants DEF Inv, TypeOK, Accept, control
<1>3. SlotsOK'
  <2>1. \A k \in 0..(nfds - 1) : k \in Index /\ fd'[k] = fd[k] /\ client'[k] = client[k]
    BY <1>1, Constants DEF Inv, TypeOK, Accept
  <2>2. fd'[nfds] = x /\ client'[nfds] = x
    BY <1>1 DEF Inv, TypeOK, Accept
  <2>3. 1..(nfds' - 1) = (1..(nfds - 1)) \cup {nfds}
    BY <1>1, Constants DEF Accept
  <2>4. \A k \in 1..(nfds - 1) : fd'[k] # Gone => fd'[k] \in open /\ client'[k] = fd'[k]
    BY <1>1, <2>1 DEF Inv, SlotsOK
  <2>5. \A k, m \in 1..(nfds - 1) : fd'[k] # Gone /\ fd'[k] = fd'[m] => k = m
    BY <1>1, <2>1 DEF Inv, SlotsOK
  <2>6. fd'[0] = Listener
    BY <1>1, <2>1, Constants DEF Inv, SlotsOK
  <2>7. \A y \in open : \E k \in 1..(nfds - 1) : fd'[k] = y
    BY <1>1, <2>1 DEF Inv, SlotsOK
  <2>8. open' = open \cup {x}
    BY DEF Accept
  <2> QED  BY <1>1, <2>2, <2>3, <2>4, <2>5, <2>6, <2>7, <2>8 DEF SlotsOK
<1>4. RoundOK'
  BY <1>1, Constants DEF Inv, TypeOK, RoundOK, Accept, control
<1>5. CountOK'
  <2>1. Holes' = Holes
    BY <1>1, Constants DEF Inv, TypeOK, Holes, Accept
  <2>2. nfds' <= 2 * Cardinality(Connections)
    BY <1>1, AcceptRoom, Constants DEF Accept
  <2> QED  BY <1>1, <2>1, <2>2 DEF Inv, CountOK, TableStaysSmall, Accept, control
<1> QED  BY <1>2, <1>3, <1>4, <1>5 DEF Inv

(* The client that on_read is called for. *)
LEMMA Served ==
  ASSUME Inv, pc = "serve"
  PROVE  /\ i \in 1..(nfds - 1) /\ i \in Index
         /\ fd[i] \in open /\ client[i] = fd[i] /\ fd[i] \in data \cup eof
         /\ \A k \in 1..(nfds - 1) : k # i => fd[k] # fd[i]
<1>1. i \in 1..(nfds - 1) /\ i \in Index /\ i \in i..(currentSize - 1)
  BY Constants DEF Inv, TypeOK, RoundOK
<1>2. fd[i] \in data \cup eof
  BY <1>1 DEF Inv, RoundOK
<1>3. fd[i] \in open /\ fd[i] # Gone
  BY <1>2, Constants DEF Inv, TypeOK
<1> QED  BY <1>1, <1>2, <1>3 DEF Inv, SlotsOK

(* The entries to come are those of other connections. *)
LEMMA ServedRound ==
  ASSUME Inv, pc = "serve", NextEntry, UNCHANGED <<nfds, revents, currentSize>>,
         \A k \in Index : k # i => fd'[k] = fd[k],
         data \cup eof \subseteq data' \cup eof' \cup {fd[i]}
  PROVE  RoundOK'
<1>1. \A k \in (i + 1)..(currentSize - 1) :
         k \in 1..(nfds - 1) /\ k \in Index /\ k # 0 /\ k # i /\ k \in i..(currentSize - 1)
  BY Constants DEF Inv, TypeOK, RoundOK
<1>2. \A k \in (i + 1)..(currentSize - 1) : revents[k] => fd[k] \in data \cup eof
  BY <1>1 DEF Inv, RoundOK
<1>3. \A k \in (i + 1)..(currentSize - 1) : fd'[k] = fd[k] /\ fd[k] # fd[i]
  BY <1>1, Served
<1>4. \A k \in (i + 1)..(currentSize - 1) : revents[k] => fd'[k] \in data' \cup eof'
  BY <1>2, <1>3
<1> QED  BY <1>4, NextEntryRound

LEMMA ServeKeepStep ==
  ASSUME Inv, ServeKeep
  PROVE  Inv'
<1>1. TypeOK'
  <2>1. i' \in Index
    BY Constants DEF Inv, TypeOK, ServeKeep, NextEntry
  <2>2. pc' \in {"scan", "compress"}
    BY DEF ServeKeep, NextEntry
  <2> QED  BY <2>1, <2>2 DEF Inv, TypeOK, ServeKeep, table
<1>2. SlotsOK'
  BY DEF Inv, SlotsOK, ServeKeep, table
<1>3. RoundOK'
  <2>1. client[i] = fd[i]
    BY Served DEF ServeKeep
  <2> QED  BY <2>1, ServedRound DEF ServeKeep, table
<1>4. CountOK'
  <2>1. Holes' = Holes
    BY DEF Holes, ServeKeep, table
  <2> QED  BY <2>1, NextEntryCount DEF Inv, TypeOK, SlotsOK, CountOK, ServeKeep, table
<1> QED  BY <1>1, <1>2, <1>3, <1>4 DEF Inv

LEMMA ServeCloseStep ==
  ASSUME Inv, ServeClose
  PROVE  Inv'
<1>1. /\ i \in 1..(nfds - 1) /\ i \in Index
      /\ fd[i] \in open /\ \A k \in 1..(nfds - 1) : k # i => fd[k] # fd[i]
  BY Served DEF ServeClose
<1>2. fd'[i] = Gone /\ \A k \in Index : k # i => fd'[k] = fd[k]
  BY <1>1 DEF Inv, TypeOK, ServeClose
<1>3. TypeOK'
  <2>1. i' \in Index
    BY Constants DEF Inv, TypeOK, ServeClose, NextEntry
  <2>2. pc' \in {"scan", "compress"}
    BY DEF ServeClose, NextEntry
  <2>3. fd' \in [Index -> Connections \cup {Listener, Gone}]
    BY DEF Inv, TypeOK, ServeClose
  <2> QED  BY <2>1, <2>2, <2>3 DEF Inv, TypeOK, ServeClose
<1>4. SlotsOK'
  <2>1. \A k \in 1..(nfds - 1) : k \in Index
    BY Constants DEF Inv, TypeOK
  <2>2. fd'[0] = Listener
    BY <1>1, <1>2, Constants DEF Inv, SlotsOK
  <2>3. nfds' = nfds /\ client' = client /\ open' = open \ {fd[i]}
    BY DEF ServeClose
  <2> QED  BY <1>1, <1>2, <2>1, <2>2, <2>3 DEF Inv, SlotsOK
<1>5. RoundOK'
  BY <1>2, ServedRound DEF ServeClose
<1>6. CountOK'
  BY <1>3, <1>4, NextEntryCount DEF TypeOK, SlotsOK, ServeClose
<1> QED  BY <1>3, <1>4, <1>5, <1>6 DEF Inv

(* The entry at i is removed: those after it move down by one. *)
LEMMA SqueezeMoves ==
  ASSUME Inv, Squeeze, fd[i] = Gone
  PROVE  /\ i \in 1..(nfds - 1) /\ nfds' = nfds - 1
         /\ \A k \in 0..(nfds' - 1) :
              /\ k < i => fd'[k] = fd[k] /\ client'[k] = client[k]
              /\ k >= i => fd'[k] = fd[k + 1] /\ client'[k] = client[k + 1]
<1>1. i \in 1..(nfds - 1)
  BY Constants DEF Inv, TypeOK, SlotsOK, Squeeze
<1>2. nfds' = nfds - 1 /\ fd' = Shifted(fd, i) /\ client' = Shifted(client, i)
  BY DEF Squeeze
<1>3. \A k \in 0..(nfds' - 1) : k \in Index /\ (k \in i..(nfds - 1) <=> k >= i)
  BY <1>1, <1>2, Constants DEF Inv, TypeOK
<1>4. \A k \in 0..(nfds' - 1) : k < i => ~(k >= i)
  BY <1>1, <1>2 DEF Inv, TypeOK
<1> QED  BY <1>1, <1>2, <1>3, <1>4 DEF Shifted

LEMMA SqueezeStep ==
  ASSUME Inv, Squeeze
  PROVE  Inv'
<1>1. CASE fd[i] = Gone
  <2>1. /\ i \in 1..(nfds - 1) /\ nfds' = nfds - 1
        /\ \A k \in 0..(nfds' - 1) :
             /\ k < i => fd'[k] = fd[k] /\ client'[k] = client[k]
             /\ k >= i => fd'[k] = fd[k + 1] /\ client'[k] = client[k + 1]
    BY <1>1, SqueezeMoves
  <2> DEFINE from(k) == IF k < i THEN k ELSE k + 1
  <2>2. \A k \in 1..(nfds' - 1) :
          /\ from(k) \in 1..(nfds - 1)
          /\ fd'[k] = fd[from(k)] /\ client'[k] = client[from(k)]
    BY <2>1, Constants DEF Inv, TypeOK
  <2>3. \A k, m \in 1..(nfds' - 1) : from(k) = from(m) => k = m
    BY <2>1 DEF Inv, TypeOK
  <2>4. \A m \in 1..(nfds - 1) : m # i => \E k \in 1..(nfds' - 1) : from(k) = m
    <3> SUFFICES ASSUME NEW m \in 1..(nfds - 1), m # i
                 PROVE  \E k \in 1..(nfds' - 1) : from(k) = m
      OBVIOUS
    <3>1. CASE m < i
      BY <2>1, <3>1 DEF Inv, TypeOK
    <3>2. CASE m > i
      <4>1. m - 1 \in 1..(nfds' - 1) /\ from(m - 1) = m
        BY <2>1, <3>2 DEF Inv, TypeOK
      <4> QED  BY <4>1
    <3> QED  BY <2>1, <3>1, <3>2 DEF Inv, TypeOK
  <2>5. TypeOK'
    <3>1. \A m \in Index : m \in i..(nfds - 1) => m + 1 \in Index
      BY Constants DEF Inv, TypeOK
    <3>2. /\ fd' = Shifted(fd, i) /\ client' = Shifted(client, i)
          /\ UNCHANGED <<revents, currentSize, isListen, compress, endServer, pc,
                         open, backlog, data, eof>>
      BY <1>1 DEF Squeeze, sockets
    <3>3. fd' \in [Index -> Connections \cup {Listener, Gone}]
      BY <3>1, <3>2 DEF Inv, TypeOK, Shifted
    <3>4. client' \in [Index -> Connections \cup {Null}]
      BY <3>1, <3>2 DEF Inv, TypeOK, Shifted
    <3>5. nfds' \in 1..Entries /\ i' \in Index
      BY <2>1, Constants DEF Inv, TypeOK, Squeeze
    <3> QED  BY <3>2, <3>3, <3>4, <3>5 DEF Inv, TypeOK
  <2>6. open' = open
    BY DEF Squeeze, sockets
  <2>7. SlotsOK'
    <3>1. fd'[0] = Listener
      BY <2>1 DEF Inv, TypeOK, SlotsOK
    <3> HIDE DEF from
    <3>2. \A k \in 1..(nfds' - 1) : fd'[k] # Gone => fd'[k] \in open' /\ client'[k] = fd'[k]
      BY <2>2, <2>6 DEF Inv, SlotsOK
    <3>3. \A k, m \in 1..(nfds' - 1) : fd'[k] # Gone /\ fd'[k] = fd'[m] => k = m
      BY <2>2, <2>3 DEF Inv, SlotsOK
    <3>4. ASSUME NEW x \in open PROVE \E k \in 1..(nfds' - 1) : fd'[k] = x
      <4>1. PICK m \in 1..(nfds - 1) : fd[m] = x
        BY DEF Inv, SlotsOK
      <4>2. m # i
        BY <1>1, <4>1, Constants DEF Inv, TypeOK
      <4> QED  BY <2>2, <2>4, <4>1, <4>2
    <3> QED  BY <2>6, <3>1, <3>2, <3>3, <3>4 DEF SlotsOK
  <2>8. RoundOK'
    BY DEF RoundOK, Squeeze
  <2>9. CountOK'
    <3> DEFINE N == Cardinality(Connections)
    <3>1. i \in Holes
      BY <1>1, <2>1 DEF Holes
    <3>2. IsFiniteSet(Holes \ {i}) /\ Cardinality(Holes \ {i}) = Cardinality(Holes) - 1
      BY <3>1, HolesFinite, FS_RemoveElement
    <3>3. [k \in Holes' |-> from(k)] \in Injection(Holes', Holes \ {i})
      <4>1. fd'[0] # Gone /\ fd[0] # Gone
        BY <2>7, Constants DEF Inv, SlotsOK
      <4>2. \A k \in Holes' : k \in 1..(nfds' - 1)
        BY <2>1, <4>1 DEF Holes, Inv, TypeOK
      <4>3. \A k \in Holes' : from(k) \in Holes \ {i}
        BY <2>1, <2>2, <4>2 DEF Holes, Inv, TypeOK
      <4> HIDE DEF from
      <4> QED  BY <2>3, <4>2, <4>3 DEF Injection, IsInjective
    <3>4. IsFiniteSet(Holes') /\ Cardinality(Holes') <= Cardinality(Holes) - 1
      <4> HIDE DEF from
      <4> QED  BY <3>2, <3>3, FS_Injection
    <3>5. Cardinality(Holes') \in Nat
      BY <3>4, FS_CardinalityType
    <3>6. Passed' \in SUBSET (Passed \cup {i})
      <4>1. \A k \in Passed' : k # i => k \in Passed
        BY <2>1 DEF Passed, Holes, Squeeze, Inv, TypeOK
      <4> QED  BY <4>1
    <3>7. i \notin Passed
      BY <2>1 DEF Passed
    <3>8. /\ IsFiniteSet(Passed \cup {i})
          /\ Cardinality(Passed \cup {i}) = Cardinality(Passed) + 1
      BY <3>7, HolesFinite, FS_AddElement
    <3>9. IsFiniteSet(Passed') /\ Cardinality(Passed') <= Cardinality(Passed) + 1
      BY <3>6, <3>8, FS_Subset
    <3>10. Cardinality(Passed') \in Nat
      BY <3>9, FS_CardinalityType
    <3>11. Cardinality(Holes) \in Nat /\ Cardinality(Passed) \in Nat /\ N \in Nat
      BY HolesFinite, Constants
    <3>12. Cardinality(Holes) + Cardinality(Passed) < 2 * N
      BY DEF Inv, CountOK, Squeeze
    <3>13. Cardinality(Holes') + Cardinality(Passed') < 2 * N
      BY <3>4, <3>5, <3>9, <3>10, <3>11, <3>12
    <3>14. nfds' <= 2 * N
      BY <2>1, <3>11 DEF Inv, TypeOK, CountOK, TableStaysSmall
    <3>15. compress'
      BY DEF Squeeze
    <3> QED  BY <3>13, <3>14, <3>15 DEF CountOK, TableStaysSmall
  <2> QED  BY <2>5, <2>7, <2>8, <2>9 DEF Inv
<1>2. CASE fd[i] # Gone
  <2>1. /\ UNCHANGED <<fd, client, nfds, revents, currentSize, isListen, compress,
                       endServer, pc, open, backlog, data, eof>>
        /\ i' = i + 1 /\ i < nfds /\ pc = "compress" /\ compress
    BY <1>2 DEF Squeeze, table, sockets
  <2>2. TypeOK'
    <3>1. i' \in Index
      BY <2>1, Constants DEF Inv, TypeOK
    <3> QED  BY <2>1, <3>1 DEF Inv, TypeOK
  <2>3. SlotsOK'
    BY <2>1 DEF Inv, SlotsOK
  <2>4. RoundOK'
    BY <2>1 DEF RoundOK
  <2>5. CountOK'
    <3>1. Holes' = Holes
      BY <2>1 DEF Holes
    <3>2. Passed' = Passed
      <4>1. \A k \in Holes : k \in Int /\ k # i
        BY <1>2 DEF Holes, Inv, TypeOK
      <4>2. \A k \in Holes : k < i' <=> k < i
        BY <2>1, <4>1, Constants DEF Inv, TypeOK
      <4> QED  BY <3>1, <4>2 DEF Passed
    <3> QED  BY <2>1, <3>1, <3>2 DEF Inv, CountOK, TableStaysSmall
  <2> QED  BY <2>2, <2>3, <2>4, <2>5 DEF Inv
<1> QED  BY <1>1, <1>2

LEMMA RoundEndsStep ==
  ASSUME Inv, RoundEnds
  PROVE  Inv'
<1>1. TypeOK'
  <2>1. i' \in Index /\ currentSize' \in Index
    BY Constants DEF RoundEnds
  <2>2. {isListen', compress', endServer'} \subseteq BOOLEAN
    BY Zenon DEF Inv, TypeOK, RoundEnds
  <2>3. pc' \in {"poll", "ended"}
    BY DEF RoundEnds
  <2> QED  BY <2>1, <2>2, <2>3 DEF Inv, TypeOK, RoundEnds, table, sockets
<1>2. SlotsOK'
  BY DEF Inv, SlotsOK, RoundEnds, table, sockets
<1>3. RoundOK'
  BY DEF RoundOK, RoundEnds
<1>4. CountOK'
  <2>1. Holes' = Holes
    BY DEF Holes, RoundEnds, table
  <2>2. Cardinality(Holes) < Cardinality(Connections)
    <3>1. CASE ~compress
      BY <3>1 DEF Inv, CountOK
    <3>2. CASE compress
      <4>1. Passed = Holes
        <5>1. \A k \in Holes : k < i
          BY <3>2, Constants DEF Holes, RoundEnds, Inv, TypeOK
        <5> QED  BY <5>1 DEF Passed
      <4>2. Cardinality(Holes) + Cardinality(Holes) < 2 * Cardinality(Connections)
        BY <3>2, <4>1 DEF Inv, CountOK, RoundEnds
      <4> QED  BY <4>2, HolesFinite, Constants
    <3> QED  BY <3>1, <3>2
  <2>3. pc' # "compress"
    BY DEF RoundEnds
  <2> QED  BY <2>1, <2>2, <2>3 DEF Inv, CountOK, TableStaysSmall, RoundEnds, table
<1> QED  BY <1>1, <1>2, <1>3, <1>4 DEF Inv

LEMMA CloseAllStep ==
  ASSUME Inv, CloseAll
  PROVE  Inv'
<1> DEFINE closed == {fd[k] : k \in 0..(nfds - 1)}
<1>1. /\ open' = open \ closed /\ data' = data \ closed /\ eof' = eof \ closed
      /\ backlog' = {} /\ nfds' = 1
      /\ fd' = [k \in Index |-> IF k = 0 THEN Listener ELSE Gone]
      /\ UNCHANGED <<client, revents, i, currentSize, isListen, compress, endServer, pc>>
      /\ pc = "ended"
  BY DEF CloseAll, control
<1>2. open \subseteq closed
  BY DEF Inv, TypeOK, SlotsOK
<1>3. open' = {} /\ data' = {} /\ eof' = {}
  BY <1>1, <1>2 DEF Inv, TypeOK
<1>4. TypeOK'
  <2>1. fd' \in [Index -> Connections \cup {Listener, Gone}] /\ nfds' \in 1..Entries
    BY <1>1, Constants
  <2> QED  BY <1>1, <1>3, <2>1 DEF Inv, TypeOK
<1>5. SlotsOK'
  BY <1>1, <1>3, Constants DEF SlotsOK
<1>6. RoundOK'
  BY <1>1 DEF RoundOK
<1>7. CountOK'
  <2>1. Holes' = {}
    BY <1>1, Constants DEF Holes
  <2>2. Cardinality(Holes') = 0
    BY <2>1, FS_EmptySet
  <2> QED  BY <1>1, <2>2, Constants DEF CountOK, TableStaysSmall
<1> QED  BY <1>4, <1>5, <1>6, <1>7 DEF Inv

-----------------------------------------------------------------------------
(* The theorems, for poll_server (Spec) and for multi_server (MultiSpec) *)

LEMMA InvStep == Inv /\ [Next \/ MultiNext]_vars => Inv'
<1> SUFFICES ASSUME Inv, [Next \/ MultiNext]_vars PROVE Inv'
  OBVIOUS
<1>1. CASE UNCHANGED vars
  BY <1>1 DEF vars, Inv, TypeOK, SlotsOK, RoundOK, CountOK, TableStaysSmall, Passed, Holes
<1>2. CASE Peers
  BY <1>2, PeersStep
<1>3. CASE Poll
  BY <1>3, PollStep
<1>4. CASE PollFails \/ PollTimesOut
  BY <1>4, PollEndsStep DEF PollFails, PollTimesOut
<1>5. CASE ScanSkip \/ MultiScanSkip \/ AcceptDone \/ AcceptFails
  <2>1. endServer' \in BOOLEAN
    BY <1>5 DEF Inv, TypeOK, ScanSkip, MultiScanSkip, AcceptDone, AcceptFails
  <2> QED  BY <1>5, <2>1, EntryDoneStep DEF ScanSkip, MultiScanSkip, AcceptDone, AcceptFails
<1>6. CASE ScanListener \/ MultiScanListener
  <2>1. isListen' \in BOOLEAN
    BY <1>6 DEF Inv, TypeOK, ScanListener, MultiScanListener
  <2> QED  BY <1>6, <2>1, ListenerStep DEF ScanListener, MultiScanListener
<1>7. CASE ScanClient \/ MultiScanClient
  BY <1>7, ClientStep DEF ScanClient, MultiScanClient, SkipsEntry
<1>8. CASE \E x \in Connections : Accept(x)
  BY <1>8, AcceptStep
<1>9. CASE ServeKeep \/ ServeClose
  BY <1>9, ServeKeepStep, ServeCloseStep
<1>10. CASE Squeeze \/ RoundEnds \/ CloseAll
  BY <1>10, SqueezeStep, RoundEndsStep, CloseAllStep
<1> QED  BY <1>1, <1>2, <1>3, <1>4, <1>5, <1>6, <1>7, <1>8, <1>9, <1>10
         DEF Next, Worker, MultiNext, MultiWorker

LEMMA Invariant == Spec \/ MultiSpec => []Inv
<1>1. [Next]_vars \/ [MultiNext]_vars => [Next \/ MultiNext]_vars
  OBVIOUS
<1> QED  BY <1>1, InvInit, InvStep, PTL DEF Spec, MultiSpec

(* The types of the table and of the loop's variables.  nfds stays within  *)
(* the entries that the model gives the arrays.                            *)
THEOREM TypeCorrect == Spec \/ MultiSpec => []TypeOK
<1>1. Inv => TypeOK
  BY DEF Inv
<1> QED  BY <1>1, Invariant, PTL

(* fds[] and clients[] stay in step through accept, close and compression, *)
(* and each open connection has exactly one entry.                         *)
THEOREM TableInStep == Spec \/ MultiSpec => []TableOK
<1>1. Inv => TableOK
  <2> SUFFICES ASSUME Inv, NEW x \in open
               PROVE  Cardinality({k \in 0..(nfds - 1) : fd[k] = x}) = 1
    BY DEF Inv, SlotsOK, TableOK
  <2>1. PICK k \in 1..(nfds - 1) : fd[k] = x
    BY DEF Inv, SlotsOK
  <2>2. x # Gone /\ x # Listener
    BY Constants DEF Inv, TypeOK
  <2>3. {m \in 0..(nfds - 1) : fd[m] = x} = {k}
    BY <2>1, <2>2 DEF Inv, TypeOK, SlotsOK
  <2> QED  BY <2>3, FS_Singleton
<1> QED  BY <1>1, Invariant, PTL

(* The poll thread calls recv only for a client that is allocated and has  *)
(* something to read, so that a blocking socket does not stop it.          *)
THEOREM RecvReady == Spec \/ MultiSpec => []RecvDoesNotBlock
<1>1. Inv => RecvDoesNotBlock
  BY Served DEF RecvDoesNotBlock, Readable
<1> QED  BY <1>1, Invariant, PTL

(* With N connections at a time the table never has more than 2N entries,  *)
(* although the compression skips every second of a row of closed ones.    *)
THEOREM TableBounded == Spec \/ MultiSpec => []TableStaysSmall
<1>1. Inv => TableStaysSmall
  BY DEF Inv, CountOK
<1> QED  BY <1>1, Invariant, PTL

=============================================================================
