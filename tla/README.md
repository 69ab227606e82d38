# nohost_server: a TLA+ model

nohost_server is a key-value server that speaks the Redis protocol and hands
its reads and writes to an LSM-tree storage engine (outside the repository).
These modules model the server that the Makefile builds (`poll_server.cpp
client.cc exec.cc match.cc util.cc request.cc hashMap.cc` with `-DLSMTREE
-DENABLE_LIBFTL -DSEQ -DREDIS`, no optimisation) and what differs in its
variants (BUSE, multi-threaded, UDP), check them with TLC on small instances and
prove their safety properties, for all values of the constants, with TLAPS.

## The system

| Part | State | Operations | Interacts with |
|---|---|---|---|
| Poll loop, `polling_worker` (poll_server.cpp) | `fds[]`, `clients[]`, `nfds`, `isListen_sd`, `compress_array` | poll, accept, `on_read`, close, compression | one thread; calls the parser, the commands and `client_close` |
| Client (client.cc) | input buffer, output buffer (`output`, `output_len`, `output_offset`, `output_valid`) | `client_read_command`, `client_exec_commands`, `client_write*`, `client_flush_offset`, `client_clear` | poll thread and handler thread, with no lock |
| Commands (exec.cc) | none of their own | SET UPT MSET GET MGET DEL QUIT FLUSHDB KEYS SCAN | make requests, write replies |
| Requests (request.cc) | `req_t` on the heap, a DMA buffer each, `type_info->type` | `alloc_req alloc_dma make_req end_req free_req` | poll thread makes them, engine threads end them |
| `end_req_Q` (lfmpmc.h) | ring of 4096 slots with sequence numbers | `enqueue dequeue isempty` | engine threads enqueue, the handler dequeues |
| Handler, `end_req_q_handler` (poll_server.cpp) | the request it holds | reply, clear, free | shares the output buffers with the poll thread |
| Key scan helpers (util.cc, match.cc) | none | `pattern_limits`, `stringmatchlen` | for KEYS and SCAN, whose loop over the keys is commented out |
| Key map (hashMap.cc) | a map and a set of values | `hashMapInsert hashMapFind` | no caller left |
| BUSE variants (poll_server_buse.cpp, poll_server_busefs.cpp) | as above | as above | copies of poll_server.cpp with non-blocking client sockets |
| multi_server.cpp (not built) | a connection table for each worker | poll with a timeout, accept, `on_read`, close | several workers that share nothing |
| udp_server.cpp, lockfreeq.h (not built) | SPSC queue, `read_data`, addresses on the heap | receive, hand over, `udp_GetRequest`, reply | main thread and `request_handler` |
| command.c (not built) | a half-read request | `GetRequest`, `master_GetRequest` and their parts | called with what `recv` returned |
| queue.c, priority_queue.c (not built) | a list, a heap | add, remove | no caller left |

What is hard: the lock-free queue between the engine's threads and the
handler; the life of a request, whose type the engine rewrites and whose DMA
buffer goes back to a pool chosen by that type; blocking waits on the only poll
thread (DMA buffers, socket buffers); a connection table that is compressed
while it is indexed; output buffers without a lock; clients freed while
requests still point to them; commands that are cut by the network and resumed;
threads that see each other's counters late. `PROJECT.json` lists these hazards
one by one, at their lines, with the properties aimed at them.

## Modules

* **BoundedFifo** is the abstract queue: `Put`, `Take`, `Return`. `queue` is
  the order of the items, `got` what a dequeuer carries out.
* **MpmcQueue** models `mpmc_bounded_queue_t`. Each atomic load,
  compare-exchange and store of `enqueue` and `dequeue` is an action of one
  thread (`EnqueueCall` loads `_head_seq`, `EnqueueFree/Full/Stale` look at the
  slot, `EnqueueClaim` is the exchange, `EnqueueWrite` the data,
  `EnqueuePublish` the release store; likewise for `dequeue`). `RelaxedLoads`
  lets relaxed loads return old values, and the weak exchange may fail for no
  reason (`EnqueueCasFails`). Sequence numbers are naturals; the wrap of
  `size_t` is out of scope. `MaxTicket` bounds them for TLC and is any natural
  in the proofs.
* **MpmcIsEmpty** adds `isempty`, which no caller uses.
* **Requests** models a request from `exec_*` to `free_req`, with the pools of
  libmemio, the engine (external) and the handler. `end_req_Q` in it is
  BoundedFifo, which MpmcQueue is proved to implement. `conn[c]` is the client
  and its socket: peers hang up (`HangUp`) and read (`ReadsReply`) when they like,
  `client_close` (`Disconnect`) frees the client whatever is pending, and the
  handler's `write()` (`HandlerReply`) waits while the socket is full. On a client
  that is hung up or freed it ends the process (`Ended`) or goes on. A worker has
  the address of a request between the enqueue and its return from `end_req`
  (`EndReqReturn`).
* **PollTable** models `polling_worker`: an action for `poll()`, for each entry
  that the loop skips, serves or accepts from, for each turn of the accept loop
  and for each turn of the compression. Peers connect, send and hang up at any
  time. `on_read` is here only what it returns and what it consumes.
* **MultiServer** is `polling_worker` of multi_server.cpp: PollTable's actions but
  for the scan, which serves clients also in a round with a new connection, a
  `poll()` that times out, and the closing of all connections at the end.
* **ReplyPath** models what `on_read`, `client_exec_commands`, the commands and
  the handler do to the output buffers. A thread's work is a list of steps
  (copy, load `output_len`, store it, test, write, ...), because nothing excludes
  the other thread in between. A reply is one cell, a bulk reply two. Each peer
  follows a script of commands, and `Apart` are the peers that only ask (reads) or
  only tell (anything else).
* **ReplyBuse** is ReplyPath with a `write()` that does not wait.
* **CommandParser** models a client's input buffer: `recv` (`Recv`, with any
  number of bytes), `client_read_command` (`ReadCount`, `ReadArg` for each turn of
  the loop over the arguments, `ReadDone`; `ReadBulk` and `ReadStatus` for replies),
  `client_parse_telnet_command` (`LineStart` and an action for each kind of
  character), the loop of `client_exec_commands` (`Exec`, `ExecFails`) and the move
  to the front at the end of `on_read` (`Compact`). A cell of the buffer is a byte,
  but a decimal number is one cell, since the parser reads a number only after it
  has found the end of its line.
* **SpscQueue** models the queue of lockfreeq.h: an action for each load and
  store. A thread sees the other's counter with any delay, but never an older
  value than before. It is a second implementation of BoundedFifo, with room for
  `Size - 1` items.
* **UdpServer** extends it with the two threads of udp_server.cpp: `Recv` and
  `MainEnqueue` of main, `HandlerDequeue`, `HandlerParse` and `HandlerMake`
  (`udp_GetRequest` and `make_req`), `HandlerFree` of `request_handler`, and the
  answer (`EngineDone`), which is assumed: nothing in the repository calls
  `udp_SendOkCommand` and `udp_SendBulkValue`. `Malloc` reuses what has been freed at
  once.
* **StreamParser** models `GetRequest` and `master_GetRequest` of command.c
  (`eager` tells them apart), which keep a request that has not arrived
  completely and resume it with the next segment. The stream is cut anywhere
  (`cuts` remembers where), and `Bump` and `AckSet` are taken again by a SET that is
  resumed behind them, as in the code. Where `GetLength` miscounts, the parser is
  followed up to the wrong length.
* **LinkedQueue**, **PriorityQueue**, **KeyMap** are queue.c, priority_queue.c
  and hashMap.cc, an action for each function and for each turn of the loops of
  `PQ_push`, `PQ_pop` and `hashMapInsert`. **KeyScan** is `stringmatchlen` and `pattern_limits` as
  `exec_scan_keys` puts them together, against a definition of what a pattern
  matches.
* **Containers** puts these three side by side, for MCLibrary and for the proofs.
* **MC...** modules hold values for TLC only. MCPollTable runs either server;
  MCLibrary runs one of StreamParser, LinkedQueue, PriorityQueue, KeyMap and KeyScan
  in each behaviour (`part`).
* **MpmcQueue_proofs**, **UdpServer_proofs** (SpscQueue too), **Requests_proofs**,
  **PollTable_proofs** (with MultiServer), **ReplyCount_proofs** and
  **ReplyPath_proofs** (both about ReplyPath; the second extends the first),
  **CommandParser_proofs** and
  **Containers_proofs** (LinkedQueue, PriorityQueue and KeyMap) hold the theorems.

The definitions under "Mutants" in a module are slips that the properties must
catch; the specification does not use them.

## Runs

| Run | Shows |
|---|---|
| `mpmc_queue` | two producers, two consumers, two slots, two rounds, stale loads: `MutualExclusion`, `QuiescentSlots`, the inductive invariant `Inv`, and refinement of BoundedFifo |
| `mpmc_live` | fair threads: every claimed ticket is served |
| `mpmc_isempty` | *violation*: `isempty` takes a ticket and loses the slot |
| `requests` | a client that hangs up at any time and reads until then, three requests, two engine threads, a queue of one: DMA buffers are accounted for, a request has one owner, writes never get to the handler, whatever has become of their client, waits for a buffer end and everything drains |
| `requests_del` | *violation*: DEL frees a buffer that it never had |
| `poll_table` | two connections, in poll_server and in multi_server: table and clients stay in step, `recv` never blocks, closed entries do not pile up, data, hang-ups and new connections are attended to |
| `reply_path` | a client that sends GET or MGET, next to one that sends SET with errors, echoes, KEYS, junk or QUIT, or to one that mixes SET and GET, so that both threads are in its buffer: the replies of the first two arrive whole and in order, commands are neither lost nor answered twice, and, without the third, SET and reads are answered |
| `reply_full_socket` | *violation*: with the sockets of the BUSE servers, `write()` = -1 is added to the position |
| `parser` | seven commands (arrays, lines, quotes, replies), some of which fail, in any pieces: they are executed as sent and all of them, `recv` has room, `memcpy` does not overlap |
| `parser_cut` | *violation*: a command cut in the length line of its last argument is executed without it |
| `udp` | four datagrams of two peers, a queue with room for one: the queue's invariant and its refinement of BoundedFifo, requests as received, answers to the right peer, every datagram answered unless the program ends |
| `library` | the stream parser, cut three times anywhere, makes the requests that were sent, with one buffer and one `+OK` each, but for a SET that is cut behind its name or key, for which the properties say what is repeated and what is lost; a length is wrong after one kind of cut only; the list is a queue and leaks nothing; the heap keeps its nodes and, up to four, its order; numbers of keys are unique; patterns select what they match |

A violation run shows a place where the code does not do what a comment in it
says; "findings" in `PROJECT.json` quotes the comment.

### Bounds

* MpmcQueue: two slots are the smallest ring of the kind the server has, and
  four tickets take each slot through two rounds, so that a thread with an old
  ticket meets a slot that has been reused. The theorems need neither bound.
* Requests: more requests than buffers of a kind, so that `alloc_dma` waits; an
  MGET of three keys with two read buffers; a queue of one, so that `end_req`
  spins; addresses of requests and of the client are reused; one answer may fill the
  socket.
* PollTable: two connections already leave closed entries behind and let three
  closed entries be adjacent; the table then reaches the bound of
  `TableStaysSmall`. With three connections the safety properties hold as well
  and the bound is reached too; the liveness properties take too long there.
* ReplyPath: up to three commands of a client make a batch; an MGET of two keys has
  its header and two answers in different hands; a socket buffer of one cell makes
  `write()` block in the middle of a reply. `MaxScript` bounds a script and so the
  buffer; scripts are fixed in MCReplyPath. Two peers are active at a time
  (`TwoAtATime`). The one that mixes sends SET and GET, which is enough for the flush of
  the one to meet the answer to the other, and for its own replies to be damaged.
  ReplyBuse has three cells, so that a flush is cut in two.
* CommandParser: a window of 26 cells holds an array and a line or a reply, so that
  they are pipelined, and a buffer of 56 with a margin of 4 is then the tightest
  that `SizesAssumption` allows. A session has seven commands, arrays with an empty
  argument between forms of every other kind, and runs past the buffer's end, so
  that what is left is moved, with a command in pieces as well. The server has
  1048576 and 100000 bytes.
* UdpServer: `Size = 2` leaves room for one item, so that the producer meets a full
  queue and slots, buffers and addresses are reused; one DMA buffer, so that the
  handler waits; four datagrams of two peers, with targets of one and of four digits
  and keys of one and two.
* StreamParser: sessions of two and three commands with lengths of one and two
  digits and a value that contains a line end; three cuts (`MaxCuts`) at any places,
  so that a command is resumed three times, or two commands are. LinkedQueue: four
  addresses. PriorityQueue: six pushes, one more than it takes to break its order.
  KeyMap: five keys and four hash values, so that keys collide. KeyScan: patterns of
  up to three tokens (letters, `*`, `?`, classes, ranges, escapes) on keys of up to
  three letters.

### Fairness

The threads of the server keep running: the poll thread, the handler (which
spins on `dequeue`) and the engine's threads, one by one. What has been sent
arrives. The engine is taken to finish every request. Nobody is obliged to send,
connect or hang up. In ReplyPath and in Requests the peers in `Readers` read what they
are sent, and go on reading while they send; `Answered`, `DmaWaitEnds` and `Drains`
rest on that. The code does not see to it: `write()` waits for a peer that does not
read (poll_server.cpp:374 makes the sockets blocking, against the comment at 503), and
one that waits with its own `send` closes a circle of the poll thread in `alloc_dma`, the
handler in `write()` and itself. `memio_alloc_dma` and `write()` only need weak fairness,
since nobody else takes what they wait for. In UdpServer a
store becomes visible to the other thread in the end: checks of the queue that can
succeed again and again do (strong fairness), as they see a newer counter each time
or the same one; hardware that never shows a store does not exist.

### Conditions

* A peer that hangs up with a read pending has its client freed under the handler
  (`client_close` frees at once; even a peer that closes right after its reply races
  `client_clear`). Requests lets that happen: the process ends, or the answer goes
  nowhere or to whoever has the address or the descriptor by then. What a write into
  freed memory does to the heap is not modelled, so the properties of Requests are
  about a heap that survives it. For writes nothing of the kind can happen
  (`WritesStayOff`). ReplyPath's peers do not hang up.
* `RepliesIntact` is about the peers in `Apart`, which do not mix reads with other
  commands. With GET and SET pipelined by one client both threads are in its buffer
  (`flush_mtx` is commented out) and its replies are damaged, but no other client's.
  It can stop everybody, though: when the other thread clears `output_len` between a
  thread's look at it and its `write()` (client.cc:155), that thread writes 0 bytes for
  ever. `Answered` is therefore about behaviours in which nobody has sent such a mix. Nor
  has a client in `Apart` more than one MGET out, and KEYS comes first:
  `exec_scan_keys` puts its header at a fixed place (exec.cc:321), over a reply that is
  still in the buffer. `CommandsAccounted` is about all peers. For `Answered`
  the peers read: `write()` blocks the only poll thread otherwise
  (poll_server.cpp:374), against the comment at poll_server.cpp:503.
* ReplyPath has no DEL. `exec_del` answers it, and the handler answers it again,
  taking it for a read that missed.
* `DataIsRead` and `HangUpIsReaped` assume that connections do not arrive for
  ever: `isListen_sd` makes a round with a new connection skip all clients.
* CommandParser assumes that a peer has no more than `Window` bytes outstanding,
  with `BufSize >= Margin + 2 * Window`. A command longer than the buffer ends the
  connection. The passing run has no cut in the length line of a last argument
  (`CleanCuts`); the theorems allow it. Peers do not end a line with a quoted
  word or a space followed by `"\r\n"` (the `'\r'` would be one more, empty argument)
  nor send `+` with anything but OK and KO (`args_len` is uninitialised then).
* StreamParser's strings have less than 100 characters. A cut behind the last digit of
  a length, before its `'\r'`, makes it ten times as large (`GetLength` multiplies by ten
  once for each call). `LengthsAsCut`, a part of `MadeAsSent`, says so, and that no
  other cut harms a length; the rest of `MadeAsSent` and `OnceUnlessCut` say nothing of
  a stream once it is cut so. They do speak of SETs cut behind their name or key, which repeat the `+OK` or `key++` and
  `alloc_dma`: each such cut costs exactly one more of them, and what had arrived of the
  value stays behind in the former buffer. `master_make_req` is not in the repository
  and taken to leave the request as it is.
* Of the four digits of a target only the last two survive `udp_GetRequest`
  (command.c:260), and a key comes out two larger (`udp_GetRequest` and `make_req`);
  `RequestsAsReceived` says so. Datagrams are as long as their fields say. That every
  finished request is answered is assumed. `MainEnds` may happen
  at any wait: a timeout, or `recvfrom` failing, with EWOULDBLOCK too
  (udp_server.cpp:223, against the comment at 212). `addr_key` is uninitialised but
  the map that it is used with stays empty.
* The heap's order holds while no more than four nodes have been inside since it was
  last empty (`deep`): `PQ_pop` compares with what is left in the hole.
* KeyScan's keys and patterns are lower case, keys are not empty and classes are
  closed. `stringmatchlen` is told to ignore case, while the limits do not, and it
  reads past the ends of an empty key or an open class.
* `hashMapInsert` does not return for a key whose 32 low bits are taken.
* A reply to KEYS, or an error, is sent only when a SET or GET of the
  same client follows: nothing else sets `output_valid`. `Answered` therefore
  speaks of SET, GET and MGET. Likewise `enqueue` may report a full queue that is not
  (a consumer still holds the oldest slot), against the comment at lfmpmc.h:91.

## Proofs

Every theorem holds for all values of the constants that satisfy the named
assumptions of its module. Each rests on an inductive invariant that TLC has checked
on the instances of the runs before it was proved; a lemma for each action shows
that the action preserves it.

### The queue of finished requests

`ASSUME`d: `Size` is a power of two, `None` is not an item, `RelaxedLoads` is a
Boolean and `MaxTicket` a natural. The theorems on the slots also take
`Size >= 2`: for 1, which the constructor's assertion accepts, they are false, since
the number that publishes an item is then also the next ticket, and a slot that
holds an item looks free. The server uses 4096.

* `TypeCorrect`: `Spec => []TypeOK`.
* `Invariance`: `Spec => []Inv`. Mutual exclusion is not inductive: that a slot
  is free for a ticket follows from its sequence number, and that nobody is
  still in the slot from the tickets handed out since. `Inv` therefore says
  which number each slot carries in each of the four stages of a ticket: held by
  a producer (`WritersOK`), in the queue (`QueuedOK`), held by a consumer
  (`ReadersOK`), or not yet handed out (`FreeOK`); that at most `Size` tickets
  are between the two counters (`CountersOK`); and what a thread may conclude
  from the look it took at a slot when its exchange then succeeds (`CasOK`).
  The arithmetic (two tickets less than `Size` apart have different slots) is in
  lemmas of its own.
* `MutualExclusionHolds`, `QuiescentSlotsHold` follow from `Inv`.
* `FifoRefinement`: `Spec => Fifo!Spec`, with the queue of the abstract
  specification being the items of the tickets from `_tail_seq` to `_head_seq`:
  the exchange on `_head_seq` is `Put`, that on `_tail_seq` is `Take`, the release
  store is `Return`, everything else stutters.

### Requests

`ASSUME`d: every command has a type of request, a null address is no request's, a batch
and the queue have room for one, and pools are sets of tags. Workers, clients, addresses and pools may be any sets.

* `TypeCorrect`, `WritersMayHangUp` (`WritesStayOff`) and `OwnerUnique` (`OneOwner`),
  with clients that are freed at any time.
  That a request has one owner is inductive only together with where each thread
  is: `OwnedOK` says that no two of the places that can hold an address (the poll
  thread, the engine, the `end_req` of a worker, the queue, a dequeue in progress,
  the handler) hold the same one, and that the held addresses are the allocated
  ones; `ThreadsOK` which place each step of a thread uses; `WritesOK` that writes
  never get to the queue or the handler, which needs `OwnedOK`, since the type of a
  request is only safe while nobody can reuse its address. `OneOwner`
  itself counts owners, and the last lemma computes that count.
* `BuffersAccounted` (`TagsAccounted`), for `Commands` without `"del"`. With DEL it
  is false, as the run `requests_del` shows, so that `"del" \notin Commands` is the
  weakest condition of its kind. `TagInv` adds that no request is a delete, and
  restates `TagsAccounted` tag by tag.

### The poll loop

`ASSUME`d: connections are finite and at least one; `accept` returns neither -1 nor
the listening socket. The theorems are for poll_server (`Spec`) and multi_server
(`MultiSpec`) alike, since the invariant is one for the actions of both.

* `TypeCorrect`, `TableInStep` (`TableOK`), `RecvReady` (`RecvDoesNotBlock`).
  `RoundOK` says that what `poll()` reported about the entries that are still to come
  is still true: only the entry that is being served changes, and no connection has
  two entries.
* `TableBounded` (`TableStaysSmall`): with N connections at a time there are never
  more than 2N entries, so the model's guard `nfds < Entries` never holds anything
  back, and MAX_CLNT entries do for half as many connections. A compression removes a
  closed entry for each that it skips. `CountOK` says so with a sum that no turn of
  it increases (closed entries, those already passed counted twice): it is below 2N
  when a compression begins, as the listener is never closed, so that fewer than N
  closed entries are left at its end. Connections are only accepted before a round
  closes any, and then at most N - 1 are open.

### The output buffers

`ASSUME`d: clients are finite and at least one, scripts have at most `MaxScript`
commands, the sizes are positive, and nobody quits with reads pending.

* `RepliesStayIntact` (`RepliesIntact`), for *all* scripts: the replies of every peer in
  `Apart` arrive intact, whatever the other peers send. A peer is in `Apart` if it either
  *asks*, with GETs, echoes and an MGET that comes before its first read, or *tells*,
  with anything but reads, KEYS coming before anything else that is answered. Of the
  others nothing can be said: with SET and GET mixed, or two MGETs out, both threads fill
  one buffer and replies are damaged, and KEYS after a SET puts its header over a reply.

  The inductive invariant `Inv` of ReplyPath_proofs rests on one notion, `Alone(c)`:
  neither the engine, nor end_req_Q, nor the handler has anything of client c's. It is
  about the clients in `Apart` only. One of these that tells is always alone, and one that asks is alone until its MGET has been
  executed (`AloneOK`), so that whenever the poll thread works on a buffer, the handler
  does not, although nothing in the code excludes it. What is left of a thread's work is
  kept in shape by saying what may follow a step on the poll thread (`PollList`) and how
  far from the end the handler's steps are (`HandlerList`). `BuffersOK` then says for
  every buffer that what the peer has seen, what is in its socket, what is in the
  buffer and not yet sent, and the cells not yet stored add up, in order, to what it is
  owed (`Adds`), with the locals of the thread that is in the middle of it (`AtWork`);
  and that the buffer has room, which is where `MaxScript` comes in.

  `exec_scan_keys` writes cells nobody is to be sent, then the header into the last of
  them, and moves `output_offset` there. The number of cells is a constant of any value,
  so the steps that are left are described from their end (`ScanOp`), and `AtScan` ties
  how many there are to how much of the filler is written, so that all of it is when the
  header's turn comes. That the buffer is empty before is `KeysOK`.

  A thread that works for a client outside `Apart` may do anything to that client's
  buffer. What has to be shown is that it touches no other (`OthersKeep`), that its
  indices and lists stay well-formed, for which `Accounts` of ReplyCount_proofs is used
  (`TypesStay`), and that it takes up a client of `Apart` only with a fresh list
  (`MixedPoll`, `MixedOnRead`, `MixedDequeues`, `MixedEither`).

* `ReplyTypes` (`TypeOK`) and `RepliesAccounted` (`CommandsAccounted`), in
  ReplyCount_proofs, for *all* scripts, mixed ones too: whatever the threads do to each
  other's replies, each reply that is due is in exactly one place (a command that is
  unread or read, a read that is being made, in the engine, in end_req_Q or with the
  handler, or a reply produced), and no buffer index leaves the buffer.

  `CommandsAccounted` is an equation; `AccountOK` strengthens it with what the script
  still holds, so that what is due is bounded by `Most`. The sums are cardinalities of
  sets of positions (`Count`), and the lemmas on them say what an append, a tail and a
  change of one element do. That `len` stays in the buffer is not inductive: one thread
  may store a length that it loaded before the other cleared the buffer. `RoomOK`
  therefore says, for the length and for every length that is loaded and not yet stored,
  that it leaves room for the stores in the lists of both threads (`ToStore`) and for
  `Space` cells for each reply that is still ahead. `ListsComplete` (`Complete`) keeps the
  lists in shape: a load is followed by its store, a test by its write and its clear.

### The UDP server

`ASSUME`d for the ring: `Size` is a power of two and `None` not an item. For the
server: items are addresses of blocks, and a datagram's fields fit (a target of four
digits, a key of as many digits as it says). Memory that is not allocated is told apart
from what it can hold.

* `QueueInvCorrect`, `QueueImplementsFifo`: `QueueInv` is inductive. A thread's view of
  the other's counter may be old, but is never ahead of it and never goes back, so
  that a slot seen as free stays free and one seen as filled stays filled.
* `UdpQueueInv`, `UdpImplementsFifo`: the threads of the server use the ring as its
  specification says.
* `UdpTypeCorrect`, `UdpRequestsAsReceived` and `UdpAnswersReachSender`. The invariant
  `UdpInv` follows a datagram from `recvfrom` to its answer: the n-th is in a block of
  its own until its request is made (`QueuedOK`, `MemoryOK`), the n-th request is what
  the parser makes of it (`MadeOK`), its address is never freed and so never reused,
  and DMA buffers belong to requests that are not answered (`DmaOK`).

### The input buffer

`ASSUME`d: the sizes fit together as above, and sessions and the
encodings of commands are finite sequences. The encodings are otherwise arbitrary.

* `ParserTypeCorrect`: index, length and the parser's position stay in the buffer,
  and what is outstanding stays within the window.
* `RoomIsLeft` and `MovesDoNotOverlap`: there is room at every `recv`, and the move
  never overlaps. The first is not inductive: that there is room for one byte now
  says nothing of the next `recv`. `BufferInv` adds that there is the whole margin
  whenever `on_read` waits, which `Compact` restores, because what is left is never
  longer than the window. The search for a line feed (`LineEndBounds`) is what
  keeps the parser within what has been received.

### Library

* `ListHoldsQueue` (`ListIsQueue`), for addresses that are not null. `ListInv` names
  the path of nodes from front and says that it visits every allocated node once;
  `add_rear` makes it longer by one, `remove_front` takes its head.
* `MapNumbersUnique` (`NumbersUnique`), for natural keys and at least one hash value.
  `MapInv` adds that the number being tried belongs to a key that has none.
* `HeapFrontLeast` (`FrontIsLeast`), for natural priorities and any number of calls.
  In the middle of a call a node is twice in the array, or not yet in it; `HeapInv` says
  that the array with its hole filled (`Content`) lists the nodes held, each once, and
  that up to four nodes the order holds but for the hole (`OrderOK`): a push may leave
  a child of the hole below the hole's parent, a pop may leave anything there, which is
  harmless only as long as the hole has no children left to spoil.

### Only model-checked

Liveness (the prover has no fairness). What takes an induction over data: `ParsedAsSent`
and `MadeAsSent` (the encodings of whole sessions), `OnceUnlessCut` (sums over
the requests of a session) and `ListedIffMatched` (what a pattern matches is a recursive
definition).

## Not modelled, and the plan

What could follow: `atop` and the argument loop of `exec_scan`; `worker` of
multi_server.cpp, should anything fill its queue again; busefs, which has `free_req`
commented out (poll_server_busefs.cpp:128), so that no request is ever freed.

Left out for good: RocksDB's headers and the build files; `main` and
`init_socket`, which run before any thread; statistics and printing; failures
after which the process exits (`setsockopt`, `lr_make_req`; `write` to a closed
peer is in Requests only); the wrap of 64-bit sequence numbers.

About three quarters of the repository's lines are RocksDB's headers, which the
server does not call any more (every use in exec.cc is commented out); they are
declarations and comments and have nothing to model. poll_server_buse.cpp and
poll_server_busefs.cpp repeat poll_server.cpp line for line but for what is named
above, so that PollTable, Requests and CommandParser are models of them too.
