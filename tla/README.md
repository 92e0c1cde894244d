# Formal models of the networking labs

TLA+ models of the programs under `src/`: the exercises of a network
programming course, each a small server or client with its own protocol. The
directory keeps, for each modelled program, a module that follows its code
handler by handler, instances for TLC, and a module of proofs checked by TLAPS.

Modelled in most detail are the file transfer over a lossy link of
`lab_8_robust_udp`, the repository's own protocol and its hardest code, and the
IRC server of `hw1_irc_server`, its largest server. Lab 10's version of the
transfer is shown to keep the same abstract promise, and six smaller programs
have a module each: the DNS server, the chat server, the traffic sink, nkat,
the sudoku solver and the unpacker.

## 1. Inventory

| component | state | operations | interactions |
|---|---|---|---|
| `lab_8_robust_udp` client (`client.cpp`) and server (`server.cpp`) | client: `data_map` of unacknowledged packets, last response `s_res`; server: `data_map`, `recvbit`, `comp_size`, `recv_size`, `keep`, `last_send` | rounds of sends, `read_resps`, erase of acknowledged keys; receive loop, paced acknowledgement, `save_to_file`, FIN loop | UDP both ways, over a link that loses, corrupts, delays, reorders, duplicates |
| `hw1_irc_server` (`tircd.cpp`, `handlers/`, `channel.cpp`, `messages.cpp`, `user.cpp`) | `connectionMap`, `nickMap`, channels with members and topic, `sendingQueue`, each `User` | accept, hangup, one handler per command, flush of the queue | epoll batches; handlers call back into the `TIrcd` singleton; Users shared by map, channels and queued messages |
| `hw2_dns_server` (`tiny_dns.cpp`) | zones, record maps, fallback address | parse a query, look it up, synthesise nip.io answers, add authority and additional records, forward unknown zones | blocking call to the fallback nameserver within the handler |
| `lab_10_broadcast_xdp` | as lab 8 | the lab 8 protocol in raw broadcast frames | every host on the segment sees every frame, the sender's own included |
| `lab_5_tcp_chat_server` | `connections_map`, `online_users` | accept, `/name`, `/who`, chat line, hangup, broadcast | epoll batches; sends to every map entry, closed or not |
| `lab_6_traffic_shaping/part2` | byte counter, lists of sinks and command connections | count sink bytes, `/reset`, `/ping`, `/report`, `/clients` | two ports; coalesced TCP reads; signal handler in the client |
| `lab_4_nkat_server` | processes and the descriptors each holds | accept, fork twice, exec, wait | kernel: fork, exec, SIGCHLD |
| `lab_9_sudoku` | the board | `isSafe`, backtracking search, line protocol | one TCP peer |
| `lab_2_binary_format_handling` | an archive in memory | walk entries, check sums, write files | none |
| `lab_3_tcp_client_bitrate` | byte counter, pacing | send at a constant rate, report | timers and signals |
| `lab_8_scoreboard_visualize`, `lab_1_packet_analysis`, `lab_7_ctf`, `lab_8_robust_udp/zstd`, offline tools | none of their own | scripts, challenge files, vendored code | none |

What is hard in each, and what makes it correct:

* **lab 8.** Loss, reordering and duplicates both ways; an acknowledgement that
  is a snapshot and may be old; the size that arrives as one packet among the
  others; byte counts against chunk counts; the gap between the last
  acknowledgement and the written files; two sides that must both stop.
  *Correct* means: nothing is dropped before the server holds it; the saved
  blob is whole and is the client's; nobody waits for something nobody sends.
* **IRC.** Any order of accepts, hangups and lines in one batch; responses sent
  after the batch; Users that outlive their connection; numbers of descriptors
  used again; names in three tables. *Correct* means: every event and response
  finds its own user; names are distinct; a channel's messages reach its
  members and nobody else.
* **DNS.** A forward that blocks for ever when its datagram or the answer is
  lost, and leaves its socket open; late answers to others' questions; sections
  that start as a copy of the query's, and counts of which only some do.
  *Correct*: a local answer is what the zone file says; a relayed one is for
  its asker; all are answered while no forward is lost.
* **lab 10.** As lab 8, but only a FIN ends the client and a host may take its
  own frames for its peer's. *Correct*: the client stops, the blob is whole.
* **Chat.** Entries that are never erased; numbers used again; a failed read
  that is not told from a message. *Correct*: the count is that of the open
  connections, everyone appears under the name they were told, and no event
  finds another connection.
* **Traffic shaping.** Several commands in one read; numbers that go from sinks
  to command channels; bytes still unread at a reset. *Correct*: sink count and
  bytes are right at all times; a client that is told to stop stops.
* **nkat.** The accepting process keeps every descriptor; the middle process
  returns to `accept`; SIGCHLD is ignored by inheritance. *Correct*: an end of
  file reaches the client when its program ends (it does not); no zombies; no
  client waits for another's program.
* **Sudoku.** One board for the whole recursion. *Correct*: what is submitted
  is a solution of the given board if there is one, and the search ends.
* **Unpacker.** The checksum runs over zero-padded words, one of them possibly
  past the file; sizes are rounded up in 32 bits, and offsets are of an int.
  *Correct*: exactly the files whose sum matches are written, and no segment is
  read outside its buffer but for sizes of 2 GiB and more.

## 2. Plan

| order | modules | content | state |
|---|---|---|---|
| 1 | `RobustUdp`, `ReliableTransfer`, `RobustUdpRefinement`, proofs | lab 8, its abstract promise, refinement | done |
| 2 | `TIrcd`, proofs | IRC server | done but for topics |
| 3 | `BroadcastXdp`, proofs | lab 10 as a second implementation of `ReliableTransfer`, with frames every host sees | done |
| 4 | `ChatServer`, `TrafficSink`, `Nkat` | connection maps, descriptor reuse, commands, process trees | done, the chat server proved |
| 5 | `TinyDns` | lookup against the zone file; the forward and its blocking | done but for byte formats |
| 6 | `Sudoku`, `Unpacker` | search and checksum against reference definitions | done |
| 7 | proofs of the modules of 3 to 6 | `ChatServer_proofs`, `BroadcastXdp_proofs`, `Sudoku_proofs`, `Labs_proofs` | done |

Every invariant the passing runs check is proved, for every value of the
constants, and so are both refinements without their fairness. What lab 10
does where a host hears itself is proved of its exit only. Section 8 says what
stays with TLC and why.

Which module uses which: `RobustUdpRefinement` extends `RobustUdp` and
instantiates `ReliableTransfer`; `MCRobustUdp` extends it with constants for
TLC. `MCTIrcd` extends `TIrcd`. `BroadcastXdp` instantiates
`ReliableTransfer` too. `MCLabs` extends the modules of the small programs.
Each `*_proofs` module extends the module it is about, `Labs_proofs` the module
`MCLabs` and, for what they prove, `ChatServer_proofs` and `Sudoku_proofs`. `ChunkLemmas`, which the proofs of both transfers and of the unpacker
use, is about numbers and finite sets only. No module declares a RECURSIVE
operator.

## 3. The file transfer: `RobustUdp`

### State and actions

| module | code |
|---|---|
| `dataMap`, `donebit` | `data_map` (its keys) and `s_res`, `client.cpp` |
| `comp_size`, `recv_size`, `store`, `recvbit`, `keep`, `elapsed` | locals of `main` in `server.cpp`; `store[k]` says whose bytes chunk `k` of its `data_map` holds |
| `files` | what `save_to_file` wrote |
| `cpc`, `spc` | where each `main` is |
| `pkts`, `resps` | datagrams under way |
| `SendRound` | `client.cpp:184-194`, one pass over `data_map` |
| `ReadResp`, `ReadTimeout` | `read_resps`, and the erase and loop condition after its timeout |
| `RecvPacket` | one iteration of the server's receive loop, with `StorePacket`, `NearlyDone`, `AckDue`, `LoopEnds` |
| `SaveToFile`, `AnswerFin` | `save_to_file`, the FIN loop |
| `Tick` | `steady_clock` against `last_send` |
| `LosePacket`, `LoseResponse` | the link |

The network is a set for each direction: a datagram in it may be delivered in
any order, be left behind when delivered (a duplicate) or vanish. Corruption is
a loss, since the kernel drops a datagram with a bad checksum. The blob is its
size and its numbered chunks; what chunk `k` contains is whose it is.

A round of sends is one step. In it the client reads nothing that others write
(`s_res` changes only in `read_resps`), and a packet put on the link earlier or
later is one delivered earlier or later. Processes that end in `fail()` on a
system call error are not modelled. A bit past the end of the bitmap reads as
whatever `wild` says, chosen once; the write of such a bit by the server is
taken to change nothing the model has.

### Assumptions

`SizeAssumption`: a blob is not empty (a zstd frame never is), and sizes are so
far below 2^32 that `recv_size` does not wrap. `WindowAssumption`: the unknown
size `UINT_MAX` divided into chunks is further away than bitmap and window
together, as 2^32/1168 is from 9344 + 100. TLC evaluates them in each run.

### Runs

| run | instance | shows |
|---|---|---|
| `udp_safety` | one client, 5 bytes in 2-byte chunks (a partial last one), window 1 | types; `ErasedIsHeld`, `ExitMeansHeld`: no piece is lost through a false, stale or reordered acknowledgement; `FinMeansSaved`; `SavedIsComplete`; `KeepMeansNearlyDone`; `FrozenAfterLoop`; the inductive `SoloInv` |
| `udp_live` | 4 bytes, two full chunks, fair | `BlockedMeansMissing`; `ImplementsTransfer`, and with fairness `ImplementsFairTransfer`: all arrives, is saved, and the client leaves |
| `udp_exit_before_save` | 3 bytes | finding: the client can end before the files are written |
| `udp_bitmap_capacity` | 4 bytes, a bitmap of 2 bits | finding: a key past the bitmap may never be sent |
| `udp_mixed_clients` | two clients | finding: chunks of two clients are mixed |

*Bounds.* The server's arithmetic distinguishes the size packet, a full chunk,
a last partial chunk and a last full chunk: three chunks with a partial last
one and two full chunks have them all. With three chunks and a window of 1,
`keep` may start with at most two of the four pieces missing, so one step too
soon is seen; when the size comes after two chunks more bits are set than there
are full chunks, the difference wraps, and `keep` stays off. `AckDue` goes both
ways. Sets of datagrams need no bound: they are
finite because packets are determined by sender and key, and responses by the
bitmap.

*Fairness.* `FairSpec` assumes that the processes run (weak fairness of a
round, of a read that times out, of the save, of the clock) and that the link
is lossy but not dead: strong fairness of the delivery of each sequence number,
since a packet sent for ever must arrive at last. A FIN waits in the socket
buffer until the client reads, so a FIN infinitely often on its way is read
infinitely often, even if the client happens to be sending each time it comes.
Nothing is assumed of acknowledgements: the FIN alone must end the client.

### Proofs

`RobustUdp_proofs` is about any number of clients, any sizes and any bitmap.
Its inductive invariant is `AckInv`: a bit on its way from the server's bitmap
through a response and `s_res` to an erased key never runs ahead of what the
server holds, and a FIN never ahead of the files. `ErasedIsHeld` alone is not
inductive: the erase trusts `donebit`, that trusts a response, that trusts
`recvbit`, and each needs its conjunct. From it follow `ErasedHeld`, `FinSaved`
and the action property `Frozen`.

`RobustUdpSolo_proofs` assumes one client. `SoloInv` adds that `recv_size`
counts exactly the stored chunks, that all of them are the client's, and that
the loop has ended exactly when that count covers the size. The step from
*the count covers the size* to *every chunk is there* is arithmetic about
intervals (`ChunksInterval`, `CoverIsAll`), with cardinalities. From it follow
`SavedComplete`, `BlockedMissing` and `ExitHeld`. `KeepNearlyDone` needs no
more invariant than that, but more arithmetic: `keep` is set when what remains
of the *bytes* is less than a window, `recv_size` is DATA_SIZE times the chunks
held, the last chunk may be a partial one, and the size packet counts as a
piece. `ChunkCount` turns the bytes into the number of chunks missing.

The module also shows that `RobustUdp` implements `ReliableTransfer`
(`Implements`): initial states map to initial states, and under `SoloInv` each
step maps to a step or a stutter.

`ImplementsFairTransfer` is model-checked only, as all liveness is.

### Findings

1. *The client may end before the files exist* (`server.cpp:199`). The last
   acknowledgement leaves before `save_to_file`.
2. *More chunks than bits* (`client.cpp:186`). `donebit[key]` is read past its
   9344 bits, which the announced 1000 files exceed several times over.
3. *One session for all* (`server.cpp:168`). `Design.md` speaks of several
   connections; chunks of two clients end up in one blob.

## 4. The IRC server: `TIrcd`

### State and actions

| module | code |
|---|---|
| `connectionMap`, `nickMap`, `sendingQueue`, `channels`, `members` | members of `TIrcd` and `Channel` |
| `userFd`, `nick` | `connFd` and `nickname` of each `User` |
| `epollFds` | descriptors open and in the epoll set |
| `batch`, `pc` | events the `for` loop of `Work` has not come to; where `Work` is |
| `EpollWait`, `Take` | `epoll_wait`; the loop reaches one event |
| `RegisterConnection`, `AcceptFails` | `accept`, with the lowest free number, or `exit(1)` without one |
| `UnregisterConnetion` | end of file or an empty line (the code's spelling) |
| `HandleNick` ... `HandleDefault` | the handlers; a line with an error is `HandleError`, which only answers |
| `SendMessages`, `Reached` | the flush: recipients are looked up by descriptor number |
| `BrokenPipe` | `send` to a peer that is gone kills the process |

A `User` is an element of `Users`, one per accepted connection; it stays in
channels after its connection is closed, as the `shared_ptr` does. `members`
counts how often a user is in the vector of a channel: order in it is not told
apart. One queued response stands for all that a handler pushes for its
sender; the queue is a set, as a connection has one line handled in a batch.

What a client does is chosen when the server reads it, so a client's step
needs no action. A line is taken as read when it is complete; see the hazard of
the blocking `read`. Topics and the other names of a user are left out.
`NICK :` asks for the empty name, which is also every new user's: the model
keeps it, since `UnregisterConnetion` erases it from `nickMap`.

### Runs

| run | shows |
|---|---|
| `irc_safety` | `EventsHaveUsers`: no event of a batch refers to a connection an earlier one closed (the code would dereference null); `NicknamesUnique`; `RepliesGoHome` and `NickFixedWhileQueued`: what is queued goes to its sender's own connection, signed with the name it asked under; the inductive `Inv` |
| `irc_stranger_hears` | finding: a connection that never joined gets a channel's messages |
| `irc_name_leak` | finding: a name nobody has is refused |

*Bounds.* Three connections on two descriptors: one number is used twice and
accept can find none free. Two nicknames and the empty one allow a rename, a
refusal and a name given up. One channel joined up to `MaxJoins` = 2 times by
a user gives the second entry that `PART` leaves behind. Users and nicknames
are symmetric. The server stops when `accept` fails or a pipe is broken, so
deadlock is not checked. No liveness is claimed: `read` and `send` block.

### Proofs

`TIrcd_proofs`, for any number of connections, descriptors, names and
channels. The inductive invariant `Inv` has three parts besides types.
`ConnInv`: epoll set, map and users agree. `LoopInv`: every event left has an
open connection, the sender of what is queued is connected and has *no event
left in the batch* that could close or rename it, and nothing is queued while
the loop waits; this is what `RepliesGoHome` needs and does not say itself.
`NickInv`: a connected user's name is entered as its own, so a rename, which
takes a name that is not entered, cannot take it, and a hangup, which erases
the leaver's, cannot free it. `TypeCorrect`, `NoNullUser`, `UniqueNames`,
`RepliesHome` and the action property `NamesHold` follow.

### Findings

1. *Strangers hear a channel* (`tircd.cpp:187`). A closed connection's user
   stays in its channels, and its number may be somebody else's by the time of
   the send.
2. *Names leak* (`command_handler.cpp:78`). A rename leaves the old name in
   `nickMap`; nothing removes it, not even its owner's hangup.

Met while modelling and not counted as findings: `TOPIC` creates the channel
it is refused on; `JOIN` twice needs `PART` twice; the message of the day is
sent on `USER` whether or not there is a nickname; `PING`, `QUIT` and `NAMES`
are unknown commands.

## 5. The broadcast transfer: `BroadcastXdp`

Lab 10 takes lab 8's loop to raw broadcast frames, and changes what ends it:
`donebit` is never written, so acknowledgements do nothing and the client goes
on sending everything until a FIN comes. `SendRound`, `ReadResp` and
`ReadTimeout` are the client (`client.cpp:199-250`), `RecvFrame` with
`StoreFrame`, `NearlyDone`, `AckDue` and `LoopEnds` one turn of the server's
loop (`server.cpp:220-257`), `SaveToFile` and `AnswerFin` its end. A frame is
heard by every host; with `OwnFrames` the server hears its own, as it does
where both programs run on one machine.

| run | instance | shows |
|---|---|---|
| `xdp_transfer` | hosts of their own, 7 bytes in 2-byte chunks, a bitmap of 5 bits, window 2 | `ExitMeansSaved` (what lab 8 does not have: here the exit waits for the files), `SavedIsWhole`, the inductive `XdpInv`, the refinement `ImplementsTransfer`, and with fairness `ImplementsFairTransfer` |
| `xdp_own_ack` | one host | finding: the server's own acknowledgement is read as the size packet, and a truncated blob is saved |

*Bounds and fairness.* As for lab 8: the last chunk is a partial one, the window
opens before the end. Fairness is that of running processes and of frames that,
sent again and again, are heard at last.

*Proofs.* `BroadcastXdp_proofs`, for any blob, DATA_SIZE, bitmap and window.
`ExitSaved` holds wherever the programs run, from `FinTrails`: files come with
the end of `save_to_file` and FINs after it. The rest assumes `~OwnFrames`,
which `xdp_own_ack` shows to be necessary. `XdpInv` says that the server hears
pieces only, that `recv_size` is DATA_SIZE times the number of chunks held, so
that no copy counts, and that it is in its loop exactly while that does not
cover the size. `SavedIsWhole` alone is not inductive: that the count covers
the size says that *every* chunk is there only by the same interval lemma as in
lab 8, and only if nothing else was counted. `SavedWhole`, `XdpTypes` and the
refinement `XdpImplements` follow.

## 6. The small programs: `MCLabs`

They share nothing with each other; run `small_labs` checks them side by side:
`program` says which one a behaviour is of, and the others stay in their
initial states, so its state count is a sum. Fairness is each program's own.

| module | state and actions | code | properties |
|---|---|---|---|
| `ChatServer` | `connections_map`, `online_users`, descriptors, the batch; `AcceptUser`, `Leave`, `ReadFails`, `Rename`, `Say` | `best_server.cpp` `main`, `handle_read` | `CountIsOpen`, `NamesAreTold`, `EventsAreOpen` |
| `TrafficSink` | `is_sink` by number, counter, bytes and commands on their way; `AcceptConn`, `ReadCommand`, `ReadData`, `CloseConn`; the client's `SendReset` ... `Signal`, `ReportDone` | `server.cpp`, `client.cpp` | `SinksAreCounted`, `BytesAreConserved`, `SignalledExits` |
| `Nkat` | for each process what it does, holds and ignores; `Accept`, `ForkMiddle`, `ForkProg`, `ProgEnds`, `WaitReturns`, `AcceptFails` | `nkat.c` `main`, and what the kernel does at `fork` and `exit` | `NoZombies`, `ServedWhileOthersRun` |
| `TinyDns` | queued datagrams, the client being forwarded for, one socket per forward; `SendResponse`, `QueryFallbackNameserver`, `Relay`; loss and copies | `tiny_dns.cpp` `Work` to `QueryFallbackNameserver` | `AnswersAreTheZones`, `RepliesAreTheAskers`, `AnsweredUnlessLost` |
| `Sudoku` | board, stack of calls in their loop; `SolveCall`, `TryNum`, `ReturnFalse`, `Submit` | `solver.cpp` | `SolvesWhatCanBe`, `SearchEnds` |
| `Unpacker` | entry the loop is at, written files, whether the process was killed; `Extract`, `Overrun` | `unpacker.c` | `UnpacksTheIntact` |

`LabsInv` joins the inductive invariants behind these properties, so that TLC
checks on small instances what `Labs_proofs` proves. Only the solver's
`SearchInv` is left to its proof: it quantifies over all boards there are,
4^16 of them in the smallest instance of interest.

What each shows. *Chat*: a reset connection, whose failed read is broadcast as
an empty message, is still counted out exactly once; entries of connections
long gone never sign for the next owner of their number; no batch holds an
event of a closed connection, since only an event closes its own. *Sink*: no
byte is lost or counted twice between counter and reported resets, whoever
resets; a command that TCP joined to another one is lost, yet the client's
handler always gets an answer. *nkat*: as SIGCHLD is ignored before the first
fork, no process of any generation stays a zombie; a program that never ends
holds up its middle process and nobody else. *DNS*: a local answer is compared
with the zone file as a set of lines, behind whatever answers and authorities
the query brought along, which `HandleRequest` copies and sends back; a relayed
answer is always to the asker's question, since the socket is new each time, which is also what leaks
descriptors; whoever got a socket is answered, and so are local questions
behind any number of forwards, unless the loop waits for what was lost.
*Sudoku*: checked against the existence of a completion. *Unpacker*: checked against
the sum over the file's own bytes. `BufferSize` wraps as the `uint32_t` of
`unpacker.c:106` does, and `Overrun` is the process that reads its segments
past a buffer of no bytes; where the buffer is right but the offset of its last
segment is no int (`Unfit`), the code is undefined and may do either.

*Bounds.* Chat: three users on two numbers, so numbers are used twice and
accept can fail. Sink: two clients, one data connection of two bytes each, so
that resets interleave with data and numbers change roles. nkat: three
connections and two descriptors a process, so that the first process runs out.
DNS: three clients, one of which asks each kind of question there is a way
through `HandleRequest` for, among them one with answers and authorities of its
own and two that begin with an address; two sockets, so that a late answer can meet
another's forward and a socket can be missing; two copies of an answer. Sudoku:
boards of four rows instead of nine (`Box` = 2), among them the blank one, boards that
need deep backtracking and boards without a solution. Unpacker: a first file of
up to five bits in segments of two, with any content and checksum, before a
second that has its name, is cut off, cannot be created, or is too large:
sizes have twelve values (`SizeValues`, 2^32 in the code), so that one of six
bits has an offset that is no int and one of ten wraps.

*Fairness.* Servers run, and epoll reports a descriptor that is ready until it
is served. The programs nkat starts, the users and the clients' signals are
under no fairness; the foreign name server answers what reaches it. The DNS
loop takes the next datagram when it is in `recvfrom`, whatever is to be done
with it, and relays the answer it waits for once that is there.
`AnsweredUnlessLost` excuses a query only if its own forward found no socket or
was not sent (`failed`), or while the loop is in `recvfrom` for an answer that
is not there and will not come (`Stuck`), since it has no timeout. A forward
that took the last socket is owed its answer, and so is every local query after
it. The chat server
has no liveness property: a user who does nothing is owed nothing.

The programs may stop (a search that is done, all clients served, a server
that ends when accept fails), so deadlock is not checked.

*Proofs.* `ChatServer_proofs` proves the chat server's three properties for any
finite set of users, any descriptor numbers and any non-empty set of names.
`NamesAreTold` is not inductive: a rename could change the entry of another
user if two had one number, so `ChatInv` adds that open connections have
numbers of their own. `CountIsOpen` could be lost by a user who comes a second
time, so users still to come have no number; and `EventsAreOpen`, stated
whether or not the server still runs, is what a leave keeps, because the events
left in a batch are of other numbers than the one it closes. `ChatCorrect` is
the inductive invariant, `CountCorrect`, `NamesCorrect` and `EventsCorrect`
follow from it.

`Sudoku_proofs` proves the search right for every size of board and every
given board without a contradiction. The invariant has three parts. `StackInv`:
the calls are blanks of the given board in order, each with its number on the
board, but for the last while it looks for one. `BoardInv`: elsewhere the board
is the given one, no blank before the cell in hand is passed over, no two
numbers contradict each other. `SearchInv`: every solution is still ahead; it
agrees with all the calls' numbers, or with those of the first calls and then
branches off at one that has yet to try its number. When the stack is empty
nothing is ahead, so there is none; when every cell is filled, the board itself
is one. `SudokuCorrect` is the invariant, `SudokuSolves` what follows.

`Labs_proofs` has the others, each with an invariant stated in its module.
nkat (`NkatNoZombies`): a process that has a child ignores SIGCHLD, since
`signal` comes before `fork` and forks inherit it (`IgnoreInv`). Sink
(`SinksCounted`, `SinkBytesConserved`): two open connections never share a
number, and no sink has more unread than was sent (`LinkInv`); without the
first, the close of one would relabel the other. DNS (`DnsRepliesAreTheAskers`):
a client waits in the inbox once or is the asker, has no reply until then, and
the newest socket carries the asker's query (`WaitInv`). Unpacker
(`UnpacksIntact`): the property is inductive with the types, but for the sum,
where `SegmentsAreTheBytes` maps the ones of byte *k* of all padded segments one
to one to those of the file. `LabsTypes` puts the parts together for the
specification that the run checks, as does `LabsCorrect` for `LabsInv`. For
these proofs `NkatAssumption` says that somebody calls, and `UnpackAssumption`
that sizes are numbers of a width, as they are; where the size is not in reach
of that width, `WrapsOverrun` and `UnfitIsLarge` show that no segment is read
outside its buffer.

`DnsAnswersAreTheZones` compares what `HandleRequest` collects, in three loops
over lists of records that `ParseZoneFile` sorted by type, with the lines of the
zone file as a set. Every one of those lists is a concatenation of one record or
none for each line (`PushIf`), so all rests on what `FlattenSeq` returns:
`FlattenFacts` says that its elements are those of the parts, and of no others.
That is induction over the number of parts. The library's theorem of induction
takes the property as an operator, which the provers cannot instantiate;
`SetInduction` takes it as a set of numbers, and follows from the well-founded
order of the numbers. `ZoneRecords`, `FoundFacts` and `AddressesFacts` follow
the loops, and `ZoneResponseIsTheZones` puts the message together, its counts
included: each section is the query's own with these lists behind it, and an
SOA record is looked for among what is behind. The property is not inductive
without `ForwardInv`: a relayed answer
is not the zones' to get right, so it must be shown that no fallback socket ever
carries a query that the zones answer. `DnsAssumption` says of the inputs what
these steps need: a query has a question (`HandleRequest` reads the first one unasked), its
header counts its additional records, each zone
file has an SOA line (line 327 reads the first one unasked), and lines of types
that `ParseZoneFile` skips are left out of `ZoneFiles`.

Run `nkat_end`, finding: *the client is not told the end* (`nkat.c:57`). The
accepting process never closes `connfd`, so a connection whose program has
ended stays open.

Met while modelling and not counted as findings. Listed among the hazards: the
DNS server takes any name of seven labels for an address, whatever its domain,
and no name with more or fewer, while its README asks for any number of labels
below its own domain (`tiny_dns.cpp:248`, `README.md:56`), so that
`AnswersAreTheZones` leaves both kinds of names out; it sends a query's own
answers and authorities back uncounted; the measuring client reports before it
closes its sinks. Not listed: `/who` lists users that left and the chat
banner's count is one short; the DNS server follows no CNAME, finds no zone of
more than two labels, and needs an SOA line in every zone.

## 7. Not modelled

Most lines of the repository are the vendored zstd under `lab_8_robust_udp`,
about 104000 of some 109000: of it only the size of a compressed frame matters
here, which is a parameter. The share of all lines that the models cover is
small for that reason, and cannot be otherwise. Also left out: the scripts of
labs 1 and 3 (part 1), the scoreboard plot and the challenge files (no state of
their own or presentation only), lab 8's offline tools, and `lab_3`'s pacing
loop, which is about real time. In the modelled programs: topics and message
texts of the IRC server, byte formats of DNS messages, parsing of archive
headers, system calls that fail where the code only gives up.

## 8. Checking

    tlc -workers 2 -config RobustUdp_safety.cfg MCRobustUdp
    tlapm RobustUdp_proofs.tla

and likewise for the other configurations and for `ChunkLemmas`,
`RobustUdpSolo_proofs`, `BroadcastXdp_proofs`, `TIrcd_proofs`,
`ChatServer_proofs`, `Sudoku_proofs` and `Labs_proofs`.

What no theorem states, and why: liveness (`ImplementsFairTransfer` of both
transfers, `SignalledExits`, `ServedWhileOthersRun`, `AnsweredUnlessLost`,
`SearchEnds`), since the prover has no rules for fairness; these are
as good as the instances above. Of lab 10 with own frames `ExitMeansSaved`
is proved and nothing else: there a bitmap is read as a size through `LowWord`,
a sum of powers of two, and the prover has no rules for powers.

In each module the operators marked *Mutant* are plausible bugs of the
definition that follows; put in its place, each makes a property of its run fail.
`PROJECT.json` lists components, runs, mutants, the map from definitions to
source lines, findings, hazards and theorems.
