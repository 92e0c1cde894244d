------------------------------ MODULE RobustUdp ------------------------------
(***************************************************************************)
(* The file transfer of lab_8_robust_udp: client.cpp numbers the pieces of *)
(* one compressed blob (key 0 is its size, keys 1.. are the chunks) and    *)
(* sends every piece it has no acknowledgement for, round after round;     *)
(* server.cpp collects them, answers now and then with the bitmap of what  *)
(* it holds, writes the files when it holds everything, and from then on   *)
(* answers every packet with a FIN.                                        *)
(*                                                                         *)
(* The network may lose, delay, reorder and duplicate datagrams both ways. *)
(* A corrupted datagram is one the kernel's UDP checksum discards, a loss. *)
(***************************************************************************)
EXTENDS Integers, FiniteSets

CONSTANTS
    Clients,      \* client processes that talk to the one server
    NoClient,     \* "no chunk stored": not a client
    CompSize,     \* CompSize[c]: bytes of c's compressed blob
    DATA_SIZE,    \* payload bytes of a datagram (1168)
    BitmapBits,   \* bits of the acknowledgement bitmap (DATA_SIZE * 8)
    UINT_MAX,     \* the server's "size not known yet"
    KeepWindow    \* the server acknowledges faster below this many (100)

(* Sizes are positive (a zstd frame is never empty) and small enough for   *)
(* the server's 32-bit recv_size not to wrap; the unknown size is far from *)
(* "nearly done", as UINT_MAX / 1168 is from 8 * 1168 + 100.               *)
ASSUME ClientAssumption == NoClient \notin Clients
ASSUME SizeAssumption ==
    /\ DATA_SIZE \in Nat \ {0} /\ BitmapBits \in Nat /\ UINT_MAX \in Nat
    /\ CompSize \in [Clients -> Nat \ {0}]
    /\ \A c \in Clients : CompSize[c] + DATA_SIZE <= UINT_MAX
ASSUME WindowAssumption ==
    /\ KeepWindow \in Nat
    /\ (UINT_MAX \div DATA_SIZE) - BitmapBits >= KeepWindow

(* The chunks of client c: chunk k covers the bytes from                   *)
(* (k-1)*DATA_SIZE on.                                                     *)
Chunks(c) == {k \in 1..CompSize[c] : (k - 1) * DATA_SIZE < CompSize[c]}
Keys(c)   == {0} \cup Chunks(c)
Seqs      == UNION {Keys(c) : c \in Clients}

(* Bit k of a bitmap: only the first BitmapBits keys have one.             *)
HasBit(k) == k < BitmapBits

Packet   == [from : Clients, seq : Seqs]
Response == [fin : BOOLEAN, bits : SUBSET Seqs]
NoFiles  == [size |-> UINT_MAX, chunk |-> [k \in Seqs |-> NoClient]]

VARIABLES
    \* each client
    cpc,        \* "send": a round, "read": read_resps, "exit": terminated
    dataMap,    \* keys still in its data_map
    donebit,    \* bits of s_res, the last response it read
    wild,       \* keys past the bitmap whose out-of-range bit reads as 1
    \* the network
    pkts,       \* datagrams under way to the server
    resps,      \* resps[c]: responses under way to client c
    \* the server
    spc,        \* "recv", then "save" (loop left, files not written), "fin"
    comp_size,
    recv_size,
    store,      \* its data_map: whose bytes chunk k holds
    recvbit,    \* the bitmap in send_hdr
    keep,       \* acknowledge every 10 ms instead of every 500 ms
    elapsed,    \* since last_send: 0 is <= 10 ms, 1 is <= 500 ms, 2 more
    files       \* what save_to_file wrote

clientVars == <<cpc, dataMap, donebit, wild>>
netVars    == <<pkts, resps>>
serverVars == <<spc, comp_size, recv_size, store, recvbit, keep, elapsed, files>>
vars       == <<clientVars, netVars, serverVars>>

TypeOK ==
    /\ cpc \in [Clients -> {"send", "read", "exit"}]
    /\ dataMap \in [Clients -> SUBSET Seqs]
    /\ donebit \in [Clients -> SUBSET Seqs]
    /\ wild \in [Clients -> SUBSET Seqs]
    /\ pkts \subseteq Packet
    /\ resps \in [Clients -> SUBSET Response]
    /\ spc \in {"recv", "save", "fin"}
    /\ comp_size \in Nat /\ recv_size \in Nat
    /\ store \in [Seqs -> Clients \cup {NoClient}]
    /\ recvbit \subseteq Seqs
    /\ keep \in BOOLEAN /\ elapsed \in 0..2
    /\ files \in [size : Nat, chunk : [Seqs -> Clients \cup {NoClient}]]

Init ==
    /\ cpc = [c \in Clients |-> "send"]
    /\ dataMap = [c \in Clients |-> Keys(c)]
    /\ donebit = [c \in Clients |-> {}]
    /\ wild \in [Clients -> SUBSET {k \in Seqs : ~HasBit(k)}]
    /\ pkts = {} /\ resps = [c \in Clients |-> {}]
    /\ spc = "recv" /\ comp_size = UINT_MAX /\ recv_size = 0
    /\ store = [k \in Seqs |-> NoClient]
    /\ recvbit = {} /\ keep = FALSE /\ elapsed = 0
    /\ files = NoFiles

-----------------------------------------------------------------------------
(* The client.                                                             *)

(* donebit[key] as the client reads it: past the end of the bitmap it is   *)
(* whatever bit lies in memory there.                                      *)
ReadsDone(c, k) == IF HasBit(k) THEN k \in donebit[c] ELSE k \in wild[c]

(* One round: every key still in data_map and not marked done is sent. The *)
(* client looks at nothing else meanwhile, so the sends are one step.      *)
SendRound(c) ==
    /\ cpc[c] = "send"
    /\ pkts' = pkts \cup {[from |-> c, seq |-> k] :
                             k \in {j \in dataMap[c] : ~ReadsDone(c, j)}}
    /\ cpc' = [cpc EXCEPT ![c] = "read"]
    /\ UNCHANGED <<dataMap, donebit, wild, resps, serverVars>>

(* read_resps reads one response; it replaces the previous one whatever    *)
(* their order, and a FIN ends the process. A delivery consumes the        *)
(* datagram unless the network duplicates it.                              *)
ReadResp(c, r, rest) ==
    /\ cpc[c] = "read" /\ r \in resps[c] /\ rest \in {resps[c], resps[c] \ {r}}
    /\ donebit' = [donebit EXCEPT ![c] = r.bits]
    /\ resps' = [resps EXCEPT ![c] = rest]
    /\ cpc' = IF r.fin THEN [cpc EXCEPT ![c] = "exit"] ELSE cpc
    /\ UNCHANGED <<dataMap, wild, pkts, serverVars>>

(* Mutant: the bitmap read as a cumulative acknowledgement, everything up  *)
(* to its highest bit dropped.                                             *)
ReadTimeoutCumulative(c) ==
    /\ cpc[c] = "read"
    /\ dataMap' = [dataMap EXCEPT ![c] = {k \in @ : \A b \in donebit[c] : k > b}]
    /\ cpc' = [cpc EXCEPT ![c] = IF dataMap'[c] = {} THEN "exit" ELSE "send"]
    /\ UNCHANGED <<donebit, wild, netVars, serverVars>>

(* recv timed out: drop every key the last response marks, then either     *)
(* start another round or, with nothing left, return from main.            *)
ReadTimeout(c) ==
    /\ cpc[c] = "read"
    /\ dataMap' = [dataMap EXCEPT ![c] = {k \in @ : ~(HasBit(k) /\ k \in donebit[c])}]
    /\ cpc' = [cpc EXCEPT ![c] = IF dataMap'[c] = {} THEN "exit" ELSE "send"]
    /\ UNCHANGED <<donebit, wild, netVars, serverVars>>

-----------------------------------------------------------------------------
(* The server.                                                             *)

(* do_reponse: three copies to the sender of the packet just received; one *)
(* member of the set stands for as many copies as arrive.                  *)
Respond(c, fin, bits) ==
    resps' = [resps EXCEPT ![c] = @ \cup {[fin |-> fin, bits |-> bits]}]

(* recvfrom returns packet p, consumed or left behind by a duplicate.      *)
Deliver(p, rest) ==
    /\ p \in pkts /\ rest \in {pkts, pkts \ {p}}
    /\ pkts' = rest

(* Mutant: every copy of a chunk is counted.                               *)
StorePacketCountsCopies(p) ==
    \/ p.seq = 0 /\ comp_size' = CompSize[p.from] /\ UNCHANGED <<recv_size, store>>
    \/ /\ p.seq # 0 /\ store' = [store EXCEPT ![p.seq] = p.from]
       /\ recv_size' = recv_size + DATA_SIZE /\ UNCHANGED comp_size

(* Mutant: a chunk ahead of the size is dropped, though its bit is set.    *)
StorePacketNeedsSize(p) ==
    \/ p.seq = 0 /\ comp_size' = CompSize[p.from] /\ UNCHANGED <<recv_size, store>>
    \/ /\ p.seq # 0 /\ store[p.seq] = NoClient /\ comp_size # UINT_MAX
       /\ store' = [store EXCEPT ![p.seq] = p.from]
       /\ recv_size' = recv_size + DATA_SIZE /\ UNCHANGED comp_size
    \/ /\ p.seq # 0 /\ (store[p.seq] # NoClient \/ comp_size = UINT_MAX)
       /\ UNCHANGED <<comp_size, recv_size, store>>

(* Mutant: counting down what is left, from 0 when no size is known yet.   *)
StorePacketCountsDown(p) ==
    \/ p.seq = 0 /\ comp_size' = CompSize[p.from] /\ recv_size' = CompSize[p.from]
       /\ UNCHANGED store
    \/ /\ p.seq # 0 /\ store' = [store EXCEPT ![p.seq] = p.from]
       /\ recv_size' = recv_size - DATA_SIZE /\ UNCHANGED comp_size

(* The size, or a chunk; only the first copy of a chunk is stored.         *)
StorePacket(p) ==
    \/ /\ p.seq = 0
       /\ comp_size' = CompSize[p.from]
       /\ UNCHANGED <<recv_size, store>>
    \/ /\ p.seq # 0 /\ store[p.seq] = NoClient
       /\ store' = [store EXCEPT ![p.seq] = p.from]
       /\ recv_size' = recv_size + DATA_SIZE
       /\ UNCHANGED comp_size
    \/ /\ p.seq # 0 /\ store[p.seq] # NoClient
       /\ UNCHANGED <<comp_size, recv_size, store>>

(* Mutant: a whole window may be left.                                     *)
NearlyDoneAtWindow(size, bits) ==
    LET full == size \div DATA_SIZE
    IN  full >= Cardinality(bits) /\ full - Cardinality(bits) <= KeepWindow

(* comp_size / DATA_SIZE - recvbit.count() < 100 in size_t: a negative     *)
(* difference wraps to a huge number and is not below the window.          *)
NearlyDone(size, bits) ==
    LET full == size \div DATA_SIZE
    IN  full >= Cardinality(bits) /\ full - Cardinality(bits) < KeepWindow

AckDue(k) == elapsed >= (IF k THEN 1 ELSE 2)

(* Mutants: the loop ends one datagram early, or only past the size.       *)
LoopEndsEarly(size, got)  == size # UINT_MAX /\ got + DATA_SIZE >= size
LoopEndsStrict(size, got) == size # UINT_MAX /\ got > size

(* The loop condition of main, negated.                                    *)
LoopEnds(size, got) == size # UINT_MAX /\ got >= size

(* One iteration of the receive loop: note and store the packet, perhaps   *)
(* acknowledge, test whether to go on. The write of a bit past the bitmap  *)
(* is taken to hit memory nothing reads.                                   *)
RecvPacket(p, rest) ==
    /\ spc = "recv"
    /\ Deliver(p, rest)
    /\ recvbit' = recvbit \cup {k \in {p.seq} : HasBit(k)}
    /\ StorePacket(p)
    /\ keep' = (keep \/ NearlyDone(comp_size', recvbit'))
    /\ \/ AckDue(keep') /\ Respond(p.from, FALSE, recvbit') /\ elapsed' = 0
       \/ ~AckDue(keep') /\ UNCHANGED <<resps, elapsed>>
    /\ spc' = IF LoopEnds(comp_size', recv_size') THEN "save" ELSE "recv"
    /\ UNCHANGED <<files, clientVars>>

(* save_to_file writes what was collected and empties data_map.            *)
SaveToFile ==
    /\ spc = "save"
    /\ files' = [size |-> comp_size, chunk |-> store]
    /\ store' = [k \in Seqs |-> NoClient]
    /\ spc' = "fin"
    /\ UNCHANGED <<comp_size, recv_size, recvbit, keep, elapsed, clientVars, netVars>>

(* Mutants: packets are answered with a FIN while the files are being      *)
(* written; they are stored as before; only the size packet is answered.   *)
AnswerFinWhileSaving(p, rest) ==
    /\ spc \in {"save", "fin"} /\ Deliver(p, rest) /\ Respond(p.from, TRUE, recvbit)
    /\ UNCHANGED <<clientVars, serverVars>>
AnswerFinStoring(p, rest) ==
    /\ spc = "fin" /\ Deliver(p, rest) /\ Respond(p.from, TRUE, recvbit)
    /\ StorePacket(p)
    /\ UNCHANGED <<clientVars, spc, recvbit, keep, elapsed, files>>
AnswerFinToSizeOnly(p, rest) ==
    /\ spc = "fin" /\ Deliver(p, rest)
    /\ IF p.seq = 0 THEN Respond(p.from, TRUE, recvbit) ELSE UNCHANGED resps
    /\ UNCHANGED <<clientVars, serverVars>>

(* The final loop: every packet is answered with a FIN.                    *)
AnswerFin(p, rest) ==
    /\ spc = "fin"
    /\ Deliver(p, rest)
    /\ Respond(p.from, TRUE, recvbit)
    /\ UNCHANGED <<clientVars, serverVars>>

(* steady_clock moves on; only the receive loop looks at it.               *)
Tick ==
    /\ spc = "recv" /\ elapsed < 2
    /\ elapsed' = elapsed + 1
    /\ UNCHANGED <<spc, comp_size, recv_size, store, recvbit, keep, files,
                   clientVars, netVars>>

-----------------------------------------------------------------------------
(* The link loses a datagram.                                              *)
LosePacket(p) ==
    /\ p \in pkts /\ pkts' = pkts \ {p}
    /\ UNCHANGED <<resps, clientVars, serverVars>>

LoseResponse(c, r) ==
    /\ r \in resps[c]
    /\ resps' = [resps EXCEPT ![c] = @ \ {r}]
    /\ UNCHANGED <<pkts, clientVars, serverVars>>

ClientStep(c) ==
    \/ SendRound(c)
    \/ \E r \in resps[c] : \E rest \in {resps[c], resps[c] \ {r}} : ReadResp(c, r, rest)
    \/ ReadTimeout(c)

ServerStep ==
    \/ \E p \in pkts : \E rest \in {pkts, pkts \ {p}} :
          RecvPacket(p, rest) \/ AnswerFin(p, rest)
    \/ SaveToFile
    \/ Tick

Lose ==
    \/ \E p \in pkts : LosePacket(p)
    \/ \E c \in Clients : \E r \in resps[c] : LoseResponse(c, r)

Next == (\E c \in Clients : ClientStep(c)) \/ ServerStep \/ Lose

Spec == Init /\ [][Next]_vars

(* Fairness: the processes run (a round and a read that times out end, the *)
(* save ends, time passes), and the link is lossy but not dead: a packet   *)
(* sent again and again is delivered at last, and so is a FIN, which the   *)
(* socket keeps until the client reads, whatever the client is doing when  *)
(* it arrives.                                                             *)
TakePacket(k) ==
    \E p \in pkts : p.seq = k /\ (RecvPacket(p, pkts \ {p}) \/ AnswerFin(p, pkts \ {p}))

ReadFin(c) == \E r \in resps[c] : r.fin /\ ReadResp(c, r, resps[c] \ {r})
FinOnItsWay(c) == cpc[c] # "exit" /\ \E r \in resps[c] : r.fin

Fairness ==
    /\ \A c \in Clients : /\ WF_vars(SendRound(c))
                          /\ WF_vars(ReadTimeout(c))
                          /\ []<>FinOnItsWay(c) => []<><<ReadFin(c)>>_vars
    /\ \A k \in Seqs : SF_vars(TakePacket(k))
    /\ WF_vars(SaveToFile)
    /\ WF_vars(Tick)

FairSpec == Spec /\ Fairness

-----------------------------------------------------------------------------
(* Correctness.                                                            *)

(* What the server holds, in its memory or in the files it wrote.          *)
HeldChunk(k) == store[k] # NoClient \/ files.chunk[k] # NoClient
Held(k)      == IF k = 0 THEN comp_size # UINT_MAX ELSE HeldChunk(k)
HoldsAll(c)  == \A k \in Keys(c) : Held(k)

(* No piece is lost through a false or stale acknowledgement: whatever the *)
(* client has dropped from data_map, the server holds the bytes of. The    *)
(* way there is long: packet, bit, response, any reordering, s_res, erase. *)
ErasedIsHeld == \A c \in Clients : \A k \in Keys(c) \ dataMap[c] : Held(k)

(* A client terminates only when the server no longer needs it: all of its *)
(* pieces are held, whether it left on a FIN or on a complete bitmap.      *)
ExitMeansHeld == \A c \in Clients : cpc[c] = "exit" => HoldsAll(c)

(* A FIN means what Design.md says, end of transmission: wherever a FIN is *)
(* under way, and wherever a client left on one, the files are written.    *)
FinMeansSaved ==
    \A c \in Clients :
        /\ \A r \in resps[c] : r.fin => files # NoFiles
        /\ cpc[c] = "exit" /\ dataMap[c] # {} => files # NoFiles

(* The blob the server decompresses is complete and is the client's: the   *)
(* byte count that ends the loop is never reached early, last partial      *)
(* chunk or not. (One client; see EveryClientServed for more.)             *)
Image(c) == [size  |-> CompSize[c],
             chunk |-> [k \in Seqs |-> IF k \in Chunks(c) THEN c ELSE NoClient]]
SavedIsComplete ==
    files # NoFiles => \E c \in Clients : files = Image(c)

(* ... and never late: blocked in recvfrom, the server still lacks a       *)
(* piece, one the client will send again because it did not drop it.       *)
BlockedMeansMissing ==
    spc = "recv" => \A c \in Clients : \E k \in Keys(c) : ~Held(k) /\ k \in dataMap[c]

(* The fast acknowledgement pace never starts before the size is known and *)
(* all but a window of the chunks are there, and its test never takes the  *)
(* unknown size for a small remainder.                                     *)
KeepMeansNearlyDone ==
    keep => /\ comp_size # UINT_MAX
            /\ \A c \in Clients : Cardinality({k \in Keys(c) : ~Held(k)}) <= KeepWindow + 1

(* In the window between the loop and the FIN the server must not take     *)
(* anything more: the size, the count and, but for save_to_file itself,    *)
(* the collected chunks stay as the loop left them.                        *)
FrozenAfterLoop ==
    [][spc # "recv" => /\ UNCHANGED <<comp_size, recv_size, recvbit>>
                       /\ store' # store => files' # files]_vars

(* The transfer ends: the server gets everything and writes the files.     *)
EventuallySaved == <>(files # NoFiles)

(* README.md: the transmitted files are checked right after the client     *)
(* terminates, so they should be written by then.                          *)
ExitMeansSaved == \A c \in Clients : cpc[c] = "exit" => files # NoFiles

(* Design.md: several connections at the same time. A client that left has *)
(* its own bytes on the server, not another client's.                      *)
EveryClientServed ==
    \A c \in Clients : cpc[c] = "exit" =>
        \A k \in Chunks(c) : c \in {store[k], files.chunk[k]}
-----------------------------------------------------------------------------
(* Inductive invariants behind the properties. The first holds for any     *)
(* number of clients: a bit on its way (server bitmap, response, s_res,    *)
(* erased key) never runs ahead of what the server holds, and a FIN never  *)
(* ahead of the files.                                                     *)
BitsMeanHeld == \A k \in recvbit : HasBit(k) /\ Held(k)

AcksTrail ==
    \A c \in Clients : /\ donebit[c] \subseteq recvbit
                       /\ Keys(c) \ dataMap[c] \subseteq recvbit
                       /\ \A r \in resps[c] : r.bits \subseteq recvbit

FinTrails ==
    \A c \in Clients : /\ \A r \in resps[c] : r.fin => spc = "fin"
                       /\ cpc[c] = "exit" /\ dataMap[c] # {} => spc = "fin"

PhaseInv ==
    /\ comp_size # UINT_MAX => \E c \in Clients : comp_size = CompSize[c]
    /\ spc # "recv" => comp_size # UINT_MAX
    /\ spc # "fin" => files = NoFiles
    /\ spc = "fin" => files.size = comp_size

AckInv == TypeOK /\ BitsMeanHeld /\ AcksTrail /\ FinTrails /\ PhaseInv

(* The second is about a server with one client: recv_size counts exactly  *)
(* the stored chunks, all of them the client's, and the loop has ended     *)
(* exactly when that count covers the size.                                *)
Stored == {k \in Seqs : store[k] # NoClient}

OwnPieces ==
    /\ \A p \in pkts : p.seq \in Keys(p.from)
    /\ \A c \in Clients : dataMap[c] \subseteq Keys(c)
    /\ \A k \in Stored : k \in Chunks(store[k])

CountInv ==
    /\ spc # "fin" => recv_size = DATA_SIZE * Cardinality(Stored)
    /\ spc = "recv" => ~LoopEnds(comp_size, recv_size)
    /\ spc = "save" => LoopEnds(comp_size, recv_size)

ExitInv == \A c \in Clients : dataMap[c] = {} => cpc[c] = "exit"

SavedInv == spc = "fin" => \E c \in Clients : files = Image(c)

SoloInv == AckInv /\ OwnPieces /\ CountInv /\ ExitInv /\ SavedInv
=============================================================================
