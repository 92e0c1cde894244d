----------------------------- MODULE BroadcastXdp -----------------------------
(***************************************************************************)
(* The file transfer of lab_10_broadcast_xdp: the blob of lab 8, its size  *)
(* under key 0 and its chunks under 1.., in raw IP frames broadcast to the *)
(* segment. Nothing has an address any more: each host takes every frame   *)
(* of protocol 161 for its peer's. The client sends everything in every    *)
(* round and reads nothing but a FIN; acknowledgements are broadcast under *)
(* key 0, as the size is.                                                  *)
(*                                                                         *)
(* Frames may be lost (a full socket buffer), and a frame may be one of    *)
(* several equal ones, left from earlier rounds.                           *)
(***************************************************************************)
EXTENDS Integers, FiniteSets
LOCAL INSTANCE FiniteSetsExt

CONSTANTS
    CompSize,     \* bytes of the client's compressed blob
    DATA_SIZE,    \* payload bytes of a frame (1376)
    BitmapBits,   \* bits of the acknowledgement bitmap (DATA_SIZE * 8)
    WordBits,     \* bits of comp_size (32)
    KeepWindow,   \* the server acknowledges faster below this many (100)
    OwnFrames     \* a host hears its own broadcasts: both run on one host

UINT_MAX == 2^WordBits - 1

(* Chunk k covers the bytes from (k-1)*DATA_SIZE on.                       *)
Chunks == {k \in 1..CompSize : (k - 1) * DATA_SIZE < CompSize}
Keys   == {0} \cup Chunks

(* As in lab 8, and the blob has no more chunks than the bitmap has bits.  *)
ASSUME XdpAssumption ==
    /\ CompSize \in Nat \ {0} /\ DATA_SIZE \in Nat \ {0} /\ BitmapBits \in Nat
    /\ WordBits \in Nat /\ UINT_MAX \in Nat /\ KeepWindow \in Nat
    /\ OwnFrames \in BOOLEAN
    /\ CompSize + DATA_SIZE <= UINT_MAX
    /\ Chunks \subseteq 1..(BitmapBits - 1)
    /\ (UINT_MAX \div DATA_SIZE) - BitmapBits >= KeepWindow

(* What the server can tell apart: a piece, or an acknowledgement that     *)
(* carries the bitmap where key 0 has the size, or its own FIN.            *)
Piece(k)  == [kind |-> "piece", seq |-> k]
Ack(bits) == [kind |-> "ack", seq |-> 0, bits |-> bits]
Fin       == [kind |-> "fin"]
Frame     == {Piece(k) : k \in Keys} \cup {Ack(b) : b \in SUBSET Keys} \cup {Fin}

VARIABLES
    cpc,        \* client: "send" a round, "read": read_resps, "exit"
    toClient,   \* frames the client may hear: "fin" or "other", all it tells
    toServer,   \* frames the server may hear
    spc,        \* server: "recv", "save" (loop left), "fin"; "dead": crashed
    comp_size, recv_size,
    store,      \* its data_map: chunks it holds
    recvbit,    \* the bitmap in send_hdr
    keep,       \* acknowledge every 10 ms instead of every 500 ms
    elapsed,    \* since last_send: 0 is <= 10 ms, 1 is <= 500 ms, 2 more
    files       \* "none", "whole", or "damaged": not the client's files

xdpServerVars == <<spc, comp_size, recv_size, store, recvbit, keep, elapsed, files>>
vars == <<cpc, toClient, toServer, xdpServerVars>>

TypeOK ==
    /\ cpc \in {"send", "read", "exit"}
    /\ toClient \subseteq {"fin", "other"} /\ toServer \subseteq Frame
    /\ spc \in {"recv", "save", "fin", "dead"}
    /\ comp_size \in 0..UINT_MAX /\ recv_size \in Nat
    /\ store \subseteq Chunks /\ recvbit \subseteq Keys
    /\ keep \in BOOLEAN /\ elapsed \in 0..2
    /\ files \in {"none", "whole", "damaged"}

Init ==
    /\ cpc = "send" /\ toClient = {} /\ toServer = {}
    /\ spc = "recv" /\ comp_size = UINT_MAX /\ recv_size = 0
    /\ store = {} /\ recvbit = {} /\ keep = FALSE /\ elapsed = 0
    /\ files = "none"

-----------------------------------------------------------------------------
(* The client.                                                             *)

(* One round. s_res is never assigned, so every bit of donebit reads 0 and *)
(* all of data_map is sent; nothing is ever erased from it.                *)
SendRound ==
    /\ cpc = "send"
    /\ toServer' = toServer \cup {Piece(k) : k \in Keys}
    /\ toClient' = IF OwnFrames THEN toClient \cup {"other"} ELSE toClient
    /\ cpc' = "read"
    /\ UNCHANGED xdpServerVars

(* Mutant: the test for UINT32_MAX dropped.                                *)
ReadRespAnyFrame(f, rest) ==
    /\ cpc = "read" /\ f \in toClient /\ rest \in {toClient, toClient \ {f}}
    /\ toClient' = rest /\ cpc' = "exit"
    /\ UNCHANGED <<toServer, xdpServerVars>>

(* read_resps takes one frame: a FIN ends the process, all else is         *)
(* dropped.                                                                *)
ReadResp(f, rest) ==
    /\ cpc = "read" /\ f \in toClient /\ rest \in {toClient, toClient \ {f}}
    /\ toClient' = rest
    /\ cpc' = IF f = "fin" THEN "exit" ELSE cpc
    /\ UNCHANGED <<toServer, xdpServerVars>>

(* recvfrom timed out: data_map is not empty, so another round starts.     *)
ReadTimeout ==
    /\ cpc = "read" /\ cpc' = "send"
    /\ UNCHANGED <<toClient, toServer, xdpServerVars>>

-----------------------------------------------------------------------------
(* The server.                                                             *)

(* recvfrom returns any frame; another one like it may follow.             *)
Deliver(f, rest) == f \in toServer /\ rest \in {toServer, toServer \ {f}}

(* do_reponse, once and to everybody: f comes back to a server that hears  *)
(* its own frames.                                                         *)
Broadcast(f, heard, rest) ==
    /\ toClient' = toClient \cup {heard}
    /\ toServer' = IF OwnFrames THEN rest \cup {f} ELSE rest

(* The first bytes of an acknowledgement's payload read as a size: the low *)
(* word of the bitmap.                                                     *)
LowWord(bits) == SumSet({2^k : k \in bits \cap 0..(WordBits - 1)})

(* Mutants: every copy of a chunk is counted; chunks go by their offset.   *)
StoreFrameCountsCopies(f) ==
    IF f.seq = 0
    THEN /\ comp_size' = IF f.kind = "ack" THEN LowWord(f.bits) ELSE CompSize
         /\ UNCHANGED <<recv_size, store>>
    ELSE /\ store' = store \cup {f.seq} /\ recv_size' = recv_size + DATA_SIZE
         /\ UNCHANGED comp_size
StoreFrameByOffset(f) ==
    IF f.seq = 0
    THEN /\ comp_size' = IF f.kind = "ack" THEN LowWord(f.bits) ELSE CompSize
         /\ UNCHANGED <<recv_size, store>>
    ELSE /\ store' = store \cup {f.seq - 1} /\ UNCHANGED comp_size
         /\ recv_size' = IF f.seq - 1 \in store THEN recv_size ELSE recv_size + DATA_SIZE

(* Key 0 is a size, whoever sent it; of a chunk the first copy is stored.  *)
StoreFrame(f) ==
    \/ /\ f.seq = 0
       /\ comp_size' = IF f.kind = "ack" THEN LowWord(f.bits) ELSE CompSize
       /\ UNCHANGED <<recv_size, store>>
    \/ /\ f.seq # 0 /\ f.seq \notin store
       /\ store' = store \cup {f.seq}
       /\ recv_size' = recv_size + DATA_SIZE
       /\ UNCHANGED comp_size
    \/ /\ f.seq # 0 /\ f.seq \in store
       /\ UNCHANGED <<comp_size, recv_size, store>>

(* comp_size / DATA_SIZE - recvbit.count() < 100 in size_t, where a        *)
(* negative difference is huge.                                            *)
NearlyDone(size, bits) ==
    LET full == size \div DATA_SIZE
    IN  full >= Cardinality(bits) /\ full - Cardinality(bits) < KeepWindow

AckDue(k) == elapsed >= (IF k THEN 1 ELSE 2)

(* The loop condition of main, negated.                                    *)
LoopEnds(size, got) == size # UINT_MAX /\ got >= size

(* One iteration of the receive loop.                                      *)
RecvFrame(f, rest) ==
    /\ spc = "recv" /\ Deliver(f, rest)
    /\ recvbit' = recvbit \cup {f.seq}
    /\ StoreFrame(f)
    /\ keep' = (keep \/ NearlyDone(comp_size', recvbit'))
    /\ \/ AckDue(keep') /\ Broadcast(Ack(recvbit'), "other", rest) /\ elapsed' = 0
       \/ ~AckDue(keep') /\ toServer' = rest /\ UNCHANGED <<toClient, elapsed>>
    /\ spc' = IF LoopEnds(comp_size', recv_size') THEN "save" ELSE "recv"
    /\ UNCHANGED <<cpc, files>>

(* save_to_file decompresses comp_size bytes of the stored chunks. Short   *)
(* of the blob it has no frame to decompress, or copies past its buffer:   *)
(* it dies, or writes files that are not the client's.                     *)
SaveToFile ==
    /\ spc = "save"
    /\ \/ /\ store = Chunks /\ comp_size >= CompSize
          /\ files' = "whole" /\ spc' = "fin"
       \/ /\ ~(store = Chunks /\ comp_size >= CompSize)
          /\ files' \in {"none", "damaged"}
          /\ spc' \in IF files' = "none" THEN {"dead"} ELSE {"dead", "fin"}
    /\ store' = {}
    /\ UNCHANGED <<cpc, toClient, toServer, comp_size, recv_size, recvbit, keep, elapsed>>

(* Mutants: frames are answered while the files are being written; one FIN *)
(* and the server is gone.                                                 *)
AnswerFinWhileSaving(f, rest) ==
    /\ spc \in {"save", "fin"} /\ Deliver(f, rest)
    /\ Broadcast(Fin, "fin", rest)
    /\ UNCHANGED <<cpc, xdpServerVars>>
AnswerFinOnce(f, rest) ==
    /\ spc = "fin" /\ Deliver(f, rest)
    /\ Broadcast(Fin, "fin", rest) /\ spc' = "dead"
    /\ UNCHANGED <<cpc, comp_size, recv_size, store, recvbit, keep, elapsed, files>>

(* The final loop: every frame, its own too, is answered with a FIN.       *)
AnswerFin(f, rest) ==
    /\ spc = "fin" /\ Deliver(f, rest)
    /\ Broadcast(Fin, "fin", rest)
    /\ UNCHANGED <<cpc, xdpServerVars>>

(* steady_clock moves on; only the receive loop looks at it.               *)
Tick ==
    /\ spc = "recv" /\ elapsed < 2
    /\ elapsed' = elapsed + 1
    /\ UNCHANGED <<cpc, toClient, toServer, spc, comp_size, recv_size, store,
                   recvbit, keep, files>>

-----------------------------------------------------------------------------
(* A frame that finds the socket buffer full is gone.                      *)
LoseToServer(f) ==
    /\ f \in toServer /\ toServer' = toServer \ {f}
    /\ UNCHANGED <<cpc, toClient, xdpServerVars>>

LoseToClient(f) ==
    /\ f \in toClient /\ toClient' = toClient \ {f}
    /\ UNCHANGED <<cpc, toServer, xdpServerVars>>

ClientStep ==
    \/ SendRound
    \/ \E f \in toClient : \E rest \in {toClient, toClient \ {f}} : ReadResp(f, rest)
    \/ ReadTimeout

ServerStep ==
    \/ \E f \in toServer : \E rest \in {toServer, toServer \ {f}} :
          RecvFrame(f, rest) \/ AnswerFin(f, rest)
    \/ SaveToFile
    \/ Tick

Lose ==
    \/ \E f \in toServer : LoseToServer(f)
    \/ \E f \in toClient : LoseToClient(f)

Next == ClientStep \/ ServerStep \/ Lose

Spec == Init /\ [][Next]_vars

(* Fairness: both processes run, a piece broadcast again and again is      *)
(* heard at last ("the link quality is good"), and a FIN stays in the      *)
(* client's socket until it reads.                                         *)
TakePiece(k) ==
    LET rest == toServer \ {Piece(k)}
    IN  RecvFrame(Piece(k), rest) \/ AnswerFin(Piece(k), rest)
ReadFin      == ReadResp("fin", toClient \ {"fin"})
FinOnItsWay  == cpc # "exit" /\ "fin" \in toClient

Fairness ==
    /\ WF_vars(SendRound) /\ WF_vars(ReadTimeout)
    /\ WF_vars(SaveToFile)
    /\ \A k \in Keys : SF_vars(TakePiece(k))
    /\ []<>FinOnItsWay => []<><<ReadFin>>_vars

FairSpec == Spec /\ Fairness

-----------------------------------------------------------------------------
(* Correctness.                                                            *)

(* The client of lab 10, unlike that of lab 8, never leaves before the     *)
(* files are there to be checked: it leaves only on a FIN, and a FIN is    *)
(* only sent after save_to_file has returned.                              *)
ExitMeansSaved ==
    "fin" \in toClient \/ cpc = "exit" => files # "none"

(* The files written are the client's: no count of datagrams reaches the   *)
(* size before every chunk is there, whatever order and however many       *)
(* copies they come in.                                                    *)
SavedIsWhole == files # "damaged" /\ spc # "dead"

(* With each on a host of its own, lab 10 implements the promise of        *)
(* ReliableTransfer: its client learns of no piece, and leaves when told.  *)
Held(k) == files # "none" \/ (IF k = 0 THEN comp_size # UINT_MAX ELSE k \in store)

Transfer == INSTANCE ReliableTransfer WITH
    Pieces <- Keys,
    have   <- {k \in Keys : Held(k)},
    known  <- {},
    saved  <- files # "none",
    left   <- cpc = "exit"

ImplementsTransfer == Transfer!Spec

(* ... and, under fairness, everything is received and saved and the       *)
(* client leaves, although every FIN may be lost but one.                  *)
ImplementsFairTransfer == Transfer!FairSpec

-----------------------------------------------------------------------------
(* Inductive invariants behind the properties. Wherever the programs run,  *)
(* files come with the end of save_to_file and FINs after it.              *)
FinTrails ==
    /\ spc \in {"recv", "save"} => files = "none"
    /\ spc = "fin" => files # "none"
    /\ ExitMeansSaved

(* On hosts of their own: the server hears pieces only, recv_size counts   *)
(* the chunks it holds, and the loop has ended exactly when that count     *)
(* covers the size.                                                        *)
OnlyPieces == toServer \subseteq {Piece(k) : k \in Keys}

CountInv ==
    /\ comp_size \in {UINT_MAX, CompSize}
    /\ spc \in {"recv", "save"} => recv_size = DATA_SIZE * Cardinality(store)
    /\ spc = "recv" => ~LoopEnds(comp_size, recv_size)
    /\ spc = "save" => LoopEnds(comp_size, recv_size)
    /\ spc = "fin" => files = "whole" /\ comp_size = CompSize
    /\ SavedIsWhole

(* From the first frame to the FINs, what each side holds is what the     *)
(* other one meant: no frame but the client's counts for anything.         *)
XdpInv == TypeOK /\ OnlyPieces /\ FinTrails /\ CountInv
=============================================================================
