-------------------------- MODULE BroadcastXdp_proofs --------------------------
(***************************************************************************)
(* Proofs about lab 10's transfer for every size of blob, frame and window.*)
(* That a FIN means saved files holds wherever the two programs run; the   *)
(* rest needs hosts of their own, as the run xdp_own_ack shows.            *)
(***************************************************************************)
EXTENDS BroadcastXdp, ChunkLemmas

-----------------------------------------------------------------------------
(* FINs come after the files.                                              *)

LEMMA FinInit == Init => FinTrails
BY DEF Init, FinTrails, ExitMeansSaved

LEMMA FinStep == FinTrails /\ [Next]_vars => FinTrails'
<1> SUFFICES ASSUME FinTrails, [Next]_vars PROVE FinTrails'
    OBVIOUS
<1> USE DEF FinTrails, ExitMeansSaved
(* Of all the steps two tell the client of a FIN or write files.           *)
<1>a. ASSUME UNCHANGED <<spc, files>>,
             "fin" \in toClient' => "fin" \in toClient,
             cpc' = "exit" => cpc = "exit" \/ "fin" \in toClient
      PROVE  FinTrails'
    BY <1>a
<1>1. CASE ClientStep
  <2>1. CASE SendRound
      BY <2>1, <1>a DEF SendRound, xdpServerVars
  <2>2. ASSUME NEW f \in toClient, NEW rest \in {toClient, toClient \ {f}}, ReadResp(f, rest)
        PROVE  FinTrails'
    <3>1. UNCHANGED <<spc, files>> /\ toClient' \subseteq toClient
        BY <2>2 DEF ReadResp, xdpServerVars
    <3>2. cpc' = "exit" => cpc = "exit" \/ "fin" \in toClient
        BY <2>2 DEF ReadResp
    <3> QED BY <3>1, <3>2, <1>a
  <2>3. CASE ReadTimeout
      BY <2>3, <1>a DEF ReadTimeout, xdpServerVars
  <2> QED BY <1>1, <2>1, <2>2, <2>3 DEF ClientStep
<1>2. ASSUME NEW f \in toServer, NEW rest \in {toServer, toServer \ {f}}, RecvFrame(f, rest)
      PROVE  FinTrails'
    BY <1>2 DEF RecvFrame, Broadcast
<1>3. ASSUME NEW f \in toServer, NEW rest \in {toServer, toServer \ {f}}, AnswerFin(f, rest)
      PROVE  FinTrails'
    BY <1>3 DEF AnswerFin, Broadcast, xdpServerVars
<1>4. CASE SaveToFile
  <2>1. files = "none" /\ UNCHANGED <<cpc, toClient>>
      BY <1>4 DEF SaveToFile
  <2>2. spc' = "fin" => files' # "none"
      BY <1>4 DEF SaveToFile
  <2>3. spc' \notin {"recv", "save"}
      BY <1>4 DEF SaveToFile
  <2> QED BY <2>1, <2>2, <2>3
<1>5. CASE Tick
    BY <1>5, <1>a DEF Tick
<1>6. CASE Lose
    BY <1>6, <1>a DEF Lose, LoseToServer, LoseToClient, xdpServerVars
<1>7. CASE UNCHANGED vars
    BY <1>7, <1>a DEF vars, xdpServerVars
<1> QED
    BY <1>1, <1>2, <1>3, <1>4, <1>5, <1>6, <1>7 DEF Next, ServerStep

(* The client of lab 10 leaves only when the files are there, wherever the *)
(* two programs run, for every blob.                                       *)
THEOREM ExitSaved == Spec => []ExitMeansSaved
<1>1. FinTrails => ExitMeansSaved
    BY DEF FinTrails
<1> QED BY <1>1, FinInit, FinStep, PTL DEF Spec

-----------------------------------------------------------------------------
(* Hosts of their own.                                                     *)

(* A set of chunks covers the size exactly when it is all of them.         *)
LEMMA BlobCover ==
    ASSUME NEW K \in SUBSET Chunks
    PROVE  /\ IsFiniteSet(K) /\ Cardinality(K) \in Nat
           /\ DATA_SIZE * Cardinality(K) >= CompSize <=> K = Chunks
<1>1. Chunks = ChunksOf(CompSize, DATA_SIZE)
    BY DEF Chunks, ChunksOf
<1>2. CompSize \in Nat \ {0} /\ DATA_SIZE \in Nat \ {0}
    BY XdpAssumption
<1> QED BY <1>1, <1>2, CoverIsAll, FS_CardinalityType

(* The size that stands for "unknown" is no blob's size.                   *)
LEMMA SizeIsKnown == CompSize \in Nat /\ UINT_MAX \in Nat /\ CompSize < UINT_MAX
BY XdpAssumption

LEMMA XdpInit == Init => XdpInv
<1> SUFFICES ASSUME Init PROVE XdpInv
    OBVIOUS
<1>1. comp_size \in 0..UINT_MAX /\ recv_size \in Nat
    BY SizeIsKnown DEF Init
<1>2. TypeOK
  <2>1. keep \in BOOLEAN
      BY Zenon DEF Init
  <2>2. elapsed \in 0..2
      BY DEF Init
  <2> QED BY <1>1, <2>1, <2>2 DEF Init, TypeOK
<1>3. OnlyPieces /\ FinTrails
    BY FinInit DEF Init, OnlyPieces
<1>4. Cardinality(store) = 0
    BY FS_EmptySet DEF Init
<1>5. CountInv
    BY <1>4, XdpAssumption DEF Init, CountInv, LoopEnds, SavedIsWhole
<1> QED BY <1>2, <1>3, <1>5 DEF XdpInv

(* A piece that comes in is the size, or one more chunk and DATA_SIZE more *)
(* in the count, or a copy.                                                *)
LEMMA StoreCounts ==
    ASSUME XdpInv, spc = "recv", NEW k \in Keys, StoreFrame(Piece(k))
    PROVE  /\ store' = IF k = 0 THEN store ELSE store \cup {k}
           /\ comp_size' = IF k = 0 THEN CompSize ELSE comp_size
           /\ recv_size' = DATA_SIZE * Cardinality(store') /\ recv_size' \in Nat
           /\ store' \subseteq Chunks
<1>0. /\ store \subseteq Chunks /\ recv_size = DATA_SIZE * Cardinality(store)
      /\ DATA_SIZE \in Nat
    BY XdpAssumption DEF XdpInv, TypeOK, CountInv
<1>1. Piece(k).seq = k /\ Piece(k).kind = "piece"
    BY DEF Piece
<1>2. /\ store' = IF k = 0 THEN store ELSE store \cup {k}
      /\ comp_size' = IF k = 0 THEN CompSize ELSE comp_size
      /\ recv_size' = IF k = 0 \/ k \in store THEN recv_size ELSE recv_size + DATA_SIZE
    BY <1>1 DEF StoreFrame
<1>3. store' \subseteq Chunks
    BY <1>0, <1>2 DEF Keys
<1>4. IsFiniteSet(store) /\ Cardinality(store) \in Nat /\ Cardinality(store') \in Nat
    BY <1>0, <1>3, BlobCover
<1>5. Cardinality(store') = IF k = 0 \/ k \in store THEN Cardinality(store)
                                                    ELSE Cardinality(store) + 1
    BY <1>2, <1>4, FS_AddElement
<1>6. DATA_SIZE * (Cardinality(store) + 1) = DATA_SIZE * Cardinality(store) + DATA_SIZE
    BY <1>0, <1>4
<1>7. recv_size' = DATA_SIZE * Cardinality(store')
    BY <1>0, <1>2, <1>5, <1>6
<1>8. recv_size' \in Nat
    BY <1>0, <1>4, <1>7
<1> QED BY <1>2, <1>3, <1>7, <1>8

(* When the loop has ended every chunk is there, and the size.             *)
LEMMA LoopEndsWhole ==
    ASSUME XdpInv, spc = "save"
    PROVE  store = Chunks /\ comp_size = CompSize
<1>1. comp_size = CompSize /\ recv_size >= comp_size
    BY DEF XdpInv, CountInv, LoopEnds
<1>2. recv_size = DATA_SIZE * Cardinality(store) /\ store \subseteq Chunks
    BY DEF XdpInv, CountInv, TypeOK
<1> QED BY <1>1, <1>2, BlobCover

(* Every step of programs on hosts of their own keeps the invariant.       *)
LEMMA XdpStep == ASSUME ~OwnFrames PROVE XdpInv /\ [Next]_vars => XdpInv'
<1> SUFFICES ASSUME XdpInv, [Next]_vars PROVE XdpInv'
    OBVIOUS
<1>0. TypeOK /\ OnlyPieces /\ FinTrails /\ FinTrails' /\ CountInv
    BY FinStep DEF XdpInv
(* A step that leaves the server alone.                                    *)
<1>a. ASSUME UNCHANGED xdpServerVars, cpc' \in {"send", "read", "exit"},
             toClient' \subseteq {"fin", "other"},
             toServer' \subseteq {Piece(k) : k \in Keys}
      PROVE  XdpInv'
  <2>1. UNCHANGED <<spc, comp_size, recv_size, store, recvbit, keep, elapsed, files>>
      BY <1>a DEF xdpServerVars
  <2>2. toServer' \subseteq Frame
      BY <1>a DEF Frame
  <2>3. TypeOK'
      BY <1>0, <1>a, <2>1, <2>2 DEF TypeOK
  <2>4. OnlyPieces' /\ CountInv'
      BY <1>0, <1>a, <2>1 DEF OnlyPieces, CountInv, SavedIsWhole
  <2> QED BY <1>0, <2>3, <2>4 DEF XdpInv
<1>1. CASE ClientStep
  <2>1. CASE SendRound
      BY <2>1, <1>0, <1>a DEF SendRound, TypeOK, OnlyPieces
  <2>2. ASSUME NEW f \in toClient, NEW rest \in {toClient, toClient \ {f}}, ReadResp(f, rest)
        PROVE  XdpInv'
      BY <2>2, <1>0, <1>a DEF ReadResp, TypeOK, OnlyPieces
  <2>3. CASE ReadTimeout
      BY <2>3, <1>0, <1>a DEF ReadTimeout, TypeOK, OnlyPieces
  <2> QED BY <1>1, <2>1, <2>2, <2>3 DEF ClientStep
<1>2. ASSUME NEW f \in toServer, NEW rest \in {toServer, toServer \ {f}}, RecvFrame(f, rest)
      PROVE  XdpInv'
  <2>1. PICK k \in Keys : f = Piece(k)
      BY <1>0 DEF OnlyPieces
  <2>2. Piece(k).seq = k
      BY DEF Piece
  <2>3. spc = "recv" /\ StoreFrame(Piece(k)) /\ UNCHANGED <<cpc, files>>
      BY <1>2, <2>1 DEF RecvFrame
  <2>4. /\ store' \subseteq Chunks /\ recv_size' \in Nat
        /\ recv_size' = DATA_SIZE * Cardinality(store')
        /\ comp_size' \in {UINT_MAX, CompSize}
      BY <1>0, <2>3, StoreCounts DEF CountInv
  <2>5. recvbit' \subseteq Keys
      BY <1>0, <1>2, <2>1, <2>2 DEF RecvFrame, TypeOK
  <2>6. /\ toServer' \subseteq toServer /\ toClient' \subseteq {"fin", "other"}
        /\ elapsed' \in 0..2
    <3>1. rest \subseteq toServer /\ "other" \in {"fin", "other"}
        OBVIOUS
    <3>2. \/ Broadcast(Ack(recvbit'), "other", rest) /\ elapsed' = 0
          \/ toServer' = rest /\ UNCHANGED <<toClient, elapsed>>
        BY <1>2, Zenon DEF RecvFrame
    <3>3. toClient' \in {toClient, toClient \cup {"other"}} /\ toServer' = rest
        BY <3>2 DEF Broadcast
    <3>4. elapsed' = 0 \/ elapsed' = elapsed
        BY <3>2
    <3> QED BY <1>0, <3>1, <3>3, <3>4 DEF TypeOK
  <2>7. keep' \in BOOLEAN
      BY <1>0, <1>2 DEF RecvFrame, NearlyDone, TypeOK
  <2>8. spc' = IF LoopEnds(comp_size', recv_size') THEN "save" ELSE "recv"
      BY <1>2 DEF RecvFrame
  <2>9. TypeOK'
    <3>1. comp_size' \in 0..UINT_MAX
        BY <2>4, SizeIsKnown
    <3> QED BY <1>0, <2>3, <2>4, <2>5, <2>6, <2>7, <2>8, <3>1 DEF TypeOK
  <2>10. CountInv'
      BY <1>0, <2>3, <2>4, <2>8 DEF CountInv, SavedIsWhole
  <2>11. OnlyPieces'
      BY <1>0, <2>6 DEF OnlyPieces
  <2> QED BY <1>0, <2>9, <2>10, <2>11 DEF XdpInv
<1>3. ASSUME NEW f \in toServer, NEW rest \in {toServer, toServer \ {f}}, AnswerFin(f, rest)
      PROVE  XdpInv'
    BY <1>3, <1>0, <1>a DEF AnswerFin, Broadcast, TypeOK, OnlyPieces
<1>4. CASE SaveToFile
  <2>1. store = Chunks /\ comp_size = CompSize
      BY <1>4, LoopEndsWhole DEF SaveToFile
  <2>2. files' = "whole" /\ spc' = "fin" /\ store' = {} /\ UNCHANGED comp_size
      BY <1>4, <2>1, SizeIsKnown DEF SaveToFile
  <2>3. UNCHANGED <<cpc, toClient, toServer, recv_size, recvbit, keep, elapsed>>
      BY <1>4 DEF SaveToFile
  <2>4. TypeOK' /\ OnlyPieces'
      BY <1>0, <2>2, <2>3 DEF TypeOK, OnlyPieces
  <2>5. CountInv'
      BY <1>0, <2>1, <2>2 DEF CountInv, SavedIsWhole
  <2> QED BY <1>0, <2>4, <2>5 DEF XdpInv
<1>5. CASE Tick
  <2>1. UNCHANGED <<cpc, toClient, toServer, spc, comp_size, recv_size, store, recvbit,
                    keep, files>>
      BY <1>5 DEF Tick
  <2>2. elapsed' \in 0..2
      BY <1>0, <1>5 DEF Tick, TypeOK
  <2>3. TypeOK' /\ OnlyPieces' /\ CountInv'
      BY <1>0, <2>1, <2>2 DEF TypeOK, OnlyPieces, CountInv, SavedIsWhole
  <2> QED BY <1>0, <2>3 DEF XdpInv
<1>6. CASE Lose
    BY <1>6, <1>0, <1>a DEF Lose, LoseToServer, LoseToClient, TypeOK, OnlyPieces
<1>7. CASE UNCHANGED vars
    BY <1>7, <1>0, <1>a DEF vars, TypeOK, OnlyPieces
<1> QED
    BY <1>1, <1>2, <1>3, <1>4, <1>5, <1>6, <1>7 DEF Next, ServerStep

(* The whole inductive invariant, whatever is lost, late or heard twice:   *)
(* the server's loop counts each of the client's pieces once.              *)
THEOREM XdpCorrect == ASSUME ~OwnFrames PROVE Spec => []XdpInv
<1>1. XdpInv /\ [Next]_vars => XdpInv'
    BY XdpStep
<1> QED BY <1>1, XdpInit, PTL DEF Spec

(* Types, for every size of blob and frame: the server never holds a chunk *)
(* that is not the client's, nor a size that is not.                       *)
THEOREM XdpTypes == ASSUME ~OwnFrames PROVE Spec => []TypeOK
<1>1. XdpInv => TypeOK
    BY DEF XdpInv
<1> QED BY <1>1, XdpCorrect, PTL

(* The count of bytes reaches the size exactly with the last chunk, so     *)
(* that the files saved are the client's: for every size of blob, a        *)
(* multiple of DATA_SIZE or not, in any order and with any copies.         *)
THEOREM SavedWhole == ASSUME ~OwnFrames PROVE Spec => []SavedIsWhole
<1>1. XdpInv => SavedIsWhole
    BY DEF XdpInv, CountInv
<1> QED BY <1>1, XdpCorrect, PTL

-----------------------------------------------------------------------------
(* Lab 10 implements the transfer that lab 8 implements.                   *)

LEMMA TransferInit == Init => Transfer!Init
<1> SUFFICES ASSUME Init PROVE Transfer!Init
    OBVIOUS
<1>1. \A k \in Keys : ~Held(k)
    BY DEF Init, Held
<1> QED BY <1>1 DEF Init, Transfer!Init

LEMMA TransferStep ==
    ASSUME ~OwnFrames PROVE XdpInv /\ [Next]_vars => [Transfer!Next]_(Transfer!vars)
<1> SUFFICES ASSUME XdpInv, [Next]_vars PROVE [Transfer!Next]_(Transfer!vars)
    OBVIOUS
<1> DEFINE have  == {k \in Keys : Held(k)}
           saved == files # "none"
           left  == cpc = "exit"
<1>0. TypeOK /\ OnlyPieces /\ FinTrails /\ CountInv
    BY DEF XdpInv
<1>a. ASSUME UNCHANGED <<comp_size, store, files>> PROVE UNCHANGED have /\ UNCHANGED saved
    BY <1>a DEF Held
<1>b. ASSUME UNCHANGED have, UNCHANGED saved, UNCHANGED left PROVE UNCHANGED Transfer!vars
    BY <1>b DEF Transfer!vars
<1>1. CASE ClientStep
  <2>1. UNCHANGED <<comp_size, store, files>>
      BY <1>1 DEF ClientStep, SendRound, ReadResp, ReadTimeout, xdpServerVars
  <2>2. CASE left' /\ ~left
    <3>1. "fin" \in toClient
        BY <1>1, <2>2 DEF ClientStep, SendRound, ReadResp, ReadTimeout
    <3>2. saved
        BY <1>0, <3>1 DEF FinTrails, ExitMeansSaved
    <3> QED BY <1>a, <2>1, <2>2, <3>2 DEF Transfer!Leave, Transfer!Next
  <2>3. CASE UNCHANGED left
      BY <1>a, <1>b, <2>1, <2>3
  <2>4. left => left'
      BY <1>1 DEF ClientStep, SendRound, ReadResp, ReadTimeout
  <2> QED BY <2>2, <2>3, <2>4
<1>2. ASSUME NEW f \in toServer, NEW rest \in {toServer, toServer \ {f}}, RecvFrame(f, rest)
      PROVE  Transfer!Receive \/ UNCHANGED Transfer!vars
  <2>1. PICK k \in Keys : f = Piece(k)
      BY <1>0 DEF OnlyPieces
  <2>2. spc = "recv" /\ StoreFrame(Piece(k)) /\ UNCHANGED <<cpc, files>>
      BY <1>2, <2>1 DEF RecvFrame
  <2>3. /\ store' = IF k = 0 THEN store ELSE store \cup {k}
        /\ comp_size' = IF k = 0 THEN CompSize ELSE comp_size
      BY <2>2, StoreCounts
  <2>4. have' = have \cup {k}
      BY <2>2, <2>3, SizeIsKnown DEF Held
  <2>5. UNCHANGED saved /\ UNCHANGED left
      BY <2>2
  <2>6. CASE k \in have
      BY <1>b, <2>4, <2>5, <2>6
  <2>7. CASE k \notin have
      BY <2>4, <2>5, <2>7 DEF Transfer!Receive
  <2> QED BY <2>6, <2>7
<1>3. ASSUME NEW f \in toServer, NEW rest \in {toServer, toServer \ {f}}, AnswerFin(f, rest)
      PROVE  UNCHANGED Transfer!vars
    BY <1>3, <1>a, <1>b DEF AnswerFin, xdpServerVars
<1>4. CASE SaveToFile
  <2>1. store = Chunks /\ comp_size = CompSize
      BY <1>4, LoopEndsWhole DEF SaveToFile
  <2>2. files' = "whole" /\ UNCHANGED cpc /\ ~saved
      BY <1>0, <1>4, <2>1, SizeIsKnown DEF SaveToFile, FinTrails
  <2>3. have = Keys /\ have' = Keys
      BY <2>1, <2>2, SizeIsKnown DEF Held, Keys
  <2> QED BY <2>2, <2>3 DEF Transfer!Save, Transfer!Next
<1>5. CASE Tick
    BY <1>5, <1>a, <1>b DEF Tick
<1>6. CASE Lose
    BY <1>6, <1>a, <1>b DEF Lose, LoseToServer, LoseToClient, xdpServerVars
<1>7. CASE UNCHANGED vars
    BY <1>7, <1>a, <1>b DEF vars, xdpServerVars
<1> QED
    BY <1>1, <1>2, <1>3, <1>4, <1>5, <1>6, <1>7 DEF Next, ServerStep, Transfer!Next

(* On hosts of their own the programs implement the abstract transfer:     *)
(* pieces are received once each, all of them before anything is saved,    *)
(* and the client leaves only when told that they are.                     *)
THEOREM XdpImplements == ASSUME ~OwnFrames PROVE Spec => ImplementsTransfer
<1>1. XdpInv /\ [Next]_vars => [Transfer!Next]_(Transfer!vars)
    BY TransferStep
<1> QED BY <1>1, TransferInit, XdpCorrect, PTL DEF Spec, ImplementsTransfer, Transfer!Spec
=============================================================================
