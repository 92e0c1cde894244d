------------------------ MODULE RobustUdpSolo_proofs ------------------------
(***************************************************************************)
(* Proofs about a server with one client: recv_size, which main compares   *)
(* with comp_size, ends the receive loop exactly when every chunk is there *)
(* - for every blob size, a multiple of DATA_SIZE or not - and the files   *)
(* are the client's blob.                                                  *)
(***************************************************************************)
EXTENDS RobustUdp_proofs, RobustUdpRefinement, ChunkLemmas

(* The chunks of a client are those of its size; what covers the size in   *)
(* bytes is all of them.                                                   *)
LEMMA ClientCover ==
    ASSUME NEW c \in Clients, NEW K \in SUBSET Chunks(c)
    PROVE  /\ IsFiniteSet(K)
           /\ DATA_SIZE * Cardinality(K) >= CompSize[c] <=> K = Chunks(c)
<1>1. Chunks(c) = ChunksOf(CompSize[c], DATA_SIZE)
    BY DEF Chunks, ChunksOf
<1>2. CompSize[c] \in Nat \ {0} /\ DATA_SIZE \in Nat \ {0}
    BY SizeAssumption
<1> QED BY <1>1, <1>2, CoverIsAll

-----------------------------------------------------------------------------
(* What the server stores are chunks of the only client.                   *)
LEMMA StoredIsOwn ==
    ASSUME NEW c \in Clients, Clients = {c}, TypeOK, OwnPieces
    PROVE  /\ Stored \subseteq Chunks(c) /\ IsFiniteSet(Stored)
           /\ \A k \in Seqs : store[k] = IF k \in Stored THEN c ELSE NoClient
           /\ DATA_SIZE * Cardinality(Stored) >= CompSize[c] <=> Stored = Chunks(c)
<1>1. \A k \in Stored : store[k] = c
    BY DEF TypeOK, Stored
<1>2. Stored \subseteq Chunks(c)
    BY <1>1 DEF OwnPieces
<1>3. \A k \in Seqs : store[k] = IF k \in Stored THEN c ELSE NoClient
    BY <1>1 DEF Stored
<1> QED BY <1>2, <1>3, ClientCover

LEMMA SoloInit == ASSUME NEW c \in Clients, Clients = {c} PROVE Init => SoloInv
<1> SUFFICES ASSUME Init PROVE SoloInv
    OBVIOUS
<1>1. AckInv
    BY AckInit
<1>2. Stored = {}
    BY DEF Init, Stored
<1>3. OwnPieces
    BY <1>2 DEF Init, OwnPieces
<1>4. CountInv
  <2>1. Cardinality(Stored) = 0
      BY <1>2, FS_EmptySet
  <2> QED BY <2>1, SizeAssumption DEF Init, CountInv, LoopEnds
<1>5. ExitInv
    BY DEF Init, ExitInv, Keys
<1>6. SavedInv
    BY DEF Init, SavedInv
<1> QED BY <1>1, <1>3, <1>4, <1>5, <1>6 DEF SoloInv

(* A received packet: one more chunk stored is DATA_SIZE more counted.     *)
LEMMA StoreCounts ==
    ASSUME NEW c \in Clients, Clients = {c}, TypeOK, OwnPieces, CountInv, spc = "recv",
           NEW p \in pkts, StorePacket(p)
    PROVE  /\ \A k \in Stored' : k \in Chunks(store'[k])
           /\ recv_size' = DATA_SIZE * Cardinality(Stored')
<1>1. p.from \in Clients /\ p.seq \in Seqs /\ p.from # NoClient /\ p.seq \in Keys(p.from)
    BY ClientAssumption DEF TypeOK, Packet, OwnPieces
<1>2. CASE UNCHANGED <<recv_size, store>>
    BY <1>2 DEF Stored, OwnPieces, CountInv
<1>3. CASE /\ p.seq # 0 /\ store[p.seq] = NoClient
           /\ store' = [store EXCEPT ![p.seq] = p.from] /\ recv_size' = recv_size + DATA_SIZE
  <2>1. \A k \in Seqs : store'[k] = IF k = p.seq THEN p.from ELSE store[k]
      BY <1>1, <1>3 DEF TypeOK
  <2>2. Stored' = Stored \cup {p.seq} /\ p.seq \notin Stored
      BY <1>1, <1>3, <2>1 DEF Stored
  <2>3. \A k \in Stored' : k \in Chunks(store'[k])
      BY <1>1, <1>3, <2>1, <2>2 DEF OwnPieces, Keys, Stored
  <2>4. IsFiniteSet(Stored) /\ Cardinality(Stored) \in Nat
      BY StoredIsOwn, FS_CardinalityType
  <2>5. Cardinality(Stored') = Cardinality(Stored) + 1
      BY <2>2, <2>4, FS_AddElement
  <2>6. DATA_SIZE * (Cardinality(Stored) + 1) = DATA_SIZE * Cardinality(Stored) + DATA_SIZE
      BY <2>4, SizeAssumption
  <2>7. recv_size = DATA_SIZE * Cardinality(Stored)
      BY DEF CountInv
  <2> QED BY <1>3, <2>3, <2>5, <2>6, <2>7
<1> QED BY <1>2, <1>3 DEF StorePacket

(* When the loop has ended, what is stored is the whole blob.              *)
LEMMA SavedImage ==
    ASSUME NEW c \in Clients, Clients = {c}, SoloInv, SaveToFile
    PROVE  files' = Image(c)
<1>1. TypeOK /\ OwnPieces /\ CountInv /\ PhaseInv
    BY DEF SoloInv, AckInv
<1>2. comp_size = CompSize[c] /\ recv_size >= comp_size
    BY <1>1 DEF SaveToFile, PhaseInv, CountInv, LoopEnds
<1>3. Stored = Chunks(c)
    BY <1>1, <1>2, StoredIsOwn DEF SaveToFile, CountInv
<1>4. store = [k \in Seqs |-> IF k \in Chunks(c) THEN c ELSE NoClient]
    BY <1>1, <1>3, StoredIsOwn DEF TypeOK
<1> QED BY <1>2, <1>4 DEF SaveToFile, Image

(* Every step of a server with one client keeps the solo invariant.        *)
LEMMA SoloStep ==
    ASSUME NEW c \in Clients, Clients = {c}
    PROVE  SoloInv /\ [Next]_vars => SoloInv'
<1> SUFFICES ASSUME SoloInv, [Next]_vars PROVE SoloInv'
    OBVIOUS
<1>0. /\ AckInv /\ AckInv' /\ TypeOK /\ PhaseInv
      /\ OwnPieces /\ CountInv /\ ExitInv /\ SavedInv
    BY AckStep DEF SoloInv, AckInv
(* A step that leaves the server alone only has to keep the client's side. *)
<1>a. ASSUME UNCHANGED serverVars, ExitInv',
             \A p \in pkts' : p.seq \in Keys(p.from),
             \A d \in Clients : dataMap'[d] \subseteq Keys(d)
      PROVE  SoloInv'
  <2>1. UNCHANGED <<spc, comp_size, recv_size, store, files>>
      BY <1>a DEF serverVars
  <2>2. OwnPieces' /\ CountInv' /\ SavedInv'
      BY <1>0, <1>a, <2>1 DEF OwnPieces, CountInv, SavedInv, Stored
  <2> QED BY <1>0, <1>a, <2>2 DEF SoloInv
<1>1. ASSUME SendRound(c) PROVE SoloInv'
  <2>1. UNCHANGED dataMap /\ UNCHANGED serverVars
      BY <1>1 DEF SendRound
  <2>2. \A p \in pkts' : p \in pkts \/ \E k \in dataMap[c] : p = [from |-> c, seq |-> k]
      BY <1>1 DEF SendRound
  <2>3. ExitInv'
      BY <1>0, <1>1, <2>1 DEF SendRound, ExitInv, TypeOK
  <2> QED BY <1>0, <1>a, <2>1, <2>2, <2>3 DEF OwnPieces
<1>2. ASSUME NEW r \in resps[c], NEW rest \in {resps[c], resps[c] \ {r}}, ReadResp(c, r, rest)
      PROVE  SoloInv'
  <2>1. UNCHANGED <<dataMap, pkts>> /\ UNCHANGED serverVars
      BY <1>2 DEF ReadResp
  <2>2. ExitInv'
      BY <1>0, <1>2, <2>1 DEF ReadResp, ExitInv, TypeOK
  <2> QED BY <1>0, <1>a, <2>1, <2>2 DEF OwnPieces
<1>3. ASSUME ReadTimeout(c) PROVE SoloInv'
  <2>1. UNCHANGED pkts /\ UNCHANGED serverVars
      BY <1>3 DEF ReadTimeout, netVars
  <2>2. dataMap'[c] \subseteq dataMap[c] /\ (dataMap'[c] = {} => cpc'[c] = "exit")
      BY <1>0, <1>3 DEF ReadTimeout, TypeOK
  <2>3. ExitInv'
      BY <2>2 DEF ExitInv
  <2> QED BY <1>0, <1>a, <2>1, <2>2, <2>3 DEF OwnPieces
<1>4. ASSUME NEW p \in pkts, NEW rest \in {pkts, pkts \ {p}}, RecvPacket(p, rest)
      PROVE  SoloInv'
  <2>1. UNCHANGED <<cpc, dataMap, files>> /\ spc = "recv" /\ StorePacket(p) /\ pkts' \subseteq pkts
      BY <1>4 DEF RecvPacket, clientVars, Deliver
  <2>2. /\ \A k \in Stored' : k \in Chunks(store'[k])
        /\ recv_size' = DATA_SIZE * Cardinality(Stored')
      BY <1>0, <2>1, StoreCounts
  <2>3. OwnPieces'
      BY <1>0, <2>1, <2>2 DEF OwnPieces
  <2>4. spc' = IF LoopEnds(comp_size', recv_size') THEN "save" ELSE "recv"
      BY <1>4 DEF RecvPacket
  <2>5. CountInv'
      BY <2>2, <2>4 DEF CountInv
  <2>6. ExitInv'
      BY <1>0, <2>1 DEF ExitInv
  <2>7. SavedInv'
      BY <2>4 DEF SavedInv
  <2> QED BY <1>0, <2>3, <2>5, <2>6, <2>7 DEF SoloInv
<1>5. ASSUME NEW p \in pkts, NEW rest \in {pkts, pkts \ {p}}, AnswerFin(p, rest)
      PROVE  SoloInv'
  <2>1. UNCHANGED <<cpc, dataMap>> /\ UNCHANGED serverVars /\ pkts' \subseteq pkts
      BY <1>5 DEF AnswerFin, clientVars, Deliver
  <2>2. ExitInv'
      BY <1>0, <2>1 DEF ExitInv
  <2> QED BY <1>0, <1>a, <2>1, <2>2 DEF OwnPieces
<1>6. CASE SaveToFile
  <2>1. UNCHANGED <<cpc, dataMap, pkts>> /\ spc' = "fin"
      BY <1>6 DEF SaveToFile, clientVars, netVars
  <2>2. SavedInv'
      BY <1>6, SavedImage DEF SavedInv
  <2>3. Stored' = {}
      BY <1>6 DEF SaveToFile, Stored
  <2>4. OwnPieces' /\ CountInv' /\ ExitInv'
      BY <1>0, <2>1, <2>3 DEF OwnPieces, CountInv, ExitInv
  <2> QED BY <1>0, <2>2, <2>4 DEF SoloInv
<1>7. CASE Tick
  <2>1. /\ UNCHANGED <<cpc, dataMap, pkts>>
        /\ UNCHANGED <<spc, comp_size, recv_size, store, files>>
      BY <1>7 DEF Tick, clientVars, netVars
  <2>2. OwnPieces' /\ CountInv' /\ ExitInv' /\ SavedInv'
      BY <1>0, <2>1 DEF OwnPieces, CountInv, ExitInv, SavedInv, Stored
  <2> QED BY <1>0, <2>2 DEF SoloInv
<1>8. CASE Lose
  <2>1. UNCHANGED <<cpc, dataMap>> /\ UNCHANGED serverVars /\ pkts' \subseteq pkts
      BY <1>8 DEF Lose, LosePacket, LoseResponse, clientVars, serverVars
  <2>2. ExitInv'
      BY <1>0, <2>1 DEF ExitInv
  <2> QED BY <1>0, <1>a, <2>1, <2>2 DEF OwnPieces
<1>9. CASE UNCHANGED vars
  <2>1. UNCHANGED <<cpc, dataMap, pkts>> /\ UNCHANGED serverVars
      BY <1>9 DEF vars, clientVars, netVars, serverVars
  <2>2. ExitInv'
      BY <1>0, <2>1 DEF ExitInv
  <2> QED BY <1>0, <1>a, <2>1, <2>2 DEF OwnPieces
<1>10. ASSUME NEW d \in Clients, ClientStep(d) PROVE SoloInv'
  <2>1. d = c
      OBVIOUS
  <2> QED BY <1>1, <1>2, <1>3, <1>10, <2>1 DEF ClientStep
<1>11. CASE ServerStep
    BY <1>4, <1>5, <1>6, <1>7, <1>11 DEF ServerStep
<1> QED
    BY <1>8, <1>9, <1>10, <1>11 DEF Next

(* The solo invariant holds for every blob size.                           *)
THEOREM SoloCorrect ==
    ASSUME NEW c \in Clients, Clients = {c} PROVE Spec => []SoloInv
<1>1. Init => SoloInv
    BY SoloInit
<1>2. SoloInv /\ [Next]_vars => SoloInv'
    BY SoloStep
<1> QED BY <1>1, <1>2, PTL DEF Spec

(* The files the server writes are the client's blob, whole and unmixed.   *)
THEOREM SavedComplete ==
    ASSUME NEW c \in Clients, Clients = {c} PROVE Spec => []SavedIsComplete
<1>1. SoloInv => SavedIsComplete
    BY DEF SoloInv, AckInv, PhaseInv, TypeOK, SavedInv, SavedIsComplete
<1> QED BY <1>1, SoloCorrect, PTL

(* Blocked in recvfrom, the server lacks a piece the client will send.     *)
THEOREM BlockedMissing ==
    ASSUME NEW c \in Clients, Clients = {c} PROVE Spec => []BlockedMeansMissing
<1>1. ASSUME SoloInv, spc = "recv" PROVE \E k \in Keys(c) : ~Held(k) /\ k \in dataMap[c]
  <2>0. /\ TypeOK /\ OwnPieces /\ BitsMeanHeld /\ AcksTrail /\ PhaseInv
        /\ CountInv
      BY <1>1 DEF SoloInv, AckInv
  <2>1. \A k \in Keys(c) : ~Held(k) => k \in dataMap[c]
      BY <2>0 DEF BitsMeanHeld, AcksTrail
  <2>2. CASE comp_size = UINT_MAX
    <3>1. 0 \in Keys(c) /\ ~Held(0)
        BY <2>2 DEF Keys, Held
    <3> QED BY <2>1, <3>1
  <2>3. CASE comp_size # UINT_MAX
    <3>1. comp_size = CompSize[c] /\ ~(recv_size >= comp_size)
        BY <1>1, <2>0, <2>3 DEF PhaseInv, CountInv, LoopEnds
    <3>2. Stored # Chunks(c) /\ Stored \subseteq Chunks(c)
        BY <1>1, <2>0, <3>1, StoredIsOwn DEF CountInv
    <3>3. PICK k \in Chunks(c) : k \notin Stored
        BY <3>2
    <3>4. k \in Seqs /\ k # 0 /\ k \in Keys(c)
        BY <3>3, SizeAssumption DEF Chunks, Keys, Seqs
    <3>5. files = NoFiles
        BY <1>1, <2>0 DEF PhaseInv
    <3>6. ~Held(k)
        BY <3>3, <3>4, <3>5 DEF Held, HeldChunk, Stored, NoFiles
    <3> QED BY <2>1, <3>4, <3>6
  <2> QED BY <2>2, <2>3
<1>2. SoloInv => BlockedMeansMissing
    BY <1>1 DEF BlockedMeansMissing
<1> QED BY <1>2, SoloCorrect, PTL

(* The server never lets go of a piece, nor of the size.                   *)
LEMMA HeldStays ==
    ASSUME SoloInv, [Next]_vars
    PROVE  /\ \A k \in Seqs : Held(k) => Held(k)'
           /\ comp_size # UINT_MAX => comp_size' # UINT_MAX
<1>0. TypeOK /\ PhaseInv
    BY DEF SoloInv, AckInv
<1>1. ASSUME NEW p \in pkts, NEW rest \in {pkts, pkts \ {p}}, RecvPacket(p, rest)
      PROVE  /\ \A k \in Seqs : Held(k) => Held(k)'
             /\ comp_size # UINT_MAX => comp_size' # UINT_MAX
  <2>1. StorePacket(p) /\ UNCHANGED files
      BY <1>1 DEF RecvPacket
  <2>2. CompSize[p.from] # UINT_MAX
      BY <1>0, SizeAssumption DEF TypeOK, Packet
  <2> QED BY <1>0, <2>1, <2>2, StoreHolds
<1>2. CASE SaveToFile
    BY <1>0, <1>2, SaveHolds DEF SaveToFile
<1>3. CASE UNCHANGED <<comp_size, store, files>>
    BY <1>3 DEF Held, HeldChunk
<1>4. \/ UNCHANGED <<comp_size, store, files>> \/ SaveToFile
      \/ \E p \in pkts : \E rest \in {pkts, pkts \ {p}} : RecvPacket(p, rest)
    BY DEF Next, ClientStep, ServerStep, Lose, SendRound, ReadResp, ReadTimeout, AnswerFin,
           Tick, LosePacket, LoseResponse, serverVars, vars
<1> QED BY <1>1, <1>2, <1>3, <1>4

(* What is missing of a client's pieces are those without a bit: nearly    *)
(* done by the count of bits is nearly done.                               *)
LEMMA WindowOpens ==
    ASSUME NEW c \in Clients, Clients = {c}
    PROVE  AckInv /\ NearlyDone(comp_size, recvbit) =>
              /\ comp_size # UINT_MAX
              /\ Cardinality({k \in Keys(c) : ~Held(k)}) <= KeepWindow + 1
<1> SUFFICES ASSUME AckInv, NearlyDone(comp_size, recvbit)
             PROVE  /\ comp_size # UINT_MAX
                    /\ Cardinality({k \in Keys(c) : ~Held(k)}) <= KeepWindow + 1
    OBVIOUS
<1> DEFINE full == comp_size \div DATA_SIZE
           missing == {k \in Keys(c) : ~Held(k)}
<1>0. TypeOK /\ BitsMeanHeld /\ PhaseInv /\ DATA_SIZE \in Nat \ {0} /\ KeepWindow \in Nat
    BY SizeAssumption, WindowAssumption DEF AckInv
<1>1. IsFiniteSet(recvbit) /\ Cardinality(recvbit) \in Nat /\ Cardinality(recvbit) <= BitmapBits
  <2>1. recvbit \subseteq 0..(BitmapBits - 1)
      BY <1>0, SeqsAreNat, SizeAssumption DEF TypeOK, BitsMeanHeld, HasBit
  <2>2. IsFiniteSet(0..(BitmapBits - 1)) /\ Cardinality(0..(BitmapBits - 1)) = BitmapBits
    <3>1. BitmapBits \in Nat /\ BitmapBits - 1 \in Int
        BY SizeAssumption
    <3> QED BY <3>1, FS_Interval
  <2> QED BY <2>1, <2>2, FS_Subset, FS_CardinalityType
<1>2. full - Cardinality(recvbit) < KeepWindow
    BY DEF NearlyDone
<1>3. comp_size # UINT_MAX
  <2>1. SUFFICES ASSUME comp_size = UINT_MAX PROVE FALSE
      OBVIOUS
  <2>2. full - BitmapBits >= KeepWindow /\ full \in Int
      BY <2>1, SizeAssumption, WindowAssumption
  <2> QED BY <1>0, <1>1, <1>2, <2>2, SizeAssumption
<1>4. comp_size = CompSize[c] /\ CompSize[c] \in Nat \ {0}
    BY <1>0, <1>3, SizeAssumption DEF PhaseInv
<1>5. IsFiniteSet(Keys(c)) /\ Cardinality(Keys(c)) <= full + 2 /\ full \in Nat
  <2>1. Chunks(c) = ChunksOf(CompSize[c], DATA_SIZE)
      BY DEF Chunks, ChunksOf
  <2>2. /\ IsFiniteSet(Chunks(c)) /\ full \in Nat
        /\ Cardinality(Chunks(c)) <= full + 1 /\ Cardinality(Chunks(c)) \in Nat
      BY <1>0, <1>4, <2>1, ChunkCount, FS_CardinalityType
  <2>3. Keys(c) = Chunks(c) \cup {0}
      BY DEF Keys
  <2> QED BY <2>2, <2>3, FS_AddElement
<1>6. Cardinality(Keys(c) \ recvbit) = Cardinality(Keys(c)) - Cardinality(recvbit)
  <2>1. recvbit \subseteq Keys(c)
      BY <1>0 DEF TypeOK, Seqs
  <2>2. Keys(c) \cap recvbit = recvbit
      BY <2>1
  <2> QED BY <1>5, <2>2, FS_Difference
<1>7. Cardinality(missing) <= Cardinality(Keys(c) \ recvbit)
  <2>1. missing \subseteq Keys(c) \ recvbit
      BY <1>0 DEF BitsMeanHeld
  <2>2. IsFiniteSet(Keys(c) \ recvbit)
      BY <1>5, FS_Difference
  <2> QED BY <2>1, <2>2, FS_Subset
<1>8. Cardinality(missing) \in Nat /\ Cardinality(Keys(c)) \in Nat
  <2>1. missing \subseteq Keys(c)
      OBVIOUS
  <2> QED BY <1>5, <2>1, FS_Subset, FS_CardinalityType
<1> HIDE DEF full, missing
<1>9. Cardinality(missing) <= KeepWindow + 1
    BY <1>0, <1>1, <1>2, <1>5, <1>6, <1>7, <1>8
<1> QED BY <1>3, <1>9 DEF missing

(* The server is quick to acknowledge only when all but a window of the    *)
(* pieces are there, for every size of blob, bitmap and window.            *)
THEOREM KeepNearlyDone ==
    ASSUME NEW c \in Clients, Clients = {c} PROVE Spec => []KeepMeansNearlyDone
<1> DEFINE missing == {k \in Keys(c) : ~Held(k)}
<1>1. Init => KeepMeansNearlyDone
    BY DEF Init, KeepMeansNearlyDone
<1>2. (AckInv /\ NearlyDone(comp_size, recvbit) =>
          comp_size # UINT_MAX /\ Cardinality(missing) <= KeepWindow + 1)'
    BY WindowOpens, PTL
<1>3. ASSUME SoloInv, SoloInv', KeepMeansNearlyDone, [Next]_vars PROVE KeepMeansNearlyDone'
  <2>1. SUFFICES ASSUME keep'
                 PROVE  comp_size' # UINT_MAX /\ Cardinality(missing') <= KeepWindow + 1
      BY DEF KeepMeansNearlyDone
  <2>2. CASE keep
    <3>1. comp_size' # UINT_MAX /\ missing' \subseteq missing
        BY <1>3, <2>2, HeldStays, KeysAreSeqs DEF KeepMeansNearlyDone
    <3>2. IsFiniteSet(Keys(c)) /\ missing \subseteq Keys(c)
      <4>1. IsFiniteSet(Chunks(c)) /\ Keys(c) = Chunks(c) \cup {0}
          BY ClientCover DEF Keys
      <4> QED BY <4>1, FS_AddElement
    <3>3. /\ Cardinality(missing') <= Cardinality(missing)
          /\ Cardinality(missing') \in Nat /\ Cardinality(missing) \in Nat
        BY <3>1, <3>2, FS_Subset, FS_CardinalityType
    <3>4. Cardinality(missing) <= KeepWindow + 1
        BY <1>3, <2>2 DEF KeepMeansNearlyDone
    <3> QED BY <3>1, <3>3, <3>4, WindowAssumption
  <2>3. CASE ~keep
    <3>1. NearlyDone(comp_size, recvbit)'
      <4>1. \/ UNCHANGED keep
            \/ \E p \in pkts : \E rest \in {pkts, pkts \ {p}} : RecvPacket(p, rest)
          BY <1>3 DEF Next, ClientStep, ServerStep, Lose, SendRound, ReadResp, ReadTimeout,
               AnswerFin, SaveToFile, Tick, LosePacket, LoseResponse, serverVars, vars
      <4> QED BY <2>1, <2>3, <4>1 DEF RecvPacket, NearlyDone
    <3>2. AckInv'
        BY <1>3 DEF SoloInv
    <3> QED BY <1>2, <3>1, <3>2
  <2> QED BY <2>2, <2>3
<1> QED BY <1>1, <1>3, SoloCorrect, PTL DEF Spec

(* A client that has terminated is not needed any more.                    *)
THEOREM ExitHeld ==
    ASSUME NEW c \in Clients, Clients = {c} PROVE Spec => []ExitMeansHeld
<1>1. ASSUME SoloInv, cpc[c] = "exit", NEW k \in Keys(c) PROVE Held(k)
  <2>0. BitsMeanHeld /\ AcksTrail /\ FinTrails /\ PhaseInv /\ SavedInv
      BY <1>1 DEF SoloInv, AckInv
  <2>1. CASE dataMap[c] = {}
      BY <2>0, <2>1 DEF AcksTrail, BitsMeanHeld
  <2>2. CASE dataMap[c] # {}
    <3>1. spc = "fin" /\ files = Image(c)
        BY <1>1, <2>0, <2>2 DEF FinTrails, SavedInv
    <3>2. comp_size # UINT_MAX
        BY <2>0, <3>1 DEF PhaseInv
    <3>3. k # 0 => k \in Seqs /\ files.chunk[k] = c
        BY <3>1 DEF Image, Keys, Seqs
    <3> QED BY <3>2, <3>3, ClientAssumption DEF Held, HeldChunk
  <2> QED BY <2>1, <2>2
<1>2. SoloInv => ExitMeansHeld
    BY <1>1 DEF ExitMeansHeld, HoldsAll
<1> QED BY <1>2, SoloCorrect, PTL

-----------------------------------------------------------------------------
(* With one client the program implements ReliableTransfer, for every blob *)
(* size: each of its steps is a step of the abstract transfer or leaves    *)
(* have, known, saved and left as they are.                                *)

(* What the abstract variables are made of.                                *)
LEMMA TheSender == ASSUME NEW c \in Clients, Clients = {c} PROVE Sender = c
BY DEF Sender

LEMMA TransferInit ==
    ASSUME NEW c \in Clients, Clients = {c} PROVE Init => Transfer!Init
<1> SUFFICES ASSUME Init PROVE Transfer!Init
    OBVIOUS
<1>1. Sender = c
    BY TheSender
<1>2. \A k \in Keys(c) : ~Held(k)
  <2>1. \A k \in Chunks(c) : k \in Seqs
      BY DEF Seqs, Keys
  <2> QED BY <2>1 DEF Init, Held, HeldChunk, NoFiles, Keys
<1>3. dataMap[c] = Keys(c) /\ files = NoFiles /\ cpc[c] # "exit"
    BY DEF Init
<1> QED BY <1>1, <1>2, <1>3 DEF Transfer!Init

(* A received packet adds at most one piece.                               *)
LEMMA ReceiveOne ==
    ASSUME NEW c \in Clients, Clients = {c}, SoloInv, NEW p \in pkts,
           StorePacket(p), UNCHANGED files
    PROVE  /\ p.seq \in Keys(c)
           /\ {k \in Keys(c) : Held(k)'} = {k \in Keys(c) : Held(k)} \cup {p.seq}
<1>0. TypeOK /\ OwnPieces
    BY DEF SoloInv, AckInv
<1>1. p.from = c /\ p.seq \in Keys(c)
    BY <1>0 DEF TypeOK, Packet, OwnPieces
<1>2. Keys(c) \subseteq Seqs
    BY KeysAreSeqs
<1>3. Held(p.seq)' /\ \A k \in Keys(c) : Held(k) => Held(k)'
    BY <1>0, <1>2, StoreHolds
<1>4. \A k \in Keys(c) \ {p.seq} : Held(k)' => Held(k)
    BY <1>0, <1>2 DEF StorePacket, Held, HeldChunk, TypeOK
<1> QED BY <1>1, <1>3, <1>4

LEMMA TransferStep ==
    ASSUME NEW c \in Clients, Clients = {c}
    PROVE  SoloInv /\ [Next]_vars => [Transfer!Next]_(Transfer!vars)
<1> SUFFICES ASSUME SoloInv, [Next]_vars PROVE [Transfer!Next]_(Transfer!vars)
    OBVIOUS
<1> DEFINE have  == {k \in Keys(c) : Held(k)}
           known == Keys(c) \ dataMap[c]
           saved == files # NoFiles
           left  == cpc[c] = "exit"
<1>0. /\ Sender = c /\ TypeOK /\ PhaseInv /\ BitsMeanHeld /\ AcksTrail /\ FinTrails
      /\ OwnPieces /\ CountInv /\ ExitInv
    BY TheSender DEF SoloInv, AckInv
<1>a. ASSUME UNCHANGED serverVars PROVE UNCHANGED have /\ UNCHANGED saved
  <2>1. UNCHANGED <<comp_size, store, files>>
      BY <1>a DEF serverVars
  <2> QED BY <2>1 DEF Held, HeldChunk
<1>b. ASSUME UNCHANGED have, UNCHANGED known, UNCHANGED saved, UNCHANGED left
      PROVE  UNCHANGED Transfer!vars
    BY <1>0, <1>b DEF Transfer!vars
<1>1. ASSUME SendRound(c) PROVE UNCHANGED Transfer!vars
  <2>1. UNCHANGED serverVars /\ UNCHANGED dataMap
      BY <1>1 DEF SendRound
  <2>2. UNCHANGED left
      BY <1>0, <1>1 DEF SendRound, TypeOK
  <2> QED BY <1>a, <1>b, <2>1, <2>2
<1>2. ASSUME NEW r \in resps[c], NEW rest \in {resps[c], resps[c] \ {r}}, ReadResp(c, r, rest)
      PROVE  Transfer!Leave \/ UNCHANGED Transfer!vars
  <2>1. UNCHANGED serverVars /\ UNCHANGED dataMap /\ ~left
      BY <1>2 DEF ReadResp
  <2>2. CASE r.fin
    <3>1. saved
        BY <1>0, <2>2 DEF FinTrails, PhaseInv, NoFiles
    <3>2. left'
        BY <1>0, <1>2, <2>2 DEF ReadResp, TypeOK
    <3> QED BY <1>0, <1>a, <2>1, <3>1, <3>2 DEF Transfer!Leave
  <2>3. CASE ~r.fin
    <3>1. UNCHANGED left
        BY <1>2, <2>3 DEF ReadResp
    <3> QED BY <1>a, <1>b, <2>1, <3>1
  <2> QED BY <2>2, <2>3
<1>3. ASSUME ReadTimeout(c) PROVE Transfer!Learn
  <2>1. UNCHANGED serverVars /\ ~left
      BY <1>3 DEF ReadTimeout
  <2>2. /\ dataMap'[c] = {k \in dataMap[c] : ~(HasBit(k) /\ k \in donebit[c])}
        /\ cpc'[c] = IF dataMap'[c] = {} THEN "exit" ELSE "send"
      BY <1>0, <1>3 DEF ReadTimeout, TypeOK
  <2> DEFINE S == Keys(c) \ dataMap'[c]
  <2>3. S \subseteq have
      BY <1>0, <2>2 DEF AcksTrail, BitsMeanHeld
  <2>4. known' = known \cup S
      BY <2>2
  <2>5. left' <=> known' = Keys(c)
      BY <1>0, <2>2 DEF OwnPieces
  <2>6. \E T \in SUBSET have : known' = known \cup T
      BY <2>3, <2>4
  <2>7. left' = (known' = Keys(c))
      BY <2>5
  <2> HIDE DEF S, have, known, saved, left
  <2>8. UNCHANGED have /\ UNCHANGED saved
      BY <1>a, <2>1
  <2> QED BY <1>0, <2>1, <2>6, <2>7, <2>8 DEF Transfer!Learn, have, known, saved, left
<1>4. ASSUME NEW p \in pkts, NEW rest \in {pkts, pkts \ {p}}, RecvPacket(p, rest)
      PROVE  Transfer!Receive \/ UNCHANGED Transfer!vars
  <2>1. UNCHANGED <<cpc, dataMap, files>> /\ StorePacket(p)
      BY <1>4 DEF RecvPacket, clientVars
  <2>2. p.seq \in Keys(c) /\ have' = have \cup {p.seq}
      BY <2>1, ReceiveOne
  <2>3. UNCHANGED known /\ UNCHANGED saved /\ UNCHANGED left
      BY <2>1
  <2>4. CASE p.seq \in have
      BY <1>b, <2>2, <2>3, <2>4
  <2>5. CASE p.seq \notin have
      BY <1>0, <2>2, <2>3, <2>5 DEF Transfer!Receive
  <2> QED BY <2>4, <2>5
<1>5. ASSUME NEW p \in pkts, NEW rest \in {pkts, pkts \ {p}}, AnswerFin(p, rest)
      PROVE  UNCHANGED Transfer!vars
    BY <1>5, <1>a, <1>b DEF AnswerFin, clientVars
<1>6. CASE SaveToFile
  <2>1. UNCHANGED <<cpc, dataMap>> /\ ~saved
      BY <1>0, <1>6 DEF SaveToFile, clientVars, PhaseInv
  <2>2. files' = Image(c) /\ comp_size' = comp_size /\ comp_size # UINT_MAX
      BY <1>0, <1>6, SavedImage DEF SaveToFile, PhaseInv
  <2>3. saved'
      BY <1>0, <1>6, <2>2 DEF SaveToFile, NoFiles
  <2>4. have' = Keys(c)
    <3>1. \A k \in Chunks(c) : k \in Seqs
        BY DEF Seqs, Keys
    <3>2. \A k \in Keys(c) : Held(k)'
        BY <2>2, <3>1, ClientAssumption DEF Image, Held, HeldChunk, Keys
    <3> QED BY <3>2
  <2>5. have = Keys(c)
    <3>1. Stored = Chunks(c)
        BY <1>0, <1>6, StoredIsOwn DEF SaveToFile, CountInv, LoopEnds, PhaseInv
    <3>2. \A k \in Chunks(c) : Held(k)
        BY <2>2, <3>1 DEF Held, HeldChunk, Stored
    <3>3. Held(0)
        BY <2>2 DEF Held
    <3> QED BY <3>2, <3>3 DEF Keys
  <2> QED BY <1>0, <2>1, <2>3, <2>4, <2>5 DEF Transfer!Save, Transfer!Next
<1>7. CASE Tick
  <2>1. UNCHANGED <<cpc, dataMap>> /\ UNCHANGED <<comp_size, store, files>>
      BY <1>7 DEF Tick, clientVars
  <2>2. UNCHANGED have
      BY <2>1 DEF Held, HeldChunk
  <2> QED BY <1>b, <2>1, <2>2
<1>8. CASE Lose
  <2>1. UNCHANGED <<cpc, dataMap>> /\ UNCHANGED serverVars
      BY <1>8 DEF Lose, LosePacket, LoseResponse, clientVars
  <2> QED BY <1>a, <1>b, <2>1
<1>9. CASE UNCHANGED vars
  <2>1. UNCHANGED <<cpc, dataMap>> /\ UNCHANGED serverVars
      BY <1>9 DEF vars, clientVars
  <2> QED BY <1>a, <1>b, <2>1
<1>10. ASSUME NEW d \in Clients, ClientStep(d) PROVE [Transfer!Next]_(Transfer!vars)
  <2>1. d = c
      OBVIOUS
  <2> QED BY <1>1, <1>2, <1>3, <1>10, <2>1 DEF ClientStep, Transfer!Next
<1>11. CASE ServerStep
    BY <1>4, <1>5, <1>6, <1>7, <1>11 DEF ServerStep, Transfer!Next
<1> QED
    BY <1>8, <1>9, <1>10, <1>11 DEF Next

(* The program implements the abstract transfer: pieces are received once, *)
(* the client's knowledge never runs ahead of the server, nothing is saved *)
(* incomplete, and the client leaves for one of the two right reasons.     *)
THEOREM Implements ==
    ASSUME NEW c \in Clients, Clients = {c} PROVE Spec => ImplementsTransfer
<1>1. Init => Transfer!Init
    BY TransferInit
<1>2. SoloInv /\ [Next]_vars => [Transfer!Next]_(Transfer!vars)
    BY TransferStep
<1> QED BY <1>1, <1>2, SoloCorrect, PTL DEF Spec, ImplementsTransfer, Transfer!Spec
=============================================================================
