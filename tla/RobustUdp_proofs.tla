-------------------------- MODULE RobustUdp_proofs --------------------------
(***************************************************************************)
(* Proofs about RobustUdp for every set of clients, every blob size, every *)
(* DATA_SIZE and every size of the bitmap.                                 *)
(***************************************************************************)
EXTENDS RobustUdp, TLAPS

(* Every packet and every key of a client is a sequence number.            *)
LEMMA KeysAreSeqs == \A c \in Clients : Keys(c) \subseteq Seqs /\ 0 \in Keys(c)
BY DEF Keys, Seqs

(* The sequence numbers are natural numbers.                               *)
LEMMA SeqsAreNat == Seqs \subseteq Nat
BY SizeAssumption DEF Seqs, Keys, Chunks

LEMMA TypeInit == Init => TypeOK
<1> SUFFICES ASSUME Init PROVE TypeOK
    OBVIOUS
<1>1. dataMap \in [Clients -> SUBSET Seqs]
    BY KeysAreSeqs DEF Init
<1>2. wild \in [Clients -> SUBSET Seqs]
    BY DEF Init
<1>3. files \in [size : Nat, chunk : [Seqs -> Clients \cup {NoClient}]]
    BY SizeAssumption DEF Init, NoFiles
<1>0. cpc \in [Clients -> {"send", "read", "exit"}] /\ donebit \in [Clients -> SUBSET Seqs]
    BY DEF Init
<1>4. comp_size \in Nat /\ recv_size \in Nat /\ elapsed \in 0..2
    BY SizeAssumption DEF Init
<1>7. keep \in BOOLEAN
    BY Zenon DEF Init
<1>5. store \in [Seqs -> Clients \cup {NoClient}] /\ resps \in [Clients -> SUBSET Response]
    BY DEF Init
<1>6. pkts \subseteq Packet /\ spc \in {"recv", "save", "fin"} /\ recvbit \subseteq Seqs
    BY DEF Init
<1> QED
    BY <1>7, <1>6, <1>0, <1>1, <1>2, <1>3, <1>4, <1>5 DEF TypeOK

(* Every step keeps the types.                                             *)
LEMMA TypeStep == TypeOK /\ [Next]_vars => TypeOK'
<1> SUFFICES ASSUME TypeOK, [Next]_vars PROVE TypeOK'
    OBVIOUS
<1> USE DEF TypeOK
<1>1. ASSUME NEW c \in Clients, SendRound(c) PROVE TypeOK'
  <2>1. pkts' \subseteq Packet
      BY <1>1 DEF SendRound, Packet
  <2> QED BY <1>1, <2>1 DEF SendRound, serverVars
<1>2. ASSUME NEW c \in Clients, NEW r \in resps[c], NEW rest \in {resps[c], resps[c] \ {r}},
             ReadResp(c, r, rest)
      PROVE  TypeOK'
  <2>1. r \in Response
      BY <1>2
  <2> QED BY <1>2, <2>1 DEF ReadResp, serverVars, Response
<1>3. ASSUME NEW c \in Clients, ReadTimeout(c) PROVE TypeOK'
  <2>1. dataMap' \in [Clients -> SUBSET Seqs]
      BY <1>3 DEF ReadTimeout
  <2>2. cpc' \in [Clients -> {"send", "read", "exit"}]
      BY <1>3 DEF ReadTimeout
  <2> QED BY <1>3, <2>1, <2>2 DEF ReadTimeout, serverVars, netVars
<1>4. ASSUME NEW p \in pkts, NEW rest \in {pkts, pkts \ {p}}, RecvPacket(p, rest)
      PROVE  TypeOK'
  <2>1. p.from \in Clients /\ p.seq \in Seqs
      BY DEF Packet
  <2>2. recvbit' \subseteq Seqs
      BY <1>4, <2>1 DEF RecvPacket
  <2>3. comp_size' \in Nat /\ recv_size' \in Nat /\ store' \in [Seqs -> Clients \cup {NoClient}]
      BY <1>4, <2>1, SizeAssumption DEF RecvPacket, StorePacket
  <2>4. resps' \in [Clients -> SUBSET Response] /\ elapsed' \in 0..2
    <3>1. [fin |-> FALSE, bits |-> recvbit'] \in Response
        BY <2>2 DEF Response
    <3>2. CASE /\ Respond(p.from, FALSE, recvbit') /\ elapsed' = 0
      <4> DEFINE new == [fin |-> FALSE, bits |-> recvbit']
      <4>1. resps' = [resps EXCEPT ![p.from] = resps[p.from] \cup {new}]
          BY <3>2 DEF Respond
      <4>2. resps[p.from] \cup {new} \in SUBSET Response
          BY <2>1, <3>1
      <4>3. elapsed' \in 0..2
          BY <3>2
      <4> HIDE DEF new
      <4> QED BY <4>1, <4>2, <4>3
    <3>3. CASE UNCHANGED <<resps, elapsed>>
        BY <3>3
    <3>4. (Respond(p.from, FALSE, recvbit') /\ elapsed' = 0) \/ UNCHANGED <<resps, elapsed>>
        BY <1>4 DEF RecvPacket
    <3> QED BY <3>2, <3>3, <3>4
  <2>5. keep' \in BOOLEAN
      BY <1>4 DEF RecvPacket, NearlyDone
  <2>6. spc' \in {"recv", "save", "fin"}
      BY <1>4 DEF RecvPacket
  <2>7. pkts' \subseteq Packet
      BY <1>4 DEF RecvPacket, Deliver
  <2> QED BY <1>4, <2>2, <2>3, <2>4, <2>5, <2>6, <2>7 DEF RecvPacket, clientVars
<1>5. ASSUME NEW p \in pkts, NEW rest \in {pkts, pkts \ {p}}, AnswerFin(p, rest)
      PROVE  TypeOK'
  <2>1. p.from \in Clients
      BY DEF Packet
  <2>2. [fin |-> TRUE, bits |-> recvbit] \in Response
      BY DEF Response
  <2> QED BY <1>5, <2>1, <2>2 DEF AnswerFin, Deliver, Respond, clientVars, serverVars
<1>6. CASE SaveToFile
    BY <1>6 DEF SaveToFile, clientVars, netVars
<1>7. CASE Tick
    BY <1>7 DEF Tick, clientVars, netVars
<1>8. CASE Lose
  <2>1. ASSUME NEW p \in pkts, LosePacket(p) PROVE TypeOK'
      BY <2>1 DEF LosePacket, clientVars, serverVars
  <2>2. ASSUME NEW c \in Clients, NEW r \in resps[c], LoseResponse(c, r) PROVE TypeOK'
      BY <2>2 DEF LoseResponse, clientVars, serverVars
  <2> QED BY <1>8, <2>1, <2>2 DEF Lose
<1>9. CASE UNCHANGED vars
  <2>1. UNCHANGED clientVars /\ UNCHANGED netVars /\ UNCHANGED serverVars
      BY <1>9 DEF vars
  <2>2. UNCHANGED <<cpc, dataMap, donebit, wild>> /\ UNCHANGED <<pkts, resps>>
      BY <2>1 DEF clientVars, netVars
  <2>3. UNCHANGED <<spc, comp_size, recv_size, store, recvbit, keep, elapsed, files>>
      BY <2>1 DEF serverVars
  <2> QED BY <2>2, <2>3
<1> HIDE DEF TypeOK
<1>10. ASSUME NEW c \in Clients, ClientStep(c) PROVE TypeOK'
    BY <1>1, <1>2, <1>3, <1>10 DEF ClientStep
<1>11. CASE ServerStep
    BY <1>4, <1>5, <1>6, <1>7, <1>11 DEF ServerStep
<1> QED
    BY <1>8, <1>9, <1>10, <1>11 DEF Next

(* Type correctness of the client, the network and the server: in every    *)
(* reachable state every packet, bitmap and stored chunk is one of a       *)
(* client's, whatever the link does.                                       *)
THEOREM TypeCorrect == Spec => []TypeOK
BY TypeInit, TypeStep, PTL DEF Spec

-----------------------------------------------------------------------------
(* Acknowledgements, for any number of clients.                            *)

(* A stored packet is held from then on.                                   *)
LEMMA StoreHolds ==
    ASSUME TypeOK, NEW p \in pkts, StorePacket(p), UNCHANGED files
    PROVE  /\ Held(p.seq)'
           /\ \A k \in Seqs : Held(k) => Held(k)'
           /\ comp_size' # comp_size => comp_size' = CompSize[p.from]
<1> USE DEF TypeOK
<1>1. p.from \in Clients /\ p.seq \in Seqs /\ p.from # NoClient
    BY ClientAssumption DEF Packet
<1>2. CompSize[p.from] # UINT_MAX
    BY <1>1, SizeAssumption
<1>3. CASE p.seq = 0 /\ comp_size' = CompSize[p.from] /\ UNCHANGED <<recv_size, store>>
    BY <1>1, <1>2, <1>3 DEF Held, HeldChunk
<1>4. CASE /\ p.seq # 0 /\ store[p.seq] = NoClient
           /\ store' = [store EXCEPT ![p.seq] = p.from] /\ UNCHANGED comp_size
  <2>1. store'[p.seq] = p.from /\ \A k \in Seqs : store[k] # NoClient => store'[k] # NoClient
      BY <1>1, <1>4
  <2> QED BY <1>1, <1>4, <2>1 DEF Held, HeldChunk
<1>5. CASE p.seq # 0 /\ store[p.seq] # NoClient /\ UNCHANGED <<comp_size, recv_size, store>>
    BY <1>5 DEF Held, HeldChunk
<1> QED BY <1>3, <1>4, <1>5 DEF StorePacket

(* save_to_file moves the chunks from memory to the files, losing none.    *)
LEMMA SaveHolds ==
    ASSUME TypeOK, PhaseInv, SaveToFile
    PROVE  \A k \in Seqs : Held(k) => Held(k)'
<1>1. files = NoFiles
    BY DEF PhaseInv, SaveToFile
<1>2. \A k \in Seqs : files.chunk[k] = NoClient
    BY <1>1 DEF NoFiles
<1>3. files'.chunk = store /\ UNCHANGED comp_size
    BY DEF SaveToFile
<1> QED BY <1>2, <1>3 DEF Held, HeldChunk

LEMMA AckInit == Init => AckInv
<1> SUFFICES ASSUME Init PROVE AckInv
    OBVIOUS
<1>1. TypeOK
    BY TypeInit
<1>2. BitsMeanHeld /\ AcksTrail
    BY DEF Init, BitsMeanHeld, AcksTrail
<1>3. FinTrails /\ PhaseInv
    BY DEF Init, FinTrails, PhaseInv
<1> QED BY <1>1, <1>2, <1>3 DEF AckInv

(* Every step keeps the chain bitmap - response - s_res - erased key       *)
(* behind what the server holds, and FINs behind the files.                *)
LEMMA AckStep == AckInv /\ [Next]_vars => AckInv'
<1> SUFFICES ASSUME AckInv, [Next]_vars PROVE AckInv'
    OBVIOUS
<1>0. TypeOK /\ TypeOK' /\ BitsMeanHeld /\ AcksTrail /\ FinTrails /\ PhaseInv
    BY TypeStep DEF AckInv
(* A step that leaves the server alone only has to keep the client side.   *)
<1>a. ASSUME UNCHANGED serverVars, AcksTrail', FinTrails' PROVE AckInv'
  <2>1. UNCHANGED <<spc, comp_size, store, recvbit, files>>
      BY <1>a DEF serverVars
  <2>2. BitsMeanHeld'
      BY <1>0, <2>1 DEF BitsMeanHeld, Held, HeldChunk
  <2>3. PhaseInv'
      BY <1>0, <2>1 DEF PhaseInv
  <2> QED BY <1>0, <1>a, <2>2, <2>3 DEF AckInv
<1>1. ASSUME NEW c \in Clients, SendRound(c) PROVE AckInv'
  <2>1. UNCHANGED <<dataMap, donebit, resps, spc, recvbit>> /\ UNCHANGED serverVars
      BY <1>1 DEF SendRound, serverVars
  <2>2. \A d \in Clients : cpc'[d] = "exit" => cpc[d] = "exit"
      BY <1>0, <1>1 DEF SendRound, TypeOK
  <2> QED BY <1>0, <1>a, <2>1, <2>2 DEF AcksTrail, FinTrails
<1>2. ASSUME NEW c \in Clients, NEW r \in resps[c], NEW rest \in {resps[c], resps[c] \ {r}},
             ReadResp(c, r, rest)
      PROVE  AckInv'
  <2>1. UNCHANGED <<dataMap, spc, recvbit>> /\ UNCHANGED serverVars
      BY <1>2 DEF ReadResp, serverVars
  <2>2. \A d \in Clients : resps'[d] \subseteq resps[d]
      BY <1>0, <1>2 DEF ReadResp, TypeOK
  <2>3. \A d \in Clients : donebit'[d] = IF d = c THEN r.bits ELSE donebit[d]
      BY <1>0, <1>2 DEF ReadResp, TypeOK
  <2>4. \A d \in Clients : cpc'[d] = "exit" => cpc[d] = "exit" \/ r.fin
      BY <1>0, <1>2 DEF ReadResp, TypeOK
  <2>5. AcksTrail'
      BY <1>0, <2>1, <2>2, <2>3 DEF AcksTrail
  <2>6. FinTrails'
      BY <1>0, <2>1, <2>2, <2>4 DEF FinTrails
  <2> QED BY <1>a, <2>1, <2>5, <2>6
<1>3. ASSUME NEW c \in Clients, ReadTimeout(c) PROVE AckInv'
  <2>1. UNCHANGED <<donebit, resps, spc, recvbit>> /\ UNCHANGED serverVars
      BY <1>3 DEF ReadTimeout, netVars, serverVars
  <2>2. \A d \in Clients : dataMap[d] \ dataMap'[d] \subseteq donebit[d]
      BY <1>0, <1>3 DEF ReadTimeout, TypeOK
  <2>3. AcksTrail'
      BY <1>0, <2>1, <2>2 DEF AcksTrail
  <2>4. \A d \in Clients : cpc'[d] = "exit" /\ dataMap'[d] # {} =>
                               cpc[d] = "exit" /\ dataMap[d] # {}
      BY <1>0, <1>3 DEF ReadTimeout, TypeOK
  <2>5. FinTrails'
      BY <1>0, <2>1, <2>4 DEF FinTrails
  <2> QED BY <1>a, <2>1, <2>3, <2>5
<1>4. ASSUME NEW p \in pkts, NEW rest \in {pkts, pkts \ {p}}, RecvPacket(p, rest)
      PROVE  AckInv'
  <2>0. p.from \in Clients /\ p.seq \in Seqs
      BY <1>0 DEF TypeOK, Packet
  <2>1. UNCHANGED <<cpc, dataMap, donebit, files>> /\ spc = "recv" /\ StorePacket(p)
      BY <1>4 DEF RecvPacket, clientVars
  <2>2. recvbit' = recvbit \cup {k \in {p.seq} : HasBit(k)}
      BY <1>4 DEF RecvPacket
  <2>3. BitsMeanHeld'
      BY <1>0, <2>1, <2>2, StoreHolds DEF BitsMeanHeld, TypeOK
  <2>4. \A d \in Clients : \A r \in resps'[d] : r \in resps[d] \/ r = [fin |-> FALSE, bits |-> recvbit']
      BY <1>0, <1>4, <2>0 DEF RecvPacket, Respond, TypeOK
  <2>5. AcksTrail'
      BY <1>0, <2>1, <2>2, <2>4 DEF AcksTrail
  <2>6. FinTrails'
      BY <1>0, <2>1, <2>4 DEF FinTrails
  <2>7. PhaseInv'
    <3>1. comp_size' # UINT_MAX => \E c \in Clients : comp_size' = CompSize[c]
        BY <1>0, <2>0, <2>1, StoreHolds DEF PhaseInv
    <3>2. spc' # "recv" => comp_size' # UINT_MAX
        BY <1>4 DEF RecvPacket, LoopEnds
    <3>3. spc' # "fin"
        BY <1>4 DEF RecvPacket
    <3> QED BY <1>0, <2>1, <3>1, <3>2, <3>3 DEF PhaseInv
  <2> QED BY <1>0, <2>3, <2>5, <2>6, <2>7 DEF AckInv
<1>5. ASSUME NEW p \in pkts, NEW rest \in {pkts, pkts \ {p}}, AnswerFin(p, rest)
      PROVE  AckInv'
  <2>0. p.from \in Clients
      BY <1>0 DEF TypeOK, Packet
  <2>1. UNCHANGED <<cpc, dataMap, donebit, spc, recvbit>> /\ UNCHANGED serverVars /\ spc = "fin"
      BY <1>5 DEF AnswerFin, clientVars, serverVars
  <2>2. \A d \in Clients : \A r \in resps'[d] : r \in resps[d] \/ r = [fin |-> TRUE, bits |-> recvbit]
      BY <1>0, <1>5, <2>0 DEF AnswerFin, Respond, TypeOK
  <2>3. AcksTrail'
      BY <1>0, <2>1, <2>2 DEF AcksTrail
  <2>4. FinTrails'
      BY <1>0, <2>1, <2>2 DEF FinTrails
  <2> QED BY <1>a, <2>1, <2>3, <2>4
<1>6. CASE SaveToFile
  <2>1. UNCHANGED <<cpc, dataMap, donebit, resps, comp_size, recvbit>> /\ spc = "save" /\ spc' = "fin"
      BY <1>6 DEF SaveToFile, clientVars, netVars
  <2>2. BitsMeanHeld'
      BY <1>0, <1>6, <2>1, SaveHolds DEF BitsMeanHeld, TypeOK
  <2>3. PhaseInv'
    <3>1. files'.size = comp_size
        BY <1>6 DEF SaveToFile
    <3> QED BY <1>0, <2>1, <3>1 DEF PhaseInv
  <2>4. AcksTrail' /\ FinTrails'
      BY <1>0, <2>1 DEF AcksTrail, FinTrails
  <2> QED BY <1>0, <2>2, <2>3, <2>4 DEF AckInv
<1>7. CASE Tick
  <2>1. /\ UNCHANGED <<cpc, dataMap, donebit, resps>>
        /\ UNCHANGED <<spc, comp_size, store, recvbit, files>>
      BY <1>7 DEF Tick, clientVars, netVars
  <2>2. BitsMeanHeld' /\ PhaseInv'
      BY <1>0, <2>1 DEF BitsMeanHeld, Held, HeldChunk, PhaseInv
  <2>3. AcksTrail' /\ FinTrails'
      BY <1>0, <2>1 DEF AcksTrail, FinTrails
  <2> QED BY <1>0, <2>2, <2>3 DEF AckInv
<1>8. CASE Lose
  <2>1. UNCHANGED <<cpc, dataMap, donebit, spc, recvbit>> /\ UNCHANGED serverVars
      BY <1>8 DEF Lose, LosePacket, LoseResponse, clientVars, serverVars
  <2>2. \A d \in Clients : resps'[d] \subseteq resps[d]
      BY <1>0, <1>8 DEF Lose, LosePacket, LoseResponse, TypeOK
  <2> QED BY <1>0, <1>a, <2>1, <2>2 DEF AcksTrail, FinTrails
<1>9. CASE UNCHANGED vars
  <2>1. UNCHANGED <<cpc, dataMap, donebit, resps, spc, recvbit>> /\ UNCHANGED serverVars
      BY <1>9 DEF vars, clientVars, netVars, serverVars
  <2> QED BY <1>0, <1>a, <2>1 DEF AcksTrail, FinTrails
<1>10. ASSUME NEW c \in Clients, ClientStep(c) PROVE AckInv'
    BY <1>1, <1>2, <1>3, <1>10 DEF ClientStep
<1>11. CASE ServerStep
    BY <1>4, <1>5, <1>6, <1>7, <1>11 DEF ServerStep
<1> QED
    BY <1>8, <1>9, <1>10, <1>11 DEF Next

(* The acknowledgement invariant for any number of clients.                *)
THEOREM AckCorrect == Spec => []AckInv
BY AckInit, AckStep, PTL DEF Spec

(* No piece is lost through a false, stale or reordered acknowledgement:   *)
(* what a client erased from data_map the server holds.                    *)
THEOREM ErasedHeld == Spec => []ErasedIsHeld
<1>1. AckInv => ErasedIsHeld
    BY DEF AckInv, AcksTrail, BitsMeanHeld, ErasedIsHeld
<1> QED BY <1>1, AckCorrect, PTL

(* A FIN, under way or acted upon, means that save_to_file has returned.   *)
THEOREM FinSaved == Spec => []FinMeansSaved
<1>1. ASSUME AckInv PROVE FinMeansSaved
  <2>1. spc = "fin" => files # NoFiles
      BY <1>1 DEF AckInv, PhaseInv, NoFiles
  <2> QED BY <1>1, <2>1 DEF AckInv, FinTrails, FinMeansSaved
<1> QED BY <1>1, AckCorrect, PTL

(* Nothing is taken in between the receive loop and the FINs: the size and *)
(* the count stay, the chunks leave memory only for the files.             *)
THEOREM Frozen == Spec => FrozenAfterLoop
<1> DEFINE Step == spc # "recv" => /\ UNCHANGED <<comp_size, recv_size, recvbit>>
                                   /\ store' # store => files' # files
<1>1. ASSUME AckInv, [Next]_vars PROVE Step
  <2>1. ASSUME UNCHANGED serverVars PROVE Step
      BY <2>1 DEF serverVars
  <2>2. ASSUME NEW c \in Clients, ClientStep(c) PROVE Step
      BY <2>1, <2>2 DEF ClientStep, SendRound, ReadResp, ReadTimeout
  <2>3. CASE ServerStep
    <3>1. ASSUME NEW p \in pkts, NEW rest \in {pkts, pkts \ {p}},
                 RecvPacket(p, rest) \/ AnswerFin(p, rest)
          PROVE  Step
        BY <2>1, <3>1 DEF RecvPacket, AnswerFin
    <3>2. CASE SaveToFile
      <4>1. files.size = UINT_MAX /\ comp_size # UINT_MAX
          BY <1>1, <3>2 DEF AckInv, PhaseInv, SaveToFile, NoFiles
      <4>2. files'.size = comp_size
          BY <3>2 DEF SaveToFile
      <4> QED BY <3>2, <4>1, <4>2 DEF SaveToFile
    <3>3. CASE Tick
        BY <3>3 DEF Tick
    <3> QED BY <2>3, <3>1, <3>2, <3>3 DEF ServerStep
  <2>4. CASE Lose
      BY <2>1, <2>4 DEF Lose, LosePacket, LoseResponse
  <2>5. CASE UNCHANGED vars
      BY <2>1, <2>5 DEF vars
  <2> QED BY <1>1, <2>2, <2>3, <2>4, <2>5 DEF Next
<1>2. AckInv /\ [Next]_vars => [Step]_vars
    BY <1>1
<1> QED BY <1>2, AckCorrect, PTL DEF Spec, FrozenAfterLoop
=============================================================================
