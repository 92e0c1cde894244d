------------------------------ MODULE Labs_proofs ------------------------------
(***************************************************************************)
(* Proofs about the small programs: the inetd-like server, the sink and    *)
(* command server, the DNS server and the unpacker, each by an inductive   *)
(* invariant of its module; and about all programs in one behaviour.       *)
(***************************************************************************)
EXTENDS MCLabs, ChatServer_proofs, Sudoku_proofs, ChunkLemmas, FunctionTheorems,
        FiniteSetTheorems, TLAPS

(* A sequence of at most one element, from none.                           *)
LEMMA AppendToNone ==
    ASSUME NEW m
    PROVE  /\ Append(<<>>, m) = <<m>> /\ Len(<<m>>) = 1 /\ <<m>>[1] = m /\ <<m>> # <<>>
OBVIOUS

-----------------------------------------------------------------------------
(* Nkat: processes that are forked are not the one that was started.       *)
LEMMA ForkedProcs ==
    \A c \in Calls : /\ Middle(c) \in Procs \ {Main} /\ Prog(c) \in Procs \ {Main}
                     /\ Middle(c) # Prog(c)
BY DEF Middle, Prog, Main, Procs

(* Each process holds only as many connections as it can.                  *)
LEMMA NkatTypesInit == NkatInit => NkatTypeOK
<1> SUFFICES ASSUME NkatInit
             PROVE  NkatTypeOK
  OBVIOUS
<1>1. Cardinality({}) = 0 /\ 0 <= MaxFds
  BY FS_EmptySet, NkatAssumption
<1>2. Main \in Procs /\ (CHOOSE c \in Calls : TRUE) \in Calls
  BY NkatAssumption DEF Procs
<1>3. QED
  BY <1>1, <1>2 DEF NkatInit, NkatTypeOK

(* An exit leaves nothing out of its place.                                *)
LEMMA ExitTypes ==
    ASSUME NkatTypeOK, NEW p \in Procs, Exit(p)
    PROVE  NkatTypeOK'
<1>1. Cardinality({}) = 0 /\ 0 <= MaxFds
  BY FS_EmptySet, NkatAssumption
<1>2. proc' \in [Procs -> {"none", "accept", "forking", "middle", "wait", "run",
                           "zombie", "gone"}]
  BY DEF Exit, NkatTypeOK
<1>3. holds' \in [Procs -> SUBSET Calls] /\ \A q \in Procs : Cardinality(holds'[q]) <= MaxFds
  BY <1>1 DEF Exit, NkatTypeOK
<1>4. QED
  BY <1>2, <1>3 DEF Exit, NkatTypeOK

(* A child holds what its parent holds.                                    *)
LEMMA ForkTypes ==
    ASSUME NkatTypeOK, NEW p \in Procs, NEW child \in Procs,
           NEW at \in {"middle", "run"}, NEW parentAt \in {"accept", "wait"},
           Fork(p, child, at, parentAt)
    PROVE  NkatTypeOK'
<1>1. \A q \in Procs : Cardinality(holds'[q]) <= MaxFds
  BY DEF Fork, NkatTypeOK
<1>2. QED
  BY <1>1 DEF Fork, NkatTypeOK

LEMMA NkatTypesNext == NkatTypeOK /\ [NkatNext]_nkatVars => NkatTypeOK'
<1> SUFFICES ASSUME NkatTypeOK, [NkatNext]_nkatVars
             PROVE  NkatTypeOK'
  OBVIOUS
<1>0. \A p \in Procs : taken[p] \in Calls
  BY DEF NkatTypeOK
<1>1. ASSUME NEW c \in Calls, Call(c)
      PROVE  NkatTypeOK'
  BY <1>1 DEF Call, NkatTypeOK
<1>2. ASSUME NEW c \in Calls, ProgEnds(c)
      PROVE  NkatTypeOK'
  BY <1>2, ForkedProcs, ExitTypes DEF ProgEnds
<1>3. ASSUME NEW p \in Procs, NEW c \in Calls, Accept(p, c)
      PROVE  NkatTypeOK'
  <2>1. holds[p] \subseteq Calls /\ IsFiniteSet(holds[p])
    BY NkatAssumption, FS_Subset DEF NkatTypeOK
  <2>2. Cardinality(holds[p]) \in Nat /\ Cardinality(holds[p]) < MaxFds
    BY <1>3, <2>1, FS_CardinalityType DEF Accept
  <2>3. /\ Cardinality(holds[p] \cup {c}) = Cardinality(holds[p])
        \/ Cardinality(holds[p] \cup {c}) = Cardinality(holds[p]) + 1
    BY <2>1, FS_AddElement
  <2>4. Cardinality(holds[p] \cup {c}) <= MaxFds
    BY <2>2, <2>3, NkatAssumption
  <2>5. holds' = [holds EXCEPT ![p] = holds[p] \cup {c}]
    BY <1>3 DEF Accept
  <2>6. holds' \in [Procs -> SUBSET Calls] /\ \A q \in Procs : Cardinality(holds'[q]) <= MaxFds
    BY <2>4, <2>5 DEF NkatTypeOK
  <2>7. QED
    BY <1>3, <2>6 DEF Accept, NkatTypeOK
<1>4. ASSUME NEW p \in Procs, ForkMiddle(p)
      PROVE  NkatTypeOK'
  BY <1>0, <1>4, ForkedProcs, ForkTypes DEF ForkMiddle
<1>5. ASSUME NEW p \in Procs, ForkProg(p)
      PROVE  NkatTypeOK'
  BY <1>0, <1>5, ForkedProcs, ForkTypes DEF ForkProg
<1>6. ASSUME NEW p \in Procs, WaitReturns(p)
      PROVE  NkatTypeOK'
  <2>1. IsFiniteSet(holds[p]) /\ holds[p] \subseteq Calls
    BY NkatAssumption, FS_Subset DEF NkatTypeOK
  <2>2. /\ holds[p] \ {taken[p]} \subseteq holds[p]
        /\ Cardinality(holds[p] \ {taken[p]}) <= Cardinality(holds[p])
        /\ Cardinality(holds[p] \ {taken[p]}) \in Nat /\ Cardinality(holds[p]) \in Nat
    BY <2>1, FS_Subset, FS_CardinalityType
  <2>3. Cardinality(holds[p] \ {taken[p]}) <= MaxFds
    BY <2>2, NkatAssumption DEF NkatTypeOK
  <2>4. holds' = [holds EXCEPT ![p] = holds[p] \ {taken[p]}]
    BY <1>6 DEF WaitReturns
  <2>5. holds' \in [Procs -> SUBSET Calls] /\ \A q \in Procs : Cardinality(holds'[q]) <= MaxFds
    BY <2>3, <2>4 DEF NkatTypeOK
  <2>6. QED
    BY <1>0, <1>6, <2>5 DEF WaitReturns, NkatTypeOK
<1>7. ASSUME NEW p \in Procs, AcceptFails(p)
      PROVE  NkatTypeOK'
  BY <1>7, ExitTypes DEF AcceptFails
<1>8. CASE UNCHANGED nkatVars
  BY <1>8 DEF nkatVars, NkatTypeOK
<1>9. QED
  BY <1>1, <1>2, <1>3, <1>4, <1>5, <1>6, <1>7, <1>8 DEF NkatNext

(* A process that ends is collected, as its parent ignores SIGCHLD; the    *)
(* first process has no parent that is a server.                           *)
LEMMA ExitIgnored ==
    ASSUME NkatInv, NEW p \in Procs, Alive(p), Exit(p)
    PROVE  IgnoreInv' /\ NoZombies'
<1> USE DEF NkatInv
<1>1. /\ proc \in [Procs -> {"none", "accept", "forking", "middle", "wait", "run",
                             "zombie", "gone"}]
      /\ parent \in [Procs -> Procs] /\ UNCHANGED <<parent, ignores>>
  BY DEF Exit, NkatTypeOK
<1>2. ~(parent[p] # p /\ ~ignores[parent[p]])
  <2>1. CASE p = Main
    BY <2>1 DEF IgnoreInv
  <2>2. CASE p # Main
    BY <1>1, <2>2 DEF IgnoreInv, Alive
  <2>3. QED
    BY <2>1, <2>2
<1>3. proc'[p] = "gone" /\ \A q \in Procs \ {p} : proc'[q] = proc[q]
  <2>1. proc'[p] = "gone"
    BY <1>1, <1>2 DEF Exit
  <2>2. \A q \in Procs \ {p} : proc'[q] = proc[q]
    BY <1>1 DEF Exit, NoZombies
  <2>3. QED
    BY <2>1, <2>2
<1>4. IgnoreInv'
  BY <1>1, <1>3 DEF IgnoreInv, Alive
<1>5. NoZombies'
  BY <1>3 DEF NoZombies
<1>6. QED
  BY <1>4, <1>5

(* A child starts with its parent's handling of SIGCHLD.                   *)
LEMMA ForkIgnored ==
    ASSUME NkatInv, NEW p \in Procs, proc[p] \in {"forking", "middle"},
           NEW child \in Procs \ {Main},
           NEW at \in {"middle", "run"}, NEW parentAt \in {"accept", "wait"},
           Fork(p, child, at, parentAt)
    PROVE  IgnoreInv' /\ NoZombies'
<1> USE DEF NkatInv
<1>1. /\ proc \in [Procs -> {"none", "accept", "forking", "middle", "wait", "run",
                             "zombie", "gone"}]
      /\ parent \in [Procs -> Procs] /\ ignores \in [Procs -> BOOLEAN]
      /\ proc' = [proc EXCEPT ![p] = parentAt, ![child] = at]
      /\ parent' = [parent EXCEPT ![child] = p]
      /\ ignores' = [ignores EXCEPT ![child] = ignores[p]]
  BY DEF Fork, NkatTypeOK
<1>2. ignores[p]
  BY DEF IgnoreInv
<1>3. \A q \in Procs : (ignores[q] => ignores'[q]) /\ (q = child => ignores'[q])
  BY <1>1, <1>2
<1>4. /\ \A q \in Procs \ {p, child} : proc'[q] = proc[q]
      /\ \A q \in Procs \ {child} : parent'[q] = parent[q]
      /\ parent'[child] = p /\ proc'[child] = at /\ (p # child => proc'[p] = parentAt)
  BY <1>1
<1>5. \A q \in Procs \ {Main} : proc'[q] # "none" => ignores'[parent'[q]]
  <2>1. ASSUME NEW q \in Procs \ {Main}, q # child, proc'[q] # "none"
        PROVE  ignores[parent[q]] /\ parent[q] \in Procs
    BY <1>1, <1>4, <2>1 DEF IgnoreInv
  <2>2. QED
    BY <1>2, <1>3, <1>4, <2>1
<1>6. \A q \in Procs : proc'[q] \in {"forking", "middle", "wait"} => ignores'[q]
  BY <1>2, <1>3, <1>4 DEF IgnoreInv
<1>7. parent'[Main] = Main
  BY <1>4 DEF IgnoreInv, Procs
<1>8. NoZombies'
  BY <1>4 DEF NoZombies
<1>9. QED
  BY <1>5, <1>6, <1>7, <1>8 DEF IgnoreInv

LEMMA NkatInvInit == NkatInit => NkatInv
<1> SUFFICES ASSUME NkatInit
             PROVE  NkatInv
  OBVIOUS
<1>1. Main \in Procs
  BY DEF Procs
<1>2. IgnoreInv /\ NoZombies
  BY <1>1 DEF NkatInit, IgnoreInv, NoZombies
<1>3. QED
  BY <1>2, NkatTypesInit DEF NkatInv

LEMMA NkatInvNext == NkatInv /\ [NkatNext]_nkatVars => NkatInv'
<1> SUFFICES ASSUME NkatInv, [NkatNext]_nkatVars
             PROVE  IgnoreInv' /\ NoZombies'
  BY NkatTypesNext DEF NkatInv
<1>0. /\ proc \in [Procs -> {"none", "accept", "forking", "middle", "wait", "run",
                             "zombie", "gone"}]
      /\ parent \in [Procs -> Procs] /\ ignores \in [Procs -> BOOLEAN]
      /\ \A p \in Procs : taken[p] \in Calls
  BY DEF NkatInv, NkatTypeOK
<1>1. ASSUME NEW c \in Calls, Call(c)
      PROVE  IgnoreInv' /\ NoZombies'
  BY <1>1 DEF Call, NkatInv, IgnoreInv, NoZombies
<1>2. ASSUME NEW c \in Calls, ProgEnds(c)
      PROVE  IgnoreInv' /\ NoZombies'
  BY <1>2, ForkedProcs, ExitIgnored DEF ProgEnds, Alive
<1>3. ASSUME NEW p \in Procs, NEW c \in Calls, Accept(p, c)
      PROVE  IgnoreInv' /\ NoZombies'
  <2>1. /\ proc[p] = "accept" /\ proc' = [proc EXCEPT ![p] = "forking"]
        /\ ignores' = [ignores EXCEPT ![p] = TRUE] /\ UNCHANGED parent
    BY <1>3 DEF Accept
  <2>2. /\ \A q \in Procs : ignores[q] => ignores'[q]
        /\ ignores'[p] /\ proc'[p] = "forking"
        /\ \A q \in Procs \ {p} : proc'[q] = proc[q]
    BY <1>0, <2>1
  <2>3. \A q \in Procs \ {Main} : proc'[q] # "none" => ignores'[parent'[q]]
    BY <1>0, <2>1, <2>2 DEF NkatInv, IgnoreInv
  <2>4. QED
    BY <2>1, <2>2, <2>3 DEF NkatInv, IgnoreInv, NoZombies
<1>4. ASSUME NEW p \in Procs, ForkMiddle(p)
      PROVE  IgnoreInv' /\ NoZombies'
  BY <1>0, <1>4, ForkedProcs, ForkIgnored DEF ForkMiddle
<1>5. ASSUME NEW p \in Procs, ForkProg(p)
      PROVE  IgnoreInv' /\ NoZombies'
  BY <1>0, <1>5, ForkedProcs, ForkIgnored DEF ForkProg
<1>6. ASSUME NEW p \in Procs, WaitReturns(p)
      PROVE  IgnoreInv' /\ NoZombies'
  BY <1>0, <1>6 DEF WaitReturns, NkatInv, IgnoreInv, NoZombies
<1>7. ASSUME NEW p \in Procs, AcceptFails(p)
      PROVE  IgnoreInv' /\ NoZombies'
  BY <1>7, ExitIgnored DEF AcceptFails, Alive
<1>8. CASE UNCHANGED nkatVars
  BY <1>8 DEF nkatVars, NkatInv, IgnoreInv, NoZombies
<1>9. QED
  BY <1>1, <1>2, <1>3, <1>4, <1>5, <1>6, <1>7, <1>8 DEF NkatNext

(* With any number of connections, of processes that accept them and of    *)
(* programs that end whenever they like, no process is left a zombie       *)
(* (main of nkat.c, which ignores SIGCHLD before it forks).                *)
THEOREM NkatNoZombies == NkatSpec => []NoZombies
<1>1. NkatSpec => []NkatInv
  BY NkatInvInit, NkatInvNext, PTL DEF NkatSpec
<1>2. NkatInv => NoZombies
  BY DEF NkatInv
<1>3. QED
  BY <1>1, <1>2, PTL

-----------------------------------------------------------------------------
(* TrafficSink: the connections.                                           *)
LEMMA ConnFacts ==
    /\ IsFiniteSet(Conns)
    /\ \A m \in Measurers : Cmd(m) \in Conns /\ IsCmd(Cmd(m))
    /\ \A m, n \in Measurers : Cmd(m) = Cmd(n) => m = n
    /\ \A m \in Measurers : \A k \in Sinks(m) : k \in Conns /\ ~IsCmd(k)
<1>1. IsFiniteSet(Workers \cup {0})
  BY SinkAssumption, FS_AddElement
<1>2. IsFiniteSet(Measurers \X (Workers \cup {0}))
  BY <1>1, SinkAssumption, FS_Product
<1>3. IsFiniteSet(Conns)
  <2>1. Conns \subseteq Measurers \X (Workers \cup {0})
    BY DEF Conns, Cmd, Sinks
  <2>2. QED
    BY <1>2, <2>1, FS_Subset
<1>4. \A m \in Measurers : Cmd(m) \in Conns /\ IsCmd(Cmd(m))
  BY DEF Conns, Cmd, IsCmd
<1>5. \A m, n \in Measurers : Cmd(m) = Cmd(n) => m = n
  BY DEF Cmd
<1>6. \A m \in Measurers : \A k \in Sinks(m) : k \in Conns /\ ~IsCmd(k)
  BY SinkAssumption DEF Conns, Sinks, IsCmd
<1>7. QED
  BY <1>3, <1>4, <1>5, <1>6

LEMMA SinkInvInit == SinkInit => SinkInv
<1> SUFFICES ASSUME SinkInit
             PROVE  SinkInv
  OBVIOUS
<1>1. ASSUME NEW k \in Conns
      PROVE  (CHOOSE f \in SinkFds : TRUE) \in SinkFds
  <2>1. Cardinality(Conns) # 0 /\ Cardinality(Conns) \in Nat
    BY ConnFacts, FS_EmptySet, FS_CardinalityType
  <2>2. Cardinality({}) = 0
    BY FS_EmptySet
  <2>3. SinkFds # {}
    BY <2>1, <2>2, SinkAssumption
  <2>4. QED
    BY <2>3
<1>2. SinkTypeOK
  BY <1>1, SinkAssumption DEF SinkInit, SinkTypeOK
<1>3. LinkInv
  BY ConnFacts DEF SinkInit, LinkInv
<1>4. OpenSinks = {}
  BY DEF SinkInit, OpenSinks
<1>5. SinksAreCounted
  BY <1>4, FS_EmptySet DEF SinkInit, SinksAreCounted
<1>6. QED
  BY <1>2, <1>3, <1>5 DEF SinkInv

(* What is open, and as what, does not change where no connection opens or *)
(* closes.                                                                 *)
LEMMA SameOpen ==
    ASSUME SinkInv, UNCHANGED <<fdOf, is_sink, current_sink>>,
           \A k \in Conns : link'[k] = "open" <=> link[k] = "open"
    PROVE  SinksAreCounted'
<1>1. OpenSinks' = OpenSinks
  BY DEF OpenSinks
<1>2. QED
  BY <1>1 DEF SinkInv, SinksAreCounted

(* The steps of the client.                                                *)
LEMMA ClientSteps ==
    ASSUME SinkInv, NEW m \in Measurers, NEW k \in Conns,
           \/ SendReset(m) \/ ResetDone(m) \/ Signal(m) \/ ReportDone(m)
           \/ ConnectSink(m, k) \/ SendData(m, k)
    PROVE  SinkInv'
<1> USE DEF SinkInv
<1>1. Cmd(m) \in Conns /\ \A j \in Conns : link[j] \in {"none", "queued", "open", "closed"}
  BY ConnFacts DEF SinkTypeOK
<1>2. UNCHANGED <<fdOf, is_sink, current_sink, bandwidth_counter, resetSum>>
  BY DEF SendReset, ResetDone, Signal, ReportDone, ConnectSink, SendData, sinkServerVars
<1>3. CASE SendReset(m)
  <2>1. /\ mpc[m] = "start" /\ mpc' = [mpc EXCEPT ![m] = "resetting"]
        /\ link' = [link EXCEPT ![Cmd(m)] = "queued"]
        /\ cmds' = [cmds EXCEPT ![m] = Append(@, "reset")]
        /\ UNCHANGED <<replies, data, sent>>
    BY <1>3 DEF SendReset
  <2>2. link[Cmd(m)] = "none"
    BY <2>1 DEF LinkInv
  <2>3. SinkTypeOK'
    <3>1. Append(cmds[m], "reset") \in Seq(Command)
      BY DEF SinkTypeOK, Command
    <3>2. QED
      BY <1>1, <1>2, <2>1, <3>1 DEF SinkTypeOK
  <2>4. \A j \in Conns : link'[j] = "open" <=> link[j] = "open"
    BY <1>1, <2>1, <2>2 DEF SinkTypeOK
  <2>5. LinkInv'
    <3>1. \A n \in Measurers : mpc'[n] = "start" => link'[Cmd(n)] = "none"
      BY <2>1, ConnFacts DEF LinkInv, SinkTypeOK
    <3>2. QED
      BY <1>2, <2>1, <2>4, <3>1 DEF LinkInv
  <2>6. QED
    BY <1>2, <2>3, <2>4, <2>5, SameOpen
<1>4. CASE ResetDone(m) \/ ReportDone(m)
  <2>1. /\ mpc[m] # "start"
        /\ \E at \in {"connecting", "exit"} : mpc' = [mpc EXCEPT ![m] = at]
        /\ replies[m] # <<>> /\ replies' = [replies EXCEPT ![m] = Tail(replies[m])]
        /\ UNCHANGED <<link, cmds, data, sent>>
    BY <1>4 DEF ResetDone, ReportDone
  <2>2. SinkTypeOK'
    <3>1. Tail(replies[m]) \in Seq(Reply)
      BY <2>1, HeadTailProperties DEF SinkTypeOK
    <3>2. QED
      BY <1>2, <2>1, <3>1 DEF SinkTypeOK
  <2>3. LinkInv'
    BY <1>2, <2>1 DEF LinkInv, SinkTypeOK
  <2>4. QED
    BY <1>2, <2>1, <2>2, <2>3, SameOpen
<1>5. CASE Signal(m)
  <2>1. /\ mpc[m] # "start" /\ mpc' = [mpc EXCEPT ![m] = "reporting"]
        /\ cmds' = [cmds EXCEPT ![m] = Append(@, "report")]
        /\ UNCHANGED <<link, replies, data, sent>>
    BY <1>5 DEF Signal
  <2>2. SinkTypeOK'
    <3>1. Append(cmds[m], "report") \in Seq(Command)
      BY DEF SinkTypeOK, Command
    <3>2. QED
      BY <1>2, <2>1, <3>1 DEF SinkTypeOK
  <2>3. LinkInv'
    BY <1>2, <2>1 DEF LinkInv, SinkTypeOK
  <2>4. QED
    BY <1>2, <2>1, <2>2, <2>3, SameOpen
<1>6. CASE ConnectSink(m, k)
  <2>1. /\ k \in Sinks(m) /\ link[k] = "none" /\ mpc[m] = "connecting"
        /\ link' = [link EXCEPT ![k] = "queued"]
        /\ mpc' = mpc \/ mpc' = [mpc EXCEPT ![m] = "sending"]
        /\ UNCHANGED <<cmds, replies, data, sent>>
    BY <1>6 DEF ConnectSink
  <2>2. ~IsCmd(k)
    BY <2>1, ConnFacts
  <2>3. SinkTypeOK'
    BY <1>2, <2>1 DEF SinkTypeOK
  <2>4. \A j \in Conns : link'[j] = "open" <=> link[j] = "open"
    BY <2>1 DEF SinkTypeOK
  <2>5. LinkInv'
    <3>1. \A n \in Measurers : mpc'[n] = "start" => link'[Cmd(n)] = "none"
      BY <2>1, <2>2, ConnFacts DEF LinkInv, SinkTypeOK
    <3>2. QED
      BY <1>2, <2>1, <2>4, <3>1 DEF LinkInv
  <2>6. QED
    BY <1>2, <2>3, <2>4, <2>5, SameOpen
<1>7. CASE SendData(m, k)
  <2>1. /\ sent[k] < MaxData /\ UNCHANGED <<mpc, link, cmds, replies>>
        /\ sent' = [sent EXCEPT ![k] = @ + 1] /\ data' = [data EXCEPT ![k] = @ + 1]
    BY <1>7 DEF SendData
  <2>2. \A j \in Conns : data[j] \in 0..MaxData /\ sent[j] \in 0..MaxData /\ data[j] <= sent[j]
    BY DEF LinkInv, SinkTypeOK
  <2>3. sent[k] + 1 \in 0..MaxData /\ data[k] + 1 \in 0..MaxData /\ data[k] + 1 <= sent[k] + 1
    BY <2>1, <2>2, SinkAssumption
  <2>4. SinkTypeOK'
    BY <1>2, <2>1, <2>3 DEF SinkTypeOK
  <2>5. \A j \in Conns : data'[j] <= sent'[j]
    BY <2>1, <2>2, <2>3 DEF SinkTypeOK
  <2>6. LinkInv'
    BY <1>2, <2>1, <2>5 DEF LinkInv
  <2>7. QED
    BY <1>2, <2>1, <2>4, <2>6, SameOpen
<1>8. QED
  BY <1>3, <1>4, <1>5, <1>6, <1>7

(* The steps of the server that neither open nor close a connection.       *)
LEMMA ReadSteps ==
    ASSUME SinkInv, NEW m \in Measurers, NEW k \in Conns, NEW n \in Nat,
           ReadCommand(m, n) \/ ReadData(k, n)
    PROVE  SinkInv'
<1> USE DEF SinkInv
<1>1. UNCHANGED <<mpc, link, fdOf, sent, is_sink, current_sink>>
  BY DEF ReadCommand, ReadData
<1>2. CASE ReadCommand(m, n)
  <2>1. /\ n \in 1..Len(cmds[m])
        /\ cmds' = [cmds EXCEPT ![m] = SubSeq(cmds[m], n + 1, Len(cmds[m]))]
        /\ replies' = [replies EXCEPT ![m] = Append(replies[m],
                            [of |-> Head(cmds[m]), value |-> bandwidth_counter])]
        /\ UNCHANGED data
    BY <1>2 DEF ReadCommand
  <2>2. cmds[m] \in Seq(Command) /\ cmds[m] # <<>> /\ Len(cmds[m]) \in Nat
    BY <2>1 DEF SinkTypeOK
  <2>3. cmds' \in [Measurers -> Seq(Command)]
    <3>1. \A i \in (n + 1)..Len(cmds[m]) : cmds[m][i] \in Command
      BY <2>1, <2>2
    <3>2. n + 1 \in Int /\ Len(cmds[m]) \in Int
      BY <2>2
    <3>3. SubSeq(cmds[m], n + 1, Len(cmds[m])) \in Seq(Command)
      BY <3>1, <3>2, SubSeqProperties
    <3>4. QED
      BY <2>1, <3>3 DEF SinkTypeOK
  <2>4. replies' \in [Measurers -> Seq(Reply)]
    <3>1. [of |-> Head(cmds[m]), value |-> bandwidth_counter] \in Reply
      BY <2>2, HeadTailProperties DEF SinkTypeOK, Reply
    <3>2. QED
      BY <2>1, <3>1 DEF SinkTypeOK
  <2>5. bandwidth_counter' \in Nat /\ resetSum' \in Nat
    BY <1>2 DEF ReadCommand, SinkTypeOK
  <2>6. SinkTypeOK'
    BY <1>1, <2>1, <2>3, <2>4, <2>5 DEF SinkTypeOK
  <2>7. LinkInv'
    BY <1>1, <2>1 DEF LinkInv
  <2>8. QED
    BY <1>1, <2>6, <2>7, SameOpen
<1>3. CASE ReadData(k, n)
  <2>1. /\ n \in 1..data[k] /\ data' = [data EXCEPT ![k] = data[k] - n]
        /\ bandwidth_counter' = bandwidth_counter + n
        /\ UNCHANGED <<cmds, replies, resetSum>>
    BY <1>3 DEF ReadData
  <2>2. \A j \in Conns : data[j] \in 0..MaxData /\ sent[j] \in 0..MaxData /\ data[j] <= sent[j]
    BY DEF LinkInv, SinkTypeOK
  <2>3. data[k] - n \in 0..MaxData /\ data[k] - n <= sent[k]
    BY <2>1, <2>2, SinkAssumption
  <2>4. SinkTypeOK'
    BY <1>1, <2>1, <2>3 DEF SinkTypeOK
  <2>5. \A j \in Conns : data'[j] <= sent[j]
    BY <2>1, <2>2, <2>3 DEF SinkTypeOK
  <2>6. LinkInv'
    BY <1>1, <2>1, <2>5 DEF LinkInv
  <2>7. QED
    BY <1>1, <2>4, <2>6, SameOpen
<1>4. QED
  BY <1>2, <1>3

(* accept: the number is free, and is_sink says anew what it stands for.   *)
LEMMA AcceptConnStep ==
    ASSUME SinkInv, NEW k \in Conns, AcceptConn(k)
    PROVE  SinkInv'
<1> USE DEF SinkInv
<1>1. PICK f \in FreeFds : /\ fdOf' = [fdOf EXCEPT ![k] = f]
                           /\ is_sink' = [is_sink EXCEPT ![f] = ~IsCmd(k)]
  BY DEF AcceptConn
<1>2. /\ link[k] = "queued" /\ link' = [link EXCEPT ![k] = "open"]
      /\ current_sink' = IF IsCmd(k) THEN current_sink ELSE current_sink + 1
      /\ UNCHANGED <<mpc, cmds, replies, data, sent, bandwidth_counter, resetSum>>
  BY DEF AcceptConn
<1>3. f \in SinkFds /\ \A j \in Conns : link[j] = "open" => fdOf[j] # f
  BY DEF FreeFds
<1>4. /\ link'[k] = "open" /\ fdOf'[k] = f
      /\ \A j \in Conns \ {k} : link'[j] = link[j] /\ fdOf'[j] = fdOf[j]
  BY <1>1, <1>2 DEF SinkTypeOK
<1>5. SinkTypeOK'
  <2>1. is_sink' \in [SinkFds -> BOOLEAN]
    <3>1. (~IsCmd(k)) \in BOOLEAN
      BY DEF IsCmd
    <3>2. QED
      BY <1>1, <3>1 DEF SinkTypeOK
  <2>2. link' \in [Conns -> {"none", "queued", "open", "closed"}]
    BY <1>2 DEF SinkTypeOK
  <2>3. fdOf' \in [Conns -> SinkFds]
    BY <1>1, <1>3 DEF SinkTypeOK
  <2>4. current_sink' \in Int
    BY <1>2 DEF SinkTypeOK
  <2>5. QED
    BY <1>2, <2>1, <2>2, <2>3, <2>4 DEF SinkTypeOK
<1>6. LinkInv'
  <2>1. \A n \in Measurers : mpc'[n] = "start" => link'[Cmd(n)] = "none"
    BY <1>2, <1>4, ConnFacts DEF LinkInv
  <2>2. \A i, j \in Conns : /\ link'[i] = "open" /\ link'[j] = "open"
                            /\ fdOf'[i] = fdOf'[j]
                            => i = j
    BY <1>3, <1>4 DEF LinkInv
  <2>3. QED
    BY <1>2, <2>1, <2>2 DEF LinkInv
<1>7. SinksAreCounted'
  <2>1. IsFiniteSet(OpenSinks) /\ k \notin OpenSinks
    BY <1>2, ConnFacts, FS_Subset DEF OpenSinks
  <2>2. OpenSinks' = IF IsCmd(k) THEN OpenSinks ELSE OpenSinks \cup {k}
    BY <1>4 DEF OpenSinks
  <2>3. current_sink' = Cardinality(OpenSinks')
    BY <1>2, <2>1, <2>2, FS_AddElement DEF SinksAreCounted
  <2>4. ASSUME NEW j \in Conns, link'[j] = "open"
        PROVE  is_sink'[fdOf'[j]] <=> ~IsCmd(j)
    <3>1. CASE j = k
      BY <1>1, <1>3, <1>4, <3>1 DEF SinkTypeOK
    <3>2. CASE j # k
      <4>1. link[j] = "open" /\ fdOf'[j] = fdOf[j] /\ fdOf[j] # f /\ fdOf[j] \in SinkFds
        BY <1>3, <1>4, <2>4, <3>2 DEF SinkTypeOK
      <4>2. is_sink'[fdOf[j]] = is_sink[fdOf[j]]
        BY <1>1, <4>1 DEF SinkTypeOK
      <4>3. QED
        BY <4>1, <4>2 DEF SinksAreCounted
    <3>3. QED
      BY <3>1, <3>2
  <2>5. QED
    BY <2>3, <2>4 DEF SinksAreCounted
<1>8. QED
  BY <1>5, <1>6, <1>7

(* A connection is closed as what it is, and no other has its number.      *)
LEMMA CloseConnStep ==
    ASSUME SinkInv, NEW k \in Conns, CloseConn(k)
    PROVE  SinkInv'
<1> USE DEF SinkInv
<1>1. /\ link[k] = "open" /\ link' = [link EXCEPT ![k] = "closed"]
      /\ current_sink' = IF is_sink[fdOf[k]] THEN current_sink - 1 ELSE current_sink
      /\ is_sink' = [is_sink EXCEPT ![fdOf[k]] = FALSE]
      /\ UNCHANGED <<mpc, fdOf, cmds, replies, data, sent, bandwidth_counter, resetSum>>
  BY DEF CloseConn, Gone
<1>2. link'[k] = "closed" /\ \A j \in Conns \ {k} : link'[j] = link[j]
  BY <1>1 DEF SinkTypeOK
<1>3. SinkTypeOK'
  BY <1>1 DEF SinkTypeOK
<1>4. LinkInv'
  <2>1. \A n \in Measurers : mpc'[n] = "start" => link'[Cmd(n)] = "none"
    BY <1>1, <1>2, ConnFacts DEF LinkInv
  <2>2. QED
    BY <1>1, <1>2, <2>1 DEF LinkInv
<1>5. SinksAreCounted'
  <2>1. is_sink[fdOf[k]] <=> ~IsCmd(k)
    BY <1>1 DEF SinksAreCounted
  <2>2. IsFiniteSet(OpenSinks) /\ (k \in OpenSinks <=> ~IsCmd(k))
    BY <1>1, ConnFacts, FS_Subset DEF OpenSinks
  <2>3. OpenSinks' = OpenSinks \ {k}
    BY <1>2 DEF OpenSinks
  <2>4. current_sink' = Cardinality(OpenSinks')
    BY <1>1, <2>1, <2>2, <2>3, FS_RemoveElement DEF SinksAreCounted
  <2>5. ASSUME NEW j \in Conns, link'[j] = "open"
        PROVE  is_sink'[fdOf[j]] <=> ~IsCmd(j)
    <3>1. j # k /\ link[j] = "open"
      BY <1>2, <2>5
    <3>2. fdOf[j] # fdOf[k]
      BY <1>1, <3>1 DEF LinkInv
    <3>3. is_sink'[fdOf[j]] = is_sink[fdOf[j]]
      BY <1>1, <3>2 DEF SinkTypeOK
    <3>4. QED
      BY <3>1, <3>3 DEF SinksAreCounted
  <2>6. QED
    BY <1>1, <2>4, <2>5 DEF SinksAreCounted
<1>6. QED
  BY <1>3, <1>4, <1>5

LEMMA SinkInvNext == SinkInv /\ [SinkNext]_sinkVars => SinkInv'
<1> SUFFICES ASSUME SinkInv, [SinkNext]_sinkVars
             PROVE  SinkInv'
  OBVIOUS
<1>1. ASSUME NEW m \in Measurers,
             SendReset(m) \/ ResetDone(m) \/ Signal(m) \/ ReportDone(m)
      PROVE  SinkInv'
  <2>1. Cmd(m) \in Conns
    BY ConnFacts
  <2>2. QED
    BY <1>1, <2>1, ClientSteps
<1>2. ASSUME NEW m \in Measurers, NEW k \in Conns, ConnectSink(m, k) \/ SendData(m, k)
      PROVE  SinkInv'
  BY <1>2, ClientSteps
<1>3. ASSUME NEW m \in Measurers, NEW n \in 1..2, ReadCommand(m, n)
      PROVE  SinkInv'
  <2>1. Cmd(m) \in Conns /\ n \in Nat
    BY ConnFacts
  <2>2. QED
    BY <1>3, <2>1, ReadSteps
<1>4. ASSUME NEW k \in Conns, NEW n \in 1..MaxData, ReadData(k, n)
      PROVE  SinkInv'
  <2>1. \E m : m \in Measurers
    BY DEF Conns
  <2>2. n \in Nat
    BY SinkAssumption
  <2>3. QED
    BY <1>4, <2>1, <2>2, ReadSteps
<1>5. CASE UNCHANGED sinkVars
  <2>1. SinkTypeOK' /\ LinkInv'
    BY <1>5 DEF sinkVars, SinkInv, SinkTypeOK, LinkInv
  <2>2. SinksAreCounted'
    BY <1>5, SameOpen DEF sinkVars
  <2>3. QED
    BY <2>1, <2>2 DEF SinkInv
<1>6. QED
  BY <1>1, <1>2, <1>3, <1>4, <1>5, AcceptConnStep, CloseConnStep DEF SinkNext

(* With any clients, sinks and descriptor numbers: the number of sinks     *)
(* that /clients reports is the number that is open, and no descriptor is  *)
(* taken for what had its number before (server.cpp's is_sink).            *)
THEOREM SinksCounted == SinkSpec => []SinksAreCounted
<1>1. SinkSpec => []SinkInv
  BY SinkInvInit, SinkInvNext, PTL DEF SinkSpec
<1>2. SinkInv => SinksAreCounted
  BY DEF SinkInv
<1>3. QED
  BY <1>1, <1>2, PTL

(* So many more bytes of one connection are so many more in all.           *)
LEMMA MoreBytes ==
    ASSUME NEW f \in [Conns -> 0..MaxData], NEW k \in Conns, NEW n \in 0..MaxData,
           NEW g, g = [f EXCEPT ![k] = f[k] + n], f[k] + n <= MaxData
    PROVE  /\ Cardinality(Bytes(f)) \in Nat
           /\ Cardinality(Bytes(g)) = Cardinality(Bytes(f)) + n
<1> DEFINE more == {k} \X ((f[k] + 1)..(f[k] + n))
<1>1. f[k] \in Nat /\ n \in Nat /\ f[k] + n \in Nat /\ MaxData \in Nat
  BY SinkAssumption
<1>2. IsFiniteSet(Bytes(f))
  <2>1. IsFiniteSet(1..MaxData)
    <3>1. 1 \in Int /\ MaxData \in Int
      BY <1>1
    <3>2. QED
      BY <3>1, FS_Interval
  <2>2. IsFiniteSet(Conns \X (1..MaxData)) /\ Bytes(f) \subseteq Conns \X (1..MaxData)
    BY <2>1, ConnFacts, FS_Product DEF Bytes
  <2>3. QED
    BY <2>2, FS_Subset
<1>3. IsFiniteSet(more) /\ Cardinality(more) = n
  <2>1. f[k] + 1 \in Int /\ f[k] + n \in Int
    BY <1>1
  <2>2. /\ IsFiniteSet((f[k] + 1)..(f[k] + n))
        /\ Cardinality((f[k] + 1)..(f[k] + n)) =
             IF f[k] + 1 > f[k] + n THEN 0 ELSE (f[k] + n) - (f[k] + 1) + 1
    BY <2>1, FS_Interval
  <2>3. Cardinality((f[k] + 1)..(f[k] + n)) = n
    BY <1>1, <2>2
  <2>4. IsFiniteSet({k}) /\ Cardinality({k}) = 1
    BY FS_Singleton
  <2>5. /\ IsFiniteSet(more)
        /\ Cardinality(more) = Cardinality({k}) * Cardinality((f[k] + 1)..(f[k] + n))
    BY <2>2, <2>4, FS_Product, Zenon
  <2>6. 1 * n = n
    BY <1>1
  <2>7. QED
    BY <2>3, <2>4, <2>5, <2>6, Zenon
<1>4. Bytes(f) \cap more = {}
  BY <1>1 DEF Bytes
<1>5. Bytes(g) = Bytes(f) \cup more
  <2>1. ASSUME NEW j \in Conns, NEW i \in 1..MaxData
        PROVE  <<j, i>> \in Bytes(g) <=> <<j, i>> \in Bytes(f) \cup more
    <3>1. \A h : <<j, i>> \in Bytes(h) <=> i <= h[j]
      BY DEF Bytes
    <3>2. <<j, i>> \in more <=> j = k /\ f[k] < i /\ i <= f[k] + n
      BY <1>1
    <3>3. g[j] = IF j = k THEN f[k] + n ELSE f[j]
      OBVIOUS
    <3>4. (i <= g[j]) <=> (i <= f[j] \/ (j = k /\ f[k] < i /\ i <= f[k] + n))
      BY <1>1, <3>3
    <3> HIDE DEF more
    <3>5. QED
      BY <3>1, <3>2, <3>4, Zenon
  <2>2. more \subseteq Conns \X (1..MaxData)
    BY <1>1
  <2>3. Bytes(f) \subseteq Conns \X (1..MaxData) /\ Bytes(g) \subseteq Conns \X (1..MaxData)
    BY DEF Bytes
  <2> HIDE DEF more
  <2>4. ASSUME NEW p \in Conns \X (1..MaxData)
        PROVE  p \in Bytes(g) <=> p \in Bytes(f) \cup more
    <3>1. PICK j \in Conns, i \in 1..MaxData : p = <<j, i>>
      OBVIOUS
    <3>2. QED
      BY <2>1, <3>1, Zenon
  <2>5. QED
    BY <2>2, <2>3, <2>4, Zenon
<1>6. Cardinality(Bytes(f)) \in Nat
  BY <1>2, FS_CardinalityType
<1> HIDE DEF more
<1>7. Cardinality(Bytes(g)) = Cardinality(Bytes(f)) + n - Cardinality({})
  BY <1>2, <1>3, <1>4, <1>5, FS_Union
<1>8. QED
  BY <1>1, <1>6, <1>7, FS_EmptySet

LEMMA BytesNext == SinkInv /\ BytesAreConserved /\ [SinkNext]_sinkVars => BytesAreConserved'
<1> SUFFICES ASSUME SinkInv, BytesAreConserved, [SinkNext]_sinkVars
             PROVE  BytesAreConserved'
  OBVIOUS
<1>1. /\ sent \in [Conns -> 0..MaxData] /\ data \in [Conns -> 0..MaxData]
      /\ bandwidth_counter \in Nat /\ resetSum \in Nat
      /\ \A k \in Conns : data[k] <= sent[k]
  BY DEF SinkInv, SinkTypeOK, LinkInv
<1>2. CASE UNCHANGED <<sent, data, bandwidth_counter, resetSum>>
  BY <1>2 DEF BytesAreConserved, Bytes
<1>3. ASSUME NEW m \in Measurers, NEW k \in Conns, SendData(m, k)
      PROVE  BytesAreConserved'
  <2>1. /\ sent[k] < MaxData /\ UNCHANGED <<bandwidth_counter, resetSum>>
        /\ sent' = [sent EXCEPT ![k] = sent[k] + 1] /\ data' = [data EXCEPT ![k] = data[k] + 1]
    BY <1>3 DEF SendData, sinkServerVars
  <2>2. 1 \in 0..MaxData /\ sent[k] + 1 <= MaxData /\ data[k] + 1 <= MaxData
    <3>1. sent[k] \in 0..MaxData /\ data[k] \in 0..MaxData /\ data[k] <= sent[k]
      BY <1>1
    <3>2. QED
      BY <2>1, <3>1, SinkAssumption
  <2>3. /\ Cardinality(Bytes(sent)) \in Nat
        /\ Cardinality(Bytes(sent')) = Cardinality(Bytes(sent)) + 1
    BY <1>1, <2>1, <2>2, MoreBytes
  <2>4. /\ Cardinality(Bytes(data)) \in Nat
        /\ Cardinality(Bytes(data')) = Cardinality(Bytes(data)) + 1
    BY <1>1, <2>1, <2>2, MoreBytes
  <2>5. Bytes(sent)' = Bytes(sent') /\ Bytes(data)' = Bytes(data')
    BY DEF Bytes
  <2>6. QED
    BY <1>1, <2>1, <2>3, <2>4, <2>5 DEF BytesAreConserved
<1>4. ASSUME NEW k \in Conns, NEW n \in 1..MaxData, ReadData(k, n)
      PROVE  BytesAreConserved'
  <2>1. /\ n \in 1..data[k] /\ UNCHANGED <<sent, resetSum>>
        /\ data' = [data EXCEPT ![k] = data[k] - n]
        /\ bandwidth_counter' = bandwidth_counter + n
    BY <1>4 DEF ReadData
  <2>2. data[k] \in 0..MaxData /\ data[k] - n \in 0..MaxData /\ n \in 0..MaxData
    <3>1. data[k] \in 0..MaxData
      BY <1>1
    <3>2. QED
      BY <2>1, <3>1, SinkAssumption
  <2>3. /\ data' \in [Conns -> 0..MaxData] /\ data'[k] + n = data[k]
        /\ data = [data' EXCEPT ![k] = data'[k] + n]
    <3>1. PICK a \in Nat : a = data[k] - n /\ a + n = data[k] /\ a \in 0..MaxData
      BY <2>2, SinkAssumption
    <3>2. data' = [data EXCEPT ![k] = a]
      BY <2>1, <3>1
    <3>3. data' \in [Conns -> 0..MaxData] /\ data'[k] = a
      BY <1>1, <3>1, <3>2
    <3>4. data = [data' EXCEPT ![k] = a + n]
      BY <1>1, <3>1, <3>2
    <3>5. QED
      BY <3>1, <3>3, <3>4
  <2>4. /\ Cardinality(Bytes(data')) \in Nat
        /\ Cardinality(Bytes(data)) = Cardinality(Bytes(data')) + n
    <3>1. data'[k] + n <= MaxData
      BY <2>2, <2>3
    <3>2. QED
      BY <2>2, <2>3, <3>1, MoreBytes
  <2>5. Bytes(sent)' = Bytes(sent) /\ Bytes(data)' = Bytes(data')
    BY <2>1 DEF Bytes
  <2>6. QED
    BY <1>1, <2>1, <2>2, <2>4, <2>5 DEF BytesAreConserved
<1>5. ASSUME NEW m \in Measurers, NEW n \in 1..2, ReadCommand(m, n)
      PROVE  BytesAreConserved'
  <2>1. /\ UNCHANGED <<sent, data>>
        /\ bandwidth_counter' + resetSum' = bandwidth_counter + resetSum
        /\ bandwidth_counter' \in Nat /\ resetSum' \in Nat
    BY <1>1, <1>5 DEF ReadCommand
  <2>2. Bytes(sent)' = Bytes(sent) /\ Bytes(data)' = Bytes(data)
    BY <2>1 DEF Bytes
  <2>3. Cardinality(Bytes(data)) \in Nat
    <3>1. ASSUME NEW k \in Conns
          PROVE  Cardinality(Bytes(data)) \in Nat
      <4>1. 0 \in 0..MaxData /\ data[k] + 0 <= MaxData /\ data = [data EXCEPT ![k] = data[k] + 0]
        BY <1>1, SinkAssumption
      <4>2. QED
        BY <1>1, <4>1, MoreBytes
    <3>2. QED
      BY <3>1, ConnFacts
  <2>4. /\ Cardinality(Bytes(sent)) = Cardinality(Bytes(data)) + bandwidth_counter + resetSum
        /\ BytesAreConserved' <=>
             Cardinality(Bytes(sent)') = Cardinality(Bytes(data)') + bandwidth_counter' + resetSum'
    BY DEF BytesAreConserved
  <2>5. PICK c \in Nat : c = Cardinality(Bytes(data))
    BY <2>3
  <2>6. c + bandwidth_counter + resetSum = c + bandwidth_counter' + resetSum'
    <3>1. PICK d \in Nat, e \in Nat, a \in Nat, b \in Nat :
             /\ d = bandwidth_counter /\ e = resetSum
             /\ a = bandwidth_counter' /\ b = resetSum'
      BY <1>1, <2>1
    <3>2. a + b = d + e
      BY <2>1, <3>1, Zenon
    <3>3. c + d + e = c + a + b
      BY <3>2
    <3>4. QED
      BY <3>1, <3>3, Zenon
  <2>7. QED
    BY <2>2, <2>4, <2>5, <2>6, Zenon
<1>6. ASSUME NEW m \in Measurers, NEW k \in Conns,
             \/ SendReset(m) \/ ResetDone(m) \/ Signal(m) \/ ReportDone(m)
             \/ ConnectSink(m, k) \/ AcceptConn(k) \/ CloseConn(k)
      PROVE  UNCHANGED <<sent, data, bandwidth_counter, resetSum>>
  BY <1>6 DEF SendReset, ResetDone, Signal, ReportDone, ConnectSink, AcceptConn, CloseConn,
              sinkServerVars
<1>7. CASE UNCHANGED sinkVars
  BY <1>2, <1>7 DEF sinkVars
<1>8. CASE SinkNext
  <2>1. \A m \in Measurers : Cmd(m) \in Conns
    BY ConnFacts
  <2>2. \A k \in Conns : \E m : m \in Measurers
    BY DEF Conns
  <2>3. QED
    BY <1>2, <1>3, <1>4, <1>5, <1>6, <1>8, <2>1, <2>2, Zenon DEF SinkNext
<1>9. QED
  BY <1>7, <1>8

(* However many clients measure, are told to stop and go, and whichever of *)
(* them resets the counter: each byte is in one report and only in one.    *)
THEOREM SinkBytesConserved == SinkSpec => []BytesAreConserved
<1>1. SinkInit => BytesAreConserved
  <2> SUFFICES ASSUME SinkInit
               PROVE  BytesAreConserved
    OBVIOUS
  <2>1. Bytes(sent) = {} /\ Bytes(data) = {}
    BY DEF SinkInit, Bytes
  <2>2. Cardinality(Bytes(sent)) = 0 /\ Cardinality(Bytes(data)) = 0
    BY <2>1, FS_EmptySet, Zenon
  <2>3. QED
    BY <2>2 DEF SinkInit, BytesAreConserved
<1>2. QED
  BY <1>1, SinkInvInit, SinkInvNext, BytesNext, PTL DEF SinkSpec

-----------------------------------------------------------------------------
(* Induction over the numbers, with a set for the property.                *)
LEMMA SetInduction ==
    ASSUME NEW G, 0 \in G, \A n \in Nat : n \in G => n + 1 \in G
    PROVE  Nat \subseteq G
<1> SUFFICES ASSUME Nat \ G # {}
             PROVE  FALSE
  BY Zenon
<1>1. PICK n \in Nat \ G : \A m \in Nat \ G : <<m, n>> \notin OpToRel(<, Nat)
  BY WFMin, NatLessThanWellFounded, Zenon
<1>2. n \in Nat /\ n \notin G
  BY <1>1, Zenon
<1>3. n # 0
  BY <1>2, Zenon
<1>4. n - 1 \in Nat /\ n - 1 < n /\ (n - 1) + 1 = n
  BY <1>2, <1>3
<1>5. n - 1 \notin G
  BY <1>2, <1>4, Zenon
<1>6. <<n - 1, n>> \in Nat \X Nat /\ <<n - 1, n>>[1] = n - 1 /\ <<n - 1, n>>[2] = n
  BY <1>2, <1>4
<1>7. <<n - 1, n>> \in OpToRel(<, Nat)
  BY <1>4, <1>6, Zenon DEF OpToRel
<1> QED
  BY <1>1, <1>4, <1>5, <1>7, Zenon

(* The function by which FlattenSeq is defined exists.                     *)
IsFlat(f, g, n) == f = [i \in 1..n |-> IF i = 1 THEN g[i] ELSE f[i - 1] \o g[i]]

LEMMA FlatExists ==
    ASSUME NEW g, NEW N \in Nat
    PROVE  \E f : IsFlat(f, g, N)
<1> DEFINE G == {n \in Nat : \E f : IsFlat(f, g, n)}
<1>1. 0 \in G
  <2>1. IsFlat([i \in 1..0 |-> 0], g, 0)
    BY DEF IsFlat
  <2> QED BY <2>1
<1>2. ASSUME NEW n \in Nat, n \in G
      PROVE  n + 1 \in G
  <2>1. PICK f : IsFlat(f, g, n)
    BY <1>2
  <2> DEFINE h == [i \in 1..n + 1 |-> IF i <= n THEN f[i] ELSE IF n = 0 THEN g[n + 1] ELSE f[n] \o g[n + 1]]
  <2>2. \A i \in 1..n : f[i] = IF i = 1 THEN g[i] ELSE f[i - 1] \o g[i]
    BY <2>1 DEF IsFlat
  <2>3. \A i \in 1..n + 1 : h[i] = IF i = 1 THEN g[i] ELSE h[i - 1] \o g[i]
    <3> TAKE i \in 1..n + 1
    <3>1. CASE i <= n
      BY <2>2, <3>1
    <3>2. CASE i = n + 1
      BY <3>2
    <3> QED BY <3>1, <3>2
  <2>4. IsFlat(h, g, n + 1)
    <3> HIDE DEF h
    <3>1. h = [i \in 1..n + 1 |-> h[i]]
      BY DEF h
    <3> QED BY <2>3, <3>1 DEF IsFlat
  <2> QED BY <2>4
<1>3. Nat \subseteq G
  <2> HIDE DEF G
  <2> QED BY <1>1, <1>2, SetInduction
<1> QED BY <1>3

Elements(s) == {s[i] : i \in 1..Len(s)}

LEMMA ElementsOfConcat ==
    ASSUME NEW S, NEW s \in Seq(S), NEW t \in Seq(S)
    PROVE  s \o t \in Seq(S) /\ Elements(s \o t) = Elements(s) \cup Elements(t)
<1>1. PICK m \in Nat : m = Len(s)
  OBVIOUS
<1>2. PICK n \in Nat : n = Len(t)
  OBVIOUS
<1>3. /\ s \o t \in Seq(S) /\ Len(s \o t) = m + n
      /\ \A i \in 1..m + n : (s \o t)[i] = IF i <= m THEN s[i] ELSE t[i - m]
  BY <1>1, <1>2, ConcatProperties
<1>4. ASSUME NEW i \in 1..m PROVE s[i] = (s \o t)[i] /\ i \in 1..m + n
  BY <1>3
<1>5. ASSUME NEW i \in 1..n PROVE t[i] = (s \o t)[m + i] /\ m + i \in 1..m + n
  BY <1>3
<1>6. Elements(s) = {s[i] : i \in 1..m} /\ Elements(t) = {t[i] : i \in 1..n}
      /\ Elements(s \o t) = {(s \o t)[i] : i \in 1..m + n}
  BY <1>1, <1>2, <1>3 DEF Elements
<1>7. \A i \in 1..m + n : i <= m => i \in 1..m
  OBVIOUS
<1>8. \A i \in 1..m + n : ~(i <= m) => i - m \in 1..n
  OBVIOUS
<1>9. ASSUME NEW x \in Elements(s \o t) PROVE x \in Elements(s) \cup Elements(t)
  BY <1>3, <1>6, <1>7, <1>8, <1>9
<1>10. ASSUME NEW x \in Elements(s) \cup Elements(t) PROVE x \in Elements(s \o t)
  BY <1>4, <1>5, <1>6, <1>10
<1> QED
  BY <1>3, <1>9, <1>10

LEMMA FlattenFacts ==
    ASSUME NEW S, NEW seqs \in Seq(Seq(S))
    PROVE  /\ FlattenSeq(seqs) \in Seq(S)
           /\ \A x : x \in Elements(FlattenSeq(seqs)) <=>
                        \E i \in 1..Len(seqs) : x \in Elements(seqs[i])
<1>1. PICK N \in Nat : N = Len(seqs)
  OBVIOUS
<1>2. CASE N = 0
  <2>1. seqs = <<>>
    BY <1>1, <1>2, EmptySeq
  <2>2. Len(seqs) = 0
    BY <1>1, <1>2
  <2>3. FlattenSeq(seqs) = <<>>
    BY <2>1, <2>2, Zenon DEF FlattenSeq
  <2>4. <<>> \in Seq(S) /\ 1..Len(<<>>) = {} /\ 1..Len(seqs) = {}
    BY <2>2
  <2>5. \A x : x \notin Elements(<<>>)
    BY <2>4, Zenon DEF Elements
  <2> QED BY <2>3, <2>4, <2>5, Zenon
<1>3. CASE N # 0
  <2> DEFINE F == CHOOSE f : IsFlat(f, seqs, N)
  <2>1. IsFlat(F, seqs, N)
    BY FlatExists, <1>1
  <2>2. FlattenSeq(seqs) = F[N]
    BY <1>1, <1>3 DEF FlattenSeq, IsFlat
  <2> HIDE DEF F
  <2>3. \A i \in 1..N : F[i] = IF i = 1 THEN seqs[i] ELSE F[i - 1] \o seqs[i]
    BY <2>1 DEF IsFlat
  <2> DEFINE Right(n) == /\ F[n] \in Seq(S)
                         /\ \A x : x \in Elements(F[n]) <=> \E i \in 1..n : x \in Elements(seqs[i])
             G == {n \in Nat : n \in 1..N => Right(n)}
  <2>4. 0 \in G
    OBVIOUS
  <2>5. ASSUME NEW n \in Nat, n \in G
        PROVE  n + 1 \in G
    <3> SUFFICES ASSUME n + 1 \in 1..N
                 PROVE  Right(n + 1)
      OBVIOUS
    <3>1. seqs[n + 1] \in Seq(S)
      BY <1>1
    <3>2. CASE n = 0
      <4>1. F[n + 1] = seqs[n + 1] /\ n + 1 = 1
        BY <2>3, <3>2
      <4>2. \A i : i \in 1..n + 1 <=> i = n + 1
        BY <3>2
      <4> QED BY <3>1, <4>1, <4>2
    <3>3. CASE n # 0
      <4>1. n \in 1..N /\ n + 1 # 1 /\ (n + 1) - 1 = n
        BY <3>3
      <4>2. F[n + 1] = F[n] \o seqs[n + 1]
        BY <2>3, <4>1
      <4>3. Right(n)
        BY <2>5, <4>1
      <4>4. F[n + 1] \in Seq(S) /\ Elements(F[n + 1]) = Elements(F[n]) \cup Elements(seqs[n + 1])
        BY <3>1, <4>2, <4>3, ElementsOfConcat
      <4>5. \A i : i \in 1..n + 1 <=> i \in 1..n \/ i = n + 1
        OBVIOUS
      <4> QED BY <4>3, <4>4, <4>5, Zenon
    <3> QED BY <3>2, <3>3
  <2>6. Nat \subseteq G
    <3> HIDE DEF G
    <3> QED BY <2>4, <2>5, SetInduction
  <2>7. N \in G
    <3> HIDE DEF G
    <3> QED BY <2>6
  <2>8. N \in 1..N
    BY <1>3
  <2>9. Right(N)
    BY <2>7, <2>8, Zenon
  <2> QED BY <1>1, <2>2, <2>9
<1> QED BY <1>2, <1>3

-----------------------------------------------------------------------------
(* TinyDns: a reply made from a zone file is one to the query it answers.  *)
LEMMA MessageOf ==
    ASSUME NEW q
    PROVE  NipResponse(q).of = q /\ ZoneResponse(q).of = q
<1>1. \A an, ns, ar : Message(q, an, ns, ar).of = q
  BY DEF Message
<1>2. QED
  BY <1>1, Zenon DEF NipResponse, ZoneResponse

LEMMA DnsInvInit == DnsInit => DnsInv
<1> SUFFICES ASSUME DnsInit
             PROVE  DnsInv
  OBVIOUS
<1>1. Len(inbox) = 0 /\ Len(socks) = 0
  BY DEF DnsInit
<1>2. DnsTypeOK
  <2>1. inbox \in Seq(DnsClients) /\ socks \in Seq(UNION {Queries[c] : c \in DnsClients})
    BY DEF DnsInit
  <2>2. arrived \in [1..MaxSockets -> 0..MaxCopies]
    BY DnsAssumption DEF DnsInit
  <2>3. \A c \in DnsClients : Len(reply[c]) <= 1
    BY DEF DnsInit
  <2>4. /\ DOMAIN query = DnsClients /\ DOMAIN reply = DnsClients
        /\ \A c \in DnsClients : query[c] \in Queries[c] \cup {NoQuery}
    BY DEF DnsInit
  <2>5. 0 <= MaxSockets
    BY DnsAssumption
  <2>6. /\ asker \in DnsClients \cup {NoClient} /\ pending \subseteq 1..Len(socks)
        /\ failed \subseteq DnsClients
    BY DEF DnsInit
  <2>7. QED
    BY <1>1, <2>1, <2>2, <2>3, <2>4, <2>5, <2>6 DEF DnsTypeOK
<1>3. WaitInv
  BY <1>1, DnsAssumption DEF DnsInit, WaitInv, Waits
<1>4. QED
  BY <1>2, <1>3 DEF DnsInv

(* Ask: a client's only datagram goes to the end of the inbox.             *)
LEMMA AskStep ==
    ASSUME DnsInv, NEW c \in DnsClients, NEW q \in Queries[c], Ask(c, q)
    PROVE  DnsInv'
<1> USE DEF DnsInv
<1>1. /\ query[c] = NoQuery /\ query' = [query EXCEPT ![c] = q]
      /\ inbox' = Append(inbox, c)
      /\ UNCHANGED <<reply, asker, socks, pending, arrived, failed>>
  BY DEF Ask
<1>2. PICK n \in Nat : n = Len(inbox)
  BY DEF DnsTypeOK
<1>3. /\ inbox' \in Seq(DnsClients) /\ Len(inbox') = n + 1 /\ inbox'[n + 1] = c
      /\ \A i \in 1..n : inbox'[i] = inbox[i]
      /\ 1..(n + 1) = 1..n \cup {n + 1}
  BY <1>1, <1>2 DEF DnsTypeOK
<1>4. NoQuery \notin Queries[c] /\ q # NoQuery /\ reply[c] = <<>>
  BY <1>1, DnsAssumption DEF WaitInv
<1>5. ~Waits(c) /\ asker # c
  BY <1>1, <1>4 DEF WaitInv
<1>6. DnsTypeOK'
  <2>1. DOMAIN query' = DnsClients /\ \A d \in DnsClients : query'[d] \in Queries[d] \cup {NoQuery}
    BY <1>1 DEF DnsTypeOK
  <2>2. QED
    BY <1>1, <1>3, <2>1 DEF DnsTypeOK
<1>7. /\ query'[c] = q /\ \A d \in DnsClients \ {c} : query'[d] = query[d]
      /\ \A d : Waits(d)' <=> Waits(d) \/ d = c
  <2>1. query'[c] = q /\ \A d \in DnsClients \ {c} : query'[d] = query[d]
    BY <1>1 DEF DnsTypeOK
  <2>2. \A d : Waits(d)' <=> Waits(d) \/ d = c
    BY <1>2, <1>3 DEF Waits
  <2>3. QED
    BY <2>1, <2>2
<1>8. WaitInv'
  <2>1. ASSUME NEW d \in DnsClients
        PROVE  /\ reply'[d] # <<>> => Len(reply'[d]) = 1 /\ reply'[d][1].of = query'[d]
               /\ Waits(d)' \/ asker' = d => query'[d] \in Queries[d] /\ reply'[d] = <<>>
               /\ query'[d] = NoQuery => reply'[d] = <<>>
    BY <1>1, <1>4, <1>5, <1>7 DEF WaitInv
  <2>2. ~Waits(asker)'
    <3>1. \A d : d # asker => (Waits(asker)' <=> Waits(asker))
      BY <1>1, <1>2, <1>3, <1>5 DEF Waits
    <3>2. c # asker
      BY <1>5
    <3>3. QED
      BY <3>1, <3>2 DEF WaitInv
  <2>3. \A i, j \in 1..(n + 1) : inbox'[i] = inbox'[j] => i = j
    <3>1. \A i \in 1..n : inbox[i] # c
      BY <1>2, <1>5 DEF Waits
    <3>2. QED
      BY <1>2, <1>3, <3>1 DEF WaitInv
  <2>4. asker # NoClient => socks # <<>> /\ socks[Len(socks)] = query'[asker]
    BY <1>5, <1>7 DEF WaitInv, DnsTypeOK
  <2>5. QED
    BY <1>1, <1>3, <2>1, <2>2, <2>3, <2>4 DEF WaitInv
<1>9. QED
  BY <1>6, <1>8

(* Work: the first in the inbox has no answer, and is not in it again.     *)
LEMMA WorkFacts ==
    ASSUME DnsInv, NEW c \in DnsClients, Work(c)
    PROVE  /\ asker = NoClient /\ c # NoClient /\ UNCHANGED query
           /\ inbox' \in Seq(DnsClients)
           /\ query[c] \in Queries[c] /\ query[c] # NoQuery /\ reply[c] = <<>>
           /\ \A d : Waits(d)' <=> Waits(d) /\ d # c
           /\ (\A i, j \in 1..Len(inbox) : inbox[i] = inbox[j] => i = j)'
<1> USE DEF DnsInv
<1>1. inbox # <<>> /\ c = Head(inbox) /\ inbox' = Tail(inbox) /\ asker = NoClient
  BY DEF Work
<1>2. PICK n \in Nat \ {0} : n = Len(inbox)
  BY <1>1 DEF DnsTypeOK
<1>3. /\ inbox' \in Seq(DnsClients) /\ Len(inbox') = n - 1
      /\ \A i \in 1..(n - 1) : inbox'[i] = inbox[i + 1]
      /\ inbox[1] = c /\ 1 \in 1..n
  BY <1>1, <1>2 DEF DnsTypeOK
<1>4. \A i, j \in 1..n : inbox[i] = inbox[j] => i = j
  BY <1>2 DEF WaitInv
<1>5. Waits(c)
  BY <1>2, <1>3 DEF Waits
<1>6. query[c] \in Queries[c] /\ query[c] # NoQuery /\ reply[c] = <<>>
  BY <1>5, DnsAssumption DEF WaitInv
<1>7. ASSUME NEW d
      PROVE  Waits(d)' <=> Waits(d) /\ d # c
  <2>1. ASSUME Waits(d)'
        PROVE  Waits(d) /\ d # c
    <3>1. PICK i \in 1..(n - 1) : inbox'[i] = d
      BY <1>3, <2>1 DEF Waits
    <3>2. i + 1 \in 1..n /\ i + 1 # 1 /\ inbox[i + 1] = d
      BY <1>3, <3>1
    <3>3. QED
      BY <1>2, <1>3, <1>4, <3>2 DEF Waits
  <2>2. ASSUME Waits(d), d # c
        PROVE  Waits(d)'
    <3>1. PICK i \in 1..n : inbox[i] = d
      BY <1>2, <2>2 DEF Waits
    <3>2. i - 1 \in 1..(n - 1) /\ (i - 1) + 1 = i
      BY <1>3, <2>2, <3>1
    <3>3. inbox'[i - 1] = d
      BY <1>3, <3>1, <3>2
    <3>4. QED
      BY <1>3, <3>2, <3>3 DEF Waits
  <2>3. QED
    BY <2>1, <2>2
<1>8. \A i, j \in 1..(n - 1) : inbox'[i] = inbox'[j] => i = j
  <2>1. \A i \in 1..(n - 1) : i + 1 \in 1..n /\ i \in Int
    BY <1>2
  <2>2. QED
    BY <1>3, <1>4, <2>1
<1>9. c # NoClient /\ UNCHANGED query
  BY DnsAssumption DEF Work
<1>10. QED
  BY <1>1, <1>3, <1>6, <1>7, <1>8, <1>9

(* A query that is dropped leaves its client with nothing.                 *)
LEMMA DropStep ==
    ASSUME DnsInv, NEW c \in DnsClients,
           IgnoreResponse(c) \/ SendFails(c) \/ NoSocket(c)
    PROVE  DnsInv'
<1> USE DEF DnsInv
<1>1. Work(c) /\ UNCHANGED <<reply, asker, pending, arrived>>
  BY DEF IgnoreResponse, SendFails, NoSocket
<1>2. /\ asker = NoClient /\ c # NoClient /\ UNCHANGED query
      /\ inbox' \in Seq(DnsClients)
      /\ \A d : Waits(d)' <=> Waits(d) /\ d # c
      /\ (\A i, j \in 1..Len(inbox) : inbox[i] = inbox[j] => i = j)'
      /\ query[c] \in Queries[c]
  BY <1>1, WorkFacts
<1>3. /\ socks' \in Seq(UNION {Queries[d] : d \in DnsClients})
      /\ Len(socks) <= Len(socks') /\ Len(socks') <= MaxSockets
      /\ Len(socks) \in Nat /\ Len(socks') \in Nat
      /\ failed' \subseteq DnsClients
  <2>1. CASE UNCHANGED socks /\ (UNCHANGED failed \/ failed' = failed \cup {c})
    BY <2>1 DEF DnsTypeOK
  <2>2. CASE /\ Len(socks) < MaxSockets /\ socks' = Append(socks, query[c])
             /\ failed' = failed \cup {c}
    <3>1. query[c] \in UNION {Queries[d] : d \in DnsClients}
      BY <1>2
    <3>2. QED
      BY <2>2, <3>1, DnsAssumption DEF DnsTypeOK
  <2>3. QED
    BY <2>1, <2>2 DEF IgnoreResponse, SendFails, NoSocket
<1>4. DnsTypeOK'
  <2>1. pending \subseteq 1..Len(socks')
    BY <1>3 DEF DnsTypeOK
  <2>2. QED
    BY <1>1, <1>2, <1>3, <2>1 DEF DnsTypeOK
<1>5. WaitInv'
  <2>1. ~Waits(asker)'
    BY <1>1, <1>2 DEF WaitInv, Waits
  <2>2. QED
    BY <1>1, <1>2, <2>1 DEF WaitInv
<1>6. QED
  BY <1>4, <1>5

(* The answer to a query is the first its client gets, and of its query.   *)
LEMMA SendResponseStep ==
    ASSUME DnsInv, NEW c \in DnsClients, SendResponse(c)
    PROVE  DnsInv'
<1> USE DEF DnsInv
<1>1. PICK m : reply' = [reply EXCEPT ![c] = Append(@, m)] /\ m.of = query[c]
  BY MessageOf DEF SendResponse
<1>2. Work(c) /\ UNCHANGED <<asker, socks, pending, arrived, failed>>
  BY DEF SendResponse
<1>3. /\ asker = NoClient /\ c # NoClient /\ UNCHANGED query
      /\ inbox' \in Seq(DnsClients)
      /\ query[c] # NoQuery /\ reply[c] = <<>>
      /\ \A d : Waits(d)' <=> Waits(d) /\ d # c
      /\ (\A i, j \in 1..Len(inbox) : inbox[i] = inbox[j] => i = j)'
  BY <1>2, WorkFacts
<1>4. /\ DOMAIN reply' = DnsClients /\ reply'[c] = <<m>>
      /\ \A d \in DnsClients \ {c} : reply'[d] = reply[d]
  <2>1. reply' = [reply EXCEPT ![c] = <<m>>]
    BY <1>1, <1>3, AppendToNone
  <2>2. QED
    BY <2>1 DEF DnsTypeOK
<1>5. Len(reply'[c]) = 1 /\ reply'[c][1].of = query[c]
  BY <1>1, <1>4
<1>6. DnsTypeOK'
  <2>1. ASSUME NEW d \in DnsClients
        PROVE  Len(reply'[d]) <= 1
    <3>1. CASE d = c
      <4>1. Len(reply'[d]) = 1
        BY <1>5, <3>1, Zenon
      <4>2. \A k : k = 1 => k <= 1
        OBVIOUS
      <4>3. QED
        BY <4>1, <4>2, Zenon
    <3>2. CASE d # c
      BY <1>4, <3>2 DEF DnsTypeOK
    <3>3. QED
      BY <3>1, <3>2
  <2>2. QED
    BY <1>2, <1>3, <1>4, <2>1 DEF DnsTypeOK
<1>7. WaitInv'
  <2>1. ~Waits(asker)'
    BY <1>2, <1>3 DEF WaitInv, Waits
  <2>2. ASSUME NEW d \in DnsClients
        PROVE  /\ reply'[d] # <<>> => Len(reply'[d]) = 1 /\ reply'[d][1].of = query[d]
               /\ Waits(d)' \/ asker' = d => query[d] \in Queries[d] /\ reply'[d] = <<>>
               /\ query[d] = NoQuery => reply'[d] = <<>>
    <3>1. CASE d = c
      BY <1>2, <1>3, <1>5, <3>1
    <3>2. CASE d # c
      BY <1>2, <1>3, <1>4, <3>2 DEF WaitInv
    <3>3. QED
      BY <3>1, <3>2
  <2>3. QED
    BY <1>2, <1>3, <2>1, <2>2 DEF WaitInv
<1>8. QED
  BY <1>6, <1>7

(* A forward: the query is on the newest socket, and main waits for it.    *)
LEMMA ForwardStep ==
    ASSUME DnsInv, NEW c \in DnsClients, QueryFallbackNameserver(c)
    PROVE  DnsInv'
<1> USE DEF DnsInv
<1>1. /\ Work(c) /\ Len(socks) < MaxSockets /\ socks' = Append(socks, query[c]) /\ asker' = c
      /\ pending' = pending \cup {Len(socks')} /\ UNCHANGED <<reply, arrived, failed>>
  BY DEF QueryFallbackNameserver
<1>2. /\ asker = NoClient /\ c # NoClient /\ UNCHANGED query
      /\ inbox' \in Seq(DnsClients)
      /\ query[c] \in Queries[c] /\ query[c] # NoQuery /\ reply[c] = <<>>
      /\ \A d : Waits(d)' <=> Waits(d) /\ d # c
      /\ (\A i, j \in 1..Len(inbox) : inbox[i] = inbox[j] => i = j)'
  BY <1>1, WorkFacts
<1>3. query[c] \in UNION {Queries[d] : d \in DnsClients}
  BY <1>2
<1>4. PICK n \in Nat : n = Len(socks)
  BY DEF DnsTypeOK
<1>5. /\ socks' \in Seq(UNION {Queries[d] : d \in DnsClients})
      /\ Len(socks') = n + 1 /\ socks'[n + 1] = query[c] /\ socks' # <<>>
      /\ n + 1 <= MaxSockets
  <2>1. n < MaxSockets => n + 1 <= MaxSockets
    BY DnsAssumption
  <2>2. QED
    BY <1>1, <1>3, <1>4, <2>1 DEF DnsTypeOK
<1>6. DnsTypeOK'
  <2>1. pending' \subseteq 1..(n + 1)
    <3>1. pending \subseteq 1..n /\ pending' = pending \cup {n + 1}
      BY <1>1, <1>4, <1>5 DEF DnsTypeOK
    <3>2. 1..n \subseteq 1..(n + 1) /\ n + 1 \in 1..(n + 1)
      OBVIOUS
    <3>3. QED
      BY <3>1, <3>2
  <2>2. QED
    BY <1>1, <1>2, <1>5, <2>1 DEF DnsTypeOK
<1>7. WaitInv'
  <2>1. ~Waits(asker)'
    <3>1. \A d : d = c => ~Waits(d)'
      BY <1>2
    <3>2. (\A d : d = c => ~Waits(d)') => ~Waits(asker)'
      BY <1>1 DEF Waits
    <3>3. QED
      BY <3>1, <3>2
  <2>2. QED
    BY <1>1, <1>2, <1>5, <2>1 DEF WaitInv
<1>8. QED
  BY <1>6, <1>7

(* The answer on the newest socket is to the asker's query; the sockets of *)
(* other queries are not read again.                                       *)
LEMMA RelayStep ==
    ASSUME DnsInv, NEW c \in DnsClients, Relay(c)
    PROVE  DnsInv'
<1> USE DEF DnsInv
<1>1. /\ c = asker /\ arrived[Len(socks)] > 0
      /\ arrived' = [arrived EXCEPT ![Len(socks)] = arrived[Len(socks)] - 1]
      /\ reply' = [reply EXCEPT ![c] = Append(@, [of |-> socks[Len(socks)]])]
      /\ asker' = NoClient /\ UNCHANGED <<query, inbox, socks, pending, failed>>
  BY DEF Relay
<1>2. /\ c # NoClient /\ reply[c] = <<>> /\ query[c] \in Queries[c] /\ ~Waits(c)
      /\ query[c] # NoQuery /\ socks # <<>> /\ socks[Len(socks)] = query[c]
  BY <1>1, DnsAssumption DEF WaitInv, Waits
<1>3. /\ DOMAIN reply' = DnsClients /\ reply'[c] = <<[of |-> query[c]]>>
      /\ \A d \in DnsClients \ {c} : reply'[d] = reply[d]
  <2>1. reply' = [reply EXCEPT ![c] = <<[of |-> query[c]]>>]
    BY <1>1, <1>2, AppendToNone
  <2>2. QED
    BY <2>1 DEF DnsTypeOK
<1>4. Len(reply'[c]) = 1 /\ reply'[c][1].of = query[c]
  BY <1>3
<1>5. DnsTypeOK'
  <2>1. ASSUME NEW d \in DnsClients
        PROVE  Len(reply'[d]) <= 1
    <3>1. CASE d = c
      <4>1. Len(reply'[d]) = 1
        BY <1>4, <3>1, Zenon
      <4>2. \A k : k = 1 => k <= 1
        OBVIOUS
      <4>3. QED
        BY <4>1, <4>2, Zenon
    <3>2. CASE d # c
      BY <1>3, <3>2 DEF DnsTypeOK
    <3>3. QED
      BY <3>1, <3>2
  <2>2. arrived' \in [1..MaxSockets -> 0..MaxCopies]
    <3>1. Len(socks) \in 1..MaxSockets
      BY <1>2, DnsAssumption DEF DnsTypeOK
    <3>2. arrived[Len(socks)] - 1 \in 0..MaxCopies
      <4>1. arrived[Len(socks)] \in 0..MaxCopies
        BY <3>1 DEF DnsTypeOK
      <4>2. \A k \in 0..MaxCopies : k > 0 => k - 1 \in 0..MaxCopies
        BY DnsAssumption
      <4>3. QED
        BY <1>1, <4>1, <4>2
    <3>3. QED
      BY <1>1, <3>2 DEF DnsTypeOK
  <2>3. QED
    BY <1>1, <1>3, <2>1, <2>2 DEF DnsTypeOK
<1>6. WaitInv'
  <2>1. NoClient \notin DnsClients /\ inbox \in Seq(DnsClients)
    BY DnsAssumption DEF DnsTypeOK
  <2>2. \A i \in 1..Len(inbox) : inbox[i] # NoClient
    BY <2>1
  <2>3. \A d : Waits(d)' <=> Waits(d)
    BY <1>1 DEF Waits
  <2>4. ~Waits(asker)'
    BY <1>1, <2>2 DEF Waits
  <2>5. ASSUME NEW d \in DnsClients
        PROVE  /\ reply'[d] # <<>> => Len(reply'[d]) = 1 /\ reply'[d][1].of = query[d]
               /\ Waits(d)' => query[d] \in Queries[d] /\ reply'[d] = <<>>
               /\ query[d] = NoQuery => reply'[d] = <<>>
    <3>1. CASE d = c
      BY <1>2, <1>4, <2>3, <3>1
    <3>2. CASE d # c
      BY <1>3, <2>3, <3>2 DEF WaitInv
    <3>3. QED
      BY <3>1, <3>2
  <2>6. \A d \in DnsClients : asker' # d
    BY <1>1, <2>1
  <2>7. (\A i, j \in 1..Len(inbox) : inbox[i] = inbox[j] => i = j)'
    BY <1>1 DEF WaitInv
  <2>8. QED
    BY <1>1, <2>4, <2>5, <2>6, <2>7 DEF WaitInv
<1>7. QED
  BY <1>5, <1>6

(* The network between the server and the fallback servers.                *)
LEMMA NetworkStep ==
    ASSUME DnsInv, NEW i \in 1..MaxSockets, FallbackAnswers(i) \/ Lose(i)
    PROVE  DnsInv'
<1> USE DEF DnsInv
<1>1. UNCHANGED <<query, reply, inbox, asker, socks>>
  BY DEF FallbackAnswers, Lose
<1>2. i \in pending /\ pending' \subseteq 1..Len(socks) /\ failed' \subseteq DnsClients
  BY DEF FallbackAnswers, Lose, DnsTypeOK
<1>3. arrived' \in [1..MaxSockets -> 0..MaxCopies]
  <2>1. CASE UNCHANGED arrived
    BY <2>1 DEF DnsTypeOK
  <2>2. CASE arrived[i] < MaxCopies /\ arrived' = [arrived EXCEPT ![i] = arrived[i] + 1]
    <3>1. arrived[i] + 1 \in 0..MaxCopies
      BY <2>2, DnsAssumption DEF DnsTypeOK
    <3>2. QED
      BY <2>2, <3>1 DEF DnsTypeOK
  <2>3. QED
    BY <2>1, <2>2 DEF FallbackAnswers, Lose
<1>4. DnsTypeOK'
  BY <1>1, <1>2, <1>3 DEF DnsTypeOK
<1>5. WaitInv'
  BY <1>1 DEF WaitInv, Waits
<1>6. QED
  BY <1>4, <1>5

LEMMA DnsInvNext == DnsInv /\ [DnsNext]_dnsVars => DnsInv'
<1> SUFFICES ASSUME DnsInv, [DnsNext]_dnsVars
             PROVE  DnsInv'
  OBVIOUS
<1>1. CASE UNCHANGED dnsVars
  BY <1>1 DEF dnsVars, DnsInv, DnsTypeOK, WaitInv, Waits
<1>2. CASE DnsNext
  BY <1>2, AskStep, DropStep, SendResponseStep, ForwardStep, RelayStep, NetworkStep
     DEF DnsNext
<1>3. QED
  BY <1>1, <1>2

(* With any clients, queries, zones and number of descriptors, and answers *)
(* that come late, twice or not at all: a client only gets an answer to    *)
(* its own question (HandleRequest and QueryFallbackNameserver of          *)
(* tiny_dns.cpp), and not more than one.                                   *)
THEOREM DnsRepliesAreTheAskers == DnsSpec => []RepliesAreTheAskers
<1>1. DnsSpec => []DnsInv
  BY DnsInvInit, DnsInvNext, PTL DEF DnsSpec
<1>2. ASSUME DnsInv
      PROVE  RepliesAreTheAskers
  <2>1. ASSUME NEW c \in DnsClients, NEW i \in 1..Len(reply[c])
        PROVE  reply[c][i].of = query[c]
    <3>1. CASE reply[c] = <<>>
      BY <3>1
    <3>2. CASE reply[c] # <<>>
      <4>1. Len(reply[c]) = 1 /\ reply[c][1].of = query[c]
        BY <1>2, <3>2, Zenon DEF DnsInv, WaitInv
      <4>2. i = 1
        BY <4>1
      <4>3. QED
        BY <4>1, <4>2
    <3>3. QED
      BY <3>1, <3>2
  <2>2. QED
    BY <2>1 DEF RepliesAreTheAskers
<1>3. QED
  BY <1>1, <1>2, PTL

LEMMA PushIfFacts ==
    ASSUME NEW t \in BOOLEAN, NEW S, NEW r \in S
    PROVE  /\ PushIf(t, r) \in Seq(S)
           /\ \A x : x \in Elements(PushIf(t, r)) <=> t /\ x = r
<1>1. CASE t
  <2>1. PushIf(t, r) = <<r>> /\ <<r>> \in Seq(S) /\ Len(<<r>>) = 1 /\ <<r>>[1] = r
    BY <1>1 DEF PushIf
  <2>2. \A i : i \in 1..1 <=> i = 1
    OBVIOUS
  <2> QED BY <1>1, <2>1, <2>2, Zenon DEF Elements
<1>2. CASE ~t
  <2>1. PushIf(t, r) = <<>> /\ <<>> \in Seq(S) /\ 1..Len(<<>>) = {}
    BY <1>2 DEF PushIf
  <2> QED BY <1>2, <2>1 DEF Elements
<1> QED BY <1>1, <1>2

(* What the zone z has of a type.                                          *)
ZoneSet(z) == {RecordOf(z, ZoneFiles[z][i]) : i \in 1..Len(ZoneFiles[z])}

LEMMA ZoneRecords ==
    ASSUME NEW z \in DOMAIN ZoneFiles, NEW type \in RecordTypes
    PROVE  /\ zoneRecords[z][type] \in Seq(ZoneSet(z))
           /\ \A x : x \in Elements(zoneRecords[z][type]) <=>
                 \E i \in 1..Len(ZoneFiles[z]) :
                    ZoneFiles[z][i].type = type /\ x = RecordOf(z, ZoneFiles[z][i])
<1> DEFINE n == Len(ZoneFiles[z])
           pushed == [i \in 1..n |-> PushIf(ZoneFiles[z][i].type = type,
                                           RecordOf(z, ZoneFiles[z][i]))]
<1>1. n \in Nat
  BY DnsAssumption
<1>2. zoneRecords[z][type] = FlattenSeq(pushed)
  BY DEF zoneRecords
<1>3. ASSUME NEW i \in 1..n
      PROVE  /\ pushed[i] \in Seq(ZoneSet(z))
             /\ \A x : x \in Elements(pushed[i]) <=>
                   ZoneFiles[z][i].type = type /\ x = RecordOf(z, ZoneFiles[z][i])
  <2>1. RecordOf(z, ZoneFiles[z][i]) \in ZoneSet(z)
    BY DEF ZoneSet
  <2>2. pushed[i] = PushIf(ZoneFiles[z][i].type = type, RecordOf(z, ZoneFiles[z][i]))
    OBVIOUS
  <2> QED BY <2>1, <2>2, PushIfFacts
<1>4. pushed \in Seq(Seq(ZoneSet(z))) /\ Len(pushed) = n
  <2>1. pushed \in [1..n -> Seq(ZoneSet(z))]
    BY <1>3
  <2> HIDE DEF pushed, n
  <2> QED BY <1>1, <2>1
<1> HIDE DEF pushed
<1>5. /\ FlattenSeq(pushed) \in Seq(ZoneSet(z))
      /\ \A x : x \in Elements(FlattenSeq(pushed)) <=> \E i \in 1..n : x \in Elements(pushed[i])
  BY <1>4, FlattenFacts
<1> QED BY <1>2, <1>3, <1>5, Zenon

LEMMA NamedFacts ==
    ASSUME NEW S, NEW records \in Seq(S), NEW name
    PROVE  /\ Named(name, records) \in Seq(S)
           /\ \A x : x \in Elements(Named(name, records)) <=>
                        x \in Elements(records) /\ x.rName = name
<1> DEFINE n == Len(records)
           pushed == [i \in 1..n |-> PushIf(records[i].rName = name, records[i])]
<1>1. n \in Nat
  OBVIOUS
<1>2. Named(name, records) = FlattenSeq(pushed)
  BY DEF Named
<1>3. ASSUME NEW i \in 1..n
      PROVE  /\ pushed[i] \in Seq(S)
             /\ \A x : x \in Elements(pushed[i]) <=> records[i].rName = name /\ x = records[i]
  <2>1. records[i] \in S
    OBVIOUS
  <2>2. pushed[i] = PushIf(records[i].rName = name, records[i])
    OBVIOUS
  <2> QED BY <2>1, <2>2, PushIfFacts
<1>4. pushed \in Seq(Seq(S)) /\ Len(pushed) = n
  <2>1. pushed \in [1..n -> Seq(S)]
    BY <1>3
  <2> HIDE DEF pushed, n
  <2> QED BY <1>1, <2>1
<1> HIDE DEF pushed
<1>5. /\ FlattenSeq(pushed) \in Seq(S)
      /\ \A x : x \in Elements(FlattenSeq(pushed)) <=> \E i \in 1..n : x \in Elements(pushed[i])
  BY <1>4, FlattenFacts
<1>6. \A x : x \in Elements(records) <=> \E i \in 1..n : x = records[i]
  BY DEF Elements
<1>7. \A x : x \in Elements(FlattenSeq(pushed)) <=>
               \E i \in 1..n : records[i].rName = name /\ x = records[i]
  <2> HIDE DEF n
  <2> TAKE x
  <2>1. x \in Elements(FlattenSeq(pushed)) <=> \E i \in 1..n : x \in Elements(pushed[i])
    BY <1>5, Zenon
  <2>2. \A i \in 1..n : x \in Elements(pushed[i]) <=> records[i].rName = name /\ x = records[i]
    BY <1>3, Zenon
  <2> QED BY <2>1, <2>2, Zenon
<1> HIDE DEF n
<1>8. \A x : (\E i \in 1..n : records[i].rName = name /\ x = records[i])
               <=> x \in Elements(records) /\ x.rName = name
  BY <1>6
<1> QED BY <1>2, <1>5, <1>7, <1>8, Zenon

(* The records that answer q are the lines of its name and type.           *)
LEMMA FoundFacts ==
    ASSUME NEW q, Zone(q) \in DOMAIN ZoneFiles
    PROVE  /\ Found(q) \in Seq(ZoneSet(Zone(q)))
           /\ \A x : x \in Elements(Found(q)) <=>
                 \E i \in 1..Len(ZoneFiles[Zone(q)]) :
                    /\ ZoneFiles[Zone(q)][i].type = q.type
                    /\ x = RecordOf(Zone(q), ZoneFiles[Zone(q)][i])
                    /\ x.rName = q.name
<1>1. CASE q.type \in RecordTypes
  <2>1. Found(q) = Named(q.name, zoneRecords[Zone(q)][q.type])
    BY <1>1 DEF Found
  <2> DEFINE records == zoneRecords[Zone(q)][q.type]
  <2>2. /\ records \in Seq(ZoneSet(Zone(q)))
        /\ \A x : x \in Elements(records) <=>
              \E i \in 1..Len(ZoneFiles[Zone(q)]) :
                 /\ ZoneFiles[Zone(q)][i].type = q.type
                 /\ x = RecordOf(Zone(q), ZoneFiles[Zone(q)][i])
    BY <1>1, ZoneRecords, Zenon
  <2> HIDE DEF records
  <2>3. /\ Named(q.name, records) \in Seq(ZoneSet(Zone(q)))
        /\ \A x : x \in Elements(Named(q.name, records)) <=>
                     x \in Elements(records) /\ x.rName = q.name
    BY <2>2, NamedFacts
  <2> QED BY <2>1, <2>2, <2>3, Zenon DEF records
<1>2. CASE q.type \notin RecordTypes
  <2>1. Found(q) = <<>>
    BY <1>2 DEF Found
  <2>2. <<>> \in Seq(ZoneSet(Zone(q))) /\ \A x : x \notin Elements(<<>>)
    BY EmptySeq DEF Elements
  <2>3. \A i \in 1..Len(ZoneFiles[Zone(q)]) : ZoneFiles[Zone(q)][i].type # q.type
    BY <1>2, DnsAssumption
  <2> QED BY <2>1, <2>2, <2>3
<1> QED BY <1>1, <1>2

(* The additional records are the addresses of the names in the answers.   *)
LEMMA AddressesFacts ==
    ASSUME NEW q, Zone(q) \in DOMAIN ZoneFiles, q.type \in {"CNAME", "NS", "MX"}
    PROVE  /\ Addresses(q) \in Seq(ZoneSet(Zone(q)))
           /\ \A x : x \in Elements(Addresses(q)) <=>
                 \E r \in Elements(Found(q)) :
                 \E i \in 1..Len(ZoneFiles[Zone(q)]) :
                    /\ ZoneFiles[Zone(q)][i].type = "A"
                    /\ x = RecordOf(Zone(q), ZoneFiles[Zone(q)][i])
                    /\ x.rName = r.rData
<1> DEFINE S == ZoneSet(Zone(q))
           found == Found(q)
           n == Len(found)
           A == zoneRecords[Zone(q)]["A"]
           named == [i \in 1..n |-> Named(found[i].rData, A)]
<1>1. found \in Seq(S) /\ n \in Nat
  <2>1. found \in Seq(S)
    BY FoundFacts
  <2> HIDE DEF found
  <2> QED BY <2>1
<1>2. Addresses(q) = FlattenSeq(named)
  BY DEF Addresses
<1>3. /\ A \in Seq(S)
      /\ \A x : x \in Elements(A) <=>
            \E i \in 1..Len(ZoneFiles[Zone(q)]) :
               ZoneFiles[Zone(q)][i].type = "A" /\ x = RecordOf(Zone(q), ZoneFiles[Zone(q)][i])
  <2>1. "A" \in RecordTypes
    BY DEF RecordTypes
  <2> QED BY <2>1, ZoneRecords, Zenon
<1> HIDE DEF found, n, A, S
<1>4. ASSUME NEW i \in 1..n
      PROVE  /\ named[i] \in Seq(S)
             /\ \A x : x \in Elements(named[i]) <=> x \in Elements(A) /\ x.rName = found[i].rData
  <2>1. named[i] = Named(found[i].rData, A)
    OBVIOUS
  <2> QED BY <1>3, <2>1, NamedFacts
<1>5. named \in Seq(Seq(S)) /\ Len(named) = n
  <2>1. named \in [1..n -> Seq(S)]
    BY <1>4
  <2> HIDE DEF named
  <2> QED BY <1>1, <2>1
<1> HIDE DEF named
<1>6. /\ FlattenSeq(named) \in Seq(S)
      /\ \A x : x \in Elements(FlattenSeq(named)) <=> \E i \in 1..n : x \in Elements(named[i])
  BY <1>5, FlattenFacts
<1>7. \A r : r \in Elements(found) <=> \E i \in 1..n : r = found[i]
  BY DEF Elements, n
<1>8. \A x : x \in Elements(FlattenSeq(named)) <=>
              \E r \in Elements(found) : x \in Elements(A) /\ x.rName = r.rData
  BY <1>4, <1>6, <1>7
<1> QED BY <1>2, <1>3, <1>6, <1>8, Zenon DEF S, found

(* What HandleRequest makes of a query to a zone is what the zone says.    *)
LEMMA ZoneResponseIsTheZones ==
    ASSUME NEW c \in DnsClients, NEW q \in Queries[c], Zone(q) \in DOMAIN ZoneFiles
    PROVE  IsTheZones(ZoneResponse(q))
<1> DEFINE z == Zone(q)
           an == Found(q)
           ns == Authorities(q)
           ar == Addresses(q)
           m == ZoneResponse(q)
           lines == ZoneFiles[z]
           N == Len(lines)
           zoneData == {l.data : l \in Lines(z, q.name, q.type)}
<1>1. N \in Nat /\ \E i \in 1..N : lines[i].type = "SOA"
  BY DnsAssumption
<1>2. /\ m.of = q /\ m.answers = q.answers \o an /\ m.authorities = q.authorities \o ns
      /\ m.additional = q.additional \o ar
      /\ m.counts = <<Len(an), Len(ns), q.addition_count + Len(ar)>>
  BY DEF ZoneResponse, Message
<1>3. /\ an \in Seq(ZoneSet(z))
      /\ \A x : x \in Elements(an) <=>
            \E i \in 1..N : /\ lines[i].type = q.type /\ x = RecordOf(z, lines[i])
                            /\ x.rName = q.name
  BY FoundFacts
<1>4. \A l : /\ RecordOf(z, l).rName = Owner(z, l)
             /\ RecordOf(z, l).rType = l.type /\ RecordOf(z, l).rData = l.data
  BY DEF RecordOf, Owner
<1>5. \A s : DataOf(s) = {r.rData : r \in Elements(s)}
  BY DEF DataOf, Elements
<1>6. \A name, type, l : l \in Lines(z, name, type) <=>
          \E i \in 1..N : l = lines[i] /\ Owner(z, l) = name /\ l.type = type
  BY DEF Lines
<1>7. /\ q.additional \in Seq({q.additional[i] : i \in 1..q.addition_count})
      /\ q.addition_count = Len(q.additional)
      /\ \A section \in {q.answers, q.authorities} :
            section \in Seq({section[i] : i \in 1..Len(section)})
  BY DnsAssumption
<1>8. /\ ns = IF q.type = "SOA" THEN <<>>
              ELSE IF an = <<>> THEN <<Head(zoneRecords[z]["SOA"])>>
              ELSE IF q.type = "NS" THEN <<>>
              ELSE zoneRecords[z]["NS"]
      /\ q.type \notin {"CNAME", "NS", "MX"} => ar = <<>>
  BY DEF Authorities, Addresses
<1>9. \A type \in RecordTypes :
        /\ zoneRecords[z][type] \in Seq(ZoneSet(z))
        /\ \A x : x \in Elements(zoneRecords[z][type]) <=>
              \E i \in 1..N : lines[i].type = type /\ x = RecordOf(z, lines[i])
  BY ZoneRecords
<1>10. q.type \in {"CNAME", "NS", "MX"} =>
        /\ ar \in Seq(ZoneSet(z))
        /\ \A x : x \in Elements(ar) <=>
             \E r \in Elements(an) : \E i \in 1..N :
                /\ lines[i].type = "A" /\ x = RecordOf(z, lines[i])
                /\ x.rName = r.rData
  BY AddressesFacts
<1> HIDE DEF an, ns, ar, N, lines, m, z
<1>11. DataOf(an) = zoneData
  <2>1. ASSUME NEW x \in DataOf(an)
        PROVE  x \in zoneData
    <3>1. PICK r \in Elements(an) : x = r.rData
      BY <1>5
    <3>2. PICK i \in 1..N : /\ lines[i].type = q.type /\ r = RecordOf(z, lines[i])
                            /\ r.rName = q.name
      BY <1>3, <3>1
    <3>3. lines[i] \in Lines(z, q.name, q.type) /\ x = lines[i].data
      BY <1>4, <1>6, <3>1, <3>2
    <3> QED BY <3>3
  <2>2. ASSUME NEW x \in zoneData
        PROVE  x \in DataOf(an)
    <3>1. PICK l \in Lines(z, q.name, q.type) : x = l.data
      OBVIOUS
    <3>2. PICK i \in 1..N : l = lines[i] /\ Owner(z, l) = q.name /\ l.type = q.type
      BY <1>6, <3>1
    <3>3. RecordOf(z, l) \in Elements(an)
      BY <1>3, <1>4, <3>2
    <3> QED BY <1>4, <1>5, <3>1, <3>3
  <2> QED BY <2>1, <2>2
<1>12. ar \in Seq(ZoneSet(z))
  <2>1. <<>> \in Seq(ZoneSet(z))
    BY EmptySeq
  <2> QED BY <1>8, <1>10, <2>1, Zenon
<1>13. /\ Elements(q.additional \o ar) = Elements(q.additional) \cup Elements(ar)
       /\ Len(q.additional \o ar) = q.addition_count + Len(ar)
  <2> DEFINE S == {q.additional[i] : i \in 1..q.addition_count} \cup ZoneSet(z)
  <2>1. q.additional \in Seq(S) /\ ar \in Seq(S)
    BY <1>12, <1>7
  <2> HIDE DEF S
  <2> QED BY <1>7, <2>1, ElementsOfConcat, ConcatProperties
<1>14. ASSUME q.type \in {"NS", "CNAME", "MX"}
       PROVE  DataOf(m.additional) = DataOf(q.additional)
                \cup {l.data : l \in UNION {Lines(z, d, "A") : d \in zoneData}}
  <2>1. ASSUME NEW x \in DataOf(ar)
        PROVE  x \in {l.data : l \in UNION {Lines(z, d, "A") : d \in zoneData}}
    <3>1. PICK y \in Elements(ar) : x = y.rData
      BY <1>5
    <3>2. PICK r \in Elements(an), i \in 1..N :
             lines[i].type = "A" /\ y = RecordOf(z, lines[i]) /\ y.rName = r.rData
      BY <1>14, <1>10, <3>1
    <3>3. r.rData \in zoneData /\ lines[i] \in Lines(z, r.rData, "A") /\ x = lines[i].data
      BY <1>4, <1>5, <1>6, <1>11, <3>1, <3>2
    <3> QED BY <3>3
  <2>2. ASSUME NEW x \in {l.data : l \in UNION {Lines(z, d, "A") : d \in zoneData}}
        PROVE  x \in DataOf(ar)
    <3>1. PICK l \in UNION {Lines(z, d, "A") : d \in zoneData} : x = l.data
      OBVIOUS
    <3>2. PICK d \in zoneData : l \in Lines(z, d, "A")
      OBVIOUS
    <3>3. PICK r \in Elements(an) : d = r.rData
      BY <1>5, <1>11
    <3>4. PICK i \in 1..N : l = lines[i] /\ Owner(z, l) = d /\ l.type = "A"
      BY <1>6, <3>2
    <3>5. RecordOf(z, l) \in Elements(ar)
      BY <1>4, <1>14, <1>10, <3>3, <3>4
    <3> QED BY <1>4, <1>5, <3>1, <3>3, <3>4, <3>5
  <2>3. DataOf(m.additional) = DataOf(q.additional) \cup DataOf(ar)
    BY <1>2, <1>5, <1>13
  <2> QED BY <2>1, <2>2, <2>3
<1>15. (\E j \in 1..Len(ns) : ns[j].rType = "SOA") <=> an = <<>> /\ q.type # "SOA"
  <2>1. CASE q.type = "SOA"
    BY <1>8, <2>1
  <2>2. CASE q.type # "SOA" /\ an = <<>>
    <3> DEFINE soa == zoneRecords[z]["SOA"]
    <3>1. /\ soa \in Seq(ZoneSet(z))
          /\ \A x : x \in Elements(soa) <=>
                \E i \in 1..N : lines[i].type = "SOA" /\ x = RecordOf(z, lines[i])
      BY <1>9 DEF RecordTypes
    <3>2. ns = <<Head(soa)>>
      BY <1>8, <2>2
    <3> HIDE DEF soa
    <3>3. Elements(soa) # {}
      BY <1>1, <3>1
    <3>4. 1 \in 1..Len(soa) /\ Head(soa) = soa[1]
      BY <3>1, <3>3 DEF Elements
    <3>5. Head(soa) \in Elements(soa)
      BY <3>4 DEF Elements
    <3>6. Head(soa).rType = "SOA"
      BY <1>4, <3>1, <3>5
    <3>7. 1 \in 1..Len(ns) /\ ns[1].rType = "SOA"
      BY <3>2, <3>6
    <3> QED BY <2>2, <3>7
  <2>3. CASE q.type = "NS" /\ an # <<>>
    BY <1>8, <2>3
  <2>4. CASE q.type \notin {"SOA", "NS"} /\ an # <<>>
    <3>1. ns = zoneRecords[z]["NS"]
      BY <1>8, <2>4
    <3>2. \A x : x \in Elements(ns) => \E i \in 1..N : lines[i].type = "NS" /\ x = RecordOf(z, lines[i])
      BY <1>9, <3>1 DEF RecordTypes
    <3>3. \A j \in 1..Len(ns) : ns[j] \in Elements(ns)
      BY DEF Elements
    <3>4. \A j \in 1..Len(ns) : ns[j].rType = "NS"
      BY <1>4, <3>2, <3>3
    <3> QED BY <2>4, <3>4
  <2> QED BY <2>1, <2>2, <2>3, <2>4
<1>16. ns \in Seq(ZoneSet(z))
  <2>1. <<>> \in Seq(ZoneSet(z)) /\ \A x \in ZoneSet(z) : <<x>> \in Seq(ZoneSet(z))
    OBVIOUS
  <2>2. zoneRecords[z]["NS"] \in Seq(ZoneSet(z))
    BY <1>9 DEF RecordTypes
  <2> DEFINE soa == zoneRecords[z]["SOA"]
  <2>3. /\ soa \in Seq(ZoneSet(z))
        /\ \A x : x \in Elements(soa) <=>
              \E i \in 1..N : lines[i].type = "SOA" /\ x = RecordOf(z, lines[i])
    BY <1>9 DEF RecordTypes
  <2> HIDE DEF soa
  <2>4. Elements(soa) # {}
    BY <1>1, <2>3
  <2>5. 1 \in 1..Len(soa) /\ Head(soa) = soa[1]
    BY <2>3, <2>4 DEF Elements
  <2>6. Head(soa) \in ZoneSet(z)
    BY <2>3, <2>5
  <2> QED BY <1>8, <2>1, <2>2, <2>6, Zenon DEF soa
<1>17. ASSUME NEW s, NEW t \in Seq(ZoneSet(z)), s \in Seq({s[i] : i \in 1..Len(s)})
       PROVE  /\ Elements(s \o t) = Elements(s) \cup Elements(t)
              /\ (s \o t = s) <=> t = <<>>
              /\ s = <<>> => s \o t = t
              /\ (\E j \in (Len(s) + 1)..Len(s \o t) : (s \o t)[j].rType = "SOA")
                    <=> \E j \in 1..Len(t) : t[j].rType = "SOA"
  <2> DEFINE S == {s[i] : i \in 1..Len(s)} \cup ZoneSet(z)
  <2>1. s \in Seq(S) /\ t \in Seq(S)
    BY <1>17
  <2> HIDE DEF S
  <2>2. PICK k \in Nat, n \in Nat : k = Len(s) /\ n = Len(t)
    BY <2>1
  <2>3. /\ s \o t \in Seq(S) /\ Len(s \o t) = k + n
        /\ \A i \in 1..k + n : (s \o t)[i] = IF i <= k THEN s[i] ELSE t[i - k]
    BY <2>1, <2>2, ConcatProperties
  <2>4. \A j \in 1..n : k + j \in (k + 1)..(k + n) /\ (s \o t)[k + j] = t[j]
    BY <2>3
  <2>5. \A j \in (k + 1)..(k + n) : j - k \in 1..n /\ (s \o t)[j] = t[j - k]
    BY <2>3
  <2>6. Elements(s \o t) = Elements(s) \cup Elements(t)
    BY <2>1, ElementsOfConcat
  <2>7. (s \o t = s) => t = <<>>
    BY <2>1, <2>2, <2>3, EmptySeq
  <2>8. (t = <<>> => s \o t = s) /\ (s = <<>> => s \o t = t)
    BY <2>1
  <2>9. (\E j \in (k + 1)..(k + n) : (s \o t)[j].rType = "SOA")
           <=> \E j \in 1..n : t[j].rType = "SOA"
    BY <2>4, <2>5
  <2> QED BY <2>2, <2>3, <2>6, <2>7, <2>8, <2>9
<1>18. /\ DataOf(q.answers \o an) = DataOf(q.answers) \cup zoneData
       /\ (q.answers \o an = q.answers) <=> an = <<>>
       /\ q.answers = <<>> => q.answers \o an = an
  <2>1. Elements(q.answers \o an) = Elements(q.answers) \cup Elements(an)
    BY <1>3, <1>7, <1>17
  <2>2. DataOf(q.answers \o an) = DataOf(q.answers) \cup DataOf(an)
    BY <1>5, <2>1
  <2> QED BY <1>3, <1>7, <1>11, <1>17, <2>2
<1>19. /\ (\E j \in (Len(q.authorities) + 1)..Len(q.authorities \o ns) :
             (q.authorities \o ns)[j].rType = "SOA")
           <=> an = <<>> /\ q.type # "SOA"
       /\ q.authorities = <<>> => q.authorities \o ns = ns
  <2> DEFINE as == q.authorities
  <2>1. as \in Seq({as[i] : i \in 1..Len(as)})
    BY <1>7
  <2> HIDE DEF as
  <2>2. /\ (\E j \in (Len(as) + 1)..Len(as \o ns) : (as \o ns)[j].rType = "SOA")
              <=> \E j \in 1..Len(ns) : ns[j].rType = "SOA"
        /\ as = <<>> => as \o ns = ns
    BY <1>16, <1>17, <2>1
  <2>3. (\E j \in (Len(as) + 1)..Len(as \o ns) : (as \o ns)[j].rType = "SOA")
           <=> an = <<>> /\ q.type # "SOA"
    BY <1>15, <2>2, Zenon
  <2> QED BY <2>2, <2>3, Zenon DEF as
<1>20. q.answers = <<>> /\ q.authorities = <<>> =>
          m.counts = <<Len(m.answers), Len(m.authorities), Len(m.additional)>>
  BY <1>2, <1>13, <1>18, <1>19, Zenon
<1> QED BY <1>2, <1>14, <1>18, <1>19, <1>20, Zenon DEF IsTheZones, m, z, zoneData

(* What AnswersAreTheZones says of one reply.                              *)
RightReply(m) ==
    ~Forwarded(m.of) /\ Len(m.of.name) # 7 /\ ~IpForm(m.of) => IsTheZones(m)

LEMMA ReplyFirst ==
    ASSUME DnsTypeOK, AnswersAreTheZones, NEW c \in DnsClients, reply[c] = <<>>,
           NEW m, RightReply(m), reply' = [reply EXCEPT ![c] = Append(@, m)]
    PROVE  AnswersAreTheZones'
<1>1. /\ reply'[c] = <<m>>
      /\ \A d \in DnsClients \ {c} : reply'[d] = reply[d]
  <2>1. reply' = [reply EXCEPT ![c] = <<m>>]
    BY AppendToNone
  <2> QED BY <2>1 DEF DnsTypeOK
<1>2. ASSUME NEW d \in DnsClients, NEW i \in 1..Len(reply'[d])
      PROVE  RightReply(reply'[d][i])
  <2>1. CASE d = c
    <3>1. i = 1 /\ reply'[d][1] = m
      BY <1>1, <2>1
    <3> QED BY <3>1
  <2>2. CASE d # c
    <3>1. reply'[d] = reply[d]
      BY <1>1, <2>2
    <3> QED BY <1>2, <3>1 DEF AnswersAreTheZones, RightReply
  <2> QED BY <2>1, <2>2
<1> QED BY <1>2, Zenon DEF AnswersAreTheZones, RightReply

(* The sockets carry what HandleRequest passes on.                         *)
LEMMA ForwardInvNext == DnsInv /\ ForwardInv /\ [DnsNext]_dnsVars => ForwardInv'
<1> SUFFICES ASSUME DnsInv, ForwardInv, [DnsNext]_dnsVars
             PROVE  ForwardInv'
  OBVIOUS
<1>1. CASE UNCHANGED socks
  BY <1>1 DEF ForwardInv
<1>2. ASSUME NEW c \in DnsClients, Forwarded(query[c]), socks' = Append(socks, query[c])
      PROVE  ForwardInv'
  <2>1. PICK n \in Nat : n = Len(socks)
    BY DEF DnsInv, DnsTypeOK
  <2>2. /\ Len(socks') = n + 1 /\ socks'[n + 1] = query[c]
        /\ \A i \in 1..n : socks'[i] = socks[i]
    BY <1>2, <2>1 DEF DnsInv, DnsTypeOK
  <2>3. \A i \in 1..(n + 1) : i \in 1..n \/ i = n + 1
    OBVIOUS
  <2> QED BY <1>2, <2>1, <2>2, <2>3 DEF ForwardInv
<1>3. CASE UNCHANGED dnsVars
  BY <1>1, <1>3 DEF dnsVars
<1>4. CASE DnsNext
  <2>1. ASSUME NEW c \in DnsClients, QueryFallbackNameserver(c) \/ SendFails(c)
        PROVE  ForwardInv'
    BY <1>2, <2>1 DEF QueryFallbackNameserver, SendFails
  <2>2. ASSUME NEW c \in DnsClients, NEW q \in Queries[c],
               Ask(c, q) \/ IgnoreResponse(c) \/ SendResponse(c) \/ NoSocket(c) \/ Relay(c)
        PROVE  UNCHANGED socks
    BY <2>2 DEF Ask, IgnoreResponse, SendResponse, NoSocket, Relay
  <2>3. ASSUME NEW i \in 1..MaxSockets, FallbackAnswers(i) \/ Lose(i)
        PROVE  UNCHANGED socks
    BY <2>3 DEF FallbackAnswers, Lose
  <2>4. ASSUME NEW c \in DnsClients,
               IgnoreResponse(c) \/ SendResponse(c) \/ NoSocket(c) \/ Relay(c)
        PROVE  UNCHANGED socks
    BY <2>4 DEF IgnoreResponse, SendResponse, NoSocket, Relay
  <2> QED BY <1>1, <1>4, <2>1, <2>2, <2>3, <2>4, Zenon DEF DnsNext
<1> QED BY <1>3, <1>4

LEMMA AnswersNext ==
    DnsInv /\ ForwardInv /\ AnswersAreTheZones /\ [DnsNext]_dnsVars => AnswersAreTheZones'
<1> SUFFICES ASSUME DnsInv, ForwardInv, AnswersAreTheZones, [DnsNext]_dnsVars
             PROVE  AnswersAreTheZones'
  OBVIOUS
<1>1. CASE UNCHANGED reply
  BY <1>1 DEF AnswersAreTheZones
<1>2. ASSUME NEW c \in DnsClients, SendResponse(c)
      PROVE  AnswersAreTheZones'
  <2>1. PICK q \in Queries[c] : q = query[c] /\ reply[c] = <<>>
    BY <1>2, WorkFacts DEF SendResponse
  <2>2. ~Forwarded(q)
    BY <1>2, <2>1 DEF SendResponse
  <2>3. CASE Len(q.name) = 7
    <3>1. reply' = [reply EXCEPT ![c] = Append(@, NipResponse(q))]
      BY <1>2, <2>1, <2>3 DEF SendResponse
    <3>2. RightReply(NipResponse(q))
      BY <2>3, MessageOf DEF RightReply
    <3> QED BY <2>1, <3>1, <3>2, ReplyFirst DEF DnsInv
  <2>4. CASE Len(q.name) # 7
    <3>1. reply' = [reply EXCEPT ![c] = Append(@, ZoneResponse(q))]
      BY <1>2, <2>1, <2>4 DEF SendResponse
    <3>2. Zone(q) \in DOMAIN ZoneFiles
      BY <2>2, <2>4 DEF Forwarded
    <3>3. RightReply(ZoneResponse(q))
      BY <3>2, ZoneResponseIsTheZones DEF RightReply
    <3> QED BY <2>1, <3>1, <3>3, ReplyFirst DEF DnsInv
  <2> QED BY <2>3, <2>4
<1>3. ASSUME NEW c \in DnsClients, Relay(c)
      PROVE  AnswersAreTheZones'
  <2>1. reply[c] = <<>> /\ socks # <<>>
    BY <1>3, DnsAssumption DEF DnsInv, WaitInv, Relay
  <2>2. Forwarded(socks[Len(socks)])
    BY <2>1 DEF ForwardInv, DnsInv, DnsTypeOK
  <2> DEFINE m == [of |-> socks[Len(socks)]]
  <2>3. m.of = socks[Len(socks)]
    OBVIOUS
  <2>4. RightReply(m)
    BY <2>2, <2>3, Zenon DEF RightReply
  <2>5. reply' = [reply EXCEPT ![c] = Append(@, m)]
    BY <1>3 DEF Relay
  <2> HIDE DEF m
  <2> QED BY <2>1, <2>4, <2>5, ReplyFirst DEF DnsInv
<1>4. CASE UNCHANGED dnsVars
  BY <1>1, <1>4 DEF dnsVars
<1>5. CASE DnsNext
  <2>1. ASSUME NEW c \in DnsClients, NEW q \in Queries[c], Ask(c, q)
        PROVE  UNCHANGED reply
    BY <2>1 DEF Ask
  <2>2. ASSUME NEW c \in DnsClients,
               \/ IgnoreResponse(c) \/ QueryFallbackNameserver(c)
               \/ SendFails(c) \/ NoSocket(c)
        PROVE  UNCHANGED reply
    BY <2>2 DEF IgnoreResponse, QueryFallbackNameserver, SendFails, NoSocket
  <2>3. ASSUME NEW i \in 1..MaxSockets, FallbackAnswers(i) \/ Lose(i)
        PROVE  UNCHANGED reply
    BY <2>3 DEF FallbackAnswers, Lose
  <2> QED BY <1>1, <1>2, <1>3, <1>5, <2>1, <2>2, <2>3, Zenon DEF DnsNext
<1> QED BY <1>4, <1>5

(* For any zone files and queries, whatever else goes on: behind what the  *)
(* query has in each section, an answer that HandleRequest makes from a    *)
(* zone file (tiny_dns.cpp) has the records of the name and type and no    *)
(* others, their addresses, and the SOA record when a question for another *)
(* type finds none; its counts are those of its sections where the query   *)
(* has no answers and authorities.                                         *)
THEOREM DnsAnswersAreTheZones == DnsSpec => []AnswersAreTheZones
<1>1. DnsInit => ForwardInv /\ AnswersAreTheZones
  <2> SUFFICES ASSUME DnsInit
               PROVE  ForwardInv /\ AnswersAreTheZones
    OBVIOUS
  <2>1. 1..Len(<<>>) = {}
    OBVIOUS
  <2>2. ForwardInv
    BY <2>1, Zenon DEF DnsInit, ForwardInv
  <2>3. \A c \in DnsClients : reply[c] = <<>>
    BY DEF DnsInit
  <2>4. AnswersAreTheZones
    BY <2>1, <2>3 DEF AnswersAreTheZones
  <2> QED BY <2>2, <2>4
<1> QED
  BY <1>1, DnsInvInit, DnsInvNext, ForwardInvNext, AnswersNext, PTL DEF DnsSpec

-----------------------------------------------------------------------------
(* Unpacker: what the assumption says of an entry.                         *)
IsEntry(e) ==
    /\ e.filesize \in 0..(SizeValues - 1)
    /\ e.content \in Seq({0, 1}) /\ Len(e.content) <= e.filesize
    /\ e.checksum \in [1..SegSize -> {0, 1}]

(* The size of the buffer wraps exactly where the segments overrun it, and *)
(* only for sizes that cannot be rounded up.                               *)
LEMMA WrapsOverrun ==
    ASSUME NEW e, IsEntry(e)
    PROVE  /\ Overruns(e) => e.filesize + SegSize >= SizeValues
           /\ ~Overruns(e) => BufferSize(e) = e.filesize + SegSize - (e.filesize % SegSize)
<1>1. e.filesize \in Nat /\ SegSize \in Nat \ {0} /\ SizeValues \in Nat \ {0}
  BY UnpackAssumption DEF IsEntry
<1>2. PICK f \in Nat, d \in Nat \ {0}, u \in Nat \ {0} :
         f = e.filesize /\ d = SegSize /\ u = SizeValues
  BY <1>1
<1>3. /\ f % d \in 0..(d - 1) /\ f \div d \in Nat /\ f = (f \div d) * d + (f % d)
  BY DivMod
<1>4. PICK n \in Nat : n = f + d - (f % d)
  BY <1>3
<1>5. n <= f + d /\ (f \div d + 1) * d = n
  BY <1>3, <1>4
<1>6. n % u \in 0..(u - 1) /\ n \div u \in Nat /\ n = (n \div u) * u + (n % u)
  BY DivMod
<1>7. n < u => n % u = n
  OBVIOUS
<1>8. BufferSize(e) = n % u /\ NumSegments(e) * SegSize = n
  BY <1>2, <1>4, <1>5, Zenon DEF BufferSize, NumSegments
<1>9. Overruns(e) <=> n >= u
  BY <1>6, <1>7, <1>8 DEF Overruns
<1>10. QED
  BY <1>2, <1>4, <1>5, <1>7, <1>8, <1>9

(* The last segment starts within the file.                                *)
LEMMA UnfitIsLarge ==
    ASSUME NEW e, IsEntry(e), Unfit(e)
    PROVE  2 * e.filesize >= SizeValues
<1>1. e.filesize \in Nat /\ SegSize \in Nat \ {0} /\ SizeValues \in Nat \ {0}
  BY UnpackAssumption DEF IsEntry
<1>2. PICK f \in Nat, d \in Nat \ {0} : f = e.filesize /\ d = SegSize
  BY <1>1
<1>3. /\ f % d \in 0..(d - 1) /\ f \div d \in Nat /\ f = (f \div d) * d + (f % d)
  BY DivMod
<1>4. PICK k \in Nat : k = f \div d
  BY <1>3
<1>5. 2 * (NumSegments(e) - 1) * SegSize = 2 * (k * d) /\ k * d \in Nat
  BY <1>2, <1>4 DEF NumSegments
<1>6. k * d <= f
  BY <1>3, <1>4
<1>7. QED
  BY <1>1, <1>2, <1>5, <1>6 DEF Unfit

(* Where it does not wrap, the buffer holds the file and zeros behind it.  *)
LEMMA BufferHolds ==
    ASSUME NEW e, IsEntry(e), ~Overruns(e)
    PROVE  /\ Buffer(e) \in Seq({0, 1})
           /\ Len(Buffer(e)) = e.filesize + SegSize - (e.filesize % SegSize)
           /\ e.filesize <= Len(Buffer(e))
           /\ \A j \in 1..(e.filesize + SegSize - (e.filesize % SegSize)) :
                 Buffer(e)[j] = IF j <= Len(e.content) THEN e.content[j] ELSE 0
<1>1. /\ e.filesize \in Nat /\ SegSize \in Nat \ {0} /\ e.content \in Seq({0, 1})
      /\ Len(e.content) \in Nat
  BY UnpackAssumption DEF IsEntry
<1>2. PICK f \in Nat, d \in Nat \ {0} : f = e.filesize /\ d = SegSize
  BY <1>1
<1>3. /\ f % d \in 0..(d - 1) /\ f \div d \in Nat /\ f = (f \div d) * d + (f % d)
  BY DivMod
<1>4. PICK n \in Nat : n = f + d - (f % d)
  BY <1>3
<1>5. n >= f
  BY <1>3, <1>4
<1>6. Buffer(e) = [j \in 1..n |-> IF j <= Len(e.content) THEN e.content[j] ELSE 0]
  BY <1>2, <1>4, WrapsOverrun DEF Buffer
<1>7. ASSUME NEW j \in 1..n
      PROVE  (IF j <= Len(e.content) THEN e.content[j] ELSE 0) \in {0, 1}
  <2>1. \A k \in 1..Len(e.content) : e.content[k] \in {0, 1}
    BY <1>1
  <2>2. j <= Len(e.content) => j \in 1..Len(e.content)
    BY <1>1
  <2>3. QED
    BY <2>1, <2>2
<1>8. Buffer(e) \in [1..n -> {0, 1}]
  BY <1>6, <1>7
<1>9. Buffer(e) \in Seq({0, 1}) /\ Len(Buffer(e)) = n
  BY <1>8
<1>10. QED
  BY <1>2, <1>4, <1>5, <1>6, <1>9

(* The loop over the segments computes the sum of the format.              *)
LEMMA SumIsTheFormats ==
    ASSUME NEW e, IsEntry(e), ~Overruns(e)
    PROVE  Sum(e) = e.checksum <=> Intact(e)
<1>1. /\ e.filesize \in Nat /\ SegSize \in Nat \ {0} /\ e.content \in Seq({0, 1})
      /\ Len(e.content) <= e.filesize
  BY UnpackAssumption DEF IsEntry
<1>2. NumSegments(e) - 1 = e.filesize \div SegSize
  <2>1. e.filesize \div SegSize \in Nat
    BY <1>1, DivMod
  <2>2. QED
    BY <2>1 DEF NumSegments
<1>3. Holds(Buffer(e), e.content, e.filesize, SegSize)
  BY BufferHolds DEF Holds
<1>4. ASSUME NEW k \in 1..SegSize
      PROVE  Sum(e)[k] = Cardinality(ByteOnes(e.content, SegSize, k)) % 2
  <2>1. Sum(e)[k] = Cardinality(SegmentOnes(Buffer(e), e.filesize, SegSize, k)) % 2
    BY <1>2, Zenon DEF Sum, SegmentOnes
  <2>2. Cardinality(SegmentOnes(Buffer(e), e.filesize, SegSize, k)) =
          Cardinality(ByteOnes(e.content, SegSize, k))
    BY <1>1, <1>3, SegmentsAreTheBytes
  <2>3. QED
    BY <2>1, <2>2, Zenon
<1>5. Intact(e) <=> \A k \in 1..SegSize : e.checksum[k] = Sum(e)[k]
  BY <1>4, Zenon DEF Intact, ByteOnes
<1>6. Sum(e) = [k \in 1..SegSize |-> Sum(e)[k]]
  BY Zenon DEF Sum
<1>7. e.checksum \in [1..SegSize -> {0, 1}]
  BY DEF IsEntry
<1>8. QED
  BY <1>5, <1>6, <1>7

(* What is written is the file.                                            *)
LEMMA WritesTheFile ==
    ASSUME NEW e, IsEntry(e), ~Overruns(e), NEW s, s = SubSeq(Buffer(e), 1, e.filesize)
    PROVE  /\ s \in Seq({0, 1}) /\ Len(s) = e.filesize
           /\ SubSeq(s, 1, Len(e.content)) = e.content
<1>1. /\ e.filesize \in Nat /\ e.content \in Seq({0, 1}) /\ Len(e.content) \in Nat
      /\ Len(e.content) <= e.filesize
  BY DEF IsEntry
<1>2. /\ s \in Seq({0, 1}) /\ Len(s) = e.filesize
      /\ \A j \in 1..e.filesize : s[j] = Buffer(e)[j]
  BY <1>1, BufferHolds, Prefix
<1>3. PICK t \in Seq({0, 1}) :
         /\ t = SubSeq(s, 1, Len(e.content)) /\ Len(t) = Len(e.content)
         /\ \A j \in 1..Len(e.content) : t[j] = s[j]
  <2>1. Len(e.content) <= Len(s)
    BY <1>1, <1>2
  <2>2. /\ SubSeq(s, 1, Len(e.content)) \in Seq({0, 1})
        /\ Len(SubSeq(s, 1, Len(e.content))) = Len(e.content)
        /\ \A j \in 1..Len(e.content) : SubSeq(s, 1, Len(e.content))[j] = s[j]
    BY <1>1, <1>2, <2>1, Prefix
  <2>3. QED
    BY <2>2, Zenon
<1>4. \A j \in 1..Len(e.content) : t[j] = e.content[j]
  <2>1. ASSUME NEW j \in 1..Len(e.content)
        PROVE  s[j] = e.content[j]
    <3>1. PICK n \in Nat : n = Len(Buffer(e)) /\ e.filesize <= n
      BY BufferHolds
    <3>2. j \in 1..e.filesize /\ j \in 1..n /\ j <= Len(e.content)
      BY <1>1, <3>1
    <3>3. Buffer(e)[j] = e.content[j]
      BY <3>1, <3>2, BufferHolds
    <3>4. QED
      BY <1>2, <3>2, <3>3
  <2>2. QED
    BY <1>3, <2>1
<1>5. t = e.content
  BY <1>1, <1>3, <1>4, SeqEqual
<1>6. QED
  BY <1>2, <1>3, <1>5
(* The entries of the name that are good and were reached.                 *)
Good(n) ==
    {i \in 1..(next - 1) : /\ file_entries[i].name = n
                           /\ n \in Writable /\ Intact(file_entries[i])}

LEMMA EntriesAre ==
    ASSUME UnpackTypeOK
    PROVE  /\ Len(file_entries) \in Nat
           /\ \A i \in 1..Len(file_entries) :
                 IsEntry(file_entries[i]) /\ file_entries[i].name \in Names
<1>1. file_entries \in Archives
  BY DEF UnpackTypeOK
<1>2. ASSUME NEW i \in 1..Len(file_entries)
      PROVE  IsEntry(file_entries[i]) /\ file_entries[i].name \in Names
  <2>1. IsEntry(file_entries[i])
    BY <1>1, UnpackAssumption DEF IsEntry
  <2>2. file_entries[i] \in UNION {{a[j] : j \in 1..Len(a)} : a \in Archives}
    BY <1>1
  <2>3. QED
    BY <2>1, <2>2, Zenon DEF Names
<1>3. QED
  BY <1>1, <1>2, UnpackAssumption

LEMMA UnpackInvInit == UnpackInit => UnpackInv
<1> SUFFICES ASSUME UnpackInit
             PROVE  UnpackInv
  OBVIOUS
<1>1. UnpackTypeOK
  <2>1. /\ file_entries \in Archives /\ next = 1 /\ Len(file_entries) \in Nat
        /\ DOMAIN dest = {} /\ killed \in BOOLEAN
    BY UnpackAssumption DEF UnpackInit
  <2>2. QED
    BY <2>1 DEF UnpackTypeOK
<1>2. DOMAIN dest = {} /\ \A n : Good(n) = {}
  BY DEF UnpackInit, Good
<1>3. ~killed
  BY DEF UnpackInit
<1>4. QED
  BY <1>1, <1>2, <1>3, Zenon DEF UnpackInv, UnpacksTheIntact, Good

LEMMA UnpackInvNext == UnpackInv /\ [UnpackNext]_unpackVars => UnpackInv'
<1> SUFFICES ASSUME UnpackInv, [UnpackNext]_unpackVars
             PROVE  UnpackInv'
  OBVIOUS
<1>1. CASE UNCHANGED unpackVars
  BY <1>1 DEF unpackVars, UnpackInv, UnpackTypeOK, UnpacksTheIntact
<1>2. CASE Extract
  <2> DEFINE e == file_entries[next]
             good == Sum(e) = e.checksum /\ e.name \in Writable
             file == SubSeq(Buffer(e), 1, e.filesize)
  <2>1. /\ UnpackTypeOK /\ next \in 1..Len(file_entries) /\ next \in Nat
        /\ next' = next + 1 /\ file_entries' = file_entries
        /\ Len(file_entries) \in Nat /\ ~killed /\ killed' = killed
    BY <1>2, EntriesAre DEF Extract, UnpackInv, UnpackTypeOK
  <2>2. IsEntry(e) /\ ~Overruns(e) /\ e.name \in Names
    BY <1>2, <2>1, EntriesAre DEF Extract
  <2>3. /\ file \in Seq({0, 1}) /\ Len(file) = e.filesize
        /\ SubSeq(file, 1, Len(e.content)) = e.content
    BY <2>2, WritesTheFile
  <2>4. good <=> Intact(e) /\ e.name \in Writable
    BY <2>2, SumIsTheFormats
  <2>5. dest' = IF good
                THEN [n \in DOMAIN dest \cup {e.name} |-> IF n = e.name THEN file ELSE dest[n]]
                ELSE dest
    BY <1>2 DEF Extract
  <2>6. next' - 1 = next /\ 1..next = 1..(next - 1) \cup {next} /\ next \notin 1..(next - 1)
    BY <2>1
  <2>7. ASSUME NEW n
        PROVE  Good(n)' = IF good /\ n = e.name THEN Good(n) \cup {next} ELSE Good(n)
    <3>1. Good(n)' = {i \in 1..(next - 1) \cup {next} :
                         /\ file_entries[i].name = n
                         /\ n \in Writable /\ Intact(file_entries[i])}
      BY <2>1, <2>6 DEF Good, Intact
    <3>2. QED
      BY <2>4, <3>1 DEF Good
  <2> HIDE DEF e, good, file
  <2>8. /\ DOMAIN dest = {n \in Names : Good(n) # {}}
        /\ \A n \in DOMAIN dest : \E i \in Good(n) :
              /\ \A j \in Good(n) : j <= i
              /\ Len(dest[n]) = file_entries[i].filesize
              /\ SubSeq(dest[n], 1, Len(file_entries[i].content)) = file_entries[i].content
    BY Zenon DEF UnpackInv, UnpacksTheIntact, Good
  <2>9. DOMAIN dest' = IF good THEN DOMAIN dest \cup {e.name} ELSE DOMAIN dest
    BY <2>5
  <2>10. UnpackTypeOK'
    <3>1. next' \in 1..(Len(file_entries') + 1)
      BY <2>1
    <3>2. DOMAIN dest' \subseteq Names
      BY <2>2, <2>8, <2>9
    <3>3. \A n \in DOMAIN dest' : dest'[n] \in Seq({0, 1})
      BY <2>1, <2>3, <2>5 DEF UnpackTypeOK
    <3>4. QED
      BY <2>1, <3>1, <3>2, <3>3 DEF UnpackTypeOK
  <2>11. DOMAIN dest' = {n \in Names : Good(n)' # {}}
    BY <2>2, <2>7, <2>8, <2>9
  <2>12. ASSUME NEW n \in DOMAIN dest'
         PROVE  \E i \in Good(n)' :
                   /\ \A j \in Good(n)' : j <= i
                   /\ Len(dest'[n]) = file_entries[i].filesize
                   /\ SubSeq(dest'[n], 1, Len(file_entries[i].content)) = file_entries[i].content
    <3>1. CASE good /\ n = e.name
      <4>1. next \in Good(n)' /\ dest'[n] = file
        BY <2>5, <2>7, <3>1
      <4>2. \A j \in Good(n)' : j <= next
        BY <2>1, <2>7, <3>1 DEF Good
      <4>3. QED
        BY <2>3, <4>1, <4>2 DEF e
    <3>2. CASE ~(good /\ n = e.name)
      <4>1. n \in DOMAIN dest /\ dest'[n] = dest[n] /\ Good(n)' = Good(n)
        BY <2>5, <2>7, <2>9, <3>2
      <4>2. QED
        BY <2>8, <4>1, Zenon
    <3>3. QED
      BY <3>1, <3>2
  <2>13. UnpacksTheIntact'
    BY <2>1, <2>11, <2>12, Zenon DEF UnpacksTheIntact, Good, Intact
  <2>14. QED
    BY <2>10, <2>13 DEF UnpackInv
<1>3. CASE Overrun
  <2>1. /\ UnpackTypeOK /\ next \in 1..Len(file_entries) /\ killed' = TRUE
        /\ UNCHANGED <<file_entries, next, dest>>
    BY <1>3, EntriesAre DEF Overrun, UnpackInv, UnpackTypeOK
  <2>2. TooLarge(file_entries[next].filesize) /\ next <= Len(file_entries)
    <3> DEFINE e == file_entries[next]
    <3>1. IsEntry(e) /\ next <= Len(file_entries)
      BY <2>1, EntriesAre DEF UnpackTypeOK
    <3>2. Overruns(e) \/ Unfit(e)
      BY <1>3 DEF Overrun
    <3> HIDE DEF e
    <3>3. QED
      BY <3>1, <3>2, WrapsOverrun, UnfitIsLarge DEF TooLarge, e
  <2>3. UnpackTypeOK'
    BY <2>1 DEF UnpackTypeOK
  <2>4. UnpacksTheIntact'
    <3>1. /\ file_entries' = file_entries /\ next' = next /\ dest' = dest
      BY <2>1
    <3>2. (killed => /\ next <= Len(file_entries)
                     /\ TooLarge(file_entries[next].filesize))'
      BY <2>2, <3>1 DEF TooLarge
    <3>3. \A n : Good(n)' = Good(n)
      BY <3>1 DEF Good, Intact
    <3>4. /\ DOMAIN dest = {n \in Names : Good(n) # {}}
          /\ \A n \in DOMAIN dest : \E i \in Good(n) :
                /\ \A j \in Good(n) : j <= i
                /\ Len(dest[n]) = file_entries[i].filesize
                /\ SubSeq(dest[n], 1, Len(file_entries[i].content)) = file_entries[i].content
      BY Zenon DEF UnpackInv, UnpacksTheIntact, Good
    <3>5. (/\ DOMAIN dest = {n \in Names : Good(n) # {}}
           /\ \A n \in DOMAIN dest : \E i \in Good(n) :
                 /\ \A j \in Good(n) : j <= i
                 /\ Len(dest[n]) = file_entries[i].filesize
                 /\ SubSeq(dest[n], 1, Len(file_entries[i].content)) = file_entries[i].content)'
      BY <3>1, <3>3, <3>4
    <3>6. QED
      BY <3>2, <3>5, Zenon DEF UnpacksTheIntact, Good
  <2>5. QED
    BY <2>3, <2>4 DEF UnpackInv
<1>4. QED
  BY <1>1, <1>2, <1>3 DEF UnpackNext

(* For any archive and size of segments: a name is written exactly when an *)
(* entry of it with the right sum was reached (main of unpacker.c), the    *)
(* last of them stays, the rest of a segment is summed, not skipped, and   *)
(* the sum leaves the buffer only for sizes that are no int or that cannot *)
(* be rounded up in 32 bits.                                               *)
THEOREM UnpacksIntact == UnpackSpec => []UnpacksTheIntact
<1>1. UnpackSpec => []UnpackInv
  BY UnpackInvInit, UnpackInvNext, PTL DEF UnpackSpec
<1>2. QED
  BY <1>1, PTL DEF UnpackInv
-----------------------------------------------------------------------------
(* All programs in one behaviour, of which one takes the steps.            *)
AllInv ==
    /\ ChatInv /\ SinkInv /\ NkatInv /\ DnsInv /\ ForwardInv /\ SudokuInv /\ UnpackInv

LEMMA OthersStay ==
    /\ ChatInv /\ UNCHANGED chatVars => ChatInv'
    /\ SinkInv /\ UNCHANGED sinkVars => SinkInv'
    /\ NkatInv /\ UNCHANGED nkatVars => NkatInv'
    /\ DnsInv /\ UNCHANGED dnsVars => DnsInv'
    /\ DnsInv /\ ForwardInv /\ UNCHANGED dnsVars => ForwardInv'
    /\ SudokuInv /\ UNCHANGED sudokuVars => SudokuInv'
    /\ UnpackInv /\ UNCHANGED unpackVars => UnpackInv'
<1>1. ChatInv /\ UNCHANGED chatVars => ChatInv'
  BY NextInv
<1>2. SinkInv /\ UNCHANGED sinkVars => SinkInv'
  BY SinkInvNext
<1>3. NkatInv /\ UNCHANGED nkatVars => NkatInv'
  BY NkatInvNext
<1>4. DnsInv /\ UNCHANGED dnsVars => DnsInv'
  BY DnsInvNext
<1>5. DnsInv /\ ForwardInv /\ UNCHANGED dnsVars => ForwardInv'
  BY ForwardInvNext
<1>6. SudokuInv /\ UNCHANGED sudokuVars => SudokuInv'
  BY SudokuInvNext
<1>7. UnpackInv /\ UNCHANGED unpackVars => UnpackInv'
  BY UnpackInvNext
<1>8. QED
  BY <1>1, <1>2, <1>3, <1>4, <1>5, <1>6, <1>7

LEMMA AllInvNext == AllInv /\ [Next]_labVars => AllInv'
<1> SUFFICES ASSUME AllInv, [Next]_labVars
             PROVE  AllInv'
  OBVIOUS
<1>1. CASE UNCHANGED labVars
  BY <1>1, OthersStay, Zenon DEF AllInv, labVars
<1>2. CASE Next
  BY <1>2, OthersStay, NextInv, SinkInvNext, NkatInvNext, DnsInvNext, ForwardInvNext,
     SudokuInvNext, UnpackInvNext, Zenon DEF AllInv, Next
<1>3. QED
  BY <1>1, <1>2

LEMMA AllInvHolds == FairSpec => []AllInv
<1>1. DnsInit => ForwardInv
  BY DEF DnsInit, ForwardInv
<1>2. Init => AllInv
  BY <1>1, InitInv, SinkInvInit, NkatInvInit, DnsInvInit, SudokuInvInit, UnpackInvInit, Zenon
     DEF Init, AllInv
<1>3. QED
  BY <1>2, AllInvNext, PTL DEF FairSpec

(* What holds at every step of every small program, in the specification   *)
(* that the run checks.                                                    *)
THEOREM LabsCorrect == FairSpec => []LabsInv
<1>1. AllInv => LabsInv
  BY Zenon DEF AllInv, LabsInv, SudokuInv
<1>2. QED
  BY <1>1, AllInvHolds, PTL

(* The types of all variables of the small programs.                       *)
THEOREM LabsTypes == FairSpec => []TypeOK
<1>1. AllInv => TypeOK
  BY Zenon DEF AllInv, TypeOK, ChatInv, SinkInv, NkatInv, DnsInv, SudokuInv, UnpackInv
<1>2. QED
  BY <1>1, AllInvHolds, PTL
=============================================================================
