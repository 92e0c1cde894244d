----------------------------- MODULE TrafficSink -----------------------------
(***************************************************************************)
(* lab_6_traffic_shaping/part2: a server with a command port and a data    *)
(* sink port (server.cpp), and the clients that measure a link with it     *)
(* (client.cpp): reset the counter, fill some sinks, and ask for a report  *)
(* when a signal comes.                                                    *)
(*                                                                         *)
(* TCP keeps the order in a connection and loses nothing, but one read may *)
(* return several commands. No handler looks at the rest of its batch of   *)
(* events, so each event is a step, in any order. There are descriptors    *)
(* enough; the lowest free one is given out, so numbers are used again,    *)
(* across the two ports.                                                   *)
(***************************************************************************)
EXTENDS Integers, Sequences, FiniteSets

CONSTANTS
    Measurers,    \* client processes
    Workers,      \* sinks a client opens (20)
    SinkFds,      \* descriptor numbers of the server
    MaxData       \* bound: bytes a sink is sent

Cmd(m)     == <<m, 0>>
Sinks(m)   == {<<m, w>> : w \in Workers}
Conns      == {Cmd(m) : m \in Measurers} \cup UNION {Sinks(m) : m \in Measurers}
IsCmd(k)   == k[2] = 0

ASSUME SinkAssumption ==
    /\ Workers \subseteq Nat \ {0} /\ IsFiniteSet(Workers) /\ IsFiniteSet(Measurers)
    /\ SinkFds \subseteq Nat /\ IsFiniteSet(SinkFds) /\ MaxData \in Nat
    /\ Cardinality(SinkFds) >= Cardinality(Conns)

VARIABLES
    mpc,          \* client: "start", "resetting", "connecting", "sending",
                  \* "reporting" (in the handler), "exit"
    link,         \* link[k]: "none", "queued" (backlog), "open", "closed"
    fdOf,         \* fdOf[k]: number of an open connection at the server
    cmds,         \* cmds[m]: commands the server has not read
    replies,      \* replies[m]: replies the client has not read
    data,         \* data[k]: bytes of sink k the server has not read
    sent,         \* sent[k]: bytes sent on sink k, ever
    is_sink,      \* the server's map, by descriptor number
    current_sink,
    bandwidth_counter,
    resetSum      \* sum of the counters that /reset has reported

sinkVars == <<mpc, link, fdOf, cmds, replies, data, sent, is_sink, current_sink,
              bandwidth_counter, resetSum>>

Command == {"reset", "report"}
Reply   == [of : Command, value : Nat]

SinkTypeOK ==
    /\ mpc \in [Measurers -> {"start", "resetting", "connecting", "sending",
                              "reporting", "exit"}]
    /\ link \in [Conns -> {"none", "queued", "open", "closed"}]
    /\ fdOf \in [Conns -> SinkFds]
    /\ cmds \in [Measurers -> Seq(Command)] /\ replies \in [Measurers -> Seq(Reply)]
    /\ data \in [Conns -> 0..MaxData] /\ sent \in [Conns -> 0..MaxData]
    /\ is_sink \in [SinkFds -> BOOLEAN] /\ current_sink \in Int
    /\ bandwidth_counter \in Nat /\ resetSum \in Nat

SinkInit ==
    /\ mpc = [m \in Measurers |-> "start"]
    /\ link = [k \in Conns |-> "none"]
    /\ fdOf = [k \in Conns |-> CHOOSE f \in SinkFds : TRUE]
    /\ cmds = [m \in Measurers |-> <<>>] /\ replies = [m \in Measurers |-> <<>>]
    /\ data = [k \in Conns |-> 0] /\ sent = [k \in Conns |-> 0]
    /\ is_sink = [f \in SinkFds |-> FALSE] /\ current_sink = 0
    /\ bandwidth_counter = 0 /\ resetSum = 0

sinkServerVars == <<fdOf, is_sink, current_sink, bandwidth_counter, resetSum>>

-----------------------------------------------------------------------------
(* The client.                                                             *)

(* Connect the command channel and send /reset.                            *)
SendReset(m) ==
    /\ mpc[m] = "start"
    /\ mpc' = [mpc EXCEPT ![m] = "resetting"]
    /\ link' = [link EXCEPT ![Cmd(m)] = "queued"]
    /\ cmds' = [cmds EXCEPT ![m] = Append(@, "reset")]
    /\ UNCHANGED <<replies, data, sent, sinkServerVars>>

(* recv returns a reply to main.                                           *)
ResetDone(m) ==
    /\ mpc[m] = "resetting" /\ replies[m] # <<>>
    /\ mpc' = [mpc EXCEPT ![m] = "connecting"]
    /\ replies' = [replies EXCEPT ![m] = Tail(@)]
    /\ UNCHANGED <<link, cmds, data, sent, sinkServerVars>>

(* connect returns with the connection in the server's backlog; after the  *)
(* last sink the sends begin.                                              *)
ConnectSink(m, k) ==
    /\ mpc[m] = "connecting" /\ k \in Sinks(m) /\ link[k] = "none"
    /\ link' = [link EXCEPT ![k] = "queued"]
    /\ mpc' = IF \A j \in Sinks(m) : link'[j] # "none"
              THEN [mpc EXCEPT ![m] = "sending"] ELSE mpc
    /\ UNCHANGED <<cmds, replies, data, sent, sinkServerVars>>

SendData(m, k) ==
    /\ mpc[m] = "sending" /\ k \in Sinks(m) /\ sent[k] < MaxData
    /\ sent' = [sent EXCEPT ![k] = @ + 1] /\ data' = [data EXCEPT ![k] = @ + 1]
    /\ UNCHANGED <<mpc, link, cmds, replies, sinkServerVars>>

(* The signal handler interrupts main wherever it is: it sends "/reports"  *)
(* and never returns.                                                      *)
Signal(m) ==
    /\ mpc[m] \in {"resetting", "connecting", "sending"}
    /\ mpc' = [mpc EXCEPT ![m] = "reporting"]
    /\ cmds' = [cmds EXCEPT ![m] = Append(@, "report")]
    /\ UNCHANGED <<link, replies, data, sent, sinkServerVars>>

(* recv returns to the handler, which prints the reply and exits; the      *)
(* kernel closes the connections.                                          *)
ReportDone(m) ==
    /\ mpc[m] = "reporting" /\ replies[m] # <<>>
    /\ mpc' = [mpc EXCEPT ![m] = "exit"]
    /\ replies' = [replies EXCEPT ![m] = Tail(@)]
    /\ UNCHANGED <<link, cmds, data, sent, sinkServerVars>>

-----------------------------------------------------------------------------
(* The server.                                                             *)

FreeFds == SinkFds \ {fdOf[k] : k \in {j \in Conns : link[j] = "open"}}

(* accept on either port; is_sink remembers which.                         *)
AcceptConn(k) ==
    /\ link[k] = "queued" /\ link' = [link EXCEPT ![k] = "open"]
    /\ \E f \in FreeFds :
          /\ \A g \in FreeFds : f <= g
          /\ fdOf' = [fdOf EXCEPT ![k] = f]
          /\ is_sink' = [is_sink EXCEPT ![f] = ~IsCmd(k)]
    /\ current_sink' = IF IsCmd(k) THEN current_sink ELSE current_sink + 1
    /\ UNCHANGED <<mpc, cmds, replies, data, sent, bandwidth_counter, resetSum>>

(* Mutants: the whole of what was read compared with a command's name; the *)
(* counter zeroed before it is printed.                                    *)
ReadCommandExact(m, n) ==
    /\ link[Cmd(m)] = "open" /\ ~is_sink[fdOf[Cmd(m)]] /\ n \in 1..Len(cmds[m])
    /\ cmds' = [cmds EXCEPT ![m] = SubSeq(@, n + 1, Len(@))]
    /\ IF n = 1 /\ Head(cmds[m]) = "reset"
       THEN /\ replies' = [replies EXCEPT ![m] = Append(@,
                              [of |-> "reset", value |-> bandwidth_counter])]
            /\ resetSum' = resetSum + bandwidth_counter /\ bandwidth_counter' = 0
       ELSE UNCHANGED <<replies, resetSum, bandwidth_counter>>
    /\ UNCHANGED <<mpc, link, fdOf, data, sent, is_sink, current_sink>>
ReadCommandZeroesFirst(m, n) ==
    /\ link[Cmd(m)] = "open" /\ ~is_sink[fdOf[Cmd(m)]] /\ n \in 1..Len(cmds[m])
    /\ cmds' = [cmds EXCEPT ![m] = SubSeq(@, n + 1, Len(@))]
    /\ bandwidth_counter' = IF Head(cmds[m]) = "reset" THEN 0 ELSE bandwidth_counter
    /\ replies' = [replies EXCEPT ![m] = Append(@,
                      [of |-> Head(cmds[m]), value |-> bandwidth_counter'])]
    /\ UNCHANGED <<mpc, link, fdOf, data, sent, is_sink, current_sink, resetSum>>

(* One read of a command channel takes n commands at once and obeys the    *)
(* first: strncmp looks at the start of the buffer, /reports is a /report. *)
ReadCommand(m, n) ==
    /\ link[Cmd(m)] = "open" /\ ~is_sink[fdOf[Cmd(m)]] /\ n \in 1..Len(cmds[m])
    /\ cmds' = [cmds EXCEPT ![m] = SubSeq(@, n + 1, Len(@))]
    /\ replies' = [replies EXCEPT ![m] = Append(@,
                      [of |-> Head(cmds[m]), value |-> bandwidth_counter])]
    /\ IF Head(cmds[m]) = "reset"
       THEN resetSum' = resetSum + bandwidth_counter /\ bandwidth_counter' = 0
       ELSE UNCHANGED <<resetSum, bandwidth_counter>>
    /\ UNCHANGED <<mpc, link, fdOf, data, sent, is_sink, current_sink>>

(* One read of a sink counts some of the bytes that are there.             *)
ReadData(k, n) ==
    /\ link[k] = "open" /\ is_sink[fdOf[k]] /\ n \in 1..data[k]
    /\ data' = [data EXCEPT ![k] = @ - n]
    /\ bandwidth_counter' = bandwidth_counter + n
    /\ UNCHANGED <<mpc, link, fdOf, cmds, replies, sent, is_sink, current_sink, resetSum>>

Gone(k) == mpc[k[1]] = "exit" /\ link[k] = "open" /\ data[k] = 0

(* Mutant: is_sink left as it is, and the count lowered whatever it says.  *)
CloseConnAlwaysLowers(k) ==
    /\ Gone(k) /\ link' = [link EXCEPT ![k] = "closed"]
    /\ current_sink' = current_sink - 1
    /\ UNCHANGED <<mpc, fdOf, cmds, replies, data, sent, is_sink, bandwidth_counter,
                   resetSum>>

(* read returns 0 after the last byte, or -1 where a reply was left unread *)
(* and the command channel was reset: the connection is closed.            *)
CloseConn(k) ==
    /\ Gone(k) /\ link' = [link EXCEPT ![k] = "closed"]
    /\ current_sink' = IF is_sink[fdOf[k]] THEN current_sink - 1 ELSE current_sink
    /\ is_sink' = [is_sink EXCEPT ![fdOf[k]] = FALSE]
    /\ UNCHANGED <<mpc, fdOf, cmds, replies, data, sent, bandwidth_counter, resetSum>>

SinkNext ==
    \/ \E m \in Measurers : SendReset(m) \/ ResetDone(m) \/ Signal(m) \/ ReportDone(m)
    \/ \E m \in Measurers, k \in Conns : ConnectSink(m, k) \/ SendData(m, k)
    \/ \E k \in Conns : AcceptConn(k) \/ CloseConn(k)
    \/ \E m \in Measurers, n \in 1..2 : ReadCommand(m, n)
    \/ \E k \in Conns, n \in 1..MaxData : ReadData(k, n)

SinkSpec == SinkInit /\ [][SinkNext]_sinkVars

(* Fairness: epoll reports a ready descriptor until it is served, and a    *)
(* client in recv returns when there is a reply.                           *)
SinkFairness ==
    /\ \A k \in Conns : WF_sinkVars(AcceptConn(k))
    /\ \A m \in Measurers : /\ WF_sinkVars(\E n \in 1..2 : ReadCommand(m, n))
                            /\ WF_sinkVars(ReportDone(m))

-----------------------------------------------------------------------------
(* Correctness.                                                            *)

OpenSinks == {k \in Conns : link[k] = "open" /\ ~IsCmd(k)}

(* /clients reports the data sinks that are connected, and every open      *)
(* descriptor is read as what it was accepted as, although numbers go from *)
(* sinks to command channels and back and is_sink entries outlive them.    *)
SinksAreCounted ==
    /\ current_sink = Cardinality(OpenSinks)
    /\ \A k \in Conns : link[k] = "open" => (is_sink[fdOf[k]] <=> ~IsCmd(k))

(* The bytes that n[k] counts of each connection k, by their numbers.      *)
Bytes(n) == {b \in Conns \X (1..MaxData) : b[2] <= n[b[1]]}

(* No byte is lost and none counted twice: what the clients sent is on its *)
(* way, in the counter, or in a count that some /reset reported.           *)
BytesAreConserved ==
    Cardinality(Bytes(sent)) = Cardinality(Bytes(data)) + bandwidth_counter + resetSum

(* A client that was told to stop stops: its handler's recv gets a reply,  *)
(* even where the server read two of its commands as one.                  *)
SignalledExits == \A m \in Measurers : mpc[m] = "reporting" ~> mpc[m] = "exit"

-----------------------------------------------------------------------------
(* The inductive invariant. A client that has not started has no command   *)
(* channel, no number belongs to two open connections, and no sink has     *)
(* more to be read than was sent.                                          *)
LinkInv ==
    /\ \A m \in Measurers : mpc[m] = "start" => link[Cmd(m)] = "none"
    /\ \A j, k \in Conns :
          link[j] = "open" /\ link[k] = "open" /\ fdOf[j] = fdOf[k] => j = k
    /\ \A k \in Conns : data[k] <= sent[k]

SinkInv == SinkTypeOK /\ LinkInv /\ SinksAreCounted
=============================================================================
