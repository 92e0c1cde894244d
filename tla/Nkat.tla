--------------------------------- MODULE Nkat ---------------------------------
(***************************************************************************)
(* lab_4_nkat_server: each connection gets a program on its stdin and      *)
(* stdout. Whoever accepts a connection forks a middle process; that forks *)
(* the program, waits for it, closes its copy of the connection, and goes  *)
(* back to the top of the same loop, where it accepts connections itself.  *)
(* Descriptors are inherited through both forks and through exec.          *)
(*                                                                         *)
(* Not modelled: a fork that fails; programs that fork.                    *)
(***************************************************************************)
EXTENDS Integers, FiniteSets

CONSTANTS
    Calls,        \* connections that may come
    MaxFds        \* connections a process can hold

ASSUME NkatAssumption == IsFiniteSet(Calls) /\ Calls # {} /\ MaxFds \in Nat \ {0}

(* The server as it was started, and for each connection the process       *)
(* forked after its accept and the program's.                              *)
Main      == <<"main">>
Middle(c) == <<"middle", c>>
Prog(c)   == <<"prog", c>>
Procs     == {Main} \cup {Middle(c) : c \in Calls} \cup {Prog(c) : c \in Calls}

VARIABLES
    proc,         \* "none", "accept", "forking" (accepted), "middle" (forked),
                  \* "wait", "run" (the program), "zombie", "gone"
    parent,
    holds,        \* holds[p]: connections p has a descriptor of
    taken,        \* taken[p]: the connection in p's connfd
    ignores,      \* p ignores SIGCHLD
    calling,      \* connections in the backlog
    served        \* connections whose middle process has closed them

nkatVars == <<proc, parent, holds, taken, ignores, calling, served>>

NkatTypeOK ==
    /\ proc \in [Procs -> {"none", "accept", "forking", "middle", "wait", "run",
                           "zombie", "gone"}]
    /\ parent \in [Procs -> Procs] /\ holds \in [Procs -> SUBSET Calls]
    /\ \A p \in Procs : Cardinality(holds[p]) <= MaxFds
    /\ taken \in [Procs -> Calls] /\ ignores \in [Procs -> BOOLEAN]
    /\ calling \subseteq Calls /\ served \subseteq Calls

NkatInit ==
    /\ proc = [p \in Procs |-> IF p = Main THEN "accept" ELSE "none"]
    /\ parent = [p \in Procs |-> Main]
    /\ holds = [p \in Procs |-> {}] /\ taken = [p \in Procs |-> CHOOSE c \in Calls : TRUE]
    /\ ignores = [p \in Procs |-> FALSE]
    /\ calling = {} /\ served = {}

Alive(p) == proc[p] \notin {"none", "zombie", "gone"}

(* A client connects to the listening socket.                              *)
Call(c) ==
    /\ c \notin calling /\ \A p \in Procs : c \notin holds[p]
    /\ c \notin served /\ proc[Middle(c)] = "none"
    /\ \E p \in Procs : Alive(p)
    /\ calling' = calling \cup {c}
    /\ UNCHANGED <<proc, parent, holds, taken, ignores, served>>

(* Mutant: SIGCHLD keeps its default.                                      *)
AcceptNoSignal(p, c) ==
    /\ proc[p] = "accept" /\ c \in calling /\ Cardinality(holds[p]) < MaxFds
    /\ calling' = calling \ {c}
    /\ holds' = [holds EXCEPT ![p] = @ \cup {c}] /\ taken' = [taken EXCEPT ![p] = c]
    /\ proc' = [proc EXCEPT ![p] = "forking"]
    /\ UNCHANGED <<parent, ignores, served>>

(* accept, and signal(SIGCHLD, SIG_IGN).                                   *)
Accept(p, c) ==
    /\ proc[p] = "accept" /\ c \in calling /\ Cardinality(holds[p]) < MaxFds
    /\ calling' = calling \ {c}
    /\ holds' = [holds EXCEPT ![p] = @ \cup {c}] /\ taken' = [taken EXCEPT ![p] = c]
    /\ ignores' = [ignores EXCEPT ![p] = TRUE]
    /\ proc' = [proc EXCEPT ![p] = "forking"]
    /\ UNCHANGED <<parent, served>>

(* The child of a fork starts with what its parent has.                    *)
Fork(p, child, at, parentAt) ==
    /\ proc' = [proc EXCEPT ![p] = parentAt, ![child] = at]
    /\ parent' = [parent EXCEPT ![child] = p]
    /\ holds' = [holds EXCEPT ![child] = holds[p]]
    /\ taken' = [taken EXCEPT ![child] = taken[p]]
    /\ ignores' = [ignores EXCEPT ![child] = ignores[p]]
    /\ UNCHANGED <<calling, served>>

(* Mutant: the parent waits for its child before it goes on.               *)
ForkMiddleWaits(p) ==
    proc[p] = "forking" /\ Fork(p, Middle(taken[p]), "middle", "wait")

(* The first fork: the parent continues at accept, connfd still open.      *)
ForkMiddle(p) ==
    proc[p] = "forking" /\ Fork(p, Middle(taken[p]), "middle", "accept")

(* The second fork: the child becomes the program.                         *)
ForkProg(p) ==
    proc[p] = "middle" /\ Fork(p, Prog(taken[p]), "run", "wait")

(* A process ends: its descriptors close, and it stays a zombie while a    *)
(* live parent neither ignores SIGCHLD nor is in wait. Children of a dead  *)
(* process are init's, which collects them.                                *)
Exit(p) ==
    /\ holds' = [holds EXCEPT ![p] = {}]
    /\ proc' = [q \in Procs |->
                  IF q = p
                  THEN IF Alive(parent[p]) /\ parent[p] # p
                          /\ ~ignores[parent[p]] /\ proc[parent[p]] # "wait"
                       THEN "zombie" ELSE "gone"
                  ELSE IF parent[q] = p /\ proc[q] = "zombie" THEN "gone" ELSE proc[q]]
    /\ UNCHANGED <<parent, taken, ignores, calling, served>>

(* The program ends when it likes, or could not be executed at all.        *)
ProgEnds(c) == proc[Prog(c)] = "run" /\ Exit(Prog(c))

(* wait returns when every child has ended (SIGCHLD is ignored); the       *)
(* middle process closes its copy and loops.                               *)
WaitReturns(p) ==
    /\ proc[p] = "wait" /\ \A q \in Procs \ {p} : parent[q] = p => ~Alive(q)
    /\ proc' = [proc EXCEPT ![p] = "accept"]
    /\ holds' = [holds EXCEPT ![p] = @ \ {taken[p]}]
    /\ served' = served \cup {taken[p]}
    /\ UNCHANGED <<parent, taken, ignores, calling>>

(* Out of descriptors accept fails, and main returns.                      *)
AcceptFails(p) ==
    proc[p] = "accept" /\ Cardinality(holds[p]) = MaxFds /\ Exit(p)

NkatNext ==
    \/ \E c \in Calls : Call(c) \/ ProgEnds(c)
    \/ \E p \in Procs : \/ \E c \in Calls : Accept(p, c)
                        \/ ForkMiddle(p) \/ ForkProg(p) \/ WaitReturns(p) \/ AcceptFails(p)

NkatSpec == NkatInit /\ [][NkatNext]_nkatVars

(* Fairness: processes run, and a backlog is served by whoever accepts.    *)
(* Nothing is assumed of the programs, which may run for ever.             *)
NkatFairness ==
    /\ \A c \in Calls : WF_nkatVars(\E p \in Procs : Accept(p, c))
    /\ \A p \in Procs : /\ WF_nkatVars(ForkMiddle(p)) /\ WF_nkatVars(ForkProg(p))
                        /\ WF_nkatVars(WaitReturns(p))

-----------------------------------------------------------------------------
(* Correctness.                                                            *)

(* No process of the server stays a zombie, whichever of the acceptors     *)
(* forked it and whenever it ends.                                         *)
NoZombies == \A p \in Procs : proc[p] # "zombie"

(* Several clients at once: a connection gets its program although those   *)
(* of other connections never end, until the first process, which closes   *)
(* no connection, has used up its descriptors.                             *)
ServedWhileOthersRun ==
    \A c \in Calls : c \in calling ~>
        \/ proc[Prog(c)] # "none"
        \/ proc[Main] = "gone" \/ Cardinality(holds[Main]) = MaxFds

(* A daytime client sees the end: once the middle process has closed the   *)
(* connection of a program that ended, nobody has it open.                 *)
ClientSeesEnd == \A c \in served : \A p \in Procs : c \notin holds[p]

-----------------------------------------------------------------------------
(* The inductive invariant. Whoever has accepted a connection, or was      *)
(* forked by one who has, ignores SIGCHLD, and so does whoever has forked. *)
IgnoreInv ==
    /\ \A p \in Procs : proc[p] \in {"forking", "middle", "wait"} => ignores[p]
    /\ \A q \in Procs \ {Main} : proc[q] # "none" => ignores[parent[q]]
    /\ parent[Main] = Main

NkatInv == NkatTypeOK /\ IgnoreInv /\ NoZombies
=============================================================================
