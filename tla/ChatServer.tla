------------------------------ MODULE ChatServer ------------------------------
(***************************************************************************)
(* The epoll chat server of lab_5_tcp_chat_server (best_server.cpp).       *)
(* connections_map goes from descriptor numbers to names and nothing is    *)
(* ever erased from it: an entry lives on after its connection, until the  *)
(* number is used again. Messages only matter by whom they reach, so a     *)
(* step that only sends changes nothing but the batch.                     *)
(***************************************************************************)
EXTENDS Integers, FiniteSets

CONSTANTS
    Users,        \* connections that will come
    ChatFds,      \* descriptor numbers there are for connections
    UserNames,    \* names, random ones and chosen ones
    listenfd, NoFd

ASSUME ChatAssumption ==
    /\ IsFiniteSet(Users) /\ UserNames # {}
    /\ ChatFds \subseteq Nat /\ listenfd \in Nat \ ChatFds
    /\ NoFd \in Int \ (ChatFds \cup {listenfd})

VARIABLES
    connfd,            \* connfd[u]: u's descriptor while its connection is open
    coming,            \* users that have not connected yet
    reset,             \* users whose connection failed in a read and is open
    connections_map,   \* descriptor number -> username, for every number used
    online_users,
    events,            \* descriptors of the batch the loop has not come to
    told,              \* the name each user was last told is its own
    chatting           \* FALSE: main has returned

chatVars == <<connfd, coming, reset, connections_map, online_users, events, told,
              chatting>>

Open    == {u \in Users : connfd[u] # NoFd}
OpenFds == {connfd[u] : u \in Open}

ChatTypeOK ==
    /\ connfd \in [Users -> ChatFds \cup {NoFd}] /\ coming \subseteq Users
    /\ reset \subseteq Users /\ online_users \in Int
    /\ DOMAIN connections_map \subseteq ChatFds
    /\ \A f \in DOMAIN connections_map : connections_map[f] \in UserNames
    /\ events \subseteq ChatFds \cup {listenfd}
    /\ told \in [Users -> UserNames] /\ chatting \in BOOLEAN

ChatInit ==
    /\ connfd = [u \in Users |-> NoFd] /\ coming = Users /\ reset = {}
    /\ connections_map = [f \in {} |-> CHOOSE n \in UserNames : TRUE]
    /\ online_users = 0 /\ events = {} /\ chatting = TRUE
    /\ told = [u \in Users |-> CHOOSE n \in UserNames : TRUE]

-----------------------------------------------------------------------------
(* epoll_wait: something is ready, which depends on what users did.        *)
ChatWait ==
    /\ chatting /\ events = {}
    /\ \E l \in SUBSET (IF coming = {} THEN {} ELSE {listenfd}) :
          events' \in {l \cup s : s \in SUBSET OpenFds} \ {{}}
    /\ UNCHANGED <<connfd, coming, reset, connections_map, online_users, told, chatting>>

(* The loop comes to the event of descriptor f.                            *)
Event(f) == chatting /\ f \in events /\ events' = events \ {f}

Entry(f, n) == [g \in DOMAIN connections_map \cup {f} |->
                   IF g = f THEN n ELSE connections_map[g]]

(* Mutant: the entry made with insert, which keeps one that is there.      *)
AcceptUserInserts(u, f, n) ==
    /\ Event(listenfd) /\ u \in coming
    /\ f \in ChatFds \ OpenFds /\ \A g \in ChatFds \ OpenFds : f <= g
    /\ connfd' = [connfd EXCEPT ![u] = f] /\ coming' = coming \ {u}
    /\ connections_map' = IF f \in DOMAIN connections_map THEN connections_map
                                                         ELSE Entry(f, n)
    /\ online_users' = online_users + 1
    /\ told' = [told EXCEPT ![u] = n]
    /\ UNCHANGED <<reset, chatting>>

(* A new connection gets the lowest free number, an entry over whatever    *)
(* the number's last owner left there, and a banner with its name.         *)
AcceptUser(u, f, n) ==
    /\ Event(listenfd) /\ u \in coming
    /\ f \in ChatFds \ OpenFds /\ \A g \in ChatFds \ OpenFds : f <= g
    /\ connfd' = [connfd EXCEPT ![u] = f] /\ coming' = coming \ {u}
    /\ connections_map' = Entry(f, n)
    /\ online_users' = online_users + 1
    /\ told' = [told EXCEPT ![u] = n]
    /\ UNCHANGED <<reset, chatting>>

(* accept without a free number ends the server and every connection.      *)
AcceptUserFails ==
    /\ Event(listenfd) /\ ChatFds \subseteq OpenFds
    /\ chatting' = FALSE
    /\ UNCHANGED <<connfd, coming, reset, connections_map, online_users, told>>

(* Mutant: sends that fail in the broadcast close the connections they     *)
(* were for.                                                               *)
LeaveReaps(u) ==
    /\ u \in Open /\ Event(connfd[u])
    /\ connfd' = [v \in Users |-> IF v \in reset \cup {u} THEN NoFd ELSE connfd[v]]
    /\ online_users' = online_users - Cardinality((reset \cup {u}) \cap Open)
    /\ reset' = {}
    /\ UNCHANGED <<coming, connections_map, told, chatting>>

(* read returned 0: the others are told and the connection closed.         *)
Leave(u) ==
    /\ u \in Open /\ Event(connfd[u])
    /\ connfd' = [connfd EXCEPT ![u] = NoFd]
    /\ online_users' = online_users - 1
    /\ reset' = reset \ {u}
    /\ UNCHANGED <<coming, connections_map, told, chatting>>

(* Mutant: a failed read counts as a leave.                                *)
ReadFailsLeaves(u) ==
    /\ u \in Open \ reset /\ Event(connfd[u])
    /\ reset' = reset \cup {u} /\ online_users' = online_users - 1
    /\ UNCHANGED <<connfd, coming, connections_map, told, chatting>>

(* read returned -1 for a connection that was reset: nothing tests for it, *)
(* an empty message is broadcast and the next read returns 0.              *)
ReadFails(u) ==
    /\ u \in Open \ reset /\ Event(connfd[u])
    /\ reset' = reset \cup {u}
    /\ UNCHANGED <<connfd, coming, connections_map, online_users, told, chatting>>

(* /name: the entry of the descriptor is changed and its user told.        *)
Rename(u, n) ==
    /\ u \in Open \ reset /\ Event(connfd[u])
    /\ connections_map' = Entry(connfd[u], n)
    /\ told' = [told EXCEPT ![u] = n]
    /\ UNCHANGED <<connfd, coming, reset, online_users, chatting>>

(* A line, /who, or an unknown command: only sends.                        *)
Say(u) ==
    /\ u \in Open \ reset /\ Event(connfd[u])
    /\ UNCHANGED <<connfd, coming, reset, connections_map, online_users, told, chatting>>

ChatNext ==
    \/ ChatWait
    \/ \E u \in Users, f \in ChatFds, n \in UserNames : AcceptUser(u, f, n)
    \/ AcceptUserFails
    \/ \E u \in Users : Leave(u) \/ ReadFails(u) \/ Say(u)
    \/ \E u \in Users, n \in UserNames : Rename(u, n)

ChatSpec == ChatInit /\ [][ChatNext]_chatVars

-----------------------------------------------------------------------------
(* Correctness.                                                            *)

(* The count is that of the open connections, with resets that show up in  *)
(* two reads, and numbers that are given out again.                        *)
CountIsOpen == online_users = Cardinality(Open)

(* What a user is announced and signed as, the entry under its descriptor, *)
(* is the name it was told, whoever had the number or the entry before;    *)
(* and a broadcast, which goes to the numbers in connections_map, reaches  *)
(* every open connection.                                                  *)
NamesAreTold ==
    \A u \in Open : /\ connfd[u] \in DOMAIN connections_map
                    /\ connections_map[connfd[u]] = told[u]

(* An event left in the batch is of a connection that is still open, and   *)
(* no step gives its number to another one: a read finds the connection    *)
(* the event was for.                                                      *)
EventsAreOpen == chatting => events \subseteq OpenFds \cup {listenfd}

-----------------------------------------------------------------------------
(* The inductive invariant. A number belongs to one open connection at a   *)
(* time, users that are still coming have none, and a connection known to  *)
(* be reset is open: it will be counted out by the read that closes it.    *)
FdsInv ==
    /\ \A u, v \in Open : connfd[u] = connfd[v] => u = v
    /\ \A u \in coming : connfd[u] = NoFd
    /\ reset \subseteq Open

ChatInv ==
    /\ ChatTypeOK /\ FdsInv
    /\ CountIsOpen /\ NamesAreTold /\ events \subseteq OpenFds \cup {listenfd}
=============================================================================
