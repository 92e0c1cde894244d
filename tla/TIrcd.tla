-------------------------------- MODULE TIrcd --------------------------------
(***************************************************************************)
(* The IRC server of hw1_irc_server: one thread that takes a batch of      *)
(* ready descriptors from epoll, handles one line of each, and only then   *)
(* sends what the handlers queued. A User object outlives its connection   *)
(* as long as a channel holds it; descriptor numbers are used again.       *)
(*                                                                         *)
(* What a client does (connects, sends a line, hangs up) is chosen when    *)
(* the server reads it. Texts are left out: topics, names other than the   *)
(* nickname, and what a reply says.                                        *)
(***************************************************************************)
EXTENDS Integers

CONSTANTS
    Users,     \* User objects, one per accepted connection
    NoUser,    \* a null shared_ptr
    Fds,       \* descriptor numbers free for connections
    Listen,    \* the listening socket
    NoFd,      \* the descriptor of a User not created yet
    Nicks,     \* nicknames clients ask for
    NoNick,    \* the empty nickname of a new User, which "NICK :" asks for too
    Chans,     \* channel names
    MaxJoins   \* bound: times one user joins one channel

ASSUME UserAssumption == NoUser \notin Users
ASSUME FdAssumption   == Fds \subseteq Nat /\ Listen \notin Fds /\ NoFd \notin Fds
ASSUME NickAssumption == NoNick \notin Nicks
ASSUME JoinAssumption == MaxJoins \in Nat

Names == Nicks \cup {NoNick}

(* A queued ResponseMessage; one stands for all that a handler pushes for  *)
(* its sender. A relay goes to the users of a channel but the sender.      *)
Response == [sender : Users, to : SUBSET Users]

VARIABLES
    pc,             \* "wait": epoll_wait, "events": its for loop,
                    \* "send": SendMessages, "dead": the process is gone
    batch,          \* events the loop has not come to yet
    epollFds,       \* open connections, all of them watched by epoll
    connectionMap,
    userFd,         \* each User's connFd
    nick,           \* each User's nickname
    nickMap,
    channels,       \* names of the channels created so far
    members,        \* members[c][u]: how often u is in c's users vector
    sendingQueue    \* a handler pushes at most one of these per connection
                    \* and batch, whose order nothing tells apart: a set

connVars == <<epollFds, connectionMap, userFd>>
nickVars == <<nick, nickMap>>
chanVars == <<channels, members>>
vars     == <<pc, batch, connVars, nickVars, chanVars, sendingQueue>>

TypeOK ==
    /\ pc \in {"wait", "events", "send", "dead"}
    /\ batch \subseteq Fds \cup {Listen}
    /\ epollFds \subseteq Fds
    /\ connectionMap \in [Fds -> Users \cup {NoUser}]
    /\ userFd \in [Users -> Fds \cup {NoFd}]
    /\ nick \in [Users -> Names]
    /\ nickMap \in [Names -> Users \cup {NoUser}]
    /\ channels \subseteq Chans
    /\ members \in [Chans -> [Users -> Nat]]
    /\ sendingQueue \subseteq Response

Init ==
    /\ pc = "wait" /\ batch = {} /\ epollFds = {}
    /\ connectionMap = [fd \in Fds |-> NoUser]
    /\ userFd = [u \in Users |-> NoFd]
    /\ nick = [u \in Users |-> NoNick]
    /\ nickMap = [n \in Names |-> NoUser]
    /\ channels = {}
    /\ members = [c \in Chans |-> [u \in Users |-> 0]]
    /\ sendingQueue = {}

-----------------------------------------------------------------------------
(* The event loop.                                                         *)

Fresh == {u \in Users : userFd[u] = NoFd}

(* epoll_wait returns some of the descriptors, each at most once, in any   *)
(* order; a client connects as long as there are Users left to model it.   *)
EpollWait ==
    /\ pc = "wait"
    /\ \E ready \in SUBSET (epollFds \cup {Listen}) :
          /\ ready # {} /\ (Listen \in ready => Fresh # {})
          /\ batch' = ready
    /\ pc' = "events"
    /\ UNCHANGED <<connVars, nickVars, chanVars, sendingQueue>>

(* The loop comes to the event of fd; after the last one it sends.         *)
Take(fd) ==
    /\ pc = "events" /\ fd \in batch
    /\ batch' = batch \ {fd}
    /\ pc' = IF batch' = {} THEN "send" ELSE "events"

(* accept returns the lowest free number.                                  *)
RegisterConnection ==
    /\ Take(Listen)
    /\ \E fd \in Fds \ epollFds, u \in Fresh :
          /\ \A other \in Fds \ epollFds : fd <= other
          /\ epollFds' = epollFds \cup {fd}
          /\ connectionMap' = [connectionMap EXCEPT ![fd] = u]
          /\ userFd' = [userFd EXCEPT ![u] = fd]
    /\ UNCHANGED <<nickVars, chanVars, sendingQueue>>

(* Out of descriptors, accept fails, and the server exits.                 *)
AcceptFails ==
    /\ pc = "events" /\ Listen \in batch /\ epollFds = Fds
    /\ pc' = "dead"
    /\ UNCHANGED <<batch, connVars, nickVars, chanVars, sendingQueue>>

(* Mutant: the user is dropped, the descriptor stays open.                 *)
UnregisterWithoutClose(fd) ==
    /\ Take(fd)
    /\ nickMap' = [nickMap EXCEPT ![nick[connectionMap[fd]]] = NoUser]
    /\ connectionMap' = [connectionMap EXCEPT ![fd] = NoUser]
    /\ UNCHANGED <<epollFds, userFd, nick, chanVars, sendingQueue>>

(* The client hung up or sent an empty line. Channels keep the User.       *)
UnregisterConnetion(fd) ==
    /\ Take(fd)
    /\ nickMap' = [nickMap EXCEPT ![nick[connectionMap[fd]]] = NoUser]
    /\ connectionMap' = [connectionMap EXCEPT ![fd] = NoUser]
    /\ epollFds' = epollFds \ {fd}
    /\ UNCHANGED <<userFd, nick, chanVars, sendingQueue>>

(* Mutant: one message per turn of the loop.                               *)
SendOneMessage ==
    /\ pc = "send"
    /\ \/ \E m \in sendingQueue : sendingQueue' = sendingQueue \ {m}
       \/ sendingQueue = {} /\ UNCHANGED sendingQueue
    /\ pc' = "wait"
    /\ UNCHANGED <<batch, connVars, nickVars, chanVars>>

(* Every queued message is sent, to those of Reached.                      *)
SendMessages ==
    /\ pc = "send"
    /\ sendingQueue' = {}
    /\ pc' = "wait"
    /\ UNCHANGED <<batch, connVars, nickVars, chanVars>>

(* Whose connection a message is sent on: a recipient is looked up by the  *)
(* number its connection had.                                              *)
Reached(m) == {connectionMap[userFd[u]] : u \in m.to} \ {NoUser}

(* The peer of a recipient's connection is gone already: send raises       *)
(* SIGPIPE, which nothing handles.                                         *)
BrokenPipe ==
    /\ pc = "send" /\ \E m \in sendingQueue : Reached(m) # {}
    /\ pc' = "dead"
    /\ UNCHANGED <<batch, connVars, nickVars, chanVars, sendingQueue>>

-----------------------------------------------------------------------------
(* The command handlers, each for the line read from descriptor fd.        *)

Sender(fd) == connectionMap[fd]

Enqueue(fd, to) ==
    sendingQueue' = sendingQueue \cup {[sender |-> Sender(fd), to |-> to]}

(* Mutant: the name is set before it is looked up.                         *)
RefuseNickAfterSet(fd, n) ==
    /\ Take(fd) /\ nickMap[n] # NoUser
    /\ nick' = [nick EXCEPT ![Sender(fd)] = n]
    /\ Enqueue(fd, {Sender(fd)})
    /\ UNCHANGED <<connVars, nickMap, chanVars>>

(* IsNicknameInUse: the nickname is in nickMap, whoever put it there.      *)
RefuseNick(fd, n) ==
    /\ Take(fd) /\ nickMap[n] # NoUser
    /\ Enqueue(fd, {Sender(fd)})
    /\ UNCHANGED <<connVars, nickVars, chanVars>>

(* Mutant: the new name is not entered.                                    *)
AcceptNickNotEntered(fd, n) ==
    /\ Take(fd) /\ nickMap[n] = NoUser
    /\ nick' = [nick EXCEPT ![Sender(fd)] = n]
    /\ UNCHANGED <<connVars, nickMap, chanVars, sendingQueue>>

(* The new name is entered; the old one stays in nickMap.                  *)
AcceptNick(fd, n) ==
    /\ Take(fd) /\ nickMap[n] = NoUser
    /\ nick' = [nick EXCEPT ![Sender(fd)] = n]
    /\ nickMap' = [nickMap EXCEPT ![n] = Sender(fd)]
    /\ UNCHANGED <<connVars, chanVars, sendingQueue>>

HandleNick(fd, n) == RefuseNick(fd, n) \/ AcceptNick(fd, n)

(* JOIN creates the channel where needed and adds the user once more.      *)
HandleJoin(fd, c) ==
    /\ Take(fd) /\ members[c][Sender(fd)] < MaxJoins
    /\ channels' = channels \cup {c}
    /\ members' = [members EXCEPT ![c][Sender(fd)] = @ + 1]
    /\ Enqueue(fd, {Sender(fd)})
    /\ UNCHANGED <<connVars, nickVars>>

(* Mutant: PART of a channel the user is not on.                           *)
HandlePartUnchecked(fd, c) ==
    /\ Take(fd) /\ c \in channels
    /\ members' = [members EXCEPT ![c][Sender(fd)] = @ - 1]
    /\ Enqueue(fd, {Sender(fd)})
    /\ UNCHANGED <<connVars, nickVars, channels>>

(* PART takes the user out once, however often it joined.                  *)
HandlePart(fd, c) ==
    /\ Take(fd) /\ c \in channels /\ members[c][Sender(fd)] > 0
    /\ members' = [members EXCEPT ![c][Sender(fd)] = @ - 1]
    /\ Enqueue(fd, {Sender(fd)})
    /\ UNCHANGED <<connVars, nickVars, channels>>

(* TOPIC creates the channel before it looks whether the sender is on it.  *)
HandleTopic(fd, c) ==
    /\ Take(fd)
    /\ channels' = channels \cup {c}
    /\ Enqueue(fd, {Sender(fd)})
    /\ UNCHANGED <<connVars, nickVars, members>>

(* PRIVMSG to a channel that exists; the sender need not be on it.         *)
HandlePrivMsg(fd, c) ==
    /\ Take(fd) /\ c \in channels
    /\ Enqueue(fd, {u \in Users : members[c][u] > 0} \ {Sender(fd)})
    /\ UNCHANGED <<connVars, nickVars, chanVars>>

(* PRIVMSG to a nickname: nothing happens.                                 *)
IgnoreLine(fd) ==
    /\ Take(fd)
    /\ UNCHANGED <<connVars, nickVars, chanVars, sendingQueue>>

(* The rest only answers. USER stores names nothing looks at, an unknown   *)
(* command may be PING or QUIT, and any command may come with an error.    *)
Answer(fd) ==
    /\ Take(fd)
    /\ Enqueue(fd, {Sender(fd)})
    /\ UNCHANGED <<connVars, nickVars, chanVars>>

HandleUser(fd)    == Answer(fd)
HandleList(fd)    == Answer(fd)
HandleUsers(fd)   == Answer(fd)
HandleDefault(fd) == Answer(fd)
HandleError(fd)   == Answer(fd)

HandleQuery(fd) ==
    \/ HandleUser(fd) \/ HandleList(fd) \/ HandleUsers(fd)
    \/ HandleDefault(fd) \/ HandleError(fd)

HandleLine(fd) ==
    \/ \E n \in Names : HandleNick(fd, n)
    \/ \E c \in Chans : \/ HandleJoin(fd, c) \/ HandlePart(fd, c)
                        \/ HandleTopic(fd, c) \/ HandlePrivMsg(fd, c)
    \/ IgnoreLine(fd)
    \/ HandleQuery(fd)

Next ==
    \/ EpollWait
    \/ RegisterConnection
    \/ AcceptFails
    \/ \E fd \in Fds : UnregisterConnetion(fd) \/ HandleLine(fd)
    \/ SendMessages
    \/ BrokenPipe

Spec == Init /\ [][Next]_vars

-----------------------------------------------------------------------------
(* Correctness.                                                            *)

Connected(u) == userFd[u] # NoFd /\ connectionMap[userFd[u]] = u

(* The loop never meets an event whose connection an earlier event of the  *)
(* batch closed: ReceiveMessages would miss its user and                   *)
(* UnregisterConnetion dereference a null pointer.                         *)
EventsHaveUsers ==
    \A fd \in batch \ {Listen} : connectionMap[fd] # NoUser

(* Two connections never share a nickname, through any order of renames,   *)
(* refusals and hangups of users with old, new or empty names.             *)
NicknamesUnique ==
    \A u, v \in Users :
        Connected(u) /\ Connected(v) /\ nick[u] = nick[v] /\ nick[u] # NoNick => u = v

(* A queued response waits until the batch is over and is then sent to a   *)
(* descriptor number: it must still be its sender's connection.            *)
RepliesGoHome == \A m \in sendingQueue : Connected(m.sender)

(* ComposeString puts in the sender's nickname when it sends: it is still  *)
(* the one the line was sent under.                                        *)
NickFixedWhileQueued ==
    [][\A m \in sendingQueue : m \in sendingQueue' => nick'[m.sender] = nick[m.sender]]_vars

(* README.md: a message is delivered to the users in the channel. A        *)
(* connection that is none of the message's recipients gets none of it.    *)
OnlyMembersHear ==
    pc = "send" => \A m \in sendingQueue : Reached(m) \subseteq m.to

(* README.md: 436 answers a nickname that is already used. Somebody, if    *)
(* only the asker itself, must have it.                                    *)
RefusedMeansTaken ==
    [][\A fd \in Fds, n \in Nicks :
          RefuseNick(fd, n) => \E v \in Users : Connected(v) /\ nick[v] = n]_vars
-----------------------------------------------------------------------------
(* Inductive invariants. The descriptors, the map and the users agree; a   *)
(* queued message's sender has no event left in the batch that could       *)
(* rename or close it, and nothing is queued once the loop waits again.    *)
ConnInv ==
    /\ \A fd \in Fds : fd \in epollFds <=> connectionMap[fd] # NoUser
    /\ \A fd \in Fds : connectionMap[fd] # NoUser => userFd[connectionMap[fd]] = fd

LoopInv ==
    /\ batch \ {Listen} \subseteq epollFds
    /\ pc = "wait" => batch = {} /\ sendingQueue = {}
    /\ pc = "send" => batch = {}
    /\ \A m \in sendingQueue : Connected(m.sender) /\ userFd[m.sender] \notin batch

(* A connected user's name is its own in nickMap, until it hangs up; a     *)
(* User not created yet has none.                                          *)
NickInv ==
    /\ \A u \in Users : Connected(u) /\ nick[u] # NoNick => nickMap[nick[u]] = u
    /\ \A u \in Fresh : nick[u] = NoNick

Inv == TypeOK /\ ConnInv /\ LoopInv /\ NickInv
=============================================================================
