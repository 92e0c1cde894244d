----------------------------- MODULE TIrcd_proofs -----------------------------
(***************************************************************************)
(* Proofs about TIrcd for every number of connections, descriptors,        *)
(* nicknames and channels.                                                 *)
(***************************************************************************)
EXTENDS TIrcd, TLAPS

LEMMA InitInv == Init => Inv
<1> SUFFICES ASSUME Init PROVE Inv
    OBVIOUS
<1>1. TypeOK
    BY DEF Init, TypeOK, Names
<1>2. \A u \in Users : ~Connected(u)
    BY DEF Init, Connected
<1> QED BY <1>1, <1>2, UserAssumption DEF Init, Inv, ConnInv, LoopInv, NickInv, Fresh

(* The user of an open descriptor is connected on it and on no other.      *)
LEMMA SenderConnected ==
    ASSUME Inv, NEW fd \in Fds, fd \in batch
    PROVE  /\ Sender(fd) \in Users /\ Connected(Sender(fd))
           /\ userFd[Sender(fd)] = fd /\ fd \in epollFds
BY UserAssumption, FdAssumption DEF Inv, ConnInv, LoopInv, TypeOK, Sender, Connected

(* Every step keeps the types.                                             *)
LEMMA TypeStep == Inv /\ [Next]_vars => TypeOK'
<1> SUFFICES ASSUME Inv, [Next]_vars PROVE TypeOK'
    OBVIOUS
<1>0. TypeOK
    BY DEF Inv
<1>s. ASSUME NEW fd \in Fds, NEW to \in SUBSET Users, fd \in batch, Enqueue(fd, to)
      PROVE  sendingQueue' \subseteq Response
    BY <1>s, <1>0, SenderConnected DEF Enqueue, TypeOK, Response
<1>1. CASE EpollWait
    BY <1>0, <1>1 DEF EpollWait, TypeOK, connVars, nickVars, chanVars
<1>2. CASE RegisterConnection
    BY <1>0, <1>2 DEF RegisterConnection, Take, Fresh, TypeOK, nickVars, chanVars
<1>3. CASE AcceptFails
    BY <1>0, <1>3 DEF AcceptFails, TypeOK, connVars, nickVars, chanVars
<1>4. ASSUME NEW fd \in Fds, UnregisterConnetion(fd) PROVE TypeOK'
    BY <1>0, <1>4 DEF UnregisterConnetion, Take, TypeOK, chanVars
<1>5. ASSUME NEW fd \in Fds, HandleLine(fd) PROVE TypeOK'
  <2>0. fd \in batch /\ Sender(fd) \in Users
      BY <1>5, SenderConnected DEF HandleLine, HandleNick, RefuseNick, AcceptNick, HandleJoin,
         HandlePart, HandleTopic, HandlePrivMsg, IgnoreLine, HandleQuery, HandleUser, HandleList,
         HandleUsers, HandleDefault, HandleError, Answer, Take
  <2>1. ASSUME NEW n \in Names, RefuseNick(fd, n) PROVE TypeOK'
    <3>1. sendingQueue' \subseteq Response
        BY <1>s, <2>0, <2>1 DEF RefuseNick
    <3> QED BY <1>0, <2>1, <3>1 DEF RefuseNick, Take, TypeOK, connVars, nickVars, chanVars
  <2>2. ASSUME NEW n \in Names, AcceptNick(fd, n) PROVE TypeOK'
      BY <1>0, <2>0, <2>2 DEF AcceptNick, Take, TypeOK, connVars, chanVars
  <2>3. ASSUME NEW c \in Chans, HandleJoin(fd, c) PROVE TypeOK'
    <3>1. sendingQueue' \subseteq Response
        BY <1>s, <2>0, <2>3 DEF HandleJoin
    <3>2. members' \in [Chans -> [Users -> Nat]]
        BY <1>0, <2>0, <2>3 DEF HandleJoin, TypeOK
    <3> QED BY <1>0, <2>3, <3>1, <3>2 DEF HandleJoin, Take, TypeOK, connVars, nickVars
  <2>4. ASSUME NEW c \in Chans, HandlePart(fd, c) PROVE TypeOK'
    <3>1. sendingQueue' \subseteq Response
        BY <1>s, <2>0, <2>4 DEF HandlePart
    <3>2. members' \in [Chans -> [Users -> Nat]]
      <4>1. members[c][Sender(fd)] - 1 \in Nat
          BY <1>0, <2>0, <2>4 DEF HandlePart, TypeOK
      <4> QED BY <1>0, <2>0, <2>4, <4>1 DEF HandlePart, TypeOK
    <3> QED BY <1>0, <2>4, <3>1, <3>2 DEF HandlePart, Take, TypeOK, connVars, nickVars
  <2>5. ASSUME NEW c \in Chans, HandleTopic(fd, c) PROVE TypeOK'
    <3>1. sendingQueue' \subseteq Response
        BY <1>s, <2>0, <2>5 DEF HandleTopic
    <3> QED BY <1>0, <2>5, <3>1 DEF HandleTopic, Take, TypeOK, connVars, nickVars
  <2>6. ASSUME NEW c \in Chans, HandlePrivMsg(fd, c) PROVE TypeOK'
    <3>1. sendingQueue' \subseteq Response
        BY <1>s, <2>0, <2>6 DEF HandlePrivMsg
    <3> QED BY <1>0, <2>6, <3>1 DEF HandlePrivMsg, Take, TypeOK, connVars, nickVars, chanVars
  <2>7. CASE IgnoreLine(fd)
      BY <1>0, <2>7 DEF IgnoreLine, Take, TypeOK, connVars, nickVars, chanVars
  <2>8. CASE HandleQuery(fd)
    <3>1. sendingQueue' \subseteq Response
        BY <1>s, <2>0, <2>8 DEF HandleQuery, HandleUser, HandleList, HandleUsers, HandleDefault,
           HandleError, Answer
    <3> QED BY <1>0, <2>8, <3>1 DEF HandleQuery, HandleUser, HandleList, HandleUsers, HandleDefault,
           HandleError, Answer, Take, TypeOK, connVars, nickVars, chanVars
  <2> QED BY <1>5, <2>1, <2>2, <2>3, <2>4, <2>5, <2>6, <2>7, <2>8 DEF HandleLine, HandleNick
<1>6. CASE SendMessages
    BY <1>0, <1>6 DEF SendMessages, TypeOK, connVars, nickVars, chanVars
<1>7. CASE BrokenPipe
    BY <1>0, <1>7 DEF BrokenPipe, TypeOK, connVars, nickVars, chanVars
<1>8. CASE UNCHANGED vars
    BY <1>0, <1>8 DEF vars, TypeOK, connVars, nickVars, chanVars
<1> QED BY <1>1, <1>2, <1>3, <1>4, <1>5, <1>6, <1>7, <1>8 DEF Next

(* What the handlers have in common: they take the event, leave the        *)
(* connections alone and queue at most messages of the line's sender.      *)
LEMMA LineEffect ==
    ASSUME Inv, NEW fd \in Fds, HandleLine(fd)
    PROVE  /\ Take(fd) /\ UNCHANGED connVars
           /\ \A m \in sendingQueue' : m \in sendingQueue \/ m.sender = Sender(fd)
<1>1. ASSUME NEW n \in Names, HandleNick(fd, n)
      PROVE  /\ Take(fd) /\ UNCHANGED connVars
             /\ \A m \in sendingQueue' : m \in sendingQueue \/ m.sender = Sender(fd)
    BY <1>1 DEF HandleNick, RefuseNick, AcceptNick, Enqueue
<1>2. ASSUME NEW c \in Chans,
             HandleJoin(fd, c) \/ HandlePart(fd, c) \/ HandleTopic(fd, c) \/ HandlePrivMsg(fd, c)
      PROVE  /\ Take(fd) /\ UNCHANGED connVars
             /\ \A m \in sendingQueue' : m \in sendingQueue \/ m.sender = Sender(fd)
    BY <1>2 DEF HandleJoin, HandlePart, HandleTopic, HandlePrivMsg, Enqueue
<1>3. ASSUME IgnoreLine(fd) \/ HandleQuery(fd)
      PROVE  /\ Take(fd) /\ UNCHANGED connVars
             /\ \A m \in sendingQueue' : m \in sendingQueue \/ m.sender = Sender(fd)
    BY <1>3 DEF IgnoreLine, HandleQuery, HandleUser, HandleList, HandleUsers, HandleDefault,
       HandleError, Answer, Enqueue
<1> QED BY <1>1, <1>2, <1>3 DEF HandleLine

(* Only an accepted NICK renames, only its sender, and to a name nobody    *)
(* has entered.                                                            *)
LEMMA LineNames ==
    ASSUME Inv, NEW fd \in Fds, HandleLine(fd)
    PROVE  \/ UNCHANGED nickVars
           \/ \E n \in Names : AcceptNick(fd, n)
<1>1. ASSUME NEW c \in Chans,
             HandleJoin(fd, c) \/ HandlePart(fd, c) \/ HandleTopic(fd, c) \/ HandlePrivMsg(fd, c)
      PROVE  UNCHANGED nickVars
    BY <1>1 DEF HandleJoin, HandlePart, HandleTopic, HandlePrivMsg
<1>2. ASSUME IgnoreLine(fd) \/ HandleQuery(fd) PROVE UNCHANGED nickVars
    BY <1>2 DEF IgnoreLine, HandleQuery, HandleUser, HandleList, HandleUsers, HandleDefault,
       HandleError, Answer
<1>3. ASSUME NEW n \in Names, RefuseNick(fd, n) PROVE UNCHANGED nickVars
    BY <1>3 DEF RefuseNick
<1> QED BY <1>1, <1>2, <1>3 DEF HandleLine, HandleNick

(* Descriptors, map and users stay in agreement.                           *)
LEMMA ConnStep == Inv /\ [Next]_vars => ConnInv'
<1> SUFFICES ASSUME Inv, [Next]_vars PROVE ConnInv'
    OBVIOUS
<1>0. TypeOK /\ ConnInv
    BY DEF Inv
<1>1. ASSUME UNCHANGED connVars PROVE ConnInv'
    BY <1>0, <1>1 DEF connVars, ConnInv
<1>2. CASE RegisterConnection
  <2>1. PICK fd \in Fds \ epollFds, u \in Fresh :
            /\ epollFds' = epollFds \cup {fd}
            /\ connectionMap' = [connectionMap EXCEPT ![fd] = u]
            /\ userFd' = [userFd EXCEPT ![u] = fd]
      BY <1>2 DEF RegisterConnection
  <2>2. u \in Users /\ u # NoUser /\ userFd[u] = NoFd
      BY UserAssumption DEF Fresh
  <2>3. \A f \in Fds : connectionMap[f] # u
      BY <1>0, <2>2, FdAssumption DEF ConnInv
  <2> QED BY <1>0, <2>1, <2>2, <2>3 DEF ConnInv, TypeOK
<1>3. ASSUME NEW fd \in Fds, UnregisterConnetion(fd) PROVE ConnInv'
    BY <1>0, <1>3 DEF UnregisterConnetion, ConnInv, TypeOK
<1>4. ASSUME NEW fd \in Fds, HandleLine(fd) PROVE ConnInv'
    BY <1>1, <1>4, LineEffect
<1>5. CASE EpollWait \/ AcceptFails \/ SendMessages \/ BrokenPipe \/ UNCHANGED vars
    BY <1>1, <1>5 DEF EpollWait, AcceptFails, SendMessages, BrokenPipe, vars
<1> QED BY <1>2, <1>3, <1>4, <1>5 DEF Next

(* A step closes at most the connection whose event it takes.              *)
LEMMA StaysConnected ==
    ASSUME Inv, [Next]_vars, NEW u \in Users, Connected(u)
    PROVE  \/ Connected(u)' /\ userFd'[u] = userFd[u]
           \/ \E fd \in Fds : UnregisterConnetion(fd) /\ connectionMap[fd] = u
<1> DEFINE Goal == Connected(u)' /\ userFd'[u] = userFd[u]
<1>0. TypeOK /\ ConnInv
    BY DEF Inv
<1>1. ASSUME UNCHANGED connVars PROVE Goal
    BY <1>1 DEF connVars, Connected
<1>2. CASE RegisterConnection
  <2>1. PICK fd \in Fds \ epollFds, v \in Fresh :
            /\ connectionMap' = [connectionMap EXCEPT ![fd] = v]
            /\ userFd' = [userFd EXCEPT ![v] = fd]
      BY <1>2 DEF RegisterConnection
  <2>2. v # u /\ userFd[u] # fd
      BY <1>0, <2>1, UserAssumption DEF Fresh, Connected, ConnInv
  <2> QED BY <1>0, <2>1, <2>2 DEF Connected, TypeOK
<1>3. ASSUME NEW fd \in Fds, UnregisterConnetion(fd), connectionMap[fd] # u PROVE Goal
    BY <1>0, <1>3 DEF UnregisterConnetion, Connected, TypeOK
<1>4. ASSUME NEW fd \in Fds, HandleLine(fd) PROVE Goal
    BY <1>1, <1>4, LineEffect
<1>5. CASE EpollWait \/ AcceptFails \/ SendMessages \/ BrokenPipe \/ UNCHANGED vars
    BY <1>1, <1>5 DEF EpollWait, AcceptFails, SendMessages, BrokenPipe, vars
<1> QED BY <1>2, <1>3, <1>4, <1>5 DEF Next

(* What is queued belongs to connections the batch is through with, and    *)
(* nothing is left when the loop waits.                                    *)
LEMMA LoopStep == Inv /\ [Next]_vars => LoopInv'
<1> SUFFICES ASSUME Inv, [Next]_vars PROVE LoopInv'
    OBVIOUS
<1>0. TypeOK /\ ConnInv /\ LoopInv
    BY DEF Inv
<1>1. CASE EpollWait
    BY <1>0, <1>1 DEF EpollWait, LoopInv, Connected, connVars
<1>2. CASE RegisterConnection
  <2>1. \A m \in sendingQueue' : Connected(m.sender)' /\ userFd'[m.sender] \notin batch'
    <3> SUFFICES ASSUME NEW m \in sendingQueue' PROVE Connected(m.sender)' /\ userFd'[m.sender] \notin batch'
        OBVIOUS
    <3>1. m \in sendingQueue /\ m.sender \in Users
        BY <1>0, <1>2 DEF RegisterConnection, TypeOK, Response
    <3>2. Connected(m.sender) /\ userFd[m.sender] \notin batch
        BY <1>0, <3>1 DEF LoopInv
    <3>3. ~\E fd \in Fds : UnregisterConnetion(fd)
        BY <1>2, FdAssumption DEF RegisterConnection, UnregisterConnetion, Take
    <3> QED BY <1>2, <3>1, <3>2, <3>3, StaysConnected DEF RegisterConnection, Take
  <2> QED BY <1>0, <1>2, <2>1 DEF RegisterConnection, Take, LoopInv
<1>3. ASSUME NEW fd \in Fds, UnregisterConnetion(fd) PROVE LoopInv'
  <2>1. \A m \in sendingQueue' : Connected(m.sender)' /\ userFd'[m.sender] \notin batch'
    <3> SUFFICES ASSUME NEW m \in sendingQueue PROVE Connected(m.sender)' /\ userFd'[m.sender] \notin batch'
        BY <1>3 DEF UnregisterConnetion
    <3>1. Connected(m.sender) /\ userFd[m.sender] \notin batch
        BY <1>0 DEF LoopInv
    <3>2. userFd[m.sender] # fd
        BY <1>3, <3>1 DEF UnregisterConnetion, Take
    <3> QED BY <1>0, <1>3, <3>1, <3>2 DEF UnregisterConnetion, Connected, Take, TypeOK
  <2> QED BY <1>0, <1>3, <2>1 DEF UnregisterConnetion, Take, LoopInv
<1>4. ASSUME NEW fd \in Fds, HandleLine(fd) PROVE LoopInv'
  <2>1. Take(fd) /\ UNCHANGED connVars
      BY <1>4, LineEffect
  <2>2. Connected(Sender(fd)) /\ userFd[Sender(fd)] = fd
      BY <2>1, SenderConnected DEF Take
  <2>3. \A m \in sendingQueue' : Connected(m.sender)' /\ userFd'[m.sender] \notin batch'
    <3> SUFFICES ASSUME NEW m \in sendingQueue' PROVE Connected(m.sender)' /\ userFd'[m.sender] \notin batch'
        OBVIOUS
    <3>1. CASE m \in sendingQueue
        BY <1>0, <2>1, <3>1 DEF LoopInv, Connected, connVars, Take
    <3>2. CASE m.sender = Sender(fd)
        BY <2>1, <2>2, <3>2 DEF Connected, connVars, Take
    <3> QED BY <1>4, <3>1, <3>2, LineEffect
  <2> QED BY <1>0, <2>1, <2>3 DEF LoopInv, Take, connVars
<1>5. CASE AcceptFails \/ BrokenPipe
    BY <1>0, <1>5 DEF AcceptFails, BrokenPipe, LoopInv, Connected, connVars
<1>6. CASE SendMessages
    BY <1>0, <1>6 DEF SendMessages, LoopInv, connVars
<1>7. CASE UNCHANGED vars
    BY <1>0, <1>7 DEF vars, LoopInv, Connected, connVars
<1> QED BY <1>1, <1>2, <1>3, <1>4, <1>5, <1>6, <1>7 DEF Next

(* A connected user keeps its name in nickMap: a rename takes a name that  *)
(* is not entered, a hangup removes only the name of the one who left.     *)
LEMMA NickStep == Inv /\ [Next]_vars => NickInv'
<1> DEFINE Own(u) == Connected(u) /\ nick[u] # NoNick => nickMap[nick[u]] = u
           New(u) == u \in Fresh => nick[u] = NoNick
<1> SUFFICES ASSUME Inv, [Next]_vars, NEW u \in Users PROVE Own(u)' /\ New(u)'
    BY DEF NickInv, Fresh
<1>0. TypeOK /\ ConnInv /\ Own(u) /\ New(u)
    BY DEF Inv, NickInv
<1>1. ASSUME UNCHANGED connVars, UNCHANGED nickVars PROVE Own(u)' /\ New(u)'
    BY <1>0, <1>1 DEF nickVars, connVars, Connected, Fresh
<1>2. CASE RegisterConnection
  <2>1. PICK fd \in Fds, v \in Fresh :
            /\ connectionMap' = [connectionMap EXCEPT ![fd] = v]
            /\ userFd' = [userFd EXCEPT ![v] = fd]
      BY <1>2 DEF RegisterConnection
  <2>2. UNCHANGED nickVars
      BY <1>2 DEF RegisterConnection
  <2>3. CASE u = v
      BY <1>0, <2>1, <2>2, <2>3 DEF nickVars, Fresh
  <2>4. CASE u # v
    <3>1. Connected(u)' => Connected(u)
        BY <1>0, <2>1, <2>4 DEF Connected, TypeOK, Fresh
    <3>2. u \in Fresh' => u \in Fresh
        BY <1>0, <2>1, <2>4 DEF TypeOK, Fresh
    <3> QED BY <1>0, <2>2, <3>1, <3>2 DEF nickVars
  <2> QED BY <2>3, <2>4
<1>3. ASSUME NEW fd \in Fds, UnregisterConnetion(fd) PROVE Own(u)' /\ New(u)'
  <2> DEFINE v == connectionMap[fd]
  <2>1. v \in Users /\ Connected(v) /\ userFd[v] = fd
      BY <1>3, SenderConnected DEF UnregisterConnetion, Take, Sender
  <2>2. /\ nickMap' = [nickMap EXCEPT ![nick[v]] = NoUser]
        /\ connectionMap' = [connectionMap EXCEPT ![fd] = NoUser]
        /\ UNCHANGED <<userFd, nick>>
      BY <1>3 DEF UnregisterConnetion
  <2>3. New(u)'
      BY <1>0, <2>2 DEF Fresh
  <2>4. ASSUME Connected(u)', nick'[u] # NoNick PROVE nickMap'[nick'[u]] = u
    <3>1. u # v /\ Connected(u)
        BY <1>0, <2>1, <2>2, <2>4, UserAssumption DEF Connected, TypeOK
    <3>2. nickMap[nick[u]] = u /\ nick[u] \in Names
        BY <1>0, <2>2, <2>4, <3>1 DEF TypeOK
    <3>3. nick[v] # nick[u]
        BY <2>1, <2>2, <2>4, <3>1, <3>2 DEF Inv, NickInv
    <3> QED BY <1>0, <2>2, <3>2, <3>3 DEF TypeOK
  <2> QED BY <2>3, <2>4
<1>4. ASSUME NEW fd \in Fds, HandleLine(fd) PROVE Own(u)' /\ New(u)'
  <2>1. Take(fd) /\ UNCHANGED connVars
      BY <1>4, LineEffect
  <2>2. ASSUME NEW n \in Names, AcceptNick(fd, n) PROVE Own(u)' /\ New(u)'
    <3> DEFINE v == Sender(fd)
    <3>1. v \in Users /\ Connected(v) /\ userFd[v] = fd
        BY <2>1, SenderConnected DEF Take
    <3>2. /\ nickMap[n] = NoUser
          /\ nick' = [nick EXCEPT ![v] = n] /\ nickMap' = [nickMap EXCEPT ![n] = v]
        BY <2>2 DEF AcceptNick
    <3>3. CASE u = v
        BY <1>0, <2>1, <3>1, <3>2, <3>3, FdAssumption DEF TypeOK, connVars, Fresh
    <3>4. CASE u # v
      <4>1. ASSUME Connected(u), nick[u] # NoNick PROVE nickMap'[nick[u]] = u
          BY <1>0, <3>2, <4>1, UserAssumption DEF TypeOK
      <4>2. nick'[u] = nick[u] /\ (Connected(u)' <=> Connected(u)) /\ (u \in Fresh' <=> u \in Fresh)
          BY <1>0, <2>1, <3>2, <3>4 DEF TypeOK, connVars, Connected, Fresh
      <4> QED BY <1>0, <4>1, <4>2
    <3> QED BY <3>3, <3>4
  <2> QED BY <1>1, <1>4, <2>1, <2>2, LineNames
<1>5. CASE EpollWait \/ AcceptFails \/ SendMessages \/ BrokenPipe \/ UNCHANGED vars
    BY <1>1, <1>5 DEF EpollWait, AcceptFails, SendMessages, BrokenPipe, vars
<1> QED BY <1>2, <1>3, <1>4, <1>5 DEF Next

(* Types, agreement of the tables and the loop's discipline, at any time.  *)
THEOREM InvCorrect == Spec => []Inv
<1>1. Inv /\ [Next]_vars => Inv'
    BY TypeStep, ConnStep, LoopStep, NickStep DEF Inv
<1> QED BY <1>1, InitInv, PTL DEF Spec

(* Every variable has its type; PART never takes out a user who is not on  *)
(* the channel.                                                            *)
THEOREM TypeCorrect == Spec => []TypeOK
<1>1. Inv => TypeOK
    BY DEF Inv
<1> QED BY <1>1, InvCorrect, PTL

(* No event of a batch has lost its user: the null pointer that            *)
(* UnregisterConnetion would dereference is out of reach.                  *)
THEOREM NoNullUser == Spec => []EventsHaveUsers
<1>1. Inv => EventsHaveUsers
    BY DEF Inv, TypeOK, ConnInv, LoopInv, EventsHaveUsers
<1> QED BY <1>1, InvCorrect, PTL

(* Nicknames of connected users are distinct, for any number of users,     *)
(* names and renames.                                                      *)
THEOREM UniqueNames == Spec => []NicknamesUnique
<1>1. Inv => NicknamesUnique
    BY DEF Inv, NickInv, NicknamesUnique
<1> QED BY <1>1, InvCorrect, PTL

(* A response is sent while its sender still has its own connection.       *)
THEOREM RepliesHome == Spec => []RepliesGoHome
<1>1. Inv => RepliesGoHome
    BY DEF Inv, LoopInv, RepliesGoHome
<1> QED BY <1>1, InvCorrect, PTL

(* ... and under the nickname it had when it asked.                        *)
THEOREM NamesHold == Spec => NickFixedWhileQueued
<1> DEFINE Fixed == \A m \in sendingQueue : m \in sendingQueue' => nick'[m.sender] = nick[m.sender]
<1>1. ASSUME Inv, [Next]_vars PROVE Fixed
  <2> SUFFICES ASSUME NEW m \in sendingQueue, m \in sendingQueue'
               PROVE  nick'[m.sender] = nick[m.sender]
      OBVIOUS
  <2>1. ASSUME UNCHANGED nick PROVE nick'[m.sender] = nick[m.sender]
      BY <2>1
  <2>2. ASSUME NEW fd \in Fds, HandleLine(fd) PROVE nick'[m.sender] = nick[m.sender]
    <3>1. Take(fd)
        BY <1>1, <2>2, LineEffect
    <3>2. m.sender # Sender(fd) /\ m.sender \in Users
        BY <1>1, <3>1, SenderConnected DEF Take, Inv, LoopInv, TypeOK, Response
    <3>3. ASSUME NEW n \in Names, AcceptNick(fd, n) PROVE nick'[m.sender] = nick[m.sender]
        BY <1>1, <3>2, <3>3 DEF AcceptNick, Inv, TypeOK
    <3> QED BY <1>1, <2>1, <2>2, <3>3, LineNames DEF nickVars
  <2>3. ASSUME NEW fd \in Fds, UnregisterConnetion(fd) PROVE UNCHANGED nick
      BY <2>3 DEF UnregisterConnetion
  <2>4. CASE EpollWait \/ RegisterConnection \/ AcceptFails \/ SendMessages \/ BrokenPipe
             \/ UNCHANGED vars
      BY <2>1, <2>4 DEF EpollWait, RegisterConnection, AcceptFails, SendMessages, BrokenPipe,
         vars, nickVars
  <2> QED BY <1>1, <2>1, <2>2, <2>3, <2>4 DEF Next
<1>2. Inv /\ [Next]_vars => [Fixed]_vars
    BY <1>1
<1> QED BY <1>2, InvCorrect, PTL DEF Spec, NickFixedWhileQueued
=============================================================================
