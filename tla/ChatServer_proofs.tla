--------------------------- MODULE ChatServer_proofs ---------------------------
(* Proofs about the chat server, for any users, numbers and names.         *)
EXTENDS ChatServer, FiniteSetTheorems, TLAPS

(* The open connections are finitely many.                                 *)
LEMMA OpenFinite == IsFiniteSet(Open)
BY ChatAssumption, FS_Subset DEF Open

(* Entries are of numbers and names.                                       *)
LEMMA EntryTyped ==
    ASSUME ChatTypeOK, NEW f \in ChatFds, NEW n \in UserNames
    PROVE  /\ DOMAIN Entry(f, n) \subseteq ChatFds
           /\ \A g \in DOMAIN Entry(f, n) : Entry(f, n)[g] \in UserNames
BY DEF Entry, ChatTypeOK

(* The inductive invariant holds initially.                                *)
LEMMA InitInv == ChatInit => ChatInv
<1> SUFFICES ASSUME ChatInit PROVE ChatInv
  OBVIOUS
<1> DEFINE n0 == CHOOSE n \in UserNames : TRUE
<1>1. n0 \in UserNames
  BY ChatAssumption
<1>2. Open = {}
  BY DEF Open, ChatInit
<1>3. ChatTypeOK
  BY <1>1, ChatAssumption DEF ChatTypeOK, ChatInit
<1>4. FdsInv
  BY <1>2 DEF FdsInv, ChatInit
<1>5. CountIsOpen
  BY <1>2, FS_EmptySet DEF CountIsOpen, ChatInit
<1>6. NamesAreTold /\ events \subseteq OpenFds \cup {listenfd}
  BY <1>2 DEF NamesAreTold, ChatInit
<1> QED
  BY <1>3, <1>4, <1>5, <1>6 DEF ChatInv

(* Users come one at a time, on a number nobody has.                       *)
LEMMA AcceptStep ==
    ASSUME ChatInv, NEW u \in Users, NEW f \in ChatFds, NEW n \in UserNames,
           AcceptUser(u, f, n)
    PROVE  ChatInv'
<1> USE DEF ChatInv
<1>1. connfd[u] = NoFd /\ f # NoFd /\ f \notin OpenFds /\ f # listenfd
  BY ChatAssumption DEF AcceptUser, FdsInv
<1>2. /\ connfd' \in [Users -> ChatFds \cup {NoFd}]
      /\ connfd'[u] = f /\ \A v \in Users \ {u} : connfd'[v] = connfd[v]
  BY DEF AcceptUser, ChatTypeOK
<1>3. Open' = Open \cup {u} /\ u \notin Open
  BY <1>1, <1>2 DEF Open
<1>4. ChatTypeOK'
  <2>1. /\ DOMAIN connections_map' \subseteq ChatFds
        /\ \A g \in DOMAIN connections_map' : connections_map'[g] \in UserNames
    BY EntryTyped DEF AcceptUser
  <2> QED
    BY <2>1, <1>2 DEF AcceptUser, Event, ChatTypeOK
<1>5. FdsInv'
  <2>1. \A v \in Open : connfd'[v] = connfd[v] /\ connfd[v] # f
    BY <1>1, <1>2, <1>3 DEF Open, OpenFds
  <2>2. \A v, w \in Open' : connfd'[v] = connfd'[w] => v = w
    BY <2>1, <1>2, <1>3 DEF FdsInv
  <2>3. \A v \in coming' : connfd'[v] = NoFd
    BY <1>2 DEF AcceptUser, FdsInv, ChatTypeOK
  <2> QED
    BY <2>2, <2>3, <1>3 DEF AcceptUser, FdsInv
<1>6. CountIsOpen'
  <2>1. Cardinality(Open') = Cardinality(Open) + 1
    BY <1>3, OpenFinite, FS_AddElement
  <2> QED
    BY <2>1 DEF AcceptUser, CountIsOpen
<1>7. NamesAreTold'
  <2>1. /\ DOMAIN connections_map' = DOMAIN connections_map \cup {f}
        /\ connections_map'[f] = n
        /\ \A g \in DOMAIN connections_map \ {f} :
              connections_map'[g] = connections_map[g]
    BY DEF AcceptUser, Entry
  <2>2. told'[u] = n /\ \A v \in Users \ {u} : told'[v] = told[v]
    BY DEF AcceptUser, ChatTypeOK
  <2>3. \A v \in Open : connfd'[v] = connfd[v] /\ connfd[v] # f /\ v \in Users \ {u}
    BY <1>1, <1>2, <1>3 DEF Open, OpenFds
  <2> QED
    BY <2>1, <2>2, <2>3, <1>2, <1>3 DEF NamesAreTold
<1>8. (events \subseteq OpenFds \cup {listenfd})'
  <2>1. \A v \in Open : v \in Open' /\ connfd'[v] = connfd[v]
    BY <1>2, <1>3 DEF Open
  <2>2. OpenFds \subseteq OpenFds'
    BY <2>1 DEF OpenFds
  <2> QED
    BY <2>2 DEF AcceptUser, Event
<1> QED
  BY <1>4, <1>5, <1>6, <1>7, <1>8

(* A connection is closed by its own event: no other event is of its       *)
(* number, which is nobody else's.                                         *)
LEMMA LeaveStep ==
    ASSUME ChatInv, NEW u \in Users, Leave(u)
    PROVE  ChatInv'
<1> USE DEF ChatInv
<1>1. u \in Open
  BY DEF Leave
<1>2. /\ connfd' \in [Users -> ChatFds \cup {NoFd}]
      /\ connfd'[u] = NoFd /\ \A v \in Users \ {u} : connfd'[v] = connfd[v]
  BY DEF Leave, ChatTypeOK
<1>3. Open' = Open \ {u}
  BY <1>2 DEF Open
<1>4. ChatTypeOK'
  BY <1>2 DEF Leave, Event, ChatTypeOK
<1>5. FdsInv'
  <2>1. \A v, w \in Open' : connfd'[v] = connfd'[w] => v = w
    BY <1>2, <1>3 DEF FdsInv, Open
  <2>2. \A v \in coming' : connfd'[v] = NoFd
    BY <1>2 DEF Leave, FdsInv, ChatTypeOK
  <2> QED
    BY <2>1, <2>2, <1>3 DEF Leave, FdsInv
<1>6. CountIsOpen'
  <2>1. Cardinality(Open') = Cardinality(Open) - 1
    BY <1>1, <1>3, OpenFinite, FS_RemoveElement
  <2> QED
    BY <2>1 DEF Leave, CountIsOpen
<1>7. NamesAreTold'
  BY <1>2, <1>3 DEF Leave, NamesAreTold, Open
<1>8. (events \subseteq OpenFds \cup {listenfd})'
  <2>1. \A v \in Open \ {u} : v \in Open' /\ connfd'[v] = connfd[v]
    BY <1>2, <1>3 DEF Open
  <2>2. OpenFds \ {connfd[u]} \subseteq OpenFds'
    BY <2>1 DEF OpenFds
  <2> QED
    BY <2>2 DEF Leave, Event
<1> QED
  BY <1>4, <1>5, <1>6, <1>7, <1>8

(* The new name is entered under a number that is one user's only.         *)
LEMMA RenameStep ==
    ASSUME ChatInv, NEW u \in Users, NEW n \in UserNames, Rename(u, n)
    PROVE  ChatInv'
<1> USE DEF ChatInv
<1>1. u \in Open /\ connfd[u] \in ChatFds
  BY DEF Rename, Open, ChatTypeOK
<1>2. Open' = Open /\ OpenFds' = OpenFds
  BY DEF Rename, Open, OpenFds
<1>3. /\ DOMAIN connections_map' = DOMAIN connections_map \cup {connfd[u]}
      /\ connections_map'[connfd[u]] = n
      /\ \A g \in DOMAIN connections_map \ {connfd[u]} :
            connections_map'[g] = connections_map[g]
  BY DEF Rename, Entry
<1>4. ChatTypeOK'
  BY <1>1, EntryTyped DEF Rename, Event, ChatTypeOK
<1>5. FdsInv' /\ CountIsOpen'
  BY <1>2 DEF Rename, FdsInv, CountIsOpen
<1>6. NamesAreTold'
  <2>1. told'[u] = n /\ \A v \in Users \ {u} : told'[v] = told[v]
    BY DEF Rename, ChatTypeOK
  <2>2. \A v \in Open \ {u} : connfd[v] # connfd[u]
    BY <1>1 DEF FdsInv
  <2>3. connfd' = connfd /\ Open \subseteq Users
    BY DEF Rename, Open
  <2> QED
    BY <2>1, <2>2, <2>3, <1>2, <1>3 DEF NamesAreTold
<1>7. (events \subseteq OpenFds \cup {listenfd})'
  BY <1>2 DEF Rename, Event
<1> QED
  BY <1>4, <1>5, <1>6, <1>7

(* Every step preserves the inductive invariant.                           *)
LEMMA NextInv == ChatInv /\ [ChatNext]_chatVars => ChatInv'
<1> SUFFICES ASSUME ChatInv, [ChatNext]_chatVars PROVE ChatInv'
  OBVIOUS
<1> USE DEF ChatInv
<1>1. ASSUME ChatWait PROVE ChatInv'
  <2>1. Open' = Open /\ OpenFds' = OpenFds
    BY <1>1 DEF ChatWait, Open, OpenFds
  <2>2. events' \subseteq OpenFds \cup {listenfd}
    BY <1>1 DEF ChatWait
  <2>3. OpenFds \subseteq ChatFds
    BY DEF OpenFds, Open, ChatTypeOK
  <2>4. ChatTypeOK'
    BY <1>1, <2>2, <2>3 DEF ChatWait, ChatTypeOK
  <2> QED
    BY <1>1, <2>1, <2>2, <2>4 DEF ChatWait, FdsInv, CountIsOpen, NamesAreTold
<1>2. ASSUME NEW u \in Users, NEW f \in ChatFds, NEW n \in UserNames, AcceptUser(u, f, n)
      PROVE  ChatInv'
  BY <1>2, AcceptStep
<1>3. ASSUME AcceptUserFails PROVE ChatInv'
  <2>1. Open' = Open /\ OpenFds' = OpenFds
    BY <1>3 DEF AcceptUserFails, Open, OpenFds
  <2> QED
    BY <1>3, <2>1
    DEF AcceptUserFails, Event, ChatTypeOK, FdsInv, CountIsOpen, NamesAreTold
<1>4. ASSUME NEW u \in Users, Leave(u) PROVE ChatInv'
  BY <1>4, LeaveStep
<1>5. ASSUME NEW u \in Users, ReadFails(u) PROVE ChatInv'
  <2>1. Open' = Open /\ OpenFds' = OpenFds
    BY <1>5 DEF ReadFails, Open, OpenFds
  <2> QED
    BY <1>5, <2>1
    DEF ReadFails, Event, ChatTypeOK, FdsInv, CountIsOpen, NamesAreTold
<1>6. ASSUME NEW u \in Users, Say(u) PROVE ChatInv'
  <2>1. Open' = Open /\ OpenFds' = OpenFds
    BY <1>6 DEF Say, Open, OpenFds
  <2> QED
    BY <1>6, <2>1 DEF Say, Event, ChatTypeOK, FdsInv, CountIsOpen, NamesAreTold
<1>7. ASSUME NEW u \in Users, NEW n \in UserNames, Rename(u, n) PROVE ChatInv'
  BY <1>7, RenameStep
<1>8. ASSUME UNCHANGED chatVars PROVE ChatInv'
  <2>1. Open' = Open /\ OpenFds' = OpenFds
    BY <1>8 DEF chatVars, Open, OpenFds
  <2> QED
    BY <1>8, <2>1 DEF chatVars, ChatTypeOK, FdsInv, CountIsOpen, NamesAreTold
<1> QED
  BY <1>1, <1>2, <1>3, <1>4, <1>5, <1>6, <1>7, <1>8 DEF ChatNext

(* The inductive invariant holds in every reachable state.                 *)
THEOREM ChatCorrect == ChatSpec => []ChatInv
BY InitInv, NextInv, PTL DEF ChatSpec

(* The count of users is that of the open connections, for any users,      *)
(* however often their connections fail.                                   *)
THEOREM CountCorrect == ChatSpec => []CountIsOpen
<1>1. ChatInv => CountIsOpen
  BY DEF ChatInv
<1> QED
  BY <1>1, ChatCorrect, PTL

(* Everybody appears under the name they were told, for any reuse of       *)
(* descriptor numbers.                                                     *)
THEOREM NamesCorrect == ChatSpec => []NamesAreTold
<1>1. ChatInv => NamesAreTold
  BY DEF ChatInv
<1> QED
  BY <1>1, ChatCorrect, PTL

(* No event of a batch is of a connection that an earlier one closed.      *)
THEOREM EventsCorrect == ChatSpec => []EventsAreOpen
<1>1. ChatInv => EventsAreOpen
  BY DEF ChatInv, EventsAreOpen
<1> QED
  BY <1>1, ChatCorrect, PTL
=============================================================================
