-------------------------------- MODULE TinyDns --------------------------------
(***************************************************************************)
(* The DNS server of hw2_dns_server (tiny_dns.cpp). One loop takes a       *)
(* datagram, answers it from its zone files or asks a fallback server, and *)
(* waits for that server's answer before it takes the next one. Each       *)
(* forward has a socket of its own, and none is ever closed.               *)
(*                                                                         *)
(* A name is the sequence of its labels. Modelled by what they do: the     *)
(* parsing and serialising of messages (names and records come out as they *)
(* went in) and of zone files. Not modelled: datagrams that are no DNS     *)
(* message; the server's own sendto to a client failing.                   *)
(***************************************************************************)
EXTENDS Integers, SequencesExt

CONSTANTS
    DnsClients, NoClient,
    Queries, NoQuery,     \* Queries[c]: messages that c may send
    ZoneFiles,            \* zone name -> its lines [name, type, data], each of
                          \* a RecordType: lines of other types are skipped
    Numbers,              \* labels of one to three digits
    MaxSockets,           \* descriptors there are for fallback sockets
    MaxCopies             \* bound: copies of one answer the network delivers

RecordTypes == {"A", "NS", "CNAME", "SOA", "MX", "TXT", "AAAA"}

(* A query has a question and as many additional records as its header     *)
(* says, and a zone file has an SOA line.                                  *)
ASSUME DnsAssumption ==
    /\ NoClient \notin DnsClients /\ DOMAIN Queries = DnsClients
    /\ \A c \in DnsClients :
          /\ NoQuery \notin Queries[c]
          /\ \A q \in Queries[c] :
                /\ q.questions \in Nat \ {0}
                /\ \A section \in {q.answers, q.authorities} :
                      /\ Len(section) \in Nat
                      /\ section \in Seq({section[i] : i \in 1..Len(section)})
                /\ q.additional \in Seq({q.additional[i] : i \in 1..q.addition_count})
                /\ q.addition_count = Len(q.additional)
    /\ MaxSockets \in Nat /\ MaxCopies \in Nat
    /\ \A z \in DOMAIN ZoneFiles :
          /\ Len(z) = 2 /\ Len(ZoneFiles[z]) \in Nat
          /\ \A i \in 1..Len(ZoneFiles[z]) : ZoneFiles[z][i].type \in RecordTypes
          /\ \E i \in 1..Len(ZoneFiles[z]) : ZoneFiles[z][i].type = "SOA"

VARIABLES
    query,        \* query[c]: what c has sent, or NoQuery
    reply,        \* reply[c]: the replies c has got, in order
    inbox,        \* clients whose datagrams wait at serverFd
    asker,        \* the client main waits in recvfrom for, or NoClient
    socks,        \* socks[i]: the query sent on the i-th fallback socket
    pending,      \* sockets whose query is on its way or being answered
    arrived,      \* arrived[i]: copies of the answer queued at socket i
    failed        \* clients whose forward found no socket or was not sent

dnsVars == <<query, reply, inbox, asker, socks, pending, arrived, failed>>

(* What a loop that tests each entry pushes back for one.                  *)
PushIf(holds, record) == IF holds THEN <<record>> ELSE <<>>

(* ParseZoneFile: each zone's records by their type, in the file's order.  *)
(* Names are relative to the zone, "@" is the zone itself.                 *)
RecordOf(z, l) ==
    [rName |-> IF l.name = "@" THEN z ELSE <<l.name>> \o z,
     rType |-> l.type, rData |-> l.data]
zoneRecords ==
    [z \in DOMAIN ZoneFiles |-> [type \in RecordTypes |->
        FlattenSeq([i \in 1..Len(ZoneFiles[z]) |->
            PushIf(ZoneFiles[z][i].type = type, RecordOf(z, ZoneFiles[z][i]))])]]

(* The zone a name is looked up in is named by its last two labels.        *)
Zone(q) == SubSeq(q.name, Len(q.name) - 1, Len(q.name))

(* What HandleRequest does not answer itself: several questions, names of  *)
(* fewer than two labels, and names in no zone.                            *)
Forwarded(q) ==
    q.questions <= 1 /\ Len(q.name) >= 2 =>
        Len(q.name) # 7 /\ Zone(q) \notin DOMAIN ZoneFiles

(* A response is a copy of the query, with what is found behind what the   *)
(* query has in each section; two of its counts start from zero.           *)
Message(q, an, ns, ar) ==
    [of |-> q, answers |-> q.answers \o an, authorities |-> q.authorities \o ns,
     additional |-> q.additional \o ar,
     counts |-> <<Len(an), Len(ns), q.addition_count + Len(ar)>>]

(* A name of exactly seven labels is an address in whatever domain.        *)
NipResponse(q) ==
    Message(q, <<[rName |-> q.name, rType |-> "A", rData |-> SubSeq(q.name, 1, 4)]>>,
            <<>>, <<>>)

(* The records of a name in a list of records.                             *)
Named(name, records) ==
    FlattenSeq([i \in 1..Len(records) |-> PushIf(records[i].rName = name, records[i])])

(* Mutant: any record of the type in the zone.                             *)
FoundAnyName(q) == zoneRecords[Zone(q)][q.type]

(* The records that answer a question; there are none of other types.      *)
Found(q) ==
    IF q.type \in RecordTypes THEN Named(q.name, zoneRecords[Zone(q)][q.type]) ELSE <<>>

(* The addresses that the zone has for the names in the answers.           *)
Addresses(q) ==
    IF q.type \in {"CNAME", "NS", "MX"}
    THEN FlattenSeq([i \in 1..Len(Found(q)) |->
                        Named(Found(q)[i].rData, zoneRecords[Zone(q)]["A"])])
    ELSE <<>>

(* No answer: the SOA record. An answer: the name servers, but not twice.  *)
Authorities(q) ==
    IF q.type = "SOA" THEN <<>>
    ELSE IF Found(q) = <<>> THEN <<Head(zoneRecords[Zone(q)]["SOA"])>>
    ELSE IF q.type = "NS" THEN <<>>
    ELSE zoneRecords[Zone(q)]["NS"]

ZoneResponse(q) == Message(q, Found(q), Authorities(q), Addresses(q))

DnsTypeOK ==
    /\ DOMAIN query = DnsClients
    /\ \A c \in DnsClients : query[c] \in Queries[c] \cup {NoQuery}
    /\ DOMAIN reply = DnsClients /\ \A c \in DnsClients : Len(reply[c]) <= 1
    /\ inbox \in Seq(DnsClients) /\ asker \in DnsClients \cup {NoClient}
    /\ socks \in Seq(UNION {Queries[c] : c \in DnsClients}) /\ Len(socks) <= MaxSockets
    /\ pending \subseteq 1..Len(socks) /\ arrived \in [1..MaxSockets -> 0..MaxCopies]
    /\ failed \subseteq DnsClients

DnsInit ==
    /\ query = [c \in DnsClients |-> NoQuery] /\ reply = [c \in DnsClients |-> <<>>]
    /\ inbox = <<>> /\ asker = NoClient
    /\ socks = <<>> /\ pending = {} /\ arrived = [i \in 1..MaxSockets |-> 0]
    /\ failed = {}

-----------------------------------------------------------------------------
(* A client sends its query.                                               *)
Ask(c, q) ==
    /\ query[c] = NoQuery /\ query' = [query EXCEPT ![c] = q]
    /\ inbox' = Append(inbox, c)
    /\ UNCHANGED <<reply, asker, socks, pending, arrived, failed>>

(* Work's recvfrom: the datagram of c.                                     *)
Work(c) ==
    /\ asker = NoClient /\ inbox # <<>> /\ c = Head(inbox) /\ inbox' = Tail(inbox)
    /\ UNCHANGED query

(* A message with QR set is no request.                                    *)
IgnoreResponse(c) ==
    Work(c) /\ query[c].qr /\ UNCHANGED <<reply, asker, socks, pending, arrived, failed>>

SendResponse(c) ==
    /\ Work(c) /\ ~query[c].qr /\ ~Forwarded(query[c])
    /\ reply' = [reply EXCEPT ![c] = Append(@,
                   IF Len(query[c].name) = 7 THEN NipResponse(query[c])
                                             ELSE ZoneResponse(query[c]))]
    /\ UNCHANGED <<asker, socks, pending, arrived, failed>>

(* Mutant: a query it takes for malformed is dropped.                      *)
QueryFallbackDropsMalformed(c) ==
    /\ Work(c) /\ ~query[c].qr /\ Forwarded(query[c]) /\ Len(socks) < MaxSockets
    /\ IF query[c].questions > 1 \/ Len(query[c].name) < 2
       THEN UNCHANGED <<socks, asker, pending>>
       ELSE /\ socks' = Append(socks, query[c]) /\ asker' = c
            /\ pending' = pending \cup {Len(socks')}
    /\ UNCHANGED <<reply, arrived, failed>>

(* A new socket, the query sent on it, and the recvfrom that blocks.       *)
QueryFallbackNameserver(c) ==
    /\ Work(c) /\ ~query[c].qr /\ Forwarded(query[c]) /\ Len(socks) < MaxSockets
    /\ socks' = Append(socks, query[c]) /\ asker' = c
    /\ pending' = pending \cup {Len(socks')}
    /\ UNCHANGED <<reply, arrived, failed>>

(* sendto failed, the socket stays open and the query is dropped.          *)
SendFails(c) ==
    /\ Work(c) /\ ~query[c].qr /\ Forwarded(query[c]) /\ Len(socks) < MaxSockets
    /\ socks' = Append(socks, query[c]) /\ failed' = failed \cup {c}
    /\ UNCHANGED <<reply, asker, pending, arrived>>

(* Out of descriptors the query is dropped.                                *)
NoSocket(c) ==
    /\ Work(c) /\ ~query[c].qr /\ Forwarded(query[c]) /\ Len(socks) = MaxSockets
    /\ failed' = failed \cup {c} /\ UNCHANGED <<reply, asker, socks, pending, arrived>>

(* Mutant: one socket for all forwards, any answer on it is the one.       *)
RelayShared(c) ==
    /\ c = asker /\ \E i \in 1..Len(socks) :
          /\ arrived[i] > 0 /\ arrived' = [arrived EXCEPT ![i] = @ - 1]
          /\ reply' = [reply EXCEPT ![c] = Append(@, [of |-> socks[i]])]
    /\ asker' = NoClient
    /\ UNCHANGED <<query, inbox, socks, pending, failed>>

(* recvfrom on the newest socket returns, the datagram goes to the asker.  *)
Relay(c) ==
    /\ c = asker /\ arrived[Len(socks)] > 0
    /\ arrived' = [arrived EXCEPT ![Len(socks)] = @ - 1]
    /\ reply' = [reply EXCEPT ![c] = Append(@, [of |-> socks[Len(socks)]])]
    /\ asker' = NoClient
    /\ UNCHANGED <<query, inbox, socks, pending, failed>>

(* The fallback server and the network: an answer comes, perhaps again     *)
(* later, or it or the query is lost.                                      *)
FallbackAnswers(i) ==
    /\ i \in pending /\ \E again \in SUBSET {i} : pending' = (pending \ {i}) \cup again
    /\ arrived[i] < MaxCopies /\ arrived' = [arrived EXCEPT ![i] = @ + 1]
    /\ UNCHANGED <<query, reply, inbox, asker, socks, failed>>
Lose(i) ==
    /\ i \in pending /\ pending' = pending \ {i}
    /\ UNCHANGED <<query, reply, inbox, asker, socks, arrived, failed>>

DnsNext ==
    \/ \E c \in DnsClients :
          \/ \E q \in Queries[c] : Ask(c, q)
          \/ IgnoreResponse(c) \/ SendResponse(c) \/ QueryFallbackNameserver(c)
          \/ SendFails(c) \/ NoSocket(c) \/ Relay(c)
    \/ \E i \in 1..MaxSockets : FallbackAnswers(i) \/ Lose(i)

DnsSpec == DnsInit /\ [][DnsNext]_dnsVars

(* Fairness: the loop takes the next datagram, and the one it waits for    *)
(* once it is there; the fallback server answers a query that it gets.     *)
DnsFairness ==
    /\ WF_inbox(\E c \in DnsClients : Work(c))
    /\ WF_dnsVars(\E c \in DnsClients : Relay(c))
    /\ \A i \in 1..MaxSockets : WF_dnsVars(FallbackAnswers(i))

-----------------------------------------------------------------------------
(* Correctness.                                                            *)

(* What a zone file says of a name, as the sets it should be found as.     *)
Owner(z, l) == IF l.name = "@" THEN z ELSE <<l.name>> \o z
Lines(z, name, type) ==
    {l \in {ZoneFiles[z][i] : i \in 1..Len(ZoneFiles[z])} :
        Owner(z, l) = name /\ l.type = type}
DataOf(records) == {records[i].rData : i \in 1..Len(records)}

(* What the zone file and the query say of the answer to that query.       *)
IsTheZones(m) ==
    LET q == m.of
        z == Zone(q)
        data == {l.data : l \in Lines(z, q.name, q.type)}
    IN  /\ DataOf(m.answers) = DataOf(q.answers) \cup data
        /\ q.type \in {"NS", "CNAME", "MX"} =>
              DataOf(m.additional) =
                 DataOf(q.additional)
                   \cup {l.data : l \in UNION {Lines(z, d, "A") : d \in data}}
        /\ (\E j \in (Len(q.authorities) + 1)..Len(m.authorities) :
               m.authorities[j].rType = "SOA")
              <=> m.answers = q.answers /\ q.type # "SOA"
        /\ q.answers = <<>> /\ q.authorities = <<>> =>
              m.counts = <<Len(m.answers), Len(m.authorities), Len(m.additional)>>

(* Names that are to be resolved to the address they begin with.           *)
IpForm(q) == Len(q.name) >= 6 /\ \A i \in 1..4 : q.name[i] \in Numbers

(* An answer from a zone file is the file's: all records of the name and   *)
(* type and no others, an address with each of them that names something   *)
(* the zone has an address for, an SOA record of authority exactly when    *)
(* there is no answer to a question for something else, and counts in the  *)
(* header that are those of the sections. Records that the query has in    *)
(* its answer and authority sections are sent back with these, uncounted.  *)
(* Names of seven labels are taken for addresses and answered with those.  *)
(* Other names that begin with one are looked up in the zone, although the *)
(* README (line 56) wants the address: nothing is asked of these.          *)
AnswersAreTheZones ==
    \A c \in DnsClients : \A i \in 1..Len(reply[c]) :
        LET q == reply[c][i].of
        IN  ~Forwarded(q) /\ Len(q.name) # 7 /\ ~IpForm(q) => IsTheZones(reply[c][i])

(* A client only gets an answer to its own question, with late and double  *)
(* answers to other clients' questions still coming in.                    *)
RepliesAreTheAskers ==
    \A c \in DnsClients : \A i \in 1..Len(reply[c]) : reply[c][i].of = query[c]

(* Every request is answered, however many wait before it and were         *)
(* forwarded, unless its own forward found no descriptor or was not sent,  *)
(* or the loop is in recvfrom for an answer that the network has lost.     *)
Stuck ==
    asker # NoClient /\ Len(socks) \notin pending /\ arrived[Len(socks)] = 0

AnsweredUnlessLost ==
    \A c \in DnsClients :
        query[c] \in {q \in Queries[c] : ~q.qr} ~>
            reply[c] # <<>> \/ c \in failed \/ Stuck

-----------------------------------------------------------------------------
(* The inductive invariant. A client whose query is not answered has       *)
(* nothing; it waits in the inbox, once, or is the asker, whose query is   *)
(* the one on the newest socket.                                           *)
Waits(c) == \E i \in 1..Len(inbox) : inbox[i] = c

WaitInv ==
    /\ \A c \in DnsClients :
          /\ reply[c] # <<>> => Len(reply[c]) = 1 /\ reply[c][1].of = query[c]
          /\ Waits(c) \/ asker = c => query[c] \in Queries[c] /\ reply[c] = <<>>
          /\ query[c] = NoQuery => reply[c] = <<>>
    /\ ~Waits(asker)
    /\ \A i, j \in 1..Len(inbox) : inbox[i] = inbox[j] => i = j
    /\ asker # NoClient => socks # <<>> /\ socks[Len(socks)] = query[asker]

DnsInv == DnsTypeOK /\ WaitInv

(* No socket carries a query that the zones answer, so what comes back on  *)
(* one is never taken for an answer of theirs.                             *)
ForwardInv == \A i \in 1..Len(socks) : Forwarded(socks[i])
=============================================================================
