-------------------------------- MODULE MCLabs --------------------------------
(***************************************************************************)
(* The small programs of the repository, which share nothing, checked in   *)
(* one run: a behaviour is a behaviour of one of them, and the others stay *)
(* in their initial states.                                                *)
(***************************************************************************)
EXTENDS ChatServer, TinyDns, TrafficSink, Nkat, Sudoku, Unpacker, TLC

VARIABLE program

labVars == <<program, chatVars, sinkVars, nkatVars, dnsVars, sudokuVars, unpackVars>>

Programs == {"chat", "sink", "nkat", "dns", "sudoku", "unpack"}

TypeOK ==
    /\ ChatTypeOK /\ SinkTypeOK /\ NkatTypeOK /\ DnsTypeOK /\ SudokuTypeOK
    /\ UnpackTypeOK

Init ==
    /\ program \in Programs
    /\ ChatInit /\ SinkInit /\ NkatInit /\ DnsInit /\ SudokuInit /\ UnpackInit
    /\ program # "sudoku" => origin_board = CHOOSE b \in Boards : TRUE
    /\ program # "unpack" => file_entries = CHOOSE f \in Archives : TRUE

Next ==
    \/ /\ program = "chat" /\ ChatNext
       /\ UNCHANGED <<program, sinkVars, nkatVars, dnsVars, sudokuVars, unpackVars>>
    \/ /\ program = "sink" /\ SinkNext
       /\ UNCHANGED <<program, chatVars, nkatVars, dnsVars, sudokuVars, unpackVars>>
    \/ /\ program = "nkat" /\ NkatNext
       /\ UNCHANGED <<program, chatVars, sinkVars, dnsVars, sudokuVars, unpackVars>>
    \/ /\ program = "dns" /\ DnsNext
       /\ UNCHANGED <<program, chatVars, sinkVars, nkatVars, sudokuVars, unpackVars>>
    \/ /\ program = "sudoku" /\ SudokuNext
       /\ UNCHANGED <<program, chatVars, sinkVars, nkatVars, dnsVars, unpackVars>>
    \/ /\ program = "unpack" /\ UnpackNext
       /\ UNCHANGED <<program, chatVars, sinkVars, nkatVars, dnsVars, sudokuVars>>

(* The fairness of each program. That of the servers says nothing of one   *)
(* that stays in its initial state, where nothing it names is enabled; the *)
(* solver is only asked to run where it is the program.                    *)
FairSpec ==
    /\ Init /\ [][Next]_labVars
    /\ SinkFairness /\ NkatFairness /\ DnsFairness
    /\ WF_labVars(program = "sudoku" /\ Next)

(* The inductive invariants of the programs, which hold in every behaviour *)
(* of each: beside what is asked of them, who waits where and what lies on *)
(* which descriptor, socket, stack or process at every step between. The   *)
(* solver's also has SearchInv, which quantifies over all boards there are *)
(* and is left to its proof.                                               *)
LabsInv ==
    /\ ChatInv /\ SinkInv /\ NkatInv /\ DnsInv /\ ForwardInv
    /\ StackInv /\ BoardInv /\ UnpackInv

-----------------------------------------------------------------------------
(* Values of the constants.                                                *)
CONSTANTS d1, d2, d3

(* Zones with an alias, a name server of another zone, and a zone whose    *)
(* name server has no record.                                              *)
Line(owner, type, d) == [name |-> owner, type |-> type, data |-> d]
orgA == <<"a", "org">>
orgB == <<"b", "org">>
TwoZones ==
    orgA :> << Line("@", "SOA", <<"dns">> \o orgA), Line("@", "NS", <<"dns">> \o orgA),
               Line("@", "NS", <<"dns">> \o orgB), Line("@", "MX", <<"mail">> \o orgA),
               Line("dns", "A", <<"ip1">>), Line("www", "A", <<"ip2">>),
               Line("mail", "A", <<"ip3">>), Line("w", "CNAME", <<"www">> \o orgA) >>
    @@ orgB :> << Line("@", "SOA", <<"dns">> \o orgB), Line("dns", "A", <<"ip4">>) >>

Opt == <<[rName |-> <<>>, rType |-> "OPT", rData |-> <<>>]>>
Query(name, type, additional) ==
    [name |-> name, type |-> type, questions |-> 1, qr |-> FALSE,
     answers |-> <<>>, authorities |-> <<>>,
     additional |-> additional, addition_count |-> Len(additional)]

(* Every way through HandleRequest for one client, and others beside it    *)
(* whose queries are forwarded.                                            *)
OneAsksAll ==
    d1 :> { Query(<<"www">> \o orgA, "A", Opt), Query(orgA, "NS", Opt),
            Query(orgA, "MX", <<>>), Query(<<"w">> \o orgA, "CNAME", <<>>),
            Query(<<"w">> \o orgA, "A", <<>>), Query(orgB, "SOA", <<>>),
            Query(<<"1", "2", "3", "4", "x">> \o orgB, "A", Opt),
            Query(<<"1", "2", "3", "4">> \o orgB, "A", <<>>),
            [Query(orgB, "A", Opt) EXCEPT !.answers = Opt, !.authorities = Opt],
            Query(<<"c", "com">>, "A", <<>>), Query(<<"com">>, "NS", <<>>),
            [Query(orgA, "A", <<>>) EXCEPT !.questions = 2],
            [Query(orgA, "A", <<>>) EXCEPT !.qr = TRUE] }
    @@ d2 :> {Query(<<"c", "com">>, "A", <<>>)}
    @@ d3 :> {Query(<<"com">>, "NS", <<>>)}

(* Boards of four rows: blank, with several solutions after much           *)
(* backtracking, without a solution although nothing contradicts, and full.*)
Board(s) == [p \in Cells |-> s[p + 1]]
SmallBoards ==
    { Board(<<0,0,0,0, 0,0,0,0, 0,0,0,0, 0,0,0,0>>),
      Board(<<0,1,0,0, 0,0,0,1, 1,4,0,3, 0,2,1,0>>),
      Board(<<0,0,0,0, 0,0,4,1, 0,2,3,4, 0,0,1,2>>),
      Board(<<0,0,0,0, 0,2,3,4, 0,1,4,0, 2,0,0,3>>),
      Board(<<0,0,0,4, 0,0,1,3, 0,2,4,1, 0,4,3,2>>),
      Board(<<0,1,4,0, 0,0,1,0, 0,2,3,4, 1,3,2,0>>),
      Board(<<1,2,3,4, 3,4,1,2, 2,1,4,3, 4,3,2,1>>) }

(* Archives of two files: a first one of up to five bytes with any sum of  *)
(* two bits, and a second one, of the same name or another, that is right, *)
(* wrong, cut off at the end of the archive, not to be created, or of a    *)
(* size whose last offset is no int, or that wraps.                        *)
File(name, size, content, sum) ==
    [name |-> name, filesize |-> size, content |-> content, checksum |-> sum]
SmallArchives ==
    {<<first, second>> :
        first \in {File("f", Len(c), c, s) :
                      c \in UNION {[1..n -> {0, 1}] : n \in 0..5},
                      s \in [1..2 -> {0, 1}]},
        second \in {File("f", 3, <<1, 0, 1>>, <<0, 0>>), File("g", 3, <<1, 0, 1>>, <<1, 0>>),
                    File("g", 4, <<0, 1>>, <<0, 1>>), File("no/g", 1, <<1>>, <<1, 0>>),
                    File("g", 6, <<1, 0>>, <<1, 0>>), File("g", 10, <<1, 0>>, <<1, 0>>)}}
=============================================================================
