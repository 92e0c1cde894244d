------------------------- MODULE RobustUdpRefinement -------------------------
(***************************************************************************)
(* With one client, RobustUdp implements ReliableTransfer. The receiver    *)
(* has a piece once the server's main holds it, in memory or in the files; *)
(* the sender knows of a piece once the client erased it from data_map.    *)
(***************************************************************************)
EXTENDS RobustUdp

Sender == CHOOSE c \in Clients : TRUE

Transfer == INSTANCE ReliableTransfer WITH
    Pieces <- Keys(Sender),
    have   <- {k \in Keys(Sender) : Held(k)},
    known  <- Keys(Sender) \ dataMap[Sender],
    saved  <- files # NoFiles,
    left   <- cpc[Sender] = "exit"

(* Every step of the program is a step of the abstract transfer or changes *)
(* nothing it can see.                                                     *)
ImplementsTransfer == Transfer!Spec

(* ... and under the program's fairness the abstract transfer's promise to *)
(* receive, to save and to let the sender go is kept.                      *)
ImplementsFairTransfer == Transfer!FairSpec
=============================================================================
