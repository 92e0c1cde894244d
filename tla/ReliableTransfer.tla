--------------------------- MODULE ReliableTransfer ---------------------------
(***************************************************************************)
(* What the lab 8 transfer promises, without network or protocol: a sender *)
(* with a set of pieces, a receiver that comes to have them all and then   *)
(* saves them, and a sender that knows of some of the pieces the receiver  *)
(* has. The sender may leave as soon as it knows of all of them, or once   *)
(* it is told that they are saved.                                         *)
(***************************************************************************)
CONSTANT Pieces

VARIABLES
    have,       \* pieces the receiver has
    known,      \* pieces the sender knows the receiver to have
    saved,      \* the receiver wrote them out
    left        \* the sender is gone

vars == <<have, known, saved, left>>

Init == have = {} /\ known = {} /\ saved = FALSE /\ left = FALSE

Receive ==
    /\ \E p \in Pieces \ have : have' = have \cup {p}
    /\ UNCHANGED <<known, saved, left>>

(* The sender learns of some pieces, and leaves if these were the last.    *)
Learn ==
    /\ ~left
    /\ \E S \in SUBSET have : known' = known \cup S
    /\ left' = (known' = Pieces)
    /\ UNCHANGED <<have, saved>>

Save ==
    /\ have = Pieces /\ ~saved
    /\ saved' = TRUE
    /\ UNCHANGED <<have, known, left>>

(* The sender is told that everything is saved.                            *)
Leave ==
    /\ saved /\ ~left
    /\ left' = TRUE
    /\ UNCHANGED <<have, known, saved>>

Next == Receive \/ Learn \/ Save \/ Leave

Spec == Init /\ [][Next]_vars

FairSpec == Spec /\ WF_vars(Receive) /\ WF_vars(Save) /\ WF_vars(Leave)
=============================================================================
