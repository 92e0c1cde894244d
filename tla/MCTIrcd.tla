------------------------------- MODULE MCTIrcd -------------------------------
(* Instances of TIrcd for TLC.                                             *)
EXTENDS TIrcd, TLC

TwoFds  == {5, 6}
Symmetry == Permutations(Users) \cup Permutations(Nicks)
=============================================================================
