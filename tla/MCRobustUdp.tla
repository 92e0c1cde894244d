---------------------------- MODULE MCRobustUdp ----------------------------
(* Instances of RobustUdp for TLC.                                         *)
EXTENDS RobustUdpRefinement

CONSTANTS c1, c2

(* Two-byte datagrams: 3 bytes are two chunks, the last one partial, 4     *)
(* bytes two full chunks, 5 bytes three chunks.                            *)
Three  == [c \in Clients |-> 3]
Four   == [c \in Clients |-> 4]
Five   == [c \in Clients |-> 5]
(* Two clients with one and two chunks.                                    *)
OneTwo == [c \in Clients |-> IF c = c1 THEN 2 ELSE 3]
=============================================================================
