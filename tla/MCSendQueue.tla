---------------------------- MODULE MCSendQueue ----------------------------
(* Small instances of SendQueue: clients with names of their own. *)
EXTENDS SendQueue, TLC

OwnNames == [c \in Clients |-> c]

ClientSymmetry == Permutations(Clients)
=============================================================================
