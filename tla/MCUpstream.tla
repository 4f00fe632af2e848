----------------------------- MODULE MCUpstream -----------------------------
(* A small instance of Upstream: one upstream with a timed thread slot. *)
EXTENDS Upstream

HubSlot == {[name |-> "hub.1", node |-> "hub", thread |-> TRUE]}
OwnNames == [c \in Clients |-> c]
=============================================================================
