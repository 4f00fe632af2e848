------------------------------ MODULE MCScript ------------------------------
(* Two nodes that call f, one that calls g, and one that calls back. *)
EXTENDS Script

CONSTANTS f1, f2, g1, cb, F, G, None
MCCalls == {f1, f2, g1, cb}
MCFuncOf == f1 :> F @@ f2 :> F @@ g1 :> G @@ cb :> None
MCPackets == <<2, 1, 2>>
=============================================================================
