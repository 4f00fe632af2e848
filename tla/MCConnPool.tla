----------------------------- MODULE MCConnPool -----------------------------
(* Small instances of ConnPool. *)
EXTENDS ConnPool, TLC

Thread(n) == [name |-> n, node |-> "hub", thread |-> TRUE]
Plain(n) == [name |-> n, node |-> n, thread |-> FALSE]

ThreadsAndPlain == {Thread("hub.1"), Thread("hub.2"), Plain("db")}

Symmetry == Permutations(Conns) \cup Permutations(Timers)
=============================================================================
