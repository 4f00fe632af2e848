--------------------------- MODULE MCSessionStore ---------------------------
(* Two sessions, keys that carry into the next second, a clock that moves  *)
(* both ways.                                                              *)
EXTENDS SessionStore

SmallLows == {0, 1, 6}
SmallTimes == 2 .. 4
SmallAges == {1, 2}
=============================================================================
