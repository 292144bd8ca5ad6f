--------------------------- MODULE MCOperatorAuth ---------------------------
(* Two ceremonies at a time over two credentials: one to be enrolled,      *)
(* answered with, reset or removed while the other is registered.          *)
EXTENDS OperatorAuth, TLC

CONSTANTS id1, id2, p1, p2

MCIds == {id1, id2}
MCProcs == {p1, p2}
Symmetry == Permutations(MCIds) \cup Permutations(MCProcs)
=============================================================================
