-------------------------- MODULE MCOperatorConfig --------------------------
(* Two processes changing the settings of one or two repositories.         *)
EXTENDS OperatorConfig, TLC

CONSTANTS p1, p2, h1, h2, h3, r1, r2, k1

OneProc == {p1}
TwoProcs == {p1, p2}
OneHost == {h1}
TwoHosts == {h1, h2}
ThreeHosts == {h1, h2, h3}
OneRepo == {r1}
TwoRepos == {r1, r2}
OneGrant == {k1}
OneBatch == {<<h1>>}
PairBatch == {<<h1, h2>>}
TripleBatch == {<<h1, h2, h3>>}
Symmetry == Permutations(Procs) \cup Permutations(Repos)
=============================================================================
