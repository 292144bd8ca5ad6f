--------------------------- MODULE MCActionAudit ---------------------------
(* Two actions and two concurrent handlers; one handler at a time for the  *)
(* question of what recovery finishes after a crash.                       *)
EXTENDS ActionAudit, TLC

CONSTANTS night, webHost, h1, h2

MCActions == {night, webHost}
MCRuns == {h1, h2}
MCOneRun == {h1}
Symmetry == Permutations(MCActions) \cup Permutations(MCRuns)
=============================================================================
