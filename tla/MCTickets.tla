----------------------------- MODULE MCTickets -----------------------------
(* Two sessions, two commands and two claimants around one hook.           *)
EXTENDS Tickets, TLC

CONSTANTS t1, t2, s1, s2, b1, b2, k1, c1, c2

TwoTickets == {t1, t2}
TwoSessions == {s1, s2}
TwoBindings == {b1, b2}
OneHook == {k1}
TwoClaimants == {c1, c2}
Symmetry == Permutations(Tickets) \cup Permutations(Sessions)
              \cup Permutations(Bindings) \cup Permutations(Claimants)
=============================================================================
