-------------------------- MODULE MCApprovalBroker --------------------------
(* Small instances of the approval broker: one daemon slot with two        *)
(* requests, and two daemon slots competing over one request.              *)
EXTENDS ApprovalBroker, TLC

CONSTANTS r1, r2, d1, d2, h1, h2

TwoRequests == {r1, r2}
OneRequest == {r1}
NoPlain == {}
OnePlain == {r2}
OneDaemon == {d1}
TwoDaemons == {d1, d2}
TwoHandlers == {h1, h2}
OneHandler == {h1}
Symmetry == Permutations(Daemons) \cup Permutations(Handlers)
=============================================================================
