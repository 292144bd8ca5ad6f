--------------------------- MODULE OperatorLedger ---------------------------
(***************************************************************************)
(* What the operator's settings promise, without processes, locks, files   *)
(* or journals: every change is applied at once, to the settings all the   *)
(* earlier changes left, and never in part.                                *)
(***************************************************************************)
EXTENDS OperatorOps

VARIABLES
    settings,   \* the operator config
    overlays    \* Repos -> the web hosts of the repository's overlay

Init ==
    /\ settings = emptyOperatorConfig
    /\ overlays = NoOverlay

\* The fresh-install default never overrides a config that exists.
Apply(ch) ==
    /\ ch.kind = "default" => ~settings.present
    /\ settings' = ConfigAfter(settings, ch)
    /\ overlays' = OverlayAfter(overlays, ch)

Next == \E ch \in Changes : Apply(ch)

Spec == Init /\ [][Next]_<<settings, overlays>>
=============================================================================
