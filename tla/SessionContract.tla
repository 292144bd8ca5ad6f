-------------------------- MODULE SessionContract --------------------------
(***************************************************************************)
(* What the session store promises its callers (the doc comments of        *)
(* Transaction and ErrTransactionCommitted, internal/session/session.go):  *)
(* a transaction applies its update to the latest state as a whole or not  *)
(* at all, the caller is told which, and only state that nobody updated    *)
(* for a day is forgotten.                                                 *)
(***************************************************************************)
CONSTANTS Threads, Sessions

VARIABLES
    state,      \* Sessions -> the updates the session's state contains
    stale,      \* the sessions whose state is a day old
    done,       \* the threads whose update was applied
    outcome     \* Threads -> what Transaction returned to the caller

vars == <<state, stale, done, outcome>>

\* "open": not returned yet.  "committed" is ErrTransactionCommitted.
Outcomes == {"open", "ok", "committed", "failed"}

\* State that an earlier release left behind counts as one update.
Init ==
    /\ state \in [Sessions -> {{}, {"legacy"}}]
    /\ stale = {}
    /\ done = {}
    /\ outcome = [t \in Threads |-> "open"]

\* The update of t joins the state it was computed from, all of it.
Commit(t, s) ==
    /\ outcome[t] = "open" /\ t \notin done
    /\ state' = [state EXCEPT ![s] = @ \cup {t}]
    /\ stale' = stale \ {s}
    /\ done' = done \cup {t}
    /\ UNCHANGED outcome

\* The caller learns whether its update was applied.
Return(t, r) ==
    /\ outcome[t] = "open"
    /\ r \in (IF t \in done THEN {"ok", "committed"} ELSE {"failed"})
    /\ outcome' = [outcome EXCEPT ![t] = r]
    /\ UNCHANGED <<state, stale, done>>

GrowOld(s) ==
    /\ stale' = stale \cup {s}
    /\ UNCHANGED <<state, done, outcome>>

\* Removing a day-old file is best effort, so some of it may survive.
Forget ==
    /\ state' \in [Sessions -> SUBSET UNION {state[s] : s \in Sessions}]
    /\ \A s \in Sessions :
           IF s \in stale THEN state'[s] \subseteq state[s] ELSE state'[s] = state[s]
    /\ stale' \subseteq stale
    /\ UNCHANGED <<done, outcome>>

Next ==
    \/ \E t \in Threads, s \in Sessions : Commit(t, s)
    \/ \E t \in Threads, r \in Outcomes : Return(t, r)
    \/ \E s \in Sessions : GrowOld(s)
    \/ Forget

Spec == Init /\ [][Next]_vars
=============================================================================
