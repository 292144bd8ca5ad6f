------------------------- MODULE ActionAuditProofs -------------------------
(* Proofs of the audit journal protocol for any number of actions and      *)
(* concurrent handlers.                                                    *)
EXTENDS ActionAudit, TLAPS

\* Initially there is no journal, no record and no running handler.
LEMMA JournalInvInit == Init => JournalInv
BY DEF Init, JournalInv, TypeOK, OwnProgress, FoundProgress, JournalMeaning,
       IntentBeforeMutation, CompletedWasApplied, TrailNeverLost, JournalState, PCs

\* Every file operation of every handler, and every crash, preserves JournalInv.
LEMMA JournalInvStep == JournalInv /\ [Next]_vars => JournalInv'
<1> SUFFICES ASSUME JournalInv, [Next]_vars PROVE JournalInv'
    OBVIOUS
<1> USE DEF JournalInv, TypeOK, OwnProgress, FoundProgress, JournalMeaning,
            IntentBeforeMutation, CompletedWasApplied, TrailNeverLost,
            JournalState, PCs
<1>1. ASSUME NEW r \in Runs, NEW a \in Actions, Begin(r, a) PROVE JournalInv'
    BY <1>1 DEF Begin, Goto
<1>2. ASSUME NEW r \in Runs, NEW b \in Actions, ScanSkip(r, b) PROVE JournalInv'
    BY <1>2 DEF ScanSkip
<1>3. ASSUME NEW r \in Runs, NEW b \in Actions, ScanFind(r, b) PROVE JournalInv'
    BY <1>3 DEF ScanFind, Goto
<1>4. ASSUME NEW r \in Runs, FoundAppend(r) PROVE JournalInv'
    BY <1>4 DEF FoundAppend, Goto, Return
<1>5. ASSUME NEW r \in Runs, FoundRemove(r) PROVE JournalInv'
    BY <1>5 DEF FoundRemove, Goto
<1>6. ASSUME NEW r \in Runs, LoadOwn(r) PROVE JournalInv'
    BY <1>6 DEF LoadOwn, Goto
<1>7. ASSUME NEW r \in Runs, OwnAppend(r) PROVE JournalInv'
    BY <1>7 DEF OwnAppend, Goto, Return
<1>8. ASSUME NEW r \in Runs, OwnRemove(r) PROVE JournalInv'
    BY <1>8 DEF OwnRemove, Return
<1>9. ASSUME NEW r \in Runs, Request(r) PROVE JournalInv'
    BY <1>9 DEF Request, Goto, Return
<1>10. ASSUME NEW r \in Runs, Create(r) PROVE JournalInv'
    BY <1>10 DEF Create, Goto, Return
<1>11. ASSUME NEW r \in Runs, Mutate(r) PROVE JournalInv'
    BY <1>11 DEF Mutate, Goto, Return
<1>12. ASSUME NEW r \in Runs, CompleteLoad(r) PROVE JournalInv'
    BY <1>12 DEF CompleteLoad, Goto, Return
<1>13. ASSUME NEW r \in Runs, Mark(r) PROVE JournalInv'
    BY <1>13 DEF Mark, Goto, Return
<1>14. ASSUME NEW r \in Runs, Append(r) PROVE JournalInv'
    BY <1>14 DEF Append, Goto, Return
<1>15. ASSUME NEW r \in Runs, Remove(r) PROVE JournalInv'
    BY <1>15 DEF Remove, Return
<1>16. ASSUME NEW r \in Runs, Crash(r) PROVE JournalInv'
    BY <1>16 DEF Crash, Return
<1>17. CASE UNCHANGED vars
    BY <1>17 DEF vars
<1> QED
    BY ZenonT(60), <1>1, <1>2, <1>3, <1>4, <1>5, <1>6, <1>7, <1>8, <1>9, <1>10, <1>11,
       <1>12, <1>13, <1>14, <1>15, <1>16, <1>17 DEF Next, Step

\* The journal protocol keeps its inductive invariant, whatever the number of
\* actions and handlers and wherever processes die.
THEOREM JournalInvAlways == Spec => []JournalInv
BY JournalInvInit, JournalInvStep, PTL DEF Spec

\* No mutation takes effect without its "requested" record.
THEOREM IntentAlwaysBeforeMutation == Spec => []IntentBeforeMutation
<1>1. JournalInv => IntentBeforeMutation
    BY DEF JournalInv
<1> QED
    BY <1>1, JournalInvAlways, PTL

\* The audit log never claims the completion of a mutation that did not happen.
THEOREM CompletedAlwaysApplied == Spec => []CompletedWasApplied
<1>1. JournalInv => CompletedWasApplied
    BY DEF JournalInv
<1> QED
    BY <1>1, JournalInvAlways, PTL

\* An applied action has its "completed" record or still has its journal.
THEOREM TrailAlwaysKept == Spec => []TrailNeverLost
<1>1. JournalInv => TrailNeverLost
    BY DEF JournalInv
<1> QED
    BY <1>1, JournalInvAlways, PTL
=============================================================================
