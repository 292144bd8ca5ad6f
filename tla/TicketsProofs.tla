--------------------------- MODULE TicketsProofs ---------------------------
(* Single use of approval tickets, for any number of tickets, sessions,    *)
(* commands, hooks and claimants.                                          *)
EXTENDS Tickets, TLAPS

LEMMA TicketInit == Init => TypeOK /\ ClaimInv
BY NoTicketAssumption
   DEF Init, TypeOK, ClaimInv, Names, NoName

\* Voiding, pruning, issuing and every step of a claim keep ClaimInv.
LEMMA TicketStep == TypeOK /\ ClaimInv /\ [Next]_vars => TypeOK' /\ ClaimInv'
<1> SUFFICES ASSUME TypeOK, ClaimInv, [Next]_vars PROVE TypeOK' /\ ClaimInv'
    OBVIOUS
<1> USE NoTicketAssumption DEF TypeOK, ClaimInv, hookVars, claimVars
<1>0. /\ \A gone \in SUBSET Names : Removed(gone) \in [Names -> Tickets \cup {"none"}]
      /\ \A gone \in SUBSET Names, n \in Names :
            Removed(gone)[n] = "none" \/ Removed(gone)[n] = file[n]
    BY DEF Removed
<1>00. Present \subseteq Names
    BY DEF Present
<1>1. ASSUME NEW t \in Tickets, Lapse(t) PROVE TypeOK' /\ ClaimInv'
    BY <1>1 DEF Lapse
<1>2. ASSUME NEW s \in Sessions, HookOther(s) PROVE TypeOK' /\ ClaimInv'
    <2>1. /\ file' \in [Names -> Tickets \cup {"none"}]
          /\ \A n \in Names : file'[n] = "none" \/ file'[n] = file[n]
        BY <1>0, <1>00, <1>2 DEF HookOther
    <2> QED BY <1>2, <2>1 DEF HookOther
<1>3. ASSUME NEW k \in Hooks, NEW s \in Sessions, NEW b \in Bindings, HookAsk(k, s, b)
      PROVE  TypeOK' /\ ClaimInv'
    <2>1. /\ file' \in [Names -> Tickets \cup {"none"}]
          /\ \A n \in Names : file'[n] = "none" \/ file'[n] = file[n]
        BY ZenonT(60), <1>0, <1>00, <1>3 DEF HookAsk
    <2>2. <<s, b>> \in Names
        BY DEF Names
    <2> QED BY <1>3, <2>1, <2>2 DEF HookAsk
<1>4. ASSUME NEW k \in Hooks, PruneRead(k) PROVE TypeOK' /\ ClaimInv'
    BY <1>00, <1>4 DEF PruneRead
<1>5. ASSUME NEW k \in Hooks, NEW t \in Tickets, Issue(k, t) PROVE TypeOK' /\ ClaimInv'
    <2>1. /\ file' \in [Names -> Tickets \cup {"none"}]
          /\ file'[ask[k]] = t /\ ask[k] \in Names /\ t \notin issued
          /\ \A n \in Names \ {ask[k]} : file'[n] = "none" \/ file'[n] = file[n]
        BY <1>0, <1>5 DEF Issue
    <2> QED BY <1>5, <2>1 DEF Issue
<1>6. ASSUME NEW k \in Hooks, IssueFails(k) PROVE TypeOK' /\ ClaimInv'
    <2>1. /\ file' \in [Names -> Tickets \cup {"none"}]
          /\ \A n \in Names : file'[n] = "none" \/ file'[n] = file[n]
        BY <1>0, <1>6 DEF IssueFails
    <2> QED BY <1>6, <2>1 DEF IssueFails
<1>7. ASSUME NEW c \in Claimants, NEW b \in Bindings, ClaimList(c, b)
      PROVE  TypeOK' /\ ClaimInv'
    BY <1>00, <1>7 DEF ClaimList
<1>8. ASSUME NEW c \in Claimants, ClaimLock(c) PROVE TypeOK' /\ ClaimInv'
    BY <1>8 DEF ClaimLock
<1>9. ASSUME NEW c \in Claimants, NEW n \in Names, ClaimRead(c, n)
      PROVE  TypeOK' /\ ClaimInv'
    BY <1>9 DEF ClaimRead
<1>10. ASSUME NEW c \in Claimants, ClaimGrant(c) PROVE TypeOK' /\ ClaimInv'
    <2>1. \A e \in Claimants : e # c => content[e] = "none"
        BY <1>10 DEF ClaimGrant
    <2>2. \A n \in Names : file'[n] # content[c]
        BY <1>10 DEF ClaimGrant, Valid
    <2> QED BY <1>10, <2>1, <2>2 DEF ClaimGrant, ClaimOver, Valid
<1>11. ASSUME NEW c \in Claimants, ClaimNext(c) PROVE TypeOK' /\ ClaimInv'
    BY <1>11 DEF ClaimNext
<1>12. ASSUME NEW c \in Claimants, ClaimEnds(c) PROVE TypeOK' /\ ClaimInv'
    BY <1>12 DEF ClaimEnds, ClaimOver
<1>13. CASE UNCHANGED vars
    BY <1>13 DEF vars
<1> QED
    BY ZenonT(60), <1>1, <1>2, <1>3, <1>4, <1>5, <1>6, <1>7, <1>8, <1>9, <1>10, <1>11,
       <1>12, <1>13 DEF Next

\* The directory lock and the file names keep ClaimInv at all times.
THEOREM ClaimInvAlways == Spec => [](TypeOK /\ ClaimInv)
BY TicketInit, TicketStep, PTL DEF Spec

\* No ticket proves an approval twice.
THEOREM TicketsSpentOnce == Spec => SpentOnce
<1>1. TypeOK /\ ClaimInv /\ [Next]_vars =>
        [\A c \in Claimants :
            granted'[c] # "none" /\ granted'[c] # granted[c] => granted'[c] \notin spent]_vars
    <2> SUFFICES ASSUME TypeOK, ClaimInv, Next, NEW c \in Claimants,
                        granted'[c] # "none", granted'[c] # granted[c]
                 PROVE  granted'[c] \notin spent
        OBVIOUS
    <2>1. PICK e \in Claimants : ClaimGrant(e) \/ \E b \in Bindings : ClaimList(e, b)
        BY ZenonT(60) DEF Next, Lapse, HookOther, HookAsk, PruneRead, Issue, IssueFails,
            ClaimLock, ClaimRead, ClaimNext, ClaimEnds
    <2>2. ClaimGrant(e) /\ e = c
        BY <2>1 DEF ClaimGrant, ClaimList, TypeOK
    <2> QED
        BY <2>2 DEF ClaimGrant, TypeOK, ClaimInv
<1> QED
    BY <1>1, ClaimInvAlways, PTL DEF Spec, SpentOnce
=============================================================================
