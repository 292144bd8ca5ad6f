------------------------- MODULE SessionStoreProofs -------------------------
(* Proofs about the session store, for any number of processes, callers    *)
(* and sessions: exclusion at the gate and at the file lock, and that the  *)
(* transactions implement the contract of the store.                       *)
EXTENDS SessionStore, TLAPS

USE DEF files, gates, local, Goto, Fail, Gates, HoldsGate, HoldsLock

InGate == {"gate", "leaveGate"} \cup HoldsGate

\* A caller is a user of the gate it obtained, which stays the registered one
\* of its process as long as it has users; a token in its channel means that
\* nobody of the process is past it.
GateInv ==
    /\ \A t \in Threads, g \in Gates : t \in users[g] <=> gate[t] = g
    /\ \A t \in Threads : pc[t] \in InGate <=> gate[t] # "none"
    /\ \A t \in Threads : gate[t] # "none" => byPath[ProcOf[t]] = gate[t]
    /\ \A p \in Procs : byPath[p] # "none" => ProcOf[byPath[p]] = p
    /\ \A t \in Threads : byPath[ProcOf[t]] \in token => pc[t] \notin HoldsGate
    /\ GateExclusion

\* The file lock is held by the caller between taking and releasing it.
LockInv == \A t \in Threads : pc[t] \in HoldsLock => lock = t

\* What the caller will be told agrees with what became of its update.
Told(t) == IF t \in done THEN result[t] \in {"ok", "committed"} ELSE result[t] = "failed"
Underway == {"start", "gate", "lock", "read", "persist"}
ResultInv ==
    \A t \in Threads :
        /\ pc[t] \notin {"end", "dead"} => outcome[t] = "open"
        /\ pc[t] \in Underway => t \notin done /\ result[t] = "ok"
        /\ pc[t] = "prune" => t \in done
        /\ pc[t] \in {"prune", "unlock", "returnToken", "leaveGate"} => Told(t)

\* Under the lock the loaded state is the latest one, and a v2 file that has a
\* legacy file beside it was migrated from it.
DataInv ==
    /\ \A t \in Threads : pc[t] \notin {"start", "dead"} => sess[t] \in Sessions
    /\ \A t \in Threads : pc[t] = "persist" => seen[t] = Load(sess[t])
    /\ \A s \in Sessions : file[s] # NoFile /\ legacy[s] # NoFile => "legacy" \in file[s]

SessionInv == TypeOK /\ GateInv /\ LockInv /\ ResultInv /\ DataInv

----------------------------------------------------------------------------
(* Types                                                                   *)

\* What Load returns is a set of updates.
LEMMA LoadType ==
  ASSUME TypeOK, NEW s \in Sessions
  PROVE  Load(s) \in SUBSET Updates
BY DEF TypeOK, Load, States, Updates, NoFile

\* The first state has the types.
LEMMA TypeInit == Init => TypeOK
BY DEF Init, TypeOK, States, Updates, PCs, Outcomes

\* A step of a caller keeps the types.
LEMMA TypeCaller ==
  ASSUME TypeOK, GateInv, DataInv, NEW t \in Threads, Step(t)
  PROVE  TypeOK'
<1> USE DEF TypeOK, PCs, Outcomes
<1>0. pc[t] \in InGate => gate[t] \in Gates
  BY DEF GateInv
<1>1. ASSUME NEW s \in Sessions, EnterGate(t, s) PROVE TypeOK'
  <2>1. PICK g \in Threads :
          /\ byPath' = [byPath EXCEPT ![ProcOf[t]] = g]
          /\ token' \in {token, token \cup {g}}
          /\ users' = [users EXCEPT ![g] = @ \cup {t}]
          /\ gate' = [gate EXCEPT ![t] = g]
    BY <1>1, ProcAssumption DEF EnterGate
  <2>2. byPath' \in [Procs -> Gates \cup {"none"}] /\ token' \subseteq Gates
    BY <2>1, ProcAssumption
  <2>3. users' \in [Gates -> SUBSET Threads] /\ gate' \in [Threads -> Gates \cup {"none"}]
    BY <2>1
  <2> QED BY <1>1, <2>2, <2>3 DEF EnterGate
<1>2. CASE TakeToken(t)
  BY <1>2 DEF TakeToken
<1>3. CASE GateTimeout(t)
  BY <1>3 DEF GateTimeout
<1>4. CASE ReturnToken(t)
  BY <1>0, <1>4 DEF ReturnToken, InGate
<1>5. CASE LeaveGate(t)
  BY <1>0, <1>5, ProcAssumption DEF LeaveGate, InGate
<1>6. CASE TakeLock(t)
  BY <1>6 DEF TakeLock
<1>7. CASE LockTimeout(t)
  BY <1>7 DEF LockTimeout
<1>8. CASE ReadState(t)
  <2>1. sess[t] \in Sessions
    BY <1>8 DEF ReadState, DataInv
  <2> QED BY <1>8, <2>1, LoadType DEF ReadState
<1>9. CASE ReadFails(t)
  BY <1>9 DEF ReadFails
<1>10. CASE Persist(t)
  <2>1. seen[t] \cup {t} \in States
    BY DEF States, Updates
  <2> QED BY <1>10, <2>1 DEF Persist
<1>11. CASE PersistFails(t)
  BY <1>11 DEF PersistFails
<1>12. ASSUME NEW gone \in SUBSET Sessions, NEW goneLegacy \in SUBSET Sessions,
              Prune(t, gone, goneLegacy)
       PROVE  TypeOK'
  BY <1>12 DEF Prune, States
<1>13. CASE Unlock(t)
  BY <1>13 DEF Unlock
<1>14. CASE UnlockFails(t)
  BY <1>14 DEF UnlockFails
<1> QED
  BY <1>1, <1>2, <1>3, <1>4, <1>5, <1>6, <1>7, <1>8, <1>9, <1>10, <1>11, <1>12, <1>13, <1>14 DEF Step

\* The end of a process and the passing of a day keep them too.
LEMMA TypeEnvironment ==
  ASSUME TypeOK
  PROVE  /\ \A p \in Procs : Die(p) => TypeOK'
         /\ \A s \in Sessions : Age(s) => TypeOK'
<1> USE DEF TypeOK, PCs, Outcomes
<1>1. ASSUME NEW p \in Procs, Die(p) PROVE TypeOK'
  BY <1>1 DEF Die
<1>2. ASSUME NEW s \in Sessions, Age(s) PROVE TypeOK'
  BY <1>2 DEF Age
<1> QED BY <1>1, <1>2

----------------------------------------------------------------------------
(* The gate                                                                *)

\* A step that touches no gate and neither enters nor leaves one.
LEMMA GateUntouched ==
  ASSUME TypeOK, GateInv, NEW t \in Threads, NEW label \in PCs,
         UNCHANGED gates, Goto(t, label),
         pc[t] \in InGate /\ label \in InGate,
         label \in HoldsGate => pc[t] \in HoldsGate
  PROVE  GateInv'
BY DEF TypeOK, GateInv, GateExclusion, InGate

\* A caller that enters finds the registered gate or registers its own.
LEMMA EnterKeeps ==
  ASSUME TypeOK, GateInv, NEW t \in Threads, NEW s \in Sessions, EnterGate(t, s)
  PROVE  GateInv'
<1> USE DEF TypeOK, InGate
<1>0. ProcOf[t] \in Procs /\ \A u \in Threads : ProcOf[u] \in Procs
  BY ProcAssumption
<1>1. PICK g \in Threads :
        /\ g = IF byPath[ProcOf[t]] = "none" THEN t ELSE byPath[ProcOf[t]]
        /\ byPath' = [byPath EXCEPT ![ProcOf[t]] = g]
        /\ token' = IF byPath[ProcOf[t]] = "none" THEN token \cup {g} ELSE token
        /\ users' = [users EXCEPT ![g] = @ \cup {t}]
        /\ gate' = [gate EXCEPT ![t] = g]
  BY <1>0 DEF EnterGate
<1>2. pc[t] = "start" /\ pc' = [pc EXCEPT ![t] = "gate"] /\ gate[t] = "none"
  BY DEF EnterGate, GateInv
<1>3. \A u \in Threads, h \in Gates : u \in users'[h] <=> gate'[u] = h
  BY <1>1, <1>2, NameAssumption DEF GateInv
<1>4. \A u \in Threads : pc'[u] \in InGate <=> gate'[u] # "none"
  BY <1>1, <1>2, NameAssumption DEF GateInv
<1>5. \A u \in Threads : gate'[u] # "none" => byPath'[ProcOf[u]] = gate'[u]
  BY <1>0, <1>1, <1>2 DEF GateInv
<1>6. \A p \in Procs : byPath'[p] # "none" => ProcOf[byPath'[p]] = p
  BY <1>0, <1>1 DEF GateInv
<1>7. ASSUME NEW u \in Threads, byPath'[ProcOf[u]] \in token' PROVE pc'[u] \notin HoldsGate
  <2>1. CASE ProcOf[u] = ProcOf[t]
    <3>1. CASE byPath[ProcOf[t]] = "none"
      BY <1>2, <2>1, <3>1 DEF GateInv
    <3>2. CASE byPath[ProcOf[t]] # "none"
      BY <1>0, <1>1, <1>2, <1>7, <2>1, <3>2 DEF GateInv
    <3> QED BY <3>1, <3>2
  <2>2. CASE ProcOf[u] # ProcOf[t]
    <3>1. byPath'[ProcOf[u]] = byPath[ProcOf[u]] /\ byPath[ProcOf[u]] \in Threads
      BY <1>0, <1>1, <1>7, <2>2, NameAssumption
    <3>2. byPath[ProcOf[u]] # t
      BY <1>0, <2>2, <3>1, NameAssumption DEF GateInv
    <3> QED BY <1>1, <1>2, <1>7, <2>2, <3>1, <3>2 DEF GateInv
  <2> QED BY <2>1, <2>2
<1>8. GateExclusion'
  BY <1>2 DEF GateInv, GateExclusion
<1> QED BY <1>3, <1>4, <1>5, <1>6, <1>7, <1>8 DEF GateInv

\* The token passes from the channel to a caller and back.
LEMMA TokenKeeps ==
  ASSUME TypeOK, GateInv, NEW t \in Threads, TakeToken(t) \/ ReturnToken(t)
  PROVE  GateInv'
<1> USE DEF TypeOK, InGate
<1>0. /\ pc[t] \in InGate /\ pc' = [pc EXCEPT ![t] = IF pc[t] = "gate" THEN "lock" ELSE "leaveGate"]
      /\ gate[t] = byPath[ProcOf[t]] /\ gate[t] \in Threads
      /\ UNCHANGED <<byPath, users, gate>>
  BY DEF TakeToken, ReturnToken, GateInv
<1>1. /\ \A u \in Threads, h \in Gates : u \in users'[h] <=> gate'[u] = h
      /\ \A u \in Threads : pc'[u] \in InGate <=> gate'[u] # "none"
      /\ \A u \in Threads : gate'[u] # "none" => byPath'[ProcOf[u]] = gate'[u]
      /\ \A p \in Procs : byPath'[p] # "none" => ProcOf[byPath'[p]] = p
  BY <1>0 DEF GateInv
<1>2. CASE TakeToken(t)
  <2>1. token' = token \ {gate[t]} /\ gate[t] \in token /\ pc'[t] = "lock"
    BY <1>0, <1>2 DEF TakeToken
  <2>2. \A u \in Threads : ProcOf[u] = ProcOf[t] => pc[u] \notin HoldsGate
    BY <1>0, <2>1 DEF GateInv
  <2>3. \A u \in Threads : byPath'[ProcOf[u]] \in token' => pc'[u] \notin HoldsGate
    BY <1>0, <2>1, <2>2 DEF GateInv
  <2>4. GateExclusion'
    BY <1>0, <2>1, <2>2 DEF GateInv, GateExclusion
  <2> QED BY <1>1, <2>3, <2>4 DEF GateInv
<1>3. CASE ReturnToken(t)
  <2>1. token' = token \cup {gate[t]} /\ pc[t] = "returnToken" /\ pc'[t] = "leaveGate"
    BY <1>0, <1>3 DEF ReturnToken
  <2>2. \A u \in Threads : u # t /\ ProcOf[u] = ProcOf[t] => pc[u] \notin HoldsGate
    BY <2>1 DEF GateInv, GateExclusion
  <2>3. \A u \in Threads : byPath[ProcOf[u]] = gate[t] => ProcOf[u] = ProcOf[t]
    <3>1. gate[t] # "none" /\ \A u \in Threads : ProcOf[u] \in Procs
      BY <1>0, ProcAssumption, NameAssumption
    <3>2. \A p \in Procs : byPath[p] # "none" => ProcOf[byPath[p]] = p
      BY DEF GateInv
    <3> QED BY <1>0, <3>1, <3>2
  <2>4. \A u \in Threads : byPath'[ProcOf[u]] \in token' => pc'[u] \notin HoldsGate
    BY <1>0, <2>1, <2>2, <2>3 DEF GateInv
  <2>5. GateExclusion'
    BY <1>0, <2>1, <2>2 DEF GateInv, GateExclusion
  <2> QED BY <1>1, <2>4, <2>5 DEF GateInv
<1> QED BY <1>2, <1>3

\* The last user unregisters the gate, and nobody else is at it.
LEMMA LeaveKeeps ==
  ASSUME TypeOK, GateInv, NEW t \in Threads, LeaveGate(t)
  PROVE  GateInv'
<1> USE DEF TypeOK, InGate
<1>0. /\ pc[t] = "leaveGate" /\ pc' = [pc EXCEPT ![t] = "end"]
      /\ gate[t] = byPath[ProcOf[t]] /\ gate[t] \in Threads
      /\ users' = [users EXCEPT ![gate[t]] = @ \ {t}] /\ gate' = [gate EXCEPT ![t] = "none"]
  BY DEF LeaveGate, GateInv
<1>1. /\ \A u \in Threads, h \in Gates : u \in users'[h] <=> gate'[u] = h
      /\ \A u \in Threads : pc'[u] \in InGate <=> gate'[u] # "none"
  BY <1>0, NameAssumption DEF GateInv
<1>2. CASE users[gate[t]] = {t}
  <2>1. byPath' = [byPath EXCEPT ![ProcOf[t]] = "none"] /\ token' = token \ {gate[t]}
    BY <1>0, <1>2 DEF LeaveGate
  <2>2. \A u \in Threads : u # t /\ ProcOf[u] = ProcOf[t] => gate[u] = "none"
    BY <1>0, <1>2 DEF GateInv
  <2>3. \A u \in Threads : gate'[u] # "none" => byPath'[ProcOf[u]] = gate'[u]
    BY <1>0, <2>1, <2>2, ProcAssumption DEF GateInv
  <2>4. \A p \in Procs : byPath'[p] # "none" => ProcOf[byPath'[p]] = p
    BY <2>1, ProcAssumption DEF GateInv
  <2>5. \A u \in Threads : byPath'[ProcOf[u]] \in token' => pc'[u] \notin HoldsGate
    BY <1>0, <2>1, <2>2, ProcAssumption, NameAssumption DEF GateInv
  <2>6. GateExclusion'
    BY <1>0 DEF GateInv, GateExclusion
  <2> QED BY <1>1, <2>3, <2>4, <2>5, <2>6 DEF GateInv
<1>3. CASE users[gate[t]] # {t}
  <2>1. byPath' = byPath /\ token' = token
    BY <1>0, <1>3 DEF LeaveGate
  <2>2. \A u \in Threads : gate'[u] # "none" => byPath'[ProcOf[u]] = gate'[u]
    BY <1>0, <2>1 DEF GateInv
  <2>3. /\ \A p \in Procs : byPath'[p] # "none" => ProcOf[byPath'[p]] = p
        /\ \A u \in Threads : byPath'[ProcOf[u]] \in token' => pc'[u] \notin HoldsGate
    BY <1>0, <2>1 DEF GateInv
  <2>4. GateExclusion'
    BY <1>0 DEF GateInv, GateExclusion
  <2> QED BY <1>1, <2>2, <2>3, <2>4 DEF GateInv
<1> QED BY <1>2, <1>3

\* The end of a process takes its gate along and touches no other.
LEMMA DieKeeps ==
  ASSUME TypeOK, GateInv, NEW p \in Procs, Die(p)
  PROVE  GateInv'
<1> USE DEF TypeOK, InGate
<1> DEFINE mine == {t \in Threads : ProcOf[t] = p}
<1>0. /\ pc' = [t \in Threads |-> IF t \in mine THEN "dead" ELSE pc[t]]
      /\ byPath' = [byPath EXCEPT ![p] = "none"]
      /\ users' = [g \in Gates |-> users[g] \ mine]
      /\ token' = token \ mine
      /\ gate' = [t \in Threads |-> IF t \in mine THEN "none" ELSE gate[t]]
  BY DEF Die
<1>1. \A t \in Threads : ProcOf[t] \in Procs
  BY ProcAssumption
<1>2. \A u \in Threads, h \in Gates : u \in users'[h] <=> gate'[u] = h
  BY <1>0, NameAssumption DEF GateInv
<1>3. \A u \in Threads : pc'[u] \in InGate <=> gate'[u] # "none"
  BY <1>0 DEF GateInv
<1>4. \A u \in Threads : gate'[u] # "none" => byPath'[ProcOf[u]] = gate'[u]
  BY <1>0, <1>1 DEF GateInv
<1>5. \A q \in Procs : byPath'[q] # "none" => ProcOf[byPath'[q]] = q
  BY <1>0 DEF GateInv
<1>6. \A u \in Threads : byPath'[ProcOf[u]] \in token' => pc'[u] \notin HoldsGate
  BY <1>0, <1>1 DEF GateInv
<1>7. GateExclusion'
  BY <1>0 DEF GateInv, GateExclusion
<1> QED BY <1>2, <1>3, <1>4, <1>5, <1>6, <1>7 DEF GateInv

\* The gate's invariant is inductive.
LEMMA GateStep ==
  ASSUME TypeOK, GateInv, [Next]_vars
  PROVE  GateInv'
<1>1. ASSUME NEW t \in Threads, Step(t) PROVE GateInv'
  <2>1. CASE \E s \in Sessions : EnterGate(t, s)
    BY <2>1, EnterKeeps
  <2>2. CASE TakeToken(t) \/ ReturnToken(t)
    BY <2>2, TokenKeeps
  <2>3. CASE LeaveGate(t)
    BY <2>3, LeaveKeeps
  <2>4. CASE GateTimeout(t) \/ LockTimeout(t) \/ ReadFails(t) \/ PersistFails(t) \/ UnlockFails(t)
    BY <2>4, GateUntouched DEF GateTimeout, LockTimeout, ReadFails, PersistFails, UnlockFails, InGate, PCs
  <2>5. CASE TakeLock(t) \/ ReadState(t) \/ Persist(t) \/ Unlock(t)
    BY <2>5, GateUntouched DEF TakeLock, ReadState, Persist, Unlock, InGate, PCs
  <2>6. CASE \E gone, goneLegacy \in SUBSET Sessions : Prune(t, gone, goneLegacy)
    BY <2>6, GateUntouched DEF Prune, InGate, PCs
  <2> QED BY <1>1, <2>1, <2>2, <2>3, <2>4, <2>5, <2>6 DEF Step
<1>2. ASSUME NEW p \in Procs, Die(p) PROVE GateInv'
  BY <1>2, DieKeeps
<1>3. CASE UNCHANGED <<pc, gates>>
  BY <1>3 DEF GateInv, GateExclusion
<1>4. ASSUME NEW s \in Sessions, Age(s) PROVE GateInv'
  BY <1>3, <1>4 DEF Age
<1>5. CASE UNCHANGED vars
  BY <1>3, <1>5 DEF vars
<1> QED BY <1>1, <1>2, <1>4, <1>5 DEF Next

----------------------------------------------------------------------------
(* The file lock, the result and the files                                 *)

\* One caller at a time is between taking the file lock and releasing it.
LEMMA LockStep ==
  ASSUME TypeOK, LockInv, [Next]_vars
  PROVE  LockInv'
<1> USE DEF TypeOK, LockInv
<1>1. ASSUME NEW t \in Threads, Step(t) PROVE LockInv'
  <2>1. ASSUME NEW label, UNCHANGED lock, Goto(t, label), label \in HoldsLock => pc[t] \in HoldsLock
        PROVE  LockInv'
    BY <2>1
  <2>2. CASE \E s \in Sessions : EnterGate(t, s)
    BY <2>1, <2>2 DEF EnterGate
  <2>3. CASE TakeToken(t) \/ ReturnToken(t) \/ LeaveGate(t)
    BY <2>1, <2>3 DEF TakeToken, ReturnToken, LeaveGate
  <2>4. CASE GateTimeout(t) \/ LockTimeout(t) \/ ReadFails(t) \/ PersistFails(t) \/ UnlockFails(t)
    BY <2>1, <2>4 DEF GateTimeout, LockTimeout, ReadFails, PersistFails, UnlockFails
  <2>5. CASE ReadState(t) \/ Persist(t)
    BY <2>1, <2>5 DEF ReadState, Persist
  <2>6. CASE \E gone, goneLegacy \in SUBSET Sessions : Prune(t, gone, goneLegacy)
    BY <2>1, <2>6 DEF Prune
  <2>7. CASE TakeLock(t)
    BY <2>7, NameAssumption DEF TakeLock
  <2>8. CASE Unlock(t)
    BY <2>8 DEF Unlock
  <2> QED BY <1>1, <2>2, <2>3, <2>4, <2>5, <2>6, <2>7, <2>8 DEF Step
<1>2. ASSUME NEW p \in Procs, Die(p) PROVE LockInv'
  BY <1>2 DEF Die
<1>3. ASSUME NEW s \in Sessions, Age(s) PROVE LockInv'
  BY <1>3 DEF Age
<1>4. CASE UNCHANGED vars
  BY <1>4 DEF vars
<1> QED BY <1>1, <1>2, <1>3, <1>4 DEF Next

\* The result a caller carries is the truth about its update.
LEMMA ResultStep ==
  ASSUME TypeOK, ResultInv, [Next]_vars
  PROVE  ResultInv'
<1> USE DEF TypeOK, ResultInv, Told, Underway
<1>1. ASSUME NEW t \in Threads, Step(t) PROVE ResultInv'
  <2>1. CASE \E s \in Sessions : EnterGate(t, s)
    BY <2>1 DEF EnterGate
  <2>2. CASE TakeToken(t) \/ ReturnToken(t)
    BY <2>2 DEF TakeToken, ReturnToken
  <2>3. CASE LeaveGate(t)
    BY <2>3 DEF LeaveGate
  <2>4. CASE GateTimeout(t) \/ LockTimeout(t) \/ ReadFails(t) \/ PersistFails(t)
    BY <2>4 DEF GateTimeout, LockTimeout, ReadFails, PersistFails
  <2>5. CASE UnlockFails(t)
    BY <2>5 DEF UnlockFails
  <2>6. CASE TakeLock(t) \/ ReadState(t) \/ Unlock(t)
    BY <2>6 DEF TakeLock, ReadState, Unlock
  <2>7. CASE Persist(t)
    BY <2>7 DEF Persist
  <2>8. CASE \E gone, goneLegacy \in SUBSET Sessions : Prune(t, gone, goneLegacy)
    BY <2>8 DEF Prune
  <2> QED BY <1>1, <2>1, <2>2, <2>3, <2>4, <2>5, <2>6, <2>7, <2>8 DEF Step
<1>2. ASSUME NEW p \in Procs, Die(p) PROVE ResultInv'
  BY <1>2 DEF Die
<1>3. ASSUME NEW s \in Sessions, Age(s) PROVE ResultInv'
  BY <1>3 DEF Age
<1>4. CASE UNCHANGED vars
  BY <1>4 DEF vars
<1> QED BY <1>1, <1>2, <1>3, <1>4 DEF Next

\* Who loads, changes or removes files holds the lock, so the state a caller
\* loaded stays the latest until it persists its update.
LEMMA DataStep ==
  ASSUME TypeOK, LockInv, DataInv, [Next]_vars
  PROVE  DataInv'
<1> USE DEF TypeOK, DataInv
<1>0. ASSUME NEW t \in Threads, NEW u \in Threads, pc[t] \in HoldsLock, pc[u] \in HoldsLock
      PROVE  t = u
  BY <1>0 DEF LockInv
<1>1. ASSUME NEW t \in Threads, Step(t) PROVE DataInv'
  <2>1. ASSUME NEW label, UNCHANGED <<files, sess>>, Goto(t, label), pc[t] # "start",
               pc[t] # "dead", label # "persist",
               \A u \in Threads : u # t => seen'[u] = seen[u]
        PROVE  DataInv'
    BY <2>1 DEF Load
  <2>2. CASE \E s \in Sessions : EnterGate(t, s)
    BY <2>2 DEF EnterGate, Load
  <2>3. CASE TakeToken(t) \/ ReturnToken(t) \/ LeaveGate(t) \/ TakeLock(t) \/ Unlock(t)
    BY <2>1, <2>3 DEF TakeToken, ReturnToken, LeaveGate, TakeLock, Unlock
  <2>4. CASE GateTimeout(t) \/ LockTimeout(t) \/ ReadFails(t) \/ PersistFails(t) \/ UnlockFails(t)
    BY <2>1, <2>4 DEF GateTimeout, LockTimeout, ReadFails, PersistFails, UnlockFails
  <2>5. CASE ReadState(t)
    <3>1. \A s \in Sessions : Load(s)' = Load(s)
      BY <2>5 DEF ReadState, Load
    <3>2. sess[t] \in Sessions
      BY <2>5 DEF ReadState
    <3> QED BY <2>5, <3>1, <3>2 DEF ReadState
  <2>6. CASE Persist(t)
    <3>1. /\ sess[t] \in Sessions /\ seen[t] = Load(sess[t]) /\ pc[t] = "persist"
          /\ file' = [file EXCEPT ![sess[t]] = seen[t] \cup {t}]
          /\ pc' = [pc EXCEPT ![t] = "prune"]
          /\ UNCHANGED <<legacy, sess>>
      BY <2>6 DEF Persist
    <3>2. \A u \in Threads : pc'[u] # "persist"
      BY <1>0, <3>1
    <3>3. legacy[sess[t]] # NoFile => "legacy" \in seen[t]
      BY <3>1 DEF Load
    <3>4. \A s \in Sessions : file'[s] # NoFile /\ legacy'[s] # NoFile => "legacy" \in file'[s]
      BY <3>1, <3>3
    <3> QED BY <3>1, <3>2, <3>4
  <2>7. ASSUME NEW gone \in SUBSET Sessions, NEW goneLegacy \in SUBSET Sessions,
               Prune(t, gone, goneLegacy)
        PROVE  DataInv'
    <3>1. /\ pc[t] = "prune" /\ pc' = [pc EXCEPT ![t] = "unlock"]
          /\ \A s \in Sessions : file'[s] \in {file[s], NoFile} /\ legacy'[s] \in {legacy[s], NoFile}
          /\ UNCHANGED <<sess, seen>>
      BY <2>7 DEF Prune
    <3>2. \A u \in Threads : pc'[u] # "persist"
      BY <1>0, <3>1
    <3> QED BY <3>1, <3>2
  <2> QED BY <1>1, <2>2, <2>3, <2>4, <2>5, <2>6, <2>7 DEF Step
<1>2. ASSUME NEW p \in Procs, Die(p) PROVE DataInv'
  BY <1>2 DEF Die, Load
<1>3. ASSUME NEW s \in Sessions, Age(s) PROVE DataInv'
  BY <1>3 DEF Age, Load
<1>4. CASE UNCHANGED vars
  BY <1>4 DEF vars, Load
<1> QED BY <1>1, <1>2, <1>3, <1>4 DEF Next

\* The first state satisfies the invariant.
LEMMA SessionInit == Init => SessionInv
<1> SUFFICES ASSUME Init PROVE SessionInv
  OBVIOUS
<1>1. GateInv
  BY NameAssumption, ProcAssumption DEF Init, GateInv, GateExclusion, InGate
<1>2. LockInv /\ ResultInv /\ DataInv
  BY DEF Init, LockInv, ResultInv, DataInv, Underway
<1> QED BY <1>1, <1>2, TypeInit DEF SessionInv

\* The invariant is inductive.
LEMMA SessionStep == SessionInv /\ [Next]_vars => SessionInv'
<1> SUFFICES ASSUME SessionInv, [Next]_vars PROVE SessionInv'
  OBVIOUS
<1>1. TypeOK'
  <2>1. CASE UNCHANGED vars
    BY <2>1 DEF vars, SessionInv, TypeOK
  <2> QED BY <2>1, TypeCaller, TypeEnvironment DEF SessionInv, Next
<1> QED BY <1>1, GateStep, LockStep, ResultStep, DataStep DEF SessionInv

\* The inductive invariant of the store holds for any number of processes and
\* callers, waiting, failing and dying anywhere.
THEOREM SessionInvAlways == Spec => []SessionInv
BY SessionInit, SessionStep, PTL DEF Spec

\* The gate of a process lets one caller through at a time, although it is
\* unregistered and created anew (transaction_gate.go).
THEOREM OnePastTheGate == Spec => []GateExclusion
<1>1. SessionInv => GateExclusion
  BY DEF SessionInv, GateInv
<1> QED BY <1>1, SessionInvAlways, PTL

----------------------------------------------------------------------------
(* The contract                                                            *)

States1 == [s \in Sessions |-> Load(s)]
Seen == <<States1, Stale, done, outcome>>

\* A step that touches no file, update or answer is none of the contract's.
LEMMA Invisible ==
  ASSUME UNCHANGED <<files, done, outcome>>
  PROVE  UNCHANGED Seen
<1>1. \A s \in Sessions : Load(s)' = Load(s)
  BY DEF Load
<1>2. States1' = States1
  BY <1>1 DEF States1
<1>3. Stale' = Stale
  BY DEF Stale
<1> QED BY <1>2, <1>3 DEF Seen

\* The first state is one of the contract's.
LEMMA ContractInit == Init => Contract!Init
<1> SUFFICES ASSUME Init PROVE Contract!Init
  OBVIOUS
<1>1. \A s \in Sessions : Load(s) \in {{}, {"legacy"}}
  BY DEF Init, Load, NoFile
<1>2. Stale = {}
  BY DEF Init, Stale
<1> QED BY <1>1, <1>2 DEF Init, Contract!Init

\* A rename applies the whole update to the latest state.
LEMMA PersistCommits ==
  ASSUME SessionInv, NEW t \in Threads, Persist(t)
  PROVE  Contract!Commit(t, sess[t]) /\ sess[t] \in Sessions
<1> USE DEF SessionInv, TypeOK
<1>1. /\ sess[t] \in Sessions /\ seen[t] = Load(sess[t])
      /\ file' = [file EXCEPT ![sess[t]] = seen[t] \cup {t}]
      /\ oldFile' = oldFile \ {sess[t]} /\ done' = done \cup {t}
      /\ UNCHANGED <<legacy, oldLegacy, outcome>>
  BY DEF Persist, DataInv
<1>2. outcome[t] = "open" /\ t \notin done
  BY DEF Persist, ResultInv, Underway
<1>3. seen[t] \cup {t} # NoFile
  BY NameAssumption DEF NoFile
<1>4. \A s \in Sessions : Load(s)' = IF s = sess[t] THEN Load(s) \cup {t} ELSE Load(s)
  BY <1>1, <1>3 DEF Load
<1>5. [s \in Sessions |-> Load(s)]'
        = [[s \in Sessions |-> Load(s)] EXCEPT ![sess[t]] = @ \cup {t}]
  BY <1>1, <1>4
<1>6. Stale' = Stale \ {sess[t]}
  BY <1>1, <1>3 DEF Stale
<1> QED BY <1>1, <1>2, <1>5, <1>6 DEF Contract!Commit

\* The caller is told what became of its update.
LEMMA LeaveReturns ==
  ASSUME SessionInv, NEW t \in Threads, LeaveGate(t)
  PROVE  Contract!Return(t, result[t]) /\ result[t] \in Contract!Outcomes
<1> USE DEF SessionInv, TypeOK
<1>1. /\ outcome[t] = "open" /\ outcome' = [outcome EXCEPT ![t] = result[t]]
      /\ result[t] \in (IF t \in done THEN {"ok", "committed"} ELSE {"failed"})
  BY DEF LeaveGate, ResultInv, Told
<1>2. done' = done /\ UNCHANGED files
  BY DEF LeaveGate
<1>3. (\A s \in Sessions : Load(s)' = Load(s)) /\ Stale' = Stale
  BY <1>2 DEF Load, Stale
<1>4. [s \in Sessions |-> Load(s)]' = [s \in Sessions |-> Load(s)]
  BY <1>3
<1> QED BY <1>1, <1>2, <1>3, <1>4 DEF Contract!Return, Contract!Outcomes

\* Pruning forgets nothing but day-old state.
LEMMA PruneForgets ==
  ASSUME SessionInv, NEW t \in Threads, NEW gone \in SUBSET Sessions,
         NEW goneLegacy \in SUBSET Sessions, Prune(t, gone, goneLegacy)
  PROVE  Contract!Forget
<1> USE DEF SessionInv, TypeOK
<1>1. /\ gone \subseteq oldFile /\ goneLegacy \subseteq oldLegacy
      /\ \A s \in Sessions : file'[s] = IF s \in gone THEN NoFile ELSE file[s]
      /\ \A s \in Sessions : legacy'[s] = IF s \in goneLegacy THEN NoFile ELSE legacy[s]
      /\ oldFile' = oldFile \ gone /\ oldLegacy' = oldLegacy \ goneLegacy
      /\ UNCHANGED <<done, outcome>>
  BY DEF Prune
<1>2. ASSUME NEW s \in Sessions
      PROVE  IF s \in Stale THEN Load(s)' \subseteq Load(s) ELSE Load(s)' = Load(s)
  <2>1. CASE file[s] # NoFile /\ s \in gone
    <3>1. s \in Stale /\ Load(s) = file[s]
      BY <1>1, <2>1 DEF Stale, Load
    <3>2. Load(s)' \in {{}, {"legacy"}} /\ (Load(s)' = {"legacy"} => legacy[s] # NoFile)
      BY <1>1, <2>1 DEF Load, NoFile
    <3>3. legacy[s] # NoFile => "legacy" \in file[s]
      BY <2>1 DEF DataInv
    <3> QED BY <3>1, <3>2, <3>3
  <2>2. CASE file[s] # NoFile /\ s \notin gone
    BY <1>1, <2>2 DEF Load
  <2>3. CASE file[s] = NoFile /\ s \in goneLegacy
    BY <1>1, <2>3 DEF Load, Stale
  <2>4. CASE file[s] = NoFile /\ s \notin goneLegacy
    BY <1>1, <2>4 DEF Load
  <2> QED BY <2>1, <2>2, <2>3, <2>4
<1>3. Stale' \subseteq Stale
  BY <1>1 DEF Stale
<1>4. [s \in Sessions |-> Load(s)]'
        \in [Sessions -> SUBSET UNION {[q \in Sessions |-> Load(q)][s] : s \in Sessions}]
  BY <1>2
<1>5. \A s \in Sessions :
        IF s \in Stale THEN ([q \in Sessions |-> Load(q)]')[s] \subseteq [q \in Sessions |-> Load(q)][s]
                       ELSE ([q \in Sessions |-> Load(q)]')[s] = [q \in Sessions |-> Load(q)][s]
  BY <1>2
<1> QED BY <1>1, <1>3, <1>4, <1>5 DEF Contract!Forget

\* A day makes state old, whichever file holds it.
LEMMA AgeGrowsOld ==
  ASSUME TypeOK, NEW s \in Sessions, Age(s)
  PROVE  Contract!GrowOld(s) \/ UNCHANGED Seen
<1> USE DEF TypeOK
<1>1. UNCHANGED <<file, legacy, done, outcome>>
  BY DEF Age
<1>2. [q \in Sessions |-> Load(q)]' = [q \in Sessions |-> Load(q)]
  <2>1. \A q \in Sessions : Load(q)' = Load(q)
    BY <1>1 DEF Load
  <2> QED BY <2>1
<1>3. Stale' \in {Stale, Stale \cup {s}}
  BY <1>1 DEF Age, Stale
<1> QED BY <1>1, <1>2, <1>3 DEF Contract!GrowOld, Seen, States1

\* Every step of the store is a step of the contract, or none.
LEMMA ContractStep ==
  ASSUME SessionInv, [Next]_vars
  PROVE  Contract!Next \/ UNCHANGED Seen
<1>1. ASSUME NEW t \in Threads, Step(t) PROVE Contract!Next \/ UNCHANGED Seen
  <2>1. CASE Persist(t)
    BY <2>1, PersistCommits DEF Contract!Next
  <2>2. CASE LeaveGate(t)
    BY <2>2, LeaveReturns DEF Contract!Next
  <2>3. CASE \E gone, goneLegacy \in SUBSET Sessions : Prune(t, gone, goneLegacy)
    BY <2>3, PruneForgets DEF Contract!Next
  <2>4. CASE \E s \in Sessions : EnterGate(t, s)
    BY <2>4, Invisible DEF EnterGate
  <2>5. CASE TakeToken(t) \/ ReturnToken(t) \/ TakeLock(t) \/ ReadState(t) \/ Unlock(t)
    BY <2>5, Invisible DEF TakeToken, ReturnToken, TakeLock, ReadState, Unlock
  <2>6. CASE GateTimeout(t) \/ LockTimeout(t) \/ ReadFails(t) \/ PersistFails(t) \/ UnlockFails(t)
    BY <2>6, Invisible DEF GateTimeout, LockTimeout, ReadFails, PersistFails, UnlockFails
  <2> QED BY <1>1, <2>1, <2>2, <2>3, <2>4, <2>5, <2>6 DEF Step
<1>2. ASSUME NEW p \in Procs, Die(p) PROVE UNCHANGED Seen
  BY <1>2, Invisible DEF Die
<1>3. ASSUME NEW s \in Sessions, Age(s) PROVE Contract!Next \/ UNCHANGED Seen
  BY <1>3, AgeGrowsOld DEF Contract!Next, SessionInv
<1>4. CASE UNCHANGED vars
  BY <1>4, Invisible DEF vars
<1> QED BY <1>1, <1>2, <1>3, <1>4 DEF Next

\* Gate, lock, migration, pruning, failures and crashes implement a store of
\* atomic transactions (session.go, Transaction).
THEOREM TransactionsKeepContract == Spec => ContractSpec
<1>1. SessionInv /\ [Next]_vars => [Contract!Next]_Seen
  BY ContractStep
<1> QED
  BY <1>1, ContractInit, SessionInvAlways, PTL
     DEF Spec, ContractSpec, Contract!Spec, Contract!vars, Seen, States1
=============================================================================
