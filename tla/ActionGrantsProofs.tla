-------------------------- MODULE ActionGrantsProofs --------------------------
(* Proofs about the exact-action store, for any number of records, hooks   *)
(* and operator commands.                                                  *)
EXTENDS ActionGrants, FiniteSetTheorems, TLAPS

USE DEF store, history, Goto, Return, ReadClock, Procs

\* What the operator confirmed is what the record grants, and it is audited.
Backed(r) == digest[r] \in confirmed[r] /\ r \in issued

\* A record without a digest was never created; one that may still be spent
\* has bought nothing, and one that bought a call never comes back.
RecordOK(r) ==
    /\ digest[r] = "none" => status[r] = "none" /\ allows[r] = 0
    /\ status[r] = "approved" => Backed(r)
    /\ allows[r] = 0 \/ (allows[r] = 1 /\ status[r] \in {"consumed", "none"} /\ Backed(r))

Reviewed == {"confirm", "authorize", "audit", "write"}
Holding == {"audit", "write"}

\* What a process knows at each step: behind the confirmation the digest is
\* confirmed, and under the lock the record is as it was compared.
ProcOK(p) ==
    /\ pc[p] \in {"consume", "create"} \cup Reviewed => want[p] \in Digests
    /\ pc[p] \in {"revoke"} \cup Reviewed => rec[p] \in Recs
    /\ pc[p] \in Reviewed \ {"confirm"} => want[p] \in confirmed[rec[p]]
    /\ pc[p] \in Holding <=> lock = p
    /\ pc[p] \in Holding => status[rec[p]] = "pending" /\ digest[rec[p]] = want[p]
    /\ pc[p] = "write" => rec[p] \in issued

GrantInv ==
    /\ TypeOK
    /\ \A r \in Recs : RecordOK(r)
    /\ \A p \in Procs : ProcOK(p)

----------------------------------------------------------------------------
(* Types                                                                   *)

\* The first state has the types.
LEMMA TypeInit == Init => TypeOK
BY DEF Init, TypeOK, Status, PCs

\* Every step keeps the types.
LEMMA TypeStep == GrantInv /\ [Next]_vars => TypeOK'
<1> SUFFICES ASSUME GrantInv, [Next]_vars PROVE TypeOK'
  OBVIOUS
<1>0. TypeOK /\ \A p \in Procs : ProcOK(p)
  BY DEF GrantInv
<1> USE <1>0 DEF TypeOK, Status, PCs
<1>1. ASSUME NEW p \in Hooks, HookStep(p) PROVE TypeOK'
  <2>1. ASSUME NEW d \in Digests, HookAsk(p, d) PROVE TypeOK'
    BY <2>1 DEF HookAsk
  <2>2. ASSUME NEW r \in Recs, Consume(p, r) PROVE TypeOK'
    BY <2>2 DEF Consume, Pruned
  <2>3. ASSUME NEW r \in Recs, Create(p, r) PROVE TypeOK'
    BY <2>3 DEF Create, Pruned
  <2>4. CASE ConsumeNothing(p)
    BY <2>4 DEF ConsumeNothing, Pruned
  <2>5. CASE CreateNothing(p)
    BY <2>5 DEF CreateNothing, Pruned
  <2> QED BY <1>1, <2>1, <2>2, <2>3, <2>4, <2>5 DEF HookStep
<1>2. ASSUME NEW p \in Operators, OperatorStep(p) PROVE TypeOK'
  <2>0. pc[p] \in Reviewed => want[p] \in Digests /\ rec[p] \in Recs
    BY DEF ProcOK, Reviewed
  <2>1. ASSUME NEW r \in Recs, Review(p, r) PROVE TypeOK'
    BY <2>1 DEF Review
  <2>2. ASSUME NEW r \in Recs, ReviewRevoke(p, r) PROVE TypeOK'
    BY <2>2 DEF ReviewRevoke
  <2>3. CASE Confirm(p)
    BY <2>0, <2>3 DEF Confirm, Reviewed
  <2>4. CASE Authorize(p)
    BY <2>4 DEF Authorize
  <2>5. CASE AuthorizeAudit(p)
    BY <2>0, <2>5 DEF AuthorizeAudit, Reviewed
  <2>6. CASE AuthorizeWrite(p)
    BY <2>6 DEF AuthorizeWrite
  <2>7. CASE Revoke(p)
    BY <2>7 DEF Revoke
  <2> QED BY <1>2, <2>1, <2>2, <2>3, <2>4, <2>5, <2>6, <2>7 DEF OperatorStep
<1>3. ASSUME NEW p \in Procs, NEW gone \in SUBSET Recs, GiveUp(p, gone) PROVE TypeOK'
  BY <1>3 DEF GiveUp
<1>4. ASSUME NEW r \in Recs, Lapse(r) PROVE TypeOK'
  BY <1>4 DEF Lapse, Stored
<1>5. CASE UNCHANGED vars
  BY <1>5 DEF vars
<1> QED BY <1>1, <1>2, <1>3, <1>4, <1>5 DEF Next

----------------------------------------------------------------------------
(* The invariant                                                           *)

\* The first state satisfies it.
LEMMA GrantInit == Init => GrantInv
<1> SUFFICES ASSUME Init PROVE GrantInv
  OBVIOUS
<1>1. \A r \in Recs : RecordOK(r)
  BY DEF Init, RecordOK
<1>2. \A p \in Procs : ProcOK(p)
  BY NamesAssumption DEF Init, ProcOK, Reviewed, Holding
<1> QED BY <1>1, <1>2, TypeInit DEF GrantInv

\* Nobody under the lock: no process is between comparison and write.
LEMMA FreeLock ==
  ASSUME GrantInv, lock = "free", NEW q \in Procs
  PROVE  pc[q] \notin Holding
BY NamesAssumption DEF GrantInv, ProcOK

\* A hook's step that changes the store keeps the records in order.
LEMMA HookRecords ==
  ASSUME GrantInv, NEW p \in Hooks, HookStep(p)
  PROVE  \A r \in Recs : RecordOK(r)'
<1> USE DEF GrantInv, RecordOK, Backed, TypeOK
<1>1. ASSUME NEW d \in Digests, HookAsk(p, d) PROVE \A r \in Recs : RecordOK(r)'
  BY <1>1 DEF HookAsk
<1>2. ASSUME NEW r \in Recs, Consume(p, r) PROVE \A q \in Recs : RecordOK(q)'
  <2>1. status[r] = "approved" /\ Backed(r) /\ allows[r] = 0
    BY <1>2 DEF Consume, Matching
  <2>2. /\ \A q \in Recs : q # r => status'[q] \in {status[q], "none"} /\ allows'[q] = allows[q]
        /\ status'[r] = "consumed" /\ allows'[r] = 1
        /\ UNCHANGED <<digest, issued, confirmed>>
    BY <1>2, <2>1 DEF Consume, Pruned
  <2> QED BY <2>1, <2>2
<1>3. ASSUME NEW r \in Recs, Create(p, r) PROVE \A q \in Recs : RecordOK(q)'
  <2>1. digest[r] = "none" /\ allows[r] = 0 /\ want[p] # "none"
    BY <1>3, NamesAssumption DEF Create, Fresh, ProcOK
  <2>2. /\ \A q \in Recs : q # r => status'[q] \in {status[q], "none"} /\ digest'[q] = digest[q]
        /\ status'[r] = "pending" /\ digest'[r] = want[p]
        /\ UNCHANGED <<allows, issued, confirmed>>
    BY <1>3 DEF Create, Pruned
  <2> QED BY <2>1, <2>2
<1>4. CASE ConsumeNothing(p) \/ CreateNothing(p)
  <2>1. /\ \A q \in Recs : status'[q] \in {status[q], "none"}
        /\ UNCHANGED <<digest, allows, issued, confirmed>>
    BY <1>4 DEF ConsumeNothing, CreateNothing, Pruned
  <2> QED BY <2>1
<1> QED BY <1>1, <1>2, <1>3, <1>4 DEF HookStep

\* What the operator's commands do to the records.
LEMMA OperatorRecords ==
  ASSUME GrantInv, NEW p \in Operators, OperatorStep(p)
  PROVE  \A r \in Recs : RecordOK(r)'
<1> USE DEF GrantInv, RecordOK, Backed, TypeOK
<1>1. ASSUME NEW r \in Recs, Review(p, r) \/ ReviewRevoke(p, r)
      PROVE  \A q \in Recs : RecordOK(q)'
  BY <1>1 DEF Review, ReviewRevoke
<1>2. CASE Confirm(p)
  BY <1>2 DEF Confirm
<1>3. CASE Authorize(p)
  BY <1>3 DEF Authorize
<1>4. CASE AuthorizeAudit(p)
  BY <1>4 DEF AuthorizeAudit
<1>5. CASE AuthorizeWrite(p)
  <2>1. /\ rec[p] \in Recs /\ rec[p] \in issued /\ digest[rec[p]] \in confirmed[rec[p]]
        /\ digest[rec[p]] \in Digests /\ allows[rec[p]] = 0
    BY <1>5 DEF AuthorizeWrite, ProcOK, Reviewed, Holding
  <2> QED BY <1>5, <2>1, NamesAssumption DEF AuthorizeWrite
<1>6. CASE Revoke(p)
  <2>1. rec[p] \in Recs
    BY <1>6 DEF Revoke, ProcOK
  <2> QED BY <1>6, <2>1 DEF Revoke
<1> QED BY <1>1, <1>2, <1>3, <1>4, <1>5, <1>6 DEF OperatorStep

\* A hook's step keeps what it and the others know.
LEMMA HookProcs ==
  ASSUME GrantInv, NEW p \in Hooks, HookStep(p)
  PROVE  \A q \in Procs : ProcOK(q)'
<1> USE DEF GrantInv, ProcOK, Reviewed, Holding, TypeOK
<1>1. ASSUME NEW d \in Digests, HookAsk(p, d) PROVE \A q \in Procs : ProcOK(q)'
  BY <1>1 DEF HookAsk
<1>2. CASE /\ pc[p] \in {"consume", "create"} /\ lock = "free"
           /\ pc'[p] \in {"idle", "create"}
           /\ \A q \in Procs : q # p => pc'[q] = pc[q] /\ want'[q] = want[q] /\ rec'[q] = rec[q]
           /\ pc'[p] = "create" => want'[p] = want[p]
           /\ UNCHANGED <<lock, issued, confirmed>>
  <2>1. \A q \in Procs : pc[q] \notin Holding
    BY <1>2, FreeLock
  <2> QED BY <1>2, <2>1, NamesAssumption
<1>3. ASSUME NEW r \in Recs, Consume(p, r) \/ Create(p, r) PROVE \A q \in Procs : ProcOK(q)'
  BY <1>2, <1>3 DEF Consume, Create
<1>4. CASE ConsumeNothing(p) \/ CreateNothing(p)
  BY <1>2, <1>4 DEF ConsumeNothing, CreateNothing
<1> QED BY <1>1, <1>3, <1>4 DEF HookStep

\* So does a step of an operator command; the lock admits one to the write.
LEMMA OperatorProcs ==
  ASSUME GrantInv, NEW p \in Operators, OperatorStep(p)
  PROVE  \A q \in Procs : ProcOK(q)'
<1> USE DEF GrantInv, ProcOK, Reviewed, Holding, TypeOK
<1>1. ASSUME NEW r \in Recs, Review(p, r) PROVE \A q \in Procs : ProcOK(q)'
  <2>1. digest[r] \in Digests
    BY <1>1 DEF Review, RecordOK
  <2> QED BY <1>1, <2>1, FreeLock, NamesAssumption DEF Review
<1>2. ASSUME NEW r \in Recs, ReviewRevoke(p, r) PROVE \A q \in Procs : ProcOK(q)'
  BY <1>2, FreeLock, NamesAssumption DEF ReviewRevoke, Stored
<1>3. CASE Confirm(p)
  BY <1>3 DEF Confirm
<1>4. CASE Authorize(p)
  BY <1>4, FreeLock, NamesAssumption DEF Authorize
<1>5. CASE AuthorizeAudit(p)
  BY <1>5 DEF AuthorizeAudit
<1>6. CASE AuthorizeWrite(p)
  <2>1. lock = p /\ \A q \in Procs : q # p => pc[q] \notin Holding
    BY <1>6 DEF AuthorizeWrite
  <2> QED BY <1>6, <2>1, NamesAssumption DEF AuthorizeWrite
<1>7. CASE Revoke(p)
  <2>1. \A q \in Procs : pc[q] \notin Holding
    BY <1>7, FreeLock DEF Revoke
  <2> QED BY <1>7, <2>1, NamesAssumption DEF Revoke
<1> QED BY <1>1, <1>2, <1>3, <1>4, <1>5, <1>6, <1>7 DEF OperatorStep

\* Giving up takes no record back and no lock along.
LEMMA GiveUpKeeps ==
  ASSUME GrantInv, NEW p \in Procs, NEW gone \in SUBSET Recs, GiveUp(p, gone)
  PROVE  (\A r \in Recs : RecordOK(r)') /\ (\A q \in Procs : ProcOK(q)')
<1> USE DEF GrantInv, TypeOK
<1>1. /\ \A r \in Recs : status'[r] = IF r \in gone THEN "none" ELSE status[r]
      /\ gone # {} => lock = "free"
      /\ lock' = IF lock = p THEN "free" ELSE lock
      /\ pc'[p] = "idle"
      /\ \A q \in Procs : q # p => pc'[q] = pc[q] /\ want'[q] = want[q] /\ rec'[q] = rec[q]
      /\ UNCHANGED <<digest, allows, issued, confirmed>>
  BY DEF GiveUp
<1>2. \A r \in Recs : RecordOK(r)'
  BY <1>1 DEF RecordOK, Backed
<1>3. ASSUME NEW q \in Procs PROVE ProcOK(q)'
  <2>1. CASE gone = {}
    BY <1>1, <2>1, NamesAssumption DEF ProcOK, Reviewed, Holding
  <2>2. CASE gone # {}
    BY <1>1, <2>2, FreeLock, NamesAssumption DEF ProcOK, Reviewed, Holding
  <2> QED BY <2>1, <2>2
<1> QED BY <1>2, <1>3

\* The invariant is inductive.
LEMMA GrantStep == GrantInv /\ [Next]_vars => GrantInv'
<1> SUFFICES ASSUME GrantInv, [Next]_vars PROVE GrantInv'
  OBVIOUS
<1>1. TypeOK'
  BY TypeStep
<1>2. CASE \E p \in Hooks : HookStep(p)
  BY <1>1, <1>2, HookRecords, HookProcs DEF GrantInv
<1>3. CASE \E p \in Operators : OperatorStep(p)
  BY <1>1, <1>3, OperatorRecords, OperatorProcs DEF GrantInv
<1>4. CASE \E p \in Procs, gone \in SUBSET Recs : GiveUp(p, gone)
  BY <1>1, <1>4, GiveUpKeeps DEF GrantInv
<1>5. CASE \E r \in Recs : Lapse(r)
  BY <1>1, <1>5 DEF Lapse, GrantInv, RecordOK, ProcOK, Backed
<1>6. CASE UNCHANGED vars
  BY <1>1, <1>6 DEF vars, GrantInv, RecordOK, ProcOK, Backed
<1> QED BY <1>2, <1>3, <1>4, <1>5, <1>6 DEF Next

\* The inductive invariant of the store holds for any number of records, hooks
\* and operator commands.
THEOREM GrantInvAlways == Spec => []GrantInv
BY GrantInit, GrantStep, PTL DEF Spec

\* A record buys at most one call, of the action that was confirmed and audited
\* (store.go, Consume and AuthorizeWithAudit).
THEOREM GrantsUsedOnce == Spec => []OneConfirmedUse
<1>1. GrantInv => OneConfirmedUse
  BY DEF GrantInv, TypeOK, RecordOK, Backed, OneConfirmedUse
<1> QED BY <1>1, GrantInvAlways, PTL

\* A status that ends a record is left only with the record itself.
StaysEnded ==
    \A r \in Recs :
        status[r] \in {"consumed", "revoked"} => status'[r] \in {status[r], "none"}

\* No step revives a spent or revoked record.
LEMMA EndedStep == GrantInv /\ [Next]_vars => StaysEnded
<1> SUFFICES ASSUME GrantInv, [Next]_vars PROVE StaysEnded
  OBVIOUS
<1> USE DEF GrantInv, TypeOK, StaysEnded
<1>1. ASSUME NEW p \in Hooks, HookStep(p) PROVE StaysEnded
  <2>1. ASSUME NEW r \in Recs, Consume(p, r) PROVE StaysEnded
    BY <2>1 DEF Consume, Pruned, Matching
  <2>2. ASSUME NEW r \in Recs, Create(p, r) PROVE StaysEnded
    BY <2>2 DEF Create, Pruned, Fresh, RecordOK
  <2> QED BY <1>1, <2>1, <2>2 DEF HookStep, HookAsk, ConsumeNothing, CreateNothing, Pruned
<1>2. ASSUME NEW p \in Operators, OperatorStep(p) PROVE StaysEnded
  <2>1. CASE AuthorizeWrite(p)
    BY <2>1 DEF AuthorizeWrite, ProcOK, Holding
  <2>2. CASE Revoke(p)
    BY <2>2 DEF Revoke
  <2> QED BY <1>2, <2>1, <2>2 DEF OperatorStep, Review, ReviewRevoke, Confirm, Authorize, AuthorizeAudit
<1>3. ASSUME NEW p \in Procs, NEW gone \in SUBSET Recs, GiveUp(p, gone) PROVE StaysEnded
  BY <1>3 DEF GiveUp
<1> QED BY <1>1, <1>2, <1>3 DEF Next, Lapse, vars

\* Whatever approval is under way, a record that was spent or revoked is never
\* usable again (store.go, Revoke and AuthorizeWithAudit).
THEOREM RecordsNeverRevive == Spec => NoRevival
<1>1. GrantInv /\ [Next]_vars => [StaysEnded]_vars
  BY EndedStep
<1> QED BY <1>1, GrantInit, GrantStep, PTL DEF Spec, NoRevival, StaysEnded

----------------------------------------------------------------------------
(* One pending record for each action, and a bounded store                 *)

\* Removing records, or changing the status of stored ones to anything but
\* pending, keeps both halves.
LEMMA FewerRecords ==
  ASSUME OnePendingRecord, UNCHANGED digest,
         \A r \in Recs : \/ status'[r] = status[r]
                         \/ status'[r] = "none"
                         \/ status[r] # "none" /\ status'[r] # "pending"
  PROVE  OnePendingRecord'
<1>1. Stored' \subseteq Stored /\ IsFiniteSet(Stored)
  BY RecsAssumption, FS_Subset DEF Stored
<1>2. Cardinality(Stored') <= Cardinality(Stored)
  BY <1>1, FS_Subset
<1>3. Cardinality(Stored') \in Nat /\ Cardinality(Stored) \in Nat
  BY <1>1, FS_Subset, FS_CardinalityType
<1>4. Cardinality(Stored') <= MaxRecords
  BY <1>2, <1>3, CapacityAssumption DEF OnePendingRecord
<1>5. \A r, q \in Recs :
          status'[r] = "pending" /\ status'[q] = "pending" /\ digest'[r] = digest'[q] => r = q
  BY DEF OnePendingRecord
<1> QED BY <1>4, <1>5 DEF OnePendingRecord

\* Create finds no pending record of its action, and room for one.
LEMMA CreateKeepsOne ==
  ASSUME GrantInv, OnePendingRecord, NEW p \in Hooks, NEW r \in Recs, Create(p, r)
  PROVE  OnePendingRecord'
<1> USE DEF GrantInv, TypeOK
<1>1. /\ \A q \in Recs : q # r => status'[q] = (IF q \in late[p] THEN "none" ELSE status[q])
                                  /\ digest'[q] = digest[q]
      /\ status'[r] = "pending" /\ digest'[r] = want[p]
  BY DEF Create, Pruned
<1>2. Stored' = Live(p) \cup {r} /\ Live(p) \in SUBSET Recs
  <2>1. r \notin Live(p)
    BY DEF Create, Fresh, RecordOK, Live, Stored
  <2> QED BY <1>1, <2>1 DEF Stored, Live
<1>3. IsFiniteSet(Live(p)) /\ Cardinality(Live(p)) \in Nat
  BY <1>2, RecsAssumption, FS_Subset, FS_CardinalityType
<1>4. Cardinality(Stored') <= Cardinality(Live(p)) + 1
  <2>1. r \notin Live(p)
    BY DEF Create, Fresh, RecordOK, Live, Stored
  <2>2. Cardinality(Live(p) \cup {r}) = Cardinality(Live(p)) + 1
    BY <1>3, <2>1, FS_AddElement
  <2> QED BY <1>2, <1>3, <2>2
<1>5. Cardinality(Stored') \in Nat
  BY <1>2, <1>3, FS_AddElement, FS_CardinalityType
<1>6. Cardinality(Stored') <= MaxRecords
  BY <1>3, <1>4, <1>5, CapacityAssumption DEF Create
<1>7. ASSUME NEW q \in Recs, q # r, status'[q] = "pending"
      PROVE  digest'[q] # want[p]
  <2>1. q \in Live(p) /\ status[q] = "pending"
    BY <1>1, <1>7 DEF Live, Stored
  <2> QED BY <1>1, <1>7, <2>1 DEF Create, Matching
<1>8. \A t, q \in Recs :
          status'[t] = "pending" /\ status'[q] = "pending" /\ digest'[t] = digest'[q] => t = q
  BY <1>1, <1>7 DEF OnePendingRecord
<1> QED BY <1>6, <1>8 DEF OnePendingRecord

\* Every step keeps one pending record for each action.
LEMMA PendingStep == GrantInv /\ OnePendingRecord /\ [Next]_vars => OnePendingRecord'
<1> SUFFICES ASSUME GrantInv, OnePendingRecord, [Next]_vars PROVE OnePendingRecord'
  OBVIOUS
<1> USE DEF GrantInv, TypeOK
<1>1. ASSUME NEW p \in Hooks, HookStep(p) PROVE OnePendingRecord'
  <2>1. ASSUME NEW r \in Recs, Consume(p, r) PROVE OnePendingRecord'
    BY <2>1, FewerRecords DEF Consume, Pruned, Matching
  <2>2. ASSUME NEW r \in Recs, Create(p, r) PROVE OnePendingRecord'
    BY <2>2, CreateKeepsOne
  <2> QED BY <1>1, <2>1, <2>2, FewerRecords
           DEF HookStep, HookAsk, ConsumeNothing, CreateNothing, Pruned
<1>2. ASSUME NEW p \in Operators, OperatorStep(p) PROVE OnePendingRecord'
  <2>1. CASE AuthorizeWrite(p)
    BY <2>1, FewerRecords DEF AuthorizeWrite, ProcOK, Holding
  <2>2. CASE Revoke(p)
    BY <2>2, FewerRecords DEF Revoke
  <2> QED BY <1>2, <2>1, <2>2, FewerRecords
           DEF OperatorStep, Review, ReviewRevoke, Confirm, Authorize, AuthorizeAudit
<1>3. ASSUME NEW p \in Procs, NEW gone \in SUBSET Recs, GiveUp(p, gone)
      PROVE  OnePendingRecord'
  BY <1>3, FewerRecords DEF GiveUp
<1> QED BY <1>1, <1>2, <1>3, FewerRecords DEF Next, Lapse, vars

\* The empty store has none.
LEMMA PendingInit == Init => OnePendingRecord
<1> SUFFICES ASSUME Init PROVE OnePendingRecord
  OBVIOUS
<1>1. Stored = {}
  BY DEF Init, Stored
<1>2. Cardinality(Stored) = 0
  BY <1>1, FS_EmptySet
<1> QED BY <1>2, CapacityAssumption DEF Init, OnePendingRecord

\* However often and from however many processes a call is retried, it leaves
\* one pending record, and the store keeps to its capacity (store.go, Create).
THEOREM RetriesShareOneRecord == Spec => []OnePendingRecord
<1>1. Init => GrantInv /\ OnePendingRecord
  BY GrantInit, PendingInit
<1>2. (GrantInv /\ OnePendingRecord) /\ [Next]_vars => (GrantInv /\ OnePendingRecord)'
  BY GrantStep, PendingStep
<1> QED BY <1>1, <1>2, PTL DEF Spec
=============================================================================
