-------------------------- MODULE OperatorAuthProofs --------------------------
(* Proofs about the credential store, for any number of ceremonies and     *)
(* credentials: the type invariant and the final-credential rule with all  *)
(* operations, the recovery properties until a management command starts.  *)
EXTENDS OperatorAuth, FiniteSetTheorems, TLAPS

USE DEF enrolled, files, history, locals, Goto, Absent, Kinds

----------------------------------------------------------------------------
(* The credential file as a value                                          *)

\* The absent file is the store of no credentials.
LEMMA EmptyStore == NoCredentials \in Stores /\ DOMAIN NoCredentials = {}
<1>1. NoCredentials \in [{} -> 0..MaxCount] /\ {} \in SUBSET Ids
  BY DEF NoCredentials
<1> QED BY <1>1 DEF Stores, NoCredentials

\* The credentials of a store are ids, with a sign count each.
LEMMA StoreDomain ==
  ASSUME NEW s \in Stores
  PROVE  /\ DOMAIN s \subseteq Ids
         /\ s \in [DOMAIN s -> 0..MaxCount]
BY DEF Stores

\* Sign counts for any set of ids are a store.
LEMMA MakeStore ==
  ASSUME NEW S \in SUBSET Ids, NEW s \in [S -> 0..MaxCount]
  PROVE  s \in Stores
BY DEF Stores

\* A sign-count update keeps the credentials.
LEMMA UpdatedStore ==
  ASSUME NEW s \in Stores, NEW i \in Ids \cup {"none"}, NEW n \in 0..MaxCount
  PROVE  /\ [s EXCEPT ![i] = n] \in Stores
         /\ DOMAIN [s EXCEPT ![i] = n] = DOMAIN s
<1>1. s \in [DOMAIN s -> 0..MaxCount] /\ DOMAIN s \in SUBSET Ids
  BY StoreDomain
<1>2. [s EXCEPT ![i] = n] \in [DOMAIN s -> 0..MaxCount]
  BY ZenonT(60), <1>1
<1> QED BY <1>1, <1>2, MakeStore

\* The initial enrolment is a store of one.
LEMMA InitialStore ==
  ASSUME NEW i \in Ids
  PROVE  /\ [j \in {i} |-> 0] \in Stores
         /\ DOMAIN [j \in {i} |-> 0] = {i}
<1>1. [j \in {i} |-> 0] \in [{i} -> 0..MaxCount] /\ {i} \in SUBSET Ids
  BY BoundsAssumption
<1> QED BY <1>1, MakeStore

\* An addition is a store.
LEMMA AddedStore ==
  ASSUME NEW s \in Stores, NEW i \in Ids
  PROVE  [j \in DOMAIN s \cup {i} |-> IF j = i THEN 0 ELSE s[j]] \in Stores
<1>1. s \in [DOMAIN s -> 0..MaxCount] /\ DOMAIN s \cup {i} \in SUBSET Ids
  BY StoreDomain
<1>2. [j \in DOMAIN s \cup {i} |-> IF j = i THEN 0 ELSE s[j]]
        \in [DOMAIN s \cup {i} -> 0..MaxCount]
  BY <1>1, BoundsAssumption
<1> QED BY <1>1, <1>2, MakeStore

\* A removal is a store.
LEMMA RemovedStore ==
  ASSUME NEW s \in Stores, NEW i
  PROVE  [j \in DOMAIN s \ {i} |-> s[j]] \in Stores
<1>1. s \in [DOMAIN s -> 0..MaxCount] /\ DOMAIN s \ {i} \in SUBSET Ids
  BY StoreDomain
<1>2. [j \in DOMAIN s \ {i} |-> s[j]] \in [DOMAIN s \ {i} -> 0..MaxCount]
  BY <1>1
<1> QED BY <1>1, <1>2, MakeStore

\* A store of two or more credentials keeps one when one is removed.
LEMMA OneRemains ==
  ASSUME NEW s \in Stores, Cardinality(DOMAIN s) >= 2, NEW t
  PROVE  DOMAIN s \ {t} # {}
<1>1. SUFFICES ASSUME DOMAIN s \subseteq {t} PROVE FALSE
  OBVIOUS
<1>2. IsFiniteSet({t}) /\ Cardinality({t}) = 1
  BY ZenonT(60), FS_Singleton
<1>3. IsFiniteSet(DOMAIN s) /\ Cardinality(DOMAIN s) <= 1
  BY <1>1, <1>2, FS_Subset
<1>4. Cardinality(DOMAIN s) \in Nat
  BY <1>3, FS_CardinalityType
<1> QED BY <1>3, <1>4

----------------------------------------------------------------------------
(* The type invariant, and that every write leaves a credential            *)

FilesOK ==
    /\ store \in Stores
    /\ generation \in Absent..MaxResets
    /\ lock \in Procs \cup {"free"}
    /\ made \subseteq Ids /\ revoked \subseteq Ids
    /\ managed \in {"no", "yes"}

LocalsOK ==
    /\ pc \in [Procs -> PCs]
    /\ kind \in [Procs -> Kinds \cup {"register", "none"}]
    /\ gen \in [Procs -> Absent..MaxResets]
    /\ digest \in [Procs -> Stores]
    /\ user \in [Procs -> Stores]
    /\ seen \in [Procs -> Stores]
    /\ cred \in [Procs -> Ids \cup {"none"}]
    /\ count \in [Procs -> 0..MaxCount]
    /\ target \in [Procs -> Ids \cup {"none"}]

\* The type invariant speaks of the shared files and of the local variables.
LEMMA TypeParts == TypeOK <=> FilesOK /\ LocalsOK
BY DEF TypeOK, FilesOK, LocalsOK

\* The next type invariant likewise.
LEMMA TypePartsNext == TypeOK' <=> FilesOK' /\ LocalsOK'
BY DEF TypeOK, FilesOK, LocalsOK

\* An operation that ends leaves typed variables, idle.
LEMMA ReturnTyped ==
  ASSUME LocalsOK, NEW p \in Procs, Return(p)
  PROVE  /\ LocalsOK'
         /\ pc' = [pc EXCEPT ![p] = "idle"]
         /\ \A q \in Procs \ {p} : /\ pc'[q] = pc[q] /\ cred'[q] = cred[q]
                                   /\ seen'[q] = seen[q] /\ target'[q] = target[q]
BY EmptyStore, BoundsAssumption DEF Return, LocalsOK, PCs

\* A step that only ends, or that does not touch what WritesSome reads,
\* preserves it.
LEMMA ReturnWrites ==
  ASSUME LocalsOK, WritesSome, NEW p \in Procs, Return(p)
  PROVE  WritesSome'
BY ReturnTyped DEF WritesSome, Committing, LocalsOK

StoreInv == TypeOK /\ WritesSome
ResetIfEmptied ==
    enrolled # {} /\ enrolled' = {} => \E p \in Procs : pc[p] = "resetRemove"

\* Beginning a ceremony writes at most the generation file.
LEMMA BeginsKeep ==
  ASSUME StoreInv, NEW p \in Procs,
         \/ \E k \in Kinds, t \in Ids \cup {"none"} : Begin(p, k, t)
         \/ Check(p)
         \/ ReadGeneration(p, "beginGen", "beginZero", "beginDigest")
         \/ ZeroGeneration(p, "beginZero", "beginDigest")
         \/ BeginDigest(p) \/ ReadUser(p)
         \/ VerifyGeneration(p)
  PROVE  StoreInv' /\ ResetIfEmptied
<1> USE DEF StoreInv, TypeOK, WritesSome, Committing, ResetIfEmptied, PCs
<1>1. CASE \E k \in Kinds, t \in Ids \cup {"none"} : Begin(p, k, t)
  <2>1. PICK k \in Kinds, t \in Ids \cup {"none"} : Begin(p, k, t)
    BY <1>1
  <2>2. /\ kind' \in [Procs -> Kinds \cup {"register", "none"}]
        /\ target' \in [Procs -> Ids \cup {"none"}]
        /\ managed' \in {"no", "yes"}
    BY <2>1 DEF Begin
  <2>3. pc' = [pc EXCEPT ![p] = "resetLock"] \/ pc' = [pc EXCEPT ![p] = "check"]
    BY ZenonT(60), <2>1 DEF Begin
  <2>4. TypeOK'
    BY ZenonT(60), <2>1, <2>2, <2>3 DEF Begin
  <2>5. \A q \in Procs : pc'[q] = "removeWrite" => target'[q] = target[q] /\ pc[q] = "removeWrite"
    BY <2>1, <2>3 DEF Begin
  <2>6. WritesSome'
    BY <2>1, <2>3, <2>5 DEF Begin
  <2> QED BY ZenonT(60), <2>1, <2>4, <2>6 DEF Begin
<1>2. CASE Check(p)
  BY <1>2 DEF Check
<1>3. CASE ReadGeneration(p, "beginGen", "beginZero", "beginDigest")
  <2>1. gen' \in [Procs -> Absent..MaxResets]
    BY <1>3 DEF ReadGeneration
  <2>2. pc' = [pc EXCEPT ![p] = "beginZero"] \/ pc' = [pc EXCEPT ![p] = "beginDigest"]
    BY <1>3 DEF ReadGeneration
  <2>3. TypeOK'
    BY <1>3, <2>1, <2>2 DEF ReadGeneration
  <2>4. WritesSome'
    BY <1>3, <2>2 DEF ReadGeneration
  <2> QED BY ZenonT(60), <1>3, <2>3, <2>4 DEF ReadGeneration
<1>4. CASE ZeroGeneration(p, "beginZero", "beginDigest")
  <2>1. generation' \in Absent..MaxResets /\ gen' \in [Procs -> Absent..MaxResets]
    BY <1>4, BoundsAssumption DEF ZeroGeneration
  <2> QED BY <1>4, <2>1 DEF ZeroGeneration
<1>5. CASE BeginDigest(p)
  BY <1>5 DEF BeginDigest
<1>6. CASE ReadUser(p)
  BY <1>6 DEF ReadUser
<1>7. CASE VerifyGeneration(p)
  BY SMTT(60), <1>7 DEF VerifyGeneration
<1> QED BY ZenonT(60), <1>1, <1>2, <1>3, <1>4, <1>5, <1>6, <1>7

\* Verifying an answer, taking the lock and reading under it write no file.
LEMMA VerifiesKeep ==
  ASSUME StoreInv, NEW p \in Procs,
         \/ VerifyRegistration(p) \/ VerifyAssertion(p)
         \/ CommitLock(p) \/ CommitCheck(p)
         \/ UpdateLock(p) \/ UpdateRead(p) \/ AddRead(p)
  PROVE  StoreInv' /\ ResetIfEmptied
<1> USE EmptyStore DEF StoreInv, TypeOK, WritesSome, Committing, ResetIfEmptied, PCs
<1>1. CASE VerifyRegistration(p)
  BY <1>1, NamesAssumption DEF VerifyRegistration, Forget
<1>2. CASE VerifyAssertion(p)
  <2>1. PICK i \in DOMAIN user[p] :
          /\ cred' = [cred EXCEPT ![p] = i]
          /\ \E n \in {user[p][i], user[p][i] + 1} \cap 0..MaxCount :
               count' = [count EXCEPT ![p] = n]
    BY ZenonT(60), <1>2 DEF VerifyAssertion
  <2>2. PICK n \in 0..MaxCount : count' = [count EXCEPT ![p] = n]
    BY ZenonT(60), <2>1
  <2>3. i \in Ids
    BY <2>1, StoreDomain
  <2> QED BY ZenonT(60), <1>2, <2>1, <2>2, <2>3 DEF VerifyAssertion, Forget
<1>3. CASE CommitLock(p)
  BY <1>3 DEF CommitLock, Acquire
<1>4. CASE CommitCheck(p)
  BY ZenonT(60), <1>4 DEF CommitCheck
<1>5. CASE UpdateLock(p)
  BY <1>5 DEF UpdateLock, Acquire
<1>6. CASE UpdateRead(p)
  BY ZenonT(60), <1>6 DEF UpdateRead
<1>7. CASE AddRead(p)
  BY <1>7 DEF AddRead
<1> QED BY ZenonT(60), <1>1, <1>2, <1>3, <1>4, <1>5, <1>6, <1>7

\* A removal reads a store of which something remains.
LEMMA RemoveReadKeeps ==
  ASSUME StoreInv, NEW p \in Procs, RemoveRead(p)
  PROVE  StoreInv' /\ ResetIfEmptied
<1>1. DOMAIN store \ {target[p]} # {}
  BY ZenonT(60), OneRemains DEF StoreInv, TypeOK, RemoveRead
<1> QED BY ZenonT(60), <1>1 DEF RemoveRead, StoreInv, TypeOK, WritesSome, Committing, ResetIfEmptied, PCs

\* The writes: the initial enrolment, the sign count, an addition, a removal.
LEMMA WritesKeep ==
  ASSUME StoreInv, NEW p \in Procs,
         CommitWrite(p) \/ UpdateWrite(p) \/ AddWrite(p) \/ RemoveWrite(p)
  PROVE  StoreInv' /\ ResetIfEmptied
<1>1. CASE CommitWrite(p)
  <2>1. cred[p] \in Ids
    BY <1>1 DEF CommitWrite, StoreInv, TypeOK, WritesSome, Committing
  <2>2. store' \in Stores /\ enrolled' = {cred[p]}
    BY <1>1, <2>1, InitialStore DEF CommitWrite
  <2>3. FilesOK'
    BY <1>1, <2>2 DEF CommitWrite, Release, StoreInv, TypeOK, FilesOK
  <2> QED BY ZenonT(60), <1>1, <2>2, <2>3, TypeParts, TypePartsNext, ReturnTyped, ReturnWrites
          DEF CommitWrite, StoreInv, ResetIfEmptied
<1>2. CASE UpdateWrite(p)
  <2>1. store' \in Stores /\ enrolled' = DOMAIN seen[p] /\ cred[p] \in DOMAIN seen[p]
    BY ZenonT(60), <1>2, UpdatedStore DEF UpdateWrite, StoreInv, TypeOK, WritesSome
  <2>2. FilesOK'
    BY <1>2, <2>1 DEF UpdateWrite, Release, StoreInv, TypeOK, FilesOK
  <2>3. CASE Return(p)
    BY <2>1, <2>2, <2>3, TypeParts, TypePartsNext, ReturnTyped, ReturnWrites
       DEF StoreInv, ResetIfEmptied
  <2>4. CASE ~Return(p)
    <3>1. LocalsOK'
      <4>1. /\ kind' \in [Procs -> Kinds \cup {"register", "none"}]
            /\ pc' \in [Procs -> PCs]
        BY <1>2, <2>4 DEF UpdateWrite, StoreInv, TypeOK, PCs
      <4>2. /\ gen' \in [Procs -> Absent..MaxResets]
            /\ cred' \in [Procs -> Ids \cup {"none"}]
            /\ count' \in [Procs -> 0..MaxCount]
        <5>1. Absent \in Absent..MaxResets /\ 0 \in 0..MaxCount
          BY BoundsAssumption
        <5>2. /\ gen' = [gen EXCEPT ![p] = Absent] /\ cred' = [cred EXCEPT ![p] = "none"]
              /\ count' = [count EXCEPT ![p] = 0]
          BY <1>2, <2>4 DEF UpdateWrite
        <5> QED BY <5>1, <5>2 DEF StoreInv, TypeOK
      <4>3. seen' \in [Procs -> Stores]
        <5>1. seen' = [seen EXCEPT ![p] = NoCredentials]
          BY SMTT(60), <1>2, <2>4 DEF UpdateWrite
        <5> QED BY <5>1, EmptyStore DEF StoreInv, TypeOK
      <4> QED BY <1>2, <2>4, <4>1, <4>2, <4>3 DEF UpdateWrite, StoreInv, TypeOK, LocalsOK
    <3>2. WritesSome'
      BY SMTT(60), <1>2, <2>4 DEF UpdateWrite, StoreInv, TypeOK, WritesSome, Committing
    <3> QED BY <2>1, <2>2, <3>1, <3>2, TypePartsNext DEF StoreInv, ResetIfEmptied
  <2> QED BY <2>3, <2>4
<1>3. CASE AddWrite(p)
  <2>1. cred[p] \in Ids /\ seen[p] \in Stores
    BY <1>3 DEF AddWrite, StoreInv, TypeOK, WritesSome
  <2>2. store' \in Stores /\ cred[p] \in enrolled'
    BY <1>3, <2>1, AddedStore DEF AddWrite
  <2>3. FilesOK'
    BY SMTT(60), <1>3, <2>2 DEF AddWrite, StoreInv, TypeOK, FilesOK
  <2> QED BY ZenonT(60), <1>3, <2>2, <2>3, TypeParts, TypePartsNext, ReturnTyped, ReturnWrites
          DEF AddWrite, StoreInv, ResetIfEmptied
<1>4. CASE RemoveWrite(p)
  <2>1. seen[p] \in Stores /\ DOMAIN seen[p] \ {target[p]} # {}
    BY <1>4 DEF RemoveWrite, StoreInv, TypeOK, WritesSome
  <2>2. store' \in Stores /\ enrolled' # {}
    BY <1>4, <2>1, RemovedStore DEF RemoveWrite
  <2>3. FilesOK'
    BY <1>4, <2>2 DEF RemoveWrite, StoreInv, TypeOK, FilesOK
  <2> QED BY ZenonT(60), <1>4, <2>2, <2>3, TypeParts, TypePartsNext, ReturnTyped, ReturnWrites
          DEF RemoveWrite, StoreInv, ResetIfEmptied
<1> QED BY <1>1, <1>2, <1>3, <1>4

\* A reset raises the generation, then removes the file; an operation may end
\* at any step.
LEMMA ResetsKeep ==
  ASSUME StoreInv, NEW p \in Procs,
         \/ ResetLock(p)
         \/ ReadGeneration(p, "resetGen", "resetZero", "resetBump")
         \/ ZeroGeneration(p, "resetZero", "resetBump")
         \/ ResetBump(p) \/ ResetRemove(p) \/ Fail(p)
  PROVE  StoreInv' /\ ResetIfEmptied
<1> USE DEF StoreInv, ResetIfEmptied
<1>1. CASE ResetLock(p)
  BY <1>1 DEF ResetLock, Acquire, TypeOK, WritesSome, Committing, PCs
<1>2. CASE ReadGeneration(p, "resetGen", "resetZero", "resetBump")
  <2>1. gen' \in [Procs -> Absent..MaxResets]
    BY <1>2 DEF ReadGeneration, TypeOK
  <2>2. pc' = [pc EXCEPT ![p] = "resetZero"] \/ pc' = [pc EXCEPT ![p] = "resetBump"]
    BY <1>2 DEF ReadGeneration
  <2>3. TypeOK'
    BY <1>2, <2>1, <2>2 DEF ReadGeneration, TypeOK, PCs
  <2>4. WritesSome'
    BY <1>2, <2>2 DEF ReadGeneration, TypeOK, WritesSome, Committing
  <2> QED BY <1>2, <2>3, <2>4 DEF ReadGeneration
<1>3. CASE ZeroGeneration(p, "resetZero", "resetBump")
  BY <1>3, BoundsAssumption DEF ZeroGeneration, TypeOK, WritesSome, Committing, PCs
<1>4. CASE ResetBump(p)
  <2>1. generation' \in Absent..MaxResets
    BY SMTT(60), <1>4, BoundsAssumption DEF ResetBump, TypeOK
  <2> QED BY <1>4, <2>1 DEF ResetBump, TypeOK, WritesSome, Committing, PCs
<1>5. CASE ResetRemove(p)
  <2>1. FilesOK'
    BY SMTT(60), <1>5, EmptyStore, StoreDomain DEF ResetRemove, Release, TypeOK, FilesOK
  <2> QED BY ZenonT(60), <1>5, <2>1, TypeParts, TypePartsNext, ReturnTyped, ReturnWrites DEF ResetRemove
<1>6. CASE Fail(p)
  <2>1. FilesOK'
    BY <1>6 DEF Fail, Release, TypeOK, FilesOK
  <2> QED BY ZenonT(60), <1>6, <2>1, TypeParts, TypePartsNext, ReturnTyped, ReturnWrites DEF Fail
<1> QED BY <1>1, <1>2, <1>3, <1>4, <1>5, <1>6

\* The first state is typed and writes nothing.
LEMMA StoreInvInit == Init => StoreInv
BY EmptyStore, BoundsAssumption DEF Init, StoreInv, TypeOK, WritesSome, Committing, PCs

\* Every step keeps the invariant, and only a reset's removal empties the store.
LEMMA StoreInvStep ==
  StoreInv /\ [Next]_vars => StoreInv' /\ (ResetIfEmptied \/ UNCHANGED vars)
<1> SUFFICES ASSUME StoreInv, [Next]_vars
             PROVE  StoreInv' /\ (ResetIfEmptied \/ UNCHANGED vars)
  OBVIOUS
<1>1. CASE UNCHANGED vars
  BY <1>1 DEF vars, StoreInv, TypeOK, WritesSome
<1>2. CASE Next
  <2>1. PICK p \in Procs :
          \/ \E k \in Kinds, t \in Ids \cup {"none"} : Begin(p, k, t)
          \/ Step(p)
          \/ Fail(p)
    BY <1>2 DEF Next
  <2> QED BY <2>1, BeginsKeep, VerifiesKeep, RemoveReadKeeps, WritesKeep, ResetsKeep DEF Step
<1> QED BY <1>1, <1>2

\* The variables are typed, and a write in progress leaves a credential, with
\* every operation and any number of ceremonies.
THEOREM StoreInvAlways == Spec => [](TypeOK /\ WritesSome)
<1>1. Init => StoreInv
  BY StoreInvInit
<1>2. StoreInv /\ [Next]_vars => StoreInv'
  BY StoreInvStep
<1> QED BY <1>1, <1>2, PTL DEF Spec, StoreInv

\* Removals never empty the store, however they overlap: only a reset does.
THEOREM FinalCredentialKept == Spec => OnlyResetEmpties
<1>1. Init => StoreInv
  BY StoreInvInit
<1>2. StoreInv /\ [Next]_vars => StoreInv'
  BY StoreInvStep
<1>3. StoreInv /\ [Next]_vars => [ResetIfEmptied]_vars
  BY SMTT(60), StoreInvStep
<1> QED BY <1>1, <1>2, <1>3, PTL DEF Spec, OnlyResetEmpties, ResetIfEmptied

----------------------------------------------------------------------------
(* Until a management command is started: recovery                         *)

LockedKinds == {"enroll", "approve", "reset"}

Guarded == \A p \in Procs : pc[p] \in Holding => lock = p
Unmanaged ==
    \A p \in Procs :
        /\ pc[p] \notin Managing /\ kind[p] \in {"none"} \cup LockedKinds
        /\ pc[p] \in Updating => kind[p] = "approve"
ReadFresh ==
    \A p \in Procs :
        /\ pc[p] = "updateWrite" => seen[p] = store
        /\ pc[p] = "commitWrite" => enrolled = {}
        /\ pc[p] \in Committing => cred[p] \in made \ (enrolled \cup revoked)
Distinct ==
    \A p, q \in Procs :
        p # q /\ pc[p] \in Committing /\ pc[q] \in Committing => cred[p] # cred[q]
Recorded == enrolled \cup revoked \subseteq made

\* The invariant in its parts; the two properties are consequences.
LockedInv ==
    StoreInv /\ Guarded /\ Unmanaged /\ ReadFresh /\ Distinct /\ Recorded
             /\ RevokedStaysRevoked

\* The invariant TLC checks, in its parts.
CredentialParts == StoreInv /\ (managed = "no" => LockedInv)

\* The parts give the invariant TLC checks.
LEMMA CredentialMeaning == CredentialParts => CredentialInv
BY ZenonT(60) DEF CredentialParts, LockedInv, StoreInv, Guarded, Unmanaged, ReadFresh, Distinct, Recorded,
       CredentialInv, LockedKinds

\* A process that moves outside the lock and the commit, and changes nothing
\* the parts read but its own place, keeps them.
LEMMA QuietMove ==
  ASSUME LockedInv, NEW p \in Procs, NEW l \in PCs \ (Holding \cup Committing \cup Managing),
         pc' = [pc EXCEPT ![p] = l],
         UNCHANGED <<store, lock, made, revoked>>,
         \A q \in Procs \ {p} : cred'[q] = cred[q] /\ seen'[q] = seen[q] /\ kind'[q] = kind[q],
         kind'[p] \in {"none"} \cup LockedKinds,
         l = "updateLock" => kind'[p] = "approve"
  PROVE  Guarded' /\ Unmanaged' /\ ReadFresh' /\ Distinct' /\ Recorded' /\ RevokedStaysRevoked'
<1>1. pc \in [Procs -> PCs]
  BY DEF LockedInv, StoreInv, TypeOK
<1>2. /\ pc'[p] = l
      /\ \A q \in Procs \ {p} : pc'[q] = pc[q]
  BY ZenonT(60), <1>1
<1>3. Guarded'
  BY ZenonT(60), <1>2 DEF LockedInv, Guarded
<1>4. Unmanaged'
  BY ZenonT(60), <1>2 DEF LockedInv, Unmanaged, Updating, Holding
<1>5. ReadFresh'
  BY <1>2 DEF LockedInv, ReadFresh, Holding
<1>6. Distinct'
  BY <1>2 DEF LockedInv, Distinct
<1>7. Recorded' /\ RevokedStaysRevoked'
  BY DEF LockedInv, Recorded, RevokedStaysRevoked
<1> QED BY ZenonT(60), <1>3, <1>4, <1>5, <1>6, <1>7

\* Beginning and answering a ceremony is such a move.
LEMMA LockedBegins ==
  ASSUME managed' = "no", LockedInv, NEW p \in Procs,
         \/ \E k \in Kinds, t \in Ids \cup {"none"} : Begin(p, k, t)
         \/ Check(p)
         \/ ReadGeneration(p, "beginGen", "beginZero", "beginDigest")
         \/ ZeroGeneration(p, "beginZero", "beginDigest")
         \/ BeginDigest(p) \/ ReadUser(p)
         \/ VerifyGeneration(p) \/ VerifyAssertion(p)
  PROVE  LockedInv' /\ enrolled' = enrolled
<1>1. StoreInv'
  BY BeginsKeep, VerifiesKeep DEF LockedInv
<1>2. /\ pc \in [Procs -> PCs] /\ cred \in [Procs -> Ids \cup {"none"}]
      /\ seen \in [Procs -> Stores]
      /\ kind \in [Procs -> Kinds \cup {"register", "none"}]
      /\ kind[p] \in {"none"} \cup LockedKinds
  BY DEF LockedInv, StoreInv, TypeOK, Unmanaged
<1>3. \E l \in PCs \ (Holding \cup Committing \cup Managing) :
        /\ pc' = [pc EXCEPT ![p] = l]
        /\ l = "updateLock" => kind'[p] = "approve"
  <2>1. CASE VerifyAssertion(p)
    <3>1. kind'[p] = "approve" /\ pc' = [pc EXCEPT ![p] = "updateLock"]
      BY ZenonT(60), <1>2, <2>1 DEF VerifyAssertion, LockedKinds
    <3>2. "updateLock" \in PCs \ (Holding \cup Committing \cup Managing)
      BY DEF PCs, Holding, Committing, Managing
    <3> QED BY ZenonT(60), <3>1, <3>2
  <2>2. CASE ~VerifyAssertion(p)
    <3>1. \E l \in {"check", "resetLock", "beginGen", "beginZero", "beginDigest", "user",
                   "waiting", "verifyDigest"} : pc' = [pc EXCEPT ![p] = l]
      BY ZenonT(60), <2>2 DEF Begin, Check, ReadGeneration, ZeroGeneration, BeginDigest, ReadUser,
                  VerifyGeneration
    <3> QED BY ZenonT(60), <3>1 DEF PCs, Holding, Committing, Managing
  <2> QED BY <2>1, <2>2
<1>4. UNCHANGED <<store, lock, made, revoked>>
  BY ZenonT(60) DEF Begin, Check, ReadGeneration, ZeroGeneration, BeginDigest, ReadUser,
         VerifyGeneration, VerifyAssertion
<1>5. /\ \A q \in Procs \ {p} : cred'[q] = cred[q] /\ seen'[q] = seen[q] /\ kind'[q] = kind[q]
      /\ kind'[p] \in {"none"} \cup LockedKinds
  <2>1. CASE \E k \in Kinds, t \in Ids \cup {"none"} : Begin(p, k, t)
    BY SMTT(60), <1>2, <2>1 DEF Begin, LockedKinds
  <2>2. CASE VerifyAssertion(p)
    BY ZenonT(60), <1>2, <2>2 DEF VerifyAssertion
  <2>3. CASE \/ Check(p)
             \/ ReadGeneration(p, "beginGen", "beginZero", "beginDigest")
             \/ ZeroGeneration(p, "beginZero", "beginDigest")
             \/ BeginDigest(p) \/ ReadUser(p)
             \/ VerifyGeneration(p)
    BY ZenonT(60), <1>2, <2>3 DEF Check, ReadGeneration, ZeroGeneration, BeginDigest, ReadUser, VerifyGeneration
  <2> QED BY ZenonT(60), <2>1, <2>2, <2>3
<1> QED BY ZenonT(60), <1>1, <1>3, <1>4, <1>5, QuietMove DEF LockedInv

\* A registration makes a credential of its own; the steps under the lock read
\* the store as it stays until they write.
LEMMA LockedReads ==
  ASSUME LockedInv, NEW p \in Procs,
         \/ VerifyRegistration(p) \/ CommitLock(p) \/ CommitCheck(p)
         \/ UpdateLock(p) \/ UpdateRead(p)
  PROVE  LockedInv' /\ enrolled' = enrolled
<1>1. StoreInv' /\ store' = store /\ revoked' = revoked
  BY ZenonT(60), VerifiesKeep DEF LockedInv, VerifyRegistration, CommitLock, CommitCheck, UpdateLock,
                      UpdateRead, Acquire
<1>2. /\ pc \in [Procs -> PCs] /\ cred \in [Procs -> Ids \cup {"none"}]
      /\ seen \in [Procs -> Stores]
  BY DEF LockedInv, StoreInv, TypeOK
<1>3. Recorded' /\ RevokedStaysRevoked'
  BY <1>1 DEF LockedInv, Recorded, RevokedStaysRevoked, VerifyRegistration, CommitLock,
              CommitCheck, UpdateLock, UpdateRead, Acquire
<1>4. CASE VerifyRegistration(p)
  <2>1. kind[p] = "enroll"
    BY ZenonT(60), <1>4 DEF VerifyRegistration, LockedInv, Unmanaged, LockedKinds, Updating
  <2>2. PICK i \in Ids \ made : made' = made \cup {i} /\ cred' = [cred EXCEPT ![p] = i]
    BY ZenonT(60), <1>4 DEF VerifyRegistration
  <2>3. pc' = [pc EXCEPT ![p] = "commitLock"] /\ UNCHANGED <<lock, kind, seen>>
    BY <1>4, <2>1 DEF VerifyRegistration
  <2>4. Guarded' /\ Unmanaged'
    BY <1>2, <2>3 DEF LockedInv, Guarded, Unmanaged, Holding, Managing, Updating
  <2>5. ReadFresh'
    BY <1>1, <1>2, <2>2, <2>3 DEF LockedInv, ReadFresh, Recorded, Committing
  <2>6. Distinct'
    BY <1>2, <2>2, <2>3 DEF LockedInv, Distinct, ReadFresh, Committing
  <2> QED BY SMTT(60), <1>1, <1>3, <2>4, <2>5, <2>6 DEF LockedInv
<1>5. CASE CommitLock(p) \/ UpdateLock(p)
  <2>1. /\ lock = "free" /\ lock' = p /\ UNCHANGED <<made, kind, seen, cred>>
        /\ \/ pc[p] = "commitLock" /\ pc' = [pc EXCEPT ![p] = "commitCheck"]
           \/ pc[p] = "updateLock" /\ pc' = [pc EXCEPT ![p] = "updateRead"]
    BY <1>5 DEF CommitLock, UpdateLock, Acquire
  <2>2. \A q \in Procs : pc[q] \notin Holding
    BY <2>1, NamesAssumption DEF LockedInv, Guarded
  <2>3. Guarded' /\ Unmanaged'
    BY ZenonT(60), <1>2, <2>1, <2>2 DEF LockedInv, Guarded, Unmanaged, Managing, Updating
  <2>4. ReadFresh' /\ Distinct'
    BY <1>1, <1>2, <2>1 DEF LockedInv, ReadFresh, Distinct, Committing
  <2> QED BY <1>1, <1>3, <2>3, <2>4 DEF LockedInv
<1>6. CASE CommitCheck(p)
  <2>1. /\ enrolled = {} /\ UNCHANGED <<lock, made, kind, seen, cred>>
        /\ pc[p] = "commitCheck" /\ pc' = [pc EXCEPT ![p] = "commitWrite"]
    BY <1>6 DEF CommitCheck
  <2>2. Guarded' /\ Unmanaged'
    BY <1>2, <2>1 DEF LockedInv, Guarded, Unmanaged, Holding, Managing, Updating
  <2>3. ReadFresh' /\ Distinct'
    BY <1>1, <1>2, <2>1 DEF LockedInv, ReadFresh, Distinct, Committing
  <2> QED BY <1>1, <1>3, <2>2, <2>3 DEF LockedInv
<1>7. CASE UpdateRead(p)
  <2>1. /\ seen' = [seen EXCEPT ![p] = store] /\ UNCHANGED <<lock, made, kind, cred>>
        /\ pc[p] = "updateRead" /\ pc' = [pc EXCEPT ![p] = "updateWrite"]
    BY <1>7 DEF UpdateRead
  <2>2. Guarded' /\ Unmanaged'
    BY <1>2, <2>1 DEF LockedInv, Guarded, Unmanaged, Holding, Managing, Updating
  <2>3. ReadFresh' /\ Distinct'
    BY <1>1, <1>2, <2>1 DEF LockedInv, ReadFresh, Distinct, Committing
  <2> QED BY <1>1, <1>3, <2>2, <2>3 DEF LockedInv
<1> QED BY SMTT(60), <1>1, <1>4, <1>5, <1>6, <1>7

\* While one process holds the lock no other is about to write.
LEMMA OthersWait ==
  ASSUME Guarded, NEW p \in Procs, pc[p] \in Holding
  PROVE  /\ lock = p
         /\ \A q \in Procs \ {p} : pc[q] \notin Holding
BY DEF Guarded

\* The writes of the initial enrolment and of a sign count.
LEMMA LockedWrites ==
  ASSUME LockedInv, NEW p \in Procs, CommitWrite(p) \/ UpdateWrite(p)
  PROVE  LockedInv' /\ enrolled \subseteq enrolled'
<1>1. StoreInv'
  BY WritesKeep DEF LockedInv
<1>2. /\ \A q \in Procs \ {p} : pc[q] \notin Holding
      /\ LocalsOK
  BY OthersWait, TypeParts DEF LockedInv, StoreInv, CommitWrite, UpdateWrite, Holding
<1>3. Return(p)
  BY SMTT(60) DEF CommitWrite, UpdateWrite, LockedInv, Unmanaged, LockedKinds, Updating
<1>4. /\ pc' = [pc EXCEPT ![p] = "idle"] /\ pc'[p] = "idle" /\ kind'[p] = "none"
      /\ \A q \in Procs \ {p} : /\ pc'[q] = pc[q] /\ cred'[q] = cred[q]
                                /\ seen'[q] = seen[q] /\ kind'[q] = kind[q]
  BY ZenonT(60), <1>2, <1>3, ReturnTyped DEF Return, LocalsOK
<1>5. Guarded' /\ Unmanaged' /\ Distinct'
  <2>1. Guarded'
    BY <1>2, <1>4 DEF Guarded, Holding
  <2>2. Unmanaged'
    BY <1>4 DEF LockedInv, Unmanaged, Managing, Updating
  <2>3. Distinct'
    BY <1>4 DEF LockedInv, Distinct, Committing
  <2> QED BY <2>1, <2>2, <2>3
<1>6. /\ made' = made /\ revoked' = revoked
  BY DEF CommitWrite, UpdateWrite
<1>7. CASE CommitWrite(p)
  <2>1. enrolled' = {cred[p]} /\ enrolled = {} /\ cred[p] \in made \ revoked
    BY <1>7 DEF CommitWrite, LockedInv, ReadFresh, Committing
  <2>2. \A q \in Procs \ {p} : pc[q] \in Committing => cred[q] # cred[p]
    BY <1>7 DEF CommitWrite, LockedInv, Distinct, Committing
  <2>3. ReadFresh'
    BY <1>2, <1>4, <1>6, <2>1, <2>2 DEF LockedInv, ReadFresh, Committing, Holding
  <2>4. Recorded' /\ RevokedStaysRevoked'
    BY <1>6, <2>1 DEF LockedInv, Recorded, RevokedStaysRevoked
  <2> QED BY <1>1, <1>5, <2>1, <2>3, <2>4 DEF LockedInv
<1>8. CASE UpdateWrite(p)
  <2>1. enrolled' = enrolled
    BY ZenonT(60), <1>8 DEF UpdateWrite, LockedInv, ReadFresh
  <2>2. ReadFresh'
    BY <1>2, <1>4, <1>6, <2>1 DEF LockedInv, ReadFresh, Committing, Holding
  <2>3. Recorded' /\ RevokedStaysRevoked'
    BY <1>6, <2>1 DEF LockedInv, Recorded, RevokedStaysRevoked
  <2> QED BY ZenonT(60), <1>1, <1>5, <2>1, <2>2, <2>3 DEF LockedInv
<1> QED BY <1>7, <1>8

\* A reset removes credentials no one is about to write back.
LEMMA LockedResets ==
  ASSUME LockedInv, NEW p \in Procs,
         \/ ResetLock(p)
         \/ ReadGeneration(p, "resetGen", "resetZero", "resetBump")
         \/ ZeroGeneration(p, "resetZero", "resetBump")
         \/ ResetBump(p)
  PROVE  LockedInv' /\ enrolled' = enrolled
<1>1. StoreInv'
  BY ResetsKeep DEF LockedInv
<1>2. /\ pc \in [Procs -> PCs]
      /\ UNCHANGED <<store, made, revoked, kind, seen, cred>>
      /\ \E l \in {"resetGen", "resetZero", "resetBump", "resetRemove"} :
           pc' = [pc EXCEPT ![p] = l]
  <2>1. pc \in [Procs -> PCs]
    BY DEF LockedInv, StoreInv, TypeOK
  <2>2. UNCHANGED <<store, made, revoked, kind, seen, cred>>
    BY DEF ResetLock, Acquire, ReadGeneration, ZeroGeneration, ResetBump
  <2>3. \E l \in {"resetGen", "resetZero", "resetBump", "resetRemove"} :
          pc' = [pc EXCEPT ![p] = l]
    BY DEF ResetLock, Acquire, ReadGeneration, ZeroGeneration, ResetBump
  <2> QED BY ZenonT(60), <2>1, <2>2, <2>3
<1>3. Guarded'
  <2>1. CASE ResetLock(p)
    BY <1>2, <2>1, NamesAssumption DEF ResetLock, Acquire, LockedInv, Guarded, Holding
  <2>2. CASE ~ResetLock(p)
    <3>1. lock' = lock /\ pc[p] \in Holding
      BY SMTT(60), <2>2 DEF ReadGeneration, ZeroGeneration, ResetBump, Holding
    <3> QED BY <1>2, <3>1 DEF LockedInv, Guarded, Holding
  <2> QED BY SMTT(60), <2>1, <2>2
<1>4. Unmanaged' /\ ReadFresh' /\ Distinct'
  BY ZenonT(60), <1>2 DEF LockedInv, Unmanaged, ReadFresh, Distinct, Committing, Managing, Updating
<1>5. Recorded' /\ RevokedStaysRevoked'
  BY <1>2 DEF LockedInv, Recorded, RevokedStaysRevoked
<1> QED BY <1>1, <1>2, <1>3, <1>4, <1>5 DEF LockedInv

\* The removal of the file, and an operation that ends.
LEMMA LockedEnds ==
  ASSUME LockedInv, NEW p \in Procs, ResetRemove(p) \/ Fail(p)
  PROVE  LockedInv' /\ (enrolled' = enrolled \/ enrolled' = {})
<1>1. StoreInv'
  BY ResetsKeep DEF LockedInv
<1>2. LocalsOK /\ Return(p) /\ made' = made
  BY SMTT(60), TypeParts DEF LockedInv, StoreInv, ResetRemove, Fail
<1>3. /\ pc' = [pc EXCEPT ![p] = "idle"] /\ pc'[p] = "idle" /\ kind'[p] = "none"
      /\ \A q \in Procs \ {p} : /\ pc'[q] = pc[q] /\ cred'[q] = cred[q]
                                /\ seen'[q] = seen[q] /\ kind'[q] = kind[q]
  BY ZenonT(60), <1>2, ReturnTyped DEF Return, LocalsOK
<1>4. Guarded'
  BY ZenonT(60), <1>3 DEF LockedInv, Guarded, ResetRemove, Fail, Release, Holding
<1>5. Unmanaged' /\ Distinct'
  <2>1. Unmanaged'
    BY <1>3 DEF LockedInv, Unmanaged, Managing, Updating
  <2>2. Distinct'
    BY <1>3 DEF LockedInv, Distinct, Committing
  <2> QED BY <2>1, <2>2
<1>6. CASE ResetRemove(p)
  <2>1. enrolled' = {} /\ revoked' = revoked \cup enrolled
    BY <1>6, EmptyStore DEF ResetRemove
  <2>2. \A q \in Procs \ {p} : pc[q] \notin Holding
    BY <1>6, OthersWait DEF ResetRemove, LockedInv, Holding
  <2>3. ReadFresh'
    BY SMTT(60), <1>2, <1>3, <2>1, <2>2 DEF LockedInv, ReadFresh, Committing, Holding
  <2>4. Recorded' /\ RevokedStaysRevoked'
    BY <1>2, <2>1 DEF LockedInv, Recorded, RevokedStaysRevoked
  <2> QED BY <1>1, <1>4, <1>5, <2>1, <2>3, <2>4 DEF LockedInv
<1>7. CASE Fail(p)
  <2>1. store' = store /\ revoked' = revoked
    BY SMTT(60), <1>7 DEF Fail
  <2>2. ReadFresh' /\ Recorded' /\ RevokedStaysRevoked'
    BY <1>2, <1>3, <2>1 DEF LockedInv, ReadFresh, Recorded, RevokedStaysRevoked, Committing
  <2> QED BY <1>1, <1>4, <1>5, <2>1, <2>2 DEF LockedInv
<1> QED BY <1>6, <1>7

\* Nothing is enrolled, made or revoked in the first state.
LEMMA LockedInvInit == Init => LockedInv
<1> SUFFICES ASSUME Init PROVE LockedInv
  OBVIOUS
<1>1. enrolled = {}
  BY EmptyStore DEF Init
<1> QED BY <1>1, StoreInvInit
        DEF Init, LockedInv, Guarded, Unmanaged, ReadFresh, Distinct, Recorded,
            RevokedStaysRevoked, Holding, Committing, Managing, Updating

\* Every step keeps the invariant, and takes no credential away but by a reset.
LEMMA LockedInvStep ==
  ASSUME managed' = "no", LockedInv, [Next]_vars
  PROVE  LockedInv' /\ (enrolled \subseteq enrolled' \/ enrolled' = {})
<1>1. CASE UNCHANGED vars
  <2>1. StoreInv'
    BY SMTT(60), <1>1, StoreInvStep DEF LockedInv
  <2> QED BY ZenonT(60), <1>1, <2>1 DEF vars, LockedInv, Guarded, Unmanaged, ReadFresh, Distinct, Recorded,
                         RevokedStaysRevoked
<1>2. CASE Next
  <2>1. PICK p \in Procs :
          \/ \E k \in Kinds, t \in Ids \cup {"none"} : Begin(p, k, t)
          \/ Step(p)
          \/ Fail(p)
    BY <1>2 DEF Next
  <2>2. ~AddRead(p) /\ ~AddWrite(p) /\ ~RemoveRead(p) /\ ~RemoveWrite(p)
    BY ZenonT(60) DEF AddRead, AddWrite, RemoveRead, RemoveWrite, LockedInv, Unmanaged, Managing
  <2> QED BY ZenonT(60), <2>1, <2>2, LockedBegins, LockedReads, LockedWrites, LockedResets, LockedEnds DEF Step
<1> QED BY SMTT(60), <1>1, <1>2

\* No step forgets that a management command was started.
LEMMA ManagedStays ==
  ASSUME [Next]_vars, managed' = "no"
  PROVE  managed = "no"
<1>1. CASE UNCHANGED vars
  BY <1>1 DEF vars
<1>2. CASE Next
  <2>1. PICK p \in Procs :
          \/ \E k \in Kinds, t \in Ids \cup {"none"} : Begin(p, k, t)
          \/ Step(p)
          \/ Fail(p)
    BY <1>2 DEF Next
  <2>2. CASE \E k \in Kinds, t \in Ids \cup {"none"} : Begin(p, k, t)
    BY SMTT(60), <2>2 DEF Begin
  <2>3. CASE Step(p) \/ Fail(p)
    BY ZenonT(60), <2>3 DEF Step, Fail, Check, ReadGeneration, ZeroGeneration, BeginDigest, ReadUser,
                VerifyGeneration, VerifyRegistration, VerifyAssertion, CommitLock, CommitCheck,
                CommitWrite, UpdateLock, UpdateRead, UpdateWrite, AddRead, AddWrite, RemoveRead,
                RemoveWrite, ResetLock, ResetBump, ResetRemove, Acquire
  <2> QED BY <2>1, <2>2, <2>3
<1> QED BY <1>1, <1>2

KeptIfUnmanaged == managed' = "no" => enrolled \subseteq enrolled' \/ enrolled' = {}

\* The parts are inductive, and the store only grows but for a reset.
LEMMA CredentialStep ==
  ASSUME CredentialParts, [Next]_vars
  PROVE  CredentialParts' /\ KeptIfUnmanaged
<1>1. StoreInv'
  BY StoreInvStep DEF CredentialParts
<1>2. ASSUME managed' = "no"
      PROVE  LockedInv' /\ (enrolled \subseteq enrolled' \/ enrolled' = {})
  <2>1. LockedInv
    BY <1>2, ManagedStays DEF CredentialParts
  <2> QED BY ZenonT(60), <1>2, <2>1, LockedInvStep
<1> QED BY <1>1, <1>2 DEF CredentialParts, KeptIfUnmanaged

\* The first state has the parts.
LEMMA CredentialInit == Init => CredentialParts
BY StoreInvInit, LockedInvInit DEF CredentialParts

\* The invariant the run checks, for any number of ceremonies, credentials,
\* sign counts and resets.
THEOREM CredentialInvAlways == Spec => []CredentialInv
<1>1. CredentialParts /\ [Next]_vars => CredentialParts'
  BY CredentialStep
<1> QED BY <1>1, CredentialInit, CredentialMeaning, PTL DEF Spec

\* Whatever ceremonies a reset overtakes, what it revoked stays revoked until
\* a management command is started.
THEOREM RecoveryHolds == Spec => []RevokedUnlessManaged
<1>1. CredentialInv => RevokedUnlessManaged
  BY ZenonT(60) DEF CredentialInv, WritesSome, RevokedUnlessManaged
<1> QED BY <1>1, CredentialInvAlways, PTL

\* And until then an assertion is accepted only with a credential that is
\* enrolled at that moment.
THEOREM AcceptanceHolds == Spec => []AcceptedIsEnrolled
<1>1. CredentialInv => AcceptedIsEnrolled
  BY ZenonT(60) DEF CredentialInv, WritesSome, AcceptedIsEnrolled
<1> QED BY <1>1, CredentialInvAlways, PTL

\* And no initial enrolment or update ever takes a credential away.
THEOREM EnrolmentsHold == Spec => EnrolmentsAreKept
<1>1. CredentialParts /\ [Next]_vars => CredentialParts'
  BY CredentialStep
<1>2. CredentialParts /\ [Next]_vars => [KeptIfUnmanaged]_vars
  BY CredentialStep
<1> QED BY <1>1, <1>2, CredentialInit, PTL DEF Spec, EnrolmentsAreKept, KeptIfUnmanaged
=============================================================================
