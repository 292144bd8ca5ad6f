---------------------------- MODULE OperatorAuth ----------------------------
(***************************************************************************)
(* The operator's credential store and its WebAuthn ceremonies             *)
(* (internal/operatorauth, cmd/guardrail/operator.go).                     *)
(*                                                                         *)
(* One file holds the enrolled credentials, another the recovery           *)
(* generation.  A ceremony remembers both as it begins, waits for the      *)
(* browser, compares them again as it finishes, and only then writes the   *)
(* credential file: the initial enrolment, the sign-count update and the   *)
(* recovery reset under the enrolment lock, the additions and removals     *)
(* without it.  Each ceremony is a process of its own: the broker's        *)
(* assertions and the terminal commands meet only in the two files and the *)
(* lock.  A ceremony may end at any step (an I/O error, an invalid         *)
(* response, its expiry, the death of its process); the kernel then drops  *)
(* the lock.                                                               *)
(***************************************************************************)
EXTENDS Integers, FiniteSets

CONSTANTS
    Ids,        \* credential ids; every registration makes a new one
    Procs,      \* concurrently running ceremonies
    MaxCount,   \* bound on a credential's sign count
    MaxResets   \* bound on the recovery generation

Kinds == {"enroll", "approve", "add", "remove", "reset"}

ASSUME BoundsAssumption == MaxCount \in Nat /\ MaxResets \in Nat
ASSUME IdsAssumption == IsFiniteSet(Ids)
ASSUME NamesAssumption == "none" \notin Ids /\ "free" \notin Procs

VARIABLES
    store,      \* the credential file: enrolled ids and their sign counts
    generation, \* the generation file, or Absent
    lock,       \* the process that holds the enrolment lock, or "free"
    made,       \* the ids registrations have made
    revoked,    \* the ids a completed recovery reset has removed
    managed,    \* "yes" once an addition or a removal has been started
    pc,         \* Procs -> where each ceremony stands
    kind,       \* Procs -> the operation; "register" is an addition's second half
    gen,        \* Procs -> the generation the ceremony remembers
    digest,     \* Procs -> the credential file the ceremony remembers
    user,       \* Procs -> the credentials an assertion may be answered with
    seen,       \* Procs -> the credential file as read before a write
    cred,       \* Procs -> the credential that answered, or that was made
    count,      \* Procs -> the sign count of the answer
    target      \* Procs -> the credential to remove

files == <<store, generation>>
locals == <<kind, gen, digest, user, seen, cred, count, target>>
history == <<made, revoked, managed>>
vars == <<files, lock, history, pc, locals>>

Absent == -1
NoCredentials == [i \in {} |-> 0]

\* What the credential file may hold; Replace never writes an empty set.
Stores == UNION {[S -> 0..MaxCount] : S \in SUBSET Ids}

PCs == {"idle", "check", "beginGen", "beginZero", "beginDigest", "user",
        "waiting", "verifyDigest", "commitLock", "commitCheck",
        "commitWrite", "updateLock", "updateRead", "updateWrite", "addRead",
        "addWrite", "removeRead", "removeWrite", "resetLock", "resetGen",
        "resetZero", "resetBump", "resetRemove"}

TypeOK ==
    /\ store \in Stores
    /\ generation \in Absent..MaxResets
    /\ lock \in Procs \cup {"free"}
    /\ made \subseteq Ids /\ revoked \subseteq Ids
    /\ managed \in {"no", "yes"}
    /\ pc \in [Procs -> PCs]
    /\ kind \in [Procs -> Kinds \cup {"register", "none"}]
    /\ gen \in [Procs -> Absent..MaxResets]
    /\ digest \in [Procs -> Stores]
    /\ user \in [Procs -> Stores]
    /\ seen \in [Procs -> Stores]
    /\ cred \in [Procs -> Ids \cup {"none"}]
    /\ count \in [Procs -> 0..MaxCount]
    /\ target \in [Procs -> Ids \cup {"none"}]

Init ==
    /\ store = NoCredentials /\ generation = Absent
    /\ lock = "free" /\ made = {} /\ revoked = {} /\ managed = "no"
    /\ pc = [p \in Procs |-> "idle"]
    /\ kind = [p \in Procs |-> "none"]
    /\ gen = [p \in Procs |-> Absent]
    /\ digest = [p \in Procs |-> NoCredentials]
    /\ user = [p \in Procs |-> NoCredentials]
    /\ seen = [p \in Procs |-> NoCredentials]
    /\ cred = [p \in Procs |-> "none"]
    /\ count = [p \in Procs |-> 0]
    /\ target = [p \in Procs |-> "none"]

enrolled == DOMAIN store

Goto(p, label) == pc' = [pc EXCEPT ![p] = label]

\* The operation ends and its local variables with it.
Return(p) ==
    /\ pc' = [pc EXCEPT ![p] = "idle"]
    /\ kind' = [kind EXCEPT ![p] = "none"]
    /\ gen' = [gen EXCEPT ![p] = Absent]
    /\ digest' = [digest EXCEPT ![p] = NoCredentials]
    /\ user' = [user EXCEPT ![p] = NoCredentials]
    /\ seen' = [seen EXCEPT ![p] = NoCredentials]
    /\ cred' = [cred EXCEPT ![p] = "none"]
    /\ count' = [count EXCEPT ![p] = 0]
    /\ target' = [target EXCEPT ![p] = "none"]

\* The enrolment lock is a flock: acquiring waits, the holder's end releases.
Acquire(p, here, next) ==
    /\ pc[p] = here /\ lock = "free"
    /\ lock' = p
    /\ Goto(p, next)
    /\ UNCHANGED <<files, history, locals>>

Release(p) == lock' = IF lock = p THEN "free" ELSE lock

----------------------------------------------------------------------------
(* Beginning a ceremony                                                    *)

\* The operator's commands look at the store before they open a ceremony;
\* the broker's approvals do not.
Begin(p, k, t) ==
    /\ pc[p] = "idle"
    /\ k = "enroll" => enrolled = {}
    /\ k = "add" => enrolled # {}
    /\ k = "remove" => Cardinality(enrolled) >= 2
    /\ t \in IF k = "remove" THEN made ELSE {"none"}
    /\ kind' = [kind EXCEPT ![p] = k]
    /\ target' = [target EXCEPT ![p] = t]
    /\ Goto(p, IF k = "reset" THEN "resetLock" ELSE "check")
    /\ managed' = IF k \in {"add", "remove"} THEN "yes" ELSE managed
    /\ UNCHANGED <<files, lock, made, revoked, gen, digest, user, seen, cred, count>>

\* BeginRegistration refuses an enrolled store, BeginAssertion an empty one.
Check(p) ==
    /\ pc[p] = "check"
    /\ (kind[p] = "enroll") <=> (enrolled = {})
    /\ Goto(p, "beginGen")
    /\ UNCHANGED <<files, lock, history, locals>>

\* generation(): an absent file is written as zero, by a step of its own and
\* without the lock.
ReadGeneration(p, here, zero, next) ==
    /\ pc[p] = here
    /\ \/ generation = Absent /\ Goto(p, zero) /\ UNCHANGED gen
       \/ /\ generation # Absent
          /\ gen' = [gen EXCEPT ![p] = generation]
          /\ Goto(p, next)
    /\ UNCHANGED <<files, lock, history, kind, digest, user, seen, cred, count, target>>

ZeroGeneration(p, here, next) ==
    /\ pc[p] = here
    /\ generation' = 0
    /\ gen' = [gen EXCEPT ![p] = 0]
    /\ Goto(p, next)
    /\ UNCHANGED <<store, lock, history, kind, digest, user, seen, cred, count, target>>

\* credentialDigest: an absent file has a digest too.
BeginDigest(p) ==
    /\ pc[p] = "beginDigest"
    /\ digest' = [digest EXCEPT ![p] = store]
    /\ Goto(p, IF kind[p] \in {"enroll", "register"} THEN "waiting" ELSE "user")
    /\ UNCHANGED <<files, lock, history, kind, gen, user, seen, cred, count, target>>

\* BeginAssertion reads the file once more for the allowed credentials.
ReadUser(p) ==
    /\ pc[p] = "user"
    /\ enrolled # {}
    /\ user' = [user EXCEPT ![p] = store]
    /\ Goto(p, "waiting")
    /\ UNCHANGED <<files, lock, history, kind, gen, digest, seen, cred, count, target>>

----------------------------------------------------------------------------
(* Finishing a ceremony: the response arrives, take removes the ceremony   *)

\* Nothing of a verified ceremony is used again but its answer.
Forget(p) ==
    /\ digest' = [digest EXCEPT ![p] = NoCredentials]
    /\ user' = [user EXCEPT ![p] = NoCredentials]

\* verifyCeremonyState reads the generation, then the credential file; a
\* difference in either ends the ceremony.
VerifyGeneration(p) ==
    /\ pc[p] = "waiting"
    /\ generation = gen[p]
    /\ Goto(p, "verifyDigest")
    /\ UNCHANGED <<files, lock, history, locals>>

\* CreateCredential: a verified registration response names a new credential.
VerifyRegistration(p) ==
    /\ pc[p] = "verifyDigest" /\ kind[p] \in {"enroll", "register"}
    /\ store = digest[p]
    /\ \E i \in Ids \ made :
         /\ made' = made \cup {i}
         /\ cred' = [cred EXCEPT ![p] = i]
    /\ Forget(p)
    /\ Goto(p, IF kind[p] = "enroll" THEN "commitLock" ELSE "addRead")
    /\ UNCHANGED <<files, lock, revoked, managed, kind, gen, seen, count, target>>

\* ValidateLogin: the answer comes from one of the allowed credentials; its
\* sign count is the remembered one, or a later one.
VerifyAssertion(p) ==
    /\ pc[p] = "verifyDigest" /\ kind[p] \in {"approve", "add", "remove"}
    /\ store = digest[p]
    /\ \E i \in DOMAIN user[p] :
         /\ cred' = [cred EXCEPT ![p] = i]
         /\ \E n \in {user[p][i], user[p][i] + 1} \cap 0..MaxCount :
              count' = [count EXCEPT ![p] = n]
    /\ Forget(p)
    /\ Goto(p, "updateLock")
    /\ UNCHANGED <<files, lock, history, kind, gen, seen, target>>

----------------------------------------------------------------------------
(* commitInitialCredential                                                 *)

CommitLock(p) == Acquire(p, "commitLock", "commitCheck")

\* Mutant: the check made as the ceremony began is trusted.
CommitUnchecked(p) ==
    /\ pc[p] = "commitCheck"
    /\ Goto(p, "commitWrite")
    /\ UNCHANGED <<files, lock, history, locals>>

CommitCheck(p) ==
    /\ pc[p] = "commitCheck"
    /\ enrolled = {}
    /\ Goto(p, "commitWrite")
    /\ UNCHANGED <<files, lock, history, locals>>

CommitWrite(p) ==
    /\ pc[p] = "commitWrite"
    /\ store' = [i \in {cred[p]} |-> 0]
    /\ Release(p)
    /\ Return(p)
    /\ UNCHANGED <<generation, history>>

----------------------------------------------------------------------------
(* updateCredential, and what follows an accepted assertion                *)

\* Mutant: the sign count is updated without the enrolment lock.
UpdateUnlocked(p) ==
    /\ pc[p] = "updateLock"
    /\ Goto(p, "updateRead")
    /\ UNCHANGED <<files, lock, history, locals>>

UpdateLock(p) == Acquire(p, "updateLock", "updateRead")

\* Mutant: the credential that answered is not looked up again.
UpdateReadAny(p) ==
    /\ pc[p] = "updateRead"
    /\ seen' = [seen EXCEPT ![p] = store]
    /\ Goto(p, "updateWrite")
    /\ UNCHANGED <<files, lock, history, kind, gen, digest, user, cred, count, target>>

UpdateRead(p) ==
    /\ pc[p] = "updateRead"
    /\ cred[p] \in enrolled
    /\ seen' = [seen EXCEPT ![p] = store]
    /\ Goto(p, "updateWrite")
    /\ UNCHANGED <<files, lock, history, kind, gen, digest, user, cred, count, target>>

\* An approval is accepted, a removal goes on to remove, an addition spends
\* the grant it was just issued on a registration ceremony of its own.
UpdateWrite(p) ==
    /\ pc[p] = "updateWrite"
    /\ store' = [seen[p] EXCEPT ![cred[p]] = count[p]]
    /\ Release(p)
    /\ \/ kind[p] = "approve" /\ Return(p)
       \/ /\ kind[p] # "approve"
          /\ kind' = [kind EXCEPT ![p] = IF @ = "add" THEN "register" ELSE @]
          /\ Goto(p, IF kind[p] = "add" THEN "beginGen" ELSE "removeRead")
          /\ gen' = [gen EXCEPT ![p] = Absent]
          /\ seen' = [seen EXCEPT ![p] = NoCredentials]
          /\ cred' = [cred EXCEPT ![p] = "none"]
          /\ count' = [count EXCEPT ![p] = 0]
          /\ UNCHANGED <<digest, user, target>>
    /\ UNCHANGED <<generation, history>>

----------------------------------------------------------------------------
(* AddCredential and RemoveCredentialFingerprint: read, then write, with   *)
(* no lock                                                                 *)

AddRead(p) ==
    /\ pc[p] = "addRead"
    /\ enrolled # {}
    /\ seen' = [seen EXCEPT ![p] = store]
    /\ Goto(p, "addWrite")
    /\ UNCHANGED <<files, lock, history, kind, gen, digest, user, cred, count, target>>

AddWrite(p) ==
    /\ pc[p] = "addWrite"
    /\ store' = [i \in DOMAIN seen[p] \cup {cred[p]} |->
                   IF i = cred[p] THEN 0 ELSE seen[p][i]]
    /\ Return(p)
    /\ UNCHANGED <<generation, lock, history>>

\* Mutant: the final credential may be removed.
RemoveReadAny(p) ==
    /\ pc[p] = "removeRead"
    /\ target[p] \in enrolled
    /\ seen' = [seen EXCEPT ![p] = store]
    /\ Goto(p, "removeWrite")
    /\ UNCHANGED <<files, lock, history, kind, gen, digest, user, cred, count, target>>

RemoveRead(p) ==
    /\ pc[p] = "removeRead"
    /\ Cardinality(enrolled) >= 2
    /\ target[p] \in enrolled
    /\ seen' = [seen EXCEPT ![p] = store]
    /\ Goto(p, "removeWrite")
    /\ UNCHANGED <<files, lock, history, kind, gen, digest, user, cred, count, target>>

RemoveWrite(p) ==
    /\ pc[p] = "removeWrite"
    /\ store' = [i \in DOMAIN seen[p] \ {target[p]} |-> seen[p][i]]
    /\ Return(p)
    /\ UNCHANGED <<generation, lock, history>>

----------------------------------------------------------------------------
(* ClearForRecovery, in the order of its writes                            *)

\* Mutant: recovery does not take the enrolment lock.
ResetUnlocked(p) ==
    /\ pc[p] = "resetLock"
    /\ Goto(p, "resetGen")
    /\ UNCHANGED <<files, lock, history, locals>>

ResetLock(p) == Acquire(p, "resetLock", "resetGen")

\* MaxResets bounds the generation.
ResetBump(p) ==
    /\ pc[p] = "resetBump"
    /\ gen[p] < MaxResets
    /\ generation' = gen[p] + 1
    /\ Goto(p, "resetRemove")
    /\ UNCHANGED <<store, lock, history, locals>>

ResetRemove(p) ==
    /\ pc[p] = "resetRemove"
    /\ store' = NoCredentials
    /\ revoked' = revoked \cup enrolled
    /\ Release(p)
    /\ Return(p)
    /\ UNCHANGED <<generation, made, managed>>

----------------------------------------------------------------------------
\* The operation ends without finishing: a refused check, an error, an expired
\* ceremony, or the death of the process.
Fail(p) ==
    /\ pc[p] # "idle"
    /\ Release(p)
    /\ Return(p)
    /\ UNCHANGED <<files, history>>

Step(p) ==
    \/ Check(p)
    \/ ReadGeneration(p, "beginGen", "beginZero", "beginDigest")
    \/ ZeroGeneration(p, "beginZero", "beginDigest")
    \/ BeginDigest(p) \/ ReadUser(p)
    \/ VerifyGeneration(p) \/ VerifyRegistration(p) \/ VerifyAssertion(p)
    \/ CommitLock(p) \/ CommitCheck(p) \/ CommitWrite(p)
    \/ UpdateLock(p) \/ UpdateRead(p) \/ UpdateWrite(p)
    \/ AddRead(p) \/ AddWrite(p) \/ RemoveRead(p) \/ RemoveWrite(p)
    \/ ResetLock(p)
    \/ ReadGeneration(p, "resetGen", "resetZero", "resetBump")
    \/ ZeroGeneration(p, "resetZero", "resetBump")
    \/ ResetBump(p) \/ ResetRemove(p)

Next ==
    \E p \in Procs :
        \/ \E k \in Kinds, t \in Ids \cup {"none"} : Begin(p, k, t)
        \/ Step(p)
        \/ Fail(p)

Spec == Init /\ [][Next]_vars

----------------------------------------------------------------------------
(* Properties                                                              *)

\* recover-reset "disables approvals until a new initial enrollment": no
\* credential a completed reset removed is ever enrolled again, whatever
\* ceremony was under way when the reset ran.
RevokedStaysRevoked == enrolled \cap revoked = {}

\* So it is as long as only operations that take the enrolment lock run:
\* enrolments, approvals and resets, whatever they overlap with.
RevokedUnlessManaged == managed = "no" => RevokedStaysRevoked

\* An assertion is accepted only with a credential that is enrolled as its
\* sign count is written: a reset between the ceremony's check and the update
\* ends the assertion, although nothing compares the generation again.
AcceptedIsEnrolled ==
    managed = "no" =>
        \A p \in Procs : pc[p] = "updateWrite" => cred[p] \in enrolled

\* Two initial enrolments begun on an empty store cannot both succeed, and
\* nothing but a reset takes an enrolled credential away.
EnrolmentsAreKept ==
    [][managed' = "no" => enrolled \subseteq enrolled' \/ enrolled' = {}]_vars

\* "refuses to remove the final credential": only a recovery reset empties the
\* store, however removals, additions and sign-count updates overlap.
OnlyResetEmpties ==
    [][enrolled # {} /\ enrolled' = {} => \E p \in Procs : pc[p] = "resetRemove"]_vars

----------------------------------------------------------------------------
(* The strengthenings that make the properties inductive                   *)

Holding == {"commitCheck", "commitWrite", "updateRead", "updateWrite",
            "resetGen", "resetZero", "resetBump", "resetRemove"}
Committing == {"commitLock", "commitCheck", "commitWrite"}
Updating == {"updateLock", "updateRead", "updateWrite"}
Managing == {"addRead", "addWrite", "removeRead", "removeWrite"}

\* What a write is about to leave in the store, whatever the others do: every
\* write but a reset's leaves a credential.
WritesSome ==
    \A p \in Procs :
        /\ pc[p] \in Committing \cup {"addRead", "addWrite"} => cred[p] # "none"
        /\ pc[p] = "updateWrite" => cred[p] \in DOMAIN seen[p]
        /\ pc[p] = "removeWrite" => DOMAIN seen[p] \ {target[p]} # {}

\* Until a management command is started every writer holds the lock, what it
\* read under the lock is still so, and a credential about to be enrolled is
\* new.  The properties follow, whichever ceremonies a reset overtakes.
CredentialInv ==
    /\ TypeOK
    /\ WritesSome
    /\ managed = "no" =>
         /\ \A p \in Procs :
              /\ pc[p] \in Holding => lock = p
              /\ pc[p] \notin Managing
              /\ kind[p] \in {"none", "enroll", "approve", "reset"}
              /\ pc[p] \in Updating => kind[p] = "approve"
              /\ pc[p] = "updateWrite" => seen[p] = store
              /\ pc[p] = "commitWrite" => enrolled = {}
              /\ pc[p] \in Committing => cred[p] \in made \ (enrolled \cup revoked)
         /\ \A p, q \in Procs :
              p # q /\ pc[p] \in Committing /\ pc[q] \in Committing => cred[p] # cred[q]
         /\ enrolled \cup revoked \subseteq made
         /\ RevokedStaysRevoked
=============================================================================
