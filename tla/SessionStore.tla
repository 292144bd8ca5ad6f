---------------------------- MODULE SessionStore ----------------------------
(***************************************************************************)
(* The session state store (internal/session): Transaction, the gate that  *)
(* queues the callers of one process, the store-wide file lock, migration  *)
(* of a state file of an earlier release, and the pruning of day-old       *)
(* files.                                                                  *)
(*                                                                         *)
(* Threads run one transaction each, in processes that may die at any      *)
(* step; the operating system then drops the file lock.  Waiting may time  *)
(* out and every file operation may fail.  A state is the set of updates   *)
(* it contains.                                                            *)
(***************************************************************************)
EXTENDS Naturals

CONSTANTS
    Threads,    \* callers of Transaction
    Procs,      \* processes
    ProcOf,     \* Threads -> Procs
    Sessions

ASSUME ProcAssumption == ProcOf \in [Threads -> Procs]
ASSUME NameAssumption == {"free", "none", "legacy", "nofile"} \cap (Threads \cup Procs \cup Sessions) = {}

VARIABLES
    file,       \* Sessions -> the state in v2/<digest>.json, or NoFile
    legacy,     \* Sessions -> the state file of an earlier release, or NoFile
    oldFile,    \* the sessions whose v2 file is a day old
    oldLegacy,  \* the sessions whose legacy file is a day old
    lock,       \* the thread that holds the file lock, or "free"
    byPath,     \* Procs -> the gate registered for the lock path, or "none"
    token,      \* the gates whose channel holds the token
    users,      \* gate -> the callers that count as its users
    gate,       \* Threads -> the gate a caller obtained
    pc,         \* Threads -> the next step
    sess,       \* Threads -> the session of the transaction
    seen,       \* Threads -> the state it loaded
    fromLegacy, \* the threads that loaded a legacy file
    result,     \* Threads -> the error the transaction is about to return
    done,       \* the threads whose update was persisted
    outcome     \* Threads -> what Transaction returned

files == <<file, legacy, oldFile, oldLegacy>>
gates == <<byPath, token, users, gate>>
local == <<sess, seen, fromLegacy, result>>
vars == <<files, lock, gates, pc, local, done, outcome>>

\* A gate is named after the caller that created it.
Gates == Threads
Updates == Threads \cup {"legacy"}
NoFile == {"nofile"}
States == (SUBSET Updates) \cup {NoFile}
PCs == {"start", "gate", "lock", "read", "persist", "prune", "unlock",
        "returnToken", "leaveGate", "end", "dead"}
HoldsGate == {"lock", "read", "persist", "prune", "unlock", "returnToken"}
HoldsLock == {"read", "persist", "prune", "unlock"}
Outcomes == {"open", "ok", "committed", "failed"}

TypeOK ==
    /\ file \in [Sessions -> States] /\ legacy \in [Sessions -> {NoFile, {"legacy"}}]
    /\ oldFile \subseteq Sessions /\ oldLegacy \subseteq Sessions
    /\ lock \in Threads \cup {"free"}
    /\ byPath \in [Procs -> Gates \cup {"none"}]
    /\ token \subseteq Gates /\ users \in [Gates -> SUBSET Threads]
    /\ gate \in [Threads -> Gates \cup {"none"}]
    /\ pc \in [Threads -> PCs]
    /\ sess \in [Threads -> Sessions \cup {"none"}]
    /\ seen \in [Threads -> SUBSET Updates]
    /\ fromLegacy \subseteq Threads /\ done \subseteq Threads
    /\ result \in [Threads -> Outcomes \ {"open"}]
    /\ outcome \in [Threads -> Outcomes]

Init ==
    /\ file = [s \in Sessions |-> NoFile]
    /\ legacy \in [Sessions -> {NoFile, {"legacy"}}]
    /\ oldFile = {} /\ oldLegacy = {}
    /\ lock = "free"
    /\ byPath = [p \in Procs |-> "none"]
    /\ token = {} /\ users = [g \in Gates |-> {}]
    /\ gate = [t \in Threads |-> "none"]
    /\ pc = [t \in Threads |-> "start"]
    /\ sess = [t \in Threads |-> "none"]
    /\ seen = [t \in Threads |-> {}]
    /\ fromLegacy = {} /\ done = {}
    /\ result = [t \in Threads |-> "ok"]
    /\ outcome = [t \in Threads |-> "open"]

Goto(t, label) == pc' = [pc EXCEPT ![t] = label]

\* The transaction is over, with this error; the deferred calls still run.
Fail(t, label) ==
    /\ result' = [result EXCEPT ![t] = "failed"]
    /\ Goto(t, label)

----------------------------------------------------------------------------
(* The gate of a process                                                   *)

\* Mutant: the gate another caller just registered is overwritten.
EnterGateAnew(t, s) ==
    LET p == ProcOf[t] IN
    /\ pc[t] = "start"
    /\ byPath' = [byPath EXCEPT ![p] = t]
    /\ token' = token \cup {t}
    /\ users' = [users EXCEPT ![t] = @ \cup {t}]
    /\ gate' = [gate EXCEPT ![t] = t]
    /\ sess' = [sess EXCEPT ![t] = s]
    /\ Goto(t, "gate")
    /\ UNCHANGED <<files, lock, seen, fromLegacy, result, done, outcome>>

\* Under the mutex: find or create the gate, and count as a user of it.
EnterGate(t, s) ==
    LET p == ProcOf[t]
        new == byPath[p] = "none"
        g == IF new THEN t ELSE byPath[p]
    IN  /\ pc[t] = "start"
        /\ byPath' = [byPath EXCEPT ![p] = g]
        /\ token' = IF new THEN token \cup {g} ELSE token
        /\ users' = [users EXCEPT ![g] = @ \cup {t}]
        /\ gate' = [gate EXCEPT ![t] = g]
        /\ sess' = [sess EXCEPT ![t] = s]
        /\ Goto(t, "gate")
        /\ UNCHANGED <<files, lock, seen, fromLegacy, result, done, outcome>>

TakeToken(t) ==
    /\ pc[t] = "gate" /\ gate[t] \in token
    /\ token' = token \ {gate[t]}
    /\ Goto(t, "lock")
    /\ UNCHANGED <<files, lock, byPath, users, gate, local, done, outcome>>

GateTimeout(t) ==
    /\ pc[t] = "gate"
    /\ Fail(t, "leaveGate")
    /\ UNCHANGED <<files, lock, gates, sess, seen, fromLegacy, done, outcome>>

ReturnToken(t) ==
    /\ pc[t] = "returnToken"
    /\ token' = token \cup {gate[t]}
    /\ Goto(t, "leaveGate")
    /\ UNCHANGED <<files, lock, byPath, users, gate, local, done, outcome>>

\* releaseLocalTransactionGate; the last user unregisters the gate, and the
\* caller gets its answer.
LeaveGate(t) ==
    LET g == gate[t]
        p == ProcOf[t]
        last == users[g] = {t} /\ byPath[p] = g
    IN  /\ pc[t] = "leaveGate"
        /\ users' = [users EXCEPT ![g] = @ \ {t}]
        /\ byPath' = IF last THEN [byPath EXCEPT ![p] = "none"] ELSE byPath
        /\ token' = IF last THEN token \ {g} ELSE token
        /\ gate' = [gate EXCEPT ![t] = "none"]
        /\ outcome' = [outcome EXCEPT ![t] = result[t]]
        /\ result' = [result EXCEPT ![t] = "ok"]
        /\ Goto(t, "end")
        /\ UNCHANGED <<files, lock, sess, seen, fromLegacy, done>>

----------------------------------------------------------------------------
(* Transaction, once the process's gate is passed                          *)

\* Mutant: the caller goes on without the lock.
TakeLockAnyway(t) ==
    /\ pc[t] = "lock"
    /\ lock' = t
    /\ Goto(t, "read")
    /\ UNCHANGED <<files, gates, local, done, outcome>>

TakeLock(t) ==
    /\ pc[t] = "lock" /\ lock = "free"
    /\ lock' = t
    /\ Goto(t, "read")
    /\ UNCHANGED <<files, gates, local, done, outcome>>

\* Mutant: the wait for the lock has no bound.
LockTimeoutNever(t) ==
    /\ pc[t] = "lock" /\ lock = "free"
    /\ Fail(t, "returnToken")
    /\ UNCHANGED <<files, lock, gates, sess, seen, fromLegacy, done, outcome>>

\* TryLockContext gives up, or the lock file cannot be opened.
LockTimeout(t) ==
    /\ pc[t] = "lock"
    /\ Fail(t, "returnToken")
    /\ UNCHANGED <<files, lock, gates, sess, seen, fromLegacy, done, outcome>>

\* Mutant: the missing files are taken for a state.
LoadMissing(s) == IF file[s] # NoFile THEN file[s] ELSE legacy[s]

\* The v2 file, else the legacy file, else the zero state.
Load(s) == IF file[s] # NoFile THEN file[s]
           ELSE IF legacy[s] # NoFile THEN legacy[s] ELSE {}

ReadState(t) ==
    LET s == sess[t] IN
    /\ pc[t] = "read"
    /\ seen' = [seen EXCEPT ![t] = Load(s)]
    /\ fromLegacy' = IF file[s] = NoFile /\ legacy[s] # NoFile
                     THEN fromLegacy \cup {t} ELSE fromLegacy
    /\ Goto(t, "persist")
    /\ UNCHANGED <<files, lock, gates, sess, result, done, outcome>>

\* Unreadable, undecodable, or a legacy path that is not a plain file.
ReadFails(t) ==
    /\ pc[t] = "read"
    /\ Fail(t, "unlock")
    /\ UNCHANGED <<files, lock, gates, sess, seen, fromLegacy, done, outcome>>

\* The update callback, the encoding, and the rename of the temporary file.
Persist(t) ==
    LET s == sess[t] IN
    /\ pc[t] = "persist"
    /\ file' = [file EXCEPT ![s] = seen[t] \cup {t}]
    /\ oldFile' = oldFile \ {s}
    /\ done' = done \cup {t}
    /\ seen' = [seen EXCEPT ![t] = {}]
    /\ Goto(t, "prune")
    /\ UNCHANGED <<legacy, oldLegacy, lock, gates, sess, fromLegacy, result, outcome>>

\* The callback or the write fails; nothing of the update is stored.
PersistFails(t) ==
    /\ pc[t] = "persist"
    /\ seen' = [seen EXCEPT ![t] = {}]
    /\ fromLegacy' = fromLegacy \ {t}
    /\ Fail(t, "unlock")
    /\ UNCHANGED <<files, lock, gates, sess, done, outcome>>

\* Day-old files go, except the legacy file just migrated; best effort.
Prune(t, gone, goneLegacy) ==
    /\ pc[t] = "prune"
    /\ gone \subseteq oldFile
    /\ goneLegacy \subseteq oldLegacy \ (IF t \in fromLegacy THEN {sess[t]} ELSE {})
    /\ file' = [s \in Sessions |-> IF s \in gone THEN NoFile ELSE file[s]]
    /\ legacy' = [s \in Sessions |-> IF s \in goneLegacy THEN NoFile ELSE legacy[s]]
    /\ oldFile' = oldFile \ gone
    /\ oldLegacy' = oldLegacy \ goneLegacy
    /\ fromLegacy' = fromLegacy \ {t}
    /\ Goto(t, "unlock")
    /\ UNCHANGED <<lock, gates, sess, seen, result, done, outcome>>

Unlock(t) ==
    /\ pc[t] = "unlock"
    /\ lock' = "free"
    /\ Goto(t, "returnToken")
    /\ UNCHANGED <<files, gates, local, done, outcome>>

\* The lock stays with the process until it exits.
UnlockFails(t) ==
    /\ pc[t] = "unlock"
    /\ result' = [result EXCEPT ![t] = IF t \in done THEN "committed" ELSE "failed"]
    /\ Goto(t, "returnToken")
    /\ UNCHANGED <<files, lock, gates, sess, seen, fromLegacy, done, outcome>>

----------------------------------------------------------------------------
(* The environment                                                         *)

\* A process exits or is killed; the system releases its file lock.
Die(p) ==
    LET mine == {t \in Threads : ProcOf[t] = p} IN
    /\ \E t \in mine : pc[t] \notin {"start", "dead"}
    /\ pc' = [t \in Threads |-> IF t \in mine THEN "dead" ELSE pc[t]]
    /\ lock' = IF lock \in mine THEN "free" ELSE lock
    /\ byPath' = [byPath EXCEPT ![p] = "none"]
    /\ users' = [g \in Gates |-> users[g] \ mine]
    /\ token' = token \ mine
    /\ gate' = [t \in Threads |-> IF t \in mine THEN "none" ELSE gate[t]]
    /\ seen' = [t \in Threads |-> IF t \in mine THEN {} ELSE seen[t]]
    /\ fromLegacy' = fromLegacy \ mine
    /\ result' = [t \in Threads |-> IF t \in mine THEN "ok" ELSE result[t]]
    /\ UNCHANGED <<files, sess, done, outcome>>

\* A day passes without an update; a legacy file is older than the v2 file.
Age(s) ==
    /\ Load(s) # {}
    /\ oldLegacy' = IF legacy[s] # NoFile THEN oldLegacy \cup {s} ELSE oldLegacy
    /\ oldFile' \in {oldFile, IF file[s] # NoFile THEN oldFile \cup {s} ELSE oldFile}
    /\ UNCHANGED <<file, legacy, lock, gates, pc, local, done, outcome>>

Step(t) ==
    \/ \E s \in Sessions : EnterGate(t, s)
    \/ TakeToken(t) \/ GateTimeout(t) \/ ReturnToken(t) \/ LeaveGate(t)
    \/ TakeLock(t) \/ LockTimeout(t)
    \/ ReadState(t) \/ ReadFails(t) \/ Persist(t) \/ PersistFails(t)
    \/ \E gone, goneLegacy \in SUBSET Sessions : Prune(t, gone, goneLegacy)
    \/ Unlock(t) \/ UnlockFails(t)

Next ==
    \/ \E t \in Threads : Step(t)
    \/ \E p \in Procs : Die(p)
    \/ \E s \in Sessions : Age(s)

Spec == Init /\ [][Next]_vars

\* Waiting is bounded by timers and a running process keeps running.
FairSpec == Spec /\ \A t \in Threads : WF_vars(Step(t))

----------------------------------------------------------------------------
(* Properties                                                              *)

Stale == {s \in Sessions : IF file[s] # NoFile THEN s \in oldFile ELSE s \in oldLegacy}

Contract == INSTANCE SessionContract
                WITH state <- [s \in Sessions |-> Load(s)], stale <- Stale

\* Transaction implements the contract: an update is applied to the latest
\* state, whichever file holds it, or not at all, the caller is told which
\* although unlocking may fail after the commit, and nothing but day-old state
\* is ever dropped (session.go, Transaction and prune).
ContractSpec == Contract!Spec

\* Two callers of one process are never past the gate together, although the
\* gate is unregistered and created anew as callers come and go
\* (transaction_gate.go, releaseLocalTransactionGate).
GateExclusion ==
    \A t, u \in Threads :
        /\ t # u /\ ProcOf[t] = ProcOf[u]
        /\ pc[t] \in HoldsGate
        => pc[u] \notin HoldsGate

\* A caller gets an answer or dies with its process; a lock that could not be
\* released delays the others no longer than their own timers
\* (session.go, TryLockContext with lockWait).
EveryCallReturns ==
    \A t \in Threads : pc[t] = "gate" ~> pc[t] \in {"end", "dead"}
=============================================================================
