---------------------------- MODULE ActionGrants ----------------------------
(***************************************************************************)
(* One-time grants for exact actions (internal/actiongrant,                *)
(* cmd/guardrail/action_grants.go).                                        *)
(*                                                                         *)
(* A hook that would ask first tries to consume an approved record of the  *)
(* same digest, and otherwise leaves a pending record.  The operator       *)
(* reviews a record and authorizes it, from the terminal or through the    *)
(* broker, or revokes it.  Each store operation runs under the store's     *)
(* lock, but reads the clock before it waits for the lock; authorization   *)
(* also appends its audit record under the lock.  Waiting may time out,    *)
(* any file operation may fail, and any process may die.                   *)
(***************************************************************************)
EXTENDS Naturals, FiniteSets

CONSTANTS
    Recs,       \* record ids; every new record takes a new one
    Digests,    \* digests of exact actions
    Hooks,      \* hook processes, each answering one tool call
    Operators,  \* approvals grant, approvals revoke, and the broker's executor
    MaxRecords  \* the store's capacity, maxRecords in the code

ASSUME CapacityAssumption == MaxRecords \in Nat \ {0}
ASSUME RecsAssumption == IsFiniteSet(Recs)
ASSUME NamesAssumption == "none" \notin Recs \cup Digests /\ "free" \notin Hooks \cup Operators

Procs == Hooks \cup Operators

VARIABLES
    status,     \* Recs -> the status in the record's file; none: no file
    digest,     \* Recs -> the digest of the record's action
    expired,    \* the records whose fifteen minutes are over
    lock,       \* the process inside AuthorizeWithAudit, or "free"
    issued,     \* the records with a "grant-issued" audit record
    confirmed,  \* Recs -> the digests the operator said yes to
    allows,     \* Recs -> how often a hook allowed a call by the record
    pc,         \* Procs -> where each process stands
    want,       \* Procs -> the digest a hook asks about, or an operator reviewed
    rec,        \* Procs -> the record an operator command is about
    late        \* Procs -> the records expired by the clock the process read

store == <<status, digest>>
history == <<issued, confirmed, allows>>
vars == <<store, expired, lock, history, pc, want, rec, late>>

Status == {"none", "pending", "approved", "consumed", "revoked"}
PCs == {"idle", "consume", "create", "confirm", "authorize", "audit", "write", "revoke"}

TypeOK ==
    /\ status \in [Recs -> Status]
    /\ digest \in [Recs -> Digests \cup {"none"}]
    /\ expired \subseteq Recs
    /\ lock \in Procs \cup {"free"}
    /\ issued \subseteq Recs
    /\ confirmed \in [Recs -> SUBSET Digests]
    /\ allows \in [Recs -> Nat]
    /\ pc \in [Procs -> PCs]
    /\ want \in [Procs -> Digests \cup {"none"}]
    /\ rec \in [Procs -> Recs \cup {"none"}]
    /\ late \in [Procs -> SUBSET Recs]

Init ==
    /\ status = [r \in Recs |-> "none"]
    /\ digest = [r \in Recs |-> "none"]
    /\ expired = {} /\ lock = "free" /\ issued = {}
    /\ confirmed = [r \in Recs |-> {}]
    /\ allows = [r \in Recs |-> 0]
    /\ pc = [p \in Procs |-> "idle"]
    /\ want = [p \in Procs |-> "none"]
    /\ rec = [p \in Procs |-> "none"]
    /\ late = [p \in Procs |-> {}]

Stored == {r \in Recs : status[r] # "none"}
Fresh == {r \in Recs : digest[r] = "none"}

Goto(p, label) == pc' = [pc EXCEPT ![p] = label]

Return(p) ==
    /\ pc' = [pc EXCEPT ![p] = "idle"]
    /\ want' = [want EXCEPT ![p] = "none"]
    /\ rec' = [rec EXCEPT ![p] = "none"]
    /\ late' = [late EXCEPT ![p] = {}]

\* time.Now() is an argument: it is read before the call waits for the lock.
ReadClock(p) == late' = [late EXCEPT ![p] = expired]

\* A stored record reaches the end of its fifteen minutes.
Lapse(r) ==
    /\ r \in Stored \ expired
    /\ expired' = expired \cup {r}
    /\ UNCHANGED <<store, lock, history, pc, want, rec, late>>

----------------------------------------------------------------------------
(* exactActionVerdict: consume, else create                                *)

HookAsk(p, d) ==
    /\ pc[p] = "idle"
    /\ want' = [want EXCEPT ![p] = d]
    /\ ReadClock(p)
    /\ Goto(p, "consume")
    /\ UNCHANGED <<store, expired, lock, history, rec>>

\* records(now) removes the files the caller's clock says are over.
Live(p) == Stored \ late[p]
Pruned(p) == [r \in Recs |-> IF r \in late[p] THEN "none" ELSE status[r]]

Matching(p, st) == {r \in Live(p) : status[r] = st /\ digest[r] = want[p]}

\* Mutant: the record is left approved.
ConsumeKeeps(p, r) ==
    /\ pc[p] = "consume" /\ lock = "free"
    /\ r \in Matching(p, "approved")
    /\ status' = Pruned(p)
    /\ allows' = [allows EXCEPT ![r] = @ + 1]
    /\ Return(p)
    /\ UNCHANGED <<digest, expired, lock, issued, confirmed>>

\* One approved record of this digest is spent before the verdict is Allow.
Consume(p, r) ==
    /\ pc[p] = "consume" /\ lock = "free"
    /\ r \in Matching(p, "approved")
    /\ status' = [Pruned(p) EXCEPT ![r] = "consumed"]
    /\ allows' = [allows EXCEPT ![r] = @ + 1]
    /\ Return(p)
    /\ UNCHANGED <<digest, expired, lock, issued, confirmed>>

\* Nothing to spend: go on to Create, which reads the clock again.
ConsumeNothing(p) ==
    /\ pc[p] = "consume" /\ lock = "free"
    /\ Matching(p, "approved") = {}
    /\ status' = Pruned(p)
    /\ ReadClock(p)
    /\ Goto(p, "create")
    /\ UNCHANGED <<digest, expired, lock, history, want, rec>>

\* Mutant: a new record although one of this digest is pending.
CreateAlways(p, r) ==
    /\ pc[p] = "create" /\ lock = "free"
    /\ Cardinality(Live(p)) < MaxRecords
    /\ r \in Fresh
    /\ status' = [Pruned(p) EXCEPT ![r] = "pending"]
    /\ digest' = [digest EXCEPT ![r] = want[p]]
    /\ Return(p)
    /\ UNCHANGED <<expired, lock, history>>

Create(p, r) ==
    /\ pc[p] = "create" /\ lock = "free"
    /\ Matching(p, "pending") = {}
    /\ Cardinality(Live(p)) < MaxRecords
    /\ r \in Fresh
    /\ status' = [Pruned(p) EXCEPT ![r] = "pending"]
    /\ digest' = [digest EXCEPT ![r] = want[p]]
    /\ Return(p)
    /\ UNCHANGED <<expired, lock, history>>

\* The pending record of this digest is returned, or the store is full.
CreateNothing(p) ==
    /\ pc[p] = "create" /\ lock = "free"
    /\ Matching(p, "pending") # {} \/ Cardinality(Live(p)) >= MaxRecords
    /\ status' = Pruned(p)
    /\ Return(p)
    /\ UNCHANGED <<digest, expired, lock, history>>

----------------------------------------------------------------------------
(* The operator: grant --record, the broker's executor, revoke --record    *)

\* The operator sees a pending record that is not over.
Review(p, r) ==
    /\ pc[p] = "idle" /\ lock = "free"
    /\ status[r] = "pending" /\ r \notin expired
    /\ rec' = [rec EXCEPT ![p] = r]
    /\ want' = [want EXCEPT ![p] = digest[r]]
    /\ Goto(p, "confirm")
    /\ UNCHANGED <<store, expired, lock, history, late>>

Confirm(p) ==
    /\ pc[p] = "confirm"
    /\ confirmed' = [confirmed EXCEPT ![rec[p]] = @ \cup {want[p]}]
    /\ ReadClock(p)
    /\ Goto(p, "authorize")
    /\ UNCHANGED <<store, expired, lock, issued, allows, want, rec>>

\* Mutant: only the digest is compared, so a revoked record comes back.
AuthorizeAnyStatus(p) ==
    /\ pc[p] = "authorize" /\ lock = "free"
    /\ rec[p] \in Stored /\ digest[rec[p]] = want[p]
    /\ rec[p] \notin late[p]
    /\ lock' = p
    /\ Goto(p, "audit")
    /\ UNCHANGED <<store, expired, history, want, rec, late>>

\* Under the lock: still pending, still this digest, not over.
Authorize(p) ==
    /\ pc[p] = "authorize" /\ lock = "free"
    /\ status[rec[p]] = "pending" /\ digest[rec[p]] = want[p]
    /\ rec[p] \notin late[p]
    /\ lock' = p
    /\ Goto(p, "audit")
    /\ UNCHANGED <<store, expired, history, want, rec, late>>

AuthorizeAudit(p) ==
    /\ pc[p] = "audit"
    /\ issued' = issued \cup {rec[p]}
    /\ Goto(p, "write")
    /\ UNCHANGED <<store, expired, lock, confirmed, allows, want, rec, late>>

AuthorizeWrite(p) ==
    /\ pc[p] = "write"
    /\ status' = [status EXCEPT ![rec[p]] = "approved"]
    /\ lock' = "free"
    /\ Return(p)
    /\ UNCHANGED <<digest, expired, history>>

\* Read, before the lock is taken again for the change.
ReviewRevoke(p, r) ==
    /\ pc[p] = "idle" /\ lock = "free"
    /\ r \in Stored \ expired
    /\ rec' = [rec EXCEPT ![p] = r]
    /\ Goto(p, "revoke")
    /\ UNCHANGED <<store, expired, lock, history, want, late>>

Revoke(p) ==
    /\ pc[p] = "revoke" /\ lock = "free"
    /\ status[rec[p]] \in {"pending", "approved"}
    /\ status' = [status EXCEPT ![rec[p]] = "revoked"]
    /\ Return(p)
    /\ UNCHANGED <<digest, expired, lock, history>>

\* A check fails, the wait times out, a file operation fails, the operator
\* declines, or the process dies: it leaves, and the lock with it.  A hook may
\* have removed some of the files that are over by then.
GiveUp(p, gone) ==
    /\ pc[p] # "idle"
    /\ gone \subseteq (IF pc[p] \in {"consume", "create"} /\ lock = "free" THEN late[p] ELSE {})
    /\ status' = [r \in Recs |-> IF r \in gone THEN "none" ELSE status[r]]
    /\ lock' = IF lock = p THEN "free" ELSE lock
    /\ Return(p)
    /\ UNCHANGED <<digest, expired, history>>

HookStep(p) ==
    \/ \E d \in Digests : HookAsk(p, d)
    \/ \E r \in Recs : Consume(p, r) \/ Create(p, r)
    \/ ConsumeNothing(p) \/ CreateNothing(p)

OperatorStep(p) ==
    \/ \E r \in Recs : Review(p, r) \/ ReviewRevoke(p, r)
    \/ Confirm(p) \/ Authorize(p) \/ AuthorizeAudit(p) \/ AuthorizeWrite(p)
    \/ Revoke(p)

Next ==
    \/ \E p \in Hooks : HookStep(p)
    \/ \E p \in Operators : OperatorStep(p)
    \/ \E p \in Procs, gone \in SUBSET Recs : GiveUp(p, gone)
    \/ \E r \in Recs : Lapse(r)

Spec == Init /\ [][Next]_vars

----------------------------------------------------------------------------
(* Properties                                                              *)

\* A record buys at most one allowed call, and only for the action the
\* operator was shown and confirmed, with its issuance in the audit log
\* (store.go, Consume and AuthorizeWithAudit): whatever the interleaving of
\* hooks, approvals, revocations, expiries and crashes.
OneConfirmedUse ==
    \A r \in Recs : allows[r] > 0 =>
        /\ allows[r] = 1
        /\ digest[r] \in confirmed[r]
        /\ r \in issued

\* A retried call leaves one pending record, however often and from however
\* many processes it is retried, and the store never outgrows its capacity
\* (store.go, Create).
OnePendingRecord ==
    /\ Cardinality(Stored) <= MaxRecords
    /\ \A r, q \in Recs :
           status[r] = "pending" /\ status[q] = "pending" /\ digest[r] = digest[q] => r = q

\* A record that was spent or revoked never becomes usable again, although an
\* approval of it may be under way in another process (store.go, Revoke and
\* AuthorizeWithAudit).
NoRevival ==
    [][\A r \in Recs :
          status[r] \in {"consumed", "revoked"} => status'[r] \in {status[r], "none"}]_vars
=============================================================================
