--------------------------- MODULE OperatorConfig ---------------------------
(***************************************************************************)
(* The processes that change the operator's settings: web-host batches     *)
(* (egress.go, allowance_transaction.go), command grants                   *)
(* (grant_transaction.go) and web-research enforcement (web_research.go).  *)
(*                                                                         *)
(* Every change takes one machine-wide file lock, replays what a crashed   *)
(* process left, loads the config, and replaces it.  A repository host     *)
(* lives in two files, so it is committed by writing a journal of both and *)
(* then replaying it.  A process may fail or die at every step; the file   *)
(* lock goes with it.                                                      *)
(***************************************************************************)
EXTENDS OperatorOps, Sequences

CONSTANTS
    Procs,      \* processes changing the settings
    Batches,    \* host lists an operator approves
    MaxJobs,    \* how many jobs are started in all
    MaxFaults   \* how many steps fail or crash in all

ASSUME ConfigAssumption ==
    /\ "none" \notin Procs
    /\ MaxJobs \in Nat
    /\ MaxFaults \in Nat
    /\ \A b \in Batches : b \in Seq(Hosts) /\ Len(b) > 0

VARIABLES
    config,     \* waivers.toml
    overlay,    \* Repos -> the web hosts in its guardrail.toml
    journal,    \* Repos -> its allowance journal, or NoJournal
    dir,        \* whether the operator config directory exists
    lock,       \* the holder of operator.lock, or none
    pc,         \* Procs -> control state
    change,     \* Procs -> the change being made
    batch,      \* Procs -> the hosts of the job, empty for the other jobs
    at,         \* Procs -> position in that batch
    undoing,    \* the processes rolling their batch back
    loaded,     \* Procs -> the config read under the lock
    redo,       \* Procs -> the repository whose journal is being replayed
    own,        \* the processes replaying the journal they wrote themselves
    outcome,    \* Procs -> how the last job ended
    issued,     \* Grants -> uses ever issued
    spent,      \* Grants -> uses ever spent
    jobs,       \* jobs started
    faults      \* failures and crashes

files == <<config, overlay, journal, dir>>
batchVars == <<batch, at, undoing>>
ghosts == <<issued, spent>>
vars == <<files, lock, pc, change, batchVars, loaded, redo, own, outcome, ghosts,
          jobs, faults>>

NoJournal == [operator |-> emptyOperatorConfig, overlay |-> {}]
Journals == [operator : Configs, overlay : SUBSET Hosts]
NoChange == [kind |-> "none"]
Replaying == {"overlay", "operator", "remove"}
Locked == {"recover", "write", "finish"} \cup Replaying

TypeOK ==
    /\ config \in Configs
    /\ overlay \in Overlays
    /\ journal \in [Repos -> Journals]
    /\ dir \in BOOLEAN
    /\ lock \in Procs \cup {"none"}
    /\ pc \in [Procs -> {"idle", "lock"} \cup Locked]
    /\ change \in [Procs -> Changes \cup {NoChange}]
    /\ batch \in [Procs -> Seq(Hosts)]
    /\ at \in [Procs -> Nat]
    /\ undoing \subseteq Procs
    /\ loaded \in [Procs -> Configs]
    /\ redo \in [Procs -> Repos \cup {"none"}]
    /\ own \subseteq Procs
    /\ outcome \in [Procs -> {"none", "ok", "error", "died", "allow", "ask"}]
    /\ issued \in [Grants -> Nat]
    /\ spent \in [Grants -> Nat]
    /\ jobs \in 0..MaxJobs
    /\ faults \in 0..MaxFaults

Init ==
    /\ config = emptyOperatorConfig
    /\ overlay = NoOverlay
    /\ journal = [r \in Repos |-> NoJournal]
    /\ dir \in BOOLEAN
    /\ lock = "none"
    /\ pc = [p \in Procs |-> "idle"]
    /\ change = [p \in Procs |-> NoChange]
    /\ batch = [p \in Procs |-> <<>>]
    /\ at = [p \in Procs |-> 0]
    /\ undoing = {}
    /\ loaded = [p \in Procs |-> emptyOperatorConfig]
    /\ redo = [p \in Procs |-> "none"]
    /\ own = {}
    /\ outcome = [p \in Procs |-> "none"]
    /\ issued = [k \in Grants |-> 0]
    /\ spent = [k \in Grants |-> 0]
    /\ jobs = 0
    /\ faults = 0

Journaled == {r \in Repos : journal[r] # NoJournal}

Goto(p, label) == pc' = [pc EXCEPT ![p] = label]

-----------------------------------------------------------------------------
(* Starting a job *)

Start(p, ch, hosts) ==
    /\ pc[p] = "idle"
    /\ jobs < MaxJobs
    /\ jobs' = jobs + 1
    /\ change' = [change EXCEPT ![p] = ch]
    /\ batch' = [batch EXCEPT ![p] = hosts]
    /\ at' = [at EXCEPT ![p] = 1]
    /\ outcome' = [outcome EXCEPT ![p] = "none"]
    /\ Goto(p, "lock")
    /\ UNCHANGED <<config, overlay, journal, lock, undoing, loaded, redo, own,
                   ghosts, faults>>

\* An approved web-host request, or the operator's own egress command.
applyWebHostBatch(p, ch, hosts) ==
    /\ ch.kind \in {"global", "repo"}
    /\ ch.host = hosts[1]
    /\ Start(p, ch, hosts)
    /\ UNCHANGED dir

\* The operator issues or revokes a command grant, or sets web research.
OperatorChange(p, ch) ==
    /\ ch.kind \in {"issue", "revoke", "research"}
    /\ Start(p, ch, <<>>)
    /\ UNCHANGED dir

\* A hook whose config, read without the lock, holds a grant for its call.
ApplyCommandGrant(p, ch) ==
    /\ ch.kind = "consume"
    /\ config.uses[ch.key] > 0
    /\ Start(p, ch, <<>>)
    /\ UNCHANGED dir

\* Setup claims a config directory that does not exist yet by creating it.
initializeWebResearchDefault(p, ch) ==
    /\ ch.kind = "default"
    /\ ~dir
    /\ dir' = TRUE
    /\ Start(p, ch, <<>>)

-----------------------------------------------------------------------------
(* One change, under the lock *)

\* Mutant: the lock is not exclusive.
AcquireShared(p) ==
    /\ pc[p] = "lock"
    /\ lock' = p
    /\ Goto(p, "recover")
    /\ UNCHANGED <<files, change, batchVars, loaded, redo, own, outcome, ghosts,
                   jobs, faults>>

Acquire(p) ==
    /\ pc[p] = "lock"
    /\ lock = "none"
    /\ lock' = p
    /\ Goto(p, "recover")
    /\ UNCHANGED <<files, change, batchVars, loaded, redo, own, outcome, ghosts,
                   jobs, faults>>

\* Recovery reads the next journal of the directory.
recoverAllowanceJournals(p, r) ==
    /\ pc[p] = "recover"
    /\ r \in Journaled
    /\ redo' = [redo EXCEPT ![p] = r]
    /\ Goto(p, "overlay")
    /\ UNCHANGED <<files, lock, change, batchVars, loaded, own, outcome, ghosts,
                   jobs, faults>>

\* Mutant: a change does not replay what an earlier one left.
LoadUnrecovered(p) ==
    /\ pc[p] = "recover"
    /\ loaded' = [loaded EXCEPT ![p] = config]
    /\ dir' = TRUE
    /\ Goto(p, "write")
    /\ UNCHANGED <<config, overlay, journal, lock, change, batchVars, redo, own,
                   outcome, ghosts, jobs, faults>>

\* Nothing is left to replay: load the config and create its directory.
LoadOperatorConfig(p) ==
    /\ pc[p] = "recover"
    /\ Journaled = {}
    /\ loaded' = [loaded EXCEPT ![p] = config]
    /\ dir' = TRUE
    /\ Goto(p, "write")
    /\ UNCHANGED <<config, overlay, journal, lock, change, batchVars, redo, own,
                   outcome, ghosts, jobs, faults>>

\* An existing config takes precedence over the fresh-install default.
KeepExisting(p) ==
    /\ pc[p] = "write"
    /\ change[p].kind = "default"
    /\ config.present
    /\ Goto(p, "finish")
    /\ UNCHANGED <<files, lock, change, batchVars, loaded, redo, own, outcome, ghosts,
                   jobs, faults>>

\* A change of the config alone is one atomic replacement of the file.
WriteConfig(p) ==
    LET ch == change[p] IN
    /\ pc[p] = "write"
    /\ ch.kind # "repo"
    /\ ch.kind = "default" => ~config.present
    /\ config' = ConfigAfter(loaded[p], ch)
    /\ issued' = IF ch.kind = "issue" THEN [issued EXCEPT ![ch.key] = @ + ch.uses]
                 ELSE issued
    /\ spent' = IF Spends(loaded[p], ch) THEN [spent EXCEPT ![ch.key] = @ + 1]
                ELSE spent
    /\ Goto(p, "finish")
    /\ UNCHANGED <<overlay, journal, dir, lock, change, batchVars, loaded, redo, own,
                   outcome, jobs, faults>>

\* Mutant: the journal is left for the next change to replay.
JournalDeferred(p) ==
    LET ch == change[p] IN
    /\ pc[p] = "write"
    /\ ch.kind = "repo"
    /\ journal' = [journal EXCEPT ![ch.repo] =
                     [operator |-> ConfigAfter(loaded[p], ch),
                      overlay |-> OverlayAfter(overlay, ch)[ch.repo]]]
    /\ Goto(p, "finish")
    /\ UNCHANGED <<config, overlay, dir, lock, change, batchVars, loaded, redo, own,
                   outcome, ghosts, jobs, faults>>

\* A repository host is committed by a journal of both files' new contents.
writeAllowanceJournal(p) ==
    LET ch == change[p] IN
    /\ pc[p] = "write"
    /\ ch.kind = "repo"
    /\ journal' = [journal EXCEPT ![ch.repo] =
                     [operator |-> ConfigAfter(loaded[p], ch),
                      overlay |-> OverlayAfter(overlay, ch)[ch.repo]]]
    /\ redo' = [redo EXCEPT ![p] = ch.repo]
    /\ own' = own \cup {p}
    /\ Goto(p, "overlay")
    /\ UNCHANGED <<config, overlay, dir, lock, change, batchVars, loaded, outcome,
                   ghosts, jobs, faults>>

\* Mutant: a replay forgets the operator config.
ReplayOverlayOnly(p) ==
    /\ pc[p] = "overlay"
    /\ overlay' = [overlay EXCEPT ![redo[p]] = journal[redo[p]].overlay]
    /\ Goto(p, "remove")
    /\ UNCHANGED <<config, journal, dir, lock, change, batchVars, loaded, redo, own,
                   outcome, ghosts, jobs, faults>>

\* recoverAllowanceJournal, step by step: the overlay, the config, the journal.
ReplayOverlay(p) ==
    /\ pc[p] = "overlay"
    /\ overlay' = [overlay EXCEPT ![redo[p]] = journal[redo[p]].overlay]
    /\ Goto(p, "operator")
    /\ UNCHANGED <<config, journal, dir, lock, change, batchVars, loaded, redo, own,
                   outcome, ghosts, jobs, faults>>

ReplayOperator(p) ==
    /\ pc[p] = "operator"
    /\ config' = journal[redo[p]].operator
    /\ Goto(p, "remove")
    /\ UNCHANGED <<overlay, journal, dir, lock, change, batchVars, loaded, redo, own,
                   outcome, ghosts, jobs, faults>>

RemoveJournal(p) ==
    /\ pc[p] = "remove"
    /\ journal' = [journal EXCEPT ![redo[p]] = NoJournal]
    /\ Goto(p, IF p \in own THEN "finish" ELSE "recover")
    /\ own' = own \ {p}
    /\ UNCHANGED <<config, overlay, dir, lock, change, batchVars, loaded, redo,
                   outcome, ghosts, jobs, faults>>
-----------------------------------------------------------------------------
(* Leaving the lock *)

\* Mutant: a way out keeps the lock.
ReleaseForgotten(p) ==
    /\ lock' = lock
    /\ own' = own \ {p}

\* Unlocking, on every way out; a journal not yet replayed stays behind.
Release(p) ==
    /\ lock' = IF lock = p THEN "none" ELSE lock
    /\ own' = own \ {p}

\* The batch goes on with its i-th host, granted or revoked.
TurnTo(p, i, grant) ==
    /\ at' = [at EXCEPT ![p] = i]
    /\ change' = [change EXCEPT ![p] = [@ EXCEPT !.host = batch[p][i], !.grant = grant]]
    /\ Goto(p, "lock")
    /\ UNCHANGED outcome

Return(p, result) ==
    /\ outcome' = [outcome EXCEPT ![p] = result]
    /\ Goto(p, "idle")
    /\ undoing' = undoing \ {p}
    /\ UNCHANGED <<at, change>>

\* The host is applied and the batch has another one.
NextHost(p) ==
    /\ pc[p] = "finish"
    /\ p \notin undoing
    /\ at[p] < Len(batch[p])
    /\ Release(p)
    /\ TurnTo(p, at[p] + 1, change[p].grant)
    /\ UNCHANGED <<files, batch, undoing, loaded, redo, ghosts, jobs, faults>>

\* The last host, or any other change, is applied.  A hook allows its call when
\* the use is spent and the record of it could be written.
Finish(p) ==
    /\ pc[p] = "finish"
    /\ p \notin undoing
    /\ at[p] >= Len(batch[p])
    /\ Release(p)
    /\ IF change[p].kind # "consume" THEN Return(p, "ok")
       ELSE \E result \in {"allow", "ask"} :
              /\ result = "allow" => Spends(loaded[p], change[p])
              /\ Return(p, result)
    /\ UNCHANGED <<files, batch, loaded, redo, ghosts, jobs, faults>>

\* A rollback step ends, applied or failed: the error is ignored.
NextUndo(p) ==
    /\ p \in undoing
    /\ Release(p)
    /\ \/ at[p] > 1 /\ TurnTo(p, at[p] - 1, change[p].grant) /\ UNCHANGED undoing
       \/ at[p] = 1 /\ Return(p, "error")
    /\ UNCHANGED <<files, batch, loaded, redo, ghosts, jobs>>

UndoApplied(p) == pc[p] = "finish" /\ NextUndo(p) /\ UNCHANGED faults

\* A step of the change returns an error, before or after its effect.
Fail(p) ==
    /\ pc[p] # "idle"
    /\ faults < MaxFaults
    /\ faults' = faults + 1
    /\ \/ NextUndo(p)
       \/ /\ p \notin undoing
          /\ at[p] > 1
          /\ undoing' = undoing \cup {p}
          /\ Release(p)
          /\ TurnTo(p, at[p] - 1, ~change[p].grant)
          /\ UNCHANGED <<files, batch, loaded, redo, ghosts, jobs>>
       \/ /\ p \notin undoing
          /\ at[p] = 1
          /\ Release(p)
          /\ Return(p, "error")
          /\ UNCHANGED <<files, batch, loaded, redo, ghosts, jobs>>

\* The process dies; the kernel drops its lock and nothing is rolled back.
Crash(p) ==
    /\ pc[p] # "idle"
    /\ faults < MaxFaults
    /\ faults' = faults + 1
    /\ Release(p)
    /\ Return(p, "died")
    /\ UNCHANGED <<files, batch, loaded, redo, ghosts, jobs>>

-----------------------------------------------------------------------------
Begin(p) ==
    \E ch \in Changes :
      \/ \E hosts \in Batches : applyWebHostBatch(p, ch, hosts)
      \/ OperatorChange(p, ch)
      \/ ApplyCommandGrant(p, ch)
      \/ initializeWebResearchDefault(p, ch)

Step(p) ==
    \/ Acquire(p)
    \/ \E r \in Repos : recoverAllowanceJournals(p, r)
    \/ LoadOperatorConfig(p) \/ KeepExisting(p) \/ WriteConfig(p)
    \/ writeAllowanceJournal(p) \/ ReplayOverlay(p) \/ ReplayOperator(p)
    \/ RemoveJournal(p)
    \/ NextHost(p) \/ Finish(p) \/ UndoApplied(p)

Next == \E p \in Procs : Begin(p) \/ Step(p) \/ Fail(p) \/ Crash(p)

Spec == Init /\ [][Next]_vars
FairSpec == Spec /\ \A p \in Procs : WF_vars(Step(p))

-----------------------------------------------------------------------------
(* The settings: the files, with the journal a crash left replayed *)

Pending == CHOOSE r \in Journaled : TRUE
Settings == IF Journaled = {} THEN config ELSE journal[Pending].operator
Overlaid == [r \in Repos |-> IF r \in Journaled THEN journal[r].overlay ELSE overlay[r]]

Ledger == INSTANCE OperatorLedger WITH settings <- Settings, overlays <- Overlaid

\* Whatever fails or crashes, the settings behave as if every change were made
\* at once and in turn: none is lost, made in part, or made twice by a replay.
ImplementsLedger == Ledger!Spec

\* Recovery replays journals in the order of the directory, which is not the
\* order they were written in; there is never more than one to replay.
OneJournal == \A r, s \in Journaled : r = s

\* A grant's uses, those spent and those that remain, never exceed the uses the
\* operator issued: a replayed journal does not bring a spent use back.
UsesPaid == \A k \in Grants : spent[k] + Settings.uses[k] <= issued[k]

\* A change that is reported done is in the files hooks read, not in a journal.
DoneIsWritten == \A p \in Procs : pc[p] = "finish" => Journaled = {}

\* What a process relies on between two of its steps.  Only the lock holder is
\* past Acquire; after recovery no journal is left and the config it loaded is
\* the config in the file; a replay has written what it is past.
LockInv == \A p \in Procs : pc[p] \in Locked <=> lock = p
ReplayInv ==
    \A p \in Procs :
      /\ pc[p] \in {"write", "finish"} => Journaled = {}
      /\ pc[p] = "write" => loaded[p] = config
      /\ pc[p] \in Replaying => redo[p] \in Journaled
      /\ pc[p] \in {"operator", "remove"} =>
           overlay[redo[p]] = journal[redo[p]].overlay
      /\ pc[p] = "remove" => config = journal[redo[p]].operator
BatchInv ==
    \A p \in Procs :
      /\ pc[p] # "idle" => change[p] \in Changes
      /\ pc[p] # "idle" => \/ batch[p] = <<>> /\ at[p] = 1 /\ p \notin undoing
                           \/ /\ change[p].kind \in {"global", "repo"}
                              /\ at[p] \in 1..Len(batch[p])
      /\ pc[p] = "idle" => p \notin undoing
SettingsInv == TypeOK /\ LockInv /\ ReplayInv /\ BatchInv /\ OneJournal /\ UsesPaid

\* Every job returns: the lock is given up on every way out.
JobsReturn == \A p \in Procs : pc[p] # "idle" ~> pc[p] = "idle"

\* egress.go says of applyWebHostBatch that it rolls back every applied host
\* if any application fails, so an approved batch never lands half-granted.
Half(p) ==
    LET asked == {batch[p][i] : i \in 1..Len(batch[p])}
        granted == IF change[p].kind = "repo" THEN Settings.repo[change[p].repo]
                   ELSE Settings.global
    IN  asked \cap granted \notin {{}, asked}
NeverHalfGranted == \A p \in Procs : outcome[p] = "error" /\ batch[p] # <<>> => ~Half(p)
=============================================================================
