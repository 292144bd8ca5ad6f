------------------------ MODULE OperatorConfigProofs ------------------------
(***************************************************************************)
(* The settings invariant is inductive, and the processes implement the    *)
(* ledger.                                                                 *)
(***************************************************************************)
EXTENDS OperatorConfig, TLAPS

USE UsesAssumption, ConfigAssumption

-----------------------------------------------------------------------------
(* What a change writes *)

\* An update of a host list yields a host list.
LEMMA HostsTyped ==
  ASSUME NEW hs \in SUBSET Hosts, NEW h \in Hosts, NEW g \in BOOLEAN
  PROVE  updateHost(hs, h, g) \in SUBSET Hosts
BY DEF updateHost

\* The uses a change leaves are use counts.
LEMMA UsesTyped ==
  ASSUME NEW c \in Configs, NEW ch \in Changes
  PROVE  UsesAfter(c, ch) \in [Grants -> 0..MaxUses]
<1>1. c.uses \in [Grants -> 0..MaxUses]
  BY DEF Configs
<1>2. CASE ch.kind = "issue"
  <2>1. ch.key \in Grants /\ ch.uses \in 1..MaxUses
    BY <1>2 DEF Changes
  <2> QED BY <1>1, <1>2, <2>1 DEF UsesAfter
<1>3. CASE ch.kind = "revoke"
  <2>1. ch.key \in Grants
    BY <1>3 DEF Changes
  <2> QED BY <1>1, <1>3, <2>1 DEF UsesAfter
<1>4. CASE ch.kind \notin {"issue", "revoke"} /\ Spends(c, ch)
  <2>1. ch.key \in Grants /\ c.uses[ch.key] > 0
    BY <1>4 DEF Changes, Spends
  <2> QED BY <1>1, <1>4, <2>1 DEF UsesAfter
<1>5. CASE ch.kind \notin {"issue", "revoke"} /\ ~Spends(c, ch)
  BY <1>1, <1>5 DEF UsesAfter
<1> QED BY <1>2, <1>3, <1>4, <1>5

\* A change writes a config.
LEMMA ConfigTyped ==
  ASSUME NEW c \in Configs, NEW ch \in Changes
  PROVE  ConfigAfter(c, ch) \in Configs
<1>1. UsesAfter(c, ch) \in [Grants -> 0..MaxUses]
  BY UsesTyped
<1>2. /\ c.global \in SUBSET Hosts
      /\ c.repo \in [Repos -> SUBSET Hosts]
      /\ c.research \in {"", "on", "off"}
  BY DEF Configs
<1>3. ch.kind = "global" => updateHost(c.global, ch.host, ch.grant) \in SUBSET Hosts
  <2>1. ch.kind = "global" => ch.host \in Hosts /\ ch.grant \in BOOLEAN
    BY DEF Changes
  <2> QED BY <1>2, <2>1, HostsTyped
<1>4. ch.kind = "repo" => [c.repo EXCEPT ![ch.repo] = updateHost(@, ch.host, ch.grant)]
                            \in [Repos -> SUBSET Hosts]
  <2>1. ch.kind = "repo" => ch.repo \in Repos /\ ch.host \in Hosts /\ ch.grant \in BOOLEAN
    BY DEF Changes
  <2>2. ch.kind = "repo" => updateHost(c.repo[ch.repo], ch.host, ch.grant) \in SUBSET Hosts
    BY <1>2, <2>1, HostsTyped
  <2> QED BY <1>2, <2>1, <2>2
<1>5. ch.kind \in {"research", "default"} => ch.mode \in {"", "on", "off"}
  BY DEF Changes
<1> QED BY <1>1, <1>2, <1>3, <1>4, <1>5 DEF ConfigAfter, Configs

\* A change writes overlays, and only the overlay of its repository.
LEMMA OverlayTyped ==
  ASSUME NEW o \in Overlays, NEW ch \in Changes
  PROVE  /\ OverlayAfter(o, ch) \in Overlays
         /\ ch.kind = "repo" => \A r \in Repos \ {ch.repo} : OverlayAfter(o, ch)[r] = o[r]
<1>1. CASE ch.kind = "repo"
  <2>1. ch.repo \in Repos /\ ch.host \in Hosts /\ ch.grant \in BOOLEAN
    BY <1>1 DEF Changes
  <2>2. updateHost(o[ch.repo], ch.host, ch.grant) \in SUBSET Hosts
    BY <2>1, HostsTyped DEF Overlays
  <2> QED BY <1>1, <2>1, <2>2 DEF OverlayAfter, Overlays
<1>2. CASE ch.kind # "repo"
  BY <1>2 DEF OverlayAfter
<1> QED BY <1>1, <1>2
-----------------------------------------------------------------------------
(* Types and batches *)

\* The config an absent file stands for, and the absent journal, are typed.
LEMMA EmptyTyped ==
  emptyOperatorConfig \in Configs /\ NoJournal \in Journals /\ NoOverlay \in Overlays
BY DEF emptyOperatorConfig, Configs, NoJournal, Journals, NoOverlay, Overlays

\* Going on with another host of the batch keeps a change of the same kind.
LEMMA TurnTyped ==
  ASSUME NEW ch \in Changes, ch.kind \in {"global", "repo"}, NEW h \in Hosts,
         NEW g \in BOOLEAN
  PROVE  /\ [ch EXCEPT !.host = h, !.grant = g] \in Changes
         /\ [ch EXCEPT !.host = h, !.grant = g].kind = ch.kind
         /\ ch.grant \in BOOLEAN
<1>1. CASE ch.kind = "global"
  BY ZenonT(60), <1>1 DEF Changes
<1>2. CASE ch.kind = "repo"
  BY ZenonT(60), <1>2 DEF Changes
<1> QED BY <1>1, <1>2

USE DEF files, batchVars, ghosts, Goto, Replaying, Locked

\* Starting a job keeps types and batches.
LEMMA TypeBegin ==
  ASSUME TypeOK, BatchInv, NEW p \in Procs, Begin(p)
  PROVE  TypeOK' /\ BatchInv'
<1>1. PICK ch \in Changes, hosts \in Batches \cup {<<>>} :
        /\ Start(p, ch, hosts)
        /\ \/ hosts \in Batches /\ ch.kind \in {"global", "repo"}
           \/ hosts = <<>>
        /\ dir' = dir \/ dir' = TRUE
  BY DEF Begin, applyWebHostBatch, OperatorChange, ApplyCommandGrant,
         initializeWebResearchDefault
<1>2. hosts \in Seq(Hosts) /\ (hosts \in Batches => 1 \in 1..Len(hosts))
  <2>1. CASE hosts \in Batches
    BY <2>1
  <2>2. CASE hosts = <<>> /\ hosts \notin Batches
    BY <2>2
  <2> QED BY <1>1, <2>1, <2>2
<1>3. TypeOK'
  <2>1. dir' \in BOOLEAN
    BY ZenonT(60), <1>1 DEF TypeOK
  <2>2. /\ batch' \in [Procs -> Seq(Hosts)]
        /\ change' \in [Procs -> Changes \cup {NoChange}]
        /\ at' \in [Procs -> Nat]
        /\ jobs' \in 0..MaxJobs
    BY <1>1, <1>2 DEF Start, TypeOK
  <2> QED BY <1>1, <2>1, <2>2 DEF Start, TypeOK
<1>4. BatchInv'
  BY <1>1, <1>2 DEF Start, TypeOK, BatchInv
<1> QED BY <1>3, <1>4

\* The steps under the lock keep types and batches.
LEMMA TypeLocked ==
  ASSUME TypeOK, BatchInv, NEW p \in Procs,
         \/ Acquire(p)
         \/ \E r \in Repos : recoverAllowanceJournals(p, r)
         \/ LoadOperatorConfig(p)
         \/ KeepExisting(p)
         \/ RemoveJournal(p)
  PROVE  TypeOK' /\ BatchInv'
<1> USE DEF TypeOK, BatchInv
<1>1. CASE Acquire(p)
  BY <1>1 DEF Acquire
<1>2. CASE \E r \in Repos : recoverAllowanceJournals(p, r)
  <2>1. PICK r \in Repos : recoverAllowanceJournals(p, r)
    BY <1>2
  <2>2. redo' \in [Procs -> Repos \cup {"none"}]
    BY <2>1 DEF recoverAllowanceJournals
  <2>3. pc[p] # "idle" /\ pc' = [pc EXCEPT ![p] = "overlay"]
    BY <2>1 DEF recoverAllowanceJournals
  <2> QED BY <2>1, <2>2, <2>3 DEF recoverAllowanceJournals
<1>3. CASE LoadOperatorConfig(p)
  BY <1>3 DEF LoadOperatorConfig
<1>4. CASE KeepExisting(p)
  BY ZenonT(60), <1>4 DEF KeepExisting
<1>5. CASE RemoveJournal(p)
  BY ZenonT(60), <1>5, EmptyTyped DEF RemoveJournal
<1> QED BY ZenonT(60), <1>1, <1>2, <1>3, <1>4, <1>5

\* Writing the files keeps types and batches.
LEMMA TypeWrites ==
  ASSUME TypeOK, BatchInv, ReplayInv, NEW p \in Procs,
         \/ WriteConfig(p)
         \/ writeAllowanceJournal(p)
         \/ ReplayOverlay(p)
         \/ ReplayOperator(p)
  PROVE  TypeOK' /\ BatchInv'
<1>1. CASE WriteConfig(p)
  <2>1. change[p] \in Changes /\ loaded[p] \in Configs
    BY <1>1 DEF WriteConfig, BatchInv, TypeOK
  <2>2. config' \in Configs
    BY <1>1, <2>1, ConfigTyped DEF WriteConfig
  <2>3. issued' \in [Grants -> Nat]
    <3>1. change[p].kind = "issue" => change[p].key \in Grants /\ change[p].uses \in Nat
      BY <2>1 DEF Changes
    <3>2. issued \in [Grants -> Nat]
      BY DEF TypeOK
    <3>3. \/ issued' = issued
          \/ change[p].kind = "issue"
             /\ issued' = [issued EXCEPT ![change[p].key] = @ + change[p].uses]
      BY <1>1 DEF WriteConfig
    <3> QED BY <3>1, <3>2, <3>3
  <2>4. spent' \in [Grants -> Nat]
    <3>1. Spends(loaded[p], change[p]) => change[p].key \in Grants
      BY <2>1 DEF Changes, Spends
    <3>2. spent \in [Grants -> Nat]
      BY DEF TypeOK
    <3>3. \/ spent' = spent
          \/ Spends(loaded[p], change[p])
             /\ spent' = [spent EXCEPT ![change[p].key] = @ + 1]
      BY <1>1 DEF WriteConfig
    <3> QED BY <3>1, <3>2, <3>3
  <2>5. TypeOK'
    BY ZenonT(60), <1>1, <2>2, <2>3, <2>4 DEF WriteConfig, TypeOK
  <2> QED BY ZenonT(60), <1>1, <2>5 DEF WriteConfig, BatchInv, TypeOK
<1>2. CASE writeAllowanceJournal(p)
  <2>1. change[p] \in Changes /\ change[p].kind = "repo" /\ loaded[p] \in Configs
    BY <1>2 DEF writeAllowanceJournal, BatchInv, TypeOK
  <2>2. change[p].repo \in Repos
    BY <2>1 DEF Changes
  <2>3. ConfigAfter(loaded[p], change[p]) \in Configs
    BY <2>1, ConfigTyped
  <2>4. OverlayAfter(overlay, change[p]) \in Overlays
    BY <2>1, OverlayTyped DEF TypeOK
  <2>5. OverlayAfter(overlay, change[p])[change[p].repo] \in SUBSET Hosts
    BY <2>2, <2>4 DEF Overlays
  <2>6. TypeOK'
    BY ZenonT(60), <1>2, <2>2, <2>3, <2>5 DEF writeAllowanceJournal, TypeOK, Journals
  <2> QED BY <1>2, <2>6 DEF writeAllowanceJournal, BatchInv, TypeOK
<1>3. CASE ReplayOverlay(p)
  <2>1. redo[p] \in Repos
    BY ZenonT(60), <1>3 DEF ReplayOverlay, ReplayInv, Journaled
  <2> QED BY <1>3, <2>1 DEF ReplayOverlay, TypeOK, BatchInv, Overlays, Journals
<1>4. CASE ReplayOperator(p)
  <2>1. redo[p] \in Repos
    BY ZenonT(60), <1>4 DEF ReplayOperator, ReplayInv, Journaled
  <2> QED BY <1>4, <2>1 DEF ReplayOperator, TypeOK, BatchInv, Journals
<1> QED BY <1>1, <1>2, <1>3, <1>4
\* Turning to another host of the batch keeps types and batches.
LEMMA TypeTurn ==
  ASSUME TypeOK, BatchInv, NEW p \in Procs, pc[p] # "idle",
         change[p].kind \in {"global", "repo"},
         NEW i \in 1..Len(batch[p]), NEW g \in BOOLEAN, TurnTo(p, i, g), Release(p),
         undoing' \in {undoing, undoing \cup {p}}, faults' \in 0..MaxFaults,
         UNCHANGED <<files, batch, loaded, redo, ghosts, jobs>>
  PROVE  TypeOK' /\ BatchInv'
<1>1. batch[p][i] \in Hosts
  BY DEF TypeOK
<1>2. change[p] \in Changes
  BY ZenonT(60) DEF BatchInv
<1> DEFINE next == [change[p] EXCEPT !.host = batch[p][i], !.grant = g]
<1>3. next \in Changes /\ next.kind \in {"global", "repo"}
  BY ZenonT(60), <1>1, <1>2, TurnTyped
<1>4. change' = [change EXCEPT ![p] = next]
  BY DEF TurnTo
<1>5. change' \in [Procs -> Changes \cup {NoChange}] /\ change'[p] = next
  BY <1>3, <1>4 DEF TypeOK
<1>6. TypeOK'
  <2>1. at' \in [Procs -> Nat]
    BY DEF TypeOK, TurnTo
  <2>2. /\ lock' \in Procs \cup {"none"} /\ own' \subseteq Procs
        /\ pc' \in [Procs -> {"idle", "lock"} \cup Locked]
    BY DEF TypeOK, TurnTo, Release
  <2> QED BY ZenonT(60), <1>5, <2>1, <2>2 DEF TypeOK, TurnTo
<1>7. BatchInv'
  <2> SUFFICES ASSUME NEW q \in Procs
               PROVE  BatchInv!(q)'
    BY ZenonT(60) DEF BatchInv
  <2>1. CASE q = p
    BY <2>1, <1>3, <1>5 DEF TypeOK, BatchInv, TurnTo
  <2>2. CASE q # p
    <3>1. change'[q] = change[q]
      BY <2>2, <1>4 DEF TypeOK
    <3> QED BY ZenonT(60), <2>2, <3>1 DEF TypeOK, BatchInv, TurnTo
  <2> QED BY ZenonT(60), <2>1, <2>2
<1> QED BY ZenonT(60), <1>6, <1>7

\* Returning from a job keeps types and batches.
LEMMA TypeReturn ==
  ASSUME TypeOK, BatchInv, NEW p \in Procs,
         NEW result \in {"ok", "error", "died", "allow", "ask"}, Return(p, result),
         Release(p), faults' \in 0..MaxFaults,
         UNCHANGED <<files, batch, loaded, redo, ghosts, jobs>>
  PROVE  TypeOK' /\ BatchInv'
BY ZenonT(60) DEF TypeOK, BatchInv, Return, Release

\* A rollback step's end keeps types and batches.
LEMMA TypeUndo ==
  ASSUME TypeOK, BatchInv, NEW p \in Procs, pc[p] # "idle", NextUndo(p),
         faults' \in 0..MaxFaults
  PROVE  TypeOK' /\ BatchInv'
<1>1. /\ p \in undoing /\ change[p] \in Changes
      /\ change[p].kind \in {"global", "repo"} /\ at[p] \in 1..Len(batch[p])
  BY DEF NextUndo, BatchInv
<1>2. change[p].grant \in BOOLEAN
  BY <1>1 DEF Changes
<1>3. CASE at[p] > 1 /\ TurnTo(p, at[p] - 1, change[p].grant) /\ UNCHANGED undoing
  <2>1. at[p] - 1 \in 1..Len(batch[p])
    BY <1>1, <1>3 DEF TypeOK
  <2> QED BY <1>1, <1>2, <1>3, <2>1, TypeTurn DEF NextUndo
<1>4. CASE at[p] = 1 /\ Return(p, "error")
  BY <1>4, TypeReturn DEF NextUndo
<1> QED BY <1>3, <1>4 DEF NextUndo

\* Every way out of the lock keeps types and batches.
LEMMA TypeLeave ==
  ASSUME TypeOK, BatchInv, NEW p \in Procs,
         NextHost(p) \/ Finish(p) \/ UndoApplied(p) \/ Fail(p) \/ Crash(p)
  PROVE  TypeOK' /\ BatchInv'
<1>1. CASE NextHost(p)
  <2>1. /\ pc[p] # "idle" /\ change[p] \in Changes
        /\ change[p].kind \in {"global", "repo"} /\ at[p] + 1 \in 1..Len(batch[p])
    BY <1>1 DEF NextHost, BatchInv, TypeOK
  <2>2. change[p].grant \in BOOLEAN
    BY <2>1 DEF Changes
  <2>3. faults' \in 0..MaxFaults
    BY SMTT(60), <1>1 DEF NextHost, TypeOK
  <2> QED BY <1>1, <2>1, <2>2, <2>3, TypeTurn DEF NextHost
<1>2. CASE Finish(p)
  <2>1. PICK result \in {"ok", "allow", "ask"} : Return(p, result)
    BY ZenonT(60), <1>2 DEF Finish
  <2>2. faults' \in 0..MaxFaults
    BY <1>2 DEF Finish, TypeOK
  <2> QED BY ZenonT(60), <1>2, <2>1, <2>2, TypeReturn DEF Finish
<1>3. CASE UndoApplied(p)
  <2>1. pc[p] # "idle" /\ faults' \in 0..MaxFaults
    BY <1>3 DEF UndoApplied, TypeOK
  <2> QED BY <1>3, <2>1, TypeUndo DEF UndoApplied
<1>4. CASE Fail(p)
  <2>1. pc[p] # "idle" /\ faults' \in 0..MaxFaults
    BY <1>4 DEF Fail, TypeOK
  <2>2. CASE NextUndo(p)
    BY <2>1, <2>2, TypeUndo
  <2>3. CASE at[p] > 1 /\ ~NextUndo(p) /\ p \notin undoing
    <3>1. /\ change[p] \in Changes
          /\ change[p].kind \in {"global", "repo"} /\ at[p] - 1 \in 1..Len(batch[p])
      BY <2>1, <2>3 DEF BatchInv, TypeOK
    <3>2. (~change[p].grant) \in BOOLEAN
      OBVIOUS
    <3>3. /\ TurnTo(p, at[p] - 1, ~change[p].grant) /\ Release(p)
          /\ undoing' = undoing \cup {p}
          /\ UNCHANGED <<files, batch, loaded, redo, ghosts, jobs>>
      BY <1>4, <2>3 DEF Fail, TypeOK
    <3> QED BY ZenonT(60), <2>1, <3>1, <3>2, <3>3, TypeTurn
  <2>4. CASE at[p] = 1 /\ ~NextUndo(p) /\ p \notin undoing
    BY <1>4, <2>1, <2>4, TypeReturn DEF Fail
  <2> QED BY ZenonT(60), <1>4, <2>2, <2>3, <2>4 DEF Fail
<1>5. CASE Crash(p)
  <2>1. faults' \in 0..MaxFaults
    BY <1>5 DEF Crash, TypeOK
  <2> QED BY <1>5, <2>1, TypeReturn DEF Crash
<1> QED BY <1>1, <1>2, <1>3, <1>4, <1>5
-----------------------------------------------------------------------------
(* The settings *)

SettingsAre ==
    OneJournal => /\ \A r \in Journaled : Settings = journal[r].operator
                  /\ Journaled = {} => Settings = config

\* With at most one journal, the settings are that journal's config.
LEMMA SettingsOne == SettingsAre
<1> USE DEF SettingsAre
<1> SUFFICES ASSUME OneJournal, NEW r \in Journaled
             PROVE  Settings = journal[r].operator
  BY DEF Settings
<1>1. Pending \in Journaled
  BY DEF Pending
<1>2. Pending = r
  BY <1>1 DEF OneJournal
<1> QED BY <1>2 DEF Settings

\* The same, in the state after a step.
LEMMA SettingsOneNext ==
  OneJournal' => /\ \A r \in Journaled' : Settings' = journal'[r].operator
                 /\ Journaled' = {} => Settings' = config'
<1>1. SettingsAre'
  BY SettingsOne, PTL
<1> QED BY <1>1 DEF SettingsAre

\* A step that writes none of the three files changes no setting.
LEMMA Quiet ==
  ASSUME OneJournal, UNCHANGED <<config, overlay, journal>>
  PROVE  /\ Journaled' = Journaled /\ OneJournal'
         /\ Settings' = Settings /\ Overlaid' = Overlaid
<1>1. Journaled' = Journaled
  BY DEF Journaled
<1>2. OneJournal'
  BY <1>1 DEF OneJournal
<1>3. Settings' = Settings
  <2>1. CASE Journaled = {}
    BY <1>1, <1>2, <2>1, SettingsOne, SettingsOneNext DEF SettingsAre
  <2>2. CASE Journaled # {}
    <3>1. PICK r : r \in Journaled
      BY <2>2
    <3> QED BY <1>1, <1>2, <3>1, SettingsOne, SettingsOneNext DEF SettingsAre
  <2> QED BY <2>1, <2>2
<1>4. Overlaid' = Overlaid
  BY <1>1 DEF Overlaid
<1> QED BY <1>1, <1>2, <1>3, <1>4

\* A process outside the lock relies on nothing; only the holder's state matters.
LEMMA OnlyHolder ==
  ASSUME LockInv, NEW p \in Procs, lock = p
  PROVE  \A q \in Procs \ {p} : pc[q] \notin Locked
BY DEF LockInv

\* The part of the invariant that speaks of files, locks and replays.
FileInv == LockInv /\ ReplayInv /\ OneJournal /\ UsesPaid

\* The steps that write no file keep it, and are not visible in the settings.
LEMMA FilesBegin ==
  ASSUME TypeOK, FileInv, NEW p \in Procs, Begin(p)
  PROVE  FileInv' /\ UNCHANGED <<Settings, Overlaid>>
<1>1. PICK ch \in Changes, hosts \in Batches \cup {<<>>} : Start(p, ch, hosts)
  BY DEF Begin, applyWebHostBatch, OperatorChange, ApplyCommandGrant,
         initializeWebResearchDefault
<1>2. /\ Journaled' = Journaled /\ OneJournal'
      /\ Settings' = Settings /\ Overlaid' = Overlaid
  BY <1>1, Quiet DEF Start, FileInv
<1>3. UsesPaid'
  BY <1>1, <1>2 DEF Start, FileInv, UsesPaid
<1>4. LockInv'
  BY <1>1 DEF Start, FileInv, LockInv, TypeOK
<1>5. ReplayInv'
  BY ZenonT(60), <1>1, <1>2 DEF Start, FileInv, ReplayInv, TypeOK
<1> QED BY <1>2, <1>3, <1>4, <1>5 DEF FileInv

LEMMA FilesQuiet ==
  ASSUME TypeOK, FileInv, NEW p \in Procs,
         \/ Acquire(p)
         \/ \E r \in Repos : recoverAllowanceJournals(p, r)
         \/ LoadOperatorConfig(p)
         \/ KeepExisting(p)
  PROVE  FileInv' /\ UNCHANGED <<Settings, Overlaid>>
<1>1. /\ Journaled' = Journaled /\ OneJournal'
      /\ Settings' = Settings /\ Overlaid' = Overlaid
      /\ spent' = spent /\ issued' = issued
  BY ZenonT(60), Quiet DEF FileInv, Acquire, recoverAllowanceJournals, LoadOperatorConfig, KeepExisting
<1>2. UsesPaid'
  BY ZenonT(60), <1>1 DEF FileInv, UsesPaid
<1>3. CASE Acquire(p)
  <2>1. LockInv'
    BY <1>3 DEF Acquire, FileInv, LockInv, TypeOK
  <2>2. ReplayInv'
    BY ZenonT(60), <1>1, <1>3 DEF Acquire, FileInv, ReplayInv, TypeOK
  <2> QED BY <1>1, <1>2, <2>1, <2>2 DEF FileInv
<1>4. CASE \E r \in Repos : recoverAllowanceJournals(p, r)
  <2>1. LockInv'
    BY <1>4 DEF recoverAllowanceJournals, FileInv, LockInv, TypeOK
  <2>2. PICK r \in Journaled :
          /\ redo' = [redo EXCEPT ![p] = r] /\ pc' = [pc EXCEPT ![p] = "overlay"]
          /\ UNCHANGED <<config, overlay, journal, loaded>>
    BY ZenonT(60), <1>4 DEF recoverAllowanceJournals
  <2>3. /\ redo \in [Procs -> Repos \cup {"none"}]
        /\ pc \in [Procs -> {"idle", "lock"} \cup Locked]
    BY DEF TypeOK
  <2>4. ReplayInv'
    BY ZenonT(60), <1>1, <2>2, <2>3 DEF FileInv, ReplayInv
  <2> QED BY <1>1, <1>2, <2>1, <2>4 DEF FileInv
<1>5. CASE LoadOperatorConfig(p)
  <2>1. LockInv'
    BY ZenonT(60), <1>5 DEF LoadOperatorConfig, FileInv, LockInv, TypeOK
  <2>2. ReplayInv'
    BY ZenonT(60), <1>1, <1>5 DEF LoadOperatorConfig, FileInv, ReplayInv, TypeOK
  <2> QED BY <1>1, <1>2, <2>1, <2>2 DEF FileInv
<1>6. CASE KeepExisting(p)
  <2>1. LockInv'
    BY ZenonT(60), <1>6 DEF KeepExisting, FileInv, LockInv, TypeOK
  <2>2. ReplayInv'
    BY ZenonT(60), <1>1, <1>6 DEF KeepExisting, FileInv, ReplayInv, TypeOK
  <2> QED BY <1>1, <1>2, <2>1, <2>2 DEF FileInv
<1> QED BY <1>3, <1>4, <1>5, <1>6
\* Leaving the lock changes no file; a journal left behind is already a setting.
LEMMA FilesLeave ==
  ASSUME TypeOK, FileInv, NEW p \in Procs,
         NextHost(p) \/ Finish(p) \/ UndoApplied(p) \/ Fail(p) \/ Crash(p)
  PROVE  FileInv' /\ UNCHANGED <<Settings, Overlaid>>
<1>1. /\ UNCHANGED <<config, overlay, journal, spent, issued, loaded, redo>>
      /\ Release(p)
      /\ pc' = [pc EXCEPT ![p] = "lock"] \/ pc' = [pc EXCEPT ![p] = "idle"]
  <2>1. CASE NextHost(p)
    BY <2>1 DEF NextHost, TurnTo
  <2>2. CASE Finish(p)
    BY ZenonT(60), <2>2 DEF Finish, Return
  <2>3. CASE UndoApplied(p)
    BY <2>3 DEF UndoApplied, NextUndo, TurnTo, Return
  <2>4. CASE Fail(p)
    BY <2>4 DEF Fail, NextUndo, TurnTo, Return
  <2>5. CASE Crash(p)
    BY <2>5 DEF Crash, Return
  <2> QED BY <2>1, <2>2, <2>3, <2>4, <2>5
<1>2. /\ Journaled' = Journaled /\ OneJournal'
      /\ Settings' = Settings /\ Overlaid' = Overlaid
  BY <1>1, Quiet DEF FileInv
<1>3. UsesPaid'
  BY ZenonT(60), <1>1, <1>2 DEF FileInv, UsesPaid
<1>4. LockInv'
  <2>1. /\ pc \in [Procs -> {"idle", "lock"} \cup Locked]
        /\ \A q \in Procs : pc[q] \in Locked <=> lock = q
    BY DEF TypeOK, FileInv, LockInv
  <2>2. lock' = (IF lock = p THEN "none" ELSE lock) /\ pc'[p] \notin Locked
    BY <1>1, <2>1 DEF Release, Locked, Replaying
  <2>3. \A q \in Procs \ {p} : pc'[q] = pc[q]
    BY <1>1, <2>1
  <2> QED BY <2>1, <2>2, <2>3 DEF LockInv
<1>5. ReplayInv'
  <2>1. \A q \in Procs : pc'[q] = pc[q] \/ pc'[q] \in {"lock", "idle"}
    BY <1>1 DEF TypeOK
  <2> QED BY ZenonT(60), <1>1, <1>2, <2>1 DEF FileInv, ReplayInv, Replaying
<1> QED BY <1>2, <1>3, <1>4, <1>5 DEF FileInv

\* The ledger's changes are the changes the processes make.
LEMMA SameChanges ==
  /\ Ledger!Changes = Changes
  /\ Ledger!emptyOperatorConfig = emptyOperatorConfig
  /\ Ledger!NoOverlay = NoOverlay
  /\ \A c, ch : Ledger!ConfigAfter(c, ch) = ConfigAfter(c, ch)
  /\ \A o, ch : Ledger!OverlayAfter(o, ch) = OverlayAfter(o, ch)
<1>1. Ledger!Changes = Changes
  BY DEF Ledger!Changes, Changes
<1>2. Ledger!emptyOperatorConfig = emptyOperatorConfig /\ Ledger!NoOverlay = NoOverlay
  BY DEF Ledger!emptyOperatorConfig, emptyOperatorConfig, Ledger!NoOverlay, NoOverlay
<1>3. ASSUME NEW hs, NEW h, NEW g
      PROVE  Ledger!updateHost(hs, h, g) = updateHost(hs, h, g)
  BY DEF Ledger!updateHost, updateHost
<1>4. ASSUME NEW c, NEW ch
      PROVE  Ledger!UsesAfter(c, ch) = UsesAfter(c, ch)
  BY DEF Ledger!UsesAfter, UsesAfter, Ledger!Spends, Spends
<1>5. ASSUME NEW c, NEW ch
      PROVE  Ledger!ConfigAfter(c, ch) = ConfigAfter(c, ch)
  BY ZenonT(60), <1>3, <1>4 DEF Ledger!ConfigAfter, ConfigAfter
<1>6. ASSUME NEW o, NEW ch
      PROVE  Ledger!OverlayAfter(o, ch) = OverlayAfter(o, ch)
  BY ZenonT(60), <1>3 DEF Ledger!OverlayAfter, OverlayAfter
<1> QED BY <1>1, <1>2, <1>5, <1>6

\* Replacing the config applies the change to the settings, at once.
LEMMA FilesWriteConfig ==
  ASSUME TypeOK, BatchInv, FileInv, NEW p \in Procs, WriteConfig(p)
  PROVE  FileInv' /\ Ledger!Next
<1> DEFINE ch == change[p]
<1>1. /\ Journaled = {} /\ loaded[p] = config /\ lock = p
      /\ ch \in Changes /\ ch.kind # "repo" /\ p \in Procs
  BY ZenonT(60) DEF WriteConfig, FileInv, ReplayInv, LockInv, BatchInv
<1>2. Journaled' = {}
  BY ZenonT(60), <1>1 DEF WriteConfig, Journaled
<1>3. OneJournal'
  BY <1>2 DEF OneJournal
<1>4. Settings = config /\ Settings' = config'
  BY <1>1, <1>2, <1>3, SettingsOne, SettingsOneNext DEF FileInv, SettingsAre
<1>5. config' = ConfigAfter(config, ch)
  BY ZenonT(60), <1>1 DEF WriteConfig
<1>6. Overlaid' = Overlaid
  BY ZenonT(60), <1>1, <1>2 DEF WriteConfig, Overlaid
<1>7. OverlayAfter(Overlaid, ch) = Overlaid
  BY <1>1 DEF OverlayAfter
<1>8. Ledger!Next
  <2>1. ch.kind = "default" => ~Settings.present
    BY ZenonT(60), <1>4 DEF WriteConfig
  <2>2. Ledger!Apply(ch)
    BY ZenonT(60), <1>4, <1>5, <1>6, <1>7, <2>1, SameChanges DEF Ledger!Apply
  <2> QED BY ZenonT(60), <1>1, <2>2, SameChanges DEF Ledger!Next
<1>9. UsesPaid'
  <2> SUFFICES ASSUME NEW k \in Grants
               PROVE  spent'[k] + config'.uses[k] <= issued'[k]
    BY ZenonT(60), <1>4 DEF UsesPaid
  <2>1. config'.uses = UsesAfter(config, ch)
    BY ZenonT(60), <1>5 DEF ConfigAfter
  <2>2. /\ spent[k] + config.uses[k] <= issued[k]
        /\ spent[k] \in Nat /\ issued[k] \in Nat /\ config.uses[k] \in Nat
        /\ config.uses \in [Grants -> 0..MaxUses]
    <3>1. config.uses \in [Grants -> 0..MaxUses]
      BY ZenonT(60) DEF TypeOK, Configs
    <3>2. spent[k] + config.uses[k] <= issued[k]
      BY ZenonT(60), <1>4 DEF FileInv, UsesPaid
    <3> QED BY <3>1, <3>2 DEF TypeOK
  <2>0. spent \in [Grants -> Nat] /\ issued \in [Grants -> Nat]
    BY DEF TypeOK
  <2>3. CASE ch.kind = "issue"
    <3>1. ch.key \in Grants /\ ch.uses \in Nat /\ ~Spends(config, ch)
      BY SMTT(60), <1>1, <2>3 DEF Changes, Spends
    <3>2. spent' = spent /\ issued' = [issued EXCEPT ![ch.key] = @ + ch.uses]
      BY ZenonT(60), <1>1, <2>3, <3>1 DEF WriteConfig
    <3>3. config'.uses = [config.uses EXCEPT ![ch.key] = ch.uses]
      BY ZenonT(60), <2>1, <2>3 DEF UsesAfter
    <3>4. CASE k = ch.key
      BY <2>0, <2>2, <3>1, <3>2, <3>3, <3>4
    <3>5. CASE k # ch.key
      BY ZenonT(60), <2>2, <3>1, <3>2, <3>3, <3>5 DEF TypeOK
    <3> QED BY ZenonT(60), <3>4, <3>5
  <2>4. CASE ch.kind = "revoke"
    <3>1. ch.key \in Grants /\ ~Spends(config, ch)
      BY ZenonT(60), <1>1, <2>4 DEF Changes, Spends
    <3>2. spent' = spent /\ issued' = issued
      BY ZenonT(60), <1>1, <2>4, <3>1 DEF WriteConfig
    <3>3. config'.uses = [config.uses EXCEPT ![ch.key] = 0]
      BY ZenonT(60), <2>1, <2>4 DEF UsesAfter
    <3>4. CASE k = ch.key
      BY <2>0, <2>2, <3>1, <3>2, <3>3, <3>4
    <3>5. CASE k # ch.key
      BY ZenonT(60), <2>2, <3>1, <3>2, <3>3, <3>5 DEF TypeOK
    <3> QED BY ZenonT(60), <3>4, <3>5
  <2>5. CASE ch.kind \notin {"issue", "revoke"} /\ Spends(config, ch)
    <3>1. ch.key \in Grants /\ config.uses[ch.key] > 0
      BY ZenonT(60), <1>1, <2>5 DEF Changes, Spends
    <3>2. spent' = [spent EXCEPT ![ch.key] = @ + 1] /\ issued' = issued
      BY ZenonT(60), <1>1, <2>5 DEF WriteConfig
    <3>3. config'.uses = [config.uses EXCEPT ![ch.key] = @ - 1]
      BY SMTT(60), <2>1, <2>5 DEF UsesAfter
    <3>4. CASE k = ch.key
      BY <2>0, <2>2, <3>1, <3>2, <3>3, <3>4
    <3>5. CASE k # ch.key
      BY ZenonT(60), <2>2, <3>1, <3>2, <3>3, <3>5 DEF TypeOK
    <3> QED BY ZenonT(60), <3>4, <3>5
  <2>6. CASE ch.kind \notin {"issue", "revoke"} /\ ~Spends(config, ch)
    <3>1. spent' = spent /\ issued' = issued /\ config'.uses = config.uses
      BY ZenonT(60), <1>1, <2>1, <2>6 DEF WriteConfig, UsesAfter
    <3> QED BY SMTT(60), <2>2, <3>1
  <2> QED BY ZenonT(60), <2>3, <2>4, <2>5, <2>6
<1>10. LockInv'
  BY ZenonT(60) DEF WriteConfig, FileInv, LockInv, TypeOK
<1>11. ReplayInv'
  <2>1. \A q \in Procs \ {p} : pc'[q] = pc[q] /\ pc[q] \notin Locked
    BY ZenonT(60), <1>1, OnlyHolder DEF WriteConfig, FileInv, TypeOK
  <2>2. pc'[p] = "finish"
    BY ZenonT(60) DEF WriteConfig, TypeOK
  <2> QED BY ZenonT(60), <1>2, <2>1, <2>2 DEF ReplayInv
<1> QED BY <1>3, <1>8, <1>9, <1>10, <1>11 DEF FileInv
\* Writing the journal applies the change to the settings, at once.
LEMMA FilesWriteJournal ==
  ASSUME TypeOK, BatchInv, FileInv, NEW p \in Procs, writeAllowanceJournal(p)
  PROVE  FileInv' /\ Ledger!Next
<1> DEFINE ch == change[p]
           after == [operator |-> ConfigAfter(config, ch),
                     overlay |-> OverlayAfter(overlay, ch)[ch.repo]]
<1>1. /\ Journaled = {} /\ loaded[p] = config /\ lock = p
      /\ ch \in Changes /\ ch.kind = "repo"
  BY ZenonT(60) DEF writeAllowanceJournal, FileInv, ReplayInv, LockInv, BatchInv
<1>2. ch.repo \in Repos
  BY ZenonT(60), <1>1 DEF Changes
<1>3. journal' = [journal EXCEPT ![ch.repo] = after] /\ after # NoJournal
  <2>1. journal' = [journal EXCEPT ![ch.repo] = after]
    BY ZenonT(60), <1>1 DEF writeAllowanceJournal
  <2>2. after.operator.present = TRUE /\ NoJournal.operator.present = FALSE
    BY ZenonT(60) DEF ConfigAfter, NoJournal, emptyOperatorConfig
  <2> QED BY ZenonT(60), <2>1, <2>2
<1>4. Journaled' = {ch.repo} /\ journal'[ch.repo] = after
  <2>1. DOMAIN journal = Repos /\ \A r \in Repos : journal[r] = NoJournal
    BY <1>1 DEF Journaled, TypeOK
  <2> HIDE DEF after
  <2>2. \A r \in Repos : journal'[r] = IF r = ch.repo THEN after ELSE NoJournal
    BY <1>2, <1>3, <2>1
  <2> QED BY <1>2, <1>3, <2>2 DEF Journaled
<1>5. OneJournal'
  BY ZenonT(60), <1>4 DEF OneJournal
<1>6. Settings = config /\ Settings' = ConfigAfter(config, ch)
  <2>1. Settings = config
    BY <1>1, SettingsOne DEF FileInv, SettingsAre
  <2>2. Settings' = journal'[ch.repo].operator
    BY ZenonT(60), <1>4, <1>5, SettingsOneNext
  <2>3. after.operator = ConfigAfter(config, ch)
    BY ZenonT(60)
  <2> QED BY ZenonT(60), <1>4, <2>1, <2>2, <2>3
<1>7. Overlaid = overlay
  BY ZenonT(60), <1>1 DEF Overlaid, TypeOK, Overlays
<1>8. Overlaid' = OverlayAfter(overlay, ch)
  <2>1. OverlayAfter(overlay, ch) \in [Repos -> SUBSET Hosts]
    BY ZenonT(60), <1>1, OverlayTyped DEF TypeOK, Overlays
  <2>2. \A r \in Repos \ {ch.repo} : OverlayAfter(overlay, ch)[r] = overlay[r]
    BY ZenonT(60), <1>1, OverlayTyped DEF TypeOK
  <2>3. Overlaid' = [r \in Repos |-> IF r = ch.repo THEN after.overlay ELSE overlay[r]]
    <3>1. overlay' = overlay
      BY ZenonT(60) DEF writeAllowanceJournal
    <3>2. Overlaid' = [r \in Repos |-> IF r \in Journaled' THEN journal'[r].overlay
                                      ELSE overlay'[r]]
      BY SMTT(60) DEF Overlaid
    <3>3. Overlaid' = [r \in Repos |-> IF r \in {ch.repo} THEN journal'[r].overlay
                                      ELSE overlay[r]]
      BY ZenonT(60), <1>4, <3>1, <3>2
    <3>4. \A r \in Repos : r \in {ch.repo} <=> r = ch.repo
      OBVIOUS
    <3> HIDE DEF ch, after
    <3> QED BY ZenonT(60), <1>4, <3>3, <3>4
  <2> QED BY <2>1, <2>2, <2>3
<1>9. Ledger!Next
  <2>1. Ledger!Apply(ch)
    BY ZenonT(60), <1>1, <1>6, <1>7, <1>8, SameChanges DEF Ledger!Apply
  <2> QED BY ZenonT(60), <1>1, <2>1, SameChanges DEF Ledger!Next
<1>10. UsesPaid'
  <2>1. Settings'.uses = config.uses
    <3>1. ~Spends(config, ch)
      BY ZenonT(60), <1>1 DEF Spends
    <3> QED BY ZenonT(60), <1>1, <1>6, <3>1 DEF ConfigAfter, UsesAfter
  <2> QED BY ZenonT(60), <1>6, <2>1 DEF FileInv, UsesPaid, writeAllowanceJournal
<1>11. LockInv'
  BY ZenonT(60) DEF writeAllowanceJournal, FileInv, LockInv, TypeOK
<1>12. ReplayInv'
  <2>1. \A q \in Procs \ {p} : pc'[q] = pc[q] /\ pc[q] \notin Locked
    BY ZenonT(60), <1>1, OnlyHolder DEF writeAllowanceJournal, FileInv, TypeOK
  <2>2. pc'[p] = "overlay" /\ redo'[p] = ch.repo
    BY ZenonT(60) DEF writeAllowanceJournal, TypeOK
  <2>3. redo'[p] \in Journaled'
    BY ZenonT(60), <1>4, <2>2
  <2> HIDE DEF ch, after
  <2> QED BY ZenonT(60), <2>1, <2>2, <2>3 DEF ReplayInv
<1> QED BY <1>5, <1>9, <1>10, <1>11, <1>12 DEF FileInv

\* Replaying a journal is not visible in the settings, however often it is done.
LEMMA FilesReplay ==
  ASSUME TypeOK, FileInv, NEW p \in Procs, ReplayOverlay(p) \/ ReplayOperator(p)
  PROVE  FileInv' /\ UNCHANGED <<Settings, Overlaid>>
<1> DEFINE r == redo[p]
<1>1. r \in Repos /\ r \in Journaled /\ lock = p
  BY ZenonT(60) DEF ReplayOverlay, ReplayOperator, FileInv, ReplayInv, LockInv, Journaled
<1>2. journal' = journal /\ Journaled' = Journaled
  BY ZenonT(60) DEF ReplayOverlay, ReplayOperator, Journaled
<1>3. OneJournal'
  BY <1>2 DEF FileInv, OneJournal
<1>4. Settings' = Settings
  BY ZenonT(60), <1>1, <1>2, <1>3, SettingsOne, SettingsOneNext DEF FileInv, SettingsAre
<1>5. Overlaid' = Overlaid
  BY ZenonT(60), <1>1, <1>2 DEF Overlaid, ReplayOverlay, ReplayOperator, TypeOK, Overlays
<1>6. UsesPaid'
  BY ZenonT(60), <1>4 DEF FileInv, UsesPaid, ReplayOverlay, ReplayOperator
<1>7. LockInv'
  <2>1. /\ pc \in [Procs -> {"idle", "lock"} \cup Locked]
        /\ pc[p] \in Locked /\ lock' = lock
    BY ZenonT(60) DEF ReplayOverlay, ReplayOperator, TypeOK, Locked, Replaying
  <2>2. pc' = [pc EXCEPT ![p] = "operator"] \/ pc' = [pc EXCEPT ![p] = "remove"]
    BY ZenonT(60) DEF ReplayOverlay, ReplayOperator
  <2>3. pc'[p] \in Locked /\ \A q \in Procs \ {p} : pc'[q] = pc[q]
    BY <2>1, <2>2 DEF Locked, Replaying
  <2> QED BY <2>1, <2>3 DEF FileInv, LockInv
<1>8. ReplayInv'
  <2>1. CASE ReplayOverlay(p)
    <3>1. \A q \in Procs \ {p} : pc'[q] = pc[q] /\ pc[q] \notin Locked
      BY ZenonT(60), <1>1, <2>1, OnlyHolder DEF ReplayOverlay, FileInv, TypeOK
    <3>2. pc'[p] = "operator" /\ redo' = redo /\ overlay'[r] = journal[r].overlay
      BY ZenonT(60), <1>1, <2>1 DEF ReplayOverlay, TypeOK, Overlays
    <3> QED BY ZenonT(60), <1>1, <1>2, <3>1, <3>2 DEF ReplayInv
  <2>2. CASE ReplayOperator(p)
    <3>1. \A q \in Procs \ {p} : pc'[q] = pc[q] /\ pc[q] \notin Locked
      BY ZenonT(60), <1>1, <2>2, OnlyHolder DEF ReplayOperator, FileInv, TypeOK
    <3>2. /\ pc'[p] = "remove" /\ redo' = redo /\ overlay' = overlay
          /\ config' = journal[r].operator /\ overlay[r] = journal[r].overlay
      BY ZenonT(60), <2>2 DEF ReplayOperator, FileInv, ReplayInv, TypeOK
    <3> QED BY ZenonT(60), <1>1, <1>2, <3>1, <3>2 DEF ReplayInv
  <2> QED BY SMTT(60), <2>1, <2>2
<1> QED BY <1>3, <1>4, <1>5, <1>6, <1>7, <1>8 DEF FileInv

\* Removing a replayed journal is not visible: the files hold what it held.
LEMMA FilesRemove ==
  ASSUME TypeOK, FileInv, NEW p \in Procs, RemoveJournal(p)
  PROVE  FileInv' /\ UNCHANGED <<Settings, Overlaid>>
<1> DEFINE r == redo[p]
<1>1. /\ r \in Repos /\ r \in Journaled /\ lock = p
      /\ overlay[r] = journal[r].overlay /\ config = journal[r].operator
  BY ZenonT(60) DEF RemoveJournal, FileInv, ReplayInv, LockInv, Journaled
<1>2. Journaled = {r}
  BY ZenonT(60), <1>1 DEF FileInv, OneJournal
<1>3. Journaled' = {}
  BY ZenonT(60), <1>1, <1>2 DEF RemoveJournal, Journaled, TypeOK
<1>4. OneJournal'
  BY SMTT(60), <1>3 DEF OneJournal
<1>5. Settings' = Settings
  BY ZenonT(60), <1>1, <1>3, <1>4, SettingsOne, SettingsOneNext DEF FileInv, SettingsAre, RemoveJournal
<1>6. Overlaid' = Overlaid
  BY ZenonT(60), <1>1, <1>2, <1>3 DEF Overlaid, RemoveJournal
<1>7. UsesPaid'
  BY ZenonT(60), <1>5 DEF FileInv, UsesPaid, RemoveJournal
<1>8. LockInv'
  BY ZenonT(60) DEF RemoveJournal, FileInv, LockInv, TypeOK
<1>9. ReplayInv'
  <2>1. \A q \in Procs \ {p} : pc'[q] = pc[q] /\ pc[q] \notin Locked
    BY ZenonT(60), <1>1, OnlyHolder DEF RemoveJournal, FileInv, TypeOK
  <2>2. pc'[p] \in {"finish", "recover"}
    BY ZenonT(60) DEF RemoveJournal, TypeOK
  <2> QED BY ZenonT(60), <1>3, <2>1, <2>2 DEF ReplayInv
<1> QED BY <1>4, <1>5, <1>6, <1>7, <1>8, <1>9 DEF FileInv
-----------------------------------------------------------------------------
(* The theorems *)

\* The first state is typed, with no lock held and nothing to replay.
LEMMA InitHolds ==
  Init => SettingsInv /\ Ledger!Init
<1> SUFFICES ASSUME Init
             PROVE  SettingsInv /\ Ledger!Init
  OBVIOUS
<1>1. TypeOK
  <2>1. <<>> \in Seq(Hosts)
    OBVIOUS
  <2> QED BY <2>1, EmptyTyped DEF Init, TypeOK
<1>2. Journaled = {}
  BY DEF Init, Journaled
<1>3. OneJournal
  BY <1>2 DEF OneJournal
<1>4. Settings = emptyOperatorConfig
  BY <1>2, <1>3, SettingsOne DEF SettingsAre, Init
<1>5. UsesPaid
  <2> SUFFICES ASSUME NEW k \in Grants
               PROVE  spent[k] + Settings.uses[k] <= issued[k]
    BY DEF UsesPaid
  <2>1. Settings.uses[k] = 0
    BY <1>4 DEF emptyOperatorConfig
  <2>2. spent[k] = 0 /\ issued[k] = 0
    BY SMTT(60) DEF Init
  <2> QED BY <2>1, <2>2
<1>6. LockInv /\ ReplayInv /\ BatchInv
  BY ZenonT(60) DEF Init, LockInv, ReplayInv, BatchInv
<1>7. Overlaid = NoOverlay
  BY ZenonT(60), <1>2 DEF Overlaid, Init, NoOverlay
<1> QED BY <1>1, <1>3, <1>4, <1>5, <1>6, <1>7, SameChanges DEF SettingsInv, Ledger!Init

\* Every step keeps the invariant and is a ledger step or not visible in it.
LEMMA StepHolds ==
  SettingsInv /\ [Next]_vars =>
    SettingsInv' /\ [Ledger!Next]_<<Settings, Overlaid>>
<1> SUFFICES ASSUME SettingsInv, [Next]_vars
             PROVE  SettingsInv' /\ [Ledger!Next]_<<Settings, Overlaid>>
  OBVIOUS
<1>0. TypeOK /\ BatchInv /\ FileInv /\ ReplayInv
  BY DEF SettingsInv, FileInv
<1>1. CASE UNCHANGED vars
  <2>1. /\ Journaled' = Journaled /\ OneJournal'
        /\ Settings' = Settings /\ Overlaid' = Overlaid
    BY SMTT(60), <1>0, <1>1, Quiet DEF FileInv, vars
  <2>2. TypeOK' /\ BatchInv' /\ LockInv'
    BY ZenonT(60), <1>0, <1>1 DEF vars, TypeOK, BatchInv, FileInv, LockInv
  <2>3. ReplayInv' /\ UsesPaid'
    BY ZenonT(60), <1>0, <1>1, <2>1 DEF vars, FileInv, ReplayInv, UsesPaid
  <2> QED BY <2>1, <2>2, <2>3 DEF SettingsInv
<1>2. ASSUME NEW p \in Procs, Begin(p) \/ Step(p) \/ Fail(p) \/ Crash(p)
      PROVE  SettingsInv' /\ [Ledger!Next]_<<Settings, Overlaid>>
  <2>1. CASE Begin(p)
    BY <1>0, <2>1, TypeBegin, FilesBegin DEF SettingsInv, FileInv
  <2>2. CASE \/ Acquire(p)
             \/ \E r \in Repos : recoverAllowanceJournals(p, r)
             \/ LoadOperatorConfig(p)
             \/ KeepExisting(p)
    BY <1>0, <2>2, TypeLocked, FilesQuiet DEF SettingsInv, FileInv
  <2>3. CASE WriteConfig(p)
    BY <1>0, <2>3, TypeWrites, FilesWriteConfig DEF SettingsInv, FileInv
  <2>4. CASE writeAllowanceJournal(p)
    BY <1>0, <2>4, TypeWrites, FilesWriteJournal DEF SettingsInv, FileInv
  <2>5. CASE ReplayOverlay(p) \/ ReplayOperator(p)
    BY <1>0, <2>5, TypeWrites, FilesReplay DEF SettingsInv, FileInv
  <2>6. CASE RemoveJournal(p)
    BY <1>0, <2>6, TypeLocked, FilesRemove DEF SettingsInv, FileInv
  <2>7. CASE NextHost(p) \/ Finish(p) \/ UndoApplied(p) \/ Fail(p) \/ Crash(p)
    BY <1>0, <2>7, TypeLeave, FilesLeave DEF SettingsInv, FileInv
  <2> QED BY ZenonT(60), <1>2, <2>1, <2>2, <2>3, <2>4, <2>5, <2>6, <2>7 DEF Step
<1> QED BY <1>1, <1>2 DEF Next

\* For any processes, hosts, repositories, grants and batches, and whatever
\* fails or crashes: the invariant the locked sections rely on always holds.
THEOREM SettingsInvAlways == Spec => []SettingsInv
<1>1. Init => SettingsInv
  BY InitHolds
<1>2. SettingsInv /\ [Next]_vars => SettingsInv'
  BY StepHolds
<1> QED BY <1>1, <1>2, PTL DEF Spec

\* At most one journal ever waits to be replayed.
THEOREM AlwaysOneJournal == Spec => []OneJournal
<1>1. SettingsInv => OneJournal
  BY DEF SettingsInv
<1> QED BY <1>1, SettingsInvAlways, PTL

\* No consumption is made that no issuance paid for.
THEOREM UsesAlwaysPaid == Spec => []UsesPaid
<1>1. SettingsInv => UsesPaid
  BY DEF SettingsInv
<1> QED BY <1>1, SettingsInvAlways, PTL

\* What is reported done is in the files that hooks read.
THEOREM DoneAlwaysWritten == Spec => []DoneIsWritten
<1>1. SettingsInv => DoneIsWritten
  BY DEF SettingsInv, ReplayInv, DoneIsWritten
<1> QED BY <1>1, SettingsInvAlways, PTL

\* The locks, files, journals, failures and crashes implement the ledger in
\* which every change is made at once.
THEOREM LedgerImplemented == Spec => ImplementsLedger
<1>1. Init => Ledger!Init
  BY InitHolds
<1>2. SettingsInv /\ [Next]_vars => [Ledger!Next]_<<Settings, Overlaid>>
  BY StepHolds
<1> QED BY <1>1, <1>2, SettingsInvAlways, PTL DEF Spec, ImplementsLedger, Ledger!Spec
=============================================================================
