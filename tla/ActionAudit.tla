---------------------------- MODULE ActionAudit ----------------------------
(***************************************************************************)
(* The audit journal of approved operator actions                          *)
(* (cmd/guardrail/action_audit.go).  Every action handler brackets its     *)
(* mutation with startActionAudit and completeActionAudit:                 *)
(*                                                                         *)
(*   finish the journals other actions left marked as mutated;             *)
(*   append "requested", then create this action's journal;                *)
(*   mutate;                                                               *)
(*   mark the journal as mutated, append "completed", remove the journal.  *)
(*                                                                         *)
(* No lock is held anywhere: handlers of one daemon, of two daemons and of *)
(* the in-process ApplyLocal path interleave file operation by file        *)
(* operation, and a process may die between any two of them.  Appends and  *)
(* journal writes may fail; each failure takes the code's error path.      *)
(***************************************************************************)
CONSTANTS
    Actions,    \* request ids; each names one journal file
    Runs        \* concurrently executing handlers

ASSUME NoActionAssumption == "none" \notin Actions

VARIABLES
    journal,    \* Actions -> none | open | mutated: the journal file on disk
    requested,  \* the actions with a "requested" audit record
    completed,  \* the actions with a "completed" audit record
    applied,    \* the actions whose mutation has taken effect
    pc,         \* Runs -> where each handler stands
    own,        \* Runs -> the action the handler executes
    scan,       \* Runs -> directory entries recovery has still to visit
    found       \* Runs -> the mutated journal recovery is finishing

vars == <<journal, requested, completed, applied, pc, own, scan, found>>

JournalState == {"none", "open", "mutated"}

PCs == {"idle", "scan", "foundAppend", "foundRemove", "load", "ownAppend",
        "ownRemove", "request", "create", "mutate", "completeLoad", "mark",
        "append", "remove"}

TypeOK ==
    /\ journal \in [Actions -> JournalState]
    /\ requested \subseteq Actions
    /\ completed \subseteq Actions
    /\ applied \subseteq Actions
    /\ pc \in [Runs -> PCs]
    /\ own \in [Runs -> Actions \cup {"none"}]
    /\ scan \in [Runs -> SUBSET Actions]
    /\ found \in [Runs -> Actions \cup {"none"}]

Init ==
    /\ journal = [a \in Actions |-> "none"]
    /\ requested = {} /\ completed = {} /\ applied = {}
    /\ pc = [r \in Runs |-> "idle"]
    /\ own = [r \in Runs |-> "none"]
    /\ scan = [r \in Runs |-> {}]
    /\ found = [r \in Runs |-> "none"]

Goto(r, label) == pc' = [pc EXCEPT ![r] = label]

\* The handler returns (or its process dies) and forgets its local variables.
Return(r) ==
    /\ pc' = [pc EXCEPT ![r] = "idle"]
    /\ own' = [own EXCEPT ![r] = "none"]
    /\ scan' = [scan EXCEPT ![r] = {}]
    /\ found' = [found EXCEPT ![r] = "none"]

----------------------------------------------------------------------------
(* startActionAudit: recovery of the journals other actions left           *)

\* os.ReadDir: the journals that exist now, the handler's own excepted.
Begin(r, a) ==
    /\ pc[r] = "idle"
    /\ own' = [own EXCEPT ![r] = a]
    /\ scan' = [scan EXCEPT ![r] = {b \in Actions \ {a} : journal[b] # "none"}]
    /\ Goto(r, "scan")
    /\ UNCHANGED <<journal, requested, completed, applied, found>>

\* A listed journal that has vanished, or that is not marked, is passed over.
ScanSkip(r, b) ==
    /\ pc[r] = "scan" /\ b \in scan[r]
    /\ journal[b] # "mutated"
    /\ scan' = [scan EXCEPT ![r] = @ \ {b}]
    /\ UNCHANGED <<journal, requested, completed, applied, pc, own, found>>

\* Mutant: recovery finishes every journal it can read.
ScanFindAny(r, b) ==
    /\ pc[r] = "scan" /\ b \in scan[r]
    /\ journal[b] # "none"
    /\ scan' = [scan EXCEPT ![r] = @ \ {b}]
    /\ found' = [found EXCEPT ![r] = b]
    /\ Goto(r, "foundAppend")
    /\ UNCHANGED <<journal, requested, completed, applied, own>>

ScanFind(r, b) ==
    /\ pc[r] = "scan" /\ b \in scan[r]
    /\ journal[b] = "mutated"
    /\ scan' = [scan EXCEPT ![r] = @ \ {b}]
    /\ found' = [found EXCEPT ![r] = b]
    /\ Goto(r, "foundAppend")
    /\ UNCHANGED <<journal, requested, completed, applied, own>>

\* finishActionAudit on a recovered journal; a failed append fails the handler.
FoundAppend(r) ==
    /\ pc[r] = "foundAppend"
    /\ \/ /\ completed' = completed \cup {found[r]}
          /\ Goto(r, "foundRemove")
          /\ UNCHANGED <<own, scan, found>>
       \/ Return(r) /\ UNCHANGED completed
    /\ UNCHANGED <<journal, requested, applied>>

FoundRemove(r) ==
    /\ pc[r] = "foundRemove"
    /\ journal' = [journal EXCEPT ![found[r]] = "none"]
    /\ found' = [found EXCEPT ![r] = "none"]
    /\ Goto(r, "scan")
    /\ UNCHANGED <<requested, completed, applied, own, scan>>

----------------------------------------------------------------------------
(* startActionAudit: the handler's own journal                             *)

\* A marked journal is finished without mutating again, an unmarked one is
\* resumed without a second "requested" record.
LoadOwn(r) ==
    /\ pc[r] = "scan" /\ scan[r] = {}
    /\ \/ journal[own[r]] = "mutated" /\ Goto(r, "ownAppend")
       \/ journal[own[r]] = "open" /\ Goto(r, "mutate")
       \/ journal[own[r]] = "none" /\ Goto(r, "request")
    /\ UNCHANGED <<journal, requested, completed, applied, own, scan, found>>

\* The error of finishActionAudit is discarded here: the journal stays.
OwnAppend(r) ==
    /\ pc[r] = "ownAppend"
    /\ \/ /\ completed' = completed \cup {own[r]}
          /\ Goto(r, "ownRemove")
          /\ UNCHANGED <<own, scan, found>>
       \/ Return(r) /\ UNCHANGED completed
    /\ UNCHANGED <<journal, requested, applied>>

OwnRemove(r) ==
    /\ pc[r] = "ownRemove"
    /\ journal' = [journal EXCEPT ![own[r]] = "none"]
    /\ Return(r)
    /\ UNCHANGED <<requested, completed, applied>>

\* Mutant: a failed "requested" append does not stop the handler.
RequestUnchecked(r) ==
    /\ pc[r] = "request"
    /\ \/ requested' = requested \cup {own[r]}
       \/ UNCHANGED requested
    /\ Goto(r, "create")
    /\ UNCHANGED <<journal, completed, applied, own, scan, found>>

Request(r) ==
    /\ pc[r] = "request"
    /\ \/ /\ requested' = requested \cup {own[r]}
          /\ Goto(r, "create")
          /\ UNCHANGED <<own, scan, found>>
       \/ Return(r) /\ UNCHANGED requested
    /\ UNCHANGED <<journal, completed, applied>>

\* Mutant: a journal that could not be created does not stop the handler.
CreateUnchecked(r) ==
    /\ pc[r] = "create"
    /\ \/ journal' = [journal EXCEPT ![own[r]] = "open"]
       \/ UNCHANGED journal
    /\ Goto(r, "mutate")
    /\ UNCHANGED <<requested, completed, applied, own, scan, found>>

\* writeActionAuditJournal replaces whatever journal is there by an unmarked one.
Create(r) ==
    /\ pc[r] = "create"
    /\ \/ /\ journal' = [journal EXCEPT ![own[r]] = "open"]
          /\ Goto(r, "mutate")
          /\ UNCHANGED <<own, scan, found>>
       \/ Return(r) /\ UNCHANGED journal
    /\ UNCHANGED <<requested, completed, applied>>

----------------------------------------------------------------------------
(* The handler's mutation and completeActionAudit                          *)

\* A handler whose mutation fails, with or without an effect, returns the error
\* and leaves the journal.
Mutate(r) ==
    /\ pc[r] = "mutate"
    /\ \/ /\ applied' = applied \cup {own[r]}
          /\ Goto(r, "completeLoad")
          /\ UNCHANGED <<own, scan, found>>
       \/ /\ applied' \in {applied, applied \cup {own[r]}}
          /\ Return(r)
    /\ UNCHANGED <<journal, requested, completed>>

\* Another handler may have finished and removed the journal: the error is
\* discarded by the handler, which reports success.
CompleteLoad(r) ==
    /\ pc[r] = "completeLoad"
    /\ \/ /\ journal[own[r]] # "none"
          /\ Goto(r, "mark")
          /\ UNCHANGED <<own, scan, found>>
       \/ journal[own[r]] = "none" /\ Return(r)
    /\ UNCHANGED <<journal, requested, completed, applied>>

\* Mutant: the audit decision is written where the mark belongs.
MarkDecision(r) ==
    /\ pc[r] = "mark"
    /\ \/ /\ journal' = [journal EXCEPT ![own[r]] = "completed"]
          /\ Goto(r, "append")
          /\ UNCHANGED <<own, scan, found>>
       \/ Return(r) /\ UNCHANGED journal
    /\ UNCHANGED <<requested, completed, applied>>

\* completeActionAudit rewrites the journal it loaded, marked as mutated.
Mark(r) ==
    /\ pc[r] = "mark"
    /\ \/ /\ journal' = [journal EXCEPT ![own[r]] = "mutated"]
          /\ Goto(r, "append")
          /\ UNCHANGED <<own, scan, found>>
       \/ Return(r) /\ UNCHANGED journal
    /\ UNCHANGED <<requested, completed, applied>>

\* Mutant: the journal is removed whether or not the append succeeded.
AppendUnchecked(r) ==
    /\ pc[r] = "append"
    /\ \/ completed' = completed \cup {own[r]}
       \/ UNCHANGED completed
    /\ Goto(r, "remove")
    /\ UNCHANGED <<journal, requested, applied, own, scan, found>>

Append(r) ==
    /\ pc[r] = "append"
    /\ \/ /\ completed' = completed \cup {own[r]}
          /\ Goto(r, "remove")
          /\ UNCHANGED <<own, scan, found>>
       \/ Return(r) /\ UNCHANGED completed
    /\ UNCHANGED <<journal, requested, applied>>

Remove(r) ==
    /\ pc[r] = "remove"
    /\ journal' = [journal EXCEPT ![own[r]] = "none"]
    /\ Return(r)
    /\ UNCHANGED <<requested, completed, applied>>

----------------------------------------------------------------------------
\* The process dies between two file operations; the disk keeps what it has.
Crash(r) ==
    /\ pc[r] # "idle"
    /\ Return(r)
    /\ UNCHANGED <<journal, requested, completed, applied>>

Step(r) ==
    \/ \E b \in Actions : ScanSkip(r, b) \/ ScanFind(r, b)
    \/ FoundAppend(r) \/ FoundRemove(r)
    \/ LoadOwn(r) \/ OwnAppend(r) \/ OwnRemove(r)
    \/ Request(r) \/ Create(r) \/ Mutate(r)
    \/ CompleteLoad(r) \/ Mark(r) \/ Append(r) \/ Remove(r)

Next == \E r \in Runs : (\E a \in Actions : Begin(r, a)) \/ Step(r) \/ Crash(r)

Spec == Init /\ [][Next]_vars

----------------------------------------------------------------------------
(* Properties                                                              *)

\* startActionAudit "records durable audit intent before a persistent action
\* mutates": no mutation takes effect without its "requested" record, also
\* when a retry resumes a journal another process created.
IntentBeforeMutation == applied \subseteq requested

\* A "completed" record is written only for a mutation that took effect, by
\* whichever handler or recovery scan happens to write it.
CompletedWasApplied == completed \subseteq applied

\* A mutation whose "completed" record is missing still has its journal, so
\* the trail of an applied action is never lost to a crash, to a failed append
\* or to another handler's recovery removing the journal.
TrailNeverLost ==
    \A a \in applied \ completed : journal[a] # "none"

\* The comment on recovery ("Recovery finishes journals a crash left behind"):
\* once a handler has finished its scan, and no other handler is running that
\* could have crashed after the scan began, every other applied action has its
\* "completed" record.
RecoveryFinishesCrashed ==
    \A r \in Runs :
        /\ pc[r] \in {"request", "create", "mutate"}
        /\ \A q \in Runs \ {r} : pc[q] = "idle"
        => applied \ {own[r]} \subseteq completed
----------------------------------------------------------------------------
(* The strengthening that makes the three safety properties inductive      *)

\* What each control point of a handler knows about its own action.
OwnProgress ==
    \A r \in Runs :
        /\ pc[r] # "idle" => own[r] \in Actions
        /\ pc[r] \in {"create", "mutate"} => own[r] \in requested
        /\ pc[r] \in {"ownAppend", "ownRemove", "completeLoad", "mark",
                      "append", "remove"} => own[r] \in applied
        /\ pc[r] \in {"ownRemove", "remove"} => own[r] \in completed
        /\ pc[r] = "mutate" => \/ journal[own[r]] # "none"
                               \/ own[r] \in completed

\* What recovery knows about the journal it is finishing.
FoundProgress ==
    \A r \in Runs :
        /\ pc[r] \in {"foundAppend", "foundRemove"} => found[r] \in applied
        /\ pc[r] = "foundRemove" => found[r] \in completed

\* What a journal on disk records.
JournalMeaning ==
    \A a \in Actions :
        /\ journal[a] # "none" => a \in requested
        /\ journal[a] = "mutated" => a \in applied

\* The inductive invariant of the journal protocol: what every handler, every
\* recovery scan and every journal file knows, with the three properties.
JournalInv ==
    /\ TypeOK
    /\ OwnProgress
    /\ FoundProgress
    /\ JournalMeaning
    /\ IntentBeforeMutation
    /\ CompletedWasApplied
    /\ TrailNeverLost
=============================================================================
