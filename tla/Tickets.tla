------------------------------ MODULE Tickets ------------------------------
(***************************************************************************)
(* Host-approval tickets (internal/approval/ticket.go), issued by the hook *)
(* when it asks for an operator command and spent by the CLI that runs it. *)
(*                                                                         *)
(* A ticket is a file named after the session and the binding (command and *)
(* working directory).  Claiming reads and deletes under an exclusive lock *)
(* that issuing, voiding and pruning do not take, and it lists its         *)
(* candidates, and reads the clock, before it waits for the lock.          *)
(***************************************************************************)
CONSTANTS
    Tickets,     \* ticket contents, each issued at most once
    Sessions,    \* agent sessions
    Bindings,    \* command and working directory
    Hooks,       \* hook processes handling a pre-execution call
    Claimants    \* CLI processes looking for their approval

ASSUME NoTicketAssumption == "none" \notin Tickets \cup Sessions \cup Bindings \cup Claimants

VARIABLES
    file,        \* Sessions \X Bindings -> the ticket stored under that name
    issued,      \* every ticket written so far
    expired,     \* the tickets whose ExpiresAt has passed
    spent,       \* the tickets that proved an approval
    granted,     \* Claimants -> the ticket the last run was granted with
    hook,        \* Hooks -> idle | prune | issue
    ask,         \* Hooks -> the file name the hook is issuing
    doomed,      \* Hooks -> file names read as expired, about to be removed
    lock,        \* the claimant holding the directory lock, or none
    claim,       \* Claimants -> idle | wait | scan | read
    names,       \* Claimants -> candidate file names still to try
    late,        \* Claimants -> what had expired when the clock was read
    name,        \* Claimants -> the candidate being claimed
    content      \* Claimants -> what reading that candidate returned

hookVars == <<hook, ask, doomed>>
claimVars == <<lock, claim, names, late, name, content>>
vars == <<file, issued, expired, spent, granted, hookVars, claimVars>>

Names == Sessions \X Bindings
NoName == <<"none", "none">>

TypeOK ==
    /\ file \in [Names -> Tickets \cup {"none"}]
    /\ issued \subseteq Tickets /\ expired \subseteq Tickets /\ spent \subseteq Tickets
    /\ granted \in [Claimants -> Tickets \cup {"none"}]
    /\ hook \in [Hooks -> {"idle", "prune", "issue"}]
    /\ ask \in [Hooks -> Names \cup {NoName}]
    /\ doomed \in [Hooks -> SUBSET Names]
    /\ lock \in Claimants \cup {"none"}
    /\ claim \in [Claimants -> {"idle", "wait", "scan", "read"}]
    /\ names \in [Claimants -> SUBSET Names]
    /\ late \in [Claimants -> SUBSET Tickets]
    /\ name \in [Claimants -> Names \cup {NoName}]
    /\ content \in [Claimants -> Tickets \cup {"none"}]

Init ==
    /\ file = [n \in Names |-> "none"]
    /\ issued = {} /\ expired = {} /\ spent = {}
    /\ granted = [c \in Claimants |-> "none"]
    /\ hook = [k \in Hooks |-> "idle"]
    /\ ask = [k \in Hooks |-> NoName]
    /\ doomed = [k \in Hooks |-> {}]
    /\ lock = "none"
    /\ claim = [c \in Claimants |-> "idle"]
    /\ names = [c \in Claimants |-> {}]
    /\ late = [c \in Claimants |-> {}]
    /\ name = [c \in Claimants |-> NoName]
    /\ content = [c \in Claimants |-> "none"]

Present == {n \in Names : file[n] # "none"}

Removed(gone) == [n \in Names |-> IF n \in gone THEN "none" ELSE file[n]]

\* Ten minutes after a ticket was issued.
Lapse(t) ==
    /\ t \in issued \ expired
    /\ expired' = expired \cup {t}
    /\ UNCHANGED <<file, issued, spent, granted, hookVars, claimVars>>

----------------------------------------------------------------------------
(* The hook                                                                *)

\* A call that is no operator command voids the tickets of its session.
HookOther(s) ==
    /\ file' = Removed({n \in Present : n[1] = s})
    /\ UNCHANGED <<issued, expired, spent, granted, hookVars, claimVars>>

\* Mutant: the ticket is asked for under its command alone, without the session.
HookAskUnscoped(k, s, b) ==
    /\ hook[k] = "idle"
    /\ file' = Removed({n \in Present : n[1] = s /\ n[2] # b})
    /\ hook' = [hook EXCEPT ![k] = "prune"]
    /\ ask' = [ask EXCEPT ![k] = <<b>>]
    /\ UNCHANGED <<issued, expired, spent, granted, doomed, claimVars>>

\* An operator command voids the session's other tickets and is then asked for.
HookAsk(k, s, b) ==
    /\ hook[k] = "idle"
    /\ file' = Removed({n \in Present : n[1] = s /\ n[2] # b})
    /\ hook' = [hook EXCEPT ![k] = "prune"]
    /\ ask' = [ask EXCEPT ![k] = <<s, b>>]
    /\ UNCHANGED <<issued, expired, spent, granted, doomed, claimVars>>

\* pruneExpiredTickets reads each file and removes the expired ones by name.
PruneRead(k) ==
    /\ hook[k] = "prune"
    /\ doomed' = [doomed EXCEPT ![k] = {n \in Present : file[n] \in expired}]
    /\ hook' = [hook EXCEPT ![k] = "issue"]
    /\ UNCHANGED <<file, issued, expired, spent, granted, ask, claimVars>>

\* The removals, and the rename of the new ticket over its name.
Issue(k, t) ==
    /\ hook[k] = "issue" /\ t \notin issued
    /\ file' = [Removed(doomed[k]) EXCEPT ![ask[k]] = t]
    /\ issued' = issued \cup {t}
    /\ hook' = [hook EXCEPT ![k] = "idle"]
    /\ ask' = [ask EXCEPT ![k] = NoName]
    /\ doomed' = [doomed EXCEPT ![k] = {}]
    /\ UNCHANGED <<expired, spent, granted, claimVars>>

\* The ticket cannot be written: the verdict is a deny and nothing is stored.
IssueFails(k) ==
    /\ hook[k] = "issue"
    /\ file' = Removed(doomed[k])
    /\ hook' = [hook EXCEPT ![k] = "idle"]
    /\ ask' = [ask EXCEPT ![k] = NoName]
    /\ doomed' = [doomed EXCEPT ![k] = {}]
    /\ UNCHANGED <<issued, expired, spent, granted, claimVars>>

----------------------------------------------------------------------------
(* ClaimTicket                                                             *)

\* The clock is read and the candidates are listed; without any the run is over.
ClaimList(c, b) ==
    /\ claim[c] = "idle"
    /\ \E n \in Present : n[2] = b
    /\ names' = [names EXCEPT ![c] = {n \in Present : n[2] = b}]
    /\ late' = [late EXCEPT ![c] = expired]
    /\ granted' = [granted EXCEPT ![c] = "none"]
    /\ claim' = [claim EXCEPT ![c] = "wait"]
    /\ UNCHANGED <<file, issued, expired, spent, hookVars, lock, name, content>>

\* Mutant: the claim does not take the lock.
ClaimUnlocked(c) ==
    /\ claim[c] = "wait"
    /\ claim' = [claim EXCEPT ![c] = "scan"]
    /\ UNCHANGED <<file, issued, expired, spent, granted, hookVars, lock, names, late, name, content>>

ClaimLock(c) ==
    /\ claim[c] = "wait" /\ lock = "none"
    /\ lock' = c
    /\ claim' = [claim EXCEPT ![c] = "scan"]
    /\ UNCHANGED <<file, issued, expired, spent, granted, hookVars, names, late, name, content>>

ClaimRead(c, n) ==
    /\ claim[c] = "scan" /\ n \in names[c]
    /\ name' = [name EXCEPT ![c] = n]
    /\ content' = [content EXCEPT ![c] = file[n]]
    /\ names' = [names EXCEPT ![c] = @ \ {n}]
    /\ claim' = [claim EXCEPT ![c] = "read"]
    /\ UNCHANGED <<file, issued, expired, spent, granted, hookVars, lock, late>>

\* The end of a run, or of its process: the lock goes with it.
ClaimOver(c) ==
    /\ claim' = [claim EXCEPT ![c] = "idle"]
    /\ lock' = IF lock = c THEN "none" ELSE lock
    /\ names' = [names EXCEPT ![c] = {}]
    /\ late' = [late EXCEPT ![c] = {}]
    /\ name' = [name EXCEPT ![c] = NoName]
    /\ content' = [content EXCEPT ![c] = "none"]

\* Ticket.valid, against the clock read before the lock.
Valid(c) == content[c] # "none" /\ content[c] \notin late[c]

\* Mutant: the claimed file stays where it is.
ClaimKeeps(c) ==
    /\ claim[c] = "read"
    /\ file[name[c]] # "none" /\ Valid(c)
    /\ spent' = spent \cup {content[c]}
    /\ granted' = [granted EXCEPT ![c] = content[c]]
    /\ ClaimOver(c)
    /\ UNCHANGED <<file, issued, expired, hookVars>>

\* The name is removed, whatever it names by now, and what was read is valid.
ClaimGrant(c) ==
    /\ claim[c] = "read"
    /\ file[name[c]] # "none" /\ Valid(c)
    /\ file' = [file EXCEPT ![name[c]] = "none"]
    /\ spent' = spent \cup {content[c]}
    /\ granted' = [granted EXCEPT ![c] = content[c]]
    /\ ClaimOver(c)
    /\ UNCHANGED <<issued, expired, hookVars>>

\* The name is gone, or what was read is not valid: on to the next candidate.
ClaimNext(c) ==
    /\ claim[c] = "read"
    /\ file[name[c]] = "none" \/ ~Valid(c)
    /\ file' = [file EXCEPT ![name[c]] = "none"]
    /\ name' = [name EXCEPT ![c] = NoName]
    /\ content' = [content EXCEPT ![c] = "none"]
    /\ claim' = [claim EXCEPT ![c] = "scan"]
    /\ UNCHANGED <<issued, expired, spent, granted, hookVars, lock, names, late>>

\* No candidate is left, or the process ends before its claim does.
ClaimEnds(c) ==
    /\ claim[c] # "idle"
    /\ ClaimOver(c)
    /\ UNCHANGED <<file, issued, expired, spent, granted, hookVars>>

----------------------------------------------------------------------------
Next ==
    \/ \E t \in Tickets : Lapse(t)
    \/ \E s \in Sessions : HookOther(s)
    \/ \E k \in Hooks :
        \/ \E s \in Sessions, b \in Bindings : HookAsk(k, s, b)
        \/ PruneRead(k) \/ IssueFails(k)
        \/ \E t \in Tickets : Issue(k, t)
    \/ \E c \in Claimants :
        \/ \E b \in Bindings : ClaimList(c, b)
        \/ ClaimLock(c)
        \/ \E n \in Names : ClaimRead(c, n)
        \/ ClaimGrant(c) \/ ClaimNext(c) \/ ClaimEnds(c)

Spec == Init /\ [][Next]_vars

----------------------------------------------------------------------------
(* Properties                                                              *)

\* A spent ticket is spent for good, although issuing, voiding and pruning
\* replace and remove files between a claimant's read and its delete: no
\* claimant is granted a run with a ticket that is already spent.
SpentOnce ==
    [][\A c \in Claimants :
        granted'[c] # "none" /\ granted'[c] # granted[c] => granted'[c] \notin spent]_vars

\* The claimants inside ClaimTicket's critical section, and what they may hold:
\* a spent ticket is under no name and in no claimant's hands.
ClaimInv ==
    /\ \A c \in Claimants :
        /\ claim[c] \in {"scan", "read"} => lock = c
        /\ claim[c] = "read" => name[c] \in Names
        /\ claim[c] # "read" => content[c] = "none"
        /\ content[c] \notin spent
        /\ content[c] # "none" =>
              /\ content[c] \in issued
              /\ \A n \in Names : file[n] = content[c] => n = name[c]
    /\ \A k \in Hooks : hook[k] # "idle" => ask[k] \in Names
    /\ \A n \in Names : file[n] # "none" => file[n] \in issued \ spent
    /\ \A n, m \in Names : file[n] = file[m] /\ file[n] # "none" => n = m
    /\ spent \subseteq issued
=============================================================================
