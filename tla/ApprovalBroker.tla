--------------------------- MODULE ApprovalBroker ---------------------------
(***************************************************************************)
(* The operator approval broker and its on-demand daemon                   *)
(* (internal/approval: broker.go, daemon.go, browser.go, daemon_unix.go).  *)
(*                                                                         *)
(* Requests live in one durable store; every access to it is a session     *)
(* transaction, one atomic step here.  Between transactions nothing is     *)
(* locked: daemons start, listen, recover, go idle and die; loopback pages *)
(* are opened and re-opened; several POST handlers may be working on one   *)
(* request.  A daemon is a slot: the same slot started again is a new      *)
(* process with empty memory.                                              *)
(*                                                                         *)
(* Time is the set of requests whose expiry has passed.  A page is the     *)
(* state of its current WebAuthn ceremony, so the pages that one daemon    *)
(* opened in turn for one request are one page here.                       *)
(***************************************************************************)
EXTENDS Naturals, FiniteSets

CONSTANTS
    Requests,     \* request identities
    Plain,        \* the requests without an action to execute
    Daemons,      \* daemon process slots
    Handlers,     \* POST handler goroutines
    MaxRequests,  \* capacity of the store (maxRequests)
    MaxFaults     \* bound on crashes, forced shutdowns and lost commits

ASSUME BrokerAssumption ==
    /\ Plain \subseteq Requests
    /\ MaxRequests \in Nat
    /\ MaxFaults \in Nat
    /\ {"none", "stale", "absent"} \cap (Daemons \cup Requests) = {}

VARIABLES
    status,       \* Requests -> status in the store ("none": not stored)
    lapsed,       \* the stored requests whose ExpiresAt is no longer after now
    applied,      \* the requests whose action handler has succeeded
    asserted,     \* the requests for which an assertion has been verified
    daemon,       \* Daemons -> stage of the process
    socket,       \* what the socket path names: a daemon, "stale" or "absent"
    opening,      \* Daemons -> requests created, page not yet opened
    page,         \* Daemons -> Requests -> none | live | spent
    attribution,  \* Daemons -> requests with an attribution waiting
    hpc, hd, hr,  \* Handlers -> control point, daemon, request
    attributed,   \* the handlers whose action carries an attribution
    faults

store == <<status, lapsed, applied, asserted>>
process == <<daemon, socket, opening, page, attribution>>
handlers == <<hpc, hd, hr, attributed>>
vars == <<store, process, handlers, faults>>

Terminal == {"approved", "denied", "expired", "completed"}
Status == {"none", "pending", "executing"} \cup Terminal
Stages == {"down", "refused", "absent", "listening", "serving", "quiet",
           "idle", "closing", "closed"}
HandlerPCs == {"off", "checked", "verified", "ready", "taking", "running",
               "ran", "failed"}

TypeOK ==
    /\ status \in [Requests -> Status]
    /\ lapsed \subseteq Requests
    /\ applied \subseteq Requests
    /\ asserted \subseteq Requests
    /\ daemon \in [Daemons -> Stages]
    /\ socket \in Daemons \cup {"stale", "absent"}
    /\ opening \in [Daemons -> SUBSET Requests]
    /\ page \in [Daemons -> [Requests -> {"none", "live", "spent"}]]
    /\ attribution \in [Daemons -> SUBSET Requests]
    /\ hpc \in [Handlers -> HandlerPCs]
    /\ hd \in [Handlers -> Daemons \cup {"none"}]
    /\ hr \in [Handlers -> Requests \cup {"none"}]
    /\ attributed \subseteq Handlers
    /\ faults \in 0..MaxFaults

Init ==
    /\ status = [r \in Requests |-> "none"]
    /\ lapsed = {} /\ applied = {} /\ asserted = {}
    /\ daemon = [d \in Daemons |-> "down"]
    /\ socket = "absent"
    /\ opening = [d \in Daemons |-> {}]
    /\ page = [d \in Daemons |-> [r \in Requests |-> "none"]]
    /\ attribution = [d \in Daemons |-> {}]
    /\ hpc = [h \in Handlers |-> "off"]
    /\ hd = [h \in Handlers |-> "none"]
    /\ hr = [h \in Handlers |-> "none"]
    /\ attributed = {}
    /\ faults = 0

Fault == faults < MaxFaults /\ faults' = faults + 1

----------------------------------------------------------------------------
(* broker.go: the store                                                    *)

\* Mutant: the pruned records are not written back.
PruneLost == status

\* prune: a pending request past its expiry becomes expired.
Prune ==
    [r \in Requests |-> IF status[r] = "pending" /\ r \in lapsed
                        THEN "expired" ELSE status[r]]

\* Mutant: the outcome is recorded whatever the status is.
TransitionAny(r, outcome) == [status EXCEPT ![r] = outcome]

\* transition: only a pending or executing request takes the new status.
Transition(r, outcome) ==
    IF status[r] \in {"pending", "executing"}
    THEN [status EXCEPT ![r] = outcome]
    ELSE status

\* recoverInterruptedActions, on the pruned store.
Recovered ==
    [r \in Requests |-> IF Prune[r] = "executing" THEN "pending" ELSE Prune[r]]

Stored == {r \in Requests : status[r] # "none"}

\* Time passes the expiry of a stored request.
Lapse(r) ==
    /\ r \in Stored \ lapsed
    /\ lapsed' = lapsed \cup {r}
    /\ UNCHANGED <<status, applied, asserted, process, handlers, faults>>

----------------------------------------------------------------------------
(* daemon_unix.go, daemon.go: one daemon process from start to exit        *)

\* listenPrivate's first look at the socket path: a live owner ends the start.
Probe(d) ==
    /\ daemon[d] = "down"
    /\ socket \in {"stale", "absent"}
    /\ daemon' = [daemon EXCEPT ![d] = IF socket = "stale" THEN "refused" ELSE "absent"]
    /\ UNCHANGED <<store, socket, opening, page, attribution, handlers, faults>>

\* A refused connection: os.Remove takes away whatever the path names now.
RemoveSocket(d) ==
    /\ daemon[d] = "refused"
    /\ daemon' = [daemon EXCEPT ![d] = IF socket = "absent" THEN "down" ELSE "absent"]
    /\ socket' = "absent"
    /\ UNCHANGED <<store, opening, page, attribution, handlers, faults>>

\* net.Listen fails when the path exists.
Listen(d) ==
    /\ daemon[d] = "absent"
    /\ \/ /\ socket = "absent"
          /\ socket' = d
          /\ daemon' = [daemon EXCEPT ![d] = "listening"]
       \/ /\ socket # "absent"
          /\ daemon' = [daemon EXCEPT ![d] = "down"]
          /\ UNCHANGED socket
    /\ UNCHANGED <<store, opening, page, attribution, handlers, faults>>

\* StartDaemon recovers interrupted actions before it serves.
Recover(d) ==
    /\ daemon[d] = "listening"
    /\ status' = Recovered
    /\ daemon' = [daemon EXCEPT ![d] = "serving"]
    /\ UNCHANGED <<lapsed, applied, asserted, socket, opening, page,
                   attribution, handlers, faults>>

\* The recovery transaction fails: closing the listener unlinks the path.
RecoverFails(d) ==
    /\ daemon[d] = "listening"
    /\ Fault
    /\ socket' = "absent"
    /\ daemon' = [daemon EXCEPT ![d] = "down"]
    /\ UNCHANGED <<store, opening, page, attribution, handlers>>

\* Ten minutes without a call: daemonIdleTimeout has passed since activity.
Quieten(d) ==
    /\ daemon[d] = "serving"
    /\ daemon' = [daemon EXCEPT ![d] = "quiet"]
    /\ UNCHANGED <<store, socket, opening, page, attribution, handlers, faults>>

\* touch: a call begins the idle time anew.
Touched(d) == [daemon EXCEPT ![d] = IF @ = "quiet" THEN "serving" ELSE @]

\* Mutant: any stored request counts as work.
IdleCheckStored(d) ==
    /\ daemon[d] = "quiet"
    /\ status' = Prune
    /\ daemon' = [daemon EXCEPT ![d] = IF Stored = {} THEN "idle" ELSE "quiet"]
    /\ UNCHANGED <<lapsed, applied, asserted, socket, opening, page,
                   attribution, handlers, faults>>

\* stopWhenIdle: after the idle time, hasPending prunes the store and looks for
\* work in one transaction; without any the daemon closes.
IdleCheck(d) ==
    /\ daemon[d] = "quiet"
    /\ status' = Prune
    /\ daemon' = [daemon EXCEPT ![d] =
                      IF \E r \in Requests : Prune[r] \in {"pending", "executing"}
                      THEN "quiet" ELSE "idle"]
    /\ UNCHANGED <<lapsed, applied, asserted, socket, opening, page,
                   attribution, handlers, faults>>

\* hasPending drops the error of a transaction that failed and reports no work.
IdleCheckFails(d) ==
    /\ daemon[d] = "quiet"
    /\ Fault
    /\ daemon' = [daemon EXCEPT ![d] = "idle"]
    /\ UNCHANGED <<store, socket, opening, page, attribution, handlers>>

\* Close: the closed channel releases the main goroutine first.
IdleClose(d) ==
    /\ daemon[d] = "idle"
    /\ daemon' = [daemon EXCEPT ![d] = "closing"]
    /\ UNCHANGED <<store, socket, opening, page, attribution, handlers, faults>>

\* The "shutdown" operation closes whatever is pending or executing.
Shutdown(d) ==
    /\ daemon[d] \in {"serving", "quiet", "idle"} /\ socket = d
    /\ Fault
    /\ daemon' = [daemon EXCEPT ![d] = "closing"]
    /\ UNCHANGED <<store, socket, opening, page, attribution, handlers>>

\* listener.Close unlinks the path by name, whoever listens there by now.
Unlink(d) ==
    /\ daemon[d] = "closing"
    /\ socket' = "absent"
    /\ daemon' = [daemon EXCEPT ![d] = "closed"]
    /\ UNCHANGED <<store, opening, page, attribution, handlers, faults>>

\* The process ends: its handlers, pages and attributions are gone, and a
\* socket it still listened on stays behind without a listener.
Dies(d) ==
    /\ daemon' = [daemon EXCEPT ![d] = "down"]
    /\ socket' = IF socket = d THEN "stale" ELSE socket
    /\ opening' = [opening EXCEPT ![d] = {}]
    /\ page' = [page EXCEPT ![d] = [r \in Requests |-> "none"]]
    /\ attribution' = [attribution EXCEPT ![d] = {}]
    /\ hpc' = [h \in Handlers |-> IF hd[h] = d THEN "off" ELSE hpc[h]]
    /\ hr' = [h \in Handlers |-> IF hd[h] = d THEN "none" ELSE hr[h]]
    /\ attributed' = {h \in attributed : hd[h] # d}
    /\ hd' = [h \in Handlers |-> IF hd[h] = d THEN "none" ELSE hd[h]]
    /\ UNCHANGED store

\* RunDefaultDaemon returns as soon as the channel is closed.
Exit(d) ==
    /\ daemon[d] \in {"closing", "closed"}
    /\ Dies(d)
    /\ UNCHANGED faults

Crash(d) ==
    /\ daemon[d] # "down"
    /\ Fault
    /\ Dies(d)

----------------------------------------------------------------------------
(* daemon.go: the operations clients send over the socket                  *)

\* The process has memory, pages and goroutines.
Alive(d) == daemon[d] \in {"serving", "quiet", "idle", "closing", "closed"}

\* Connections arrive through the socket; one accepted before Close is served.
Accepts(d) == Alive(d) /\ (socket = d \/ daemon[d] \in {"closing", "closed"})

\* "submit", first half: Create.  Settled requests stay in the store and count.
Submit(d, r) ==
    /\ Accepts(d)
    /\ status[r] = "none"
    /\ Cardinality(Stored) < MaxRequests
    /\ status' = [Prune EXCEPT ![r] = "pending"]
    /\ opening' = [opening EXCEPT ![d] = @ \cup {r}]
    /\ daemon' = Touched(d)
    /\ UNCHANGED <<lapsed, applied, asserted, socket, page,
                   attribution, handlers, faults>>

\* Second half: StartBrowser begins a ceremony (refused past the expiry) and
\* the page is shown.
SubmitOpened(d, r) ==
    /\ r \in opening[d] \ lapsed
    /\ status' = Prune
    /\ opening' = [opening EXCEPT ![d] = @ \ {r}]
    /\ page' = [page EXCEPT ![d][r] = "live"]
    /\ daemon' = Touched(d)
    /\ UNCHANGED <<lapsed, applied, asserted, socket, attribution,
                   handlers, faults>>

\* The page cannot be started or shown: Deny, whatever became of the request.
SubmitDenied(d, r) ==
    /\ r \in opening[d]
    /\ status' = Transition(r, "denied")
    /\ opening' = [opening EXCEPT ![d] = @ \ {r}]
    /\ daemon' = Touched(d)
    /\ UNCHANGED <<lapsed, applied, asserted, socket, page,
                   attribution, handlers, faults>>

\* "present": a pending request gets a new page; the old one is closed.
Present(d, r) ==
    /\ Accepts(d)
    /\ Prune[r] = "pending"
    /\ status' = Prune
    /\ page' = [page EXCEPT ![d][r] = "live"]
    /\ daemon' = Touched(d)
    /\ UNCHANGED <<lapsed, applied, asserted, socket, opening,
                   attribution, handlers, faults>>

\* "status" and "list" prune and persist the store they report.  A refused call
\* is like one that finds nothing to prune.
Poll(d) ==
    /\ Accepts(d)
    /\ status' = Prune
    /\ daemon' = Touched(d)
    /\ UNCHANGED <<lapsed, applied, asserted, socket, opening, page,
                   attribution, handlers, faults>>

----------------------------------------------------------------------------
(* browser.go: the approval page                                           *)

Free(h) ==
    /\ hpc' = [hpc EXCEPT ![h] = "off"]
    /\ hd' = [hd EXCEPT ![h] = "none"]
    /\ hr' = [hr EXCEPT ![h] = "none"]
    /\ attributed' = attributed \ {h}

HandlerAt(h, label) == hpc' = [hpc EXCEPT ![h] = label]

\* GET, or a POST, for a request that is not pending any more closes the page.
PageGone(d, r) ==
    /\ Alive(d) /\ page[d][r] # "none"
    /\ Prune[r] # "pending"
    /\ status' = Prune
    /\ page' = [page EXCEPT ![d][r] = "none"]
    /\ UNCHANGED <<lapsed, applied, asserted, daemon, socket, opening,
                   attribution, handlers, faults>>

\* An unreadable POST: a new ceremony replaces the page's current one, or the
\* page closes when none can be started.
Reissue(d, r) ==
    /\ Alive(d) /\ page[d][r] # "none"
    /\ Prune[r] = "pending"
    /\ status' = Prune
    /\ \E ceremony \in {"live", "none"} : page' = [page EXCEPT ![d][r] = ceremony]
    /\ UNCHANGED <<lapsed, applied, asserted, daemon, socket, opening,
                   attribution, handlers, faults>>

\* A well-formed POST: the handler reads that the request is pending.
Post(h, d, r) ==
    /\ hpc[h] = "off"
    /\ Alive(d) /\ page[d][r] # "none"
    /\ Prune[r] = "pending"
    /\ status' = Prune
    /\ HandlerAt(h, "checked")
    /\ hd' = [hd EXCEPT ![h] = d]
    /\ hr' = [hr EXCEPT ![h] = r]
    /\ UNCHANGED <<lapsed, applied, asserted, process, attributed, faults>>

\* Mutant: the error of finish is not looked at.
VerifyUnchecked(h) ==
    /\ hpc[h] = "checked"
    /\ \/ asserted' = asserted \cup {hr[h]}
       \/ UNCHANGED asserted
    /\ HandlerAt(h, "verified")
    /\ page' = [page EXCEPT ![hd[h]][hr[h]] = "spent"]
    /\ UNCHANGED <<status, lapsed, applied, daemon, socket, opening,
                   attribution, hd, hr, attributed, faults>>

\* finish consumes the page's ceremony, and verifies the assertion or not.
Verify(h) ==
    /\ hpc[h] = "checked"
    /\ \/ /\ page[hd[h]][hr[h]] = "live" /\ hr[h] \notin lapsed
          /\ asserted' = asserted \cup {hr[h]}
          /\ HandlerAt(h, "verified")
          /\ UNCHANGED <<hd, hr, attributed>>
       \/ Free(h) /\ UNCHANGED asserted
    /\ page' = IF page[hd[h]][hr[h]] = "live"
               THEN [page EXCEPT ![hd[h]][hr[h]] = "spent"] ELSE page
    /\ UNCHANGED <<status, lapsed, applied, daemon, socket, opening,
                   attribution, faults>>

\* SetCompletionAttribution, in the memory of the daemon.
Attribute(h) ==
    /\ hpc[h] = "verified"
    /\ attribution' = [attribution EXCEPT ![hd[h]] = @ \cup {hr[h]}]
    /\ HandlerAt(h, "ready")
    /\ UNCHANGED <<store, daemon, socket, opening, page, hd, hr, attributed, faults>>

----------------------------------------------------------------------------
(* broker.go: Approve                                                      *)

\* Mutant: an executing request may be approved as well.
ApproveExecuting(h) ==
    /\ hpc[h] = "ready"
    /\ status[hr[h]] \in {"pending", "executing"} /\ hr[h] \notin lapsed
    /\ status' = [status EXCEPT ![hr[h]] = "executing"]
    /\ HandlerAt(h, "taking")
    /\ UNCHANGED <<lapsed, applied, asserted, process, hd, hr, attributed, faults>>

\* The transaction of Approve: a live pending request becomes executing.
Approve(h) ==
    /\ hpc[h] = "ready"
    /\ status[hr[h]] = "pending" /\ hr[h] \notin lapsed
    /\ status' = [status EXCEPT ![hr[h]] = "executing"]
    /\ HandlerAt(h, "taking")
    /\ UNCHANGED <<lapsed, applied, asserted, process, hd, hr, attributed, faults>>

\* Mutant: a refused handler cleans up the attribution of the request.
ApproveRefusedClears(h) ==
    /\ hpc[h] = "ready"
    /\ attribution' = [attribution EXCEPT ![hd[h]] = @ \ {hr[h]}]
    /\ Free(h)
    /\ UNCHANGED <<store, daemon, socket, opening, page, faults>>

\* A consumed or expired request, or a failed transaction: nothing is stored.
ApproveRefused(h) ==
    /\ hpc[h] = "ready"
    /\ Free(h)
    /\ UNCHANGED <<store, process, faults>>

\* The transaction commits but reports an error (ErrTransactionCommitted).
ApproveLost(h) ==
    /\ hpc[h] = "ready"
    /\ status[hr[h]] = "pending" /\ hr[h] \notin lapsed
    /\ Fault
    /\ status' = [status EXCEPT ![hr[h]] = "executing"]
    /\ Free(h)
    /\ UNCHANGED <<lapsed, applied, asserted, process>>

\* The attribution moves from the daemon's memory to the running action.
TakeAttribution(h) ==
    /\ hpc[h] = "taking"
    /\ attributed' = IF hr[h] \in attribution[hd[h]]
                     THEN attributed \cup {h} ELSE attributed
    /\ attribution' = [attribution EXCEPT ![hd[h]] = @ \ {hr[h]}]
    /\ HandlerAt(h, "running")
    /\ UNCHANGED <<store, daemon, socket, opening, page, hd, hr, faults>>

\* The registered handler of the request's action; a plain request has none.
RunAction(h) ==
    /\ hpc[h] = "running"
    /\ \/ /\ applied' = IF hr[h] \in Plain THEN applied ELSE applied \cup {hr[h]}
          /\ HandlerAt(h, "ran")
       \/ /\ hr[h] \notin Plain
          /\ HandlerAt(h, "failed")
          /\ UNCHANGED applied
    /\ UNCHANGED <<status, lapsed, asserted, process, hd, hr, attributed, faults>>

\* Mutant: the handler's own word for its result is stored.
OutcomeWord(h) == hpc[h]

\* The status an execution ends with.
Outcome(h) ==
    IF hpc[h] = "failed" THEN "denied"
    ELSE IF hr[h] \in Plain THEN "approved" ELSE "completed"

\* complete; the page closes only when Approve as a whole succeeded.
Complete(h) ==
    /\ hpc[h] \in {"ran", "failed"}
    /\ status' = Transition(hr[h], Outcome(h))
    /\ page' = IF hpc[h] = "ran" /\ status[hr[h]] \in {"pending", "executing"}
               THEN [page EXCEPT ![hd[h]][hr[h]] = "none"] ELSE page
    /\ Free(h)
    /\ UNCHANGED <<lapsed, applied, asserted, daemon, socket, opening,
                   attribution, faults>>

\* The completing transaction fails: the request stays executing.
CompleteFails(h) ==
    /\ hpc[h] \in {"ran", "failed"}
    /\ Fault
    /\ Free(h)
    /\ UNCHANGED <<store, process>>

----------------------------------------------------------------------------
Lifecycle(d) ==
    \/ Probe(d) \/ RemoveSocket(d) \/ Listen(d) \/ Recover(d) \/ RecoverFails(d)
    \/ Quieten(d) \/ IdleCheck(d) \/ IdleCheckFails(d) \/ IdleClose(d)
    \/ Shutdown(d) \/ Unlink(d) \/ Exit(d) \/ Crash(d) \/ Poll(d)

Client(d, r) ==
    \/ Submit(d, r) \/ SubmitOpened(d, r) \/ SubmitDenied(d, r)
    \/ Present(d, r) \/ PageGone(d, r) \/ Reissue(d, r)
    \/ \E h \in Handlers : Post(h, d, r)

Work(h) ==
    \/ Verify(h) \/ Attribute(h) \/ Approve(h) \/ ApproveRefused(h)
    \/ TakeAttribution(h) \/ RunAction(h) \/ Complete(h)

Disturbance(h) == ApproveLost(h) \/ CompleteFails(h)

Next ==
    \/ \E r \in Requests : Lapse(r)
    \/ \E d \in Daemons : Lifecycle(d)
    \/ \E d \in Daemons, r \in Requests : Client(d, r)
    \/ \E h \in Handlers : Work(h) \/ Disturbance(h)

Spec == Init /\ [][Next]_vars

\* Clocks advance, goroutines run and the idle ticker fires.  A pending request
\* past its expiry is noticed: a poll comes, or ten minutes pass without a call.
\* Nothing obliges anyone to submit, present, approve or start a daemon, or to
\* leave a daemon alone.
FairSpec ==
    /\ Spec
    /\ \A r \in Requests : WF_vars(Lapse(r))
    /\ \A h \in Handlers : WF_vars(Work(h))
    /\ \A d \in Daemons :
        /\ WF_vars(Recover(d)) /\ WF_vars(Prune # status /\ (Poll(d) \/ Quieten(d)))
        /\ WF_vars(IdleCheck(d)) /\ WF_vars(IdleClose(d)) /\ WF_vars(Exit(d))
        /\ \A r \in Requests : WF_vars(SubmitOpened(d, r) \/ SubmitDenied(d, r))

----------------------------------------------------------------------------
(* Properties                                                              *)

\* The control points between Approve's transaction and its completion.
Executing(h) == hpc[h] \in {"taking", "running", "ran", "failed"}

\* One approved action is never executed by two handlers at the same time,
\* whatever pages and handlers work on the request.
OneExecution ==
    \A h, k \in Handlers :
        Executing(h) /\ Executing(k) /\ hr[h] = hr[k] => h = k

\* An executing action carries the attribution of an assertion verified for
\* its request: the handlers that share the daemon's attribution map by
\* request identity do not rob each other of it.
RunsAreAttributed ==
    \A h \in Handlers : hpc[h] \in {"running", "ran", "failed"} => h \in attributed

\* A settled request keeps its status, against late completions, denials,
\* recoveries and prunes of every daemon and handler.
SettledStays ==
    [][\A r \in Requests : status[r] \in Terminal => status'[r] = status[r]]_vars

\* recoverInterruptedActions is for actions interrupted when "a daemon process
\* dies": a request that a handler is still executing is not made retryable.
RunningNotRetryable ==
    \A h \in Handlers : Executing(h) => status[hr[h]] # "pending"

\* "the approval was denied, so the plane change was not applied": a denied or
\* expired request's action has not been applied.
RefusedNotApplied ==
    \A r \in Requests : status[r] \in {"denied", "expired"} => r \notin applied

\* Daemons, pages and handlers together keep the contract: legal status changes
\* only, nothing executed, applied or approved without a verified assertion,
\* nothing completed that was not applied.
Contract == INSTANCE ApprovalContract
KeepsContract == Contract!Spec

\* A request does not stay unsettled while a daemon serves: it is settled, or
\* every daemon is gone, or a step failed or a daemon died on the way.
SettlesWhileServed ==
    \A r \in Requests :
        status[r] \in {"pending", "executing"}
            ~> (status[r] \in Terminal \/ faults > 0 \/ \A d \in Daemons : ~Alive(d))

\* A daemon that no client has called for ten minutes goes away, however its
\* requests ended, unless it is called again or something fails.
DaemonsStop ==
    \A d \in Daemons :
        daemon[d] = "quiet" ~> (daemon[d] \in {"serving", "down"} \/ faults > 0)
----------------------------------------------------------------------------
(* Inductive invariants                                                    *)

\* What the control points of a handler, and open pages, know of the request.
\* It holds for any number of daemons, and KeepsContract rests on it.
HandlerKnowledge ==
    /\ \A h \in Handlers :
        /\ hpc[h] # "off" => /\ hd[h] \in Daemons
                            /\ hr[h] \in Requests
                            /\ status[hr[h]] # "none"
        /\ hpc[h] \notin {"off", "checked"} => hr[h] \in asserted
        /\ hpc[h] = "ran" /\ hr[h] \notin Plain => hr[h] \in applied
    /\ \A d \in Daemons, r \in Requests :
        page[d][r] # "none" \/ r \in opening[d] => status[r] # "none"

\* With one daemon slot: handlers live in a live process, an executing request
\* is not pending, and a verified handler's attribution is there for as long as
\* its request is pending.
SingleDaemonInv ==
    /\ \A h \in Handlers :
        /\ hpc[h] # "off" => Alive(hd[h])
        /\ hpc[h] = "ready" /\ status[hr[h]] = "pending" => hr[h] \in attribution[hd[h]]
        /\ hpc[h] = "taking" => hr[h] \in attribution[hd[h]]
    /\ RunningNotRetryable
    /\ OneExecution
    /\ RunsAreAttributed

SingleDaemon == \A d, e \in Daemons : d = e
=============================================================================
