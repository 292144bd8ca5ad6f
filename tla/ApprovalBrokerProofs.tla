------------------------ MODULE ApprovalBrokerProofs ------------------------
(* Proofs about the approval broker for any sets of requests, daemons and  *)
(* handlers, any capacity and any number of faults.                        *)
EXTENDS ApprovalBroker, TLAPS

----------------------------------------------------------------------------
(* Types                                                                   *)

\* prune, transition and the recovery of a daemon start yield a well-typed store.
LEMMA StoreFunctions ==
    ASSUME TypeOK
    PROVE  /\ Prune \in [Requests -> Status]
           /\ Recovered \in [Requests -> Status]
           /\ \A r \in Requests, s \in Status : Transition(r, s) \in [Requests -> Status]
BY DEF TypeOK, Prune, Recovered, Transition, Status, Terminal

\* A call changes nothing about a daemon but its idle time.
LEMMA TouchedStages ==
    ASSUME TypeOK, NEW d \in Daemons
    PROVE  /\ Touched(d) \in [Daemons -> Stages]
           /\ daemon' = Touched(d) => \A e \in Daemons : Alive(e) => Alive(e)'
BY DEF TypeOK, Touched, Stages, Alive

LEMMA TypeInit == Init => TypeOK
BY SMTT(60), BrokerAssumption
   DEF Init, TypeOK, Status, Terminal, Stages, HandlerPCs

\* Every step of a daemon's life keeps the types.
LEMMA LifecycleType ==
    ASSUME TypeOK, NEW d \in Daemons, Lifecycle(d) PROVE TypeOK'
<1> USE StoreFunctions, TouchedStages, BrokerAssumption
    DEF TypeOK, Stages, store, process, handlers, Fault
<1>1. CASE Probe(d) BY <1>1 DEF Probe
<1>2. CASE RemoveSocket(d) BY <1>2 DEF RemoveSocket
<1>3. CASE Listen(d) BY ZenonT(60), <1>3 DEF Listen
<1>4. CASE Recover(d) BY <1>4 DEF Recover
<1>5. CASE RecoverFails(d) BY <1>5 DEF RecoverFails
<1>6. CASE IdleCheck(d) BY <1>6 DEF IdleCheck
<1>7. CASE IdleClose(d) BY <1>7 DEF IdleClose
<1>8. CASE Shutdown(d) BY <1>8 DEF Shutdown
<1>9. CASE Unlink(d) BY <1>9 DEF Unlink
<1>10. CASE Exit(d) BY <1>10 DEF Exit, Dies, HandlerPCs
<1>11. CASE Crash(d) BY <1>11 DEF Crash, Dies, HandlerPCs
<1>12. CASE Poll(d) BY <1>12 DEF Poll
<1>13. CASE Quieten(d) BY <1>13 DEF Quieten
<1>14. CASE IdleCheckFails(d) BY <1>14 DEF IdleCheckFails
<1> QED
    BY ZenonT(60), <1>1, <1>2, <1>3, <1>4, <1>5, <1>6, <1>7, <1>8, <1>9, <1>10, <1>11,
       <1>12, <1>13, <1>14 DEF Lifecycle

\* Every operation of a client or of a page keeps the types.
LEMMA ClientType ==
    ASSUME TypeOK, NEW d \in Daemons, NEW r \in Requests, Client(d, r) PROVE TypeOK'
<1> USE StoreFunctions, TouchedStages DEF TypeOK, store, process, handlers
<1>1. CASE Submit(d, r) BY <1>1 DEF Submit, Status
<1>2. CASE SubmitOpened(d, r) BY ZenonT(60), <1>2 DEF SubmitOpened
<1>3. CASE SubmitDenied(d, r) BY <1>3 DEF SubmitDenied, Status, Terminal
<1>4. CASE Present(d, r) BY <1>4 DEF Present
<1>5. CASE PageGone(d, r) BY <1>5 DEF PageGone
<1>6. CASE Reissue(d, r) BY <1>6 DEF Reissue
<1>7. ASSUME NEW h \in Handlers, Post(h, d, r) PROVE TypeOK'
    BY ZenonT(60), <1>7 DEF Post, HandlerAt, HandlerPCs
<1> QED
    BY ZenonT(60), <1>1, <1>2, <1>3, <1>4, <1>5, <1>6, <1>7 DEF Client

\* Every step of a POST handler keeps the types.  HandlerKnowledge says that a
\* handler at work has a daemon and a request.
LEMMA WorkType ==
    ASSUME TypeOK, HandlerKnowledge, NEW h \in Handlers, Work(h) \/ Disturbance(h)
    PROVE  TypeOK'
<1>1. hpc[h] # "off" => hd[h] \in Daemons /\ hr[h] \in Requests
    BY DEF HandlerKnowledge
<1> USE <1>1, StoreFunctions, BrokerAssumption
    DEF TypeOK, store, process, handlers, Free, HandlerAt, HandlerPCs, Fault
<1>2. CASE Verify(h) BY ZenonT(60), <1>2 DEF Verify
<1>3. CASE Attribute(h) BY <1>3 DEF Attribute
<1>4. CASE Approve(h) BY <1>4 DEF Approve, Status
<1>5. CASE ApproveRefused(h) BY <1>5 DEF ApproveRefused
<1>6. CASE TakeAttribution(h) BY <1>6 DEF TakeAttribution
<1>7. CASE RunAction(h) BY ZenonT(60), <1>7 DEF RunAction
<1>8. CASE Complete(h)
    <2>1. Outcome(h) \in Status
        BY DEF Outcome, Status, Terminal
    <2> QED BY <1>8, <2>1 DEF Complete
<1>9. CASE ApproveLost(h) BY <1>9 DEF ApproveLost, Status
<1>10. CASE CompleteFails(h) BY <1>10 DEF CompleteFails
<1> QED
    BY ZenonT(60), <1>2, <1>3, <1>4, <1>5, <1>6, <1>7, <1>8, <1>9, <1>10 DEF Work, Disturbance

----------------------------------------------------------------------------
(* What handlers and pages know, for any number of daemons                 *)

\* No transaction takes a stored request out of the store.
LEMMA StoredStays ==
    ASSUME TypeOK, NEW q \in Requests, status[q] # "none"
    PROVE  /\ Prune[q] # "none"
           /\ Recovered[q] # "none"
           /\ \A r \in Requests, s \in Terminal : Transition(r, s)[q] # "none"
BY DEF TypeOK, Prune, Recovered, Transition, Terminal

LEMMA KnowledgeInit == Init => HandlerKnowledge
BY SMTT(60), BrokerAssumption DEF Init, HandlerKnowledge

LEMMA LifecycleKnowledge ==
    ASSUME TypeOK, HandlerKnowledge, NEW d \in Daemons, Lifecycle(d)
    PROVE  HandlerKnowledge'
<1> USE StoredStays DEF TypeOK, HandlerKnowledge, store, process, handlers
<1>1. CASE Probe(d) BY <1>1 DEF Probe
<1>2. CASE RemoveSocket(d) BY <1>2 DEF RemoveSocket
<1>3. CASE Listen(d) BY <1>3 DEF Listen
<1>4. CASE Recover(d) BY <1>4 DEF Recover
<1>5. CASE RecoverFails(d) BY <1>5 DEF RecoverFails
<1>6. CASE IdleCheck(d) BY <1>6 DEF IdleCheck
<1>7. CASE IdleClose(d) BY <1>7 DEF IdleClose
<1>8. CASE Shutdown(d) BY <1>8 DEF Shutdown
<1>9. CASE Unlink(d) BY <1>9 DEF Unlink
<1>10. CASE Exit(d) BY <1>10 DEF Exit, Dies
<1>11. CASE Crash(d) BY <1>11 DEF Crash, Dies
<1>12. CASE Poll(d) BY <1>12 DEF Poll
<1>13. CASE Quieten(d) BY <1>13 DEF Quieten
<1>14. CASE IdleCheckFails(d) BY <1>14 DEF IdleCheckFails
<1> QED
    BY ZenonT(60), <1>1, <1>2, <1>3, <1>4, <1>5, <1>6, <1>7, <1>8, <1>9, <1>10, <1>11,
       <1>12, <1>13, <1>14 DEF Lifecycle

LEMMA ClientKnowledge ==
    ASSUME TypeOK, HandlerKnowledge, NEW d \in Daemons, NEW r \in Requests,
           Client(d, r)
    PROVE  HandlerKnowledge'
<1> USE StoredStays, StoreFunctions DEF TypeOK, HandlerKnowledge, store, process, handlers
<1>1. CASE Submit(d, r)
    <2>1. \A q \in Requests : status[q] # "none" \/ q = r => status'[q] # "none"
        BY ZenonT(60), <1>1 DEF Submit
    <2> QED BY ZenonT(60), <1>1, <2>1 DEF Submit
<1>2. CASE SubmitOpened(d, r) BY ZenonT(60), <1>2 DEF SubmitOpened
<1>3. CASE SubmitDenied(d, r)
    <2>1. \A q \in Requests : status[q] # "none" => status'[q] # "none"
        BY ZenonT(60), <1>3 DEF SubmitDenied, Terminal
    <2> QED BY <1>3, <2>1 DEF SubmitDenied
<1>4. CASE Present(d, r) BY ZenonT(60), <1>4 DEF Present, Prune
<1>5. CASE PageGone(d, r) BY ZenonT(60), <1>5 DEF PageGone
<1>6. CASE Reissue(d, r)
    <2>1. PICK c \in {"live", "none"} : page' = [page EXCEPT ![d][r] = c]
        BY ZenonT(60), <1>6 DEF Reissue
    <2>2. \A e \in Daemons, q \in Requests : page'[e][q] # "none" => status[q] # "none"
        BY <1>6, <2>1 DEF Reissue
    <2> QED BY ZenonT(60), <1>6, <2>2 DEF Reissue
<1>7. ASSUME NEW h \in Handlers, Post(h, d, r) PROVE HandlerKnowledge'
    BY SMTT(60), <1>7 DEF Post, HandlerAt, Prune
<1> QED
    BY ZenonT(60), <1>1, <1>2, <1>3, <1>4, <1>5, <1>6, <1>7 DEF Client

LEMMA WorkKnowledge ==
    ASSUME TypeOK, HandlerKnowledge, NEW h \in Handlers, Work(h) \/ Disturbance(h)
    PROVE  HandlerKnowledge'
<1> USE StoredStays DEF TypeOK, HandlerKnowledge, store, process, handlers,
                        Free, HandlerAt
<1>2. CASE Verify(h) BY <1>2 DEF Verify
<1>3. CASE Attribute(h) BY <1>3 DEF Attribute
<1>4. CASE Approve(h) BY <1>4 DEF Approve
<1>5. CASE ApproveRefused(h) BY <1>5 DEF ApproveRefused
<1>6. CASE TakeAttribution(h) BY <1>6 DEF TakeAttribution
<1>7. CASE RunAction(h) BY <1>7 DEF RunAction
<1>8. CASE Complete(h)
    <2>1. Outcome(h) \in Terminal
        BY DEF Outcome, Terminal
    <2> QED BY <1>8, <2>1 DEF Complete
<1>9. CASE ApproveLost(h) BY <1>9 DEF ApproveLost
<1>10. CASE CompleteFails(h) BY <1>10 DEF CompleteFails
<1> QED
    BY ZenonT(60), <1>2, <1>3, <1>4, <1>5, <1>6, <1>7, <1>8, <1>9, <1>10 DEF Work, Disturbance

LEMMA KnowledgeStep ==
    TypeOK /\ HandlerKnowledge /\ [Next]_vars => TypeOK' /\ HandlerKnowledge'
<1> SUFFICES ASSUME TypeOK, HandlerKnowledge, [Next]_vars
             PROVE  TypeOK' /\ HandlerKnowledge'
    OBVIOUS
<1>1. ASSUME NEW r \in Requests, Lapse(r) PROVE TypeOK' /\ HandlerKnowledge'
    BY <1>1 DEF Lapse, Stored, TypeOK, HandlerKnowledge, process, handlers
<1>2. ASSUME NEW d \in Daemons, Lifecycle(d) PROVE TypeOK' /\ HandlerKnowledge'
    BY <1>2, LifecycleType, LifecycleKnowledge
<1>3. ASSUME NEW d \in Daemons, NEW r \in Requests, Client(d, r)
      PROVE  TypeOK' /\ HandlerKnowledge'
    BY <1>3, ClientType, ClientKnowledge
<1>4. ASSUME NEW h \in Handlers, Work(h) \/ Disturbance(h)
      PROVE  TypeOK' /\ HandlerKnowledge'
    BY <1>4, WorkType, WorkKnowledge
<1>5. CASE UNCHANGED vars
    BY <1>5 DEF vars, store, process, handlers, TypeOK, HandlerKnowledge
<1> QED
    BY <1>1, <1>2, <1>3, <1>4, <1>5 DEF Next

\* The broker is well-typed, and handlers and pages know what they should.
THEOREM KnowledgeAlways == Spec => [](TypeOK /\ HandlerKnowledge)
BY TypeInit, KnowledgeInit, KnowledgeStep, PTL DEF Spec

----------------------------------------------------------------------------
(* Settled requests, for any number of daemons                             *)

\* prune, transition and recovery leave a settled request alone.
LEMMA SettledKept ==
    ASSUME TypeOK, NEW q \in Requests, status[q] \in Terminal
    PROVE  /\ Prune[q] = status[q]
           /\ Recovered[q] = status[q]
           /\ \A r \in Requests, s \in Status : Transition(r, s)[q] = status[q]
BY DEF TypeOK, Prune, Recovered, Transition, Terminal

LEMMA SettledStep ==
    ASSUME TypeOK, HandlerKnowledge, [Next]_vars
    PROVE  \A q \in Requests : status[q] \in Terminal => status'[q] = status[q]
<1> SUFFICES ASSUME NEW q \in Requests, status[q] \in Terminal
             PROVE  status'[q] = status[q]
    OBVIOUS
<1> USE SettledKept, StoreFunctions
<1>1. ASSUME NEW r \in Requests, Lapse(r) PROVE status'[q] = status[q]
    BY <1>1 DEF Lapse
<1>2. ASSUME NEW d \in Daemons, Lifecycle(d) PROVE status'[q] = status[q]
    BY ZenonT(60), <1>2 DEF Lifecycle, Probe, RemoveSocket, Listen, Recover, RecoverFails,
        Quieten, IdleCheck, IdleCheckFails, IdleClose, Shutdown, Unlink, Exit, Crash,
        Dies, Poll, store
<1>3. ASSUME NEW d \in Daemons, NEW r \in Requests, Client(d, r)
      PROVE  status'[q] = status[q]
    <2>1. CASE Submit(d, r) BY ZenonT(60), <2>1 DEF Submit, Terminal
    <2>2. CASE SubmitDenied(d, r) BY <2>2 DEF SubmitDenied, Status, Terminal
    <2>3. CASE SubmitOpened(d, r) BY ZenonT(60), <2>3 DEF SubmitOpened
    <2>4. CASE Present(d, r) \/ PageGone(d, r) \/ Reissue(d, r)
        BY ZenonT(60), <2>4 DEF Present, PageGone, Reissue
    <2>5. CASE \E h \in Handlers : Post(h, d, r) BY ZenonT(60), <2>5 DEF Post
    <2> QED BY ZenonT(60), <1>3, <2>1, <2>2, <2>3, <2>4, <2>5 DEF Client
<1>4. ASSUME NEW h \in Handlers, Work(h) \/ Disturbance(h)
      PROVE  status'[q] = status[q]
    <2>1. CASE Approve(h) \/ ApproveLost(h)
        BY <2>1 DEF Approve, ApproveLost, TypeOK, Terminal
    <2>2. CASE Complete(h)
        <3>1. Outcome(h) \in Status /\ hr[h] \in Requests
            BY <2>2 DEF Outcome, Status, Terminal, Complete, HandlerKnowledge
        <3> QED BY ZenonT(60), <2>2, <3>1 DEF Complete
    <2>3. CASE Verify(h) \/ Attribute(h) \/ ApproveRefused(h)
               \/ TakeAttribution(h) \/ RunAction(h) \/ CompleteFails(h)
        BY <2>3 DEF Verify, Attribute, ApproveRefused, TakeAttribution,
            RunAction, CompleteFails, store
    <2> QED BY ZenonT(60), <1>4, <2>1, <2>2, <2>3 DEF Work, Disturbance
<1>5. CASE UNCHANGED vars
    BY <1>5 DEF vars, store
<1> QED
    BY ZenonT(60), <1>1, <1>2, <1>3, <1>4, <1>5 DEF Next

\* Approve, complete, Deny, prune and the recovery of any daemon never change
\* the status of a settled request.
THEOREM SettledAlwaysStays == Spec => SettledStays
<1>1. TypeOK /\ HandlerKnowledge /\ [Next]_vars
        => [\A r \in Requests : status[r] \in Terminal => status'[r] = status[r]]_vars
    BY SettledStep
<1> QED
    BY <1>1, KnowledgeAlways, PTL DEF Spec, SettledStays

----------------------------------------------------------------------------
(* One daemon slot                                                         *)

LEMMA SingleInit == Init => SingleDaemonInv
BY DEF Init, SingleDaemonInv, RunningNotRetryable, OneExecution,
       RunsAreAttributed, Executing

\* A daemon starting, serving, stopping or dying, alone, keeps SingleDaemonInv:
\* when it recovers interrupted actions no handler of an earlier life is left.
LEMMA LifecycleSingle ==
    ASSUME SingleDaemon, TypeOK, HandlerKnowledge, SingleDaemonInv,
           NEW d \in Daemons, Lifecycle(d)
    PROVE  SingleDaemonInv'
<1> USE DEF SingleDaemon, TypeOK, HandlerKnowledge, SingleDaemonInv, Executing,
        RunningNotRetryable, OneExecution, RunsAreAttributed, Alive,
        store, process, handlers
<1>0. \A q \in Requests : Prune[q] = "pending" => status[q] = "pending"
    BY DEF Prune
<1>1. CASE Probe(d) BY <1>1 DEF Probe
<1>2. CASE RemoveSocket(d) BY <1>2 DEF RemoveSocket
<1>3. CASE Listen(d) BY <1>3 DEF Listen
<1>4. CASE Recover(d)
    <2>1. \A h \in Handlers : hpc[h] = "off"
        BY <1>4 DEF Recover
    <2> QED BY <1>4, <2>1 DEF Recover
<1>5. CASE RecoverFails(d) BY <1>5 DEF RecoverFails
<1>6. CASE IdleCheck(d) BY <1>0, <1>6 DEF IdleCheck
<1>7. CASE IdleClose(d) BY <1>7 DEF IdleClose
<1>8. CASE Shutdown(d) BY <1>8 DEF Shutdown
<1>9. CASE Unlink(d) BY <1>9 DEF Unlink
<1>10. CASE Exit(d) \/ Crash(d)
    <2>1. \A h \in Handlers : hpc'[h] = "off"
        BY <1>10 DEF Exit, Crash, Dies
    <2> QED BY <2>1
<1>12. CASE Poll(d) BY SMTT(60), <1>0, <1>12, TouchedStages DEF Poll
<1>13. CASE Quieten(d) BY <1>13 DEF Quieten
<1>14. CASE IdleCheckFails(d) BY <1>14 DEF IdleCheckFails
<1> QED
    BY ZenonT(60), <1>1, <1>2, <1>3, <1>4, <1>5, <1>6, <1>7, <1>8, <1>9, <1>10, <1>12,
       <1>13, <1>14 DEF Lifecycle

LEMMA ClientSingle ==
    ASSUME SingleDaemon, TypeOK, HandlerKnowledge, SingleDaemonInv,
           NEW d \in Daemons, NEW r \in Requests, Client(d, r)
    PROVE  SingleDaemonInv'
<1> USE DEF SingleDaemon, TypeOK, HandlerKnowledge, SingleDaemonInv, Executing,
        RunningNotRetryable, OneExecution, RunsAreAttributed, Alive,
        store, process, handlers
<1>0. \A q \in Requests : Prune[q] = "pending" => status[q] = "pending"
    BY DEF Prune
<1>1. CASE Submit(d, r)
    <2>1. \A q \in Requests \ {r} : status'[q] = Prune[q]
        BY <1>1 DEF Submit, Prune
    <2>2. \A h \in Handlers : hpc[h] # "off" => hr[h] \in Requests \ {r}
        BY <1>1 DEF Submit
    <2> QED BY <1>0, <1>1, <2>1, <2>2, TouchedStages DEF Submit
<1>2. CASE SubmitOpened(d, r) BY <1>0, <1>2, TouchedStages DEF SubmitOpened
<1>3. CASE SubmitDenied(d, r)
    <2>1. \A q \in Requests : status'[q] = "pending" => status[q] = "pending"
        BY <1>3 DEF SubmitDenied, Transition
    <2> QED BY <1>3, <2>1, TouchedStages DEF SubmitDenied
<1>4. CASE Present(d, r) BY <1>0, <1>4, TouchedStages DEF Present
<1>5. CASE PageGone(d, r) BY <1>0, <1>5 DEF PageGone
<1>6. CASE Reissue(d, r) BY <1>0, <1>6 DEF Reissue
<1>7. ASSUME NEW h \in Handlers, Post(h, d, r) PROVE SingleDaemonInv'
    BY <1>0, <1>7 DEF Post, HandlerAt
<1> QED
    BY ZenonT(60), <1>1, <1>2, <1>3, <1>4, <1>5, <1>6, <1>7 DEF Client

LEMMA WorkSingle ==
    ASSUME SingleDaemon, TypeOK, HandlerKnowledge, SingleDaemonInv,
           NEW h \in Handlers, Work(h) \/ Disturbance(h)
    PROVE  SingleDaemonInv'
<1> USE DEF SingleDaemon, TypeOK, HandlerKnowledge, SingleDaemonInv, Executing,
        RunningNotRetryable, OneExecution, RunsAreAttributed, Alive,
        store, process, handlers, Free, HandlerAt
<1>2. CASE Verify(h) BY SMTT(60), <1>2 DEF Verify
<1>3. CASE Attribute(h) BY <1>3 DEF Attribute
<1>4. CASE Approve(h) BY <1>4 DEF Approve
<1>5. CASE ApproveRefused(h) BY <1>5 DEF ApproveRefused
<1>6. CASE TakeAttribution(h) BY <1>6 DEF TakeAttribution
<1>7. CASE RunAction(h) BY SMTT(60), <1>7 DEF RunAction
<1>8. CASE Complete(h)
    <2>1. \A q \in Requests : status'[q] = "pending" => status[q] = "pending"
        BY ZenonT(60), <1>8 DEF Complete, Transition, Outcome
    <2> QED BY <1>8, <2>1 DEF Complete
<1>9. CASE ApproveLost(h) BY <1>9 DEF ApproveLost
<1>10. CASE CompleteFails(h) BY <1>10 DEF CompleteFails
<1> QED
    BY ZenonT(60), <1>2, <1>3, <1>4, <1>5, <1>6, <1>7, <1>8, <1>9, <1>10 DEF Work, Disturbance

LEMMA SingleStep ==
    ASSUME SingleDaemon, TypeOK, HandlerKnowledge, SingleDaemonInv, [Next]_vars
    PROVE  SingleDaemonInv'
<1>1. ASSUME NEW r \in Requests, Lapse(r) PROVE SingleDaemonInv'
    BY <1>1 DEF Lapse, SingleDaemonInv, Executing, RunningNotRetryable,
        OneExecution, RunsAreAttributed, Alive, process, handlers
<1>2. CASE UNCHANGED vars
    BY ZenonT(60), <1>2 DEF vars, store, process, handlers, SingleDaemonInv, Executing,
        RunningNotRetryable, OneExecution, RunsAreAttributed, Alive
<1> QED
    BY <1>1, <1>2, LifecycleSingle, ClientSingle, WorkSingle DEF Next

\* With one daemon process at a time, whatever crashes, shutdowns and restarts
\* it goes through, one approved action is never executed twice at once.
THEOREM SingleDaemonSafe ==
    ASSUME SingleDaemon
    PROVE  Spec => []OneExecution
<1>1. TypeOK /\ HandlerKnowledge /\ SingleDaemonInv /\ [Next]_vars => SingleDaemonInv'
    BY SingleStep
<1>2. SingleDaemonInv => OneExecution
    BY DEF SingleDaemonInv
<1> QED
    BY <1>1, <1>2, SingleInit, KnowledgeAlways, PTL DEF Spec

\* And every executing action carries the attribution of an assertion verified
\* for its request.
THEOREM SingleDaemonAttributes ==
    ASSUME SingleDaemon
    PROVE  Spec => []RunsAreAttributed
<1>1. TypeOK /\ HandlerKnowledge /\ SingleDaemonInv /\ [Next]_vars => SingleDaemonInv'
    BY SingleStep
<1>2. SingleDaemonInv => RunsAreAttributed
    BY DEF SingleDaemonInv
<1> QED
    BY <1>1, <1>2, SingleInit, KnowledgeAlways, PTL DEF Spec

----------------------------------------------------------------------------
(* The broker keeps its contract                                           *)

\* What prune and recovery do to one request is a contracted change.
LEMMA StoreChanges ==
    ASSUME TypeOK, NEW q \in Requests
    PROVE  /\ Prune[q] = status[q] \/ Contract!Change(q, Prune[q])
           /\ Recovered[q] = status[q] \/ Contract!Change(q, Recovered[q])
BY ZenonT(60) DEF TypeOK, Prune, Recovered, Contract!Change

\* A step that leaves assertions and effects alone, and only changes statuses
\* the way the contract allows, is a step of the contract.
LEMMA StatusOnly ==
    ASSUME TypeOK', UNCHANGED <<asserted, applied>>,
           \A q \in Requests : status'[q] = status[q] \/ Contract!Change(q, status'[q])
    PROVE  Contract!Next
BY DEF TypeOK, Contract!Next, Status, Terminal, Contract!Status

LEMMA ContractLifecycle ==
    ASSUME TypeOK, TypeOK', NEW d \in Daemons, Lifecycle(d)
    PROVE  Contract!Next
<1>1. UNCHANGED <<asserted, applied>>
    BY ZenonT(60) DEF Lifecycle, Probe, RemoveSocket, Listen, Recover, RecoverFails,
        Quieten, IdleCheck, IdleCheckFails, IdleClose, Shutdown, Unlink, Exit, Crash,
        Dies, Poll, store
<1>2. status' \in {status, Prune, Recovered}
    BY ZenonT(60) DEF Lifecycle, Probe, RemoveSocket, Listen, Recover, RecoverFails,
        Quieten, IdleCheck, IdleCheckFails, IdleClose, Shutdown, Unlink, Exit, Crash,
        Dies, Poll, store
<1> QED
    BY SMTT(60), <1>1, <1>2, StoreChanges, StatusOnly

LEMMA ContractClient ==
    ASSUME TypeOK, TypeOK', NEW d \in Daemons, NEW r \in Requests, Client(d, r)
    PROVE  Contract!Next
<1>1. UNCHANGED <<asserted, applied>>
    BY SMTT(60) DEF Client, Submit, SubmitOpened, SubmitDenied, Present, PageGone,
        Reissue, Post
<1>2. CASE Submit(d, r)
    <2>1. \A q \in Requests : status'[q] = IF q = r THEN "pending" ELSE Prune[q]
        BY <1>2, StoreFunctions DEF Submit
    <2> QED
        BY ZenonT(60), <1>1, <1>2, <2>1, StoreChanges, StatusOnly DEF Submit, Contract!Change
<1>3. CASE SubmitDenied(d, r)
    <2>1. \A q \in Requests : status'[q] = status[q] \/ Contract!Change(q, status'[q])
        BY ZenonT(60), <1>3 DEF SubmitDenied, Transition, TypeOK, Contract!Change,
            Contract!Unsettled
    <2> QED BY <1>1, <2>1, StatusOnly
<1>4. CASE status' = Prune
    BY <1>1, <1>4, StoreChanges, StatusOnly
<1> QED
    BY <1>2, <1>3, <1>4 DEF Client, SubmitOpened, Present, PageGone, Reissue, Post

LEMMA ContractWork ==
    ASSUME TypeOK, TypeOK', HandlerKnowledge, NEW h \in Handlers,
           Work(h) \/ Disturbance(h)
    PROVE  Contract!Next
<1> USE DEF HandlerKnowledge
<1>1. CASE Verify(h)
    BY ZenonT(60), <1>1 DEF Verify, TypeOK, Contract!Next, Status, Terminal, Contract!Status
<1>2. CASE Attribute(h) \/ ApproveRefused(h) \/ TakeAttribution(h) \/ CompleteFails(h)
    BY ZenonT(60), <1>2, StatusOnly DEF Attribute, ApproveRefused, TakeAttribution,
        CompleteFails, store
<1>3. CASE Approve(h) \/ ApproveLost(h)
    <2>1. /\ hr[h] \in Requests /\ hr[h] \in asserted
          /\ status[hr[h]] = "pending"
          /\ status' = [status EXCEPT ![hr[h]] = "executing"]
        BY ZenonT(60), <1>3 DEF Approve, ApproveLost
    <2>2. \A q \in Requests : status'[q] = status[q] \/ Contract!Change(q, status'[q])
        BY ZenonT(60), <2>1 DEF TypeOK, Contract!Change
    <2> QED BY ZenonT(60), <1>3, <2>2, StatusOnly DEF Approve, ApproveLost
<1>4. CASE RunAction(h)
    BY ZenonT(60), <1>4 DEF RunAction, TypeOK, Contract!Next, Status, Terminal, Contract!Status
<1>5. CASE Complete(h)
    <2>1. /\ hr[h] \in Requests /\ hr[h] \in asserted
          /\ \/ Outcome(h) = "denied"
             \/ Outcome(h) = "approved"
             \/ Outcome(h) = "completed" /\ hr[h] \in applied
        BY <1>5 DEF Complete, Outcome
    <2>2. CASE status' = status
        BY <1>5, <2>2, StatusOnly DEF Complete
    <2>3. CASE /\ status[hr[h]] \in {"pending", "executing"}
               /\ status' = [status EXCEPT ![hr[h]] = Outcome(h)]
        <3>1. Contract!Change(hr[h], Outcome(h))
            BY ZenonT(60), <2>1, <2>3 DEF Contract!Change, Contract!Unsettled
        <3>2. \A q \in Requests : q # hr[h] => status'[q] = status[q]
            BY <2>3 DEF TypeOK
        <3>3. status'[hr[h]] = Outcome(h)
            BY <2>1, <2>3 DEF TypeOK
        <3> QED BY <1>5, <3>1, <3>2, <3>3, StatusOnly DEF Complete
    <2> QED BY <1>5, <2>2, <2>3 DEF Complete, Transition
<1> QED
    BY ZenonT(60), <1>1, <1>2, <1>3, <1>4, <1>5 DEF Work, Disturbance

\* Any number of daemons, pages and handlers, with crashes, shutdowns and lost
\* commits, implement the contract of a request.
THEOREM BrokerKeepsContract == Spec => KeepsContract
<1>1. Init => Contract!Init
    BY DEF Init, Contract!Init
<1>2. TypeOK /\ HandlerKnowledge /\ [Next]_vars
        => [Contract!Next]_<<status, asserted, applied>>
    <2> SUFFICES ASSUME TypeOK, HandlerKnowledge, [Next]_vars
                 PROVE  Contract!Next \/ UNCHANGED <<status, asserted, applied>>
        OBVIOUS
    <2>0. TypeOK' BY KnowledgeStep
    <2>1. ASSUME NEW r \in Requests, Lapse(r)
          PROVE  UNCHANGED <<status, asserted, applied>>
        BY <2>1 DEF Lapse
    <2>2. CASE UNCHANGED vars
        BY <2>2 DEF vars, store
    <2> QED
        BY <2>0, <2>1, <2>2, ContractLifecycle, ContractClient, ContractWork DEF Next
<1> QED
    BY <1>1, <1>2, KnowledgeAlways, PTL DEF Spec, KeepsContract, Contract!Spec
=============================================================================
