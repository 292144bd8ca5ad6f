------------------------- MODULE HookPipelineProofs -------------------------
(* Proofs about the hook pipeline, for any number of concurrent hooks, any *)
(* calls, any number of night windows, grant uses, records and versions.   *)
EXTENDS HookPipeline, ActionGrantsProofs

\* Zenon is the prover unless a step says SMT.
USE ZenonT(60) DEF session, files, shared, own, Go, SetV, Judge, Verdict

----------------------------------------------------------------------------
(* The inductive invariant                                                 *)

Early == {"start", "transaction", "evaluate", "fingerprint", "check", "check2", "recordPass"}
Relaxed(w) == w.rule \in {Night, Grant}

\* A verdict that keeps to what the engine said of the call.
Sound(c, w) ==
    /\ w.dec = "allow" =>
         /\ c.eval.dec # "deny"
         /\ c.eval.dec = "ask" /\ NeverRelaxable(c.eval.rule) => w.rule \in {Retried, ByHost}
    /\ w.dec = "ask" => c.eval.dec # "deny" /\ (c.eval.dec = "ask" => w = c.eval)

\* What each step of a hook may rely on.
HookOK(p) ==
    /\ at[p] \in Early => v[p] = None /\ normal[p] = None
    /\ at[p] = "transaction" => call[p].event = "pre"
    /\ at[p] = "evaluate" => call[p].event = "post"
    /\ at[p] \in Early \ {"start", "transaction", "evaluate"} => call[p].event = "completion"
    /\ at[p] = "relax" => v[p] = normal[p]
    /\ at[p] = "spend" => v[p].dec = "ask" /\ ~NeverGrantable(v[p].rule)
    /\ at[p] = "exact" => ExactEligible(p, v[p])
    /\ call[p].event # "completion" => Sound(call[p], v[p]) /\ Sound(call[p], normal[p])
    /\ ~Relaxed(normal[p])
    /\ Relaxed(v[p]) => p \in bought
    /\ at[p] = "emit" /\ Relaxed(v[p]) => <<p, v[p]>> \in log
    /\ shown[p] # "nothing" => at[p] = "end"
    /\ shown[p] = "proceed" => /\ v[p].dec = "allow" \/ Unheard(call[p])
                               /\ Relaxed(v[p]) => <<p, v[p]>> \in log

\* The signals of a call that went on unpaused are in the session state.
SignalsSeen ==
    \A p \in Hooks :
        call[p].event = "pre" /\ normal[p] = call[p].eval /\ call[p].eval.dec = "allow"
            => call[p].sig \subseteq saw

\* Some hook took on telling the plane about the window.
Told(plane, w) == \E q \in announce : call[q].plane = plane /\ nightSeen[q] = w

AnnounceInv ==
    /\ \A p \in announce : at[p] # "start"
    /\ \A plane \in DOMAIN announced : Told(plane, announced[plane])
    /\ \A p \in Hooks : v[p].rule = Night => nightSeen[p] # 0 /\ at[p] # "start"
    /\ \A p \in Hooks :
           call[p].event = "pre" /\ (at[p] = "relax" \/ v[p].rule = Night) /\ NeedsAnnouncement(p)
               => Told(call[p].plane, nightSeen[p])

\* All commands passed on the version, unless a check could not vouch for it.
Vouched(f) == f \notin doubtful => \A n \in {1, 2} : f \in Passing[n]

\* A check that can vouch for the version it began with has that version before
\* it, and the commands it has run passed on it.
SkipInv ==
    /\ passed # -1 => Vouched(passed)
    /\ \A p \in Hooks : finger[p] \notin doubtful \cup {-1} =>
           /\ at[p] \in Checks => content = finger[p]
           /\ at[p] = "check2" => finger[p] \in Passing[1]
           /\ at[p] = "recordPass" => Vouched(finger[p])
    /\ \A p \in Hooks : "skipped" \in {v[p].rule, normal[p].rule} => Vouched(finger[p])

\* A pending ask is one that no retry has answered.
Mine(k) == {p \in Hooks : call[p].key = k /\ call[p].plane = "opencode"}
Retries(k) == {p \in Mine(k) : normal[p].rule = Retried}
Asks(k) == {p \in Mine(k) : normal[p].dec = "ask"}
Waiting(k) == IF k \in DOMAIN pending THEN 1 ELSE 0
Answers == \A k \in Digests : Cardinality(Retries(k)) + Waiting(k) <= Cardinality(Asks(k))

HookInv ==
    /\ HTypeOK /\ GrantInv
    /\ \A p \in Hooks : HookOK(p)
    /\ SignalsSeen /\ SecondLegPauses
    /\ AnnounceInv /\ SkipInv /\ UsesArePaid /\ Answers

----------------------------------------------------------------------------
(* The exact-action store under the pipeline                               *)

\* What a step of a hook does to the store is a step of the store, or nothing.
LEMMA HookUsesStore ==
  ASSUME HTypeOK, NEW p \in Hooks, CmdHook(p)
  PROVE  Next \/ UNCHANGED vars
<1>0. p \in Procs /\ call[p].key \in Digests
  BY DEF HTypeOK, Calls, Procs
<1>1. CASE FailClosed(p) \/ Load(p)
  BY <1>1 DEF FailClosed, Load
<1>2. ASSUME NEW lint \in {"pass", "fail"}, Evaluate(p, lint) \/ Daemon(p, lint)
      PROVE  UNCHANGED vars
  BY <1>2 DEF Evaluate, Daemon
<1>3. CASE Transaction(p) \/ TransactionFails(p)
  BY <1>3 DEF Transaction, TransactionFails
<1>4. CASE Fingerprint(p) \/ Check(p) \/ RecordPass(p)
  BY <1>4 DEF Fingerprint, Check, RecordPass
<1>5. CASE Relax(p) \/ Spend(p) \/ SpendNothing(p)
  BY <1>5 DEF Relax, Spend, SpendNothing
<1>6. CASE AskStore(p)
  BY <1>0, <1>6 DEF AskStore, Next, HookStep
<1>7. CASE StoreStep(p)
  BY <1>0, <1>7 DEF StoreStep, Next, HookStep
<1>8. CASE AuditWrite(p) \/ AuditFails(p) \/ Emit(p)
  BY <1>8 DEF AuditWrite, AuditFails, Emit
<1>9. CASE Die(p)
  BY <1>0, <1>9 DEF Die, Next
<1> QED BY <1>1, <1>2, <1>3, <1>4, <1>5, <1>6, <1>7, <1>8, <1>9 DEF CmdHook

\* And so is every other step.
LEMMA StepUsesStore ==
  ASSUME HTypeOK, [HNext]_hvars
  PROVE  [Next]_vars
<1>1. ASSUME NEW p \in Hooks, CmdHook(p) PROVE [Next]_vars
  BY <1>1, HookUsesStore
<1>2. CASE Edit \/ (\E w \in 0..MaxWindows : SetNight(w)) \/ (\E k \in Digests : AskLapses(k))
  BY <1>2 DEF Edit, SetNight, AskLapses
<1>3. CASE Operator
  <2>1. ASSUME NEW p \in Operators, OperatorStep(p) \/ GiveUp(p, {}) PROVE Next
    BY <2>1 DEF Next, Procs
  <2>2. ASSUME NEW r \in Recs, Lapse(r) PROVE Next
    BY <2>2 DEF Next
  <2> QED BY <1>3, <2>1, <2>2 DEF Operator
<1>4. CASE UNCHANGED hvars
  BY <1>4 DEF hvars
<1> QED BY <1>1, <1>2, <1>3, <1>4 DEF HNext

----------------------------------------------------------------------------
(* One hook at a time                                                      *)

\* A step of a hook changes its own part of every table, and adds to the rest.
Alone(p) ==
    /\ UNCHANGED <<call, env, night, windows>>
    /\ \A q \in Hooks \ {p} :
         /\ at'[q] = at[q] /\ v'[q] = v[q] /\ normal'[q] = normal[q] /\ shown'[q] = shown[q]
         /\ nightSeen'[q] = nightSeen[q] /\ finger'[q] = finger[q]
         /\ q \in bought' <=> q \in bought
         /\ q \in announce' <=> q \in announce
    /\ log \subseteq log' /\ announce \subseteq announce' /\ bought \subseteq bought'

LEMMA HookAlone ==
  ASSUME HTypeOK, NEW p \in Hooks, CmdHook(p)
  PROVE  Alone(p)
<1> USE DEF HTypeOK, Alone
<1>1. CASE FailClosed(p) \/ Load(p)
  BY <1>1 DEF FailClosed, Load
<1>2. ASSUME NEW lint \in {"pass", "fail"}, Evaluate(p, lint) \/ Daemon(p, lint)
      PROVE  Alone(p)
  BY <1>2 DEF Evaluate, Daemon
<1>3. CASE Transaction(p) \/ TransactionFails(p)
  BY <1>3 DEF Transaction, TransactionFails
<1>4. CASE Fingerprint(p) \/ Check(p) \/ RecordPass(p)
  BY SMT, <1>4 DEF Fingerprint, Check, RecordPass
<1>5. CASE Relax(p) \/ Spend(p) \/ SpendNothing(p)
  BY <1>5 DEF Relax, Spend, SpendNothing
<1>6. CASE AskStore(p) \/ StoreStep(p)
  BY <1>6 DEF AskStore, StoreStep
<1>7. CASE AuditWrite(p) \/ AuditFails(p) \/ Emit(p) \/ Die(p)
  BY <1>7 DEF AuditWrite, AuditFails, Emit, Die
<1> QED BY <1>1, <1>2, <1>3, <1>4, <1>5, <1>6, <1>7 DEF CmdHook

\* The environment changes nothing of a hook.
LEMMA EnvironmentApart ==
  ASSUME [HNext]_hvars, ~(\E p \in Hooks : CmdHook(p))
  PROVE  UNCHANGED <<call, at, own, saw, uses, log, announced, passed, shown>>
<1>1. CASE Edit \/ (\E w \in 0..MaxWindows : SetNight(w)) \/ (\E k \in Digests : AskLapses(k))
  BY <1>1 DEF Edit, SetNight, AskLapses
<1>2. CASE Operator \/ UNCHANGED hvars
  BY <1>2 DEF Operator, hvars
<1> QED BY <1>1, <1>2 DEF HNext

----------------------------------------------------------------------------
(* Types                                                                   *)

\* The first state has the types.
LEMMA HTypeInit == HInit => HTypeOK
<1> SUFFICES ASSUME HInit PROVE HTypeOK
  OBVIOUS
<1>1. TypeOK
  BY TypeInit DEF HInit
<1>2. call \in [Hooks -> Calls]
  BY MixesAssumption DEF HInit
<1>3. None \in Verdicts
  BY DEF None, Verdicts, Decisions
<1> QED BY SMT, <1>1, <1>2, <1>3, BoundsAssumption DEF HInit, HTypeOK, Labels

\* The verdicts of the pipeline itself.
LEMMA OwnVerdicts ==
  /\ Verdict("deny", "hook-fail-closed") \in Verdicts /\ Verdict("deny", "P8.recipe-lint") \in Verdicts
  /\ Verdict("allow", "P8.recipe-lint") \in Verdicts /\ Verdict("allow", "skipped") \in Verdicts
  /\ Verdict("allow", Grant) \in Verdicts
BY DEF Verdicts, Decisions, Bought

\* The verdicts of the engine's operators are verdicts.
LEMMA EngineVerdicts ==
  ASSUME HTypeOK, NEW p \in Hooks
  PROVE  /\ call[p].eval \in Verdicts /\ call[p].sig \subseteq {"private", "net"}
         /\ \A lint : Judged(p, lint) \in Verdicts
         /\ Trifecta(call[p].eval, call[p].sig) \in Verdicts
         /\ TrifectaBlind(call[p].eval, call[p].sig) \in Verdicts
         /\ \A w \in Verdicts : \A k, h : Approval(w, k, h).v \in Verdicts
         /\ \A w \in Verdicts : \A a : ApplyNightMode(w, a) \in Verdicts
<1>1. call[p].eval \in Verdicts /\ call[p].sig \subseteq {"private", "net"}
  BY DEF HTypeOK, Calls, Verdicts
<1>2. \A lint : Judged(p, lint) \in Verdicts
  BY <1>1 DEF Judged, Verdicts, Decisions
<1>3. /\ Trifecta(call[p].eval, call[p].sig) \in Verdicts
      /\ TrifectaBlind(call[p].eval, call[p].sig) \in Verdicts
  BY <1>1 DEF Trifecta, TrifectaBlind, Verdicts, Decisions
<1>4. ASSUME NEW w \in Verdicts, NEW k, NEW h PROVE Approval(w, k, h).v \in Verdicts
  BY DEF Approval, Verdicts, Decisions, Bought
<1>5. ASSUME NEW w \in Verdicts, NEW a PROVE ApplyNightMode(w, a) \in Verdicts
  BY DEF ApplyNightMode, Verdicts, Decisions, Bought
<1> QED BY <1>1, <1>2, <1>3, <1>4, <1>5

\* Every step of a hook keeps them.
LEMMA HTypeHook ==
  ASSUME HTypeOK, TypeOK', NEW p \in Hooks, CmdHook(p)
  PROVE  HTypeOK'
<1> USE BoundsAssumption DEF HTypeOK, Labels
<1>1. CASE FailClosed(p)
  BY <1>1, OwnVerdicts DEF FailClosed, Effect
<1>2. CASE Load(p)
  BY SMT, <1>2 DEF Load, Calls
<1>3. ASSUME NEW lint \in {"pass", "fail"}, Evaluate(p, lint) PROVE HTypeOK'
  BY <1>3, EngineVerdicts DEF Evaluate
<1>4. ASSUME NEW lint \in {"pass", "fail"}, Daemon(p, lint) PROVE HTypeOK'
  BY <1>4, EngineVerdicts DEF Daemon, Effect
<1>5. CASE Transaction(p)
  <2>1. /\ \E w \in Verdicts : v' = [v EXCEPT ![p] = w] /\ normal' = [normal EXCEPT ![p] = w]
        /\ saw' = saw \cup call[p].sig
        /\ announce' \in {announce, announce \cup {p}}
    BY <1>5, EngineVerdicts DEF Transaction
  <2> QED BY <1>5, <2>1, EngineVerdicts DEF Transaction
<1>6. CASE TransactionFails(p)
  BY <1>6, EngineVerdicts DEF TransactionFails
<1>7. CASE Fingerprint(p)
  <2>1. PICK f \in {content, -1} : finger' = [finger EXCEPT ![p] = f]
    BY <1>7 DEF Fingerprint
  <2>2. finger' \in [Hooks -> -1..Versions]
    BY SMT, <2>1
  <2>3. \/ /\ Judge(p, Verdict("allow", "skipped")) /\ Go(p, "relax")
        \/ UNCHANGED <<v, normal>> /\ Go(p, "check")
    BY <1>7 DEF Fingerprint
  <2>4. v' \in [Hooks -> Verdicts] /\ normal' \in [Hooks -> Verdicts] /\ at' \in [Hooks -> Labels]
    BY SMT, <2>3, OwnVerdicts
  <2> QED BY <1>7, <2>2, <2>4 DEF Fingerprint
<1>8. CASE Check(p)
  <2>1. v' \in [Hooks -> Verdicts] /\ normal' \in [Hooks -> Verdicts] /\ at' \in [Hooks -> Labels]
    BY SMT, <1>8, OwnVerdicts DEF Check
  <2>2. doubtful' \in {doubtful, doubtful \cup {finger[p]}}
        /\ UNCHANGED <<vars, env, call, bought, nightSeen, announce, opUses, finger,
                      night, windows, session, uses, content, passed, log, shown>>
    BY <1>8 DEF Check
  <2>3. doubtful' \subseteq -1..Versions
    BY SMT, <2>2
  <2> QED BY <2>1, <2>2, <2>3
<1>9. CASE RecordPass(p)
  BY SMT, <1>9, OwnVerdicts DEF RecordPass
<1>10. CASE Relax(p)
  BY <1>10, EngineVerdicts DEF Relax, AfterGrants
<1>11. CASE Spend(p)
  BY SMT, <1>11, OwnVerdicts DEF Spend
<1>12. CASE SpendNothing(p)
  BY <1>12 DEF SpendNothing, AfterGrants
<1>13. CASE AskStore(p)
  BY <1>13 DEF AskStore
<1>14. CASE StoreStep(p)
  <2>1. v' \in [Hooks -> Verdicts] /\ bought' \subseteq Hooks
    BY SMT, <1>14, OwnVerdicts DEF StoreStep
  <2>2. at' \in [Hooks -> Labels]
    BY <1>14, OwnVerdicts DEF StoreStep
  <2>3. UNCHANGED <<env, call, normal, nightSeen, announce, opUses, finger, shared, shown>>
    BY <1>14, OwnVerdicts DEF StoreStep
  <2> QED BY <2>1, <2>2, <2>3
<1>15. CASE AuditWrite(p)
  BY <1>15 DEF AuditWrite
<1>18. CASE AuditFails(p)
  <2>1. v' \in [Hooks -> Verdicts]
    BY <1>18 DEF AuditFails
  <2> QED BY <1>18, <2>1 DEF AuditFails
<1>16. CASE Emit(p)
  BY <1>16 DEF Emit, Effect
<1>17. CASE Die(p)
  BY <1>17 DEF Die
<1> QED BY <1>1, <1>2, <1>3, <1>4, <1>5, <1>6, <1>7, <1>8, <1>9, <1>10, <1>11, <1>12, <1>13,
           <1>14, <1>15, <1>16, <1>17, <1>18 DEF CmdHook

\* And every other step.
LEMMA HTypeStep ==
  ASSUME HTypeOK, TypeOK', [HNext]_hvars
  PROVE  HTypeOK'
<1> USE BoundsAssumption DEF HTypeOK
<1>1. ASSUME NEW p \in Hooks, CmdHook(p) PROVE HTypeOK'
  BY <1>1, HTypeHook
<1>2. ASSUME NEW w \in 0..MaxWindows, SetNight(w) PROVE HTypeOK'
  BY SMT, <1>2 DEF SetNight
<1>3. ASSUME NEW k \in Digests, AskLapses(k) PROVE HTypeOK'
  BY <1>3 DEF AskLapses
<1>4. CASE Edit
  <2>1. content' \in 0..Versions
    BY <1>4 DEF Edit
  <2>2. \A q \in Hooks : finger[q] \in -1..Versions
    BY SMT
  <2>3. doubtful' \subseteq -1..Versions
    <3>1. doubtful' = doubtful \cup {finger[q] : q \in {r \in Hooks : at[r] \in Checks}}
      BY <1>4 DEF Edit
    <3>2. doubtful \subseteq -1..Versions
      OBVIOUS
    <3> HIDE DEF HTypeOK
    <3> QED BY <2>2, <3>1, <3>2
  <2> QED BY <1>4, <2>1, <2>3 DEF Edit
<1>5. CASE Operator
  BY <1>5 DEF Operator
<1>6. CASE UNCHANGED hvars
  BY <1>6 DEF hvars
<1> QED BY <1>1, <1>2, <1>3, <1>4, <1>5, <1>6 DEF HNext

----------------------------------------------------------------------------
(* What a hook may rely on                                                 *)

\* The engine's operators keep to what the engine said, and none of them gives
\* the verdict of a relaxation.
LEMMA EngineSound ==
  ASSUME HTypeOK, NEW p \in Hooks
  PROVE  /\ \A lint : Sound(call[p], Judged(p, lint)) /\ ~Relaxed(Judged(p, lint))
         /\ LET w == Trifecta(call[p].eval, call[p].sig)
            IN  /\ Sound(call[p], w) /\ ~Relaxed(w)
                /\ \A k, h : Sound(call[p], Approval(w, k, h).v) /\ ~Relaxed(Approval(w, k, h).v)
         /\ LET w == TrifectaBlind(call[p].eval, call[p].sig) IN Sound(call[p], w) /\ ~Relaxed(w)
<1> DEFINE c == call[p]
<1>1. c.eval \in [dec : Decisions, rule : Rules] /\ c.eval.rule \notin Bought
  BY RulesAssumption DEF HTypeOK, Calls
<1>2. Sound(c, c.eval) /\ ~Relaxed(c.eval)
  BY <1>1 DEF Sound, Relaxed, Bought
<1>3. ASSUME NEW rule \in {"P7.trifecta", "P7.tracking-unavailable"}, c.eval.dec = "allow"
      PROVE  Sound(c, Verdict("ask", rule)) /\ ~Relaxed(Verdict("ask", rule))
  BY <1>1, <1>3 DEF Sound, Relaxed, Night, Grant
<1>4. ASSUME NEW lint PROVE Sound(c, Judged(p, lint)) /\ ~Relaxed(Judged(p, lint))
  BY <1>2 DEF Judged, Sound, Relaxed, Night, Grant
<1>5. LET w == TrifectaBlind(c.eval, c.sig) IN Sound(c, w) /\ ~Relaxed(w)
  BY <1>2, <1>3 DEF TrifectaBlind
<1>6. LET w == Trifecta(c.eval, c.sig) IN Sound(c, w) /\ ~Relaxed(w) /\ (w.dec = "ask" => c.eval.dec # "deny")
  BY <1>1, <1>2, <1>3 DEF Trifecta
<1>7. ASSUME NEW w, Sound(c, w), ~Relaxed(w), w.dec = "ask" => c.eval.dec # "deny", NEW k, NEW h
      PROVE  Sound(c, Approval(w, k, h).v) /\ ~Relaxed(Approval(w, k, h).v)
  <2>1. Approval(w, k, h).v \in {w, Verdict("allow", Retried), Verdict("allow", ByHost)}
    BY DEF Approval
  <2>2. Approval(w, k, h).v # w => w.dec = "ask"
    BY DEF Approval
  <2>3. \A rule \in {Retried, ByHost} : c.eval.dec # "deny" =>
           Sound(c, Verdict("allow", rule)) /\ ~Relaxed(Verdict("allow", rule))
    BY DEF Sound, Relaxed, Night, Grant, Retried, ByHost
  <2> QED BY <1>7, <2>1, <2>2, <2>3
<1> QED BY <1>4, <1>5, <1>6, <1>7

\* The steps up to the verdict.
LEMMA JudgingKeeps ==
  ASSUME HTypeOK, NEW p \in Hooks, HookOK(p),
         \/ FailClosed(p) \/ Load(p)
         \/ \E lint \in {"pass", "fail"} : Evaluate(p, lint) \/ Daemon(p, lint)
         \/ Transaction(p) \/ TransactionFails(p)
  PROVE  HookOK(p)'
<1> USE DEF HTypeOK, HookOK, ExactEligible
<1>0. ~Relaxed(None) /\ Sound(call[p], None) /\ ~Relaxed(Verdict("deny", "hook-fail-closed"))
      /\ Sound(call[p], Verdict("deny", "hook-fail-closed"))
  BY DEF Relaxed, Night, Grant, None, Sound
<1>1. CASE FailClosed(p)
  <2>1. Effect(call[p], "deny") = "proceed" => Unheard(call[p])
    BY DEF Effect
  <2> QED BY <1>0, <1>1, <2>1 DEF FailClosed, Early
<1>2. CASE Load(p)
  BY <1>0, <1>2 DEF Load, Early, Calls
<1>3. ASSUME NEW lint \in {"pass", "fail"}, Evaluate(p, lint) PROVE HookOK(p)'
  BY <1>3, EngineSound DEF Evaluate, Early
<1>4. ASSUME NEW lint \in {"pass", "fail"}, Daemon(p, lint) PROVE HookOK(p)'
  BY <1>0, <1>4, EngineSound DEF Daemon, Effect, Early
<1>5. CASE Transaction(p)
  <2>1. PICK w : /\ Judge(p, w) /\ Go(p, "relax") /\ Sound(call[p], w) /\ ~Relaxed(w)
                 /\ at[p] = "transaction" /\ UNCHANGED <<call, log, bought, shown>>
    BY <1>5, EngineSound DEF Transaction
  <2> QED BY <2>1 DEF Early
<1>6. CASE TransactionFails(p)
  BY <1>6, EngineSound DEF TransactionFails, Early
<1> QED BY <1>1, <1>2, <1>3, <1>4, <1>5, <1>6

\* The session check.
LEMMA CheckingKeeps ==
  ASSUME HTypeOK, NEW p \in Hooks, HookOK(p), Fingerprint(p) \/ Check(p) \/ RecordPass(p)
  PROVE  HookOK(p)'
<1> USE DEF HTypeOK, HookOK, ExactEligible
<1>0. \A w \in {Verdict("deny", "P8.recipe-lint"), Verdict("allow", "P8.recipe-lint"),
                Verdict("allow", "skipped")} : ~Relaxed(w)
  BY SMT DEF Relaxed, Night, Grant
<1>1. /\ at[p] \in Early \ {"start", "transaction", "evaluate"}
      /\ UNCHANGED <<call, log, bought, shown>>
      /\ \/ UNCHANGED <<v, normal>> /\ \E l \in {"check", "check2", "recordPass"} : Go(p, l)
         \/ \E w \in {Verdict("deny", "P8.recipe-lint"), Verdict("allow", "P8.recipe-lint"),
                      Verdict("allow", "skipped")} : Judge(p, w) /\ Go(p, "relax")
  <2>1. CASE Fingerprint(p)
    BY <2>1 DEF Fingerprint, Early
  <2>2. CASE Check(p)
    BY <2>2 DEF Check, Checks, Early
  <2>3. CASE RecordPass(p)
    BY <2>3 DEF RecordPass, Early
  <2> QED BY <2>1, <2>2, <2>3
<1>2. CASE UNCHANGED <<v, normal>>
  BY <1>1, <1>2 DEF Early
<1>3. ASSUME NEW w \in {Verdict("deny", "P8.recipe-lint"), Verdict("allow", "P8.recipe-lint"),
                        Verdict("allow", "skipped")}, Judge(p, w), Go(p, "relax")
      PROVE  HookOK(p)'
  BY <1>0, <1>1, <1>3 DEF Early
<1> QED BY <1>1, <1>2, <1>3

\* What may be relaxed or granted was an Ask that something may relax.
LEMMA RelaxedSound ==
  ASSUME NEW c, NEW w, Sound(c, w), w.dec = "ask", ~NeverRelaxable(w.rule), NEW rule
  PROVE  Sound(c, Verdict("allow", rule))
BY DEF Sound

\* The relaxations.
LEMMA RelaxingKeeps ==
  ASSUME HTypeOK, NEW p \in Hooks, HookOK(p),
         Relax(p) \/ Spend(p) \/ SpendNothing(p) \/ AskStore(p) \/ StoreStep(p)
  PROVE  HookOK(p)'
<1> USE DEF HTypeOK
<1>1. CASE Relax(p)
  <2> DEFINE w == ApplyNightMode(v[p], nightSeen[p] # 0)
  <2>1. /\ v'[p] = w /\ at[p] = "relax" /\ normal' = normal
        /\ at'[p] \in {"spend", "exact", "audit"}
        /\ at'[p] = "spend" => w.dec = "ask" /\ ~NeverGrantable(w.rule)
        /\ at'[p] = "exact" => ExactEligible(p, w)
        /\ w.rule = Night => p \in bought'
        /\ bought \subseteq bought'
        /\ UNCHANGED <<call, log, shown>>
    BY <1>1 DEF Relax, AfterGrants, CommandGranted
  <2>2. w = v[p] \/ (w = Verdict("allow", Night) /\ v[p].dec = "ask" /\ ~NeverRelaxable(v[p].rule))
    BY DEF ApplyNightMode
  <2>3. call[p].event # "completion" => Sound(call[p], w)
    BY SMT, <2>2, RelaxedSound DEF HookOK
  <2>4. Relaxed(w) => p \in bought'
    <3>1. w = v[p] => (Relaxed(w) => p \in bought)
      BY DEF HookOK
    <3> HIDE DEF w
    <3>2. w # v[p] => w.rule = Night
      BY SMT, <2>2
    <3> QED BY <2>1, <3>1, <3>2
  <2>5. shown[p] = "nothing" /\ v'[p] = w
    BY <2>1 DEF HookOK
  <2> HIDE DEF w
  <2> QED BY <2>1, <2>3, <2>4, <2>5 DEF HookOK, ExactEligible, Early
<1>2. CASE Spend(p) \/ (\E r \in Recs : StoreStep(p) /\ Consume(p, r) /\ v' # v)
  <2>1. /\ v[p].dec = "ask" /\ ~NeverGrantable(v[p].rule) /\ shown[p] = "nothing"
        /\ v'[p] = Verdict("allow", Grant) /\ at'[p] = "audit" /\ p \in bought'
        /\ UNCHANGED <<call, normal, log, shown>>
    <3>1. CASE Spend(p)
      BY <3>1 DEF Spend, HookOK
    <3>2. CASE \E r \in Recs : StoreStep(p) /\ Consume(p, r) /\ v' # v
      <4>1. pc'[p] = "idle"
        BY <3>2 DEF Consume, Return, TypeOK, Procs
      <4>2. v'[p] = Verdict("allow", Grant) /\ p \in bought'
        BY <3>2 DEF StoreStep
      <4> QED BY <3>2, <4>1, <4>2 DEF StoreStep, HookOK, ExactEligible
    <3> QED BY <1>2, <3>1, <3>2
  <2>2. call[p].event # "completion" => Sound(call[p], Verdict("allow", Grant))
    BY <2>1, RelaxedSound DEF HookOK, NeverGrantable
  <2> QED BY <2>1, <2>2 DEF HookOK, ExactEligible, Early
<1>3. CASE SpendNothing(p)
  BY <1>3 DEF SpendNothing, AfterGrants, HookOK, ExactEligible, Early
<1>4. CASE AskStore(p)
  BY <1>4 DEF AskStore, HookOK, ExactEligible
<1>5. CASE StoreStep(p) /\ v' = v
  BY <1>5 DEF StoreStep, HookOK, ExactEligible, Early
<1>6. StoreStep(p) => v' = v \/ \E r \in Recs : Consume(p, r) /\ v' # v
  BY DEF StoreStep
<1> QED BY <1>1, <1>2, <1>3, <1>4, <1>5, <1>6

\* The record and the answer.
LEMMA EndingKeeps ==
  ASSUME HTypeOK, NEW p \in Hooks, HookOK(p),
         AuditWrite(p) \/ AuditFails(p) \/ Emit(p) \/ Die(p)
  PROVE  HookOK(p)'
<1> USE DEF HTypeOK, ExactEligible, Early
<1>1. CASE AuditWrite(p)
  BY <1>1 DEF AuditWrite, HookOK, Recorded, Relaxed
<1>2. CASE AuditFails(p)
  BY <1>2 DEF AuditFails, HookOK, Recorded
<1>3. CASE Emit(p)
  BY <1>3 DEF Emit, Effect, HookOK
<1>4. CASE Die(p)
  BY <1>4 DEF Die, HookOK
<1> QED BY <1>1, <1>2, <1>3, <1>4

\* A step of one hook leaves the others what they rely on.
LEMMA OthersKeep ==
  ASSUME HTypeOK, NEW p \in Hooks, CmdHook(p), NEW q \in Hooks \ {p}, HookOK(q)
  PROVE  HookOK(q)'
BY HookAlone DEF Alone, HookOK, ExactEligible

\* Every hook may rely on it after every step.
LEMMA HooksStep ==
  ASSUME HTypeOK, \A p \in Hooks : HookOK(p), [HNext]_hvars
  PROVE  \A p \in Hooks : HookOK(p)'
<1>1. ASSUME NEW p \in Hooks, CmdHook(p) PROVE HookOK(p)'
  BY <1>1, JudgingKeeps, CheckingKeeps, RelaxingKeeps, EndingKeeps DEF CmdHook
<1>2. ASSUME ~(\E p \in Hooks : CmdHook(p)), NEW q \in Hooks PROVE HookOK(q)'
  BY <1>2, EnvironmentApart DEF HookOK, ExactEligible
<1> QED BY <1>1, <1>2, OthersKeep

----------------------------------------------------------------------------
(* Where verdicts come from                                                *)

\* The engine's operators name none of the rules by which the pipeline allows.
LEMMA EngineRules ==
  ASSUME HTypeOK, NEW p \in Hooks
  PROVE  /\ \A lint : Judged(p, lint).rule \notin Bought \cup {"skipped"}
         /\ LET w == Trifecta(call[p].eval, call[p].sig)
            IN  /\ w.rule \notin Bought \cup {"skipped"}
                /\ \A k, h : Approval(w, k, h).v.rule \notin {Night, Grant, "skipped"}
         /\ TrifectaBlind(call[p].eval, call[p].sig).rule \notin Bought \cup {"skipped"}
<1>1. call[p].eval.rule \notin Bought \cup {"skipped"}
  BY RulesAssumption DEF HTypeOK, Calls
<1>2. \A lint : Judged(p, lint).rule \notin Bought \cup {"skipped"}
  BY <1>1 DEF Judged, Bought, Night, Grant, Retried, ByHost
<1>3. /\ Trifecta(call[p].eval, call[p].sig).rule \notin Bought \cup {"skipped"}
      /\ TrifectaBlind(call[p].eval, call[p].sig).rule \notin Bought \cup {"skipped"}
  BY <1>1 DEF Trifecta, TrifectaBlind, Bought, Night, Grant, Retried, ByHost
<1>4. ASSUME NEW w, NEW k, NEW h, w.rule \notin Bought \cup {"skipped"}
      PROVE  Approval(w, k, h).v.rule \notin {Night, Grant, "skipped"}
  BY <1>4 DEF Approval, Bought, Night, Grant, Retried, ByHost
<1> QED BY <1>2, <1>3, <1>4

\* Where a new verdict comes from.
LEMMA VerdictComes ==
  ASSUME HTypeOK, NEW p \in Hooks, HookOK(p), CmdHook(p)
  PROVE  \/ v'[p] = v[p] \/ v'[p] = normal[p] \/ v'[p].rule \notin {Night, Grant, "skipped"}
         \/ Relax(p) /\ nightSeen[p] # 0 /\ v'[p] = Verdict("allow", Night)
         \/ v'[p] = Verdict("allow", Grant) /\ (Spend(p) \/ call[p].plane = "codex")
         \/ Fingerprint(p) /\ v'[p] = Verdict("allow", "skipped") /\ normal'[p] = v'[p]
              /\ finger'[p] = passed /\ passed # -1
<1> USE DEF HTypeOK
<1>1. CASE FailClosed(p)
  BY <1>1 DEF FailClosed, Night, Grant
<1>2. CASE Load(p) \/ SpendNothing(p) \/ AskStore(p) \/ AuditWrite(p) \/ Emit(p) \/ Die(p)
  BY <1>2 DEF Load, SpendNothing, AskStore, AuditWrite, Emit, Die
<1>3. ASSUME NEW lint \in {"pass", "fail"}, Evaluate(p, lint) \/ Daemon(p, lint)
      PROVE  v'[p].rule \notin {Night, Grant, "skipped"}
  <2>1. v'[p] = Judged(p, lint)
    BY <1>3 DEF Evaluate, Daemon
  <2> QED BY <2>1, EngineRules DEF Bought
<1>4. CASE Transaction(p)
  BY <1>4, EngineRules DEF Transaction, Bought
<1>5. CASE TransactionFails(p)
  BY <1>5, EngineRules DEF TransactionFails, Bought
<1>6. CASE Check(p) \/ RecordPass(p)
  <2>1. v'[p] \in {v[p], Verdict("deny", "P8.recipe-lint"), Verdict("allow", "P8.recipe-lint")}
    BY <1>6 DEF Check, RecordPass
  <2>2. \A d : Verdict(d, "P8.recipe-lint").rule \notin {Night, Grant, "skipped"}
    BY DEF Night, Grant
  <2> QED BY <2>1, <2>2
<1>7. CASE Fingerprint(p)
  <2>1. PICK f \in {content, -1} :
          /\ finger' = [finger EXCEPT ![p] = f]
          /\ \/ f # -1 /\ f = passed /\ Judge(p, Verdict("allow", "skipped"))
             \/ v' = v
    BY <1>7 DEF Fingerprint
  <2> QED BY <1>7, <2>1
<1>8. CASE Relax(p)
  BY <1>8 DEF Relax, ApplyNightMode
<1>9. CASE Spend(p)
  BY <1>9 DEF Spend
<1>10. CASE StoreStep(p)
  BY <1>10 DEF StoreStep, HookOK, ExactEligible
<1>11. CASE AuditFails(p)
  BY <1>11 DEF AuditFails
<1> QED BY <1>1, <1>2, <1>3, <1>4, <1>5, <1>6, <1>7, <1>8, <1>9, <1>10, <1>11 DEF CmdHook

\* normalVerdict is set once.
LEMMA NormalComes ==
  ASSUME HTypeOK, NEW p \in Hooks, HookOK(p), CmdHook(p)
  PROVE  \/ normal' = normal
         \/ /\ at[p] \in Early \ {"start"} /\ normal[p] = None /\ at'[p] = "relax"
            /\ normal' = [normal EXCEPT ![p] = normal'[p]] /\ v'[p] = normal'[p]
<1> USE DEF HTypeOK
<1>1. CASE FailClosed(p) \/ Load(p) \/ Relax(p) \/ Spend(p) \/ SpendNothing(p) \/ AskStore(p) \/ StoreStep(p)
  BY <1>1 DEF FailClosed, Load, Relax, Spend, SpendNothing, AskStore, StoreStep
<1>2. CASE AuditWrite(p) \/ AuditFails(p) \/ Emit(p) \/ Die(p)
  BY <1>2 DEF AuditWrite, AuditFails, Emit, Die
<1>3. ASSUME NEW lint \in {"pass", "fail"}, Daemon(p, lint) PROVE normal' = normal
  BY <1>3 DEF Daemon
<1>4. ASSUME NEW w, Judge(p, w), Go(p, "relax"), at[p] \in Early \ {"start"}
      PROVE  /\ normal[p] = None /\ at'[p] = "relax"
             /\ normal' = [normal EXCEPT ![p] = normal'[p]] /\ v'[p] = normal'[p]
  BY <1>4 DEF HookOK
<1>5. ASSUME NEW lint \in {"pass", "fail"}, Evaluate(p, lint)
      PROVE  \E w : Judge(p, w) /\ Go(p, "relax") /\ at[p] \in Early \ {"start"}
  BY <1>5 DEF Evaluate, Early
<1>6. CASE Transaction(p) \/ TransactionFails(p) \/ RecordPass(p)
  <2>1. \E w : Judge(p, w) /\ Go(p, "relax") /\ at[p] \in Early \ {"start"}
    BY <1>6 DEF Transaction, TransactionFails, RecordPass, Early
  <2> QED BY <1>4, <2>1
<1>7. CASE Fingerprint(p) \/ Check(p)
  <2>1. normal' = normal \/ \E w : Judge(p, w) /\ Go(p, "relax") /\ at[p] \in Early \ {"start"}
    BY <1>7 DEF Fingerprint, Check, Checks, Early
  <2> QED BY <1>4, <2>1
<1> QED BY <1>1, <1>2, <1>3, <1>4, <1>5, <1>6, <1>7 DEF CmdHook

----------------------------------------------------------------------------
(* The second leg                                                          *)

\* A call goes on unpaused only when its signals are stored and the other
\* signal was not there.
LEMMA Unpaused ==
  ASSUME HTypeOK, NEW p \in Hooks, HookOK(p), CmdHook(p), normal' # normal,
         call[p].event = "pre", normal'[p] = call[p].eval, call[p].eval.dec = "allow"
  PROVE  /\ call[p].sig \subseteq saw'
         /\ ~("private" \in call[p].sig /\ "net" \in saw)
         /\ ~("net" \in call[p].sig /\ "private" \in saw)
<1> USE DEF HTypeOK
<1>1. at[p] = "transaction"
  BY NormalComes DEF HookOK, Early
<1>2. Transaction(p) \/ TransactionFails(p)
  BY <1>1, NormalComes DEF CmdHook, FailClosed, Load, Evaluate, Daemon, Fingerprint, Check, Checks,
       RecordPass, Relax, Spend, SpendNothing, AskStore, StoreStep, AuditWrite, AuditFails, Emit, Die, own
<1>3. CASE Transaction(p)
  <2> DEFINE w == Trifecta(call[p].eval, call[p].sig)
  <2>1. saw' = saw \cup call[p].sig /\ (normal'[p] = w \/ \E k, h : normal'[p] = Approval(w, k, h).v)
    BY <1>3 DEF Transaction
  <2>2. call[p].eval.rule \notin Bought
    BY RulesAssumption DEF Calls
  <2>3. normal'[p] = w
    <3>1. \A k, h : Approval(w, k, h).v \in {w, Verdict("allow", Retried), Verdict("allow", ByHost)}
      BY DEF Approval
    <3>2. normal'[p].rule \notin {Retried, ByHost}
      BY <2>2 DEF Bought
    <3>3. \A rule : Verdict("allow", rule).rule = rule
      OBVIOUS
    <3> HIDE DEF w
    <3>4. normal'[p] \in {w, Verdict("allow", Retried), Verdict("allow", ByHost)}
      BY <2>1, <3>1
    <3> QED BY <3>2, <3>3, <3>4
  <2>4. w.dec = "allow"
    BY <2>3
  <2> QED BY <2>1, <2>4 DEF Trifecta
<1>4. CASE TransactionFails(p)
  <2>1. TrifectaBlind(call[p].eval, call[p].sig).dec = "allow"
    BY <1>4 DEF TransactionFails
  <2>2. call[p].sig = {}
    BY <2>1 DEF TrifectaBlind
  <2> QED BY <2>2
<1> QED BY <1>2, <1>3, <1>4

\* Every step keeps the signals and the pause.
LEMMA SignalStep ==
  ASSUME HTypeOK, \A p \in Hooks : HookOK(p), SignalsSeen, SecondLegPauses, [HNext]_hvars
  PROVE  SignalsSeen' /\ SecondLegPauses'
<1>1. CASE ~(\E p \in Hooks : CmdHook(p))
  BY <1>1, EnvironmentApart DEF SignalsSeen, SecondLegPauses
<1>2. ASSUME NEW p \in Hooks, CmdHook(p) PROVE SignalsSeen' /\ SecondLegPauses'
  <2>1. call' = call /\ \A q \in Hooks \ {p} : normal'[q] = normal[q]
    BY <1>2, HookAlone DEF Alone
  <2>2. saw \subseteq saw'
    BY <1>2 DEF CmdHook, FailClosed, Load, Evaluate, Daemon, Transaction, TransactionFails, Fingerprint,
       Check, RecordPass, Relax, Spend, SpendNothing, AskStore, StoreStep, AuditWrite, AuditFails, Emit, Die
  <2>3. SignalsSeen'
    BY <1>2, <2>1, <2>2, Unpaused DEF SignalsSeen
  <2>4. SecondLegPauses'
    <3> SUFFICES ASSUME NEW a \in Hooks, NEW b \in Hooks, a # b,
                        "private" \in call[a].sig, "net" \in call[b].sig,
                        \A q \in {a, b} : /\ call[q].event = "pre" /\ call[q].eval.dec = "allow"
                                          /\ normal'[q] = call[q].eval
                 PROVE  FALSE
      BY SMT, <2>1 DEF SecondLegPauses
    <3>1. CASE normal[a] = call[a].eval /\ normal[b] = call[b].eval
      BY <3>1 DEF SecondLegPauses
    <3>2. CASE normal[a] # call[a].eval
      <4>1. a = p /\ normal' # normal /\ normal[b] = call[b].eval
        BY <2>1, <3>2
      <4>2. "net" \in saw
        BY <4>1 DEF SignalsSeen
      <4> QED BY <1>2, <4>1, <4>2, Unpaused
    <3>3. CASE normal[b] # call[b].eval
      <4>1. b = p /\ normal' # normal /\ normal[a] = call[a].eval
        BY <2>1, <3>3
      <4>2. "private" \in saw
        BY <4>1 DEF SignalsSeen
      <4> QED BY <1>2, <4>1, <4>2, Unpaused
    <3> QED BY <3>1, <3>2, <3>3
  <2> QED BY <2>3, <2>4
<1> QED BY <1>1, <1>2

----------------------------------------------------------------------------
(* Announcements                                                           *)

ToldNext(plane, w) == \E q \in announce' : call'[q].plane = plane /\ nightSeen'[q] = w

\* What was told stays told.
LEMMA ToldStays ==
  ASSUME HTypeOK, AnnounceInv, NEW p \in Hooks, CmdHook(p)
  PROVE  \A plane, w : Told(plane, w) => ToldNext(plane, w)
<1>1. call' = call /\ announce \subseteq announce'
      /\ \A q \in Hooks \ {p} : nightSeen'[q] = nightSeen[q]
  BY HookAlone DEF Alone
<1>2. at[p] # "start" => nightSeen' = nightSeen
  BY DEF CmdHook, FailClosed, Load, Evaluate, Daemon, Transaction, TransactionFails, Fingerprint,
     Check, RecordPass, Relax, Spend, SpendNothing, AskStore, StoreStep, AuditWrite, AuditFails, Emit, Die
<1>3. \A q \in announce : nightSeen'[q] = nightSeen[q]
  BY <1>1, <1>2 DEF AnnounceInv, HTypeOK
<1> QED BY <1>1, <1>3 DEF Told, ToldNext

\* No step leads back to the start, and only a transaction announces.
LEMMA Onward ==
  ASSUME HTypeOK, NEW p \in Hooks, CmdHook(p)
  PROVE  /\ at'[p] # "start" /\ announce' \subseteq announce \cup {p}
         /\ announced' # announced => Transaction(p)
         /\ at[p] # "start" => nightSeen' = nightSeen
<1> USE DEF HTypeOK
<1>1. CASE FailClosed(p)
  BY <1>1 DEF FailClosed
<1>2. CASE Load(p)
  BY <1>2 DEF Load, Calls
<1>3. ASSUME NEW lint \in {"pass", "fail"}, Evaluate(p, lint) \/ Daemon(p, lint)
      PROVE  at'[p] # "start" /\ announce' = announce /\ announced' = announced
             /\ (at[p] # "start" => nightSeen' = nightSeen)
  BY <1>3 DEF Evaluate, Daemon
<1>4. CASE Transaction(p) \/ TransactionFails(p)
  BY <1>4 DEF Transaction, TransactionFails
<1>5. CASE Fingerprint(p) \/ Check(p) \/ RecordPass(p)
  BY <1>5 DEF Fingerprint, Check, RecordPass
<1>6. CASE Relax(p) \/ Spend(p) \/ SpendNothing(p)
  BY <1>6 DEF Relax, Spend, SpendNothing, AfterGrants
<1>7. CASE AskStore(p) \/ StoreStep(p)
  BY <1>7 DEF AskStore, StoreStep
<1>8. CASE AuditWrite(p) \/ AuditFails(p) \/ Emit(p) \/ Die(p)
  BY <1>8 DEF AuditWrite, AuditFails, Emit, Die
<1> QED BY <1>1, <1>2, <1>3, <1>4, <1>5, <1>6, <1>7, <1>8 DEF CmdHook

\* The transaction tells the plane, or finds it told.
LEMMA TransactionTells ==
  ASSUME HTypeOK, AnnounceInv, NEW p \in Hooks, Transaction(p) \/ TransactionFails(p), CmdHook(p)
  PROVE  /\ NeedsAnnouncement(p) => ToldNext(call[p].plane, nightSeen[p])
         /\ \A plane \in DOMAIN announced' : ToldNext(plane, announced'[plane])
<1>1. call' = call /\ nightSeen' = nightSeen
  BY DEF Transaction, TransactionFails
<1>2. \A plane, w : Told(plane, w) => ToldNext(plane, w)
  BY ToldStays
<1>3. p \in announce' => ToldNext(call[p].plane, nightSeen[p])
  BY <1>1 DEF ToldNext
<1>4. CASE TransactionFails(p)
  <2>1. announced' = announced /\ (NeedsAnnouncement(p) => p \in announce')
    BY <1>4 DEF TransactionFails
  <2> QED BY <1>2, <1>3, <2>1 DEF AnnounceInv
<1>5. CASE Transaction(p) /\ Unannounced(p)
  <2>1. p \in announce' /\ announced' = Put(announced, call[p].plane, nightSeen[p])
    BY <1>5 DEF Transaction
  <2>2. ASSUME NEW plane \in DOMAIN announced'
        PROVE  \/ plane \in DOMAIN announced /\ announced'[plane] = announced[plane]
               \/ plane = call[p].plane /\ announced'[plane] = nightSeen[p]
    BY <2>1, <2>2 DEF Put
  <2> QED BY <1>1, <1>2, <1>3, <2>1, <2>2 DEF AnnounceInv
<1>6. CASE Transaction(p) /\ ~Unannounced(p)
  <2>1. announced' = announced
    BY <1>6 DEF Transaction
  <2>2. NeedsAnnouncement(p) => Told(call[p].plane, nightSeen[p])
    BY <1>6 DEF Unannounced, AnnounceInv
  <2> QED BY <1>1, <1>2, <2>1, <2>2 DEF AnnounceInv
<1> QED BY <1>4, <1>5, <1>6

\* Before execution, the verdict to relax comes from the transaction.
LEMMA RelaxFrom ==
  ASSUME HTypeOK, NEW p \in Hooks, HookOK(p), CmdHook(p), call[p].event = "pre",
         at[p] # "relax", at'[p] = "relax"
  PROVE  Transaction(p) \/ TransactionFails(p)
<1> USE DEF HTypeOK
<1>1. CASE FailClosed(p) \/ Relax(p) \/ Spend(p) \/ SpendNothing(p) \/ AskStore(p) \/ StoreStep(p)
  BY <1>1 DEF FailClosed, Relax, Spend, SpendNothing, AfterGrants, AskStore, StoreStep
<1>2. CASE AuditWrite(p) \/ AuditFails(p) \/ Emit(p) \/ Die(p)
  BY <1>2 DEF AuditWrite, AuditFails, Emit, Die
<1>3. CASE Load(p)
  BY <1>3 DEF Load, Calls
<1>4. ASSUME NEW lint \in {"pass", "fail"}, Evaluate(p, lint) \/ Daemon(p, lint) PROVE FALSE
  BY <1>4 DEF Evaluate, Daemon, HookOK
<1>5. CASE Fingerprint(p) \/ Check(p) \/ RecordPass(p)
  BY <1>5 DEF Fingerprint, Check, Checks, RecordPass, HookOK, Early
<1> QED BY <1>1, <1>2, <1>3, <1>4, <1>5 DEF CmdHook

\* Every step keeps the announcements.
LEMMA AnnounceStep ==
  ASSUME HTypeOK, \A p \in Hooks : HookOK(p), AnnounceInv, [HNext]_hvars
  PROVE  AnnounceInv'
<1>1. CASE ~(\E p \in Hooks : CmdHook(p))
  <2>1. UNCHANGED <<call, at, v, nightSeen, announce, announced>>
    BY <1>1, EnvironmentApart
  <2> QED BY <2>1 DEF AnnounceInv, Told, NeedsAnnouncement
<1>2. ASSUME NEW p \in Hooks, CmdHook(p) PROVE AnnounceInv'
  <2>0. /\ call' = call /\ announce \subseteq announce' /\ HookOK(p)
        /\ \A q \in Hooks \ {p} : at'[q] = at[q] /\ v'[q] = v[q] /\ nightSeen'[q] = nightSeen[q]
    BY <1>2, HookAlone DEF Alone
  <2>1. (\A q \in announce : at[q] # "start")'
    BY <1>2, <2>0, Onward DEF AnnounceInv, HTypeOK
  <2>2. \A plane \in DOMAIN announced' : ToldNext(plane, announced'[plane])
    <3>1. CASE Transaction(p)
      BY <1>2, <3>1, TransactionTells
    <3>2. CASE ~Transaction(p)
      BY <1>2, <3>2, Onward, ToldStays DEF AnnounceInv
    <3> QED BY <3>1, <3>2
  <2>3. v'[p].rule = Night => v[p].rule = Night \/ (at[p] = "relax" /\ nightSeen[p] # 0)
    <3>1. normal[p].rule # Night
      BY <2>0 DEF HookOK, Relaxed
    <3>2. Verdict("allow", Grant).rule # Night /\ Verdict("allow", "skipped").rule # Night
      BY DEF Grant, Night
    <3> QED BY <1>2, <2>0, <3>1, <3>2, VerdictComes DEF Relax
  <2>4. (\A q \in Hooks : v[q].rule = Night => nightSeen[q] # 0 /\ at[q] # "start")'
    BY <1>2, <2>0, <2>3, Onward DEF AnnounceInv
  <2>5. ASSUME NEW q \in Hooks, call[q].event = "pre", at'[q] = "relax" \/ v'[q].rule = Night,
               nightSeen'[q] # 0, call[q].plane # "claude"
        PROVE  ToldNext(call[q].plane, nightSeen'[q])
    <3>1. CASE (at[q] = "relax" \/ v[q].rule = Night) /\ nightSeen'[q] = nightSeen[q]
      BY <1>2, <2>5, <3>1, ToldStays DEF AnnounceInv, NeedsAnnouncement
    <3>2. CASE q = p /\ at[p] # "relax" /\ v[p].rule # Night
      <4>1. at'[p] = "relax" /\ call[p].event = "pre"
        BY <2>3, <2>5, <3>2
      <4>2. Transaction(p) \/ TransactionFails(p)
        BY <1>2, <2>0, <3>2, <4>1, RelaxFrom
      <4>3. nightSeen' = nightSeen
        BY <4>2 DEF Transaction, TransactionFails
      <4> QED BY <1>2, <2>5, <3>2, <4>2, <4>3, TransactionTells DEF NeedsAnnouncement
    <3>3. q # p => nightSeen'[q] = nightSeen[q] /\ at'[q] = at[q] /\ v'[q] = v[q]
      BY <2>0
    <3>4. q = p /\ (at[p] = "relax" \/ v[p].rule = Night) => nightSeen'[q] = nightSeen[q]
      BY <1>2, Onward DEF AnnounceInv
    <3> QED BY <2>5, <3>1, <3>2, <3>3, <3>4
  <2> QED BY <2>0, <2>1, <2>2, <2>4, <2>5 DEF AnnounceInv, Told, ToldNext, NeedsAnnouncement
<1> QED BY <1>1, <1>2

----------------------------------------------------------------------------
(* Skipped checks                                                          *)

\* The labels of a check follow its commands, and the record of a pass is the
\* fingerprint taken before them.
LEMMA CheckMoves ==
  ASSUME HTypeOK, NEW p \in Hooks, CmdHook(p)
  PROVE  /\ content' = content /\ doubtful \subseteq doubtful'
         /\ finger' # finger => Fingerprint(p)
         /\ passed' # passed => at[p] = "recordPass" /\ passed' = finger[p] /\ finger[p] # -1
         /\ at'[p] = "check" => finger'[p] \in {content, -1}
         /\ at'[p] = "check2" => /\ at[p] = "check" /\ finger' = finger
                                 /\ content \in Passing[1] \/ finger[p] \in doubtful'
         /\ at'[p] = "recordPass" => /\ at[p] = "check2" /\ finger' = finger
                                     /\ content \in Passing[2] \/ finger[p] \in doubtful'
<1> USE DEF HTypeOK
<1>1. CASE FailClosed(p)
  BY <1>1 DEF FailClosed
<1>2. CASE Load(p)
  BY <1>2 DEF Load, Calls
<1>3. ASSUME NEW lint \in {"pass", "fail"}, Evaluate(p, lint) \/ Daemon(p, lint)
      PROVE  at'[p] \notin {"check", "check2", "recordPass"} /\ UNCHANGED <<files, finger>>
  BY <1>3 DEF Evaluate, Daemon
<1>4. CASE Transaction(p) \/ TransactionFails(p)
  BY <1>4 DEF Transaction, TransactionFails
<1>5. CASE Fingerprint(p)
  <2>1. UNCHANGED files
    BY <1>5 DEF Fingerprint
  <2>2. at'[p] \in {"relax", "check"} /\ finger'[p] \in {content, -1}
    BY SMT, <1>5 DEF Fingerprint
  <2> QED BY <1>5, <2>1, <2>2
<1>6. CASE Check(p)
  <2>1. UNCHANGED <<content, finger, passed>> /\ doubtful \subseteq doubtful'
    BY <1>6 DEF Check
  <2>2. CASE at[p] = "check"
    BY <1>6, <2>1, <2>2 DEF Check
  <2>3. CASE at[p] = "check2"
    <3>1. \/ at'[p] = "recordPass" /\ (content \in Passing[2] \/ finger[p] \in doubtful')
          \/ at'[p] = "relax"
      <4>1. at[p] # "check" /\ 2 # 1
        BY SMT, <2>3
      <4> QED BY <1>6, <4>1 DEF Check
    <3> QED BY <2>1, <2>3, <3>1
  <2> QED BY <1>6, <2>2, <2>3 DEF Check, Checks
<1>7. CASE RecordPass(p)
  BY <1>7 DEF RecordPass
<1>8. CASE Relax(p) \/ Spend(p) \/ SpendNothing(p)
  BY <1>8 DEF Relax, Spend, SpendNothing, AfterGrants
<1>9. CASE AskStore(p) \/ StoreStep(p)
  BY <1>9 DEF AskStore, StoreStep
<1>10. CASE AuditWrite(p) \/ AuditFails(p) \/ Emit(p) \/ Die(p)
  BY <1>10 DEF AuditWrite, AuditFails, Emit, Die
<1> QED BY <1>1, <1>2, <1>3, <1>4, <1>5, <1>6, <1>7, <1>8, <1>9, <1>10 DEF CmdHook

\* Every step keeps what skipping relies on.
LEMMA SkipStep ==
  ASSUME HTypeOK, \A p \in Hooks : HookOK(p), SkipInv, [HNext]_hvars
  PROVE  SkipInv'
<1>1. CASE Edit
  <2>1. /\ UNCHANGED <<at, own, passed>> /\ doubtful \subseteq doubtful'
        /\ \A p \in Hooks : at[p] \in Checks => finger[p] \in doubtful'
    BY <1>1 DEF Edit
  <2>2. "recordPass" \notin Checks
    BY DEF Checks
  <2> QED BY <2>1, <2>2 DEF SkipInv, Vouched, Checks
<1>2. CASE ~Edit /\ ~(\E p \in Hooks : CmdHook(p))
  <2>1. UNCHANGED files
    BY <1>2 DEF HNext, SetNight, AskLapses, Operator, hvars
  <2> QED BY <1>2, <2>1, EnvironmentApart DEF SkipInv, Vouched
<1>3. ASSUME NEW p \in Hooks, CmdHook(p) PROVE SkipInv'
  <2>0. HookOK(p) /\ content' = content /\ doubtful \subseteq doubtful'
    BY <1>3, CheckMoves
  <2>1. passed' # -1 => Vouched(passed)'
    BY <1>3, <2>0, CheckMoves DEF SkipInv, Vouched
  <2>2. \A q \in Hooks \ {p} :
           at'[q] = at[q] /\ v'[q] = v[q] /\ normal'[q] = normal[q] /\ finger'[q] = finger[q]
    BY <1>3, HookAlone DEF Alone
  <2>3. ASSUME finger'[p] \notin doubtful' \cup {-1}
        PROVE  /\ at'[p] \in Checks => content = finger'[p]
               /\ at'[p] = "check2" => finger'[p] \in Passing[1]
               /\ at'[p] = "recordPass" => Vouched(finger[p])'
    <3>1. CASE at'[p] = "check"
      BY <1>3, <2>3, <3>1, CheckMoves
    <3>2. CASE at'[p] = "check2"
      <4>1. /\ at[p] = "check" /\ finger' = finger
            /\ content \in Passing[1] \/ finger[p] \in doubtful'
        BY <1>3, <3>2, CheckMoves
      <4>2. finger[p] \notin doubtful' \cup {-1}
        BY <2>3, <4>1
      <4>3. content = finger[p]
        BY <2>0, <4>1, <4>2 DEF SkipInv, Checks
      <4> QED BY <3>2, <4>1, <4>2, <4>3
    <3>3. CASE at'[p] = "recordPass"
      <4>1. /\ at[p] = "check2" /\ finger' = finger
            /\ content \in Passing[2] \/ finger[p] \in doubtful'
        BY <1>3, <3>3, CheckMoves
      <4>2. finger[p] \notin doubtful' \cup {-1}
        BY <2>3, <4>1
      <4>3. content = finger[p] /\ finger[p] \in Passing[1]
        BY <2>0, <4>1, <4>2 DEF SkipInv, Checks
      <4> QED BY <3>3, <4>1, <4>2, <4>3 DEF Vouched, Checks
    <3> QED BY <3>1, <3>2, <3>3 DEF Checks
  <2>4. ASSUME "skipped" \in {v'[p].rule, normal'[p].rule}
        PROVE  Vouched(finger[p])'
    <3>1. CASE v'[p] = Verdict("allow", "skipped") /\ finger'[p] = passed /\ passed # -1
      BY <2>0, <3>1 DEF SkipInv, Vouched
    <3>2. CASE "skipped" \in {v[p].rule, normal[p].rule}
      <4>1. ~Fingerprint(p)
        <5>1. Fingerprint(p) => at[p] = "fingerprint"
          BY DEF Fingerprint
        <5>2. at[p] = "fingerprint" => v[p] = None /\ normal[p] = None
          BY <2>0 DEF HookOK, Early
        <5>3. None.rule # "skipped"
          BY DEF None
        <5> QED BY <3>2, <5>1, <5>2, <5>3
      <4> QED BY <1>3, <2>0, <3>2, <4>1, CheckMoves DEF SkipInv, Vouched
    <3>3. normal'[p] = normal[p] \/ normal'[p] = v'[p]
      BY <1>3, <2>0, NormalComes
    <3>4. Verdict("allow", Night).rule # "skipped" /\ Verdict("allow", Grant).rule # "skipped"
      BY DEF Night, Grant
    <3> QED BY <1>3, <2>0, <2>4, <3>1, <3>2, <3>3, <3>4, VerdictComes
  <2>5. ASSUME NEW q \in Hooks, q # p
        PROVE  /\ finger'[q] \notin doubtful' \cup {-1} =>
                     /\ at'[q] \in Checks => content' = finger'[q]
                     /\ at'[q] = "check2" => finger'[q] \in Passing[1]
                     /\ at'[q] = "recordPass" => Vouched(finger[q])'
               /\ "skipped" \in {v'[q].rule, normal'[q].rule} => Vouched(finger[q])'
    BY <2>0, <2>2, <2>5 DEF SkipInv, Vouched
  <2> QED BY <2>0, <2>1, <2>3, <2>4, <2>5 DEF SkipInv
<1> QED BY <1>1, <1>2, <1>3

----------------------------------------------------------------------------
(* Uses of the command grant                                               *)

\* One more element is at most one more.
LEMMA OneMore ==
  ASSUME NEW S, IsFiniteSet(S), NEW x
  PROVE  /\ IsFiniteSet(S \cup {x}) /\ Cardinality(S \cup {x}) \in Nat
         /\ Cardinality(S \cup {x}) <= Cardinality(S) + 1
<1>1. Cardinality(S) \in Nat
  BY FS_CardinalityType
<1>2. /\ IsFiniteSet(S \cup {x})
      /\ Cardinality(S \cup {x}) = IF x \in S THEN Cardinality(S) ELSE Cardinality(S) + 1
  BY FS_AddElement
<1> QED BY SMT, <1>1, <1>2

\* The account of the uses, when one is spent and when none is.
LEMMA OneSpent ==
  ASSUME NEW all \in Nat, NEW left \in Nat, NEW n \in Nat, NEW m \in Nat, NEW k \in Nat,
         n <= all - left, m <= n + 1, k <= m
  PROVE  k <= all - (left - 1)
BY SMT

LEMMA NoneSpent ==
  ASSUME NEW all \in Nat, NEW left \in Nat, NEW n \in Nat, NEW k \in Nat, n <= all - left, k <= n
  PROVE  k <= all - left
BY SMT

\* Every step keeps the uses paid.
LEMMA PaidStep ==
  ASSUME HTypeOK, \A p \in Hooks : HookOK(p), UsesArePaid, [HNext]_hvars
  PROVE  UsesArePaid'
<1> DEFINE S == {q \in Hooks : v[q].rule = Grant /\ call[q].plane # "codex"}
<1>0. IsFiniteSet(S) /\ Cardinality(S) \in Nat /\ Cardinality(S) <= CommandUses - uses
  BY BoundsAssumption, FS_Subset, FS_CardinalityType DEF UsesArePaid
<1>1. CASE ~(\E p \in Hooks : CmdHook(p))
  <2>1. S' = S /\ uses' = uses
    BY <1>1, EnvironmentApart
  <2> QED BY <1>0, <2>1 DEF UsesArePaid
<1>2. ASSUME NEW p \in Hooks, CmdHook(p) PROVE UsesArePaid'
  <2>0. call' = call /\ HookOK(p) /\ \A q \in Hooks \ {p} : v'[q] = v[q]
    BY <1>2, HookAlone DEF Alone
  <2>1. CASE Spend(p)
    <3>1. S' \subseteq S \cup {p} /\ uses' = uses - 1 /\ uses \in Nat
      BY SMT, <2>0, <2>1, BoundsAssumption DEF Spend, HTypeOK
    <3>2. /\ IsFiniteSet(S \cup {p}) /\ Cardinality(S \cup {p}) \in Nat
          /\ Cardinality(S \cup {p}) <= Cardinality(S) + 1
      BY <1>0, OneMore
    <3>3. Cardinality(S') <= Cardinality(S \cup {p}) /\ Cardinality(S') \in Nat
      BY <3>1, <3>2, FS_Subset, FS_CardinalityType
    <3>5. Cardinality(S') <= CommandUses - uses'
      BY <1>0, <3>1, <3>2, <3>3, BoundsAssumption, OneSpent
    <3> QED BY <3>5 DEF UsesArePaid
  <2>2. CASE ~Spend(p)
    <3>1. uses' = uses
      BY <1>2, <2>2 DEF CmdHook, FailClosed, Load, Evaluate, Daemon, Transaction, TransactionFails,
         Fingerprint, Check, RecordPass, Relax, SpendNothing, AskStore, StoreStep, AuditWrite,
         AuditFails, Emit, Die
    <3>2. v'[p].rule = Grant /\ call[p].plane # "codex" => v[p].rule = Grant
      <4>1. normal[p].rule # Grant /\ Verdict("allow", Night).rule # Grant
            /\ Verdict("allow", "skipped").rule # Grant
        BY <2>0 DEF HookOK, Relaxed, Night, Grant
      <4> QED BY <1>2, <2>0, <2>2, <4>1, VerdictComes
    <3>3. S' \subseteq S
      BY <2>0, <3>2
    <3>4. Cardinality(S') <= Cardinality(S) /\ Cardinality(S') \in Nat
      BY <1>0, <3>3, FS_Subset, FS_CardinalityType
    <3>5. Cardinality(S') <= CommandUses - uses'
      <4>1. uses \in Nat
        BY SMT, BoundsAssumption DEF HTypeOK
      <4> QED BY <1>0, <3>1, <3>4, <4>1, BoundsAssumption, NoneSpent
    <3> QED BY <3>5 DEF UsesArePaid
  <2> QED BY <2>1, <2>2
<1> QED BY <1>1, <1>2

----------------------------------------------------------------------------
(* Retries                                                                 *)

\* What the transaction of a hook does to the asks of a key.
LEMMA TransactionAnswers ==
  ASSUME HTypeOK, NEW p \in Hooks, HookOK(p), Transaction(p), NEW k \in Digests
  PROVE  /\ p \notin Mine(k) => (k \in DOMAIN pending' <=> k \in DOMAIN pending)
         /\ p \in Mine(k) =>
              \/ /\ normal'[p].rule # Retried
                 /\ k \in DOMAIN pending' => k \in DOMAIN pending \/ normal'[p].dec = "ask"
              \/ /\ normal'[p] = Verdict("allow", Retried)
                 /\ k \in DOMAIN pending /\ k \notin DOMAIN pending'
<1> USE DEF HTypeOK
<1> DEFINE c == call[p]
           w == Trifecta(c.eval, c.sig)
<1>0. w.rule # Retried /\ ByHost # Retried
  BY EngineRules DEF Bought, Retried, ByHost
<1>1. CASE ~(c.plane = "opencode" /\ nightSeen[p] = 0)
  <2>1. normal'[p] = w /\ pending' = pending
    BY <1>1 DEF Transaction
  <2> QED BY <1>0, <2>1
<1>2. CASE c.plane = "opencode" /\ nightSeen[p] = 0
  <2>1. normal'[p] = Approval(w, c.key, c.host).v /\ pending' = Approval(w, c.key, c.host).pending
    BY <1>2 DEF Transaction
  <2>2. p \in Mine(k) <=> c.key = k
    BY <1>2 DEF Mine
  <2> HIDE DEF w, c
  <2>3. ASSUME NEW j, NEW h, NEW i, i # j
        PROVE  i \in DOMAIN Approval(w, j, h).pending <=> i \in DOMAIN pending
    BY <2>3 DEF Approval, Put, Without
  <2>7. ASSUME NEW j, NEW h
        PROVE  \/ /\ Approval(w, j, h).v = w
                  /\ j \in DOMAIN Approval(w, j, h).pending => j \in DOMAIN pending \/ w.dec = "ask"
               \/ /\ Approval(w, j, h).v = Verdict("allow", ByHost)
                  /\ Approval(w, j, h).pending = Without(j)
               \/ /\ Approval(w, j, h).v = Verdict("allow", Retried)
                  /\ Approval(w, j, h).pending = Without(j) /\ j \in DOMAIN pending
    BY DEF Approval, Put, Without
  <2>4. \A j : j \notin DOMAIN Without(j)
    BY DEF Without
  <2>5. CASE p \notin Mine(k)
    BY <2>1, <2>2, <2>3, <2>5
  <2>6. CASE p \in Mine(k)
    <3>1. \/ normal'[p] = w /\ (k \in DOMAIN pending' => k \in DOMAIN pending \/ w.dec = "ask")
          \/ normal'[p] = Verdict("allow", ByHost) /\ pending' = Without(k)
          \/ normal'[p] = Verdict("allow", Retried) /\ pending' = Without(k) /\ k \in DOMAIN pending
      <4>1. c.key = k
        BY <2>2, <2>6
      <4> QED BY <2>1, <2>7, <4>1
    <3>2. Verdict("allow", ByHost).rule # Retried
      BY <1>0
    <3> QED BY <1>0, <2>4, <2>6, <3>1, <3>2
  <2> QED BY <2>5, <2>6
<1> QED BY <1>1, <1>2

\* What the other steps of a hook do to them.
LEMMA OthersAnswer ==
  ASSUME HTypeOK, NEW p \in Hooks, HookOK(p), CmdHook(p), ~Transaction(p)
  PROVE  pending' = pending /\ (normal' = normal \/ normal'[p].rule # Retried)
<1> USE DEF HTypeOK
<1>1. CASE FailClosed(p) \/ Load(p) \/ Relax(p) \/ Spend(p) \/ SpendNothing(p)
  BY <1>1 DEF FailClosed, Load, Relax, Spend, SpendNothing
<1>2. ASSUME NEW lint \in {"pass", "fail"}, Evaluate(p, lint) \/ Daemon(p, lint)
      PROVE  pending' = pending /\ (normal' = normal \/ normal'[p].rule # Retried)
  <2>1. pending' = pending /\ (normal' = normal \/ normal'[p] = Judged(p, lint))
    BY <1>2 DEF Evaluate, Daemon
  <2> QED BY <2>1, EngineRules DEF Bought
<1>3. CASE TransactionFails(p)
  BY <1>3, EngineRules DEF TransactionFails, Bought
<1>4. CASE Fingerprint(p) \/ Check(p) \/ RecordPass(p)
  <2> DEFINE recipe == {Verdict("deny", "P8.recipe-lint"), Verdict("allow", "P8.recipe-lint"),
                      Verdict("allow", "skipped")}
  <2>1. pending' = pending /\ (normal' = normal \/ normal'[p] \in recipe)
    <3>1. CASE Fingerprint(p)
      <4>1. /\ pending' = pending
            /\ normal' = normal \/ normal' = [normal EXCEPT ![p] = Verdict("allow", "skipped")]
        BY <3>1 DEF Fingerprint
      <4> QED BY <4>1
    <3>2. CASE Check(p)
      BY <3>2 DEF Check
    <3>3. CASE RecordPass(p)
      BY <3>3 DEF RecordPass
    <3> QED BY <1>4, <3>1, <3>2, <3>3
  <2>2. \A w \in recipe : w.rule # Retried
    BY SMT DEF Retried
  <2> HIDE DEF recipe
  <2> QED BY <2>1, <2>2
<1>5. CASE AskStore(p) \/ StoreStep(p)
  BY <1>5 DEF AskStore, StoreStep
<1>6. CASE AuditWrite(p) \/ AuditFails(p) \/ Emit(p) \/ Die(p)
  BY <1>6 DEF AuditWrite, AuditFails, Emit, Die
<1> QED BY <1>1, <1>2, <1>3, <1>4, <1>5, <1>6 DEF CmdHook

\* Retries, waiting ask and asks of a key, before and after.
LEMMA TallyKept ==
  ASSUME NEW r \in Nat, NEW w \in 0..1, NEW a \in Nat, NEW rr \in Nat, NEW ww \in 0..1, NEW aa \in Nat,
         r + w <= a, rr <= r, ww <= w, a <= aa
  PROVE  rr + ww <= aa
BY SMT

LEMMA TallyAsked ==
  ASSUME NEW r \in Nat, NEW w \in 0..1, NEW a \in Nat, NEW rr \in Nat, NEW ww \in 0..1, NEW aa \in Nat,
         r + w <= a, rr <= r, a + 1 <= aa
  PROVE  rr + ww <= aa
BY SMT

LEMMA TallyRetried ==
  ASSUME NEW r \in Nat, NEW w \in 0..1, NEW a \in Nat, NEW rr \in Nat, NEW ww \in 0..1, NEW aa \in Nat,
         r + w <= a, rr <= r + 1, w = 1, ww = 0, a <= aa
  PROVE  rr + ww <= aa
BY SMT

\* At most one ask of a key waits.
LEMMA WaitingOne == \A k : Waiting(k) \in 0..1 /\ Waiting(k)' \in 0..1
BY SMT DEF Waiting

\* Every step keeps a pending ask unanswered.
LEMMA AnswersStep ==
  ASSUME HTypeOK, \A p \in Hooks : HookOK(p), Answers, [HNext]_hvars
  PROVE  Answers'
<1> SUFFICES ASSUME NEW k \in Digests
             PROVE  (Cardinality(Retries(k)) + Waiting(k) <= Cardinality(Asks(k)))'
  BY DEF Answers
<1>0. /\ IsFiniteSet(Retries(k)) /\ IsFiniteSet(Asks(k))
      /\ Cardinality(Retries(k)) \in Nat /\ Cardinality(Asks(k)) \in Nat
      /\ Cardinality(Retries(k)) + Waiting(k) <= Cardinality(Asks(k))
  BY BoundsAssumption, FS_Subset, FS_CardinalityType DEF Retries, Asks, Mine, Answers
<1>3. Waiting(k) \in 0..1 /\ Waiting(k)' \in 0..1
  BY WaitingOne
<1>1. CASE ~(\E p \in Hooks : CmdHook(p))
  <2>1. call' = call /\ normal' = normal
    BY <1>1, EnvironmentApart
  <2>2. k \in DOMAIN pending' => k \in DOMAIN pending
    BY <1>1 DEF HNext, SetNight, AskLapses, Edit, Operator, hvars, Without
  <2>3. Retries(k)' = Retries(k) /\ Asks(k)' = Asks(k)
    BY <2>1 DEF Retries, Asks, Mine
  <2>4. Waiting(k)' <= Waiting(k)
    BY SMT, <2>2 DEF Waiting
  <2> QED BY SMT, <1>0, <1>3, <2>3, <2>4, TallyKept
<1>2. ASSUME NEW p \in Hooks, CmdHook(p)
      PROVE  (Cardinality(Retries(k)) + Waiting(k) <= Cardinality(Asks(k)))'
  <2>0. call' = call /\ HookOK(p) /\ \A q \in Hooks \ {p} : normal'[q] = normal[q]
    BY <1>2, HookAlone DEF Alone
  <2>1. Mine(k)' = Mine(k)
    BY <2>0 DEF Mine
  <2>2. normal' = normal \/ normal[p] = None
    BY <1>2, <2>0, NormalComes
  <2>14. None.dec # "ask"
    BY DEF None
  <2>3. p \notin Asks(k) \/ normal' = normal
    BY <2>2, <2>14 DEF Asks
  <2>4. Asks(k) \subseteq Asks(k)'
    BY <2>0, <2>1, <2>3 DEF Asks, Mine
  <2>5. Retries(k)' \subseteq Retries(k) \cup {p}
    BY <2>0, <2>1 DEF Retries, Mine
  <2>6. p \notin Mine(k) \/ normal' = normal \/ normal'[p].rule # Retried => Retries(k)' \subseteq Retries(k)
    BY <2>0, <2>1 DEF Retries, Mine
  <2>7. /\ IsFiniteSet(Asks(k)') /\ Cardinality(Asks(k)') \in Nat
        /\ Cardinality(Asks(k)) <= Cardinality(Asks(k)')
    <3>1. Asks(k)' \subseteq Hooks
      BY <2>1 DEF Asks, Mine
    <3>2. IsFiniteSet(Asks(k)')
      BY <3>1, BoundsAssumption, FS_Subset
    <3> QED BY <2>4, <3>2, FS_Subset, FS_CardinalityType
  <2>8. CASE Retries(k)' \subseteq Retries(k) /\ (k \in DOMAIN pending' => k \in DOMAIN pending)
    <3>1. Cardinality(Retries(k)') <= Cardinality(Retries(k)) /\ Cardinality(Retries(k)') \in Nat
      BY <1>0, <2>8, FS_Subset, FS_CardinalityType
    <3>2. Waiting(k)' <= Waiting(k)
      BY SMT, <2>8 DEF Waiting
    <3> QED BY <1>0, <1>3, <2>7, <3>1, <3>2, TallyKept
  <2>9. CASE Retries(k)' \subseteq Retries(k) /\ p \in Asks(k)' /\ p \notin Asks(k)
    <3>1. Cardinality(Retries(k)') <= Cardinality(Retries(k)) /\ Cardinality(Retries(k)') \in Nat
      BY <1>0, <2>9, FS_Subset, FS_CardinalityType
    <3>2. Cardinality(Asks(k) \cup {p}) = Cardinality(Asks(k)) + 1
      BY <1>0, <2>9, FS_AddElement
    <3>3. Cardinality(Asks(k) \cup {p}) <= Cardinality(Asks(k)')
      BY <2>4, <2>7, <2>9, FS_Subset
    <3>4. Cardinality(Asks(k)) + 1 <= Cardinality(Asks(k)')
      BY <3>2, <3>3
    <3> QED BY <1>0, <1>3, <2>7, <3>1, <3>4, TallyAsked
  <2>10. CASE k \in DOMAIN pending /\ k \notin DOMAIN pending'
    <3>1. IsFiniteSet(Retries(k) \cup {p}) /\ Cardinality(Retries(k) \cup {p}) <= Cardinality(Retries(k)) + 1
          /\ Cardinality(Retries(k) \cup {p}) \in Nat
      BY <1>0, OneMore
    <3>2. Cardinality(Retries(k)') <= Cardinality(Retries(k) \cup {p}) /\ Cardinality(Retries(k)') \in Nat
      BY <2>5, <3>1, FS_Subset, FS_CardinalityType
    <3>3. Cardinality(Retries(k)') <= Cardinality(Retries(k)) + 1
      BY SMT, <1>0, <3>1, <3>2
    <3>4. Waiting(k) = 1 /\ Waiting(k)' = 0
      BY <2>10 DEF Waiting
    <3> QED BY <1>0, <1>3, <2>7, <3>2, <3>3, <3>4, TallyRetried
  <2>11. CASE ~Transaction(p)
    BY <1>2, <2>0, <2>6, <2>8, <2>11, OthersAnswer
  <2>12. CASE Transaction(p) /\ p \notin Mine(k)
    BY <2>0, <2>6, <2>8, <2>12, TransactionAnswers
  <2>13. CASE Transaction(p) /\ p \in Mine(k)
    <3>0. normal[p] = None
      BY <2>0, <2>13 DEF Transaction, HookOK, Early
    <3>1. p \notin Asks(k)
      BY <2>14, <3>0 DEF Asks
    <3>2. normal'[p].dec = "ask" => p \in Asks(k)'
      BY <2>1, <2>13 DEF Asks
    <3> QED BY <2>0, <2>6, <2>8, <2>9, <2>10, <2>13, <3>1, <3>2, TransactionAnswers
  <2> QED BY <2>11, <2>12, <2>13
<1> QED BY <1>1, <1>2

----------------------------------------------------------------------------
(* Results                                                                 *)

\* The first state satisfies the invariant.
LEMMA HookInit == HInit => HookInv
<1> SUFFICES ASSUME HInit PROVE HookInv
  OBVIOUS
<1>1. HTypeOK /\ GrantInv
  BY HTypeInit, GrantInit DEF HInit
<1>2. /\ \A p \in Hooks : /\ at[p] = "start" /\ v[p] = None /\ normal[p] = None /\ shown[p] = "nothing"
                          /\ finger[p] = -1
      /\ announce = {} /\ DOMAIN announced = {} /\ DOMAIN pending = {}
      /\ uses = CommandUses /\ content = 0 /\ passed = -1
  BY SMT DEF HInit
<1>3. None.rule \notin {Night, Grant, Retried, "skipped"} /\ None.dec = "none"
  BY DEF None, Night, Grant, Retried
<1>4. \A p \in Hooks : HookOK(p)
  BY <1>2, <1>3 DEF HookOK, Early, Sound, Relaxed
<1>5. SignalsSeen /\ SecondLegPauses
  <2>1. \A p \in Hooks : call[p].eval.dec = "allow" => normal[p] # call[p].eval
    BY <1>2, <1>3
  <2> QED BY <2>1 DEF SignalsSeen, SecondLegPauses
<1>6. AnnounceInv
  BY <1>2, <1>3 DEF AnnounceInv
<1>7. SkipInv
  BY SMT, <1>2, <1>3 DEF SkipInv
<1>8. UsesArePaid
  <2>1. {p \in Hooks : v[p].rule = Grant /\ call[p].plane # "codex"} = {}
    BY <1>2, <1>3
  <2>2. Cardinality({}) = 0
    BY FS_EmptySet
  <2>3. CommandUses - uses = 0
    BY SMT, <1>2, BoundsAssumption
  <2>4. UsesArePaid <=> Cardinality({}) <= CommandUses - uses
    BY <2>1 DEF UsesArePaid
  <2> QED BY SMT, <2>2, <2>3, <2>4
<1>9. Answers
  <2>1. \A k \in Digests : Retries(k) = {} /\ Asks(k) = {}
    BY <1>2, <1>3 DEF Retries, Asks, Mine
  <2>2. Cardinality({}) = 0
    BY FS_EmptySet
  <2>3. ASSUME NEW k \in Digests
        PROVE  Cardinality(Retries(k)) + Waiting(k) <= Cardinality(Asks(k))
    <3>1. Cardinality(Retries(k)) = 0 /\ Cardinality(Asks(k)) = 0
      BY <2>1, <2>2
    <3>2. Waiting(k) = 0
      BY <1>2 DEF Waiting
    <3> QED BY SMT, <3>1, <3>2
  <2> QED BY <2>3 DEF Answers
<1> QED BY <1>1, <1>4, <1>5, <1>6, <1>7, <1>8, <1>9 DEF HookInv

\* Every step keeps it.
LEMMA HookInvStep == HookInv /\ [HNext]_hvars => HookInv'
<1> SUFFICES ASSUME HookInv, [HNext]_hvars PROVE HookInv'
  OBVIOUS
<1> USE DEF HookInv
<1>1. [Next]_vars
  BY StepUsesStore
<1>2. GrantInv' /\ TypeOK'
  BY <1>1, GrantStep DEF GrantInv
<1>3. HTypeOK'
  BY <1>2, HTypeStep
<1> QED BY <1>2, <1>3, HooksStep, SignalStep, AnnounceStep, SkipStep, PaidStep, AnswersStep

\* For any number of concurrent hooks, any calls, windows, uses and versions,
\* hooks dying anywhere and any session transaction, audit or store failing.
THEOREM HookInvAlways == HSpec => []HookInv
BY HookInit, HookInvStep, PTL DEF HSpec

\* What the hooks and the operator do to the exact-action store is what the
\* store's own specification allows, so its theorems hold in the pipeline.
THEOREM PipelineUsesStore == HSpec => Spec
<1>1. HookInv /\ [HNext]_hvars => [Next]_vars
  BY StepUsesStore DEF HookInv
<1>2. HInit => Init
  BY DEF HInit
<1> QED BY <1>1, <1>2, HookInvAlways, PTL DEF HSpec, Spec

\* A record of the store buys one call, of the confirmed action.
THEOREM PipelineUsesGrantsOnce == HSpec => []OneConfirmedUse
BY PipelineUsesStore, GrantsUsedOnce, PTL

\* No relaxed call proceeds without its audit record (cmdHook, audit.Write).
THEOREM RelaxedAlwaysRecorded == HSpec => []RelaxedIsRecorded
<1>1. HookInv => RelaxedIsRecorded
  BY DEF HookInv, HookOK, RelaxedIsRecorded, Relaxed
<1> QED BY <1>1, HookInvAlways, PTL

\* A deny stands wherever the host hears the verdict, and an Ask nothing may
\* relax is only answered by a person.
THEOREM DenyAlwaysStands == HSpec => []DenyStands
<1>1. HookInv => DenyStands
  BY DEF HookInv, HookOK, DenyStands, Sound
<1> QED BY <1>1, HookInvAlways, PTL

\* The second leg of private data and network pauses (ApplyTrifecta).
THEOREM SecondLegAlwaysPauses == HSpec => []SecondLegPauses
<1>1. HookInv => SecondLegPauses
  BY DEF HookInv
<1> QED BY <1>1, HookInvAlways, PTL

\* No more calls proceed by the command grant than uses were paid.
THEOREM HooksPayForUses == HSpec => []UsesArePaid
<1>1. HookInv => UsesArePaid
  BY DEF HookInv
<1> QED BY <1>1, HookInvAlways, PTL

\* Every retry that is allowed answers an ask of its own.
THEOREM RetriesAlwaysAnswer == HSpec => []RetryAnswersAsk
<1>1. HookInv => RetryAnswersAsk
  <2> SUFFICES ASSUME HookInv, NEW k \in Digests
               PROVE  Cardinality(Retries(k)) <= Cardinality(Asks(k))
    BY DEF RetryAnswersAsk, Retries, Asks, Mine
  <2>1. Cardinality(Retries(k)) \in Nat /\ Cardinality(Asks(k)) \in Nat /\ Waiting(k) \in 0..1
    BY BoundsAssumption, FS_Subset, FS_CardinalityType, WaitingOne
       DEF Retries, Asks, Mine
  <2> QED BY SMT, <2>1 DEF HookInv, Answers
<1> QED BY <1>1, HookInvAlways, PTL

\* A window that relaxes a call has an announcer among the hooks of the plane.
THEOREM NightAlwaysHasAnnouncer == HSpec => []NightHasAnnouncer
<1>1. HookInv => NightHasAnnouncer
  BY DEF HookInv, AnnounceInv, NeedsAnnouncement, Told, NightHasAnnouncer
<1> QED BY <1>1, HookInvAlways, PTL

\* A check is skipped only on a version on which all of its commands passed, or
\* for which some check could not vouch.
THEOREM SkipAlwaysMeansPassed == HSpec => []SkipMeansPassed
<1>1. HookInv => SkipMeansPassed
  BY BoundsAssumption DEF HookInv, SkipInv, Vouched, SkipMeansPassed
<1> QED BY <1>1, HookInvAlways, PTL
=============================================================================
