---------------------------- MODULE HookPipeline ----------------------------
(***************************************************************************)
(* One hook process per tool call (cmd/guardrail/hook.go, cmdHook): the    *)
(* engine daemon, the night marker, the session state, the command grants  *)
(* of the operator config, the exact-action grants, the audit log, and the *)
(* answer to the agent host.                                               *)
(*                                                                         *)
(* Hooks of one session run concurrently and may die at any step.  What    *)
(* the rule engine decides for a call is given with the call; the session  *)
(* store is used through its contract (SessionContract), so a transaction  *)
(* is one step; the exact-action store is the module this one extends.     *)
(* Operator commands (hasOperatorAction) are the subject of Tickets and    *)
(* ApprovalBroker.                                                         *)
(***************************************************************************)
EXTENDS ActionGrants, Integers

CONSTANTS
    Rules,       \* the rules by which the engine decides
    Mixes,       \* [calls, env]: the calls of one behaviour and what else happens
    MaxWindows,  \* night windows opened in one behaviour
    CommandUses, \* uses of the command grant the operator issued
    MaxPending,  \* maxPendingOpenCodeApprovals
    Versions,    \* versions of the files a session check covers: 0..Versions
    Passing      \* the versions on which each command of the check passes

ASSUME BoundsAssumption ==
    /\ CommandUses \in Nat /\ MaxPending \in Nat \ {0} /\ Versions \in Nat
    /\ IsFiniteSet(Hooks) /\ DOMAIN Passing = {1, 2}

Grant == "ask-allowed-by-operator-grant"
Night == "ask-allowed-by-night-mode"
Retried == "ask-approved-by-retry"
ByHost == "ask-approved-by-host"
Bought == {Grant, Night, Retried, ByHost}

ASSUME RulesAssumption == Rules \cap (Bought \cup {"skipped"}) = {}

Planes == {"claude", "codex", "opencode", "antigravity"}
Decisions == {"allow", "ask", "deny"}

\* Tool calls, with what the engine says of them.
Calls == [plane : Planes, event : {"pre", "post", "completion"}, key : Digests,
          eval : [dec : Decisions, rule : Rules], sig : SUBSET {"private", "net"},
          granted : Rules \cup {"-"}, host : BOOLEAN]

ASSUME MixesAssumption == \A m \in Mixes : m.calls \in [Hooks -> Calls]

VARIABLES
    env,        \* what the environment does in this behaviour
    call,       \* Hooks -> the tool call
    at,         \* Hooks -> the next step of cmdHook
    v,          \* Hooks -> the verdict so far
    normal,     \* Hooks -> normalVerdict, before any relaxation
    bought,     \* the hooks with nightAllowed or grantAllowed
    nightSeen,  \* Hooks -> the night window loaded, 0: inactive
    announce,   \* the hooks that put the banner in front of the reason
    opUses,     \* Hooks -> uses of the command grant when the config was loaded
    night,      \* the window in night.toml, 0: none
    windows,    \* night windows opened so far
    saw,        \* session state: signals seen
    pending,    \* session state: key -> rule of the pending OpenCode ask
    announced,  \* session state: plane -> window announced
    uses,       \* uses left of the command grant
    content,    \* the present version of the checked files
    passed,     \* the version recorded by the last passed session check
    doubtful,   \* history: versions a check began with and could not vouch for
    finger,     \* Hooks -> fingerprint taken before a session check
    log,        \* audit records of relaxed verdicts: <<hook, verdict>>
    shown       \* Hooks -> what the host was told

session == <<saw, pending, announced>>
files == <<content, passed, doubtful>>
shared == <<night, windows, session, uses, files, log>>
own == <<v, normal, bought, nightSeen, announce, opUses, finger>>
hvars == <<vars, env, call, at, own, shared, shown>>

Verdict(dec, rule) == [dec |-> dec, rule |-> rule]
None == Verdict("none", "")

\* Rules an Ask of which nothing relaxes, and fail-closed backstops.
NeverRelaxable(rule) == rule = "outward"
NeverGrantable(rule) == NeverRelaxable(rule) \/ rule = "backstop"

Labels == {"start", "transaction", "evaluate", "fingerprint", "check", "check2", "recordPass",
           "relax", "spend", "exact", "audit", "emit", "end"}
Verdicts == [dec : Decisions \cup {"none"},
             rule : Rules \cup Bought \cup {"", "skipped", "hook-fail-closed", "P7.trifecta",
                                           "P7.tracking-unavailable", "P8.recipe-lint"}]

HTypeOK ==
    /\ TypeOK
    /\ call \in [Hooks -> Calls] /\ at \in [Hooks -> Labels]
    /\ v \in [Hooks -> Verdicts] /\ normal \in [Hooks -> Verdicts]
    /\ bought \subseteq Hooks /\ announce \subseteq Hooks
    /\ nightSeen \in [Hooks -> Nat] /\ opUses \in [Hooks -> Nat] /\ night \in Nat
    /\ saw \subseteq {"private", "net"}
    /\ uses \in 0..CommandUses
    /\ content \in 0..Versions /\ passed \in -1..Versions /\ doubtful \subseteq -1..Versions
    /\ finger \in [Hooks -> -1..Versions]
    /\ shown \in [Hooks -> {"nothing", "proceed", "prompt", "block"}]

HInit ==
    /\ Init
    /\ \E m \in Mixes : call = m.calls /\ env = m.env
    /\ at = [p \in Hooks |-> "start"]
    /\ v = [p \in Hooks |-> None] /\ normal = v
    /\ bought = {} /\ announce = {}
    /\ nightSeen = [p \in Hooks |-> 0] /\ opUses = nightSeen
    /\ night = 0 /\ windows = 0
    /\ saw = {} /\ pending = << >> /\ announced = << >>
    /\ uses = CommandUses
    /\ content = 0 /\ passed = -1 /\ doubtful = {}
    /\ finger = [p \in Hooks |-> -1]
    /\ log = {}
    /\ shown = [p \in Hooks |-> "nothing"]

Go(p, label) == at' = [at EXCEPT ![p] = label]

\* The adapters: Codex has no prompt, so an Ask blocks there; Antigravity is
\* answered {} after execution, whatever the verdict.
Unheard(c) == c.plane = "antigravity" /\ c.event = "post"
Effect(c, dec) ==
    CASE dec = "allow" \/ Unheard(c) -> "proceed"
      [] dec = "ask" /\ ~Unheard(c) /\ c.plane # "codex" -> "prompt"
      [] OTHER -> "block"

----------------------------------------------------------------------------
(* The engine's operators on verdicts and session state                    *)

\* ApplyTrifecta with session state: the second of the two signals pauses.
Trifecta(w, sig) ==
    LET secondLeg == \/ "private" \in sig /\ "net" \in saw
                     \/ "net" \in sig /\ "private" \in saw
    IN  IF w.dec = "allow" /\ secondLeg THEN Verdict("ask", "P7.trifecta") ELSE w

\* ApplyTrifecta without session state.
TrifectaBlind(w, sig) ==
    IF w.dec = "allow" /\ sig # {} THEN Verdict("ask", "P7.tracking-unavailable") ELSE w

Without(k) == [j \in DOMAIN pending \ {k} |-> pending[j]]
Put(f, k, x) == [j \in DOMAIN f \cup {k} |-> IF j = k THEN x ELSE f[j]]

\* Mutant: the approved ask stays pending.
ApprovalKeeps(w, k, host) ==
    CASE w.dec = "ask" /\ (host \/ k \in DOMAIN pending) ->
            [v |-> Verdict("allow", Retried), pending |-> pending]
      [] w.dec # "ask" -> [v |-> w, pending |-> Without(k)]
      [] OTHER -> [v |-> w, pending |-> Put(pending, k, w.rule)]

\* ApplyOpenCodeApproval and ApplyOpenCodeHostApproval: the verdict and the
\* pending asks they leave.  An Ask without a rule is nobody's to approve.
Approval(w, k, host) ==
    LET ask == w.dec = "ask" /\ w.rule # ""
        retry == k \in DOMAIN pending /\ pending[k] = w.rule
        full == k \notin DOMAIN pending /\ Cardinality(DOMAIN pending) >= MaxPending
    IN  CASE ask /\ host -> [v |-> Verdict("allow", ByHost), pending |-> Without(k)]
          [] ~ask /\ host -> [v |-> w, pending |-> pending]
          [] ~ask /\ ~host -> [v |-> w, pending |-> Without(k)]
          [] ask /\ ~host /\ retry -> [v |-> Verdict("allow", Retried), pending |-> Without(k)]
          [] ask /\ ~host /\ full -> [v |-> w, pending |-> pending]
          [] OTHER -> [v |-> w, pending |-> Put(pending, k, w.rule)]

\* Mutant: every Ask is relaxed.
ApplyNightModeToAll(w, active) ==
    IF ~active \/ w.dec = "allow" THEN w ELSE Verdict("allow", Night)

ApplyNightMode(w, active) ==
    IF ~active \/ w.dec # "ask" \/ NeverRelaxable(w.rule) THEN w ELSE Verdict("allow", Night)

\* ApplyCommandGrant: the command grant covers this call and has a use left.
CommandGranted(p, w) ==
    /\ w.dec = "ask" /\ call[p].granted = w.rule
    /\ ~NeverGrantable(w.rule) /\ opUses[p] > 0

\* ExactGrantAction: only a Codex Ask before execution.
ExactEligible(p, w) ==
    call[p].plane = "codex" /\ call[p].event = "pre" /\ w.dec = "ask" /\ ~NeverGrantable(w.rule)

AfterGrants(p, w) == IF ExactEligible(p, w) THEN "exact" ELSE "audit"

----------------------------------------------------------------------------
(* cmdHook                                                                 *)

SetV(p, w) == v' = [v EXCEPT ![p] = w]

\* The verdict before any relaxation.
Judge(p, w) == SetV(p, w) /\ normal' = [normal EXCEPT ![p] = w]

\* audit.Write; what the properties tell apart are the relaxed verdicts.
Recorded(p, w) == IF w.rule \in {Night, Grant} THEN {<<p, w>>} ELSE {}

\* An unreadable payload or policy is a recorded deny, answered at once.
FailClosed(p) ==
    /\ at[p] = "start"
    /\ SetV(p, Verdict("deny", "hook-fail-closed"))
    /\ shown' = [shown EXCEPT ![p] = Effect(call[p], "deny")]
    /\ Go(p, "end")
    /\ UNCHANGED <<vars, env, call, normal, bought, nightSeen, announce, opUses, finger, shared>>

\* The engine's verdict; after execution, the per-edit recipe on what it allows.
Judged(p, lint) ==
    IF call[p].event = "post" /\ call[p].eval.dec = "allow" /\ lint = "fail"
    THEN Verdict("deny", "P8.recipe-lint") ELSE call[p].eval

\* The engine daemon evaluates and records, and its answer is final.  When it
\* cannot be reached or is gone before it answered, the hook goes on (Load).
Daemon(p, lint) ==
    /\ at[p] = "start" /\ call[p].event # "completion"
    /\ SetV(p, Judged(p, lint))
    /\ shown' = [shown EXCEPT ![p] = Effect(call[p], Judged(p, lint).dec)]
    /\ Go(p, "end")
    /\ UNCHANGED <<vars, env, call, normal, bought, nightSeen, announce, opUses, finger, shared>>

\* The night marker and the operator config.
Load(p) ==
    /\ at[p] = "start"
    /\ nightSeen' = [nightSeen EXCEPT ![p] = night]
    /\ opUses' = [opUses EXCEPT ![p] = uses]
    /\ Go(p, CASE call[p].event = "pre" -> "transaction"
               [] call[p].event = "post" -> "evaluate"
               [] call[p].event = "completion" -> "fingerprint")
    /\ UNCHANGED <<vars, env, call, v, normal, bought, announce, finger, shared, shown>>

NeedsAnnouncement(p) == nightSeen[p] # 0 /\ call[p].plane # "claude"

\* Mutant: a plane that was told about one window is never told again.
UnannouncedEver(p) == NeedsAnnouncement(p) /\ call[p].plane \notin DOMAIN announced

Unannounced(p) ==
    NeedsAnnouncement(p) /\ ~(/\ call[p].plane \in DOMAIN announced
                              /\ announced[call[p].plane] = nightSeen[p])

\* Mutant: the signals of a call that is not allowed are forgotten.
TransactionForgets(p) ==
    LET c == call[p]
        w == Trifecta(c.eval, c.sig)
    IN  /\ at[p] = "transaction"
        /\ saw' = IF w.dec = "allow" THEN saw ELSE saw \cup c.sig
        /\ Judge(p, w) /\ Go(p, "relax")
        /\ UNCHANGED <<vars, env, call, bought, nightSeen, announce, opUses, finger,
                       pending, announced, night, windows, uses, files, log, shown>>

\* The callback of the session transaction, committed.
Transaction(p) ==
    LET c == call[p]
        tell == Unannounced(p)
        w == Trifecta(c.eval, c.sig)
        a == IF c.plane = "opencode" /\ nightSeen[p] = 0
             THEN Approval(w, c.key, c.host) ELSE [v |-> w, pending |-> pending]
    IN  /\ at[p] = "transaction"
        /\ announce' = IF tell THEN announce \cup {p} ELSE announce
        /\ announced' = IF tell THEN Put(announced, c.plane, nightSeen[p]) ELSE announced
        /\ saw' = saw \cup c.sig
        /\ pending' = a.pending
        /\ Judge(p, a.v) /\ Go(p, "relax")
        /\ UNCHANGED <<vars, env, call, bought, nightSeen, opUses, finger,
                       night, windows, uses, files, log, shown>>

\* Nothing was stored: the call is evaluated without session state.
TransactionFails(p) ==
    /\ at[p] = "transaction"
    /\ announce' = IF NeedsAnnouncement(p) THEN announce \cup {p} ELSE announce
    /\ Judge(p, TrifectaBlind(call[p].eval, call[p].sig)) /\ Go(p, "relax")
    /\ UNCHANGED <<vars, env, call, bought, nightSeen, opUses, finger, shared, shown>>

Evaluate(p, lint) ==
    /\ at[p] = "evaluate"
    /\ Judge(p, Judged(p, lint))
    /\ Go(p, "relax")
    /\ UNCHANGED <<vars, env, call, bought, nightSeen, announce, opUses, finger,
                   shared, shown>>

\* CheckSession: skipped when this version is the one that passed last.  A
\* fingerprint that cannot be taken (-1) neither skips nor is recorded.
Fingerprint(p) ==
    \E f \in {content, -1} :
        /\ at[p] = "fingerprint"
        /\ finger' = [finger EXCEPT ![p] = f]
        /\ IF f # -1 /\ f = passed
           THEN Judge(p, Verdict("allow", "skipped")) /\ Go(p, "relax")
           ELSE UNCHANGED <<v, normal>> /\ Go(p, "check")
        /\ UNCHANGED <<vars, env, call, bought, nightSeen, announce, opUses,
                       shared, shown>>

Checks == {"check", "check2"}

\* One command of the check, on the files as they are now.  One that is not
\* installed or cannot be started is passed over.
Check(p) ==
    LET n == IF at[p] = "check" THEN 1 ELSE 2
        then == IF n = 1 THEN "check2" ELSE "recordPass"
    IN
    /\ at[p] \in Checks
    /\ \/ /\ content \notin Passing[n]
          /\ Judge(p, Verdict("deny", "P8.recipe-lint")) /\ Go(p, "relax")
          /\ UNCHANGED doubtful
       \/ /\ content \in Passing[n]
          /\ Go(p, then)
          /\ UNCHANGED <<v, normal, doubtful>>
       \/ /\ doubtful' = doubtful \cup {finger[p]}
          /\ Go(p, then)
          /\ UNCHANGED <<v, normal>>
    /\ UNCHANGED <<vars, env, call, bought, nightSeen, announce, opUses, finger,
                   night, windows, session, uses, content, passed, log, shown>>

\* Mutant: the fingerprint is taken when the check is over.
RecordPassLate(p) ==
    /\ at[p] = "recordPass"
    /\ passed' = content
    /\ Judge(p, Verdict("allow", "P8.recipe-lint")) /\ Go(p, "relax")
    /\ UNCHANGED <<vars, env, call, bought, nightSeen, announce, opUses, finger,
                   night, windows, session, uses, content, doubtful, log, shown>>

\* The record of the pass is best effort.
RecordPass(p) ==
    /\ at[p] = "recordPass"
    /\ passed' \in IF finger[p] = -1 THEN {passed} ELSE {passed, finger[p]}
    /\ Judge(p, Verdict("allow", "P8.recipe-lint")) /\ Go(p, "relax")
    /\ UNCHANGED <<vars, env, call, bought, nightSeen, announce, opUses, finger,
                   night, windows, session, uses, content, doubtful, log, shown>>

\* Night mode.
Relax(p) ==
    LET w == ApplyNightMode(v[p], nightSeen[p] # 0) IN
    /\ at[p] = "relax"
    /\ SetV(p, w)
    /\ bought' = IF w.rule = Night THEN bought \cup {p} ELSE bought
    /\ opUses' = [opUses EXCEPT ![p] = 0]
    /\ Go(p, IF call[p].event = "pre" /\ CommandGranted(p, w) THEN "spend" ELSE AfterGrants(p, w))
    /\ UNCHANGED <<vars, env, call, normal, nightSeen, announce, finger, shared, shown>>

\* Mutant: the use that was left when the config was loaded is good enough.
SpendStale(p) ==
    /\ at[p] = "spend"
    /\ uses' = IF uses > 0 THEN uses - 1 ELSE 0
    /\ SetV(p, Verdict("allow", Grant))
    /\ bought' = bought \cup {p}
    /\ Go(p, "audit")
    /\ UNCHANGED <<vars, env, call, normal, nightSeen, announce, opUses, finger,
                   night, windows, session, files, log, shown>>

\* Mutant: the use is not checked again.
SpendUnchecked(p) ==
    /\ at[p] = "spend"
    /\ uses' = uses - 1
    /\ SetV(p, Verdict("allow", Grant))
    /\ bought' = bought \cup {p}
    /\ Go(p, "audit")
    /\ UNCHANGED <<vars, env, call, normal, nightSeen, announce, opUses, finger,
                   night, windows, session, files, log, shown>>

\* consumeCommandGrant checks the use again under the operator lock.
Spend(p) ==
    /\ at[p] = "spend" /\ uses > 0
    /\ uses' = uses - 1
    /\ SetV(p, Verdict("allow", Grant))
    /\ bought' = bought \cup {p}
    /\ Go(p, "audit")
    /\ UNCHANGED <<vars, env, call, normal, nightSeen, announce, opUses, finger,
                   night, windows, session, files, log, shown>>

\* Nothing left, or the operator config could not be locked or written.
SpendNothing(p) ==
    /\ at[p] = "spend"
    /\ Go(p, AfterGrants(p, v[p]))
    /\ UNCHANGED <<vars, env, call, own, shared, shown>>

\* exactActionVerdict runs in the exact-action store.
AskStore(p) ==
    /\ at[p] = "exact" /\ pc[p] = "idle"
    /\ HookAsk(p, call[p].key)
    /\ UNCHANGED <<env, call, at, own, shared, shown>>

StoreStep(p) ==
    /\ at[p] = "exact"
    /\ \/ \E r \in Recs : Consume(p, r) /\ SetV(p, Verdict("allow", Grant)) /\ bought' = bought \cup {p}
       \/ \E r \in Recs : Create(p, r) /\ UNCHANGED <<v, bought>>
       \/ (ConsumeNothing(p) \/ CreateNothing(p)) /\ UNCHANGED <<v, bought>>
       \/ \E gone \in SUBSET Recs : GiveUp(p, gone) /\ UNCHANGED <<v, bought>>
    /\ at' = [at EXCEPT ![p] = IF pc'[p] = "idle" THEN "audit" ELSE "exact"]
    /\ UNCHANGED <<env, call, normal, nightSeen, announce, opUses, finger, shared, shown>>

AuditWrite(p) ==
    /\ at[p] = "audit"
    /\ log' = log \cup Recorded(p, v[p])
    /\ Go(p, "emit")
    /\ UNCHANGED <<vars, env, call, own, night, windows, session, uses, files, shown>>

\* Mutant: the answer does not depend on whether it could be recorded.
AuditFailsQuietly(p) ==
    /\ at[p] = "audit"
    /\ log' \in {log, log \cup Recorded(p, v[p])}
    /\ Go(p, "emit")
    /\ UNCHANGED <<vars, env, call, own, night, windows, session, uses, files, shown>>

\* An allow that a relaxation bought is withdrawn when audit.Write failed,
\* which may still have left the record.
AuditFails(p) ==
    /\ at[p] = "audit"
    /\ log' \in {log, log \cup Recorded(p, v[p])}
    /\ SetV(p, IF p \in bought THEN normal[p] ELSE v[p])
    /\ Go(p, "emit")
    /\ UNCHANGED <<vars, env, call, normal, bought, nightSeen, announce, opUses, finger,
                   night, windows, session, uses, files, shown>>

Emit(p) ==
    /\ at[p] = "emit"
    /\ shown' = [shown EXCEPT ![p] = Effect(call[p], v[p].dec)]
    /\ Go(p, "end")
    /\ UNCHANGED <<vars, env, call, own, shared>>

Die(p) ==
    /\ at[p] \notin {"start", "end"}
    /\ IF pc[p] = "idle" THEN UNCHANGED vars ELSE \E gone \in SUBSET Recs : GiveUp(p, gone)
    /\ Go(p, "end")
    /\ UNCHANGED <<env, call, own, shared, shown>>

----------------------------------------------------------------------------
(* The environment                                                         *)

\* guardrail night on, night off, and the end of a window.
SetNight(w) ==
    /\ "night" \in env
    /\ windows' = IF w = 0 THEN windows ELSE w
    /\ night' = w
    /\ IF w = 0 THEN night # 0 ELSE w = windows + 1
    /\ UNCHANGED <<vars, env, call, at, own, session, uses, files, log, shown>>

\* Ten minutes pass without a retry of an OpenCode ask.
AskLapses(k) ==
    /\ "lapse" \in env
    /\ k \in DOMAIN pending
    /\ pending' = Without(k)
    /\ UNCHANGED <<vars, env, call, at, own, night, windows, saw, announced, uses, files,
                   log, shown>>

\* The checked files change, possibly back to what they were: a fingerprint is
\* of their contents.
Edit ==
    /\ "edit" \in env
    /\ content' \in 0..Versions \ {content}
    /\ doubtful' = doubtful \cup {finger[p] : p \in {q \in Hooks : at[q] \in Checks}}
    /\ UNCHANGED <<vars, env, call, at, own, night, windows, session, uses, passed, log, shown>>

Operator ==
    /\ \/ \E p \in Operators \cap env : OperatorStep(p) \/ GiveUp(p, {})
       \/ \E r \in Recs : "lapse" \in env /\ Lapse(r)
    /\ UNCHANGED <<env, call, at, own, shared, shown>>

CmdHook(p) ==
    \/ FailClosed(p) \/ Load(p)
    \/ \E lint \in {"pass", "fail"} : Evaluate(p, lint) \/ Daemon(p, lint)
    \/ Transaction(p) \/ TransactionFails(p)
    \/ Fingerprint(p) \/ Check(p) \/ RecordPass(p)
    \/ Relax(p) \/ Spend(p) \/ SpendNothing(p) \/ AskStore(p) \/ StoreStep(p)
    \/ AuditWrite(p) \/ AuditFails(p) \/ Emit(p) \/ Die(p)

HNext ==
    \/ \E p \in Hooks : CmdHook(p)
    \/ \E w \in 0..MaxWindows : SetNight(w)
    \/ \E k \in Digests : AskLapses(k)
    \/ Edit \/ Operator

HSpec == HInit /\ [][HNext]_hvars

----------------------------------------------------------------------------
(* Properties                                                              *)

\* A host is told to go on because of night mode or a grant only when exactly
\* that is in the audit log (hook.go, the handling of a failed audit.Write).
RelaxedIsRecorded ==
    \A p \in Hooks :
        shown[p] = "proceed" /\ v[p].rule \in {Night, Grant} => <<p, v[p]>> \in log

\* The hooks that go on because of the command grant are no more than its uses,
\* although every hook read the count long before it spends a use
\* (hook.go, consumeCommandGrant before the verdict changes).
UsesArePaid ==
    Cardinality({p \in Hooks : v[p].rule = Grant /\ call[p].plane # "codex"}) <= CommandUses - uses

\* A call the engine denies never proceeds, and one of the asks that nothing
\* relaxes proceeds only by an answer of the person at the host, whatever
\* night mode, grants, retries and the daemon do (engine/night.go,
\* engine/grant.go, policy.NeverRelaxable).  The end of a session is not
\* judged by the engine, and after execution Antigravity hears no verdict.
DenyStands ==
    \A p \in Hooks :
        shown[p] = "proceed" /\ call[p].event # "completion" /\ ~Unheard(call[p]) =>
            /\ call[p].eval.dec # "deny"
            /\ call[p].eval.dec = "ask" /\ NeverRelaxable(call[p].eval.rule) =>
                   v[p].rule \in {Retried, ByHost}

\* Of two calls of a session that are to read private data and to reach the
\* network, at most one goes on without a pause, however they interleave and
\* whichever session transactions fail (engine/trifecta_signals.go; a call
\* the engine daemon answers has no session state).
SecondLegPauses ==
    \A p, q \in Hooks :
        /\ p # q /\ "private" \in call[p].sig /\ "net" \in call[q].sig
        /\ call[p].event = "pre" /\ call[q].event = "pre"
        /\ call[p].eval.dec = "allow" /\ call[q].eval.dec = "allow"
        => normal[p] # call[p].eval \/ normal[q] # call[q].eval

\* Every retry that proceeds answers an earlier ask of the same call of its own
\* (engine/opencode_approval.go, ApplyOpenCodeApproval).
RetryAnswersAsk ==
    \A k \in Digests :
        LET mine == {p \in Hooks : call[p].key = k /\ call[p].plane = "opencode"}
        IN  Cardinality({p \in mine : normal[p].rule = Retried})
                <= Cardinality({p \in mine : normal[p].dec = "ask"})

\* For every window that relaxes a call before it runs, this hook or another of
\* the same plane has taken on the announcement: the session state never keeps
\* all hooks of a window silent, whatever window was announced in between and
\* whichever transactions fail (hook.go, NightModeAnnouncements).  Nothing is
\* said of the banner's way to a reader: the hook may die before it answers,
\* and Codex prints no reason with an allow.
NightHasAnnouncer ==
    \A p \in Hooks : v[p].rule = Night /\ call[p].event = "pre" /\ call[p].plane # "claude" =>
        \E q \in announce : call[q].plane = call[p].plane /\ nightSeen[q] = nightSeen[p]

\* A session check is skipped only for files on which all of its commands
\* passed, although files change and change back while checks run; except for
\* files with which some check began and then had them edited under it, or
\* could not start one of its commands (recipe/recipe.go, CheckSession and
\* runCommands; recipe/session_skip.go).
SkipMeansPassed ==
    \A p \in Hooks : v[p].rule = "skipped" =>
        finger[p] \in doubtful \/ \A n \in DOMAIN Passing : finger[p] \in Passing[n]
=============================================================================
