---------------------------- MODULE CommandJudge ----------------------------
(***************************************************************************)
(* The evaluation of one tool call: Evaluate of internal/engine/           *)
(* evaluate.go with normalizeWithState and stripAndUnwrap of tokenize.go,  *)
(* checkBashAnalysis of rules_bash.go and checkPathsAnalysis of            *)
(* rules_path.go.                                                          *)
(*                                                                         *)
(* The capability of the call decides at once, or the command is taken     *)
(* apart: each statement loses its wrappers, and the runners, shells and   *)
(* ssh sessions in it are followed into what they run.  Every command      *)
(* found that way is held against each family of rules, then every path    *)
(* the call names against the path rules; the most severe verdict counts.  *)
(*                                                                         *)
(* A call carries, besides what the evaluation sees, what running it does  *)
(* according to the manuals of the programs it names (does): the programs  *)
(* it starts, the files it deletes, writes and reads, the hosts it talks   *)
(* to, whether it rewrites published history and whether it shows a        *)
(* credential.  The evaluation never looks at that; the properties do.     *)
(***************************************************************************)
EXTENDS CredentialRules

CONSTANTS Calls,             \* the tool calls
          Script(_, _),      \* a command text read in a directory, as [ok, stmts]
          Joined(_),         \* words joined by spaces
          FetchURL(_),       \* an absolute http URL without port, fragment or user
          OverlayRules,      \* the overlay's rules, [rule, tool, decision, pattern] in order
          PatternMatch(_, _) \* an overlay pattern matches a text
CONSTANTS Grounds,           \* the directories below which a change needs no answer
          Protected,         \* the files there that do
          SecretDirs,        \* the directories of secrets
          Secrets            \* the other secret files

VARIABLES call,     \* the call under evaluation
          phase,    \* idle, unwrap, rules, paths or done
          work,     \* the command lines still to be taken apart, a stack
          simples,  \* the commands found
          agenda,   \* the commands to be judged, in order
          due,      \* the one being judged
          step,     \* the next rule family
          mine,     \* the verdict on the command being judged
          worst,    \* the verdict of the command rules
          verdict   \* the verdict of the path rules, then of the evaluation
vars == <<call, phase, work, simples, agenda, due, step, mine, worst, verdict>>

NoCall == [tool |-> "", cap |-> "none", plane |-> "", posture |-> "", research |-> FALSE,
           paths |-> {}, text |-> "", url |-> "", waived |-> {}, does |-> <<>>]

Allowed(rule) == [d |-> "allow", rule |-> rule]

(***************************************************************************)
(* The capability of the call.                                             *)
(***************************************************************************)
PathTool(c) == c.cap \in {"read", "mutation"}
delegationInheritsEnforcement(plane) == plane \in {"opencode", "claude", "antigravity"}
UnknownTool(c) ==
    CASE c.plane = "codex" \/ c.posture = "deny" -> Deny("unknown-native-tool")
      [] OTHER -> IF c.plane \in {"opencode", "claude"} THEN Ask("unknown-native-tool")
                  ELSE Allowed("")
Judged == [d |-> "judge", rule |-> ""]
Gate(c) ==
    CASE c.research -> Allowed("web-research-enforcement-off")
      [] ~c.research /\ c.cap = "unknown" -> UnknownTool(c)
      [] ~c.research /\ PathTool(c) ->
             IF c.paths = {} \/ "" \in c.paths THEN Deny("capability-input-missing") ELSE Judged
      [] ~c.research /\ c.cap = "command" ->
             IF c.text = "" THEN Deny("capability-input-missing") ELSE Judged
      [] ~c.research /\ c.cap = "web-fetch" ->
             IF FetchURL(c.url) THEN Deny("web-fetch-native-deny") ELSE Deny("capability-input-invalid")
      [] ~c.research /\ c.cap = "safe-control" -> Allowed("")
      [] ~c.research /\ c.cap \in {"web-search", "external"} -> Ask("capability-" \o c.cap)
      [] ~c.research /\ c.cap = "delegation" ->
             IF delegationInheritsEnforcement(c.plane) THEN Allowed("delegation-inherited")
             ELSE Deny("capability-delegation-unverified")
      [] ~c.research /\ c.cap = "deny" -> Deny("capability-deny")
      [] OTHER -> Deny("capability-invalid")

(***************************************************************************)
(* The command lines to take apart.  A line remembers the statement it     *)
(* came from: how many commands were known before it (mark) and how it     *)
(* read (orig), because a statement that cannot be taken apart is put back *)
(* whole.  force: everything found in it counts as unresolved.  outer and  *)
(* xtrace: where the output of the script around it goes.                  *)
(***************************************************************************)
Line(s, mark, orig, outer, xtrace, force) ==
    [kind |-> "line", s |-> s, argv |-> s.argv, chroot |-> FALSE, mark |-> mark, orig |-> orig,
     outer |-> outer, xtrace |-> xtrace, force |-> force]
Statement(s, outer, xtrace, force) == Line(s, -1, s, outer, xtrace, force)

Fated(stmts, fates, outer, xtrace, force) ==
    [j \in DOMAIN stmts |->
        Statement([extractSimples(stmts[j]) EXCEPT !.fate = inheritStdoutFate(fates[j], outer, xtrace)],
                  outer, xtrace, force)]
Lines(stmts, outer, xtrace, force) == Fated(stmts, stdoutFates(stmts), outer, xtrace, force)

(* A script inside a command line begins where that line stands; the      *)
(* variables known outside are not known in it.                           *)
Here == [cwd |-> SessionCwd, unknown |-> FALSE]
Place(s) == [cwd |-> s.cwd, unknown |-> s.cwdUnknown]
Within(stmts, s, fs) ==
    [j \in DOMAIN stmts |-> [stmts[j] EXCEPT !.pipes = @ \cup s.pipes, !.fs = @ \/ fs]]

Init ==
    /\ call = NoCall /\ phase = "idle" /\ work = <<>> /\ simples = <<>> /\ agenda = <<>>
    /\ due = 1 /\ step = 0 /\ mine = Pass /\ worst = Pass /\ verdict = Pass

(* A call comes in.  A text that does not parse is asked about, and its   *)
(* paths are still judged.                                                *)
Evaluate(c, script) ==
    /\ phase = "idle" /\ call' = c
    /\ phase' = CASE Gate(c) # Judged -> "done"
                  [] Gate(c) = Judged /\ (PathTool(c) \/ ~script.ok) -> "paths"
                  [] OTHER -> "unwrap"
    /\ verdict' = IF Gate(c) # Judged THEN Gate(c) ELSE Pass
    /\ worst' = IF phase' = "paths" /\ c.cap = "command" THEN Ask("tokenize-failed") ELSE Pass
    /\ work' = IF phase' = "unwrap" THEN Lines(script.stmts, "root", FALSE, FALSE) ELSE <<>>
    /\ step' = 1
    /\ UNCHANGED <<simples, agenda, due, mine>>

(***************************************************************************)
(* stripAndUnwrap                                                          *)
(***************************************************************************)
Cur == work[1]
Mark0(it) == IF it.mark = -1 THEN Len(simples) ELSE it.mark
Unwrapping == phase = "unwrap" /\ work # <<>>
Emit(s) == simples' = Append(simples, s)
Follow(items) == work' = items \o Tail(work)
JudgingUnchanged == UNCHANGED <<call, phase, agenda, due, step, mine, worst, verdict>>

(* A statement that is a redirection only, or nothing.                    *)
StripNothing ==
    /\ Unwrapping /\ Cur.kind = "line" /\ Cur.argv = <<>>
    /\ LET s == IF Cur.s.argv = <<>> THEN Cur.s
                ELSE [Cur.s EXCEPT !.argv = <<>>, !.plain = FALSE]
       IN  IF HasRedirects(s) \/ Cur.chroot
           THEN Emit([s EXCEPT !.unres = @ \/ Cur.chroot \/ Cur.force]) ELSE UNCHANGED simples
    /\ Follow(<<>>) /\ JudgingUnchanged

(* One wrapper is taken off.  A bare env prints and stays.                *)
BareEnv(argv, r) == head(argv) = "env" /\ ~r.bad /\ r.rest = <<>>
StripWrapper ==
    /\ Unwrapping /\ Cur.kind = "line" /\ head(Cur.argv) \in OptionWrappers
    /\ LET it == Cur
           r == Consume(head(it.argv), Tail(it.argv))
       IN  /\ ~r.bad /\ ~BareEnv(it.argv, r)
           /\ Follow(<<[it EXCEPT !.argv = r.rest, !.mark = Mark0(it),
                                  !.s = Wrapped(it.s, it.argv, r.rest),
                                  !.chroot = @ \/ head(it.argv) = "chroot"]>>)
    /\ UNCHANGED simples /\ JudgingUnchanged

(* What remains is a command.  A runner is followed into the line it      *)
(* runs, a shell, cmd and ssh into their scripts.                         *)
Command(it) == [commandDerivedFrom(it.s, it.argv) EXCEPT
                    !.out = it.s.out, !.in = it.s.in, !.unres = @ \/ it.chroot \/ it.force]
RemoteSources(ssh) ==
    [bad |-> ssh.bad, fs |-> TRUE,
     texts |-> ssh.sources \o IF ssh.rest = <<>> THEN <<>> ELSE <<Joined(ssh.rest)>>]
SourcesOf(argv, c, cmd) ==
    CASE c.bad \/ c.found -> [bad |-> c.bad, texts |-> <<c.source>>, fs |-> FALSE]
      [] cmd # <<>> -> [bad |-> FALSE, texts |-> <<Joined(cmd)>>, fs |-> FALSE]
      [] head(argv) = "ssh" -> RemoteSources(sshCommandSources(parseNetworkArgs(argv, "ssh")))
      [] OTHER -> [bad |-> FALSE, texts |-> <<>>, fs |-> FALSE]
Sources(it) == SourcesOf(it.argv, DashC(it.argv), cmdSlashC(it.argv))
ScriptLines(it, src, scripts) ==
    FlattenSeq([j \in DOMAIN scripts |->
        Lines(Within(scripts[j].stmts, it.s, src.fs), it.s.fate,
              it.xtrace \/ shellEnablesXtrace(it.argv), it.force \/ it.chroot)])
RunnerLines(it, r) ==
    IF r.rest = <<>> THEN <<>>
    ELSE LET inner == commandDerivedFrom([it.s EXCEPT !.stateFs = TRUE], r.rest)
         IN  <<Line(inner, Mark0(it), it.orig, it.outer, it.xtrace, it.force \/ it.chroot)>>

Scripts(texts, s) == [j \in DOMAIN texts |-> Script(texts[j], Place(s))]
Plain(argv) ==
    /\ argv # <<>> /\ head(argv) # "watch"
    /\ \/ head(argv) \notin OptionWrappers
       \/ BareEnv(argv, Consume(head(argv), Tail(argv)))
EmitCommand(it, r, src, scripts) ==
    /\ ~r.bad /\ ~src.bad /\ \A j \in DOMAIN scripts : scripts[j].ok
    /\ LET s == IF head(it.argv) = "env" THEN Wrapped(it.s, it.argv, <<>>) ELSE it.s
       IN  Emit(Command([it EXCEPT !.s = s]))
    /\ Follow(RunnerLines(it, r) \o ScriptLines(it, src, scripts))
    /\ JudgingUnchanged
UnwrapInto(it, src) == EmitCommand(it, runnerInner(it.argv), src, Scripts(src.texts, it.s))
Unwrap ==
    /\ Unwrapping /\ Cur.kind = "line" /\ Plain(Cur.argv)
    /\ UnwrapInto(Cur, Sources(Cur))

(* watch runs its words as a script, again and again.                     *)
WatchScript(it) == consumeWatch(Tail(it.argv))
WatchOn(it, script) ==
    LET force == it.force \/ it.chroot \/ it.s.unres
    IN  /\ script.ok
        /\ IF HasRedirects(it.s)
           THEN Emit(RedirectsOnly(it.s, it.chroot \/ redirectsUnresolved(it.s)))
           ELSE UNCHANGED simples
        /\ Follow(Lines(Within(script.stmts, it.s, TRUE), it.outer, it.xtrace, force)
                  \o IF ~HasRedirects(it.s) /\ force
                     THEN <<[it EXCEPT !.kind = "end", !.mark = Len(simples)]>> ELSE <<>>)
normalizeWatch ==
    /\ Unwrapping /\ Cur.kind = "line" /\ head(Cur.argv) = "watch"
    /\ LET r == WatchScript(Cur)
       IN  /\ ~r.bad /\ r.rest # <<>>
           /\ WatchOn(Cur, Script(Joined(r.rest), Place(Cur.s)))
    /\ JudgingUnchanged
WatchEnd ==
    /\ Unwrapping /\ Cur.kind = "end"
    /\ IF Len(simples) = Cur.mark
       THEN Emit([RedirectsOnly(Cur.s, TRUE) EXCEPT !.out = <<>>, !.in = <<>>])
       ELSE UNCHANGED simples
    /\ Follow(<<>>) /\ JudgingUnchanged

(* A line that cannot be read fails its statement: what was found in it   *)
(* is dropped and the statement stays as one nothing is known about.      *)
NoScript(it, texts) == \E j \in DOMAIN texts : ~Script(texts[j], Place(it.s)).ok
NoWatch(it, r) == r.bad \/ r.rest = <<>> \/ NoScript(it, <<Joined(r.rest)>>)
NoSources(it, src) == src.bad \/ NoScript(it, src.texts)
Unreadable(it) ==
    CASE head(it.argv) = "watch" -> NoWatch(it, WatchScript(it))
      [] head(it.argv) \in OptionWrappers -> Consume(head(it.argv), Tail(it.argv)).bad
      [] OTHER -> runnerInner(it.argv).bad \/ NoSources(it, Sources(it))
Degrade ==
    /\ Unwrapping /\ Cur.kind = "line" /\ Cur.argv # <<>> /\ Unreadable(Cur)
    /\ simples' = Append(SubSeq(simples, 1, Mark0(Cur)), Degraded(Cur.orig))
    /\ Follow(<<>>) /\ JudgingUnchanged

(***************************************************************************)
(* checkBashAnalysis                                                       *)
(***************************************************************************)
Waives(v) == v.rule \in call.waived /\ v.rule # "P3.unresolved"
TakeAll(acc, vs) == FoldLeft(LAMBDA a, v : IF Waives(v) THEN a ELSE Take(a, v), acc, vs)

Item(s, role, exempt, find) == [s |-> s, role |-> role, exempt |-> exempt, find |-> find]
(* A command, the commands its find runs, then the find itself.           *)
Items(s, find, exempt) ==
    IF ~IsFind(s) THEN <<Item(s, "simple", FALSE, <<>>)>>
    ELSE <<Item(s, "simple", exempt, <<>>)>>
         \o [j \in DOMAIN find.callbacks |->
                Item([find.callbacks[j] EXCEPT !.gitInit = s.gitInit], "callback", FALSE, <<>>)]
         \o <<Item(s, "find", exempt, find.parsed)>>

(* A command right after "git init" in the same directory.                *)
Initialised(i) ==
    /\ i > 1 /\ ~simples[i].cwdUnknown /\ gitInitCurrentDirectory(simples[i - 1])
    /\ Clean(simples[i].cwd) = Clean(simples[i - 1].cwd)
Known1(i) == IF simples[i].cwdUnknown THEN simples[i]
             ELSE [simples[i] EXCEPT !.gitInit = Initialised(i)]

ItemsOf(i, s, find) ==
    Items(s, find, IsFind(s) /\ literalWriteFindExemptions(Script(call.text, Here).stmts, simples, i, find))
analyzeBash(i) == IF IsFind(simples[i]) THEN analyzeFind(simples[i]) ELSE <<>>

(* Everything is taken apart: the commands in the order they are judged.  *)
orderedSimples(items) ==
    LET mine1 == SelectSeq(items, LAMBDA t : t.role # "find")
    IN  [j \in DOMAIN mine1 |-> mine1[j].s]
BeginRules ==
    /\ phase = "unwrap" /\ work = <<>>
    /\ agenda' = FlattenSeq([i \in DOMAIN simples |-> ItemsOf(i, Known1(i), analyzeBash(i))])
    /\ worst' = TakeAll(Pass, <<checkDownloadPipeShell(orderedSimples(agenda'))>>)
    /\ phase' = "rules" /\ step' = 1 /\ mine' = Pass
    /\ UNCHANGED <<call, work, simples, due, verdict>>

Due == agenda[due]
Judging(n) == phase = "rules" /\ due <= Len(agenda) /\ step = n
Skipped(t) == t.role = "find" \/ (t.role = "callback" /\ t.s.argv[1] = "rm")
Holding(vs) ==
    /\ mine' = TakeAll(mine, vs) /\ step' = step + 1
    /\ UNCHANGED <<call, phase, work, simples, agenda, due, worst, verdict>>

Doubt(s) == IF unresolvedPolicyPosition(s) THEN Ask("P3.unresolved") ELSE Pass
JudgeFiles ==
    /\ Judging(1) /\ ~Skipped(Due) /\ Due.s.argv # <<>>
    /\ Holding(<<Doubt(Due.s), checkRmRf(Due.s), checkPowerControl(Due.s), checkPowerShell(Due.s),
                 checkCmdDelete(Due.s), checkCmdDiskDestroyer(Due.s), checkDiskDestroyers(Due.s),
                 checkDestinationWrites(Due.s)>>)
JudgeGit ==
    /\ Judging(2)
    /\ Holding(<<checkSelfControlInvocation(Due.s, call.text), checkGuardrailUpdate(Due.s, call.text)>>
               \o IF head(Due.s.argv) = "git" THEN <<checkGit(Due.s), checkGitSafety(Due.s)>> ELSE <<>>)
JudgeTools ==
    /\ Judging(3)
    /\ Holding(<<checkDocker(Due.s, call.text), checkGhAPIProtection(Due.s), checkGhPorcelain(Due.s),
                 checkGoToolchain(Due.s), checkRgPreprocessor(Due.s)>>)
JudgeServices ==
    /\ Judging(4)
    /\ Holding(<<checkCredentialedCLI(Due.s), checkCredentialPrint(Due.s)>>
               \o IF IsFind(Due.s) THEN <<>> ELSE <<checkAskTier(Due.s)>>)
psTargets(argv) ==
    LET b == bindPS(argv, webRequestParams)
    IN  Range(b.operands) \cup ({ValueOf(b, "uri")} \ {""})
JudgeNetwork ==
    /\ Judging(5)
    /\ Holding(<<checkEgress(Due.s, psTargets(Due.s.argv)), checkPackageInstall(Due.s)>>)

(* A redirection without a command is judged by its target alone.         *)
JudgeRedirect ==
    /\ Judging(1) /\ ~Skipped(Due) /\ Due.s.argv = <<>>
    /\ mine' = TakeAll(mine, <<Doubt(Due.s), checkAskTier(Due.s)>>) /\ step' = 6
    /\ UNCHANGED <<call, phase, work, simples, agenda, due, worst, verdict>>

(* The command is done.  A command a find runs that no rule spoke about   *)
(* passes only when it is known to do nothing but read its operands.      *)
Unsupported(s) ==
    \/ s.argv[1] # head(s.argv) \/ 1 \in s.resolved \/ wordUnresolved(s, 1)
    \/ ~knownInertOperandGrammar(s.argv[1])
CloseCommand ==
    /\ Judging(6)
    /\ worst' = TakeAll(worst, <<mine, IF Due.role = "callback" /\ mine = Pass /\ Unsupported(Due.s)
                                       THEN Ask("P1.find-delete") ELSE Pass>>)
    /\ due' = due + 1 /\ step' = 1 /\ mine' = Pass
    /\ UNCHANGED <<call, phase, work, simples, agenda, verdict>>
JudgeFind ==
    /\ Judging(1) /\ Skipped(Due)
    /\ worst' = TakeAll(worst, IF Due.role = "find"
                               THEN <<checkFindActions(Due.find, Due.s, Due.exempt)>> ELSE <<>>)
    /\ due' = due + 1
    /\ UNCHANGED <<call, phase, work, simples, agenda, step, mine, verdict>>
EndRules ==
    /\ phase = "rules" /\ due > Len(agenda)
    /\ phase' = "paths" /\ step' = 1
    /\ UNCHANGED <<call, work, simples, agenda, due, mine, worst, verdict>>

(***************************************************************************)
(* checkPathsAnalysis                                                      *)
(***************************************************************************)
ToolPaths(c) == IF PathTool(c) THEN {Candidate(w, SessionCwd, FALSE) : w \in c.paths} ELSE {}
ToolWrites(c) == IF c.cap = "mutation" THEN ToolPaths(c) ELSE {}
Waivable(v) == IF v.rule \in call.waived THEN Pass ELSE v
TakeWorst(acc, V) == Take(acc, Worst({Waivable(v) : v \in V}))

CandidateVerdicts(C) ==
    {classifySecretPath(c, call.waived) : c \in C}
        \cup {Waivable(IF checkSymlinkEscape(c) THEN Deny("P4.symlink-escape") ELSE Pass) : c \in C}
PathVerdict(parsed) ==
    Take(Worst(CandidateVerdicts(ToolPaths(call) \cup UNION {p.paths : p \in parsed})),
         IF \E p \in parsed : p.unsure THEN Waivable(Ask("P4.path-parse-uncertain")) ELSE Pass)
JudgePaths ==
    /\ phase = "paths" /\ step = 1
    /\ verdict' = PathVerdict({parsePrivatePathsAnalysis(simples[i], analyzeBash(i)) : i \in DOMAIN simples})
    /\ step' = 2
    /\ UNCHANGED <<call, phase, work, simples, agenda, due, mine, worst>>

WriteVerdicts(s, writes) ==
    {checkGitProtectedPathCandidates(writes), checkCIInfraLockfileCandidates(writes),
     checkSelfConfigCandidatesAnalysis(s, writes, s.argv # <<>> /\ goInstallsGuardrailInto(s))}
(* The callbacks of a find are searched for the binary's path as well.    *)
CallbackMentions(find) ==
    IF find # <<>> /\ \E c \in Range(find.callbacks) : OpaqueMention(c)
    THEN {Deny("P5.self-config")} ELSE {}
UnparsedMention ==
    IF worst = Ask("tokenize-failed") /\ \E p \in VisiblePaths(call.text) : InstalledBinary(p)
    THEN {Deny("P5.self-config")} ELSE {}
JudgeWrites ==
    /\ phase = "paths" /\ step = 2
    /\ verdict' = TakeWorst(verdict,
           WriteVerdicts(Simple, ToolWrites(call)) \cup UnparsedMention
           \cup UNION {WriteVerdicts(simples[i], writeCandidatesAnalysis(simples[i], analyzeBash(i)))
                       \cup CallbackMentions(analyzeBash(i)) : i \in DOMAIN simples})
    /\ step' = 3
    /\ UNCHANGED <<call, phase, work, simples, agenda, due, mine, worst>>
JudgeToolWrites ==
    /\ phase = "paths" /\ step = 3
    /\ verdict' = TakeWorst(verdict, {checkOutOfRepoWrite(IF call.cap = "mutation"
                                                         THEN call.paths ELSE {})})
    /\ step' = 4
    /\ UNCHANGED <<call, phase, work, simples, agenda, due, mine, worst>>

(* The overlay's first matching rule, then the most severe of the three.  *)
Subjects(c) == ({c.text} \cup c.paths) \ {""}
matchOverlayRules(c) ==
    LET R == {j \in DOMAIN OverlayRules :
                  /\ OverlayRules[j].rule \notin c.waived
                  /\ OverlayRules[j].tool \in {"", c.tool}
                  /\ \E w \in Subjects(c) : PatternMatch(OverlayRules[j].pattern, w)}
        r == OverlayRules[CHOOSE j \in R : \A k \in R : j <= k]
    IN  IF R = {} THEN Pass ELSE [d |-> r.decision, rule |-> r.rule]
Decide ==
    /\ phase = "paths" /\ step = 4
    /\ verdict' = Take(Take(verdict, worst), matchOverlayRules(call))
    /\ phase' = "done"
    /\ UNCHANGED <<call, work, simples, agenda, due, step, mine, worst>>

Next ==
    \/ \E c \in Calls : Evaluate(c, Script(c.text, Here))
    \/ StripNothing \/ StripWrapper \/ Unwrap \/ normalizeWatch \/ WatchEnd \/ Degrade
    \/ BeginRules \/ JudgeFiles \/ JudgeGit \/ JudgeTools \/ JudgeServices \/ JudgeNetwork
    \/ JudgeRedirect \/ CloseCommand \/ JudgeFind \/ EndRules
    \/ JudgePaths \/ JudgeWrites \/ JudgeToolWrites \/ Decide
Spec == Init /\ [][Next]_vars

(***************************************************************************)
(* Properties, of a call that is let through without a question.           *)
(***************************************************************************)
Through == phase = "done" /\ verdict.d = "allow"
Plainly == Through /\ call.waived = {}
Beneath(p, roots) == \E r \in roots : IsPrefix(r, p)

(* Every program the line starts was held against the rules with the      *)
(* words the line gives it, behind the wrappers, runners, shells and      *)
(* remote shells of the calls, one or several deep (stripAndUnwrap).  Not *)
(* read, and not among the calls: the words xargs takes from its input,   *)
(* an assignment behind env's "--", and "container run" in a group.       *)
EveryProgramJudged ==
    Through => \A argv \in call.does.starts : \E i \in DOMAIN agenda : agenda[i].s.argv = argv




=============================================================================
