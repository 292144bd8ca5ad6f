----------------------------- MODULE FindRules -----------------------------
(***************************************************************************)
(* The rules of internal/engine/rules_bash.go that look at a command as a  *)
(* whole: what find may delete, whether a value that is not known stands   *)
(* in a position that matters, the commands that are always asked about,   *)
(* and the commands that change the guardrail itself.                      *)
(*                                                                         *)
(* A statement of the command text is the record extractSimples reads;     *)
(* joined says how it is followed by the next one, odd that it is negated, *)
(* in the background or compound, and fd, in a redirection, that it names  *)
(* a descriptor.                                                           *)
(***************************************************************************)
EXTENDS FileRules

(***************************************************************************)
(* find command lines as internal/engine/find_actions.go reads them: the   *)
(* roots, the expression, the files its actions write and read, and the    *)
(* commands it runs on what it finds.  A deletion is managed by one rule   *)
(* alone, and only in one exact shape: one root, known tests and a single  *)
(* deleting action at the end.                                             *)
(***************************************************************************)
CONSTANTS Numeric(_),       \* a word made of digits
          FileTypes(_),     \* a list of file types for -type
          HoldsBraces(_),   \* a word with "{}" inside other text
          WordOf(_)         \* the word that spells an absolute path

(***************************************************************************)
(* The structure of the expression: a stack of parentheses, each with an   *)
(* operand or not, and waiting for one or not.                             *)
(***************************************************************************)
OpenFrame == [has |-> FALSE, needs |-> TRUE]
newFindExpressionValidator == [frames |-> <<OpenFrame>>, saw |-> FALSE, invalid |-> FALSE]

isFindOperator(w) == w \in {"!", "(", ")", ",", "-a", "-o", "-not"}

operand(e) ==
    [e EXCEPT !.saw = TRUE, !.frames[Len(e.frames)] = [has |-> TRUE, needs |-> FALSE]]

operator(e, w) ==
    LET f == Last(e.frames)
        ready == f.has /\ ~f.needs
        seen == [e EXCEPT !.saw = TRUE]
        wanting == [seen EXCEPT !.frames[Len(e.frames)].needs = TRUE]
        wrong == [seen EXCEPT !.invalid = TRUE]
    IN  CASE w \in {"!", "-not"} -> wanting
          [] w = "(" -> [seen EXCEPT !.frames = Append(@, OpenFrame)]
          [] w = ")" -> IF Len(e.frames) = 1 \/ ~ready THEN wrong
                        ELSE operand([seen EXCEPT !.frames = Front(@)])
          [] OTHER -> IF ready THEN wanting ELSE wrong

valid(e) == /\ ~e.invalid /\ Len(e.frames) = 1
            /\ e.saw => e.frames[1].has /\ ~e.frames[1].needs

(***************************************************************************)
(* Predicates and actions.                                                 *)
(***************************************************************************)
Predicates == [o \in {"-empty", "-xdev", "-depth", "-follow"} |-> 0]
              @@ [o \in {"-name", "-type", "-maxdepth", "-newer", "-samefile"} |-> 1]
ReadPredicates == {"-newer", "-samefile"}
describeFindPredicate(w) == w \in DOMAIN Predicates

NoActions == [roots |-> <<>>, outputs |-> <<>>, reads |-> <<>>, callbacks |-> <<>>,
              actions |-> <<>>, start |-> 2, unsure |-> FALSE, follow |-> FALSE,
              lead |-> FALSE, managed |-> FALSE, exact |-> FALSE, executable |-> 0,
              expr |-> newFindExpressionValidator]

(* A word of the command line and where it stands.                        *)
Mark(argv, i) == [v |-> argv[i], at |-> i]

noteUncertainty(r) == [r EXCEPT !.unsure = TRUE]
Action(kind, i, end, cb) == [kind |-> kind, index |-> i, end |-> end, callback |-> cb]

(* The callback from word i up to its terminator.                         *)
CallbackEnds(argv, i) == {e \in (i + 1)..Len(argv) : argv[e] \in {";", "+"}}
parseFindCallback(argv, i) ==
    LET E == CallbackEnds(argv, i)
        end == CHOOSE e \in E : \A f \in E : e <= f
    IN  IF E = {} \/ end = i + 1 THEN [ok |-> FALSE]
        ELSE [ok |-> TRUE, argv |-> SubSeq(argv, i + 1, end - 1), at |-> i + 1,
              end |-> end + 1, batch |-> argv[end] = "+"]

validFindBatchCallback(argv) ==
    Last(argv) = "{}" /\ Cardinality({j \in DOMAIN argv : argv[j] = "{}"}) = 1

(* One word of the expression: the reading after it and the next word.    *)
Next1(i, r) == [i |-> i, r |-> r]

WithCallback(argv, i, r, c) ==
    LET ok == argv[i] \in {"-exec", "-execdir"}
        cb == [argv |-> c.argv, at |-> c.at, dir |-> argv[i] \in {"-execdir", "-okdir"}]
    IN  IF ~c.ok THEN Next1(i + 1, noteUncertainty(r))
        ELSE Next1(c.end,
                   [r EXCEPT !.unsure = @ \/ (c.batch /\ ~validFindBatchCallback(c.argv)) \/ ~ok,
                             !.callbacks = Append(@, cb),
                             !.managed = @ \/ c.argv[1] = "rm",
                             !.actions = Append(@, Action(IF ok THEN "callback" ELSE "unsupported",
                                                          i, c.end, Len(r.callbacks) + 1))])

findActionArguments(argv, i, n) == i + n <= Len(argv)

WithAction(argv, i, r, kind, n) ==
    IF ~findActionArguments(argv, i, n) THEN Next1(i + 1, noteUncertainty(r))
    ELSE Next1(i + n + 1,
               [r EXCEPT !.actions = Append(@, Action(kind, i, i + n + 1, 0)),
                         !.outputs = IF kind = "write" THEN Append(@, Mark(argv, i + 1)) ELSE @,
                         !.managed = @ \/ kind = "delete"])

WithPredicate(argv, i, r) ==
    LET n == Predicates[argv[i]]
        q == [r EXCEPT !.follow = @ \/ argv[i] = "-follow"]
    IN  IF i + n > Len(argv) THEN Next1(i + 1, noteUncertainty(q))
        ELSE Next1(i + n + 1, IF argv[i] \in ReadPredicates
                              THEN [q EXCEPT !.reads = Append(@, Mark(argv, i + 1))] ELSE q)

FindWord(argv, i, r, o) ==
    CASE isFindOperator(argv[i]) -> Next1(i + 1, [r EXCEPT !.expr = operator(@, argv[i])])
      [] describeFindPredicate(argv[i]) -> WithPredicate(argv, i, o)
      [] argv[i] \in {"-print", "-prune", "-quit"} -> WithAction(argv, i, o, "read", 0)
      [] argv[i] = "-printf" -> WithAction(argv, i, o, "read", 1)
      [] argv[i] \in {"-fprint", "-fls"} -> WithAction(argv, i, o, "write", 1)
      [] argv[i] = "-fprintf" -> WithAction(argv, i, o, "write", 2)
      [] argv[i] = "-delete" -> WithAction(argv, i, o, "delete", 0)
      [] argv[i] \in {"-exec", "-execdir", "-ok", "-okdir"} ->
             WithCallback(argv, i, o, parseFindCallback(argv, i))
      [] OTHER -> Next1(i + 1, noteUncertainty(o))

(* Leading options, then roots, then the expression.                      *)
LeadingWord(argv, i, r) ==
    CASE argv[i] = "-P" -> Next1(i + 1, [r EXCEPT !.lead = TRUE])
      [] argv[i] \in {"-H", "-L"} -> Next1(i + 1, [r EXCEPT !.lead = TRUE, !.follow = TRUE])
      [] argv[i] = "-D" ->
             IF i = Len(argv) THEN Next1(i + 1, noteUncertainty([r EXCEPT !.lead = TRUE]))
             ELSE Next1(i + 2, [r EXCEPT !.lead = TRUE])
      [] OTHER -> Next1(i, r)

isFindExpressionToken(w) == Dashed(w) \/ isFindOperator(w)

RECURSIVE FindLead(_, _)
FindLead(argv, n) ==
    IF n.i > Len(argv) THEN n
    ELSE LET m == LeadingWord(argv, n.i, n.r) IN IF m.i = n.i THEN n ELSE FindLead(argv, m)
RECURSIVE FindRoots(_, _)
FindRoots(argv, n) ==
    IF n.i > Len(argv) \/ isFindExpressionToken(argv[n.i])
    THEN [n EXCEPT !.r.start = n.i]
    ELSE FindRoots(argv, Next1(n.i + 1,
             [n.r EXCEPT !.roots = Append(@, Mark(argv, n.i))]))
RECURSIVE FindExpression(_, _)
FindExpression(argv, n) ==
    IF n.i > Len(argv) THEN n.r
    ELSE FindExpression(argv, FindWord(argv, n.i, n.r,
                                       [n.r EXCEPT !.expr = operand(@)]))

(* Tests whose effect on an exact deletion is known.                      *)
RECURSIVE knownFindTests(_)
knownFindTests(ws) ==
    CASE ws = <<>> -> TRUE
      [] ws # <<>> /\ describeFindPredicate(ws[1]) /\ Predicates[ws[1]] = 0
         /\ ws[1] # "-follow" -> knownFindTests(Tail(ws))
      [] OTHER -> /\ describeFindPredicate(ws[1]) /\ Predicates[ws[1]] = 1 /\ Len(ws) > 1
                  /\ ws[1] = "-type" => FileTypes(ws[2])
                  /\ ws[1] = "-maxdepth" => Numeric(ws[2])
                  /\ knownFindTests(From(ws, 3))

knownFindRmOption(w) ==
    \/ /\ Lex(w).kind = "short"
       /\ Range(Lex(w).letters) \subseteq {"-d", "-f", "-i", "-r", "-v", "-I", "-R"}
    \/ w \in {"--force", "--recursive", "--verbose"}

ExactCallback(argv, c) ==
    /\ c.argv[1] = "rm" /\ Len(c.argv) > 1 /\ Last(c.argv) = "{}"
    /\ \A j \in 2..Len(c.argv) : knownFindRmOption(c.argv[j]) \/ c.argv[j] = "{}"

classifyExactScopedDeletion(r, argv) ==
    IF \/ ~r.managed \/ r.unsure \/ r.follow \/ r.lead
       \/ Len(r.roots) # 1 \/ Len(r.actions) # 1
    THEN r
    ELSE LET a == r.actions[1]
             shape == a.end = Len(argv) + 1
                      /\ knownFindTests(SubSeq(argv, r.start, a.index - 1))
         IN  CASE shape /\ a.kind = "delete" -> [r EXCEPT !.exact = TRUE]
               [] shape /\ a.kind = "callback" /\ ExactCallback(argv, r.callbacks[a.callback]) ->
                      [r EXCEPT !.exact = TRUE, !.executable = r.callbacks[a.callback].at]
               [] OTHER -> r

parseFindActions(argv) ==
    LET r == FindExpression(argv, FindRoots(argv, FindLead(argv, Next1(2, NoActions))))
    IN  classifyExactScopedDeletion([r EXCEPT !.unsure = @ \/ ~valid(r.expr)], argv)

(* An rm the analysis put together itself is not an exact deletion.       *)
applySourceProvenance(r, s) ==
    IF r.exact /\ r.executable # 0
       /\ (r.executable \in s.resolved \/ wordUnresolved(s, r.executable))
    THEN [r EXCEPT !.exact = FALSE] ELSE r

(* The commands find runs, "{}" replaced by the root it searches.         *)
Rootable(r, s) == /\ Len(r.roots) = 1 /\ ~s.cwdUnknown /\ ~r.follow
                  /\ ~wordUnresolved(s, r.roots[1].at)
CallbackUnsure(r, s) ==
    \E c \in Range(r.callbacks) : \E w \in Range(c.argv) :
        (w = "{}" /\ ~Rootable(r, s)) \/ HoldsBraces(w)
CallbackWord(r, s, w) ==
    IF w = "{}" /\ Rootable(r, s) THEN WordOf(resolvePath(r.roots[1].v, s.cwd)) ELSE w
FoundBy(s, c) ==
    [s EXCEPT !.find = TRUE, !.unres = @ \/ c.dir, !.cwdUnknown = @ \/ c.dir]
adaptFindCallbacks(r, s) ==
    [j \in DOMAIN r.callbacks |->
        LET c == r.callbacks[j]
        IN  FoundBy(commandDerivedFromAt(s, [i \in DOMAIN c.argv |->
                                                CallbackWord(r, s, c.argv[i])], c.at - 1), c)]

analyzeFind(s) ==
    LET r == applySourceProvenance(parseFindActions(s.argv), s)
    IN  [parsed |-> [r EXCEPT !.unsure = @ \/ CallbackUnsure(r, s)],
         callbacks |-> adaptFindCallbacks(r, s)]

----------------------------------------------------------------------------
CONSTANTS EnvOnly(_),     \* a word unknown only in its $env: prefix
          Device(_),      \* one of the POSIX standard devices
          Older(_),       \* a release older than the running one
          Mentions(_, _)  \* a text names a program and a subcommand

(***************************************************************************)
(* A find that deletes after literal writes confined to what it deletes.   *)
(***************************************************************************)
pathWithinOrEqual(p, r) == IsPrefix(r, p)
pathHasSymlinkBelowTempRoot(w, cwd) ==
    LET p == Abs(w, cwd)
        above == {Len(r) : r \in {q \in systemTempRoots : q # p /\ IsPrefix(q, p)}}
        low == IF above = {} THEN 1 ELSE (CHOOSE n \in above : \A m \in above : m <= n) + 1
    IN  PathText(w).home \/ \E k \in low..Len(p) : IsLink(FirstN(p, k))

literalPathConfinedTo(w, root, cwd) ==
    LET target == Abs(w, cwd)
        base == Abs(root, cwd)
        t == ResolveThroughExistingAncestor(target)
        b == ResolveThroughExistingAncestor(base)
    IN  /\ ~hasRawDotDot(w) /\ ~pathHasSymlinkBelowTempRoot(w, cwd)
        /\ pathWithinOrEqual(target, base)
        /\ t.ok /\ b.ok /\ pathWithinOrEqual(t.path, b.path)

literalNF14Word(w) == w.how = "quoted" \/ (w.how = "plain" /\ Literal(w.t))
literalDirectCall(st) == ~st.assigns /\ \A j \in DOMAIN st.words : literalNF14Word(st.words[j])

literalCommandList(stmts) ==
    \A j \in DOMAIN stmts :
        /\ ~stmts[j].odd
        /\ j < Len(stmts) => stmts[j].joined \in {";", "&&"}

None == [ok |-> FALSE, words |-> <<>>]
Some(ws) == [ok |-> TRUE, words |-> ws]

literalOutputRedirectTargets(st) ==
    IF /\ st.out # <<>> /\ st.in = <<>>
       /\ \A j \in DOMAIN st.out : ~st.out[j].fd /\ literalNF14Word(st.out[j])
    THEN Some(Texts(st.out)) ELSE None
literalHarmlessTeeInput(st) ==
    /\ st.out = <<>>
    /\ \A j \in DOMAIN st.in : ~st.in[j].fd /\ literalNF14Word(st.in[j]) /\ Device(st.in[j].t)

(* The operands behind at most one option, which may be given once.       *)
literalOperands(argv, option) ==
    LET p == Scan(argv, 2, [Exact EXCEPT !.flags = option, !.end = TRUE, !.permute = TRUE], Scanned)
    IN  IF p.bad \/ Len(p.opts) > 1 \/ p.rest = <<>> THEN None ELSE Some(p.rest)

literalNonLinkWriteTargets(st, argv) ==
    CASE argv = <<>> -> literalOutputRedirectTargets(st)
      [] argv # <<>> /\ argv[1] \in {"mkdir", "touch"} /\ st.out = <<>> /\ st.in = <<>> ->
             literalOperands(argv, IF argv[1] = "mkdir" THEN {"-p"} ELSE {})
      [] argv # <<>> /\ argv[1] = "tee" /\ literalHarmlessTeeInput(st) ->
             literalOperands(argv, {"-a", "--append"})
      [] argv # <<>> /\ argv[1] \in {":", "true", "echo", "printf"} ->
             IF argv[1] = "printf" /\ Len(argv) > 1 /\ Lex(argv[2]).kind = "short"
                /\ Lex(argv[2]).letters[1] = "-v"
             THEN None ELSE literalOutputRedirectTargets(st)
      [] OTHER -> None

literalStatementMatchesSimple(st, s) ==
    /\ Texts(st.words) = s.argv /\ Texts(st.out) = s.out /\ Texts(st.in) = s.in
    /\ \A j \in DOMAIN st.out : literalNF14Word(st.out[j])
    /\ \A j \in DOMAIN st.in : literalNF14Word(st.in[j])

PriorConfined(st, s, root, cwd) ==
    LET w == literalNonLinkWriteTargets(st, Texts(st.words))
    IN  /\ literalDirectCall(st) /\ w.ok /\ literalStatementMatchesSimple(st, s)
        /\ \A j \in DOMAIN w.words : literalPathConfinedTo(w.words[j], root, cwd)

(* Is the deletion of the i-th command exempt from the doubt that the     *)
(* commands before it changed what it deletes?                            *)
ExemptAt(stmts, simples, i, r) ==
    /\ r.exact /\ ~hasRawDotDot(r.roots[1].v)
    /\ ~simples[i].cwdUnknown /\ ~pathHasSymlinkBelowTempRoot(r.roots[1].v, simples[i].cwd)
    /\ i > 1
    /\ \A j \in 1..(i - 1) :
           PriorConfined(stmts[j], simples[j], r.roots[1].v, simples[i].cwd)
literalWriteFindExemptions(stmts, simples, i, find) ==
    /\ literalCommandList(stmts) /\ Len(stmts) >= 2 /\ i <= Len(stmts)
    /\ literalDirectCall(stmts[i]) /\ stmts[i].out = <<>> /\ stmts[i].in = <<>>
    /\ Texts(stmts[i].words) = simples[i].argv /\ simples[i].argv[1] = "find"
    /\ ExemptAt(stmts, simples, i, find.parsed)

(***************************************************************************)
(* What find may delete and write.                                         *)
(***************************************************************************)
Overlap(p, r) == p = Root \/ r = Root \/ IsPrefix(p, r) \/ IsPrefix(r, p)
findRootOverlapsRepository(c) ==
    /\ ~Floating(c)
    /\ \E f \in {g \in pathCandidateForms(c, resolvePathCandidate(c)) : g.abs} :
       \E r \in {Repo, ResolveThroughExistingAncestor(Repo).path} : Overlap(Clean(f.parts), r)

DeletionRefused(r, s, exempt) ==
    \/ ~r.exact
    \/ s.fs /\ ~exempt
    \/ findRootOverlapsRepository(PathOf(s, r.roots[1].v))
    \/ ~authorizedPath(PathOf(s, r.roots[1].v), {}, {}, systemTempRoots, FALSE).ok
checkFindActions(r, s, exempt) ==
    CASE (r.managed /\ DeletionRefused(r, s, exempt)) \/ r.unsure -> Ask("P1.find-delete")
      [] ~(r.managed /\ DeletionRefused(r, s, exempt)) /\ ~r.unsure
         /\ \E j \in DOMAIN r.outputs : ~WriteAuthorized(PathOf(s, r.outputs[j].v)) ->
             Ask("P1.out-of-repo-write")
      [] OTHER -> Pass

(***************************************************************************)
(* A value that is not known before the command runs.                      *)
(***************************************************************************)
knownInertOperandGrammar(name) ==
    name \in pathOperandCommands
                 \cup {":", "true", "false", "echo", "printf", "pwd", "test", "["}

(* A reading cmdlet whose only unknowns are such prefixes.                *)
psEnvReadIsResolved(s) ==
    LET open == {i \in DOMAIN s.argv : wordUnresolved(s, i)}
    IN  /\ head(s.argv) \in psReadOnlyCmdlets /\ open # {} /\ 1 \notin open
        /\ \A i \in open : EnvOnly(s.argv[i])

printsOnlyToSession(s) ==
    /\ s.plain /\ ~s.cwdUnknown /\ ~s.gitUnknown /\ s.argv # <<>> /\ s.pipes = {}
    /\ 1 \notin s.resolved /\ ~wordUnresolved(s, 1)
    /\ \/ s.argv[1] = "echo"
       \/ /\ s.argv[1] = "printf" /\ Len(s.argv) > 1
          /\ ~wordUnresolved(s, 2) /\ ~Dashed(s.argv[2])

cwdIndependentBuiltin(s) ==
    /\ s.cwdOnly /\ ~s.gitUnknown /\ s.argv # <<>> /\ ~HasRedirects(s) /\ 1 \notin s.resolved
    /\ \/ s.argv[1] \in {":", "true", "false", "echo", "pwd"}
       \/ s.argv[1] = "printf" /\ \A j \in 2..Len(s.argv) : ~Dashed(s.argv[j])

(* The word an operand was read from: the next one that ends with it, or  *)
(* the first.                                                             *)
Yields(w, v) == w = v \/ (Lex(w).attached /\ Lex(w).value = v) \/ v \in Range(Lex(w).tails)
operandSourceArg(argv, v, start) ==
    LET later == {j \in start..Len(argv) : Yields(argv[j], v)}
        any == {j \in 2..Len(argv) : Yields(argv[j], v)}
        least(S) == CHOOSE j \in S : \A k \in S : j <= k
    IN  CASE later # {} -> least(later) [] later = {} /\ any # {} -> least(any) [] OTHER -> 0
parseOperandRolesWithSources(argv, ops) ==
    FoldLeft(LAMBDA acc, e :
                 LET at == operandSourceArg(argv, e.v, acc.start)
                 IN  [start |-> IF at >= acc.start THEN at + 1 ELSE acc.start,
                      from |-> Append(acc.from, at)],
             [start |-> 2, from |-> <<>>], ops).from

OpenOperand(s, open, ops, from) ==
    LET known == knownInertOperandGrammar(head(s.argv))
    IN  \/ \E j \in DOMAIN ops : from[j] \in open /\ (ops[j].role # "data" \/ ~known)
        \/ \E i \in open \ {1} : ~known \/ i \notin Range(from)
unresolvedPolicyPosition(s) ==
    LET open == {i \in DOMAIN s.argv : wordUnresolved(s, i)}
        ops == parseOperandRoles(s.argv).ops
    IN  /\ s.unres
        /\ \/ 1 \in open \/ redirectsUnresolved(s)
           \/ /\ ~psEnvReadIsResolved(s) /\ ~printsOnlyToSession(s)
              /\ \/ OpenOperand(s, open, ops, parseOperandRolesWithSources(s.argv, ops))
                 \/ open = {} /\ ~cwdIndependentBuiltin(s)

(***************************************************************************)
(* Commands that destroy or escalate whatever they are given.              *)
(***************************************************************************)
checkDiskDestroyers(s) ==
    CASE head(s.argv) = "dd"
         /\ \E j \in 2..Len(s.argv) :
                /\ Lex(s.argv[j]).attached /\ Lex(s.argv[j]).name = "of"
                /\ LET p == PathText(Lex(s.argv[j]).value)
                   IN  p.abs /\ Len(p.parts) > 1 /\ p.parts[1] = "dev" -> Deny("P1.dd")
      [] head(s.argv) \in {"mkfs", "mkfs.ext4", "mke2fs", "wipefs", "format-volume"} ->
             Deny("P1.mkfs")
      [] head(s.argv) \in {"shred", "srm"} -> Deny("P1.shred")
      [] OTHER -> Pass

Escalators == {"sudo", "su", "doas", "pkexec", "run0", "systemd-run", "flatpak-spawn",
               "toolbox", "distrobox-host-exec", "parallel"}
RedirectRefused(s, w) ==
    LET c == PathOf(s, w)
    IN  /\ ~Floating(c) /\ ~Device(w)
        /\ ~authorizedPath(c, {Repo}, SafeRoots, strictWriteRoots(c), FALSE).ok
checkAskTier(s) ==
    LET name == head(s.argv)
        recursive == hasAnyFlag(s.argv, {"--recursive"}, {"-R"})
    IN  CASE name \in Escalators -> Deny("P1.privesc")
          [] name = "chmod" /\ (recursive \/ Range(nonFlagArgs(s.argv)) \cap {"777", "0777"} # {}) ->
                 Ask("P1.chmod")
          [] name = "chown" /\ recursive -> Ask("P1.chown")
          [] name = "truncate" -> Ask("P1.truncate")
          [] name \in {"rmdir", "rd"} -> Ask("P1.rmdir")
          [] name \in {"killall", "pkill"} \/ (name = "kill" /\ hasAnyFlag(s.argv, {}, {"-9"})) ->
                 Ask("P1.kill")
          [] OTHER -> IF \E j \in DOMAIN s.out : RedirectRefused(s, s.out[j])
                      THEN Ask("P1.redirect") ELSE Pass

(***************************************************************************)
(* The guardrail's own commands.                                           *)
(***************************************************************************)
selfControlSubcommands == {"night", "setup", "plane", "operator", "recover", "web-research",
                           "egress", "hook", "approvals"}
harmlessApprovalsQuery(argv) ==
    Len(argv) >= 3 /\ argv[2] = "approvals" /\ argv[3] \in {"list", "revoke"}
readOnlyStatusQuery(argv) ==
    Len(argv) = 3 /\ argv[2] \in {"night", "plane", "web-research"} /\ argv[3] = "status"

isOpaqueExecutor(name) ==
    name \in {"python", "python3", "node", "deno", "bun", "perl", "ruby", "php", "lua", "awk",
              "powershell", "pwsh"}
isTerminalWrapper(name) ==
    name \in {"script", "expect", "unbuffer", "winpty", "tmux", "screen", "socat", "dtach",
              "abduco", "empty", "faketty", "mintty", "wt", "conhost"}
Hides(s) == isOpaqueExecutor(head(s.argv)) \/ isTerminalWrapper(head(s.argv))

checkSelfControlInvocation(s, text) ==
    IF \/ /\ Len(s.argv) >= 2
          /\ \/ head(s.argv) = "guardrail"
             \/ wordUnresolved(s, 1) /\ Mentions(s.argv[1], "")
          /\ s.argv[2] \in selfControlSubcommands
          /\ ~readOnlyStatusQuery(s.argv) /\ ~harmlessApprovalsQuery(s.argv)
       \/ Hides(s) /\ \E c \in selfControlSubcommands : Mentions(text, c)
    THEN Deny("P5.self-config") ELSE Pass

checkGuardrailUpdate(s, text) ==
    IF \/ /\ Len(s.argv) >= 2 /\ head(s.argv) = "guardrail"
          /\ \/ s.argv[2] = "rollback"
             \/ /\ s.argv[2] = "update" /\ Len(s.argv) >= 3
                /\ ~wordUnresolved(s, 3) /\ Older(s.argv[3])
       \/ Hides(s) /\ \E c \in {"update", "rollback"} : Mentions(text, c)
    THEN Deny("P5.self-config") ELSE Pass
=============================================================================
