------------------------------ MODULE ToolRules ------------------------------
(***************************************************************************)
(* The rules about single programs: containers, gh, the go toolchain,      *)
(* power, the verbs of cmd and ripgrep (internal/engine/rules_bash.go,     *)
(* rules_gh.go, rules_gh_porcelain.go, rules_go.go, rules_power.go,        *)
(* rules_cmd.go, rules_rg.go).  Words are in lower case, a switch of cmd   *)
(* stands without its value, and the tables keep one or two entries of     *)
(* each kind.                                                              *)
(***************************************************************************)
EXTENDS FindRules, GitRules, NetRules

(***************************************************************************)
(* The path rules, checkPathsAnalysis of internal/engine/rules_path.go:    *)
(* every path a call names is held against the secret tiers and the links  *)
(* of the file system, every path it writes against the files of git, of   *)
(* the guardrail and of the build.                                         *)
(***************************************************************************)
CONSTANTS TextShaped(_),      \* a word that cannot be one path: it holds quotes or braces
          VisiblePaths(_),    \* the path-like pieces of a word
          OperatorPath(_),    \* a path of the operator's configuration
          InstalledBinary(_), \* a path of the installed binary
          Expansions(_)       \* the installed paths a wildcard would match

(***************************************************************************)
(* The secret tiers.  A directory of secrets stays denied whatever is      *)
(* waived or allowed; the ask tier asks inside the repository and denies   *)
(* outside it.                                                             *)
(***************************************************************************)
Worst(V) == IF V = {} THEN Pass
            ELSE CHOOSE v \in V : \A u \in V : Severity[v.d] >= Severity[u.d]

FormVerdicts(c, f) ==
    IF GlobMatch("secret-allow", f.parts) THEN {}
    ELSE (IF GlobMatch("secret-globs", f.parts) THEN {Deny("P4.secret-path")} ELSE {})
         \cup (IF ~GlobMatch("secret-ask", f.parts) THEN {}
               ELSE IF ~PathText(c.path).home /\ repoRelative(f, c.cwd) # {}
                    THEN {Ask("P4.secret-path-ambiguous")} ELSE {Deny("P4.secret-path")})

classifySecretPathOperand(c, forms, waived) ==
    IF \E f \in forms : GlobMatch("secret-dirs", f.parts) THEN Deny("P4.secret-path")
    ELSE Worst({v \in UNION {FormVerdicts(c, f) : f \in forms} : v.rule \notin waived})

classifySecretPath(c, waived) ==
    LET v == classifySecretPathOperand(c, pathCandidateForms(c, resolvePathCandidate(c)), waived)
    IN  CASE v.d # "deny" \/ ~TextShaped(c.path) -> v
          [] v.d = "deny" /\ TextShaped(c.path) /\ "P4.secret-in-text" \in waived -> Pass
          [] OTHER -> Deny("P4.secret-in-text")

(***************************************************************************)
(* The candidates of a command.  finds gives, for a find, its analysis.    *)
(***************************************************************************)
Words(s, ws) == {PathOf(s, w) : w \in ws}
OpaquePaths(ops) ==
    UNION {{p \in VisiblePaths(ops[j].v) : LooksLikePath(p)} :
           j \in {k \in DOMAIN ops : ops[k].role # "data"}}

SimplePaths(s, parsed) ==
    Words(s, PathOperands(parsed)
             \cup (IF isOpaqueExecutor(head(s.argv)) THEN OpaquePaths(parsed.ops) ELSE {})
             \cup Range(s.out) \cup Range(s.in)
             \cup (IF s.argv = <<>> THEN {} ELSE Range(writeTargets(s.argv))))

Marked(marks) == {marks[j].v : j \in DOMAIN marks}
findRootCandidates(r, s) == Words(s, {w \in Marked(r.roots) : LooksLikePath(w)})
findOutputCandidates(r, s) == Words(s, Marked(r.outputs))
findReadPathCandidates(r, s) == Words(s, Marked(r.reads))

IsFind(s) == head(s.argv) = "find"
FindPaths(s, find) ==
    findRootCandidates(find.parsed, s) \cup findOutputCandidates(find.parsed, s)
        \cup findReadPathCandidates(find.parsed, s)
        \cup Words(s, Range(s.out) \cup Range(s.in))

(* parsePrivatePathsAnalysis: the paths, and whether reading them failed. *)
(* Of a find, its own paths and those of the commands it runs.            *)
ParsedPaths(s, parsed) == [paths |-> SimplePaths(s, parsed), unsure |-> parsed.unsure]
AllPaths(own, each) == [paths |-> own \cup UNION {p.paths : p \in each},
                        unsure |-> \E p \in each : p.unsure]
parsePrivatePathsAnalysis(s, find) ==
    AllPaths(IF IsFind(s) THEN FindPaths(s, find) ELSE {},
             {ParsedPaths(c, parseOperandRoles(c.argv)) :
                 c \in IF IsFind(s) THEN Range(find.callbacks) ELSE {s}})

SimpleWrites(s) ==
    Words(s, Range(s.out) \cup (IF s.argv = <<>> THEN {} ELSE Range(writeTargets(s.argv))))
writeCandidatesAnalysis(s, find) ==
    SimpleWrites(s) \cup
    (IF IsFind(s) THEN findOutputCandidates(find.parsed, s)
                       \cup UNION {SimpleWrites(c) : c \in Range(find.callbacks)}
     ELSE {})

(***************************************************************************)
(* The rules about writes.                                                 *)
(***************************************************************************)
Scoped(c, anywhere, rootOnly) ==
    matchesScoped(c, anywhere, rootOnly, pathCandidateForms(c, resolvePathCandidate(c)))

checkGitProtectedPathCandidates(writes) ==
    IF \E c \in writes : Scoped(c, "git-protected", "none")
    THEN Deny("P2.git-protected-path") ELSE Pass

checkCIInfraLockfileCandidates(writes) ==
    IF \E c \in writes : Scoped(c, "ci", "ci-root") THEN Ask("P5.ci-infra-lockfile") ELSE Pass

(* Cmdlets that write, and wildcards that match the installed binary.     *)
powershellWriteCandidates(s) ==
    IF s.argv = <<>> THEN {} ELSE Words(s, Range(powershellWriteTargets(s.argv)))
binaryWildcardExpansions(C) ==
    C \cup UNION {{[c EXCEPT !.path = w] : w \in Expansions(c.path)} : c \in C}

movedAwayBinary(s) ==
    /\ head(s.argv) = "mv"
    /\ \E c \in binaryWildcardExpansions(Words(s, Range(moveSourceTargets(
                    parseDestinationArgs(s.argv, mutatingDestinationCommands["mv"]))))) :
           Scoped(c, "binary", "none")

posixOperands(argv) ==
    Scan(argv, 2, [Grammar EXCEPT !.permute = TRUE, !.lenient = TRUE], Scanned).rest
isInstallDirectory(w, cwd) ==
    LET p == IF PathText(w).home \/ PathText(w).abs THEN Clean(PathText(w).parts)
             ELSE Clean(cwd \o PathText(w).parts)
    IN  Len(p) >= 2 /\ SubSeq(p, Len(p) - 1, Len(p)) = <<".local", "bin">>
deletedInstallDirectory(s) ==
    LET posix == head(s.argv) = "rm"
                 \/ (head(s.argv) = "rmdir" /\ ~psCmdletShaped(s.argv, removeItemParams))
        targets == CASE posix -> posixOperands(s.argv)
                     [] ~posix /\ head(s.argv) \in removeItemAliases ->
                            bindPS(s.argv, removeItemParams).operands
                     [] OTHER -> <<>>
    IN  \E w \in Range(targets) : isInstallDirectory(w, s.cwd)

OpaqueMention(s) ==
    /\ isOpaqueExecutor(head(s.argv))
    /\ \E j \in 2..Len(s.argv) : \E p \in VisiblePaths(s.argv[j]) :
           OperatorPath(p) \/ InstalledBinary(p)

(* The self-configuration rule for one command.                           *)
checkSelfConfigCandidatesAnalysis(s, writes, goInstall) ==
    IF \/ \E c \in binaryWildcardExpansions(writes \cup powershellWriteCandidates(s)) :
              Scoped(c, "self-config", "self-config-root")
       \/ movedAwayBinary(s) \/ deletedInstallDirectory(s) \/ goInstall \/ OpaqueMention(s)
    THEN Deny("P5.self-config") ELSE Pass

(* Only the file tools write through checkOutOfRepoWrite.                 *)
checkOutOfRepoWrite(paths) ==
    IF \E w \in paths :
           LET c == Candidate(w, SessionCwd, FALSE)
               a == authorizedPath(c, {Repo}, {}, strictWriteRoots(c), FALSE)
           IN  ~a.ok /\ ~(~a.lexical /\ PathText(w).abs /\ sameRepository(Abs(w, SessionCwd)))
    THEN Ask("P5.out-of-repo") ELSE Pass

----------------------------------------------------------------------------
CONSTANTS Begins(_, _),      \* a word begins with a text
          Holds(_, _),       \* a word contains a text
          GhPath(_),         \* the names of a GitHub API endpoint
          RemoteModule(_),   \* a Go package named by a module path
          PackageBase(_)     \* the last name of a Go package, without its version

Given1(argv, names) == \E j \in DOMAIN argv : NameOf(argv[j]) \in names
hasBareFlag(argv, flag) == Given1(argv, {flag})
hasFlag(argv, names) == Given1(Tail(argv), names)
Word(ws, i) == IF i \in DOMAIN ws THEN ws[i] ELSE ""

(***************************************************************************)
(* Containers.                                                             *)
(***************************************************************************)
chainHasPrefix(chain, want) == IsPrefix(want, chain)
commandHasSubstitution(text) == Holds(text, "$(")
ChainVerdict(bad, chain, text) ==
    IF bad THEN Ask("P3.unresolved")
    ELSE IF chainHasPrefix(chain, <<"compose", "down">>) THEN Deny("P1.docker-down")
    ELSE IF \/ Word(chain, 1) \in dockerSubcommandGroups /\ Word(chain, 2) = "prune"
            \/ chainHasPrefix(chain, <<"prune">>) THEN Deny("P1.docker-prune")
    ELSE IF /\ \E w \in {<<"rm">>, <<"kill">>, <<"volume", "rm">>, <<"network", "rm">>} :
                   chainHasPrefix(chain, w)
            /\ commandHasSubstitution(text)
         THEN Deny("P1.docker-substituted") ELSE Pass
DockerVerdict(c, compose, text) ==
    ChainVerdict(c.bad, (IF compose THEN <<"compose">> ELSE <<>>) \o c.words, text)
checkDocker(s, text) ==
    IF head(s.argv) \notin DOMAIN dockerGlobalOptionSpecs \cup {"docker-compose"} THEN Pass
    ELSE DockerVerdict(parseDockerSubcommandChain(s.argv), head(s.argv) = "docker-compose", text)

(***************************************************************************)
(* gh api                                                                  *)
(***************************************************************************)
ghAPIBodyFlags == {"-f", "-F", "--field", "--raw-field", "--input"}
GhApi == [Exact EXCEPT !.values = {"-X", "--method", "-H", "--header", "--hostname", "--jq",
                                   "--cache"} \cup ghAPIBodyFlags,
                       !.permute = TRUE, !.lenient = TRUE]
(* Of several methods the last counts; a body without one means POST.     *)
ghAPIMethod(argv) ==
    LET says == [j \in DOMAIN argv |->
                    CASE j > 3 /\ argv[j - 1] \in {"-X", "--method"} -> argv[j]
                      [] NameOf(argv[j]) = "--method" /\ Lex(argv[j]).attached -> Lex(argv[j]).value
                      [] OTHER -> ""]
        M == {j \in 3..Len(argv) : says[j] # ""}
        body == \E j \in 3..Len(argv) : argv[j] \in ghAPIBodyFlags
                    \/ (Lex(argv[j]).kind = "long" /\ NameOf(argv[j]) \in ghAPIBodyFlags)
    IN  CASE M # {} -> says[CHOOSE j \in M : \A k \in M : k <= j]
          [] M = {} /\ body -> "POST"
          [] OTHER -> "GET"
ghAPIEndpoint(argv) == Word(Scan(argv, 3, GhApi, Scanned).rest, 1)

ghProtectionPaths == {<<"rulesets">>, <<"branches">>, <<"actions", "permissions">>,
                      <<"actions", "secrets">>, <<"environments">>, <<"collaborators">>,
                      <<"hooks">>, <<"keys">>}
ghNormalizedAPIPath(endpoint) == GhPath(endpoint)
(* The repository itself, or a protection family below it or its owner.   *)
ghPathRewritesProtection(p) ==
    LET tail == CASE Word(p, 1) = "repos" -> From(p, 4)
                  [] Word(p, 1) = "orgs" -> From(p, 3)
                  [] OTHER -> <<>>
    IN  \/ Word(p, 1) = "repos" /\ Len(p) = 3
        \/ \E f \in ghProtectionPaths : IsPrefix(f, tail)
ghGraphqlMutates(argv) == \E j \in 3..Len(argv) : Holds(argv[j], "mutation")

checkGhAPIProtection(s) ==
    LET endpoint == ghAPIEndpoint(s.argv)
    IN  IF /\ head(s.argv) = "gh" /\ Len(s.argv) >= 3 /\ s.argv[2] = "api"
           /\ ghAPIMethod(s.argv) \notin {"GET", "HEAD"}
           /\ IF endpoint = "graphql" THEN ghGraphqlMutates(s.argv)
              ELSE ghPathRewritesProtection(ghNormalizedAPIPath(endpoint))
        THEN Ask("P2.gh-protection") ELSE Pass

(***************************************************************************)
(* gh subcommands.                                                         *)
(***************************************************************************)
ghPorcelainRules ==
    (<<"repo", "delete">> :> Deny("P2.gh-repo-delete")) @@
    (<<"secret", "set">> :> Ask("P2.gh-protection")) @@
    (<<"repo", "edit">> :> Ask("P2.gh-protection")) @@
    (<<"ruleset", "delete">> :> Ask("P2.gh-protection")) @@
    (<<"repo", "archive">> :> Ask("P2.gh-repo-admin")) @@
    (<<"auth", "switch">> :> Ask("P2.gh-auth-scope")) @@
    (<<"auth", "logout">> :> Ask("P2.gh-auth-logout")) @@
    (<<"ssh-key", "add">> :> Ask("P2.gh-account-key")) @@
    (<<"release", "create">> :> Ask("P6.publish")) @@
    (<<"pr", "merge">> :> Ask("P2.gh-pr-merge")) @@
    (<<"workflow", "run">> :> Ask("P2.gh-workflow-dispatch"))
ghScopeFlags == {"-s", "--scopes", "--scope"}
ghGroupVerb(argv) ==
    LET ws == nonFlagArgs(argv) IN IF Len(ws) >= 2 THEN SubSeq(ws, 1, 2) ELSE ws
ghHasFlag(argv, flag) ==
    \E j \in 2..Len(argv) : NameOf(argv[j]) = flag /\ \A k \in 2..j : argv[k] # "--"
ghHasScopeFlag(argv) == Given1(argv, ghScopeFlags)

checkGhPorcelain(s) ==
    LET gv == ghGroupVerb(s.argv)
    IN  IF head(s.argv) # "gh" THEN Pass
        ELSE IF \/ gv \in {<<"auth", "refresh">>, <<"auth", "login">>} /\ ghHasScopeFlag(s.argv)
                \/ gv = <<"auth", "login">> /\ ghHasFlag(s.argv, "--with-token")
             THEN Ask("P2.gh-auth-scope")
        ELSE IF gv \in DOMAIN ghPorcelainRules THEN ghPorcelainRules[gv] ELSE Pass

(***************************************************************************)
(* The go toolchain.                                                       *)
(***************************************************************************)
goRedirectEnvironment == {"GOPROXY", "GOFLAGS", "GONOSUMDB", "GOSUMDB", "GOINSECURE", "GOPRIVATE"}
(* From the subcommand on.                                                *)
RECURSIVE goSubcommand(_)
goSubcommand(ws) ==
    CASE ws = <<>> -> <<>>
      [] ws # <<>> /\ ws[1] \in {"-C", "--C"} -> IF Len(ws) < 2 THEN <<>> ELSE goSubcommand(From(ws, 3))
      [] ws # <<>> /\ ws[1] \notin {"-C", "--C"} /\ NameOf(ws[1]) \in {"-C", "--C"} ->
             goSubcommand(Tail(ws))
      [] OTHER -> ws

Operand1(ws) == Word(SelectSeq(ws, LAMBDA w : ~Dashed(w)), 1)
goRemotePackagePath(w) == w # "" /\ RemoteModule(w)
goRemotePackage(ws) == goRemotePackagePath(Operand1(ws))

goEnvWriteAssignment(ws) ==
    \E i, j \in DOMAIN ws : /\ i < j /\ ws[i] \in {"-w", "--w"}
                            /\ Lex(ws[j]).attached /\ NameOf(ws[j]) \in goRedirectEnvironment
checkGoGenerate(ws) ==
    IF \E j \in DOMAIN ws : ws[j] \in {"-n", "--n"} /\ \A k \in 1..(j - 1) : ws[k] # "--"
    THEN Pass ELSE Ask("P1.go-generate")
goBuiltinTools == {"asm", "cgo", "compile", "cover", "doc", "fix", "link", "nm", "pprof",
                   "trace", "vet"}
RECURSIVE checkGoTool(_)
checkGoTool(ws) ==
    CASE ws = <<>> -> Pass
      [] ws # <<>> /\ ws[1] \in {"-n", "--n"} -> Pass
      [] ws # <<>> /\ ws[1] \in {"-modfile", "--modfile"} -> checkGoTool(From(ws, 3))
      [] ws # <<>> /\ Dashed(ws[1]) /\ ws[1] \notin {"-n", "--n", "-modfile", "--modfile"} ->
             checkGoTool(Tail(ws))
      [] OTHER -> IF ws[1] \in goBuiltinTools THEN Pass ELSE Ask("P6.package-install")
checkGoInstall(ws) ==
    IF \E w \in Range(ws) : ~Dashed(w) /\ goRemotePackagePath(w)
    THEN Ask("P6.package-install") ELSE Ask("P1.out-of-repo-write")
checkGoMod(ws) ==
    CASE Word(ws, 1) = "download" -> Ask("P6.package-install")
      [] Word(ws, 1) = "edit" -> IF Given1(Tail(ws), {"-replace", "--replace"})
                                 THEN Deny("P6.registry-redirect") ELSE Ask("P5.ci-infra-lockfile")
      [] OTHER -> Pass

GoVerdict(sub, ws) ==
    CASE Given1(ws, {"-toolexec", "--toolexec", "-vettool", "--vettool"}) -> Ask("P1.toolexec")
      [] OTHER ->
         CASE sub = "env" -> IF goEnvWriteAssignment(ws) THEN Deny("P6.registry-redirect") ELSE Pass
           [] sub = "run" -> IF goRemotePackage(ws) THEN Ask("P6.package-install") ELSE Pass
           [] sub = "mod" -> checkGoMod(ws)
           [] sub = "generate" -> checkGoGenerate(ws)
           [] sub = "tool" -> checkGoTool(ws)
           [] sub = "install" -> checkGoInstall(ws)
           [] sub = "get" -> Ask("P6.package-install")
           [] OTHER -> Pass
checkGoToolchain(s) ==
    LET ws == goSubcommand(Tail(s.argv))
    IN  CASE head(s.argv) \notin {"go", "gofmt"} -> Pass
          [] head(s.argv) \in {"go", "gofmt"} /\ s.goEnv # {} -> Deny("P6.registry-redirect")
          [] OTHER -> IF head(s.argv) = "gofmt" \/ ws = <<>> THEN Pass
                      ELSE GoVerdict(ws[1], Tail(ws))

(* go install puts a program named guardrail where the binary is.         *)
goInstallsGuardrailInto(s) ==
    LET ws == goSubcommand(Tail(s.argv))
    IN  /\ head(s.argv) = "go" /\ s.goBin # "" /\ isInstallDirectory(s.goBin, s.cwd)
        /\ Word(ws, 1) = "install"
        /\ \E j \in 2..Len(ws) : ~Dashed(ws[j]) /\ PackageBase(ws[j]) \in {"guardrail", "..."}

(***************************************************************************)
(* Power, the verbs of cmd, ripgrep.                                       *)
(***************************************************************************)
powerOffCommands == {"reboot", "poweroff", "halt"}
powerOffVerbs == {"reboot", "poweroff", "halt"}
checkShutdownFlags(ws) ==
    LET quiet == Range(ws) \cap {"-c", "-k"} # {}
        odd == \E w \in Range(ws) \ {"-c", "-k"} : Dashed(w) \/ SlashSwitch(w)
    IN  IF Range(ws) \cap {"--help", "/?", "/a"} # {} THEN Pass
        ELSE IF odd \/ ~quiet THEN Ask("P1.power") ELSE Pass
checkPowerControl(s) ==
    LET name == head(s.argv)
        ws == Tail(s.argv)
    IN  CASE name \in powerOffCommands -> Ask("P1.power")
          [] name = "shutdown" -> checkShutdownFlags(ws)
          [] name = "systemctl" -> IF Operand1(ws) \in powerOffVerbs THEN Ask("P1.power") ELSE Pass
          [] name \in {"init", "telinit"} -> IF Word(ws, 1) \in {"0", "6"} THEN Ask("P1.power") ELSE Pass
          [] name \in {"stop-computer", "restart-computer"} ->
                 IF "-whatif" \in Range(ws) THEN Pass ELSE Ask("P1.power")
          [] OTHER -> Pass

cmdSwitch(w, known) == w \in known
cmdDeleteAliases == {"del", "erase", "rd", "rmdir"}
cmdDeleteSwitches == {"/s", "/q", "/f", "/a", "/p"}
checkCmdDelete(s) ==
    LET ws == Tail(s.argv)
        deep == \E w \in Range(ws) : cmdSwitch(w, {"/s"})
        force == \E w \in Range(ws) : cmdSwitch(w, {"/q", "/f"})
        operands == SelectSeq(ws, LAMBDA w : ~cmdSwitch(w, cmdDeleteSwitches))
        flags == CASE deep /\ force -> "-rf" [] deep /\ ~force -> "-r" [] OTHER -> "-f"
    IN  IF head(s.argv) \notin cmdDeleteAliases \/ ~(deep \/ force) \/ operands = <<>> THEN Pass
        ELSE checkRmRf(commandDerivedFromAt(s, <<"rm", flags>> \o operands, -1))

cmdDiskDestroyers == {"diskpart"}
cmdFormatSwitches == {"/fs", "/v", "/q", "/y"}
cmdShapedFormat(argv) ==
    \E j \in 2..Len(argv) : cmdSwitch(argv[j], cmdFormatSwitches) \/ argv[j] = "d:"
checkCmdDiskDestroyer(s) ==
    IF \/ head(s.argv) \in cmdDiskDestroyers
       \/ head(s.argv) = "format" /\ cmdShapedFormat(s.argv)
    THEN Deny("P1.mkfs") ELSE Pass

checkRgPreprocessor(s) ==
    IF head(s.argv) = "rg" /\ ghHasFlag(s.argv, "--pre") THEN Ask("P1.rg-preprocessor") ELSE Pass
=============================================================================
