------------------------------ MODULE GitRules ------------------------------
(***************************************************************************)
(* The rules about git: internal/engine/rules_git.go, worktree.go and the  *)
(* git part of rules_bash.go.  What a refspec says is given by RefSpec:    *)
(* whether it forces, whether its source is empty, the branch it names and *)
(* its name space.  Configuration keys are taken in lower case, one        *)
(* standing for each protected or approved prefix.  The environment of the *)
(* process sets none of git's variables; a command may.                    *)
(***************************************************************************)
EXTENDS FileRules, TLC

CONSTANTS RefSpec(_),  \* a refspec as [force, empty, branch, space]
          GitFile      \* the contents of .git and commondir files

(***************************************************************************)
(* The subcommand and its options.                                         *)
(***************************************************************************)
gitValueFlags == {"-C", "-c", "--namespace", "--git-dir", "--work-tree", "--exec-path",
                  "--attr-source", "--super-prefix", "--config-env"}
gitValuelessGlobals == {"-p", "-P", "--no-pager", "--paginate", "--bare", "--literal-pathspecs",
                        "--no-replace-objects", "--help", "--version", "--no-optional-locks"}

GitGlobals == [Exact EXCEPT !.values = gitValueFlags, !.lenient = TRUE]
(* The words from the subcommand on.                                      *)
gitSubcommandIndex(argv) == Scan(argv, 2, GitGlobals, Scanned).rest
gitSubcommand(argv) == LET r == gitSubcommandIndex(argv) IN IF r = <<>> THEN "" ELSE r[1]
gitSubcommandArg(argv) ==
    LET r == gitSubcommandIndex(argv) IN IF Len(r) < 2 THEN "" ELSE r[2]
GlobalArgs(argv) == SubSeq(argv, 2, Len(argv) - Len(gitSubcommandIndex(argv)))

RECURSIVE gitSubcommandUnknownFlag(_, _)
gitSubcommandUnknownFlag(argv, i) ==
    IF i > Len(argv) \/ ~Dashed(argv[i]) THEN FALSE
    ELSE LET s == Lex(argv[i])
             base == IF s.kind = "long" THEN s.name ELSE argv[i]
         IN  CASE base \in gitValueFlags ->
                      gitSubcommandUnknownFlag(argv, IF s.attached THEN i + 1 ELSE i + 2)
               [] base \notin gitValueFlags
                  /\ (base \in gitValuelessGlobals \/ s.kind \in {"short", "dash"}) ->
                      gitSubcommandUnknownFlag(argv, i + 1)
               [] OTHER -> TRUE

GitOptions(flags, values, optional) ==
    [Grammar EXCEPT !.flags = flags, !.values = values, !.optional = optional,
                    !.abbrev = TRUE, !.permute = TRUE, !.lenient = TRUE]
gitUpdateRefLongOptions == GitOptions({"-d", "--no-deref", "--stdin"}, {"-m"}, {})
gitSwitchLongOptions ==
    GitOptions({"--detach", "--discard-changes", "--force", "--merge"},
               {"-c", "-C", "--create", "--conflict"}, {"--track"})
gitRmLongOptions == GitOptions({"-r", "-f", "--force", "--cached", "--quiet"},
                               {"--pathspec-from-file"}, {})
CleanOptions == [GitOptions({"-n", "--dry-run"}, {"-e", "--exclude"}, {})
                     EXCEPT !.abbrev = FALSE]

gitOptionPresent(argv, names, options) ==
    Given(Scan(gitSubcommandIndex(argv), 2, options, Scanned), names)

gitCleanDryRun(argv) == gitOptionPresent(argv, {"-n", "--dry-run"}, CleanOptions)

(***************************************************************************)
(* git push.  Of an option and its negation the last one counts.           *)
(***************************************************************************)
gitPushLongOptions ==
    GitOptions({"-f", "-d", "-u", "--force", "--no-force", "--delete", "--no-delete",
                "--tags", "--no-tags", "--dry-run", "--atomic", "--no-force-with-lease"},
               {"-o", "--repo", "--push-option"}, {"--force-with-lease", "--signed"})

LastSays(p, yes, no) ==
    LET T == {j \in DOMAIN p.opts : p.opts[j].o \in yes \cup no}
    IN  T # {} /\ p.opts[CHOOSE j \in T : \A k \in T : k <= j].o \in yes

PushArgs(p) ==
    [force |-> LastSays(p, {"-f", "--force"}, {"--no-force"}),
     lease |-> LastSays(p, {"--force-with-lease"}, {"--no-force-with-lease"}),
     delete |-> LastSays(p, {"-d", "--delete"}, {"--no-delete"}),
     tags |-> LastSays(p, {"--tags"}, {"--no-tags"}),
     refs |-> {RefSpec(p.rest[j]) : j \in 2..Len(p.rest)}]
parseGitPushArgs(argv) == PushArgs(Scan(gitSubcommandIndex(argv), 2, gitPushLongOptions, Scanned))

PushVerdict(a) ==
    CASE a.force \/ a.lease -> Pass
      [] ~(a.force \/ a.lease) /\ \E r \in a.refs : r.force -> Deny("P2.git-push-force")
      [] OTHER ->
             IF a.delete \/ \E r \in a.refs : r.empty THEN Ask("P2.git-push-delete")
             ELSE IF \/ \E r \in a.refs : r.branch \in {"main", "master"}
                     \/ a.tags
                     \/ \E r \in a.refs : r.space \in {"tag", "version"}
                  THEN Ask("P2.git-push-protected") ELSE Pass

(***************************************************************************)
(* Which repository a git command acts on.                                 *)
(***************************************************************************)
IsDir(p) == \E q \in Files : Len(q) > Len(Real(p)) /\ IsPrefix(Real(p), q)
readSmallFile(p) == IF Stat(p) /\ Real(p) \in DOMAIN GitFile THEN {GitFile[Real(p)]} ELSE {}

readGitDirectoryFile(p) ==
    {resolvePath(f.target, Front(p)) : f \in {g \in readSmallFile(p) : g.kind = "gitdir"}}

tempRootBoundary(d) == {r \in systemTempRoots : r # Root /\ r # d /\ IsPrefix(r, d)}

(* The nearest .git above start; from inside the temporary directory the  *)
(* search never reaches that directory itself.                            *)
DotGit(d) == Append(d, ".git")
discoverGitDirectoryWithRoots(d) ==
    LET bounds == tempRootBoundary(d)
        low == IF bounds = {} THEN 0 ELSE Len(CHOOSE b \in bounds : TRUE) + 1
        found == {n \in low..Len(d) : Stat(DotGit(FirstN(d, n)))}
        at == DotGit(FirstN(d, CHOOSE n \in found : \A m \in found : m <= n))
    IN  IF found = {} THEN {} ELSE IF IsDir(at) THEN {at} ELSE readGitDirectoryFile(at)

(* -C and --git-dir among the words before the subcommand.                *)
normalizeGitIdentityArgs(ws) ==
    FlattenSeq([j \in DOMAIN ws |->
        LET s == Lex(ws[j])
        IN  IF s.kind = "short" /\ s.letters[1] = "-C" /\ s.tails[1] # ""
            THEN <<"-C", s.tails[1]>> ELSE <<ws[j]>>])

NoPlace == [ok |-> FALSE, cwd |-> Root, dir |-> ""]
RECURSIVE GitPlace(_, _, _)
GitPlace(ws, cwd, dir) ==
    LET s == Lex(ws[1])
    IN  CASE ws = <<>> -> [ok |-> TRUE, cwd |-> cwd, dir |-> dir]
          [] ws # <<>> /\ (ws[1] = "--bare" \/ (ws[1] \in {"-C", "--git-dir"} /\ Len(ws) = 1)) ->
                 NoPlace
          [] ws # <<>> /\ ws[1] = "-C" /\ Len(ws) > 1 ->
                 GitPlace(From(ws, 3), resolvePath(ws[2], cwd), dir)
          [] ws # <<>> /\ ws[1] = "--git-dir" /\ Len(ws) > 1 -> GitPlace(From(ws, 3), cwd, ws[2])
          [] OTHER -> GitPlace(Tail(ws), cwd, IF s.name = "--git-dir" /\ s.attached
                                              THEN s.value ELSE dir)

EnvOf(env, name) == IF name \in DOMAIN env THEN env[name] ELSE ""

CommonOf(gitDir, env, cwd) ==
    LET file == Append(gitDir, "commondir")
    IN  CASE EnvOf(env, "GIT_COMMON_DIR") # "" -> {resolvePath(EnvOf(env, "GIT_COMMON_DIR"), cwd)}
          [] EnvOf(env, "GIT_COMMON_DIR") = "" /\ Lstat(file) ->
                 {resolvePath(f.target, gitDir) : f \in readSmallFile(file)}
          [] OTHER -> {gitDir}

ResolvedDir(p) == IF p.ok /\ IsDir(p.path) THEN {p.path} ELSE {}
CommonAt(place, env) ==
    UNION {UNION {ResolvedDir(ResolveThroughExistingAncestor(c)) : c \in CommonOf(g, env, place.cwd)} :
           g \in {h \in (IF place.dir = "" THEN discoverGitDirectoryWithRoots(Clean(place.cwd))
                         ELSE {resolvePath(place.dir, place.cwd)}) : Stat(Append(h, "HEAD"))}}

(* The directory that holds the repository's configuration: at most one.  *)
gitCommonDirectory(ws, cwd, env) ==
    LET place == GitPlace(ws, cwd, EnvOf(env, "GIT_DIR"))
    IN  IF place.ok /\ EnvOf(env, "GIT_CEILING_DIRECTORIES") = "" THEN CommonAt(place, env) ELSE {}

(* A linked worktree of the session's repository.                         *)
sameRepository(target) ==
    \E t \in gitCommonDirectory(<<>>, Front(target), <<>>) :
    \E r \in gitCommonDirectory(<<>>, Repo, <<>>) : Real(t) = Real(r)

gitConfigPathUnderSystemTempRoot(p) ==
    LET target == ResolveThroughExistingAncestor(p)
        roots == {q.path : q \in {x \in {ResolveThroughExistingAncestor(r) :
                                         r \in systemTempRoots} : x.ok}}
    IN  target.ok /\ target.path \notin roots /\ \E r \in roots : IsPrefix(r, target.path)

(* A directory that the previous command initialised and that is not yet  *)
(* on disk as a repository.                                               *)
gitConfigUninitializedDirectory(ws, cwd, env, initialized) ==
    LET place == GitPlace(ws, cwd, "")
        d == Clean(place.cwd)
        bounds == tempRootBoundary(d)
        low == IF bounds = {} THEN 0 ELSE Len(CHOOSE b \in bounds : TRUE) + 1
    IN  IF /\ initialized /\ place.ok /\ place.dir = ""
           /\ \A v \in GitVariables : EnvOf(env, v) = ""
           /\ \A n \in low..Len(d) : ~Lstat(DotGit(FirstN(d, n)))
        THEN {d} ELSE {}

gitInitCurrentDirectory(s) ==
    LET r == gitSubcommandIndex(s.argv)
    IN  /\ head(s.argv) = "git" /\ ~s.cwdUnknown /\ r # <<>> /\ r[1] = "init"
        /\ \A j \in 2..Len(r) : r[j] \in {"-q", "--quiet", "--"}

gitConfigTargetsToolCallRepo(s) ==
    LET ws == normalizeGitIdentityArgs(GlobalArgs(s.argv))
        target == gitCommonDirectory(ws, s.cwd, s.gitEnv)
    IN  /\ ~s.cwdUnknown /\ ~s.gitUnknown
        /\ IF target # {}
           THEN \E t \in target :
                    \/ gitConfigPathUnderSystemTempRoot(t)
                    \/ \E r \in gitCommonDirectory(<<>>, Repo, <<>>) : t = r \/ Real(t) = Real(r)
           ELSE \E d \in gitConfigUninitializedDirectory(ws, s.cwd, s.gitEnv, s.gitInit) :
                    gitConfigPathUnderSystemTempRoot(d)

(***************************************************************************)
(* git config                                                              *)
(***************************************************************************)
ConfigScopes == {"--local", "--global", "--system", "--worktree", "--file", "--blob", "-f"}
ConfigOperations ==
    ("--add" :> {2}) @@ ("--replace-all" :> {2, 3}) @@ ("--unset" :> {1, 2}) @@
    ("--rename-section" :> {2}) @@ ("--remove-section" :> {1}) @@ ("--edit" :> {0}) @@
    ("-e" :> {0}) @@ ("--list" :> {0}) @@ ("-l" :> {0}) @@ ("--get" :> {1, 2}) @@
    ("--get-urlmatch" :> {2})
ConfigGrammar ==
    [Grammar EXCEPT
        !.flags = (DOMAIN ConfigOperations \cup ConfigScopes \cup {"--null", "--bool", "-z"})
                  \ {"--file", "--blob", "-f"},
        !.values = {"--file", "--blob", "--type", "-f"}, !.lenient = TRUE]

SameAs(o) == CASE o = "-e" -> "--edit" [] o = "-l" -> "--list" [] o = "-f" -> "--file" [] OTHER -> o
Chosen(p, names) ==
    LET mine == SelectSeq(p.opts, LAMBDA e : e.o \in names)
    IN  [j \in DOMAIN mine |-> SameAs(mine[j].o)]
Reads == {"positional", "--list", "--get", "--get-urlmatch"}
Sections == {"--rename-section", "--remove-section"}

ConfigOf(p, scopes, ops) ==
    LET op == IF ops = <<>> THEN "positional" ELSE Last(ops)
        n == Len(p.rest)
        valid == IF op = "positional" THEN n <= 3 ELSE n \in ConfigOperations[op]
        writes == op \in {"--add", "--replace-all", "--unset"} \/ (op = "positional" /\ n >= 2)
        scope == IF scopes = <<>> THEN "--local" ELSE Last(scopes)
    IN  [uncertain |->
             \/ p.bad \/ ~valid
             \/ \E j \in DOMAIN p.opts : p.opts[j].o \in ConfigGrammar.values /\ p.opts[j].v = ""
             \/ \E j \in 1..(Len(ops) - 1) : ops[j] # ops[j + 1]
             \/ \E j \in 1..(Len(scopes) - 1) : scopes[j] \notin {"--local", scopes[j + 1]}
             \/ (scope = "--blob" /\ (writes \/ op \notin Reads \/ op = "positional")),
         operation |-> IF writes THEN "write" ELSE op,
         scope |-> scope,
         subjects |-> CASE valid /\ writes -> {p.rest[1]}
                        [] valid /\ op \in Sections -> Range(p.rest)
                        [] OTHER -> {}]
parseGitConfig(argv) ==
    LET p == Scan(gitSubcommandIndex(argv), 2, ConfigGrammar, Scanned)
    IN  ConfigOf(p, Chosen(p, ConfigScopes), Chosen(p, DOMAIN ConfigOperations))

dangerousGitConfigSubject(subject, op) ==
    IF op \in Sections THEN subject \in {"core", "credential", "include", "includeif", "alias"}
    ELSE subject \in {"core.hookspath", "core.fsmonitor", "core.sshcommand", "core.pager",
                      "core.editor", "include.path", "credential.helper", "alias.x"}
approvedGitConfigSubject(subject, op) ==
    IF op \in Sections THEN subject \in {"user", "advice", "color"}
    ELSE subject \in {"init.defaultbranch", "commit.gpgsign", "user.name", "color.ui"}

checkGitConfig(c, s) ==
    CASE c.uncertain -> Ask("P2.git-config-write")
      [] ~c.uncertain /\ c.operation \in Reads -> Pass
      [] OTHER ->
             IF \/ \E k \in c.subjects : dangerousGitConfigSubject(k, c.operation)
                \/ c.scope \in {"--global", "--system", "--file"}
             THEN Deny("P2.git-config-write")
             ELSE IF \/ c.scope = "--worktree"
                     \/ ~gitConfigTargetsToolCallRepo(s)
                     \/ c.operation = "--edit"
                     \/ \E k \in c.subjects : ~approvedGitConfigSubject(k, c.operation)
                  THEN Ask("P2.git-config-write") ELSE Pass

(***************************************************************************)
(* checkGit and checkGitSafety                                             *)
(***************************************************************************)
checkGit(s) ==
    CASE gitSubcommand(s.argv) = "push"
         /\ LET a == parseGitPushArgs(s.argv) IN a.force \/ a.lease -> Deny("P1.git-push-force")
      [] gitSubcommand(s.argv) = "clean" /\ ~gitCleanDryRun(s.argv)
         /\ hasAnyFlag(s.argv, {"--force"}, {"-f", "-d", "-x"}) -> Deny("P1.git-clean")
      [] OTHER -> Pass

(* What discards or rewrites work, under the rule that asks about it.     *)
GitAsks(s, sub, arg) ==
    CASE sub \in {"checkout", "restore"} /\ "." \in Range(nonFlagArgs(s.argv)) ->
             Ask("P2.git-checkout-restore")
      [] sub = "branch"
         /\ \/ hasAnyFlag(s.argv, {}, {"-D"})
            \/ hasAnyFlag(s.argv, {"--delete"}, {}) /\ hasAnyFlag(s.argv, {"--force"}, {}) ->
             Ask("P2.git-branch-delete")
      [] \/ sub = "commit" /\ hasAnyFlag(s.argv, {"--amend"}, {})
         \/ sub \in {"filter-branch", "filter-repo"}
         \/ sub = "reflog" /\ arg = "expire"
         \/ sub = "gc" /\ "--prune=now" \in Range(s.argv) -> Ask("P2.git-history-rewrite")
      [] sub = "remote" /\ arg \in {"add", "set-url"} -> Ask("P2.git-remote-add")
      [] sub = "stash" /\ arg \in {"clear", "drop"} -> Ask("P2.git-stash-clear")
      [] sub = "update-ref" /\ gitOptionPresent(s.argv, {"-d"}, gitUpdateRefLongOptions) ->
             Ask("P2.git-ref-delete")
      [] sub = "worktree" /\ arg = "remove" -> Ask("P2.git-worktree-remove")
      [] sub = "switch" /\ gitOptionPresent(s.argv, {"--discard-changes"}, gitSwitchLongOptions) ->
             Ask("P2.git-discard")
      [] sub = "rm" /\ gitOptionPresent(s.argv, {"-r", "-f", "--force"}, gitRmLongOptions) ->
             Ask("P2.git-rm")
      [] OTHER -> Pass

(* A global option that is not known may hide what runs; a verdict of its *)
(* own is given first, an uncertain configuration write is not.           *)
Forces(a) == a.force \/ a.lease
GitVerdict(s, sub) ==
    CASE sub = "reset" /\ hasAnyFlag(s.argv, {"--hard", "--keep"}, {}) -> Deny("P2.git-reset-hard")
      [] sub = "config" -> checkGitConfig(parseGitConfig(s.argv), s)
      [] sub = "push" -> PushVerdict(parseGitPushArgs(s.argv))
      [] OTHER -> GitAsks(s, sub, gitSubcommandArg(s.argv))
UnknownGlobal(s, sub, own) ==
    IF /\ gitSubcommandUnknownFlag(s.argv, 2)
       /\ ~(sub = "push" /\ Forces(parseGitPushArgs(s.argv)))
       /\ own = Pass \/ (sub = "config" /\ own.d = "ask")
    THEN Ask("P2.git-unknown-global") ELSE own
checkGitSafety(s) ==
    UnknownGlobal(s, gitSubcommand(s.argv), GitVerdict(s, gitSubcommand(s.argv)))
=============================================================================
