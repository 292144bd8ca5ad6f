--------------------------- MODULE CredentialRules ---------------------------
(***************************************************************************)
(* Package managers, the command lines of credentialed services, and the   *)
(* ones that print a credential (internal/engine/rules_net.go,             *)
(* rules_install_spellings.go, rules_credentialed.go,                      *)
(* rules_credential_print.go).  The tables keep the programs with a form   *)
(* of their own and one or two of each other kind.                         *)
(***************************************************************************)
EXTENDS ToolRules

CONSTANTS LocalPackage(_),   \* a package given by a path
          LocalContext(_),   \* a cluster context of a local cluster
          VariablesIn(_),    \* the variables a word refers to
          EnvDrive(_)        \* the names a word reads from PowerShell's env: drive

(***************************************************************************)
(* Installing packages.                                                    *)
(***************************************************************************)
installAsk == Ask("P6.package-install")
launcherFlagsAreInert == {"-y", "--yes", "-q", "--quiet", "--silent"}
isLocalPackageSpec(w) == LocalPackage(w)
launcherVerdict(argv, operands) ==
    LET ws == Tail(argv)
    IN  CASE Range(ws) \cap {"--no-install", "--no"} # {} -> Pass
          [] OTHER ->
             IF operands = <<>>
             THEN (IF hasAnyFlag(argv, {"--package", "--from", "--with"}, {"-p"})
                   THEN installAsk ELSE Pass)
             ELSE IF /\ isLocalPackageSpec(operands[1])
                     /\ \A w \in Range(ws) : Dashed(w) => w \in launcherFlagsAreInert
                  THEN Pass ELSE installAsk

InstallVerbs ==
    [pipx |-> {"install", "inject", "upgrade", "run"}, uv |-> {"sync", "add"},
     poetry |-> {"install", "add", "update", "sync"}, graft |-> {"init", "uninstall", "upgrade"}]
UvVerbs == {<<"pip", "install">>, <<"pip", "sync">>, <<"tool", "install">>, <<"tool", "run">>}
LauncherVerbs == [yarn |-> {"dlx"}, pnpm |-> {"dlx"}, npm |-> {"exec", "x"}, bun |-> {"x"}]
checkInstallSpellings(s) ==
    LET name == head(s.argv)
        ws == nonFlagArgs(s.argv)
        verb == Word(ws, 1)
    IN  CASE name \in DOMAIN InstallVerbs ->
                 IF \/ verb \in InstallVerbs[name]
                    \/ name = "uv" /\ \E w \in UvVerbs : IsPrefix(w, ws)
                    \/ name = "graft" /\ verb = "build" /\ hasBareFlag(s.argv, "--deep")
                 THEN installAsk ELSE Pass
          [] name \in DOMAIN LauncherVerbs ->
                 IF verb \in LauncherVerbs[name] THEN launcherVerdict(s.argv, Tail(ws))
                 ELSE IF /\ name = "yarn" /\ ws = <<>>
                         /\ ~hasAnyFlag(s.argv, {"--version", "--help"}, {"-v", "-h"})
                      THEN installAsk ELSE Pass
          [] name \in {"npx", "bunx", "uvx"} -> launcherVerdict(s.argv, ws)
          [] OTHER -> Pass

pipModuleArgv(argv) ==
    IF /\ Len(argv) >= 3 /\ head(argv) \in {"python", "python3", "py"}
       /\ argv[2] = "-m" /\ argv[3] \in {"pip", "pip3"}
    THEN <<"pip">> \o From(argv, 4) ELSE argv

PackageVerdict(s) ==
    LET argv == s.argv
        name == head(argv)
    IN  CASE name \in {"pip", "pip3"} /\ \E w \in Range(argv) : Holds(w, "install") ->
                 IF \/ hasAnyFlag(argv, {"--index-url", "--extra-index-url"}, {})
                    \/ \E w \in Range(argv) : Holds(w, "git+http")
                 THEN Deny("P6.registry-redirect") ELSE installAsk
          [] name = "npm" /\ hasAnyFlag(argv, {"--registry"}, {}) -> Deny("P6.registry-redirect")
          [] OTHER ->
             IF \/ /\ name \in {"npm", "yarn", "pnpm", "bun"}
                   /\ Range(nonFlagArgs(argv)) \cap {"install", "i", "ci", "add"} # {}
                \/ /\ name \in {"gem", "cargo", "apt", "apt-get", "brew"}
                   /\ Word(argv, 2) = "install"
             THEN installAsk ELSE checkInstallSpellings(s)
checkPackageInstall(s) == PackageVerdict([s EXCEPT !.argv = pipModuleArgv(@)])

(***************************************************************************)
(* Credentialed services.                                                  *)
(***************************************************************************)
credentialedValueFlags == {"--context", "--namespace", "-n", "--kubeconfig", "--profile",
                           "--region", "-f", "-o", "--output", "--project"}
CredentialWords == [Exact EXCEPT !.values = credentialedValueFlags, !.permute = TRUE,
                                 !.lenient = TRUE]
credentialOperands(argv) == Scan(argv, 2, CredentialWords, Scanned).rest
credentialedVerb(argv) == Word(credentialOperands(argv), 1)

credentialedWrappers == {"npx"}
credentialedRunners == [pnpm |-> {"dlx", "exec"}, yarn |-> {"dlx"}, npm |-> {"exec"}]
credentialedForwarders == [yarn |-> {"npm"}]
Lists(table, argv) == head(argv) \in DOMAIN table /\ Word(argv, 2) \in table[head(argv)]
RECURSIVE credentialedTarget(_)
credentialedTarget(argv) ==
    CASE Len(argv) <= 1 -> argv
      [] Len(argv) > 1 /\ head(argv) \in credentialedWrappers -> credentialedTarget(Tail(argv))
      [] Len(argv) > 2 /\ Lists(credentialedRunners, argv) -> credentialedTarget(From(argv, 3))
      [] OTHER -> IF Lists(credentialedForwarders, argv) THEN credentialedTarget(Tail(argv)) ELSE argv

credentialedDryRun(argv) == Given1(argv, {"--dry-run", "-dry-run", "--dryrun"})
KubeContextNameIsLocal(v) == LocalContext(v)
kubeContextIsLocal(argv) ==
    LET C == {j \in DOMAIN argv : NameOf(argv[j]) = "--context"}
        at == CHOOSE j \in C : \A k \in C : j <= k
    IN  C # {} /\ KubeContextNameIsLocal(IF Lex(argv[at]).attached THEN Lex(argv[at]).value
                                         ELSE Word(argv, at + 1))

publishVerbs == [npm |-> {"publish"}, cargo |-> {"publish"}, twine |-> {"upload"}]
registryPushVerbs == [docker |-> {"push"}, oras |-> {"push"}]
clusterMutateVerbs == [kubectl |-> {"delete", "apply", "scale", "create"},
                       helm |-> {"install", "upgrade", "uninstall"}]
deployVerbs == [wrangler |-> {"deploy"}, supabase |-> {"db"}]
infraMutateVerbs == [terraform |-> {"apply", "destroy"}, pulumi |-> {"up", "destroy"}]
cloudCLIs == {"aws", "gcloud", "az", "fly", "flyctl"}
cloudReadVerbs == {"ls", "list", "show", "describe", "get", "status", "config", "whoami"}
Does(table, name, verb) == name \in DOMAIN table /\ verb \in table[name]

cloudReadOperation(argv) ==
    \E w \in Range(nonFlagArgs(argv)) :
        \/ w \in cloudReadVerbs
        \/ \E t \in {"describe-", "list-", "get-", "search-", "check-"} : Begins(w, t)

(***************************************************************************)
(* What prints a credential.                                               *)
(***************************************************************************)
Prints(name, words, flags) == [name |-> name, words |-> words, flags |-> flags]
(* A program, the operands it begins with, and the flags of which one is  *)
(* needed; none when the set is empty.                                    *)
Printers ==
    {Prints("gh", <<"auth", "token">>, {}),
     Prints("gh", <<"auth", "status">>, {"-t", "--show-token"}),
     Prints("az", <<"account", "get-access-token">>, {}),
     Prints("az", <<"acr", "login">>, {"--expose-token"}),
     Prints("aws", <<"sts", "assume-role">>, {}),
     Prints("aws", <<"secretsmanager", "get-secret-value">>, {}),
     Prints("aws", <<"ssm", "get-parameter">>, {"--with-decryption"}),
     Prints("gcloud", <<"auth", "print-access-token">>, {}),
     Prints("kubectl", <<"config", "view">>, {"--raw"}),
     Prints("kubectl", <<"create", "token">>, {}),
     Prints("op", <<"read">>, {}), Prints("vault", <<"kv", "get">>, {}),
     Prints("fly", <<"auth", "token">>, {}), Prints("pass", <<"show">>, {}),
     Prints("get-secret", <<>>, {"-asplaintext"})}
operandsStartWith(operands, want) == IsPrefix(want, operands)
awsSecretConfigKey(k) == \E m \in {"secret", "token", "access_key", "password"} : Holds(k, m)
npmAuthConfigKey(k) == \E m \in {"_auth", "token", "password"} : Holds(k, m)
shortFlagSet(argv, letters) == \E j \in 2..Len(argv) : LettersOf(argv[j]) \cap letters # {}

credentialPrinter(argv) ==
    LET name == head(argv)
        ws == credentialOperands(argv)
        git == gitSubcommandIndex(argv)
        key == Word(ws, 3)
    IN  \/ \E p \in Printers : /\ name = p.name /\ operandsStartWith(ws, p.words)
                               /\ p.flags # {} => hasFlag(argv, p.flags)
        \/ name = "git" /\ Len(git) >= 2
           /\ \/ git[1] = "credential" /\ git[2] = "fill"
              \/ Begins(git[1], "credential-") /\ git[2] = "get"
        \/ name = "security" /\ Word(ws, 1) = "find-generic-password"
           /\ shortFlagSet(argv, {"-w", "-g"})
        \/ name = "aws" /\ operandsStartWith(ws, <<"configure", "get">>) /\ awsSecretConfigKey(key)
        \/ name \in {"npm", "pnpm", "yarn"} /\ operandsStartWith(ws, <<"config", "get">>)
           /\ npmAuthConfigKey(key)
        \/ Begins(name, "docker-credential-") /\ Word(ws, 1) \in {"get", "list"}
        \/ Begins(name, "git-credential-") /\ Word(ws, 1) = "get"

secretVariableName(v) ==
    \E m \in {"TOKEN", "SECRET", "PASSWORD", "API_KEY", "CREDENTIAL"} : Holds(v, m)
environmentDump(argv) ==
    LET name == head(argv)
        ws == Tail(argv)
    IN  CASE name = "env" -> LET r == consumeEnv(ws) IN ~r.bad /\ r.rest = <<>>
          [] name = "printenv" -> \/ nonFlagArgs(argv) = <<>>
                                  \/ \E w \in Range(nonFlagArgs(argv)) : secretVariableName(w)
          [] name = "set" -> ws = <<>>
          [] name \in {"get-childitem", "gci", "dir", "ls", "get-content", "cat"} ->
                 \E w \in Range(ws) : \E v \in EnvDrive(w) :
                     v = "" \/ Wild(v) \/ secretVariableName(v)
          [] OTHER -> FALSE

echoCommands == {"echo", "printf", "print", "write-output", "write-host"}
secretVariableEcho(s) ==
    LET open == {j \in DOMAIN s.argv : j \notin s.literal \cup s.resolved}
        secret(j) == \E v \in VariablesIn(s.argv[j]) : secretVariableName(v)
    IN  /\ 1 \in open
        /\ secret(1) \/ (head(s.argv) \in echoCommands /\ \E j \in open \ {1} : secret(j))

credentialExposure(s) ==
    LET argv == credentialedTarget(s.argv)
    IN  argv # <<>> /\ (credentialPrinter(argv) \/ environmentDump(argv) \/ secretVariableEcho(s))
writesOutputFile(s) == \E w \in Range(s.out) : ~discardTarget(w)
checkCredentialPrint(s) ==
    IF credentialExposure(s) /\ (s.fate # "contained" \/ writesOutputFile(s))
    THEN Ask("P4.credential-print") ELSE Pass

ServiceVerdict(argv, name, verb) ==
    CASE \/ Does(publishVerbs, name, verb) \/ Does(registryPushVerbs, name, verb)
         \/ name = "docker" /\ verb = "buildx" /\ hasBareFlag(argv, "--push") -> Ask("P6.publish")
      [] Does(clusterMutateVerbs, name, verb) ->
             IF kubeContextIsLocal(argv) THEN Pass ELSE Ask("P6.cluster-mutate")
      [] Does(infraMutateVerbs, name, verb) -> Ask("P6.cloud-mutate")
      [] Does(deployVerbs, name, verb) \/ (name = "vercel" /\ hasBareFlag(argv, "--prod")) ->
             Ask("P6.deploy")
      [] name \in cloudCLIs ->
             IF \/ credentialPrinter(argv) \/ verb = "" \/ verb \in cloudReadVerbs
                \/ cloudReadOperation(argv)
             THEN Pass ELSE Ask("P6.cloud-mutate")
      [] OTHER -> Pass
checkCredentialedCLI(s) ==
    LET argv == credentialedTarget(s.argv)
    IN  IF argv = <<>> \/ credentialedDryRun(argv) THEN Pass
        ELSE ServiceVerdict(argv, head(argv), credentialedVerb(argv))
=============================================================================
