------------------------------ MODULE Wrappers ------------------------------
(***************************************************************************)
(* The programs that run another program, as stripAndUnwrap of             *)
(* internal/engine/tokenize.go reads them: env, timeout and the like in    *)
(* front of a command, runners and containers, and the shells given a      *)
(* script with -c.  A wrapper whose options cannot be read fails the       *)
(* statement, because guessing an option's arity could make data look like *)
(* the command or the command like data.                                   *)
(***************************************************************************)
EXTENDS Words

(***************************************************************************)
(* Container command lines as internal/engine/rules_bash.go reads them:    *)
(* the options of docker, podman, nerdctl and docker-compose in front of   *)
(* the subcommand, of its group, and of run and exec, behind which another *)
(* program's command line begins.  The option tables keep, of each         *)
(* program, the options with a letter and the ones a decision reads;       *)
(* "--env" stands for the remaining long options with a value.             *)
(***************************************************************************)
DockerGrammar(flags, values) ==
    [Grammar EXCEPT !.flags = flags \cup {"--help"}, !.values = values, !.bools = TRUE]

dockerGlobalOptionSpecs ==
    [docker |-> DockerGrammar({"-D", "--debug", "--tls", "-v", "--version"},
                              {"--config", "-c", "--context", "-H", "--host", "-l"}),
     podman |-> DockerGrammar({"--remote", "--syslog", "-v", "--version"},
                              {"-c", "--connection", "--root", "--url"}),
     nerdctl |-> DockerGrammar({"--debug", "--experimental", "-v", "--version"},
                               {"-a", "--address", "-n", "--namespace"})]

dockerComposeOptionSpec ==
    DockerGrammar({"--dry-run", "--verbose", "-v", "--version"},
                  {"--env-file", "-f", "--file", "-H", "--host", "-p", "--project-name"})

dockerGroupOptionSpec == DockerGrammar({}, {})

dockerRunOptionSpec ==
    DockerGrammar({"-d", "--detach", "--init", "-i", "--interactive", "-P", "--privileged",
                   "--rm", "-t", "--tty"},
                  {"-a", "-c", "--entrypoint", "-e", "--env", "-h", "-l", "-m", "--name",
                   "-p", "-u", "--user", "-v", "--volume", "-w", "--workdir"})

dockerExecOptionSpec ==
    DockerGrammar({"-d", "--detach", "-i", "--interactive", "--privileged", "-t", "--tty"},
                  {"-e", "--env", "-u", "--user", "-w", "--workdir"})

dockerSubcommandGroups == {"builder", "container", "image", "network", "system", "volume"}

parseDockerOptions(argv, spec) == Scan(argv, 1, spec, Scanned)

(* What follows the global options; the whole line for docker-compose.    *)
dockerSubcommandIndex(argv) ==
    parseDockerOptions(Tail(argv), dockerGlobalOptionSpecs[head(argv)])

InnerSpec(verb) == IF verb = "exec" THEN dockerExecOptionSpec ELSE dockerRunOptionSpec

Chain(bad, words) == [bad |-> bad, words |-> words]

(* The subcommand and, in a group, the word after it.                     *)
GroupSpec(verb) == CASE verb \in {"run", "exec"} -> InnerSpec(verb)
                     [] verb = "compose" -> dockerComposeOptionSpec
                     [] OTHER -> dockerGroupOptionSpec
ChainIn(verb, next) ==
    IF verb \in {"run", "exec"} \/ next.bad \/ next.rest = <<>> THEN Chain(next.bad, <<verb>>)
    ELSE Chain(FALSE, <<verb, next.rest[1]>>)
ChainOf(top, compose) ==
    IF top.bad \/ top.rest = <<>> THEN Chain(top.bad, <<>>)
    ELSE IF compose \/ head(top.rest) \notin dockerSubcommandGroups \cup {"run", "exec", "compose"}
    THEN Chain(FALSE, <<head(top.rest)>>)
    ELSE ChainIn(head(top.rest), parseDockerOptions(Tail(top.rest), GroupSpec(head(top.rest))))
parseDockerSubcommandChain(argv) ==
    IF head(argv) = "docker-compose"
    THEN ChainOf(parseDockerOptions(Tail(argv), dockerComposeOptionSpec), TRUE)
    ELSE ChainOf(dockerSubcommandIndex(argv), FALSE)

(* The command line a container runs: what follows the image, behind the  *)
(* configured entry point.                                                *)
EntryAndRest(p, entry) ==
    IF p.bad \/ p.rest = <<>> \/ (entry # <<>> /\ Last(entry) = "")
    THEN [bad |-> TRUE, rest |-> <<>>]
    ELSE [bad |-> FALSE, rest |-> (IF entry = <<>> THEN <<>> ELSE <<Last(entry)>>) \o Tail(p.rest)]
InnerOf(p) == EntryAndRest(p, ValuesOf(p, {"--entrypoint"}))
ContainerOf(top) ==
    IF top.bad \/ head(top.rest) \notin {"run", "exec"} THEN [bad |-> top.bad, rest |-> <<>>]
    ELSE InnerOf(parseDockerOptions(Tail(top.rest), InnerSpec(head(top.rest))))
ContainerInner(argv) == ContainerOf(dockerSubcommandIndex(argv))

----------------------------------------------------------------------------
Rest(argv) == [bad |-> FALSE, rest |-> argv]
Refused == [bad |-> TRUE, rest |-> <<>>]
Stripped(p) == [bad |-> p.bad, rest |-> p.rest]

consumeKnownFlags(argv, known, valued, optional) ==
    Stripped(Scan(argv, 1, [Grammar EXCEPT !.flags = known, !.values = valued,
                                           !.optional = optional], Scanned))

consumeSetsid(argv) ==
    consumeKnownFlags(argv, {"-f", "--fork", "-w", "--wait", "-c", "--ctty"}, {}, {})
consumeStdbuf(argv) ==
    consumeKnownFlags(argv, {}, {"-i", "--input", "-o", "--output", "-e", "--error"}, {})
consumeIonice(argv) ==
    consumeKnownFlags(argv, {"-t", "--ignore"}, {"-c", "--class", "-n", "--classdata"}, {})
consumeWatch(argv) ==
    consumeKnownFlags(argv, {"-d", "-t", "--no-title", "-b", "-e"},
                      {"-n", "--interval"}, {"--differences"})

ChrootCommand(p) == IF p.bad \/ Len(p.rest) < 2 THEN Refused ELSE Rest(Tail(p.rest))
consumeChroot(argv) ==
    ChrootCommand(consumeKnownFlags(argv, {}, {"--userspec", "--groups"}, {}))

(* env's assignments are passed over like its options.                    *)
EnvGrammar == [Exact EXCEPT
    !.flags = {"-i", "--ignore-environment", "-v", "--debug", "-0", "--null"},
    !.values = {"-u", "--unset"}, !.end = TRUE]
RECURSIVE consumeEnv(_)
RECURSIVE EnvRest(_)
consumeEnv(argv) == EnvRest(Scan(argv, 1, EnvGrammar, Scanned))
EnvRest(p) == IF ~p.bad /\ ~p.ended /\ p.rest # <<>> /\ Lex(p.rest[1]).attached
              THEN consumeEnv(Tail(p.rest)) ELSE Stripped(p)

(* Options are accepted on both sides of the duration.                    *)
TimeoutGrammar == [Exact EXCEPT !.flags = {"-v", "--preserve-status", "--foreground"},
                                !.values = {"-k", "-s"}]
AfterDuration(p) == Stripped(IF p.bad \/ p.rest = <<>> THEN p
                             ELSE Scan(p.rest, 2, TimeoutGrammar, Scanned))
consumeTimeout(argv) == AfterDuration(Scan(argv, 1, TimeoutGrammar, Scanned))

\* Mutant: the value of -n is not passed over.
NiceWithoutValue(argv) ==
    Stripped(Scan(argv, 1, [Exact EXCEPT !.flags = {"-5", "-n"}], Scanned))

(* "-5" stands for the options made of digits.                            *)
consumeNice(argv) ==
    Stripped(Scan(argv, 1, [Exact EXCEPT !.flags = {"-5"}, !.values = {"-n"}], Scanned))

consumeNoFlags(argv) ==
    IF argv # <<>> /\ Dashed(argv[1]) THEN Refused ELSE Rest(argv)

consumeXargs(argv) ==
    Stripped(Scan(argv, 1, [Exact EXCEPT !.flags = {"-0", "-r", "-t", "-p"},
                                         !.values = {"-n", "-I", "-P", "-E", "-d"}], Scanned))

NamespaceCommand(p) == IF p.rest = <<>> /\ ~p.ended THEN Refused ELSE Stripped(p)
consumeNamespace(argv) ==
    NamespaceCommand(Scan(argv, 1, [Exact EXCEPT !.flags = {"-m", "--mount"}, !.end = TRUE,
                                                 !.values = {"-t", "--target"}], Scanned))

consumeExec(argv) == Stripped(Scan(argv, 1, [Exact EXCEPT !.values = {"-a"}], Scanned))

(* command -v and -V only locate a program: nothing is run.               *)
Located(p) == IF Given(p, {"-v", "-V"}) /\ ~p.bad THEN Rest(<<>>) ELSE Stripped(p)
consumeCommand(argv) ==
    Located(Scan(argv, 1, [Grammar EXCEPT !.flags = {"-p", "-v", "-V"}, !.dash = FALSE], Scanned))

consumeBuiltin(argv) ==
    CASE argv # <<>> /\ argv[1] = "--" -> Rest(Tail(argv))
      [] argv # <<>> /\ argv[1] # "--" /\ Dashed(argv[1]) -> Refused
      [] OTHER -> Rest(argv)

OptionWrappers == {"env", "timeout", "nice", "setsid", "stdbuf", "ionice", "chroot",
                   "nohup", "xargs", "unshare", "nsenter", "exec", "command",
                   "builtin", "time", "eval"}

Consume(name, argv) ==
    CASE name = "env" -> consumeEnv(argv)
      [] name = "timeout" -> consumeTimeout(argv)
      [] name = "nice" -> consumeNice(argv)
      [] name = "setsid" -> consumeSetsid(argv)
      [] name = "stdbuf" -> consumeStdbuf(argv)
      [] name = "ionice" -> consumeIonice(argv)
      [] name = "chroot" -> consumeChroot(argv)
      [] name = "nohup" -> consumeNoFlags(argv)
      [] name = "xargs" -> consumeXargs(argv)
      [] name \in {"unshare", "nsenter"} -> consumeNamespace(argv)
      [] name = "exec" -> consumeExec(argv)
      [] name = "command" -> consumeCommand(argv)
      [] name = "builtin" -> consumeBuiltin(argv)
      [] name \in {"time", "eval"} -> Rest(argv)

(***************************************************************************)
(* Shells.  The option tables keep the letters of each shell that a -c     *)
(* command line of the instances uses.                                     *)
(***************************************************************************)
PosixShell == [flags |-> {"-e", "-i", "-l", "-n", "-u", "-x", "-s"}, values |-> {"-o"},
               stops |-> {}, longFlags |-> {}, longValues |-> {}, longCommand |-> {},
               longStops |-> {}, longFirst |-> FALSE]
shellOptions ==
    [sh |-> PosixShell, dash |-> PosixShell, ksh |-> PosixShell, ash |-> PosixShell,
     zsh |-> [PosixShell EXCEPT !.stops = {"-b"}],
     bash |-> [PosixShell EXCEPT !.values = {"-o", "-O"},
                   !.longFlags = {"--login", "--norc", "--posix"},
                   !.longValues = {"--rcfile", "--init-file"},
                   !.longStops = {"--version", "--help"}, !.longFirst = TRUE],
     fish |-> [PosixShell EXCEPT !.flags = {"-i", "-l", "-n", "-v"},
                   !.values = {"-C", "-d", "-D", "-f", "-p"},
                   !.longFlags = {"--login", "--private"},
                   !.longValues = {"--init-command", "--profile"},
                   !.longCommand = {"--command"}],
     csh |-> [PosixShell EXCEPT !.values = {}]]

NoSource == [bad |-> FALSE, found |-> FALSE, source |-> ""]
BadSource == [NoSource EXCEPT !.bad = TRUE]
Source(w) == [bad |-> FALSE, found |-> TRUE, source |-> w]
SourceAt(argv, i) == IF i > Len(argv) THEN BadSource ELSE Source(argv[i])

(* A cluster of a shell: the position of the first letter that ends it (a *)
(* letter with a value, one that stops the shell, or an unknown one), and *)
(* whether it asks for a command before that.                             *)
ClusterEnd(s, spec) ==
    LET E == {j \in 1..Len(s.letters) : s.letters[j] \notin
                  spec.flags \cup (IF s.kind = "short" THEN {"-c"} ELSE {})}
    IN  IF E = {} THEN Len(s.letters) + 1 ELSE CHOOSE j \in E : \A l \in E : j <= l
AsksCommand(s, k) == s.kind = "short" /\ \E j \in 1..(k - 1) : s.letters[j] = "-c"

RECURSIVE shellDashC(_, _, _, _)
RECURSIVE ShellLong(_, _, _, _)
RECURSIVE ShellCluster(_, _, _, _, _)
shellDashC(argv, i, spec, shortSeen) ==
    IF i > Len(argv) THEN NoSource
    ELSE LET s == Lex(argv[i])
         IN  CASE s.kind \in {"end", "dash", "operand"} -> NoSource
               [] s.kind = "long" /\ spec.longFirst /\ shortSeen -> BadSource
               [] s.kind = "long" /\ ~(spec.longFirst /\ shortSeen) ->
                      ShellLong(argv, i, spec, s)
               [] OTHER -> ShellCluster(argv, i, spec, s, ClusterEnd(s, spec))

ShellLong(argv, i, spec, s) ==
    CASE s.name \in spec.longCommand ->
             IF s.attached THEN Source(s.value) ELSE SourceAt(argv, i + 1)
      [] s.name \in spec.longValues ->
             IF s.attached THEN shellDashC(argv, i + 1, spec, FALSE)
             ELSE IF i = Len(argv) THEN BadSource
             ELSE shellDashC(argv, i + 2, spec, FALSE)
      [] s.name \in spec.longFlags /\ ~s.attached -> shellDashC(argv, i + 1, spec, FALSE)
      [] s.name \in spec.longStops /\ ~s.attached -> NoSource
      [] OTHER -> BadSource

(* The script is the word after the cluster and after the value, if any,  *)
(* that the cluster took.                                                 *)
ShellCluster(argv, i, spec, s, k) ==
    LET whole == k > Len(s.letters)
        next == CASE whole -> i + 1
                  [] ~whole /\ s.tails[k] # "" -> i + 1
                  [] OTHER -> i + 2
    IN  CASE ~whole /\ s.letters[k] \in spec.stops -> NoSource
          [] ~whole /\ s.letters[k] \notin spec.stops \cup spec.values -> BadSource
          [] OTHER -> IF next = i + 2 /\ i = Len(argv) THEN BadSource
                      ELSE IF AsksCommand(s, k) THEN SourceAt(argv, next)
                      ELSE shellDashC(argv, next, spec, TRUE)

DashC(argv) ==
    IF head(argv) \in DOMAIN shellOptions
    THEN shellDashC(argv, 2, shellOptions[head(argv)], FALSE) ELSE NoSource

(* cmd.exe: everything after the first /c or /k.                          *)
cmdSlashC(argv) ==
    LET C == {i \in 2..Len(argv) : argv[i] \in {"/c", "/k"}}
    IN  IF head(argv) # "cmd" \/ C = {} THEN <<>>
        ELSE From(argv, (CHOOSE i \in C : \A j \in C : i <= j) + 1)

(***************************************************************************)
(* Runners: the program a runner, container or multi-call binary starts.   *)
(***************************************************************************)
runnerInner(argv) ==
    CASE head(argv) \in {"npx", "uvx", "bunx", "make", "just"} -> Rest(Tail(argv))
      [] head(argv) \in DOMAIN dockerGlobalOptionSpecs -> ContainerInner(argv)
      [] head(argv) \in {"devbox", "mise", "nix"} -> Rest(From(argv, 3))
      [] head(argv) = "busybox" -> consumeNoFlags(Tail(argv))
      [] OTHER -> Rest(<<>>)
=============================================================================
