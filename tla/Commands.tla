------------------------------ MODULE Commands ------------------------------
(***************************************************************************)
(* The simple commands the rules judge (Simple in internal/engine/         *)
(* tokenize.go): how one is taken from a statement, and how the commands   *)
(* inside it are derived when a wrapper is stripped, a runner is followed  *)
(* or a script is read.  Each word carries its provenance: literalArgs and *)
(* resolvedArgs are the positions whose text is certain although it would  *)
(* not read as plain text, because it was quoted or because the analysis   *)
(* replaced a variable by its value.                                       *)
(***************************************************************************)
EXTENDS Wrappers

CONSTANT Literal(_)   \* a word that reads as plain text

Simple == [argv |-> <<>>, out |-> <<>>, in |-> <<>>, cwd |-> <<>>, unres |-> FALSE,
           find |-> FALSE, literal |-> {}, resolved |-> {}, glob |-> <<>>,
           outKnown |-> {}, inKnown |-> {}, gitEnv |-> <<>>, gitUnknown |-> FALSE,
           goEnv |-> {}, goBin |-> "", gitInit |-> FALSE, fs |-> FALSE, stateFs |-> FALSE,
           pipes |-> {}, cwdUnknown |-> FALSE, cwdOnly |-> FALSE, plain |-> FALSE,
           fate |-> "root"]

wordUnresolved(s, i) ==
    /\ i \in DOMAIN s.argv /\ i \notin s.literal \cup s.resolved /\ ~Literal(s.argv[i])
outputRedirectUnresolved(s, i) == i \notin s.outKnown /\ ~Literal(s.out[i])
inputRedirectUnresolved(s, i) == i \notin s.inKnown /\ ~Literal(s.in[i])

redirectsUnresolved(s) == \/ \E i \in DOMAIN s.out : outputRedirectUnresolved(s, i)
                          \/ \E i \in DOMAIN s.in : inputRedirectUnresolved(s, i)
anyWordUnresolved(s) == \E i \in DOMAIN s.argv : wordUnresolved(s, i)

(***************************************************************************)
(* extractSimples.  A word of a statement is written plainly, in quotes,   *)
(* as a variable whose value is tracked, or as one whose value is not; a   *)
(* tracked variable before a literal glob stays unresolved and keeps the   *)
(* text it would have.                                                     *)
(***************************************************************************)
Texts(ws) == [j \in DOMAIN ws |-> ws[j].t]
Written(ws, how) == {j \in DOMAIN ws : ws[j].how = how}
Sure(ws) == Written(ws, "quoted") \cup Written(ws, "tracked")
Open(ws) == Written(ws, "unknown") \cup Written(ws, "glob")

extractSimples(st) ==
    [Simple EXCEPT
        !.argv = Texts(st.words), !.out = Texts(st.out), !.in = Texts(st.in),
        !.literal = Written(st.words, "quoted"), !.resolved = Written(st.words, "tracked"),
        !.glob = [j \in Written(st.words, "glob") |-> st.words[j].expands],
        !.outKnown = Sure(st.out), !.inKnown = Sure(st.in),
        !.unres = st.cwdUnknown \/ Open(st.words) # {} \/ Open(st.out) # {} \/ Open(st.in) # {},
        !.cwd = st.cwd, !.cwdUnknown = st.cwdUnknown, !.pipes = st.pipes,
        !.stateFs = st.fs,
        !.gitEnv = st.gitEnv, !.goEnv = st.goEnv, !.goBin = st.goBin,
        !.plain = ~st.assigns /\ st.out = <<>> /\ st.in = <<>>,
        !.cwdOnly = /\ st.cwdUnknown /\ ~st.assigns
                    /\ st.out = <<>> /\ st.in = <<>>]

(***************************************************************************)
(* Commands derived from another.  Where the inner words came from is      *)
(* found by looking for them among the outer ones; words put together      *)
(* otherwise lose their provenance.                                        *)
(***************************************************************************)
argvSubsliceOffset(source, derived) ==
    LET O == {o \in 0..(Len(source) - Len(derived)) :
                  SubSeq(source, o + 1, o + Len(derived)) = derived}
    IN  IF Len(derived) > Len(source) \/ O = {} THEN -1
        ELSE CHOOSE o \in O : \A q \in O : o <= q

remapProvenance(P, offset, n) == {i \in 1..n : i + offset \in P}
remapStringProvenance(f, offset, n) ==
    [i \in remapProvenance(DOMAIN f, offset, n) |-> f[i + offset]]

commandDerivedFromAt(s, argv, at) ==
    LET n == Len(argv)
        from == at >= 0 /\ at + n <= Len(s.argv)
        whole == at = 0 /\ n = Len(s.argv)
    IN  [s EXCEPT
            !.argv = argv, !.out = <<>>, !.in = <<>>,
            !.unres = @ \/ (s.gitUnknown /\ head(argv) = "git"),
            !.fs = @ \/ (head(argv) = "find" /\ (s.stateFs \/ s.pipes # {})),
            !.literal = IF from THEN remapProvenance(s.literal, at, n) ELSE {},
            !.resolved = IF from THEN remapProvenance(s.resolved, at, n) ELSE {},
            !.glob = IF from THEN remapStringProvenance(s.glob, at, n) ELSE <<>>,
            !.cwdOnly = @ /\ whole, !.plain = @ /\ whole]
commandDerivedFrom(s, argv) ==
    commandDerivedFromAt(s, argv, argvSubsliceOffset(s.argv, argv))

(***************************************************************************)
(* env in front of a command changes what git and go will do.              *)
(***************************************************************************)
GitVariables == {"GIT_DIR", "GIT_COMMON_DIR", "GIT_WORK_TREE"}
gitRepositoryEnvironmentVariable(name) == name \in GitVariables

RECURSIVE EnvWords(_, _, _)
EnvWords(s, argv, i) ==
    LET w == Lex(argv[i])
        at == argvSubsliceOffset(s.argv, argv) + i
        git == gitRepositoryEnvironmentVariable(w.name)
    IN  CASE i > Len(argv) -> s
          [] i <= Len(argv) /\ w.kind = "end" -> s
          [] i <= Len(argv) /\ argv[i] = "-u" -> EnvWords(s, argv, i + 2)
          [] i <= Len(argv) /\ w.kind \notin {"operand", "end"} /\ argv[i] # "-u" ->
                 EnvWords(s, argv, i + 1)
          [] i <= Len(argv) /\ w.kind = "operand" /\ ~w.attached -> s
          [] OTHER ->
                 EnvWords(CASE ~git -> s
                            [] git /\ wordUnresolved(s, at) ->
                                   [s EXCEPT !.gitUnknown = TRUE, !.unres = TRUE]
                            [] OTHER -> [s EXCEPT !.gitEnv = (w.name :> w.value) @@ @],
                          argv, i + 1)
applyEnvGitEnvironment(s, argv) ==
    IF argvSubsliceOffset(s.argv, argv) < 0 THEN s ELSE EnvWords(s, argv, 2)

(* GOBIN among the words env itself took.                                 *)
EnvGoBin(s, taken) ==
    LET G == {j \in DOMAIN taken : Lex(taken[j]).attached /\ Lex(taken[j]).name = "GOBIN"}
    IN  IF G = {} THEN s
        ELSE [s EXCEPT !.goBin = Lex(taken[CHOOSE j \in G : \A k \in G : k <= j]).value]

(* What stripping one wrapper does to the command around it.              *)
Wrapped(s, argv, rest) ==
    CASE head(argv) = "env" ->
             EnvGoBin(applyEnvGitEnvironment(s, argv),
                      SubSeq(argv, 2, Len(argv) - Len(rest)))
      [] head(argv) \in {"xargs", "unshare", "nsenter"} -> [s EXCEPT !.stateFs = TRUE]
      [] OTHER -> s

(* The redirections of a command whose own words were replaced.           *)
RedirectsOnly(s, unres) ==
    [Simple EXCEPT !.out = s.out, !.in = s.in, !.cwd = s.cwd, !.unres = unres,
                   !.outKnown = s.outKnown, !.inKnown = s.inKnown, !.pipes = s.pipes,
                   !.cwdUnknown = s.cwdUnknown]
HasRedirects(s) == s.out # <<>> \/ s.in # <<>>

(* A statement whose wrappers cannot be read stays, as one nothing is     *)
(* known about.                                                           *)
Degraded(s) == [s EXCEPT !.unres = TRUE, !.cwdOnly = FALSE, !.plain = FALSE]

----------------------------------------------------------------------------
(***************************************************************************)
(* Where the standard output of each statement ends up                     *)
(* (internal/engine/stdout_fate.go): at the top of the source (root), in   *)
(* the hands of a program that does not show it (contained), or somewhere  *)
(* it can be seen (exposed).  Statements are a list; one captured by a     *)
(* substitution or fed to another names that statement as its holder, with *)
(* the place it is used in: "arg", "name", "env", "assign" or "stdin".     *)
(* dup: standard output is sent to another descriptor; here: standard      *)
(* input is replaced.                                                      *)
(***************************************************************************)
CONSTANT NameOf(_)   \* a word up to its "="

discardTarget(w) == w \in {"/dev/null", "nul"}
redirectedFate(st, fate) ==
    CASE st.dup -> "exposed"
      [] ~st.dup /\ \E j \in DOMAIN st.out : ~st.out[j].fd /\ discardTarget(st.out[j].t) ->
             "contained"
      [] OTHER -> fate

(* The program behind the wrappers that hand on its input.                *)
xargsEchoes(options) == Range(options) \cap {"-t", "-p"} # {}
ConsumerWrappers == {"env", "timeout", "nice", "setsid", "stdbuf", "nohup", "exec", "builtin",
                     "command", "time", "xargs"}
Known(argv) == [known |-> TRUE, argv |-> argv]
RECURSIVE unwrapConsumer(_)
RECURSIVE UnwrapOn(_, _)
unwrapConsumer(argv) ==
    IF argv = <<>> \/ head(argv) \notin ConsumerWrappers THEN Known(argv)
    ELSE UnwrapOn(argv, Consume(head(argv), Tail(argv)))
UnwrapOn(argv, r) ==
    CASE r.bad -> [known |-> FALSE, argv |-> <<>>]
      [] ~r.bad /\ head(argv) = "env" /\ r.rest = <<>> -> Known(argv)
      [] ~r.bad /\ head(argv) = "command" /\ r.rest = <<>> /\ Len(argv) > 1 -> Known(<<"echo">>)
      [] ~r.bad /\ head(argv) = "xargs"
         /\ (r.rest = <<>> \/ xargsEchoes(SubSeq(argv, 2, Len(argv) - Len(r.rest)))) ->
             Known(<<"echo">>)
      [] OTHER -> unwrapConsumer(r.rest)
consumerArgv(st) ==
    IF st.words = <<>> THEN Known(<<>>)
    ELSE IF st.words[1].how # "unknown" THEN unwrapConsumer(Texts(st.words))
    ELSE [known |-> FALSE, argv |-> <<>>]

printingCommands == {"echo", "printf", "printenv", "env", "cat", "tee", "more", "less", "head",
                     "tail", "logger", "write-output", "write-host", "out-file", "set-content"}
consumerPrints(argv) == argv = <<>> \/ head(argv) \in printingCommands

interpreterHeads == {"bash", "sh", "zsh", "dash", "ksh", "ash", "fish", "csh", "cmd", "pwsh",
                     "powershell", "python", "python3", "node", "perl", "ruby", "php", "eval",
                     "source", "."}
LettersOf(w) == IF Lex(w).kind = "short" THEN Range(Lex(w).letters) ELSE {}
RunsInline(name, w) ==
    CASE name \in {"python", "python3"} -> w = "-c"
      [] name = "node" -> w \in {"-e", "-p", "--eval", "--print", "eval"}
      [] name \in {"perl", "ruby"} -> LettersOf(w) \cap {"-e", "-E"} # {}
      [] name = "php" -> w = "-r"
      [] name \in {"pwsh", "powershell"} ->
             w = "/c" \/ (Lex(w).kind = "short" /\ Lex(w).letters[1] \in {"-c", "-e"})
      [] OTHER -> FALSE
consumerRunsCode(argv) ==
    \/ DashC(argv).found \/ DashC(argv).bad \/ cmdSlashC(argv) # <<>>
    \/ head(argv) \in {"eval", "source", "."}
    \/ head(argv) \in interpreterHeads /\ \E j \in 2..Len(argv) : RunsInline(head(argv), argv[j])

shellEnablesXtrace(argv) ==
    /\ head(argv) \in DOMAIN shellOptions
    /\ \E i \in 2..Len(argv) :
           /\ \A j \in 2..(i - 1) : Lex(argv[j]).kind = "short" /\ "-c" \notin LettersOf(argv[j])
           /\ \/ argv[i] = "-o" /\ i < Len(argv) /\ argv[i + 1] = "xtrace"
              \/ "-x" \in LettersOf(argv[i])
sourceEnablesXtrace(stmts) ==
    \E k \in DOMAIN stmts :
        LET ws == Texts(stmts[k].words)
        IN  /\ head(ws) = "set"
            /\ \E i \in 2..Len(ws) :
                   \/ ws[i] = "-o" /\ i < Len(ws) /\ ws[i + 1] = "xtrace"
                   \/ "-x" \in LettersOf(ws[i])

credentialStdinConsumer(argv) ==
    \/ \E j \in 2..Len(argv) : NameOf(argv[j]) \in {"--password-stdin", "--with-token"}
    \/ /\ Len(argv) >= 3 /\ head(argv) = "gh" /\ SubSeq(argv, 2, 3) = <<"secret", "set">>
       /\ \A j \in 4..Len(argv) : NameOf(argv[j]) \notin {"-b", "--body", "-f", "--env-file"}
pipedArgumentConsumer(st, argv) ==
    head(Texts(st.words)) = "xargs" /\ ~consumerPrints(argv) /\ ~consumerRunsCode(argv)
passThroughFilters == {"tr", "cut", "jq", "base64", "grep", "sort", "uniq", "fold", "rev"}

(* What a program does with a substitution in one of its places.          *)
CallFate(st, as, c) ==
    IF ~c.known \/ st.words = <<>> \/ consumerPrints(c.argv) THEN "exposed"
    ELSE CASE as = "arg" -> IF consumerRunsCode(c.argv) THEN "exposed" ELSE "contained"
           [] as = "env" -> IF shellEnablesXtrace(c.argv) THEN "exposed" ELSE "contained"
           [] as = "stdin" ->
                  IF head(c.argv) \in interpreterHeads THEN "exposed" ELSE "contained"
           [] OTHER -> "exposed"

NextStage(stmts, i) ==
    {k \in DOMAIN stmts : \E a \in stmts[i].pipes, b \in stmts[k].pipes :
                              a.id = b.id /\ b.stage = a.stage + 1}

(* The fate of a statement: what follows it in its pipeline decides, then *)
(* what holds it.                                                         *)
RECURSIVE StmtFate(_, _)
RECURSIVE pipeFate(_, _, _)
StmtFate(stmts, i) ==
    redirectedFate(stmts[i],
        IF NextStage(stmts, i) # {}
        THEN LET k == CHOOSE j \in NextStage(stmts, i) : TRUE
             IN  pipeFate(stmts, k, consumerArgv(stmts[k]))
        ELSE IF stmts[i].holder = 0 THEN "root"
        ELSE CallFate(stmts[stmts[i].holder], stmts[i].as,
                      consumerArgv(stmts[stmts[i].holder])))
pipeFate(stmts, k, c) ==
    CASE ~c.known \/ stmts[k].words = <<>> \/ stmts[k].in # <<>> \/ stmts[k].here -> "exposed"
      [] c.known /\ c.argv # <<>> /\ (credentialStdinConsumer(c.argv)
                                      \/ pipedArgumentConsumer(stmts[k], c.argv)) -> "contained"
      [] OTHER -> IF head(c.argv) \in passThroughFilters THEN StmtFate(stmts, k) ELSE "exposed"

Traced(fate, xtrace) == IF fate = "contained" /\ xtrace THEN "exposed" ELSE fate
stdoutFates(stmts) ==
    [i \in DOMAIN stmts |-> Traced(StmtFate(stmts, i), sourceEnablesXtrace(stmts))]

(* The statements of an inner script print where its shell prints.        *)
inheritStdoutFate(fate, outer, xtrace) ==
    LET f == IF fate = "root" THEN outer ELSE fate
    IN  IF xtrace /\ f = "contained" THEN "exposed" ELSE f
=============================================================================
