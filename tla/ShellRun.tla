------------------------------- MODULE ShellRun -------------------------------
(***************************************************************************)
(* A shell that runs a script the command analyser has judged.  The        *)
(* analysis is done before anything runs (internal/engine/tokenize.go); the*)
(* shell then finds directories created or removed, commands that fail,    *)
(* branches taken either way, functions redefined and background jobs still*)
(* running.  Whatever it does, the command it is about to run is one the   *)
(* analyser named, with the words, the directory and the pipes it will     *)
(* have, or one it said it does not know.                                  *)
(*                                                                         *)
(* The shell is external to the repository: it is modelled as the walk     *)
(* assumes it: the stages of a pipeline run in order, and cd looks along   *)
(* CDPATH as resolveCdTarget does.                                         *)
(***************************************************************************)
EXTENDS ShellWalk

CONSTANTS
    Scripts,    \* the scripts, by name
    Home,       \* the directory of the tool call
    Changing,   \* directories that commands may create or remove
    Jobs,       \* threads: 0 is the script, the others its background jobs
    MaxDepth,   \* calls in calls: a deeper recursion is not followed
    MaxRounds,  \* rounds of a while loop: a longer one is not followed
    Known(_)    \* the candidates the analyser (Analyse) finds in a script

VARIABLES
    script,     \* the name of the script that runs
    known,      \* the candidates the analyser found in it
    thread,     \* per thread: frames, shell, status, pipes
    fs          \* the directories that exist

judged == <<script, known>>
vars == <<script, known, thread, fs>>

\* A thread: k, the frames still to run; sh, the shell; ok, the last status;
\* in: whose bytes standard input still holds, as <<writer, pipeline>>; out:
\* the commands whose bytes standard output holds; enc: the calls being run;
\* later: see Later.
Shell0 ==
    [cwd |-> Home,
     vars |-> [n \in Names |-> CASE n \in {"PWD", "HOME"} -> Home [] n = "IFS" -> DefaultIFS
                                 [] OTHER -> Unset],
     refs |-> NoMap, attrs |-> {}, fns |-> NoMap]

Thread(k, sh) == [k |-> k, sh |-> sh, ok |-> TRUE, in |-> {}, out |-> {}, enc |-> {},
                  later |-> FALSE]
Idle == Thread(<< >>, Shell0)

Frame(f, x) == [f |-> f, x |-> x]
ListFrame(ss) == Frame("list", ss)
StmtFrame(st) == Frame("stmt", st)

Init ==
    /\ script \in DOMAIN Scripts
    /\ known = Known(script)
    /\ thread = [t \in Jobs |-> IF t = 0 THEN Thread(<<ListFrame(Scripts[script])>>, Shell0) ELSE Idle]
    /\ \E more \in SUBSET {d \in Dirs : Probe[d] = "unknown"} :
           fs = {d \in Dirs : Probe[d] = "accessible"} \cup more

Busy(t) == thread[t].k # << >>
Top(t) == Head(thread[t].k)
At(t, f) == Busy(t) /\ Top(t).f = f
Rest(t) == Tail(thread[t].k)
AtStmt(t, k) == At(t, "stmt") /\ Top(t).x.k = k

\* A loop: its statement; the fields still to come; n, how often its body
\* began; from, the shell and the directories its first round found, and sh, the
\* shell this round found; moved: a later round found others than the first.
Round(t, st, fields) ==
    [id |-> st.id, st |-> st, fields |-> fields, n |-> 0, from |-> <<thread[t].sh, fs>>,
     sh |-> thread[t].sh, moved |-> FALSE]

\* Thread t is in a round of a loop that did not begin as the first one did,
\* or left a loop from such a round by a condition that changed the shell.
Later(t) ==
    \/ thread[t].later
    \/ \E i \in DOMAIN thread[t].k :
           thread[t].k[i].f \in {"while", "do", "next"} /\ thread[t].k[i].x.moved

\* Thread t goes on with frames k, or as th.
Go(t, k) == thread' = [thread EXCEPT ![t].k = k]
GoAs(t, th) == thread' = [thread EXCEPT ![t] = th]

----------------------------------------------------------------------------
(* Frames                                                                  *)

NextStmt(t) ==
    /\ At(t, "list")
    /\ Go(t, IF Top(t).x = << >> THEN Rest(t)
             ELSE <<StmtFrame(Head(Top(t).x)), ListFrame(Tail(Top(t).x))>> \o Rest(t))
    /\ UNCHANGED <<judged, fs>>

\* A redirect that cannot be opened: the command does not run.
RedirectFails(t) ==
    /\ At(t, "stmt") /\ Top(t).x.redir # "none" /\ ~Top(t).x.bg
    /\ GoAs(t, [thread[t] EXCEPT !.k = Rest(t), !.ok = FALSE])
    /\ UNCHANGED <<judged, fs>>

\* Negation, a background job and a read redirect are taken off first.
Prepare(t) ==
    /\ At(t, "stmt")
    /\ LET st == Top(t).x IN
       CASE st.bg ->
              /\ \E u \in Jobs \ {0, t} :
                     /\ ~Busy(u)
                     /\ thread' = [thread EXCEPT
                            ![t].k = Rest(t), ![t].ok = TRUE,
                            ![u] = [Thread(<<StmtFrame([st EXCEPT !.bg = FALSE])>>, thread[t].sh)
                                        EXCEPT !.enc = thread[t].enc, !.later = Later(t)]]
         [] ~st.bg /\ st.neg ->
              Go(t, <<StmtFrame([st EXCEPT !.neg = FALSE]), Frame("not", 0)>> \o Rest(t))
         [] ~st.bg /\ ~st.neg /\ st.redir = "read" ->
              GoAs(t, [thread[t] EXCEPT
                  !.k = <<StmtFrame([st EXCEPT !.redir = "none"]), Frame("in", thread[t].in)>> \o Rest(t),
                  !.in = {}])
         [] OTHER -> FALSE
    /\ UNCHANGED <<judged, fs>>

Ready(t, k) ==
    /\ AtStmt(t, k) /\ ~Top(t).x.bg /\ ~Top(t).x.neg /\ Top(t).x.redir # "read"

Compound(t) ==
    /\ \E k \in {"and", "or", "block", "if", "while", "time", "sub", "arith"} : Ready(t, k)
    /\ LET st == Top(t).x IN
       Go(t, (CASE st.k \in {"and", "or"} -> <<StmtFrame(st.x), Frame(st.k, st.y)>>
               [] st.k = "block" -> <<ListFrame(st.ss)>>
               [] st.k = "if" -> <<ListFrame(st.cond), Frame("if", st)>>
               [] st.k = "while" -> <<ListFrame(st.cond), Frame("while", Round(t, st, << >>))>>
               [] st.k = "time" -> <<StmtFrame(st.s)>>
               [] st.k = "sub" -> <<ListFrame(st.ss), Frame("env", thread[t].sh)>>
               [] st.k = "arith" -> << >>)
             \o Rest(t))
    /\ UNCHANGED <<judged, fs>>

\* Frames that decide what follows from the last status, or restore.
Resume(t) ==
    /\ \E f \in {"not", "and", "or", "if", "env", "out", "in"} : At(t, f)
    /\ LET f == Top(t)
           ok == thread[t].ok
       IN  GoAs(t, CASE f.f = "not" -> [thread[t] EXCEPT !.k = Rest(t), !.ok = ~ok]
                     [] f.f = "and" -> [thread[t] EXCEPT
                            !.k = (IF ok THEN <<StmtFrame(f.x)>> ELSE << >>) \o Rest(t)]
                     [] f.f = "or" -> [thread[t] EXCEPT
                            !.k = (IF ok THEN << >> ELSE <<StmtFrame(f.x)>>) \o Rest(t)]
                     [] f.f = "if" -> [thread[t] EXCEPT
                            !.k = <<ListFrame(IF ok THEN f.x.then ELSE f.x.else)>> \o Rest(t),
                            !.ok = ok \/ f.x.else = << >>]
                     [] f.f = "env" -> [thread[t] EXCEPT !.k = Rest(t), !.sh = f.x]
                     [] f.f = "out" -> [thread[t] EXCEPT !.k = Rest(t), !.out = f.x]
                     [] f.f = "in" -> [thread[t] EXCEPT !.k = Rest(t), !.in = f.x])
    /\ UNCHANGED <<judged, fs>>

\* while and until: the condition decides whether the body runs, and runs
\* again after it.
Test(t) ==
    /\ At(t, "while")
    /\ LET x == Top(t).x
           enter == thread[t].ok # x.st.until
       IN  /\ enter => x.n < MaxRounds
           /\ GoAs(t, [thread[t] EXCEPT !.ok = TRUE,
                  !.later = @ \/ (~enter /\ x.moved /\ thread[t].sh # x.sh),
                  !.k = (IF enter THEN <<ListFrame(x.st.do), Frame("do", [x EXCEPT !.n = @ + 1])>>
                         ELSE << >>) \o Rest(t)])
    /\ UNCHANGED <<judged, fs>>

Again(t) ==
    /\ At(t, "do")
    /\ LET x == [Top(t).x EXCEPT !.moved = @ \/ Top(t).x.from # <<thread[t].sh, fs>>,
                                 !.sh = thread[t].sh]
       IN  Go(t, <<ListFrame(x.st.cond), Frame("while", x)>> \o Rest(t))
    /\ UNCHANGED <<judged, fs>>

\* The stages of a pipeline, each with a copy of the shell.
Pipeline(t) ==
    /\ Ready(t, "pipe")
    /\ LET st == Top(t).x
           stages == Stages(st)
       IN  GoAs(t, [thread[t] EXCEPT
               !.k = <<StmtFrame(stages[1]),
                       Frame("stage", [p |-> st.id, rest |-> Tail(stages), sh |-> thread[t].sh,
                                       out |-> thread[t].out, first |-> TRUE, in |-> {}])>> \o Rest(t),
               !.out = {}])
    /\ UNCHANGED <<judged, fs>>

NextStage(t) ==
    /\ At(t, "stage")
    /\ LET y == Top(t).x
           x == IF y.first THEN [y EXCEPT !.first = FALSE, !.in = thread[t].in] ELSE y
       IN
       GoAs(t, IF x.rest = << >>
               THEN [thread[t] EXCEPT !.k = Rest(t), !.sh = x.sh, !.in = x.in, !.out = @ \cup x.out]
               ELSE [thread[t] EXCEPT
                        !.k = <<StmtFrame(Head(x.rest)), Frame("stage", [x EXCEPT !.rest = Tail(@)])>>
                              \o Rest(t),
                        !.sh = x.sh,
                        !.in = {<<c, x.p>> : c \in thread[t].out},
                        !.out = {}])
    /\ UNCHANGED <<judged, fs>>

----------------------------------------------------------------------------
(* Words, assignments and calls                                            *)

Output == "<output>"

\* The value of a word; an unquoted value that splits is not one word.
Value(sh, word) ==
    LET v == sh.vars[ChainEnd(sh.refs, word.n)] IN
    CASE IsStatic(word) -> word.v
      [] word.w = "par" -> IF word.quoted \/ <<v, sh.vars["IFS"]>> \notin Splitting THEN v ELSE Output
      [] word.w = "mut" -> IF v = Unset THEN word.v ELSE v
      [] OTHER -> Output

ValuesOf(sh, words) == [i \in DOMAIN words |-> Value(sh, words[i])]

\* An assignment through namerefs.  A variable with an attribute may get
\* another value than the one assigned, or none (odd).
Stored(sh, n, v, odd) ==
    LET end == ChainEnd(sh.refs, n) IN
    IF ~Ends(sh.refs, n) \/ (odd = "kept" /\ end \in sh.attrs) THEN sh
    ELSE [sh EXCEPT !.vars[end] = IF odd = "other" /\ end \in sh.attrs THEN Output ELSE v]

RECURSIVE StoreAll(_, _, _)
StoreAll(sh, assigns, odd) ==
    IF assigns = << >> THEN sh
    ELSE StoreAll(Stored(sh, Head(assigns).n, Value(sh, Head(assigns).v), odd), Tail(assigns), odd)

\* ${n:=v} assigns where it is expanded.
Expanded(sh, words) ==
    LET muts == {i \in DOMAIN words : words[i].w = "mut" /\ sh.vars[words[i].n] = Unset}
    IN  IF muts = {} THEN sh ELSE Stored(sh, words[CHOOSE i \in muts : TRUE].n,
                                         words[CHOOSE i \in muts : TRUE].v, "no")

\* The substitutions of a statement run first, each in a copy of the shell.
Subs(st) == {i \in DOMAIN Words(st) : Words(st)[i].w = "sub"}

Substitute(t) ==
    /\ \E k \in {"call", "for", "case", "decl", "func"} : Ready(t, k)
    /\ Top(t).x.k = "call" => Subs(Top(t).x) # {}
    /\ LET st == Top(t).x
           run(i) == <<ListFrame(Words(st)[i].ss), Frame("env", thread[t].sh), Frame("out", thread[t].out)>>
       IN  Go(t, (IF Subs(st) = {} THEN << >> ELSE run(CHOOSE i \in Subs(st) : TRUE))
                 \o <<Frame("exec", st)>> \o Rest(t))
    /\ UNCHANGED <<judged, fs>>

Exec(t, k) == At(t, "exec") /\ Top(t).x.k = k

DefineFunction(t) ==
    /\ Exec(t, "func")
    /\ GoAs(t, [thread[t] EXCEPT !.k = Rest(t), !.ok = TRUE,
                                 !.sh.fns = Put(@, Top(t).x.n, Top(t).x.body)])
    /\ UNCHANGED <<judged, fs>>

Declare(t) ==
    /\ Exec(t, "decl")
    /\ LET st == Top(t).x
           sh == thread[t].sh
           v == Value(sh, st.v)
           marks == st.flags \cap {"n", "i", "r"} # {}
           plain == IF "n" \in st.flags \/ st.v = Lit("") THEN sh ELSE Stored(sh, st.n, v, "no")
           marked == [plain EXCEPT !.attrs = IF marks THEN @ \cup {st.n} ELSE @]
       IN  GoAs(t, [thread[t] EXCEPT !.k = Rest(t), !.ok = TRUE,
               !.sh = IF "n" \in st.flags THEN [marked EXCEPT !.refs = Put(@, st.n, v)] ELSE marked])
    /\ UNCHANGED <<judged, fs>>

\* The fields that the items of a for clause may expand to: a value that is
\* not set is none, one that splits is two.
Fields(sh, word) ==
    LET v == IF word.w = "par" THEN sh.vars[ChainEnd(sh.refs, word.n)] ELSE Output
        many == {[i \in 1..n |-> Output] : n \in 0..2}
    IN  CASE IsStatic(word) -> {<<word.v>>}
          [] word.w = "par" /\ word.quoted -> {<<v>>}
          [] v \in {Unset, ""} -> {<< >>}
          [] v = Output -> many
          [] <<v, sh.vars["IFS"]>> \in Splitting -> {<<Output, Output>>}
          [] OTHER -> {<<v>>}

RECURSIVE AllFields(_, _)
AllFields(sh, items) ==
    IF items = << >> THEN {<< >>}
    ELSE {f \o g : f \in Fields(sh, Head(items)), g \in AllFields(sh, Tail(items))}

Loop(t) ==
    /\ Exec(t, "for")
    /\ \E fields \in AllFields(thread[t].sh, Top(t).x.items) :
           Go(t, <<Frame("next", Round(t, Top(t).x, fields))>> \o Rest(t))
    /\ UNCHANGED <<judged, fs>>

\* One field after the other.  The walk follows every item of a literal list
\* (enumerateStaticFor), and of another list the first round.
NextField(t) ==
    /\ At(t, "next")
    /\ LET x == Top(t).x
           n == x.st.n
           begins(p) == <<[p[1] EXCEPT !.vars[n] = Unset], p[2]>>
           moved == /\ x.n > 0 /\ \E i \in DOMAIN x.st.items : ~IsStatic(x.st.items[i])
                    /\ begins(x.from) # begins(<<thread[t].sh, fs>>)
           next == [x EXCEPT !.n = @ + 1, !.fields = Tail(@), !.moved = @ \/ moved]
       IN  IF x.fields = << >> THEN Go(t, Rest(t))
           ELSE GoAs(t, [thread[t] EXCEPT
                    !.k = <<ListFrame(x.st.do), Frame("next", next)>> \o Rest(t),
                    !.sh = Stored(@, n, Head(x.fields), "no")])
    /\ UNCHANGED <<judged, fs>>

Choose(t) ==
    /\ Exec(t, "case")
    /\ LET st == Top(t).x
           runs == CaseRuns(st, Value(thread[t].sh, st.sel))
       IN  GoAs(t, [thread[t] EXCEPT !.ok = TRUE,
               !.k = [i \in DOMAIN runs |-> ListFrame(st.items[runs[i]].ss)] \o Rest(t)])
    /\ UNCHANGED <<judged, fs>>

\* The words of a call are expanded; direct leaves out a leading command;
\* src names the text it runs in this shell: a function's body or eval's.
Expansion(st, sh, argv, fns) ==
    LET direct == IF Len(argv) > 1 /\ argv[1] = "command" THEN Tail(argv) ELSE argv
    IN  [st |-> st, sh |-> sh, argv |-> argv, direct |-> direct,
         src |-> CASE argv = << >> -> "none"
                   [] argv # << >> /\ argv[1] \in DOMAIN fns -> fns[argv[1]]
                   [] argv # << >> /\ argv[1] \notin DOMAIN fns /\ direct[1] = "eval" /\ Len(direct) = 2 -> direct[2]
                   [] OTHER -> "none"]

ExpandedCall(st, sh) == Expansion(st, sh, ValuesOf(sh, st.args), sh.fns)

Expand(t) ==
    /\ Exec(t, "call") \/ (Ready(t, "call") /\ Subs(Top(t).x) = {})
    /\ Go(t, <<Frame("call", ExpandedCall(Top(t).x, Expanded(thread[t].sh, Top(t).x.args)))>> \o Rest(t))
    /\ UNCHANGED <<judged, fs>>

\* The call at the top of thread t.
Call(t) == Top(t).x.st
Sh(t) == Top(t).x.sh
Direct(t) == Top(t).x.direct
Name(t) == Direct(t)[1]
Last(t) == Direct(t)[Len(Direct(t))]
Source(t) == Top(t).x.src

Nested(t) == At(t, "call") /\ Source(t) # "none"
Leaf(t) == At(t, "call") /\ Source(t) = "none" /\ Direct(t) # << >>

AssignOnly(t) ==
    /\ At(t, "call") /\ Direct(t) = << >>
    /\ \E odd \in {"no", "kept", "other"} :
           GoAs(t, [thread[t] EXCEPT !.k = Rest(t), !.ok = TRUE,
                                     !.sh = StoreAll(@, Call(t).assigns, odd)])
    /\ UNCHANGED <<judged, fs>>

\* A function or eval runs in this shell; its assignment prefix is undone.
Enter(t) ==
    /\ Nested(t)
    /\ Cardinality({i \in DOMAIN thread[t].k : thread[t].k[i].f = "ret"}) < MaxDepth
    /\ LET body == IF Source(t) \in DOMAIN Text THEN Text[Source(t)] ELSE << >>
           names == {Call(t).assigns[i].n : i \in DOMAIN Call(t).assigns}
       IN  GoAs(t, [thread[t] EXCEPT
               !.k = <<ListFrame(body),
                       Frame("ret", [enc |-> thread[t].enc, old |-> [n \in names |-> Sh(t).vars[n]]])>>
                     \o Rest(t),
               !.sh = StoreAll(Sh(t), Call(t).assigns, "no"),
               !.ok = TRUE,
               !.enc = @ \cup {Call(t).id}])
    /\ UNCHANGED <<judged, fs>>

Leave(t) ==
    /\ At(t, "ret")
    /\ LET x == Top(t).x IN
       GoAs(t, [thread[t] EXCEPT !.k = Rest(t), !.enc = x.enc,
           !.sh.vars = [n \in Names |-> IF n \in DOMAIN x.old THEN x.old[n] ELSE @[n]]])
    /\ UNCHANGED <<judged, fs>>

\* return: the frames up to the call's are dropped.
Return(t) ==
    /\ Leaf(t) /\ Name(t) = "return"
    /\ LET rets == {i \in DOMAIN thread[t].k : thread[t].k[i].f = "ret"}
           first == CHOOSE i \in rets : \A j \in rets : i <= j
       IN  Go(t, IF rets = {} THEN << >> ELSE SubSeq(thread[t].k, first, Len(thread[t].k)))
    /\ UNCHANGED <<judged, fs>>

\* A shell with -c, and watch: a new shell in the same directory.
RunShell(t) ==
    /\ Leaf(t) /\ Name(t) \in {"bash", "watch"}
    /\ LET sh == [Shell0 EXCEPT !.cwd = Sh(t).cwd, !.vars.PWD = Sh(t).cwd]
       IN  GoAs(t, [thread[t] EXCEPT
               !.k = <<ListFrame(IF Last(t) \in DOMAIN Text THEN Text[Last(t)] ELSE << >>),
                       Frame("env", Sh(t)), Frame("ret", [enc |-> thread[t].enc, old |-> NoMap])>> \o Rest(t),
               !.sh = sh, !.enc = @ \cup {Call(t).id}])
    /\ UNCHANGED <<judged, fs>>

\* cd with the variables of its own prefix.
Cd(t) ==
    /\ Leaf(t) /\ Name(t) = "cd"
    /\ LET sh == StoreAll(Sh(t), Call(t).assigns, "no")
           to == Last(t)
           physical == Len(Direct(t)) > 2
           list == PathList[sh.vars["CDPATH"]]
           search == to \in Plain /\ sh.vars["CDPATH"] \notin {Unset, ""}
           tries == IF search THEN [i \in DOMAIN list |-> Join[Join[sh.cwd][list[i]]][to]]
                    ELSE <<Join[sh.cwd][to]>>
           hits == {i \in DOMAIN tries : tries[i] \in fs}
           found == tries[CHOOSE i \in hits : \A j \in hits : i <= j]
           dir == IF physical THEN Real[found] ELSE found
           new == [Sh(t) EXCEPT !.cwd = dir, !.vars.OLDPWD = sh.cwd, !.vars.PWD = dir]
       IN  IF to \in Targets /\ hits # {}
           THEN GoAs(t, [thread[t] EXCEPT !.k = Rest(t), !.ok = TRUE, !.sh = new])
           ELSE GoAs(t, [thread[t] EXCEPT !.k = Rest(t), !.ok = FALSE, !.sh = Sh(t)])
    /\ UNCHANGED <<judged, fs>>

\* Builtins that change the shell; source may do anything.
Builtin(t) ==
    /\ Leaf(t)
    /\ LET sh == Sh(t)
           done(new) == GoAs(t, [thread[t] EXCEPT !.k = Rest(t), !.ok = TRUE, !.sh = new])
       IN  \/ Name(t) = "read" /\ GoAs(t, [thread[t] EXCEPT !.k = Rest(t), !.in = {},
                                               !.sh = Stored(sh, Last(t), Output, "no")])
           \/ Name(t) = "unset" /\ done([sh EXCEPT !.vars[ChainEnd(sh.refs, Last(t))] = Unset])
           \/ Name(t) = "readonly" /\ done([sh EXCEPT !.attrs = @ \cup {Last(t)}])
           \/ Name(t) \in {"export", "set", "-v"} /\ done(sh)
           \/ Name(t) = "let" /\ done(Stored(sh, "x", Output, "no"))
           \/ Name(t) \in {"pushd", "source"} /\
                 \E d \in fs : done([sh EXCEPT !.cwd = d, !.vars.PWD = d, !.vars.OLDPWD = sh.cwd])
           \/ Name(t) = "source" /\ done(Stored(sh, "x", Output, "no"))
    /\ UNCHANGED <<judged, fs>>

\* A command of its own: it may read the input and pass it on, change files
\* and fail.
Tools == {"tool", "git", "echo", "cat", "tee", ":", "true", "false"}

Run(t) ==
    /\ Leaf(t) /\ Name(t) \in Tools
    /\ LET th == thread[t]
           name == Name(t)
           quiet == name \in {"echo", ":", "true", "false"}
           file == name = "cat" /\ Len(Direct(t)) > 1
           written == Call(t).redir \in {"write", "dynamic"}
       IN  \E reads \in BOOLEAN, ok \in BOOLEAN :
             /\ (quiet \/ file) => ~reads
             /\ name \in {"cat", "tee"} /\ ~file => reads
             /\ name \in {":", "true"} => ok
             /\ name = "false" => ~ok
             /\ GoAs(t, [th EXCEPT !.k = Rest(t), !.ok = ok, !.sh = Sh(t),
                    !.in = IF reads THEN {} ELSE @,
                    !.out = @ \cup (IF written THEN {} ELSE
                                    (IF reads THEN {p[1] : p \in th.in} ELSE {})
                                    \cup (IF name = "tool" THEN {Call(t).id} ELSE {}))])
             /\ IF name \in {"tool", "git"}
                THEN \E d \in {{}} \cup {{c} : c \in Changing} : fs' = (fs \ d) \cup (d \ fs)
                ELSE UNCHANGED fs
    /\ UNCHANGED judged

Step(t) ==
    \/ NextStmt(t) \/ RedirectFails(t) \/ Prepare(t) \/ Compound(t) \/ Resume(t)
    \/ Test(t) \/ Again(t) \/ Pipeline(t) \/ NextStage(t) \/ Substitute(t) \/ DefineFunction(t) \/ Declare(t)
    \/ Loop(t) \/ NextField(t) \/ Choose(t) \/ Expand(t) \/ AssignOnly(t) \/ Enter(t) \/ Leave(t) \/ Return(t)
    \/ RunShell(t) \/ Cd(t) \/ Builtin(t) \/ Run(t)

Next == \E t \in Jobs : Step(t)
Spec == Init /\ [][Next]_vars

----------------------------------------------------------------------------
(* Properties                                                              *)

\* The candidates that speak of the call at the top of thread t: its own, and
\* the unresolved ones of the calls and the loops it runs in.
Around(t) ==
    thread[t].enc \cup {thread[t].k[i].x.id :
                          i \in {j \in DOMAIN thread[t].k : thread[t].k[j].f \in {"exec", "next"}}}

About(t) ==
    {c \in known : c.id = Call(t).id \/ (c.un /\ c.id \in Around(t))}

\* A thread is never without a shell it can be in, and a candidate without a
\* directory is marked unresolved (cwdState, extractSimples).
TypeOK ==
    /\ script \in DOMAIN Scripts /\ fs \subseteq Dirs
    /\ \A c \in known : c.cwd \in (IF c.un THEN Dirs \cup {Unknown} ELSE Dirs)
    /\ \A t \in Jobs : /\ thread[t].sh.cwd \in Dirs /\ DOMAIN thread[t].sh.vars = Names
                         /\ thread[t].ok \in BOOLEAN

\* Whatever branches were taken, functions redefined, directories created or
\* removed and jobs left running, the command a shell is about to run is a
\* candidate with exactly its words and its directory, or a candidate the
\* analyser marked unresolved (Normalize, extractSimples).  A shell is named by
\* the commands of its text.  The walk follows a loop's body once
\* (whileClause), so this is said of every round that finds the shell and the
\* directories of the first, and of none that finds others.
CommandIsNamed ==
    \A t \in Jobs : Leaf(t) /\ ~Later(t) /\ Name(t) \notin {"-v", "bash", "watch"} =>
        \E c \in About(t) : c.un \/ (c.cwd = Sh(t).cwd /\ c.argv = Direct(t))

\* The git command a shell is about to run finds the repository variables the
\* analyser recorded, or is marked unresolved (gitRepositoryEnvironment); of
\* loops it says what CommandIsNamed does.
GitDirIsKnown ==
    \A t \in Jobs : Leaf(t) /\ ~Later(t) /\ Name(t) = "git" =>
        \E c \in About(t) :
            c.un \/ c.git = StoreAll(Sh(t), Call(t).assigns, "no").vars["GIT_DIR"]

\* Bytes that a command wrote into a pipe, however many stages passed them
\* on, are read only by commands marked with the pipeline they came through,
\* and, where the writer is marked with it too, at a later stage of the same
\* bytes (markPipelineIngress).  A writer that follows a statement which used up
\* the input of its stage is not marked: a rule that looks for both ends of a
\* pipe does not find that one.
PipedInputIsMarked ==
    \A t \in Jobs : Leaf(t) /\ Name(t) \in {"tool", "cat", "tee", "bash"} /\ Call(t).redir # "read" =>
        \A b \in thread[t].in :
            LET writer == UNION {{p \in c.pipes : p[1][1] = b[2]} : c \in {c \in known : c.id = b[1]}}
                here == {q \in UNION {c.pipes : c \in About(t)} : q[1][1] = b[2]}
            IN  /\ here # {}
                /\ \A p \in writer : \E q \in here : q[1] = p[1] /\ q[2] > p[2]
===============================================================================
