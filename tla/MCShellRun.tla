----------------------------- MODULE MCShellRun -----------------------------
(***************************************************************************)
(* ShellRun on every combination of a few commands in each construct of    *)
(* the shell, followed by two commands that use what the analyser knows    *)
(* then.  TLC evaluates a definition without parameters once, so the       *)
(* tables are definitions of their own.                                    *)
(***************************************************************************)
EXTENDS ShellRun

MCNames == {"x", "y", "z", "PWD", "OLDPWD", "CDPATH", "IFS", "HOME", "GIT_DIR"}
MCDirs == {"/", "/r", "/r/a", "/r/b", "/r/l", "/r/u", "/none"}
MCTargets == {"a", "b", "l", "u", "r", "..", "/", "/r/b"}
MCPlain == {"a", "b", "l", "u", "r"}
MCValues == MCDirs \cup MCTargets \cup {"", ",", " ", "s p", "P", "f", "x", "y", "cd a"}

MCJoin == [d \in MCDirs |-> [t \in MCTargets |->
    CASE t \in {"/", "/r/b"} -> t
      [] t = ".." /\ d \in {"/r/a", "/r/b", "/r/l", "/r/u"} -> "/r"
      [] t = ".." -> "/"
      [] t = "r" /\ d = "/" -> "/r"
      [] d = "/r" /\ t = "a" -> "/r/a"
      [] d = "/r" /\ t = "b" -> "/r/b"
      [] d = "/r" /\ t = "l" -> "/r/l"
      [] d = "/r" /\ t = "u" -> "/r/u"
      [] OTHER -> "/none"]]
MCReal == [d \in MCDirs |-> IF d = "/r/l" THEN "/r/a" ELSE d]
MCProbe == [d \in MCDirs |-> CASE d \in {"/r/b", "/none"} -> "missing"
                               [] d = "/r/u" -> "unknown" [] OTHER -> "accessible"]
MCPathList == [v \in MCValues |-> IF v = "P" THEN <<"/">> ELSE << >>]
MCSplitting == {<<"s p", " ">>}

----------------------------------------------------------------------------
(* Constructors                                                            *)

Base(id, k) == [id |-> id, k |-> k, neg |-> FALSE, bg |-> FALSE, redir |-> "none", to |-> Lit("")]
CallS(id, assigns, args) == Base(id, "call") @@ [assigns |-> assigns, args |-> args]
Cmd(id, names) == CallS(id, << >>, [i \in DOMAIN names |-> Lit(names[i])])
Set(id, n, word) == CallS(id, <<[n |-> n, v |-> word]>>, << >>)
With(n, v, st) == [st EXCEPT !.assigns = <<[n |-> n, v |-> Lit(v)]>>]
Decl(id, flags, n, v) == Base(id, "decl") @@ [flags |-> flags, n |-> n, v |-> Lit(v)]
Func(id, n, body) == Base(id, "func") @@ [n |-> n, body |-> body]
Two(k, id, x, y) == Base(id, k) @@ [x |-> x, y |-> y]
Group(k, id, ss) == Base(id, k) @@ [ss |-> ss]
If(id, c, a, b) == Base(id, "if") @@ [cond |-> <<c>>, then |-> a, else |-> b]
While(id, until, c, body) == Base(id, "while") @@ [cond |-> <<c>>, do |-> body, until |-> until]
For(id, n, items, body) == Base(id, "for") @@ [n |-> n, items |-> items, do |-> body]
Item(pats, op, ss) == [pats |-> pats, op |-> op, ss |-> ss]
Case(id, sel, items) == Base(id, "case") @@ [sel |-> sel, items |-> items]
Src(v) == [w |-> "src", v |-> v]
Sub(ss) == [w |-> "sub", ss |-> ss]
Not(st) == [st EXCEPT !.neg = TRUE]
Back(st) == [st EXCEPT !.bg = TRUE]
Redir(st, r) == [st EXCEPT !.redir = r]
Into(st, word) == [st EXCEPT !.redir = "dynamic", !.to = word]
X == Par("x", FALSE)
QX == Par("x", TRUE)

\* The commands of the scripts, by name.
LeafOf(l, id) ==
    CASE l = "cd a" -> Cmd(id, <<"cd", "a">>)
      [] l = "cd b" -> Cmd(id, <<"cd", "b">>)
      [] l = "cd u" -> Cmd(id, <<"cd", "u">>)
      [] l = "cd .." -> Cmd(id, <<"cd", "..">>)
      [] l = "cd -P l" -> Cmd(id, <<"cd", "-P", "l">>)
      [] l = "cd $x" -> CallS(id, << >>, <<Lit("cd"), QX>>)
      [] l = "cd r" -> Cmd(id, <<"cd", "r">>)
      [] l = "CDPATH=" -> Set(id, "CDPATH", Lit("P"))
      [] l = "CDPATH= cd" -> With("CDPATH", "P", Cmd(id, <<"cd", "r">>))
      [] l = "x=a" -> Set(id, "x", Lit("a"))
      [] l = "x=b" -> Set(id, "x", Lit("b"))
      [] l = "x=s p" -> Set(id, "x", Lit("s p"))
      [] l = "x=cd a" -> Set(id, "x", Lit("cd a"))
      [] l = "x=$y" -> Set(id, "x", Par("y", TRUE))
      [] l = "IFS=" -> Set(id, "IFS", Lit(","))
      [] l = "z=b" -> Set(id, "z", Lit("b"))
      [] l = "nameref" -> Decl(id, {"n"}, "z", "x")
      [] l = "integer" -> Decl(id, {"i"}, "x", "")
      [] l = "declare" -> Decl(id, {}, "x", "b")
      [] l = "let" -> Base(id, "arith")
      [] l = "tool" -> Cmd(id, <<"tool">>)
      [] l = "tool $x" -> CallS(id, << >>, <<Lit("tool"), X>>)
      [] l = "x=a tool" -> With("x", "a", CallS(id, << >>, <<Lit("tool"), QX>>))
      [] l = "mut" -> CallS(id, << >>, <<Lit("tool"), [w |-> "mut", n |-> "x", v |-> "b"]>>)
      [] l = "sub" -> CallS(id, << >>, <<Lit("echo"), Sub(<<Cmd(id \o "s", <<"cd", "a">>), Cmd(id \o "t", <<"tool">>)>>)>>)
      [] l = "git" -> Cmd(id, <<"git">>)
      [] l = "GIT_DIR= git" -> With("GIT_DIR", "a", Cmd(id, <<"git">>))
      [] l = "GIT_DIR=" -> Set(id, "GIT_DIR", Lit("a"))
      [] l = "GIT_DIR=$x git" ->
            [Cmd(id, <<"git">>) EXCEPT !.assigns = <<[n |-> "GIT_DIR", v |-> QX]>>]
      [] l = "read x" -> Cmd(id, <<"read", "x">>)
      [] l = "read GIT_DIR" -> Cmd(id, <<"read", "GIT_DIR">>)
      [] l = "unset x" -> Cmd(id, <<"unset", "x">>)
      [] l = "unset GIT_DIR" -> Cmd(id, <<"unset", "GIT_DIR">>)
      [] l = "command readonly" -> Cmd(id, <<"command", "readonly", "x">>)
      [] l = "command cd" -> Cmd(id, <<"command", "cd", "a">>)
      [] l = "command -v" -> Cmd(id, <<"command", "-v", "a">>)
      [] l = "set" -> Cmd(id, <<"set">>)
      [] l = "source" -> Cmd(id, <<"source", "a">>)
      [] l = "pushd" -> Cmd(id, <<"pushd", "a">>)
      [] l = "return" -> Cmd(id, <<"return">>)
      [] l = "f" -> Cmd(id, <<"f">>)
      [] l = "x=a f" -> With("x", "a", Cmd(id, <<"f">>))
      [] l = "true" -> Cmd(id, <<"true">>)
      [] l = "false" -> Cmd(id, <<"false">>)
      [] l = ":" -> Cmd(id, <<":">>)
      [] l = "> file" -> Redir(Cmd(id, <<"echo">>), "write")
      [] l = "cat" -> Cmd(id, <<"cat">>)
      [] l = "cat file" -> Cmd(id, <<"cat", "a">>)
      [] l = "cat < file" -> Redir(Cmd(id, <<"cat">>), "read")
      [] l = "tee" -> Cmd(id, <<"tee", "a">>)
      [] l = "tool > file" -> Redir(Cmd(id, <<"tool">>), "write")
      [] l = "echo $(tool)" -> CallS(id, << >>, <<Lit("echo"), Sub(<<Cmd(id \o "s", <<"tool">>)>>)>>)
      [] l = "tool > $x" -> Into(Cmd(id, <<"tool">>), QX)

Uses == {"tool $x", "GIT_DIR=$x git", "x=a tool"}
Moves == {"cd a", "cd b", "cd $x", "cd u", "cd ..", "cd -P l"}
Sets == {"x=a", "x=b", "x=$y", "x=s p"}
Odd == {"nameref", "integer", "declare", "let", "mut", "read x", "unset x", "command readonly", "set",
        "source", "pushd", "command cd", "command -v", "sub", "> file", "tool > $x", "tool",
        "IFS=", "z=b", "CDPATH=", "CDPATH= cd", "cd r", "GIT_DIR=", "read GIT_DIR", "GIT_DIR= git", "unset GIT_DIR"}
Conds == {"true", "false", "tool", "cd b", "cd a"}
Flows == {"tool", "cat", "cat file", "cat < file", "tee", "> file", "tool > file", "echo $(tool)", "read x", ":"}
Few == {"cd a", "cd b", "x=a", "tool"}

\* Source text: one command, or a function's definition.
TextTable ==
    [l \in Moves \cup Sets \cup Odd \cup Flows \cup {"f", "return"} |-> <<LeafOf(l, "t")>>]
    @@ [l \in {"cd a; return"} |-> <<LeafOf("cd a", "t"), LeafOf("return", "t2"), LeafOf("x=b", "t3")>>]
    @@ [l \in {"def true"} |-> <<Func("t", "true", "cd a")>>]
    @@ [l \in {"def f"} |-> <<Func("t", "f", "cd a")>>]

Probes == <<LeafOf("tool $x", "p"), LeafOf("git", "q")>>

\* One construct around two or three commands.
Body(shape, a, b, c) ==
    LET A == LeafOf(a, "a")
        B == LeafOf(b, "b")
        C == LeafOf(c, "c")
        call == Cmd("k", <<"f">>)
        into(st) == <<Two("pipe", "g", Two("pipe", "h", Cmd("o", <<"tool">>), st), Cmd("e", <<"tool">>))>>
    IN  CASE shape = "seq" -> <<A, B, C>>
          [] shape = "and" -> <<Two("and", "k", A, B), C>>
          [] shape = "or" -> <<Two("or", "k", A, B), C>>
          [] shape = "not" -> <<Two("and", "k", Not(A), B), C>>
          [] shape = "if" -> <<If("k", A, <<B>>, <<C>>)>>
          [] shape = "while" -> <<While("k", FALSE, A, <<B>>), C>>
          [] shape = "until" -> <<While("k", TRUE, A, <<B>>), C>>
          [] shape = "while use" -> <<While("k", FALSE, A, <<LeafOf("tool $x", "e"), LeafOf("git", "i"), B>>), C>>
          [] shape = "until use" -> <<While("k", TRUE, A, <<LeafOf("tool $x", "e"), LeafOf("git", "i"), B>>), C>>
          [] shape = "sub" -> <<Group("sub", "k", <<A, B>>), C>>
          [] shape = "pipe" -> <<Two("pipe", "k", A, B), C>>
          [] shape = "time" -> <<Base("k", "time") @@ [s |-> A], Group("block", "j", <<B, C>>)>>
          [] shape = "back" -> <<Back(A), B, C>>
          [] shape = "for" -> <<For("k", "x", <<Lit("a"), Lit("b")>>, <<A, B>>), C>>
          [] shape = "for $" -> <<A, For("k", "y", <<X>>, <<LeafOf("tool $x", "e"), B>>), C>>
          [] shape = "case" -> <<A, Case("k", QX, <<Item({"a"}, "break", <<B>>), Item({"*"}, "break", <<C>>)>>)>>
          [] shape = "case a" -> <<Case("k", Lit("a"), <<Item({"a", "b"}, "fall", <<A>>), Item({"b"}, "break", <<B>>)>>), C>>
          [] shape = "case b" -> <<Case("k", Lit("b"), <<Item({"a"}, "break", <<A>>), Item({"*"}, "resume", <<B>>)>>), C>>
          [] shape = "call" -> <<Func("d", "f", a), B, call, C>>
          [] shape = "x=a call" -> <<B, Func("d", "f", a), [With("x", "a", call) EXCEPT !.assigns = @ \o <<[n |-> "GIT_DIR", v |-> Lit("a")]>>], C>>
          [] shape = "maybe" -> <<If("k", A, <<Func("d", "f", b)>>, << >>), LeafOf("f", "e"), C>>
          [] shape = "redefine" -> <<Func("d", "f", b), Two("and", "k", A, Func("e", "f", c)), Cmd("j", <<"f">>)>>
          [] shape = "constant" -> <<Two("or", "k", A, Func("d", "true", b)), If("j", Cmd("e", <<"true">>), <<C>>, <<LeafOf("cd a", "i")>>)>>
          [] shape = "eval" -> <<A, CallS("k", << >>, <<Lit("eval"), Src(b)>>), C>>
          [] shape = "eval $x" -> <<A, CallS("k", << >>, <<Lit("eval"), QX>>), B, C>>
          [] shape = "bash" -> <<A, CallS("k", << >>, <<Lit("bash"), Lit("-c"), Src(b)>>), C>>
          [] shape = "| |" -> into(Two("pipe", "k", A, B))
          [] shape = "| block" -> into(Group("block", "k", <<A, B>>))
          [] shape = "| sub" -> into(Group("sub", "k", <<A, Two("pipe", "j", B, C)>>))
          [] shape = "| and" -> into(Group("block", "j", <<Two("and", "k", A, B)>>))
          [] shape = "| if" -> into(If("k", A, <<B>>, <<C>>))
          [] shape = "| while" -> into(While("k", FALSE, A, <<B>>))
          [] shape = "| until" -> into(While("k", TRUE, A, <<B>>))
          [] shape = "| for" -> into(For("k", "x", <<Lit("a")>>, <<A, B>>))
          [] shape = "| for $" -> into(For("k", "x", <<X>>, <<A, B>>))
          [] shape = "| case" -> into(Case("k", QX, <<Item({"a"}, "break", <<A>>), Item({"*"}, "break", <<B>>)>>))
          [] shape = "| case a" -> into(Case("k", Lit("a"), <<Item({"a"}, "fall", <<A>>), Item({"b"}, "break", <<B>>)>>))
          [] shape = "| time" -> into(Base("k", "time") @@ [s |-> A])
          [] shape = "| f" -> <<Func("d", "f", a)>> \o into(call)
          [] shape = "| bash" -> into(CallS("k", << >>, <<Lit("bash"), Lit("-c"), Src(a)>>))
          [] shape = "| eval" -> into(CallS("k", << >>, <<Lit("eval"), Src(a)>>))
          [] shape = "watch" -> <<A, CallS("k", << >>, <<Lit("watch"), Src(b)>>), C>>

Keys ==
    ({"seq"} \X (Moves \cup Odd) \X {"cd b", "cd $x", "cd r", "z=b", "x=a", "cd -P l"} \X {"cd $x"})
    \cup ({"seq"} \X Odd \X Sets \X Uses)
    \cup ({"and", "or", "not", "if", "while", "until"} \X Conds \X (Moves \cup Sets) \X {"cd a", "tool"})
    \cup ({"if", "and"} \X {"tool"} \X Odd \X {"cd a"})
    \cup ({"while use", "until use"} \X Conds \X {"cd a", "cd b", "x=b", "GIT_DIR=", ":"} \X {"cd a"})
    \cup ({"sub", "pipe", "time", "back", "for"} \X (Moves \cup Sets) \X {"cd a", "cd b", "tool", "> file", "cd $x"} \X {"cd a"})
    \cup ({"for $", "case", "case a", "case b"} \X (Moves \cup Sets) \X {"cd a", "x=a", "x=b", "cd $x"} \X {"cd a", "x=a"})
    \cup ({"call", "x=a call"} \X (Moves \cup Sets \cup Odd \cup {"f", "cd a; return"}) \X {"x=b", "cd b", "tool"} \X {"cd a"})
    \cup ({"maybe", "redefine", "constant"} \X Conds \X Few \X {"cd a", "x=a", "cd b"})
    \cup ({"eval", "bash", "watch"} \X {"x=b"} \X (Moves \cup Sets \cup Odd \cup {"def true", "def f"}) \X {"cd a", "f"})
    \cup ({"eval $x"} \X {"x=cd a", "x=$y"} \X Few \X Few)

Piping ==
    ({"| |", "| block", "| and"} \X Flows \X Flows \X {"tool"})
    \cup ({"| if"} \X {"true", "tool", "cat"} \X Flows \X {"cat", ":", "> file"})
    \cup ({"| while", "| until"} \X {"true", "false", "tool", "read x", "cat"} \X Flows \X {"tool"})
    \cup ({"| sub", "| for", "| for $", "| case", "| case a"} \X Flows \X {"cat", ":", "> file"} \X {"cat"})
    \cup ({"| time", "| f", "| bash", "| eval"} \X Flows \X {"tool"} \X {"tool"})

Table == [key \in Keys \cup Piping |-> <<LeafOf("x=a", "s")>> \o Body(key[1], key[2], key[3], key[4]) \o Probes] @@ NoMap

----------------------------------------------------------------------------
MCText == TextTable
MCScripts == Table

\* The analyser judges every script before it runs.
Judged == [key \in DOMAIN Table |-> Analyse(Table[key], Home, "HOME" :> Home, Unset)] @@ NoMap
MCKnown(key) == Judged[key]
=============================================================================
