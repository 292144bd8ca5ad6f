------------------------------ MODULE ShellWalk ------------------------------
(***************************************************************************)
(* The walk of the command analyser over a parsed script                   *)
(* (internal/engine/tokenize.go, cwdWalker): what is known before every    *)
(* statement, which functions may be defined, and the candidates, the      *)
(* simple commands with the facts that the rules then judge.               *)
(***************************************************************************)
EXTENDS ShellIngress

----------------------------------------------------------------------------
(* The walker and its function environment                                 *)

\* fns: what each name may be defined as; shadow: redefined constants; unc:
\* definitions met here may not happen; active: functions being expanded;
\* states, rec: the facts before a statement, and with its own assignments;
\* reps: the candidates that stand for a call of a function, eval or loop;
\* marks: the pipeline positions of the statements.
Walker(fns, active, loop, shadow) ==
    [fns |-> fns, shadow |-> shadow, unc |-> FALSE, active |-> active, loop |-> loop,
     states |-> NoMap, rec |-> NoMap, reps |-> NoMap, marks |-> {}]

\* defineFunction
Define(w, n, body, uncertain) ==
    LET old == IF n \in DOMAIN w.fns THEN w.fns[n] ELSE [bodies |-> {}, maybe |-> TRUE]
        new == IF uncertain THEN [old EXCEPT !.bodies = @ \cup {body}]
               ELSE [bodies |-> {body}, maybe |-> FALSE]
    IN  [w EXCEPT !.fns = Put(@, n, new), !.shadow = @ \cup ({n} \cap Constants)]

\* mergeFunctionAlternatives
MergeFunctions(alternatives) ==
    [n \in UNION {DOMAIN f : f \in alternatives} |->
        LET has == {f \in alternatives : n \in DOMAIN f} IN
        [bodies |-> UNION {f[n].bodies : f \in has},
         maybe |-> has # alternatives \/ \E f \in has : f[n].maybe]]

\* publishFunctions
Publish(w, fns) ==
    LET now == IF w.unc THEN MergeFunctions({w.fns, fns}) ELSE fns
    IN  [w EXCEPT !.fns = now, !.shadow = @ \cup (DOMAIN now \cap Constants)]

JoinFunctions(w, prior) ==
    LET now == MergeFunctions({prior, w.fns})
    IN  [w EXCEPT !.fns = now, !.shadow = @ \cup (DOMAIN now \cap Constants)]

Walked(o, w) == [o |-> o, w |-> w]

----------------------------------------------------------------------------
(* The arguments and assignments of one call                               *)

\* simpleForCall and extractSimples read the words alike.
Argv(st, s) == [i \in DOMAIN st.args |-> IF IsStatic(st.args[i]) THEN st.args[i].v
                                         ELSE Resolve(s, st.args[i])]
ArgvUnresolved(st, s) ==
    \E i \in DOMAIN st.args : ~IsStatic(st.args[i]) /\ ~Resolvable(s, st.args[i])

\* simpleForCall: any redirect that is not literal is unresolved.
CallUnresolved(st, s) == ArgvUnresolved(st, s) \/ ~IsStatic(st.to)

\* extractSimples: the word of a redirect may be resolved.
SimpleUnresolved(st, s) == ArgvUnresolved(st, s) \/ ~Resolvable(s, st.to)

\* applyCallAssignments
RECURSIVE Assign(_, _)
Assign(s, assigns) ==
    IF assigns = << >> THEN s ELSE
    LET a == Head(assigns)
        end == ChainEnd(s.namerefs, a.n)
    IN  CASE ~Ends(s.namerefs, a.n) -> NoVariables(s)
          [] end # a.n -> Assign(WithoutVariables(s, {end}), Tail(assigns))
          [] IsStatic(a.v) -> Assign(WithVariable(s, a.n, a.v.v), Tail(assigns))
          [] OTHER -> Assign(WithoutVariables(s, {a.n}), Tail(assigns))

\* restoreCallAssignments
RECURSIVE RestoreEach(_, _, _)
RestoreEach(s, persistent, assigns) ==
    IF assigns = << >> THEN s ELSE
    LET end == ChainEnd(persistent.namerefs, Head(assigns).n)
    IN  RestoreEach(RestoreNameref(RestoreVariable(s, persistent, end), persistent, end),
                    persistent, Tail(assigns))

RestoreAssigns(o, persistent, assigns) ==
    LET restore(s) == IF \A i \in DOMAIN assigns : Ends(persistent.namerefs, assigns[i].n)
                      THEN RestoreEach(s, persistent, assigns) ELSE NoVariables(s)
    IN  [o EXCEPT !.s = restore(@), !.f = restore(@)]

\* invalidateCallVariables: what a builtin does to variables.  The operand of
\* read, unset, export, printf -v, ... is a name, or nothing the walk can read.
CallEffects(s, name, operand) ==
    CASE name = "cd" -> WithoutVariables(s, {"OLDPWD"})
      [] name \in {"pushd", "popd"} -> WithoutVariables(s, {"PWD", "OLDPWD"})
      [] name \in {"source", "set", "shopt", "trap"} -> Uncontrolled(s)
      [] name \in {"read", "unset", "export", "printf -v", "getopts"} ->
            InvalidateNamed(s, {operand}, operand \notin Names)
      [] name = "mapfile" ->
            IF operand \in Names THEN WithoutVariables(s, {operand})
            ELSE [UnknownCwd(Uncontrolled(s)) EXCEPT !.fsUncertain = TRUE]
      [] name \in {"declare", "readonly"} ->
            IF operand \notin Names THEN Uncontrolled(s)
            ELSE WithAttributes(WithoutVariables(s, {operand}), {operand})
      [] name = "let" -> NoVariables(s)
      [] OTHER -> s

\* invalidateDeclarationVariables
DeclEffects(s, st) ==
    LET base == WithoutVariables(s, {st.n})
        marked == IF st.flags \cap {"n", "i", "r"} # {} THEN WithAttributes(base, {st.n}) ELSE base
    IN  CASE "n" \notin st.flags -> marked
          [] IsStatic(st.v) /\ st.v.v \in Names ->
                [marked EXCEPT !.namerefs = Put(@, st.n, st.v.v)]
          [] OTHER -> NoVariables(marked)

----------------------------------------------------------------------------
(* Candidates                                                              *)

\* A candidate (Simple): the statement, its words, where it runs, GIT_DIR and
\* the pipes it may read.  un: something about it is not known.
Candidate(id, argv, un, cwd, git, pipes) ==
    [id |-> id, argv |-> argv, un |-> un, cwd |-> cwd, git |-> git, pipes |-> pipes]

\* gitRepositoryEnvironment
GitDir(s) == IF Tracked(s, "GIT_DIR") THEN s.variables["GIT_DIR"] ELSE Unset

\* A candidate for what the walk could not follow.
Unfollowed(st, w) ==
    Candidate(st.id, << >>, TRUE, Unknown, Unset, PositionsOf(w.marks, st.id))

\* Mutant: a call whose directory is not known passes for a known one.
OwnSure(st, w) ==
    LET s == w.states[st.id]
    IN  Candidate(st.id, Argv(st, s), SimpleUnresolved(st, s), s.cwd, GitDir(s), PositionsOf(w.marks, st.id))

\* extractSimples for one call, with the facts of its own assignments.
Own(st, w) ==
    LET s == w.states[st.id]
        r == IF st.id \in DOMAIN w.rec THEN w.rec[st.id] ELSE s
        argv == Argv(st, s)
        gitAssigned == \E i \in DOMAIN st.assigns :
                           st.assigns[i].n \in GitNames /\ ~IsStatic(st.assigns[i].v)
    IN  Candidate(st.id, argv,
                  \/ s.unknown \/ SimpleUnresolved(st, s) \/ gitAssigned
                  \/ r.gitUnknown /\ argv # << >> /\ argv[1] = "git",
                  s.cwd, GitDir(r), PositionsOf(w.marks, st.id))

\* replacementWithOuterMetadata
Inherit(reps, un) == {[c EXCEPT !.un = @ \/ un] : c \in reps}

RECURSIVE WFrom(_, _)
RECURSIVE WStmt(_, _, _)
RECURSIVE WCommand(_, _, _)
RECURSIVE WExpand(_, _, _)
RECURSIVE Normalize(_, _, _, _, _, _)
RECURSIVE Candidates(_, _)
RECURSIVE WItems(_, _, _, _)
RECURSIVE WAnyItem(_, _, _)

\* isolated: a child shares everything with its parent but its functions.
Isolated(r, w) == [r EXCEPT !.w.fns = w.fns, !.w.unc = w.unc]
Uncertainly(w, uncertain) == [w EXCEPT !.unc = @ \/ uncertain]
Certainly(r, w) == [r EXCEPT !.w.unc = w.unc]
InLoop(w) == [w EXCEPT !.loop = TRUE]
OutOfLoop(r, w) == [r EXCEPT !.w.loop = w.loop]

Dirty(s, dirty) == [s EXCEPT !.fsUncertain = @ \/ dirty]

\* list; the comparison makes TLC evaluate r before it walks on.
WFrom(ss, r) ==
    IF ss # << >> /\ r = r THEN WFrom(Tail(ss), WStmt(Head(ss), Merged(r.o), r.w)) ELSE r

WList(ss, s, w) == WFrom(ss, Walked(Success(s), w))

\* expansions: the substitutions of some words, each in a child.
Expanding(child, rest) ==
    [dirty |-> OutcomeUncertain(child.o) \/ rest.dirty, w |-> rest.w]

ExpandFrom(words, s, child) == Expanding(child, WExpand(words, s, child.w))

WExpand(words, s, w) ==
    CASE words = << >> -> [dirty |-> FALSE, w |-> w]
      [] words # << >> /\ Head(words).w = "sub" ->
            ExpandFrom(Tail(words), s, Isolated(WList(Head(words).ss, s, w), w))
      [] OTHER -> WExpand(Tail(words), s, w)

\* stmt: a redirect that fails leaves what was known before the command.
Finished(st, before, w, ran) ==
    LET joined == IF st.redir = "none" THEN ran
                  ELSE Walked(MergeOutcomes(ran.o, Failure(before)), JoinFunctions(ran.w, w.fns))
    IN  IF st.neg THEN [joined EXCEPT !.o = Negated(@)] ELSE joined

WRun(st, before, w) ==
    IF st.bg THEN Walked(Both(Dirty(before, TRUE)), Isolated(WCommand(st, Dirty(before, TRUE), w), w).w)
    ELSE Finished(st, before, w, WCommand(st, before, w))

WAt(st, s, w) ==
    WRun(st, Dirty(s, st.redir \in {"write", "dynamic"}), [w EXCEPT !.states = Put(@, st.id, s)])

WStmt(st, s, w) ==
    IF st.k = "func" /\ ~st.bg
    THEN Walked(Success(s), Define(w, st.n, st.body, w.unc \/ s.unknown))
    ELSE WAt(st, IF Assigning(st) THEN Uncontrolled(s) ELSE s, w)

\* && and ||: the right side runs on one outcome of the left.
Joined(other, right, left) ==
    Walked(MergeOutcomes(other, right.o), JoinFunctions(right.w, left.w.fns))

AndThen(left, right) ==
    IF left.o.no THEN Joined(Failure(left.o.f), right, left) ELSE right
WAndRight(st, left) ==
    IF left.o.ok THEN AndThen(left, WStmt(st.y, left.o.s, left.w)) ELSE left
WAnd(st, s, w) == WAndRight(st, WStmt(st.x, s, w))

OrElse(left, right) ==
    IF left.o.ok THEN Joined(Success(left.o.s), right, left) ELSE right
WOrRight(st, left) ==
    IF left.o.no THEN OrElse(left, WStmt(st.y, left.o.f, left.w)) ELSE left
WOr(st, s, w) == WOrRight(st, WStmt(st.x, s, w))

Piped(s, left, right) ==
    Walked(Both(Dirty(s, OutcomeUncertain(left.o) \/ OutcomeUncertain(right.o))), right.w)
WPipeRight(st, s, w, left) == Piped(s, left, Isolated(WStmt(st.y, s, left.w), w))
WPipe(st, s, w) == WPipeRight(st, s, w, Isolated(WStmt(st.x, s, w), w))

SubDone(s, child) ==
    LET after == Dirty(s, OutcomeUncertain(child.o))
    IN  Walked(Outcome(child.o.ok, child.o.no, after, after), child.w)
WSub(st, s, w) == SubDone(s, Isolated(WList(st.ss, s, w), w))

\* ifClause: the branches that may run, one after the other.
IfDone(s, c, doThen, doElse, then, else) ==
    CASE doThen /\ doElse -> Walked(MergeOutcomes(then.o, else.o), else.w)
      [] doThen /\ ~doElse -> then
      [] doElse /\ ~doThen -> else
      [] OTHER -> Walked(Outcome(FALSE, FALSE, s, s), c.w)

WElse(st, s, c, truth, then) ==
    IfDone(s, c, truth # "false" /\ c.o.ok, truth # "true" /\ c.o.no, then,
           IF st.else = << >> THEN Walked(Success(c.o.f), then.w)
           ELSE Certainly(WList(st.else, c.o.f, Uncertainly(then.w, truth = "unknown")), then.w))

WThen(st, s, c, truth) ==
    WElse(st, s, c, truth,
          IF truth # "false" /\ c.o.ok
          THEN Certainly(WList(st.then, c.o.s, Uncertainly(c.w, truth = "unknown")), c.w)
          ELSE c)

WBranch(st, s, c) == WThen(st, s, c, Truth(st.cond, c.w.shadow))
WIf(st, s, w) == WBranch(st, s, WList(st.cond, s, w))

\* A body that may run again: what it changed is not known afterwards.
AfterBody(s, end, repeats) ==
    IF repeats /\ CwdMayChange(s, end) THEN UnknownCwd(MergeCwd(s, end)) ELSE end

\* whileClause
WhileDone(st, s, c, truth, body) ==
    LET post == AfterBody(s, Merged(body.o), TRUE)
        exit == IF st.until THEN c.o.s ELSE c.o.f
    IN  CASE truth = (IF st.until THEN "true" ELSE "false") -> Walked(Success(exit), c.w)
          [] truth = "unknown" -> Walked(Both(MergeCwd(exit, post)), body.w)
          [] OTHER -> Walked(Both(post), body.w)

WDo(st, s, c) ==
    WhileDone(st, s, c, Truth(st.cond, c.w.shadow),
              Certainly(WList(st.do, IF st.until THEN c.o.f ELSE c.o.s, Uncertainly(c.w, TRUE)), c.w))
WWhile(st, s, w) == OutOfLoop(WDo(st, s, WList(st.cond, s, InLoop(w))), w)

\* loopOutcomeChangesTrackedFacts, for one item of an enumerated loop that
\* starts from the facts b.
ItemRun(b, fns, r) ==
    LET facts(x) == [x EXCEPT !.fsUncertain = FALSE]
        cds == \E c \in r.cands : c.argv # << >> /\ c.argv[1] = "cd"
        changes(x) == facts(x) # facts(b) \/ (x.fsUncertain # b.fsUncertain /\ cds)
    IN  [cands |-> r.cands, fns |-> r.fns,
         moved |-> (r.o.ok /\ changes(r.o.s)) \/ (r.o.no /\ changes(r.o.f)) \/ r.fns # fns]

WItem(st, b, w) ==
    ItemRun(b, w.fns, Normalize(st.do, b, w.fns, w.active, TRUE, PositionsOf(w.marks, st.id)))

\* enumerateStaticFor: every item is judged, nothing is known afterwards.
Enumerated(st, s, w, runs) ==
    LET lost == Len(st.items) > 1 /\ \E r \in runs : r.moved
        reps == UNION {r.cands : r \in runs} \cup (IF lost THEN {Unfollowed(st, w)} ELSE {})
    IN  Walked(Both(Conservative(s)),
               Publish([w EXCEPT !.reps = Put(@, st.id, reps)],
                       MergeFunctions({w.fns} \cup {r.fns : r \in runs})))

WEnumerate(st, s, w) ==
    Enumerated(st, s, w, {WItem(st, WithVariable(s, st.n, st.items[i].v), w) : i \in DOMAIN st.items})

\* A loop that is not expanded: its body once, with the iterator unknown.
ForDone(st, s, w0, body) ==
    LET end == IF Iterations(st) = "possible" THEN MergeCwd(s, Merged(body.o)) ELSE Merged(body.o)
    IN  Walked(Both(AfterBody(s, end, MayRepeat(st))), OutOfLoop(Certainly(body, w0), w0).w)

WOnce(st, s, w, w0) ==
    ForDone(st, s, w0, WList(st.do, s, Uncertainly(InLoop(w), Iterations(st) = "possible" \/ MayRepeat(st))))

WForItems(st, s, w, w0) ==
    CASE ~w0.loop /\ ~HasKind(st.do, {"for", "while"}) /\ Enumerable(st, s) -> WEnumerate(st, s, w)
      [] Iterations(st) = "none" -> Walked(Success(s), w)
      [] OTHER -> WOnce(st, WithoutVariables(s, {st.n}), w, w0)

WForAfter(st, s, w0, x) == WForItems(st, Dirty(s, x.dirty), x.w, w0)
WFor(st, s, w) == WForAfter(st, s, w, WExpand(st.items, s, w))

\* caseClause, over the items that a known selector runs or over all of them.
ItemsAfter(st, runs, body) == WItems(st, runs, Merged(body.o), body.w)
WItems(st, runs, s, w) ==
    IF runs = << >> THEN Walked(Both(s), w)
    ELSE ItemsAfter(st, Tail(runs), WList(st.items[Head(runs)].ss, s, w))

AnyAfter(items, s, r, body) ==
    WAnyItem(items, s, Walked(Both(MergeCwd(r.o.s, Merged(body.o))), body.w))
WAnyItem(items, s, r) ==
    IF items = << >> THEN r ELSE AnyAfter(Tail(items), s, r, WList(Head(items).ss, s, r.w))

WCaseItems(st, s, w) ==
    IF IsStatic(st.sel) THEN WItems(st, CaseRuns(st, st.sel.v), s, w)
    ELSE Certainly(WAnyItem(st.items, s, Walked(Both(s), Uncertainly(w, TRUE))), w)
WCaseAfter(st, s, x) == WCaseItems(st, Dirty(s, x.dirty), x.w)
WCase(st, s, w) == WCaseAfter(st, s, WExpand(<<st.sel>>, s, w))

RECURSIVE MergeAll(_)
MergeAll(outs) ==
    LET o == CHOOSE o \in outs : TRUE
    IN  IF outs = {o} THEN o ELSE MergeOutcomes(o, MergeAll(outs \ {o}))

\* functionCall: every body the name may have, and the call itself where it
\* may have another meaning.
FunctionDone(st, set, s, w, runs) ==
    LET ambiguous == set.maybe \/ Cardinality(set.bodies) # 1
        call == Candidate(st.id, Argv(st, s), TRUE, s.cwd, Unset, PositionsOf(w.marks, st.id))
        reps == UNION {r.cands : r \in runs} \cup (IF ambiguous THEN {call} ELSE {})
        outs == {r.o : r \in runs} \cup (IF set.maybe THEN {Both(UnknownCwd(s))} ELSE {})
        fns == {r.fns : r \in runs} \cup (IF set.maybe THEN {w.fns} ELSE {})
    IN  Walked(MergeAll(outs), Publish([w EXCEPT !.reps = Put(@, st.id, reps)], MergeFunctions(fns)))

Lost(st, s, w) == Walked(Both(UnknownCwd(s)), [w EXCEPT !.reps = Put(@, st.id, {Unfollowed(st, w)})])

WFunction(st, name, s, w) ==
    IF name \in w.active THEN Lost(st, s, w)
    ELSE FunctionDone(st, w.fns[name], s, w,
             {Normalize(Text[b], s, w.fns, w.active \cup {name}, w.loop, PositionsOf(w.marks, st.id))
                  : b \in w.fns[name].bodies})

\* eval
EvalDone(st, w, run) ==
    Walked(run.o, Publish([w EXCEPT !.reps = Put(@, st.id, run.cands)], run.fns))

WEval(st, unresolved, s, w) ==
    IF s.unknown \/ unresolved
    THEN Lost(st, Uncontrolled(s), [w EXCEPT !.shadow = @ \cup Constants])
    ELSE LET source == Resolve(s, st.args[2])
             text == IF source \in DOMAIN Text THEN Text[source] ELSE << >>
         IN  EvalDone(st, w, Normalize(text, s, w.fns, w.active, w.loop, PositionsOf(w.marks, st.id)))

\* The builtins, and every other command: all but a few may change files.
WBuiltin(st, s, w, rest, unresolved, local) ==
    LET operand == IF Len(rest) > 1 THEN rest[Len(rest)] ELSE "REPLY"
        state == CallEffects(s, rest[1], operand)
        after == Dirty(state, ~(Len(rest) = Len(st.args) /\ rest[1] \in {"cd", ":", "true", "false"}))
        truth == Truth(<<[st EXCEPT !.neg = FALSE]>>, w.shadow)
        physical == Len(rest) > 2 /\ rest[2] = "-P"
        declares == rest[1] \in {"declare", "readonly"}
        lost == unresolved /\ (Len(rest) < Len(st.args) \/ DOMAIN w.fns # {})
    IN  CASE lost -> Walked(Both(UnknownCwd(IF declares THEN state ELSE s)), w)
          [] ~lost /\ rest[1] = "cd" ->
                Walked(RestoreAssigns(CdOutcome(CallEffects(local, "cd", operand),
                                                ~unresolved /\ operand \in Targets, operand, physical),
                                      state, st.assigns), w)
          [] ~lost /\ rest[1] \in {"pushd", "popd", "return", "break", "continue"} ->
                Walked(Both(UnknownCwd(state)), w)
          [] ~lost /\ rest[1] = "source" -> Walked(Both(UnknownCwd(Uncontrolled(local))), w)
          [] OTHER -> Walked(Outcome(truth # "false", truth # "true", after, after), w)

\* call
Restored(r, s, assigns) == [r EXCEPT !.o = RestoreAssigns(@, s, assigns)]

WCallWith(st, s, w, argv, unresolved, local) ==
    LET bypass == argv[1] = "command" /\ Len(argv) > 1
        rest == IF bypass THEN Tail(argv) ELSE argv
    IN  CASE argv[1] # Unknown /\ argv[1] \in DOMAIN w.fns ->
               Restored(WFunction(st, argv[1], local, w), s, st.assigns)
          [] bypass /\ rest[1] = "command" -> Walked(Both(UnknownCwd(Uncontrolled(s))), w)
          [] bypass /\ rest[1] = "-v" -> Walked(Both(s), w)
          [] rest[1] = "eval" -> Restored(WEval(st, unresolved, local, w), s, st.assigns)
          [] OTHER -> WBuiltin(st, s, w, rest, unresolved, local)

WAssigned(st, s, w, local) ==
    IF st.args = << >> THEN Walked(Success(local), w)
    ELSE WCallWith(st, s, [w EXCEPT !.rec = Put(@, st.id, local)],
                   Argv(st, s), CallUnresolved(st, s), local)

WCall(st, s, w) == WAssigned(st, s, w, Assign(s, st.assigns))

\* command
WExpanded(st, s, w, x) ==
    CASE st.k = "call" -> WCall(st, Dirty(s, x.dirty), x.w)
      [] st.k = "pipe" -> WPipe(st, s, w)
      [] st.k = "and" -> WAnd(st, s, w)
      [] st.k = "or" -> WOr(st, s, w)
      [] st.k = "block" -> WList(st.ss, s, w)
      [] st.k = "sub" -> WSub(st, s, w)
      [] st.k = "if" -> WIf(st, s, w)
      [] st.k = "while" -> WWhile(st, s, w)
      [] st.k = "for" -> WFor(st, s, w)
      [] st.k = "case" -> WCase(st, s, w)
      [] st.k = "time" -> WStmt(st.s, s, w)
      [] st.k = "decl" -> Walked(Both(DeclEffects(Dirty(s, x.dirty), st)), x.w)
      [] st.k = "arith" -> Walked(Both(NoVariables(s)), w)
      [] OTHER -> Walked(Both(s), w)

WCommand(st, s, w) == WExpanded(st, s, w, WExpand(Words(st), s, w))

\* extractSimples over a script, and stripAndUnwrap of what a shell's -c or
\* watch runs.
WInner(src, s, w, own) == Normalize(Text[src], s, NoMap, {}, w.loop, own.pipes).cands

Unwrapped(st, w, own) ==
    LET r == NoVariables(w.rec[st.id])
        shell == Len(own.argv) = 3 /\ own.argv[1] = "bash" /\ own.argv[2] = "-c"
        watch == Len(own.argv) = 2 /\ own.argv[1] = "watch"
    IN  CASE shell /\ ~IsStatic(st.args[3]) -> {[own EXCEPT !.un = TRUE]}
          [] shell /\ IsStatic(st.args[3]) -> {own} \cup WInner(own.argv[3], r, w, own)
          [] watch -> Inherit(WInner(own.argv[2], Dirty(r, TRUE), w, own), own.un)
          [] own.argv[1] = "command" /\ Len(own.argv) > 1 ->
                IF own.argv[2] = "-v" THEN {} ELSE {[own EXCEPT !.argv = Tail(@)]}
          [] OTHER -> {own}

Mine(st, w) ==
    CASE st.id \in DOMAIN w.reps /\ st.k = "call" -> Inherit(w.reps[st.id], Own(st, w).un)
      [] st.id \in DOMAIN w.reps /\ st.k # "call" -> Inherit(w.reps[st.id], w.states[st.id].unknown)
      [] st.id \notin DOMAIN w.reps /\ st.k = "call" /\ st.args # << >> -> Unwrapped(st, w, Own(st, w))
      [] OTHER -> {}

\* The statements of a loop that was enumerated are candidates of the loop.
Among(ss) == {ss[i] : i \in DOMAIN ss}
Inside(st, w) ==
    IF st.id \in DOMAIN w.reps /\ st.k # "call" THEN {}
    ELSE Among(Children(st)) \cup UNION {Among(x.ss) : x \in {x \in Among(Words(st)) : x.w = "sub"}}

Candidates(sts, w) ==
    UNION {Mine(st, w) \cup Candidates(Inside(st, w), w) : st \in {st \in sts : st.id \in DOMAIN w.states}}

\* normalizeWithState
Normalized(ss, r) == [o |-> r.o, fns |-> r.w.fns, cands |-> Candidates(Among(ss), r.w)]
WScript(ss, s, w) == Normalized(ss, WList(ss, s, w))
WStart(ss, s, w, inherited) ==
    WScript(ss, s, [w EXCEPT !.marks = Positions(ss, inherited, w.shadow)])
Normalize(ss, s, fns, active, loop, inherited) ==
    WStart(ss, s, Walker(fns, active, loop, ShadowedBy(ss) \cup (DOMAIN fns \cap Constants)), inherited)

\* normalizeWithContext: a command as the tool call gives it.
Initially(cwd, vars, cdpath) ==
    [cwd |-> cwd, unknown |-> FALSE, fsUncertain |-> FALSE, ifsUnknown |-> FALSE,
     cdpath |-> cdpath, variables |-> Put(vars, "PWD", cwd), namerefs |-> NoMap,
     attributes |-> {}, attributesUnknown |-> FALSE, gitUnknown |-> FALSE]

Analyse(ss, cwd, vars, cdpath) ==
    Normalize(ss, Initially(cwd, vars, cdpath), NoMap, {}, FALSE, {}).cands
==============================================================================
