---------------------------- MODULE ShellIngress ----------------------------
(***************************************************************************)
(* Which commands of a script may read the bytes of a pipe                 *)
(* (internal/engine/tokenize.go, pipelinePositions and                     *)
(* markPipelineIngress).  A position is <<pipeline, stage>>; a pipeline is *)
(* named by its statement and the stage where its bytes enter, because a   *)
(* stage that cannot pass its input on starts a new one.                   *)
(***************************************************************************)
EXTENDS ShellFacts

\* stdinFlow: all: the input is surely used up; fwd: the input may come out
\* again; m: the <<statement, position>> marked on the way.
Flow(all, fwd, m) == [all |-> all, fwd |-> fwd, m |-> m]
NoFlow == Flow(FALSE, FALSE, {})

\* mergeAlternativeStdinFlows
Either(f, g) == Flow(f.all /\ g.all, f.fwd \/ g.fwd, f.m \cup g.m)

\* Mutant: an unknown command is taken not to pass its input on.
CallFlowKnown(st) ==
    LET name == IF st.args # << >> /\ st.args[1].w = "lit" THEN st.args[1].v ELSE "?"
    IN  IF name \in {"cat", "tee"} THEN Flow(TRUE, TRUE, {}) ELSE NoFlow

\* simpleStdinFlow
CallFlow(st) ==
    LET name == IF st.args # << >> /\ st.args[1].w = "lit" THEN st.args[1].v ELSE "?"
        reads == Len(st.args) = 1 \/ st.args[2].w # "lit"
    IN  CASE st.args = << >> -> NoFlow
          [] name \in {":", "true", "false", "echo"} -> NoFlow
          [] name = "cat" -> Flow(reads, reads, {})
          [] name = "tee" -> Flow(TRUE, TRUE, {})
          [] name = "read" -> Flow(TRUE, FALSE, {})
          [] OTHER -> Flow(FALSE, TRUE, {})

RECURSIVE Stages(_)
Stages(st) == IF st.k = "pipe" THEN Stages(st.x) \o Stages(st.y) ELSE <<st>>

RECURSIVE Ingress(_, _, _)
RECURSIVE IngressList(_, _, _)
RECURSIVE IngressWords(_, _, _)
RECURSIVE IngressStages(_, _, _)
RECURSIVE IngressCase(_, _, _)

\* markPipelineList: the rest of a list reads what the first leaves.
InTurn(f, g) == IF f.all THEN f ELSE Flow(g.all, f.fwd \/ g.fwd, f.m \cup g.m)

IngressList(ss, p, shadow) ==
    IF ss = << >> THEN NoFlow
    ELSE InTurn(Ingress(Head(ss), p, shadow), IngressList(Tail(ss), p, shadow))

\* markNodeExpansionIngress: substitutions read before the command does.
Swallowed(f, g) == IF f.all THEN Flow(TRUE, FALSE, f.m) ELSE Flow(g.all, FALSE, f.m \cup g.m)

IngressWords(words, p, shadow) ==
    CASE words = << >> -> NoFlow
      [] words # << >> /\ Head(words).w = "sub" ->
            Swallowed(IngressList(Head(words).ss, p, shadow), IngressWords(Tail(words), p, shadow))
      [] OTHER -> IngressWords(Tail(words), p, shadow)

\* The stages of a pipeline inside a stage: the input goes as far as it is
\* passed on.
PassedOn(f, g, last) == IF ~f.fwd \/ last THEN f ELSE Flow(f.all, g.fwd, f.m \cup g.m)

IngressStages(stages, p, shadow) ==
    PassedOn(Ingress(Head(stages), p, shadow), IngressStages(Tail(stages), p, shadow), Len(stages) = 1)

\* markIfClauseIngress
IfFlow(c, then, else, truth) ==
    InTurn(c, CASE truth = "true" -> then [] truth = "false" -> else [] OTHER -> Either(then, else))

IngressIf(st, p, shadow) ==
    IfFlow(IngressList(st.cond, p, shadow), IngressList(st.then, p, shadow),
           IngressList(st.else, p, shadow), Truth(st.cond, shadow))

\* markWhileClauseIngress
WhileFlow(c, body, truth, until) ==
    CASE c.all \/ truth = (IF until THEN "true" ELSE "false") -> c
      [] OTHER -> Flow(truth = (IF until THEN "false" ELSE "true") /\ body.all,
                       c.fwd \/ body.fwd, c.m \cup body.m)

IngressWhile(st, p, shadow) ==
    WhileFlow(IngressList(st.cond, p, shadow), IngressList(st.do, p, shadow),
              Truth(st.cond, shadow), st.until)

\* markStaticCaseIngress, markUnknownCaseIngress
CaseFlow(st, word, body) ==
    LET item(i) == Flow(body[i].all /\ st.items[i].op = "break", body[i].fwd, body[i].m)
        runs == CaseRuns(st, st.sel.v)
        default(i) == "*" \in st.items[i].pats
        flow == CASE IsStatic(st.sel) /\ runs = << >> -> NoFlow
                  [] IsStatic(st.sel) /\ Len(runs) = 1 -> body[runs[1]]
                  [] IsStatic(st.sel) -> InTurn(body[runs[1]], body[runs[2]])
                  [] Len(st.items) = 1 -> IF default(1) THEN item(1) ELSE Either(item(1), NoFlow)
                  [] default(1) /\ st.items[1].op = "break" -> item(1)
                  [] default(1) \/ default(2) -> Either(item(1), item(2))
                  [] OTHER -> Either(Either(item(1), item(2)), NoFlow)
    IN  IF word.all THEN word ELSE [flow EXCEPT !.m = @ \cup word.m]

IngressCase(st, p, shadow) ==
    CaseFlow(st, IngressWords(<<st.sel>>, p, shadow),
             [i \in DOMAIN st.items |-> IngressList(st.items[i].ss, p, shadow)])

\* analyzeForClause: how often the body of a for clause reads.
ForFlow(st, body) ==
    CASE Iterations(st) = "none" -> NoFlow
      [] Iterations(st) = "guaranteed" -> body
      [] OTHER -> [body EXCEPT !.all = FALSE]

\* The flow through the command of a statement.
CommandFlow(st, p, shadow) ==
    CASE st.k = "call" -> CallFlow(st)
      [] st.k = "pipe" -> IngressStages(Stages(st), p, shadow)
      [] st.k \in {"and", "or"} -> IngressList(<<st.x, st.y>>, p, shadow)
      [] st.k \in {"block", "sub"} -> IngressList(st.ss, p, shadow)
      [] st.k = "if" -> IngressIf(st, p, shadow)
      [] st.k = "while" -> IngressWhile(st, p, shadow)
      [] st.k = "for" -> ForFlow(st, IngressList(st.do, p, shadow))
      [] st.k = "case" -> IngressCase(st, p, shadow)
      [] st.k = "time" -> Ingress(st.s, p, shadow)
      [] OTHER -> Flow(FALSE, TRUE, {})

\* markPipelineIngress
StmtFlow(st, p, early, inner) ==
    LET own == early.m \cup {<<st.id, p>>} IN
    CASE early.all -> early
      [] st.redir = "read" -> Flow(FALSE, FALSE, own)
      [] OTHER -> Flow(inner.all, inner.fwd /\ st.redir \notin {"write", "dynamic"}, own \cup inner.m)

Ingress(st, p, shadow) ==
    StmtFlow(st, p, IF st.k = "call" THEN IngressWords(Words(st), p, shadow) ELSE NoFlow,
             CommandFlow(st, p, shadow))

\* The stages of a pipeline of its own, from stage i on; the bytes at stage i
\* belong to the pipeline that entered at stage `from'.
RECURSIVE PipelineMarks(_, _, _, _, _)
MarksFrom(id, stages, i, from, shadow, f) ==
    f.m \cup PipelineMarks(id, stages, i + 1, IF f.fwd THEN from ELSE i + 1, shadow)

PipelineMarks(id, stages, i, from, shadow) ==
    IF i > Len(stages) THEN {}
    ELSE MarksFrom(id, stages, i, from, shadow, Ingress(stages[i], <<<<id, from>>, i>>, shadow))

\* Every statement below, substitutions included.
RECURSIVE Below(_)
Below(ss) ==
    UNION {{ss[i]} \cup Below(Children(ss[i]))
           \cup (IF ss[i].k \in {"call", "for", "case"}
                 THEN UNION {Below(w.ss) : w \in {Words(ss[i])[j] : j \in
                              {j \in DOMAIN Words(ss[i]) : Words(ss[i])[j].w = "sub"}}}
                 ELSE {})
           : i \in DOMAIN ss}

\* pipelinePositions, and the positions a nested script inherits.
Positions(ss, inherited, shadow) ==
    LET pipes == {st \in Below(ss) : st.k = "pipe"}
        nested == {st.id : st \in {q.x : q \in pipes} \cup {q.y : q \in pipes}}
    IN  UNION {PipelineMarks(st.id, Stages(st), 1, 1, shadow) : st \in {q \in pipes : q.id \notin nested}}
        \cup UNION {IngressList(ss, p, shadow).m : p \in inherited}

PositionsOf(marks, id) == {q[2] : q \in {r \in marks : r[1] = id}}
=============================================================================
