----------------------------- MODULE ShellFacts -----------------------------
(***************************************************************************)
(* What the command analyser knows about the shell at one point of a       *)
(* script (internal/engine/tokenize.go, cwdState): the working directory,  *)
(* exact values of variables, namerefs, variables with attributes, and     *)
(* what it knows it does not know.  Covers says which shells a state of    *)
(* knowledge describes; every operation keeps the shell it is applied to   *)
(* among those described.                                                  *)
(*                                                                         *)
(* Directories, cd operands and values are names; how a path is joined and *)
(* cleaned, what the host's file system answers and how a value splits     *)
(* into fields are given as tables.                                        *)
(***************************************************************************)
EXTENDS Naturals, Sequences, FiniteSets, TLC

CONSTANTS
    Names,      \* variable names
    Values,     \* their values; every directory is one
    Dirs,
    Targets,    \* operands of cd
    Plain,      \* the operands looked up along CDPATH: not absolute, not dotted
    Join,       \* Dirs -> (Targets -> Dirs): cdCandidate
    Real,       \* Dirs -> Dirs: EvalSymlinks
    Probe,      \* Dirs -> what os.Stat says before the command runs
    PathList,   \* Values -> the entries of a CDPATH value
    Splitting   \* <<value, IFS>>: unquoted, the value is not one field

ASSUME DirsAssumption ==
    /\ Dirs \subseteq Values /\ Targets \subseteq Values /\ Plain \subseteq Targets
    /\ Join \in [Dirs -> [Targets -> Dirs]]
    /\ Real \in [Dirs -> Dirs]
    /\ Probe \in [Dirs -> {"accessible", "missing", "unknown"}]
    /\ PathList \in [Values -> Seq(Targets)]
    /\ "?" \notin Values /\ "unset" \notin Values
    /\ {"PWD", "OLDPWD", "CDPATH", "IFS"} \subseteq Names

Unset == "unset"
Unknown == "?"
DefaultIFS == " "

\* A state of knowledge (cwdState): cwd, and unknown when no directory is
\* known; fsUncertain: the file system may have changed; ifsUnknown; cdpath, for
\* cdpath, cdpathSet and cdpathUnknown; variables with a known value; namerefs;
\* attributes: variables whose assignments may store something else;
\* attributesUnknown; gitUnknown, for gitEnvironmentUnknown.

GitNames == {"GIT_DIR"} \cap Names

NoMap == << >>
Tracked(s, n) == n \in DOMAIN s.variables
Put(f, n, x) == (n :> x) @@ f
Drop(f, ns) == [m \in DOMAIN f \ ns |-> f[m]]

----------------------------------------------------------------------------
(* Variables                                                               *)

\* resolveNameref: the end of the chain, or none when the chain is a cycle.
ChainEnd(refs, name) ==
    LET steps == Cardinality(DOMAIN refs)
        hop[i \in 0..steps] ==
            IF i = 0 THEN name
            ELSE IF hop[i - 1] \in DOMAIN refs THEN refs[hop[i - 1]] ELSE hop[i - 1]
    IN  hop[steps]

Ends(refs, name) == ChainEnd(refs, name) \notin DOMAIN refs

WithoutAllVariables(s) ==
    [s EXCEPT !.variables = NoMap, !.ifsUnknown = TRUE, !.cdpath = Unknown, !.gitUnknown = TRUE]

NoVariables(s) == [WithoutAllVariables(s) EXCEPT !.namerefs = NoMap]

\* Mutant: a repository variable that may have changed is taken to be unset.
WithoutResolvedQuietly(s, ns) ==
    [s EXCEPT !.variables = Drop(@, ns),
              !.ifsUnknown = @ \/ "IFS" \in ns,
              !.cdpath = IF "CDPATH" \in ns THEN Unknown ELSE @]

WithoutResolved(s, ns) ==
    [s EXCEPT !.variables = Drop(@, ns),
              !.ifsUnknown = @ \/ "IFS" \in ns,
              !.cdpath = IF "CDPATH" \in ns THEN Unknown ELSE @,
              !.gitUnknown = @ \/ ns \cap GitNames # {}]

WithoutVariables(s, ns) ==
    IF \A n \in ns : Ends(s.namerefs, n)
    THEN WithoutResolved(s, {ChainEnd(s.namerefs, n) : n \in ns})
    ELSE NoVariables(s)

\* invalidateNamedVariables with uncontrolled: anything may have changed.
Uncontrolled(s) ==
    [NoVariables(s) EXCEPT !.attributes = {}, !.attributesUnknown = TRUE]

InvalidateNamed(s, ns, uncontrolled) ==
    IF uncontrolled THEN Uncontrolled(s) ELSE WithoutVariables(s, ns)

CanPublishExact(s, n) == ~s.attributesUnknown /\ n \notin s.attributes

WithVariable(s, n, x) ==
    IF ~CanPublishExact(s, n) THEN WithoutResolved(s, {n})
    ELSE [s EXCEPT !.variables = Put(@, n, x),
                   !.ifsUnknown = IF n = "IFS" THEN FALSE ELSE @,
                   !.cdpath = IF n = "CDPATH" THEN x ELSE @]

WithAttributes(s, ns) == [s EXCEPT !.attributes = @ \cup ns]

\* restoreVariable: after a command with an assignment prefix.
RestoreVariable(s, persistent, n) ==
    IF ~CanPublishExact(s, n) THEN WithoutResolved(s, {n})
    ELSE [s EXCEPT !.variables = IF Tracked(persistent, n)
                                 THEN Put(@, n, persistent.variables[n]) ELSE Drop(@, {n}),
                   !.ifsUnknown = IF n = "IFS" THEN persistent.ifsUnknown ELSE @,
                   !.cdpath = IF n = "CDPATH" THEN persistent.cdpath ELSE @,
                   !.gitUnknown = \/ @
                                  \/ n \in GitNames /\ (persistent.gitUnknown \/ ~Tracked(persistent, n))]

RestoreNameref(s, persistent, n) ==
    [s EXCEPT !.namerefs = IF n \in DOMAIN persistent.namerefs
                           THEN Put(@, n, persistent.namerefs[n]) ELSE Drop(@, {n})]

----------------------------------------------------------------------------
(* Merging what is known along two paths                                   *)

Common(f, g) ==
    LET both == {n \in DOMAIN f \cap DOMAIN g : f[n] = g[n]} IN [n \in both |-> f[n]]

SameOn(f, g, ns) ==
    /\ DOMAIN f \cap ns = DOMAIN g \cap ns
    /\ \A n \in DOMAIN f \cap ns : f[n] = g[n]

\* Mutant: the directory of the first path is kept.
MergeFirst(s, t) ==
    [s EXCEPT !.fsUncertain = @ \/ t.fsUncertain,
              !.variables = Common(@, t.variables),
              !.ifsUnknown = @ \/ t.ifsUnknown \/ ~SameOn(s.variables, t.variables, {"IFS"}),
              !.cdpath = IF @ = t.cdpath THEN @ ELSE Unknown,
              !.namerefs = Common(@, t.namerefs),
              !.attributes = @ \cup t.attributes,
              !.attributesUnknown = @ \/ t.attributesUnknown,
              !.gitUnknown = @ \/ t.gitUnknown \/ ~SameOn(s.variables, t.variables, GitNames)]

MergeCwd(s, t) ==
    LET differ == s.unknown \/ t.unknown \/ s.cwd # t.cwd IN
    [s EXCEPT !.cwd = IF differ THEN Unknown ELSE @,
              !.unknown = differ,
              !.fsUncertain = @ \/ t.fsUncertain,
              !.variables = Common(@, t.variables),
              !.ifsUnknown = @ \/ t.ifsUnknown \/ ~SameOn(s.variables, t.variables, {"IFS"}),
              !.cdpath = IF @ = t.cdpath THEN @ ELSE Unknown,
              !.namerefs = Common(@, t.namerefs),
              !.attributes = @ \cup t.attributes,
              !.attributesUnknown = @ \/ t.attributesUnknown,
              !.gitUnknown = @ \/ t.gitUnknown \/ ~SameOn(s.variables, t.variables, GitNames)]

UnknownCwd(s) ==
    WithoutVariables([s EXCEPT !.cwd = Unknown, !.unknown = TRUE], {"PWD"})

CwdMayChange(s, t) == s.unknown # t.unknown \/ s.cwd # t.cwd

\* conservativeLoopState
Conservative(s) == [UnknownCwd(Uncontrolled(s)) EXCEPT !.fsUncertain = TRUE]

----------------------------------------------------------------------------
(* Outcomes: what is known after success and after failure                 *)

Outcome(ok, no, s, f) == [ok |-> ok, no |-> no, s |-> s, f |-> f]
Success(s) == Outcome(TRUE, FALSE, s, s)
Failure(s) == Outcome(FALSE, TRUE, s, s)
Both(s) == Outcome(TRUE, TRUE, s, s)
Negated(o) == Outcome(o.no, o.ok, o.f, o.s)
OutcomeUncertain(o) == (o.ok /\ o.s.fsUncertain) \/ (o.no /\ o.f.fsUncertain)

Merged(o) ==
    CASE o.ok /\ o.no -> MergeCwd(o.s, o.f)
      [] o.ok -> o.s
      [] o.no -> o.f
      [] OTHER -> [o.f EXCEPT !.cwd = Unknown, !.unknown = TRUE, !.variables = NoMap]

MergeOutcomes(o, p) ==
    Outcome(o.ok \/ p.ok, o.no \/ p.no,
            CASE o.ok /\ p.ok -> MergeCwd(o.s, p.s) [] o.ok -> o.s [] OTHER -> p.s,
            CASE o.no /\ p.no -> MergeCwd(o.f, p.f) [] o.no -> o.f [] OTHER -> p.f)

----------------------------------------------------------------------------
(* cd                                                                      *)

UsesSearchPath(s, target) == target \in Plain /\ s.cdpath \notin {Unset, ""}

\* resolveCdTarget: the directory (Unknown: none can be named) and its status.
CdTarget(s, target) ==
    LET here == Join[s.cwd][target]
        along == [i \in DOMAIN PathList[s.cdpath] |->
                     Join[Join[s.cwd][PathList[s.cdpath][i]]][target]]
        first == {i \in DOMAIN along : /\ Probe[along[i]] = "accessible"
                                       /\ \A j \in 1..i - 1 : Probe[along[j]] = "missing"}
    IN  CASE ~UsesSearchPath(s, target) -> <<here, Probe[here]>>
          [] s.cdpath = Unknown -> <<Unknown, "unknown">>
          [] first # {} -> <<along[CHOOSE i \in first : TRUE], "accessible">>
          [] \A i \in DOMAIN along : Probe[along[i]] = "missing" -> <<here, "missing">>
          [] OTHER -> <<Unknown, "unknown">>

\* cdOutcome; ok: the arguments are known and have the form cd understands.
CdOutcome(s, ok, target, physical) ==
    LET found == CdTarget(s, target)
        blind == s.fsUncertain /\ (physical \/ UsesSearchPath(s, target))
        dir == CASE blind \/ found[1] = Unknown -> Unknown
                 [] physical /\ found[2] = "accessible" -> Real[found[1]]
                 [] OTHER -> found[1]
        status == IF blind THEN "unknown" ELSE found[2]
        success == IF dir = Unknown THEN UnknownCwd(s)
                   ELSE WithVariable([s EXCEPT !.cwd = dir], "PWD", dir)
    IN  CASE s.unknown \/ ~ok -> Both(UnknownCwd(s))
          [] status = "accessible" /\ ~s.fsUncertain -> Success(success)
          [] status = "missing" /\ ~s.fsUncertain -> Failure(s)
          [] OTHER -> Outcome(TRUE, TRUE, success, s)

----------------------------------------------------------------------------
(* Words                                                                   *)

\* A word is a literal, a parameter, quoted or not, or something opaque.
Lit(v) == [w |-> "lit", v |-> v]
Par(n, quoted) == [w |-> "par", n |-> n, quoted |-> quoted]

IFSOf(s) == IF Tracked(s, "IFS") THEN s.variables["IFS"] ELSE DefaultIFS

\* resolveLocalWord
Resolvable(s, word) ==
    CASE word.w \in {"lit", "src"} -> TRUE
      [] word.w = "par" ->
            /\ Tracked(s, word.n)
            /\ word.quoted \/ /\ ~s.ifsUnknown
                              /\ <<s.variables[word.n], IFSOf(s)>> \notin Splitting
      [] OTHER -> FALSE

Resolve(s, word) ==
    CASE word.w \in {"lit", "src"} -> word.v
      [] word.w = "par" /\ Resolvable(s, word) -> s.variables[word.n]
      [] OTHER -> Unknown

----------------------------------------------------------------------------
(* The shells a state of knowledge describes                               *)

\* A shell: its directory, the values of its variables, its namerefs and the
\* variables with an attribute that changes what is assigned to them.
Covers(s, sh) ==
    /\ ~s.unknown => sh.cwd = s.cwd
    /\ \A n \in DOMAIN s.variables : sh.vars[n] = s.variables[n]
    /\ ~s.ifsUnknown /\ ~Tracked(s, "IFS") => sh.vars["IFS"] = DefaultIFS
    /\ s.cdpath # Unknown => sh.vars["CDPATH"] = s.cdpath
    /\ \A n \in DOMAIN s.namerefs : n \in DOMAIN sh.refs /\ sh.refs[n] = s.namerefs[n]
    /\ ~s.attributesUnknown => sh.attrs \subseteq s.attributes

----------------------------------------------------------------------------
(***************************************************************************)
(* Parsed scripts, as the command analyser reads them, and what it decides *)
(* from the text alone (internal/engine/tokenize.go).                      *)
(*                                                                         *)
(* A statement is [id, k, neg, bg, redir] with the fields of its kind k    *)
(* (call, pipe, and, or, block, sub, if, while, for, case, decl, arith,    *)
(* func, time).  A word is a literal, a parameter, quoted source text, a   *)
(* command substitution, or an expansion that assigns ("mut").  Text names *)
(* a piece of source: a function's body, or the operand of eval or of a    *)
(* shell's -c.                                                             *)
(***************************************************************************)
CONSTANT Text   \* the statements of every piece of source

Constants == {"true", "false"}

IsStatic(word) == word.w \in {"lit", "src"}
Words(st) ==
    CASE st.k = "call" -> [i \in DOMAIN st.assigns |-> st.assigns[i].v] \o st.args
      [] st.k = "for" -> st.items
      [] st.k = "case" -> <<st.sel>>
      [] st.k = "decl" -> <<st.v>>
      [] OTHER -> << >>

Children(st) ==
    CASE st.k \in {"pipe", "and", "or"} -> <<st.x, st.y>>
      [] st.k \in {"block", "sub"} -> st.ss
      [] st.k = "if" -> st.cond \o st.then \o st.else
      [] st.k = "while" -> st.cond \o st.do
      [] st.k = "for" -> st.do
      [] st.k = "case" -> IF Len(st.items) = 1 THEN st.items[1].ss
                          ELSE st.items[1].ss \o st.items[2].ss
      [] st.k = "time" -> <<st.s>>
      [] OTHER -> << >>

RECURSIVE HasKind(_, _)
HasKind(ss, kinds) == \E i \in DOMAIN ss : ss[i].k \in kinds \/ HasKind(Children(ss[i]), kinds)

\* applyExpansionVariableEffects: an expansion that assigns, anywhere below.
RECURSIVE Assigning(_)
Assigning(st) ==
    \/ st.k # "case" /\ \E i \in DOMAIN Words(st) : Words(st)[i].w = "mut"
    \/ \E i \in DOMAIN Children(st) : Assigning(Children(st)[i])

\* shadowedStaticCommandNames: the constants a script may redefine.
RECURSIVE ShadowedBy(_)
ShadowedBy(ss) ==
    UNION {LET st == ss[i]
               evals == st.k = "call" /\ Len(st.args) = 2 /\ st.args[1] = Lit("eval")
           IN  (IF st.k = "func" THEN {st.n} \cap Constants ELSE {})
               \cup (IF ~evals THEN {}
                     ELSE IF IsStatic(st.args[2]) THEN ShadowedBy(Text[st.args[2].v])
                     ELSE Constants)
               \cup ShadowedBy(Children(st))
           : i \in DOMAIN ss}

\* literalCondition
Truth(ss, shadow) ==
    LET st == ss[1]
        bare == /\ Len(ss) = 1 /\ st.k = "call" /\ Len(st.args) = 1
                /\ st.assigns = << >> /\ st.redir = "none" /\ ~st.bg /\ st.args[1].w = "lit"
        name == st.args[1].v
        truth == CASE ~bare -> "unknown"
                   [] name = ":" \/ (name = "true" /\ name \notin shadow) -> "true"
                   [] name = "false" /\ name \notin shadow -> "false"
                   [] OTHER -> "unknown"
    IN  IF truth = "unknown" \/ ~st.neg THEN truth
        ELSE IF truth = "true" THEN "false" ELSE "true"

----------------------------------------------------------------------------
(* Loops and cases                                                         *)

\* wordGuaranteesField, analyzeForClause
GuaranteesField(word) == IsStatic(word) \/ (word.w = "par" /\ word.quoted)
Iterations(st) ==
    CASE st.items = << >> -> "none"
      [] \E i \in DOMAIN st.items : GuaranteesField(st.items[i]) -> "guaranteed"
      [] OTHER -> "possible"
MayRepeat(st) == Len(st.items) > 1 \/ \E i \in DOMAIN st.items : ~IsStatic(st.items[i])

\* staticForItems, staticForIterator: the loop is expanded item by item.
Enumerable(st, s) ==
    /\ st.items # << >> /\ \A i \in DOMAIN st.items : IsStatic(st.items[i])
    /\ ~s.attributesUnknown /\ st.n \notin s.attributes
    /\ st.n \notin DOMAIN s.namerefs

\* staticCaseItemMatches, staticCaseExecution over at most two items: the
\* items that the value v runs.
CaseRuns(st, v) ==
    LET hit(i) == {v, "*"} \cap st.items[i].pats # {}
        op == st.items[1].op
    IN  CASE Len(st.items) = 1 -> IF hit(1) THEN <<1>> ELSE << >>
          [] ~hit(1) -> IF hit(2) THEN <<2>> ELSE << >>
          [] op = "break" -> <<1>>
          [] op = "fall" -> <<1, 2>>
          [] OTHER -> IF hit(2) THEN <<1, 2>> ELSE <<1>>
=============================================================================
