------------------------------ MODULE Operands ------------------------------
(***************************************************************************)
(* Which words of a command line name files: internal/engine/operands.go.  *)
(*                                                                         *)
(* Each parser of the source walks the words with a table of options.  A   *)
(* table here gives the options without a value (flags), the roles of the  *)
(* values an option takes (takes), the options whose value is only ever    *)
(* attached (optional), and the ones that stand for the program operand    *)
(* (supplies).  An unknown option makes the word it may take uncertain,    *)
(* and an uncertain word is treated as a file.                             *)
(***************************************************************************)
EXTENDS Words

CONSTANT LooksLikePath(_)   \* a word with a "/" in it, or below "~"

Table == [flags |-> {}, takes |-> <<>>, optional |-> {}, supplies |-> {},
          wary |-> {}, abbrev |-> FALSE, digits |-> FALSE]
All(t) == t.flags \cup DOMAIN t.takes \cup t.optional
OneOf(names, role) == [o \in names |-> <<role>>]

Operand(v, role, pos) == [v |-> v, role |-> role, pos |-> pos]

(* What one option word adds: operands, the options it gave, the words it *)
(* used, and whether it was unknown.                                      *)
Adds(used, ops, opts, odd) == [used |-> used, ops |-> ops, opts |-> opts, odd |-> odd]
Reading == [ops |-> <<>>, opts |-> <<>>, odd |-> FALSE]

(* The values of an option: the attached one first, then the next words.  *)
appendOptionValues(argv, i, value, attached, roles, opts) ==
    LET own == IF attached THEN 1 ELSE 0
        free == IF Len(roles) - own < Len(argv) - i THEN Len(roles) - own ELSE Len(argv) - i
        vals == (IF attached THEN <<value>> ELSE <<>>) \o SubSeq(argv, i + 1, i + free)
        ops == [j \in DOMAIN vals |-> Operand(vals[j], roles[j], FALSE)]
    IN  Adds(1 + free, SelectSeq(ops, LAMBDA e : e.v # ""), opts, FALSE)

appendUnknownOptionValue(argv, i, value, attached, opts) ==
    CASE attached -> Adds(1, <<Operand(value, "unsure", FALSE)>>, opts, TRUE)
      [] ~attached /\ i < Len(argv) /\ Lex(argv[i + 1]).kind \in {"operand", "dash"} ->
             Adds(2, <<Operand(argv[i + 1], "unsure", FALSE)>>, opts, TRUE)
      [] OTHER -> Adds(1, <<>>, opts, TRUE)

(* jq refuses to guess when the word after -f is itself an option.        *)
optionInterposesValue(argv, i, t, o, attached) ==
    /\ o \in t.wary /\ ~attached /\ i < Len(argv)
    /\ Lex(argv[i + 1]).kind \notin {"operand", "dash"}

OptionalValue(value, opts) ==
    Adds(1, IF value = "" THEN <<>> ELSE <<Operand(value, "data", FALSE)>>, opts, FALSE)

(* resolveOperandLongOption and the switches over long names.             *)
LongRoles(argv, i, t, s, o) ==
    CASE o \in t.flags -> Adds(1, <<>>, <<o>>, FALSE)
      [] optionInterposesValue(argv, i, t, o, s.attached) -> Adds(1, <<>>, <<o>>, TRUE)
      [] o \in t.optional -> OptionalValue(s.value, <<o>>)
      [] o \in DOMAIN t.takes /\ ~optionInterposesValue(argv, i, t, o, s.attached) ->
             appendOptionValues(argv, i, s.value, s.attached, t.takes[o], <<o>>)
      [] OTHER -> appendUnknownOptionValue(argv, i, s.value, s.attached, <<>>)

(* operandShortOption and the loops over a cluster: flags up to the first *)
(* letter that is not one, which ends the cluster.                        *)
ShortRoles(argv, i, t, s, k) ==
    LET o == s.letters[k]
        seen == SubSeq(s.letters, 1, IF k > Len(s.letters) THEN k - 1 ELSE k)
        tail == s.tails[k]
    IN  CASE k > Len(s.letters) -> Adds(1, <<>>, seen, FALSE)
          [] k <= Len(s.letters) /\ o \in t.optional -> OptionalValue(tail, seen)
          [] k <= Len(s.letters) /\ optionInterposesValue(argv, i, t, o, tail # "") ->
                 Adds(1, <<>>, seen, TRUE)
          [] k <= Len(s.letters) /\ o \in DOMAIN t.takes
             /\ ~optionInterposesValue(argv, i, t, o, tail # "") ->
                 appendOptionValues(argv, i, tail, tail # "", t.takes[o], seen)
          [] OTHER -> appendUnknownOptionValue(argv, i, tail, tail # "", seen)

ReadRoles(argv, i, t, s) ==
    IF s.kind = "long"
    THEN LongRoles(argv, i, t, s,
                   LongNamed(s.name, [Grammar EXCEPT !.flags = All(t), !.abbrev = t.abbrev]))
    ELSE ShortRoles(argv, i, t, s,
                    LET E == {j \in 1..Len(s.letters) : s.letters[j] \notin t.flags}
                    IN  IF E = {} THEN Len(s.letters) + 1
                        ELSE CHOOSE j \in E : \A l \in E : j <= l)

Positional(argv) == [j \in DOMAIN argv |-> Operand(argv[j], "path", TRUE)]

(* Each option is recorded with the number of positional words before it. *)
Before(ops) == Cardinality({j \in DOMAIN ops : ops[j].pos})

RECURSIVE Roles(_, _, _, _)
RECURSIVE RolesOn(_, _, _, _, _)
Roles(argv, i, t, r) ==
    IF i > Len(argv) THEN r
    ELSE LET s == Lex(argv[i])
         IN  CASE s.kind \in {"operand", "dash"} ->
                      Roles(argv, i + 1, t,
                            [r EXCEPT !.ops = @ \o Positional(<<argv[i]>>)])
               [] s.kind = "end" -> [r EXCEPT !.ops = @ \o Positional(From(argv, i + 1))]
               [] OTHER -> IF t.digits /\ argv[i] = "-5" THEN Roles(argv, i + 1, t, r)
                           ELSE RolesOn(argv, i, t, r, ReadRoles(argv, i, t, s))
RolesOn(argv, i, t, r, a) ==
    Roles(argv, i + a.used, t,
          [r EXCEPT !.ops = @ \o a.ops, !.odd = @ \/ a.odd,
                    !.opts = @ \o [j \in DOMAIN a.opts |->
                                       [o |-> a.opts[j], at |-> Before(r.ops)]]])

Saw(r, names) == \E j \in DOMAIN r.opts : r.opts[j].o \in names

(* The first positional word is the program or pattern.                   *)
FirstPositional(ops) ==
    LET P == {j \in DOMAIN ops : ops[j].pos}
    IN  IF P = {} THEN {} ELSE {CHOOSE j \in P : \A l \in P : j <= l}
Recast(ops, at, role) == [j \in DOMAIN ops |-> IF j \in at THEN [ops[j] EXCEPT !.role = role]
                                               ELSE ops[j]]

(***************************************************************************)
(* The tables, each with the options the instances use.                    *)
(***************************************************************************)
grepOperandOptions == [Table EXCEPT
    !.flags = {"-i", "-n", "-r", "-v", "-l", "--ignore-case", "--recursive", "--null",
               "--null-data"},
    !.takes = OneOf({"-e", "--regexp", "-A", "--after-context", "-m", "--max-count",
                     "--include", "--exclude"}, "data")
              @@ OneOf({"-f", "--file", "--exclude-from"}, "path"),
    !.optional = {"--color"},
    !.supplies = {"-e", "--regexp", "-f", "--file"}, !.abbrev = TRUE, !.digits = TRUE]

sedOperandOptions == [Table EXCEPT
    !.flags = {"-n", "-E", "-r", "-s", "--quiet", "--posix"},
    !.takes = OneOf({"-e", "--expression", "-l", "--line-length"}, "data")
              @@ OneOf({"-f", "--file"}, "path"),
    !.optional = {"-i", "--in-place"},
    !.supplies = {"-e", "--expression", "-f", "--file"}, !.abbrev = TRUE, !.digits = TRUE]

awkOperandOptions == [Table EXCEPT
    !.flags = {"-c", "-r", "-t", "--posix", "--sandbox"},
    !.takes = OneOf({"-f", "--file", "-E", "-i", "--include"}, "path")
              @@ OneOf({"-e", "--source", "-F", "-v", "--assign"}, "data"),
    !.optional = {"-d", "-o", "-p", "--lint"},
    !.supplies = {"-f", "--file", "-E", "-e", "--source"}]

tarOperandOptions == [Table EXCEPT
    !.flags = {"-c", "-x", "-t", "-z", "-v", "--create", "--extract", "--gzip"},
    !.takes = OneOf({"-f", "-C", "-T", "-X", "--file", "--directory", "--files-from"}, "path")
              @@ OneOf({"-b", "-I", "--exclude", "--format"}, "data")]

yqOperandOptions == [Table EXCEPT
    !.flags = {"-n", "-i", "-r", "-e", "--inplace", "--null-input"},
    !.takes = OneOf({"-f", "-o", "-p", "--front-matter", "--expression", "--indent"}, "data")
              @@ OneOf({"--from-file", "--split-exp-file"}, "path"),
    !.supplies = {"--expression", "--from-file"}]

jqOperandOptions == [Table EXCEPT
    !.flags = {"-n", "-r", "-c", "-s", "--null-input", "--args", "--jsonargs", "--raw-output"},
    !.takes = OneOf({"-f", "-L", "--from-file"}, "path") @@ OneOf({"--indent"}, "data")
              @@ [o \in {"--arg", "--argjson"} |-> <<"data", "data">>]
              @@ [o \in {"--rawfile", "--slurpfile"} |-> <<"data", "path">>],
    !.supplies = {"-f", "--from-file"}, !.wary = {"-f", "--from-file"}]

(***************************************************************************)
(* The parsers: the operands with their roles, and whether the roles could *)
(* not be told (unsure).                                                   *)
(***************************************************************************)
Parsed(ops, unsure) == [ops |-> ops, unsure |-> unsure]

(* grep and sed: the first positional word is the pattern or script,      *)
(* unless an option gave one.                                             *)
PatternRoles(r, t) ==
    IF Saw(r, t.supplies) THEN r.ops ELSE Recast(r.ops, FirstPositional(r.ops), "data")
parsePatternCommandOperands(argv, t) == PatternRoles(Roles(argv, 2, t, Reading), t)

(* The files sed edits in place.                                          *)
InPlaceTargets(argv, r) ==
    IF ~Saw(r, {"-i", "--in-place"}) THEN <<>>
    ELSE SelectSeq(PatternRoles(r, sedOperandOptions), LAMBDA e : e.pos /\ e.role # "data")
sedWriteTargets(argv) ==
    LET w == InPlaceTargets(argv, Roles(argv, 2, sedOperandOptions, Reading))
    IN  [j \in DOMAIN w |-> w[j].v]

(* An assignment among awk's operands is neither a file nor the program.  *)
isAWKAssignment(e) == e.pos /\ Lex(e.v).attached
AwkRoles(r) ==
    PatternRoles([r EXCEPT !.ops = [j \in DOMAIN r.ops |->
                      IF isAWKAssignment(r.ops[j]) THEN Operand(r.ops[j].v, "data", FALSE)
                      ELSE r.ops[j]]], awkOperandOptions)
parseAWKOperands(argv) == AwkRoles(Roles(argv, 2, awkOperandOptions, Reading))

(* tar reads a first word without a dash that is made of its option       *)
(* letters as a cluster.                                                  *)
TarStart(argv, t) ==
    IF Len(argv) > 1 /\ Lex(argv[2]).kind = "operand" /\ Lex(argv[2]).letters # <<>>
    THEN RolesOn(argv, 2, t, Reading, ReadRoles(argv, 2, t, Lex(argv[2])))
    ELSE Roles(argv, 2, t, Reading)
parseTarOperands(argv) == TarStart(argv, tarOperandOptions).ops

parseDDOperands(argv) ==
    [j \in 1..(Len(argv) - 1) |->
        LET s == Lex(argv[j + 1])
        IN  Operand(IF s.attached THEN s.value ELSE argv[j + 1],
                    CASE ~s.attached -> "unsure"
                      [] s.attached /\ s.name = "if" -> "path"
                      [] s.attached /\ s.name \in {"of", "bs", "count", "seek"} -> "data"
                      [] OTHER -> "unsure", FALSE)]

(* yq decides at run time whether its first positional word is a file.    *)
YqRoles(r) ==
    Parsed(IF Saw(r, yqOperandOptions.supplies) THEN r.ops
           ELSE Recast(r.ops, FirstPositional(r.ops), "unsure"), r.odd)
parseYQOperands(argv) ==
    YqRoles(Roles(argv, IF Len(argv) > 1 /\ argv[2] \in {"e", "eval", "ea"} THEN 3 ELSE 2,
                  yqOperandOptions, Reading))

(* jq: the filter, then data files; with -n, or after --args, the         *)
(* remaining words are values.                                            *)
JqTail(r) ==
    LET A == {j \in DOMAIN r.opts : r.opts[j].o \in {"--args", "--jsonargs"}}
    IN  IF A = {} THEN Len(r.ops) + 1 ELSE r.opts[CHOOSE j \in A : \A l \in A : j <= l].at + 1
JqRoles(r, filter, tail) ==
    LET nth(j) == Before(SubSeq(r.ops, 1, j))
        values == {j \in DOMAIN r.ops : /\ r.ops[j].pos
                                        /\ Saw(r, {"-n", "--null-input"}) \/ nth(j) >= tail}
    IN  Parsed(Recast(r.ops, filter \cup values, "data"), r.odd)
JqRead(r) == JqRoles(r, IF Saw(r, jqOperandOptions.supplies) THEN {} ELSE FirstPositional(r.ops),
                     JqTail(r))
parseJQOperands(argv) == JqRead(Roles(argv, 2, jqOperandOptions, Reading))

(* Any other program: every option is unknown, and a bare word is a file  *)
(* if the program is known to read files or the word looks like one.      *)
pathOperandCommands == {"cat", "head", "tail", "sort", "wc", "diff", "base64", "cp", "mv",
                        "tee", "install", "rsync", "scp", "gzip", "unlink", "rmdir"}
parseGenericOperands(argv, scanBare) ==
    LET r == Roles(argv, 2, Table, Reading)
        bare == {j \in DOMAIN r.ops : r.ops[j].pos /\ ~scanBare /\ ~LooksLikePath(r.ops[j].v)}
    IN  Recast(r.ops, bare, "data")

parseOperandRoles(argv) ==
    CASE head(argv) \in {"grep", "egrep", "fgrep"} ->
             Parsed(parsePatternCommandOperands(argv, grepOperandOptions), FALSE)
      [] head(argv) = "sed" ->
             Parsed(parsePatternCommandOperands(argv, sedOperandOptions), FALSE)
      [] head(argv) = "jq" -> parseJQOperands(argv)
      [] head(argv) = "yq" -> parseYQOperands(argv)
      [] head(argv) = "awk" -> Parsed(parseAWKOperands(argv), FALSE)
      [] head(argv) = "tar" -> Parsed(parseTarOperands(argv), FALSE)
      [] head(argv) = "dd" -> Parsed(parseDDOperands(argv), FALSE)
      [] OTHER -> Parsed(parseGenericOperands(argv, head(argv) \in pathOperandCommands), FALSE)

(* The words the path rules look at.                                      *)
PathOperands(p) ==
    {p.ops[j].v : j \in {k \in DOMAIN p.ops :
        p.ops[k].role # "data" /\ ~(p.unsure /\ p.ops[k].role = "unsure")}}
=============================================================================
