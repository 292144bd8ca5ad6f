------------------------------ MODULE FileRules ------------------------------
(***************************************************************************)
(* The rules about files a command removes, writes or reads, from          *)
(* internal/engine/rules_bash.go and rules_path.go.                        *)
(*                                                                         *)
(* The option tables keep, of each program, the options a decision reads   *)
(* and one or two of each other kind.                                      *)
(***************************************************************************)
EXTENDS Paths, Operands, Commands, TLC

CONSTANTS BaseOf(_),        \* the last component of a path word
          Join(_, _),       \* a path word below another
          RemoteTarget(_)   \* an rsync word that names another host

(* Verdicts.  A rule is silent (Pass) or gives a decision under its name. *)
Pass == [d |-> "allow", rule |-> ""]
Ask(rule) == [d |-> "ask", rule |-> rule]
Deny(rule) == [d |-> "deny", rule |-> rule]
Severity == [allow |-> 0, ask |-> 1, deny |-> 2]

(* The most severe of two verdicts; the earlier of equals.                *)
Take(worst, v) == IF Severity[v.d] > Severity[worst.d] THEN v ELSE worst
(* The first rule that speaks.                                            *)
First(a, b) == IF a # Pass THEN a ELSE b

PathOf(s, w) == Candidate(w, s.cwd, s.cwdUnknown)

(***************************************************************************)
(* Where cp, mv, install, ln, rsync and tee write.                         *)
(***************************************************************************)
Destination(flags, values, optional, writes) ==
    [g |-> [Grammar EXCEPT !.flags = flags, !.values = values \cup writes,
                           !.optional = optional, !.abbrev = TRUE,
                           !.permute = TRUE, !.lenient = TRUE],
     writes |-> writes]
Target == {"-t", "--target-directory"}

mutatingDestinationCommands ==
    [cp |-> Destination({"-a", "-f", "-R", "-r", "-T", "-v", "--archive", "--force",
                         "--recursive", "--remove-destination", "--strip-trailing-slashes"},
                        {"-S", "--suffix", "--sparse"} \cup Target,
                        {"--backup", "--preserve"}, {}),
     mv |-> Destination({"-f", "-n", "-T", "-v", "--force", "--no-clobber"},
                        {"-S", "--suffix"} \cup Target, {"--backup", "--update"}, {}),
     install |-> Destination({"-d", "-D", "-v", "--directory", "--compare"},
                             {"-g", "-m", "-o", "--mode", "--owner"} \cup Target,
                             {"--backup"}, {}),
     ln |-> Destination({"-f", "-s", "-n", "--force", "--symbolic"},
                        {"-S", "--suffix"} \cup Target, {"--backup"}, {}),
     rsync |-> Destination({"-a", "-r", "-t", "-v", "-n", "--archive", "--delete",
                            "--delete-after", "--delete-excluded", "--del", "--dry-run"},
                           {"-B", "-e", "-f", "--exclude", "--rsh"}, {},
                           {"-T", "--temp-dir", "--backup-dir", "--log-file"}),
     tee |-> Destination({"-a", "-i", "--append"}, {}, {"--output-error"}, {})]

mutatingAllArgs == {"rm", "truncate", "chmod", "chown", "mkdir", "touch", "shred",
                    "unlink", "rmdir"}

(* rsync's -t is a flag; in the other programs it is the target.          *)
parseDestinationArgs(argv, spec) == Scan(argv, 2, spec.g, Scanned)

WritePaths(p, spec) ==
    LET v == SelectSeq(p.opts, LAMBDA e : e.o \in spec.writes /\ e.v # "")
    IN  [j \in DOMAIN v |-> v[j].v]

destinationTargets(name, p, spec) ==
    LET dirs == ValuesOf(p, Target \cap spec.g.values)
        all == name = "tee" \/ (name = "install" /\ Given(p, {"-d", "--directory"}))
        into == [j \in DOMAIN p.rest |-> Join(Last(dirs), BaseOf(p.rest[j]))]
    IN  WritePaths(p, spec) \o
        CASE dirs # <<>> /\ Last(dirs) = "" -> p.rest
          [] dirs # <<>> /\ Last(dirs) # "" ->
                 <<Last(dirs)>> \o into \o (IF p.bad THEN p.rest ELSE <<>>)
          [] OTHER -> IF all \/ p.bad \/ p.rest = <<>> THEN p.rest ELSE <<Last(p.rest)>>

(* What mv takes away.                                                    *)
moveSourceTargets(p) ==
    IF Given(p, Target) \/ p.bad THEN p.rest
    ELSE IF Len(p.rest) < 2 THEN <<>> ELSE Front(p.rest)

writeTargets(argv) ==
    CASE head(argv) = "dd" ->
             LET of == SelectSeq(Tail(argv), LAMBDA w : Lex(w).attached /\ Lex(w).name = "of")
             IN  [j \in DOMAIN of |-> Lex(of[j]).value]
      [] head(argv) = "sed" -> sedWriteTargets(argv)
      [] head(argv) \in DOMAIN mutatingDestinationCommands ->
             LET spec == mutatingDestinationCommands[head(argv)]
             IN  destinationTargets(head(argv), parseDestinationArgs(argv, spec), spec)
      [] head(argv) \in mutatingAllArgs -> nonFlagArgs(argv)
      [] OTHER -> <<>>

(* rsync deletes at its destination when told to; an option it cannot     *)
(* read leaves that open.  The reading stops at the first that deletes.   *)
Deletions == {"--del", "--delete", "--delete-after", "--delete-excluded"}
rsyncDeletionMode(argv) ==
    LET p == Scan(argv, 2, [mutatingDestinationCommands["rsync"].g EXCEPT !.lenient = FALSE],
                  Scanned)
    IN  CASE Given(p, Deletions) -> "deletes"
          [] ~Given(p, Deletions) /\ p.bad -> "unread"
          [] OTHER -> "keeps"

(***************************************************************************)
(* checkDestinationWrites: what is moved away and what is written must lie *)
(* in the repository, a safe root or the temporary directory.              *)
(***************************************************************************)
WriteAuthorized(c) == authorizedPath(c, {Repo}, SafeRoots, {}, TRUE).ok

(* A source that does not exist is not moved; mv will say so.             *)
SourceRefused(c, a) ==
    ~a.ok /\ (a.lexical \/ Floating(c) \/ Lstat(Abs(c.path, c.cwd)))

WritesRefused(s, sources, targets) ==
    \/ \E j \in DOMAIN sources :
           SourceRefused(PathOf(s, sources[j]),
                         authorizedPath(PathOf(s, sources[j]), {Repo}, SafeRoots, {}, TRUE))
    \/ \E w \in targets :
           (head(s.argv) = "rsync" /\ RemoteTarget(w)) \/ ~WriteAuthorized(PathOf(s, w))

DestinationVerdict(s, name, p) ==
    CASE p.bad -> Ask("P3.unresolved")
      [] ~p.bad /\ WritesRefused(s, IF name = "mv" THEN moveSourceTargets(p) ELSE <<>>,
                               Range(writeTargets(s.argv))) ->
             Ask("P1.out-of-repo-write")
      [] OTHER -> Pass

checkDestinationWrites(s) ==
    CASE head(s.argv) = "rsync" /\ rsyncDeletionMode(s.argv) = "unread" -> Ask("P3.unresolved")
      [] head(s.argv) \in {"mv", "cp", "ln", "tee", "install"}
         \/ (head(s.argv) = "rsync" /\ rsyncDeletionMode(s.argv) = "deletes") ->
             DestinationVerdict(s, head(s.argv), parseDestinationArgs(s.argv,
                 mutatingDestinationCommands[head(s.argv)]))
      [] head(s.argv) = "unlink" -> DestinationVerdict(s, "unlink", Scanned)
      [] OTHER -> Pass

(***************************************************************************)
(* checkRmRf                                                               *)
(***************************************************************************)
RmWordDenied(s, c) ==
    \/ ~s.unres /\ ~s.find /\ isWorkingTreeDeletion(c)
    \/ ~authorizedPath(c, {Repo}, SafeRoots, strictWriteRoots(c), FALSE).ok

(* The words rm is judged by: those whose text is certain, and those that *)
(* are certain up to a trailing glob.                                     *)
RmWords(s) ==
    {s.argv[i] : i \in {j \in 2..Len(s.argv) : ~Dashed(s.argv[j]) /\ ~wordUnresolved(s, j)}}
        \cup {s.glob[i] : i \in {j \in DOMAIN s.glob : j > 1 /\ ~Dashed(s.argv[j])}}

checkRmRf(s) ==
    IF /\ head(s.argv) = "rm"
       /\ hasAnyFlag(s.argv, {"--recursive", "--force"}, {"-r", "-f", "-R"})
       /\ \E w \in RmWords(s) : ~Floating(PathOf(s, w)) /\ RmWordDenied(s, PathOf(s, w))
    THEN Deny("P1.rm-rf") ELSE Pass

----------------------------------------------------------------------------
(***************************************************************************)
(* The cmdlets internal/engine/rules_powershell.go and                     *)
(* rules_powershell_write.go know.  A parameter may be shortened to any    *)
(* prefix; one that fits several names counts as all of them and takes no  *)
(* argument.  Words are in lower case and use forward slashes.             *)
(***************************************************************************)
CONSTANTS PsWord(_),      \* a word as a parameter [name, inline, has, long], or name ""
          PsBegins(_, _), \* a parameter's name begins with the given text
          SlashSwitch(_), \* a word such as /s
          Wild(_),        \* a word with a wildcard in it
          DirOf(_)        \* a path word without its last component

Params(switches, values, paths) == [switches |-> switches, values |-> values, paths |-> paths]
removeItemParams == Params({"recurse", "force", "whatif", "confirm"},
                           {"path", "literalpath", "filter", "include", "exclude", "stream"},
                           {"path", "literalpath"})
executionPolicyParams == Params({"force", "whatif", "confirm"}, {"executionpolicy", "scope"}, {})
webRequestParams == Params({"usebasicparsing", "passthru", "resume"},
                           {"uri", "outfile", "infile", "method", "proxy"}, {})
psCopyParams == Params({"force", "recurse", "passthru", "whatif"},
                       {"path", "literalpath", "destination", "filter", "include", "exclude"},
                       {"path", "literalpath"})
psContentParams == Params({"force", "whatif", "append", "noclobber"},
                          {"path", "literalpath", "filepath", "value", "encoding", "name"},
                          {"path", "literalpath", "filepath"})
psRenameParams == Params({"force", "whatif"}, {"path", "literalpath", "newname"},
                         {"path", "literalpath"})

psMatches(name, full) == {f \in full : PsBegins(name, f)}
psBooleanArgument(v) == v \in {"$true", "$false"}

Unbound == [present |-> {}, operands |-> <<>>, values |-> <<>>]
Bound(b, v, arg, spec) ==
    [b EXCEPT !.values = (v :> arg) @@ @,
              !.operands = IF v \in spec.paths THEN Append(@, arg) ELSE @]

RECURSIVE BindFrom(_, _, _, _)
BindWord(argv, i, spec, b, p, sw, vs) ==
    LET v == CHOOSE x \in vs : TRUE
        seen == [b EXCEPT !.present = @ \cup sw \cup vs]
        stray == p.has /\ ~(sw # {} /\ vs = {} /\ psBooleanArgument(p.inline))
    IN  CASE p.name = "" ->
                 BindFrom(argv, i + 1, spec, [b EXCEPT !.operands = Append(@, argv[i])])
          [] p.name # "" /\ (Cardinality(vs) # 1 \/ sw # {}) ->
                 BindFrom(argv, i + 1, spec,
                     IF stray THEN [seen EXCEPT !.operands = Append(@, p.inline)] ELSE seen)
          [] OTHER ->
                 CASE p.has -> BindFrom(argv, i + 1, spec, Bound(seen, v, p.inline, spec))
                   [] ~p.has /\ i = Len(argv) -> seen
                   [] OTHER -> BindFrom(argv, i + 2, spec, Bound(seen, v, argv[i + 1], spec))
BindFrom(argv, i, spec, b) ==
    IF i > Len(argv) THEN b
    ELSE BindWord(argv, i, spec, b, PsWord(argv[i]),
                  psMatches(PsWord(argv[i]).name, spec.switches),
                  psMatches(PsWord(argv[i]).name, spec.values))
bindPS(argv, spec) == BindFrom(argv, 2, spec, Unbound)
ValueOf(b, v) == IF v \in DOMAIN b.values THEN b.values[v] ELSE ""

(* rmdir is the cmdlet's alias only where its words say so.               *)
psCmdletShaped(argv, spec) ==
    \E j \in 2..Len(argv) :
        LET p == PsWord(argv[j])
        IN  p.long /\ psMatches(p.name, spec.switches \cup spec.values) # {}

removeItemAliases == {"remove-item", "ri", "rd", "del", "erase", "rmdir"}

psRmFlags(b) == CASE {"recurse", "force"} \subseteq b.present -> "-rf"
                  [] "recurse" \in b.present /\ "force" \notin b.present -> "-r"
                  [] OTHER -> "-f"

checkPSRemoveItem(s, b) ==
    CASE \/ head(s.argv) = "rmdir" /\ ~psCmdletShaped(s.argv, removeItemParams)
         \/ "whatif" \in b.present
         \/ {"recurse", "force"} \cap b.present = {} -> Pass
      [] OTHER ->
             IF {"filter", "exclude", "include", "stream"} \cap b.present = {}
             THEN checkRmRf(commandDerivedFromAt(s, <<"rm", psRmFlags(b)>> \o b.operands, -1))
             ELSE IF \E w \in Range(b.operands) :
                         LET c == PathOf(s, w)
                         IN  ~authorizedPath(c, {Repo}, SafeRoots, strictWriteRoots(c), FALSE).ok
                  THEN Deny("P1.rm-rf") ELSE Pass

checkPSExecutionPolicy(b) ==
    IF (Range(b.operands) \cup {ValueOf(b, "executionpolicy")}) \cap {"bypass", "unrestricted"} # {}
    THEN Ask("P1.execution-policy") ELSE Pass

(* -EncodedCommand, unless -Command or -File comes before it.             *)
psEncodedCommand(argv) ==
    LET named == {j \in 2..Len(argv) : Dashed(argv[j])}
        encoded == {j \in named : PsWord(argv[j]).name \in {"e", "ec", "enc", "encodedcommand"}}
        source == {j \in named : PsWord(argv[j]).name \in {"c", "f", "command", "file"}}
    IN  \E j \in encoded : \A k \in source : k > j

checkPowerShell(s) ==
    CASE \/ head(s.argv) \in {"invoke-expression", "iex"}
         \/ head(s.argv) \in {"powershell", "pwsh"} /\ psEncodedCommand(s.argv) ->
             Ask("P6.dynamic-eval")
      [] head(s.argv) = "set-executionpolicy" ->
             checkPSExecutionPolicy(bindPS(s.argv, executionPolicyParams))
      [] head(s.argv) \in removeItemAliases ->
             checkPSRemoveItem(s, bindPS(s.argv, removeItemParams))
      [] OTHER -> Pass

(***************************************************************************)
(* The files the copying, renaming and writing cmdlets write.              *)
(***************************************************************************)
psReadOnlyCmdlets == {"get-content", "gc", "select-string", "get-childitem", "get-item",
                      "test-path", "resolve-path"}
stripSlashSwitches(argv) ==
    <<argv[1]>> \o SelectSeq(Tail(argv), LAMBDA w : ~SlashSwitch(w))

Into(dir, w) == IF Wild(w) THEN <<Join(dir, "guardrail")>> ELSE <<Join(dir, BaseOf(w))>>
CopyTargets(dir, sources, removes) ==
    <<dir>> \o FlattenSeq([j \in DOMAIN sources |->
        Into(dir, sources[j]) \o (IF removes THEN <<sources[j]>> ELSE <<>>)])

psCopyMove == {"copy-item", "copy", "cpi", "xcopy", "move-item", "move", "mi"}
CopyMoveTargets(b, removes) ==
    CASE ValueOf(b, "destination") # "" -> CopyTargets(ValueOf(b, "destination"), b.operands, removes)
      [] ValueOf(b, "destination") = "" /\ Len(b.operands) >= 2 ->
             CopyTargets(Last(b.operands), Front(b.operands), removes)
      [] OTHER -> <<>>

RobocopyTargets(ws) ==
    IF Len(ws) < 2 THEN <<>>
    ELSE <<ws[2]>> \o [j \in 1..(Len(ws) - 2) |-> Join(ws[2], ws[j + 2])]
         \o (IF Len(ws) = 2 \/ \E j \in 3..Len(ws) : Wild(ws[j])
             THEN <<Join(ws[2], "guardrail")>> ELSE <<>>)

RenameTargets(b) ==
    LET named == ValueOf(b, "newname")
        positional == named = "" /\ Len(b.operands) >= 2
        new == IF positional THEN Last(b.operands) ELSE named
    IN  CASE b.operands = <<>> -> <<>>
          [] b.operands # <<>> /\ new = "" -> <<b.operands[1]>>
          [] OTHER -> <<b.operands[1], Join(DirOf(b.operands[1]), new)>>

ContentTargets(b) ==
    CASE b.operands = <<>> -> <<>>
      [] b.operands # <<>> /\ ValueOf(b, "name") = "" -> <<b.operands[1]>>
      [] OTHER -> <<b.operands[1], Join(b.operands[1], ValueOf(b, "name"))>>

powershellWriteTargets(argv) ==
    CASE head(argv) = "robocopy" -> RobocopyTargets(Tail(stripSlashSwitches(argv)))
      [] head(argv) \in psCopyMove ->
             CopyMoveTargets(bindPS(stripSlashSwitches(argv), psCopyParams),
                             head(argv) \in {"move-item", "move", "mi"})
      [] head(argv) \in {"rename-item", "rni", "ren", "rename"} ->
             RenameTargets(bindPS(argv, psRenameParams))
      [] head(argv) \in {"remove-item", "ri", "del", "erase"} ->
             bindPS(stripSlashSwitches(argv), removeItemParams).operands
      [] head(argv) \in {"set-content", "add-content", "out-file", "tee-object", "new-item",
                         "clear-content", "ni"} ->
             ContentTargets(bindPS(argv, psContentParams))
      [] OTHER -> <<>>
=============================================================================
