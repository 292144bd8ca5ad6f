--------------------------- MODULE MCCommandJudge ---------------------------
(***************************************************************************)
(* An instance of CommandJudge: a small file system with links, a linked   *)
(* worktree and a temporary directory; command lines of every family of    *)
(* rules, bare and behind the wrappers, runners, shells and remote shells  *)
(* the engine follows; calls of the file tools and of the other tools.     *)
(* Each line comes with what running it does, from the manuals of the      *)
(* programs in it.                                                         *)
(***************************************************************************)
EXTENDS CommandJudge

C == INSTANCE MCCommandLines

(***************************************************************************)
(* Words.                                                                  *)
(***************************************************************************)
PlainName(b) == IF C!EndsWith(b, ".exe") THEN SubSeq(b, 1, Len(b) - 4) ELSE b
MCBaseName(w) == PlainName(C!Base(w))
MCAbbreviates(name, o) == Len(name) > 2 /\ C!StartsWith(o, name)
MCLiteral(w) == ~C!Has(w, "$")
MCLooksLikePath(w) == C!StartsWith(w, "~") \/ C!Find(w, "/") > 0
MCJoin(a, b) == a \o "/" \o b
MCRemotePart(w) ==
    LET c == C!Find(w, ":")
        s == C!Find(w, "/")
    IN  IF c < 2 \/ (s > 0 /\ s < c) THEN ""
        ELSE LET h == SubSeq(w, 1, c - 1) IN C!Rest(h, C!Find(h, "@") + 1)
MCRemoteTarget(w) == MCRemotePart(w) # ""
MCNumeric(w) == w # "" /\ C!Chars(w) \subseteq {"0", "1", "2", "3", "4", "5", "6", "7", "8", "9"}
MCFileTypes(w) == w \in {"f", "d", "f,d"}
MCHoldsBraces(w) == w # "{}" /\ C!Has(w, "{}")
MCPsWord(w) ==
    LET t == IF C!StartsWith(w, "--") THEN C!Rest(w, 3)
             ELSE IF C!StartsWith(w, "-") THEN C!Rest(w, 2) ELSE ""
        n == C!UpTo(t, ":")
    IN  [name |-> n, inline |-> C!After(t, ":"), has |-> C!Find(t, ":") > 0, long |-> Len(n) >= 3]
MCPsBegins(name, f) == C!StartsWith(f, name)
MCSlashSwitch(w) == Len(w) \in 2..3 /\ C!StartsWith(w, "/") /\ C!FindLast(w, "/") = 1
MCWild(w) == C!Find(w, "*") > 0
MCEnvOnly(w) == C!StartsWith(w, "$env:") /\ C!FindLast(w, "$") = 1
MCDevice(w) == w \in {"/dev/null", "/dev/stdout", "/dev/stderr"}
MCOlder(w) == w = "v0.1.0"
MCMentions(w, c) == C!Has(w, "guardrail") /\ (c = "" \/ C!Has(w, " " \o c))
MCRefSpec(w) ==
    LET force == C!StartsWith(w, "+")
        spec == IF force THEN C!Rest(w, 2) ELSE w
        dst == C!Rest(spec, C!FindLast(spec, ":") + 1)
    IN  [force |-> force, empty |-> C!StartsWith(spec, ":"), branch |-> C!Base(dst),
         space |-> CASE C!StartsWith(dst, "refs/tags/") -> "tag"
                     [] dst = "v1.2" -> "version" [] OTHER -> "branch"]
MCTextShaped(w) == C!Chars(w) \cap {"{", "}", "'", "\"", "("} # {}
MCVisiblePaths(w) == Range(C!SplitAt(w, " "))
MCOperatorPath(w) == C!Has(w, ".config/guardrail")
MCInstalledBinary(w) == C!EndsWith(w, "/bin/guardrail") /\ C!StartsWith(w, "/")
MCExpansions(w) ==
    IF MCWild(C!Base(w)) /\ (C!EndsWith(C!Dir(w), ".local/bin") \/ C!Has(C!Base(w), "guard"))
    THEN {MCJoin(C!Dir(w), "guardrail")} ELSE {}
Authority(w) == C!UpTo(IF C!Has(w, "://") THEN C!Rest(w, C!Find(w, ":") + 3) ELSE w, "/")
HostIn(p) == C!UpTo(C!Rest(p, C!Find(p, "@") + 1), ":")
MCHostOf(w) == HostIn(Authority(w))
Exactly(f, n) == IF Len(f) = n THEN f ELSE <<>>
MCFields(w, n) == Exactly(C!SplitAt(w, ":"), n)
MCListed(w) == C!SplitAt(w, ",")
MCSetting(w) == [key |-> C!UpTo(w, "="), value |-> C!After(w, "=")]
MCHostGlob(a, h) == C!StartsWith(a, "*.") /\ C!EndsWith(h, C!Rest(a, 2))
MCNameOf(w) == C!UpTo(w, "=")
MCBegins(w, t) == C!StartsWith(w, t)
MCHolds(w, t) == C!Has(w, t)
MCGhPath(w) == SelectSeq(C!SplitAt(w, "/"), LAMBDA c : c # "")
MCRemoteModule(w) == C!Find(C!UpTo(w, "/"), ".") > 1 /\ C!Find(w, "/") > 0
MCPackageBase(w) == C!UpTo(C!Base(w), "@")
MCLocalPackage(w) == C!StartsWith(w, "./") \/ C!StartsWith(w, "/")
MCLocalContext(w) == C!StartsWith(w, "kind-")
MCVariablesIn(w) == IF C!Find(w, "$") = 0 THEN {} ELSE {C!Rest(w, C!Find(w, "$") + 1)}
MCEnvDrive(w) == IF C!StartsWith(w, "env:") THEN {C!Rest(w, 5)} ELSE {}
MCFetchURL(w) == C!StartsWith(w, "http://")
MCPatternMatch(p, w) == C!Has(w, p)
MCOverlayRules == <<[rule |-> "local.first", tool |-> "bash", decision |-> "ask", pattern |-> "plan"],
                    [rule |-> "local.second", tool |-> "", decision |-> "deny", pattern |-> "plans"]>>
MCEgressAllowlist == {"ok.test", "*.in.test"}

(***************************************************************************)
(* The file system.                                                        *)
(***************************************************************************)
MCRepo == <<"r">>
MCHome == <<"home", "u">>
MCTemp == <<"t">>
MCSafeRoots == {<<"s">>}
MCPermittedRoots == {<<"p">>}
Tree == {<<"r", "src", "f">>, <<"r", "src", "g">>, <<"r", ".git", "HEAD">>, <<"r", ".git", "config">>,
         <<"r", ".env">>, <<"r", ".env.example">>, <<"r", "k.pem">>, <<"r", "Makefile">>, <<"o", "f">>,
         <<"o", "d", "e">>, <<"t", "x", "f">>, <<"t", "n", "f">>, <<"s", "f">>, <<"p", "f">>,
         <<"dev", "null">>, <<"home", "u", ".ssh", "id">>, <<"home", "u", ".bashrc">>,
         <<"home", "u", ".local", "bin", "guardrail">>,
         <<"home", "u", ".claude", "projects", "q", "memory", "m">>, <<"w", ".git">>,
         <<"r", ".git", "worktrees", "w", "HEAD">>, <<"r", ".git", "worktrees", "w", "commondir">>}
AllFiles == UNION {{SubSeq(p, 1, n) : n \in 0..Len(p)} : p \in Tree}
MCFiles == AllFiles
Links == (<<"r", "out">> :> <<"o">>) @@ (<<"r", "key">> :> <<"home", "u", ".ssh", "id">>) @@
         (<<"t", "l">> :> <<"o">>)
MCLinkTo == Links
GitFiles == (<<"w", ".git">> :> [kind |-> "gitdir", target |-> "/r/.git/worktrees/w"]) @@
            (<<"r", ".git", "worktrees", "w", "commondir">> :> [kind |-> "dir", target |-> "../.."])
MCGitFile == GitFiles
Below(p, names) == \E i \in 1..Len(p) : p[i] \in names
Pair(p, a, b) == \E i \in 1..(Len(p) - 1) : p[i] = a /\ p[i + 1] = b
Ends(p, name) == p # <<>> /\ C!EndsWith(Last(p), name)
MCGlobMatch(list, p) ==
    CASE list = "secret-dirs" -> Below(p, {".ssh", ".aws"})
      [] list = "secret-globs" -> p # <<>> /\ Last(p) \in {".env", ".netrc"}
      [] list = "secret-ask" -> Ends(p, ".pem")
      [] list = "secret-allow" -> Ends(p, ".env.example") \/ Ends(p, ".pub")
      [] list = "git-protected" -> Pair(p, ".git", "config") \/ Pair(p, ".git", "hooks")
      [] list = "self-config" -> \/ p # <<>> /\ Last(p) \in {".bashrc", ".envrc"}
                                 \/ Pair(p, "bin", "guardrail") \/ Pair(p, ".config", "guardrail")
                                 \/ Pair(p, ".claude", "settings.json")
      [] list = "self-config-root" -> p = <<"CLAUDE.md">>
      [] list = "ci" -> Pair(p, ".github", "workflows")
      [] list = "ci-root" -> p \in {<<"Makefile">>, <<"go.sum">>}
      [] list = "binary" -> Pair(p, "bin", "guardrail")
      [] OTHER -> FALSE
MCGrounds == {<<"r">>, <<"s">>, <<"t">>, <<"p">>, <<"w">>,
              <<"home", "u", ".claude", "projects", "q", "memory">>}
MCProtected == {<<"r", ".git", "config">>, <<"r", ".git", "hooks">>, <<"home", "u", ".bashrc">>,
                <<"r", "CLAUDE.md">>, <<"home", "u", ".local", "bin", "guardrail">>}
MCSecretDirs == {<<"home", "u", ".ssh">>}
MCSecrets == {<<"r", ".env">>, <<"r", "k.pem">>}

(***************************************************************************)
(* The calls and their texts.                                              *)
(***************************************************************************)
CallSet == C!All
MCCalls == CallSet
MCJoined(ws) == C!JoinedWords(ws)
MCLex(w) == C!LexOf(w)
MCPathText(w) == C!PathOfText(w)
MCBaseOf(w) == C!Base(w)
MCDirOf(w) == C!Dir(w)
MCWordOf(p) == C!Spell(p)

HandText == {l.text : l \in C!HandmadeLines}
HandScript(t) == [ok |-> TRUE, stmts |-> (CHOOSE h \in Range(C!Handmade) : h.line.text = t).stmts]
MCScript(t, at) == IF t \in HandText THEN HandScript(t) ELSE C!ScriptOf(t, at)
=============================================================================
