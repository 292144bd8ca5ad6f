------------------------------- MODULE Paths -------------------------------
(***************************************************************************)
(* Paths and the file system the path rules consult, from                  *)
(* internal/pathutil and internal/engine/rules_bash.go and rules_path.go.  *)
(*                                                                         *)
(* An absolute path is the sequence of its names; the file system is the   *)
(* set of paths that exist and the targets of its symbolic links.  How a   *)
(* word is written (absolute, below "~", with "." and "..") is given by    *)
(* PathText; which glob list of the policy a path falls under by           *)
(* GlobMatch.  Letter case, which the code folds, and the Windows dialects *)
(* are left out.                                                           *)
(***************************************************************************)
EXTENDS Words

CONSTANTS
    PathText(_),     \* a word as [home, abs, parts]
    GlobMatch(_, _), \* a glob list of the policy matches the names of a path
    Files,           \* the paths that exist, links not followed
    LinkTo,          \* the target of each symbolic link
    Repo,            \* the repository root of the tool call
    SessionCwd,      \* its working directory
    Home,            \* the user's home directory
    Temp,            \* os.TempDir()
    SafeRoots,       \* the policy's safe roots
    PermittedRoots,  \* the plane's permitted roots
    Claude           \* the call comes from the claude plane

Root == <<>>
FirstN(p, n) == SubSeq(p, 1, n)

Clean(parts) ==
    FoldLeft(LAMBDA acc, c : CASE c = "." -> acc
                               [] c = ".." -> (IF acc = Root THEN Root ELSE Front(acc))
                               [] OTHER -> Append(acc, c),
             Root, parts)

(* The file system (external): what the kernel makes of a path.           *)
Real(p) ==
    FoldLeft(LAMBDA acc, c :
                 CASE c = "." -> acc
                   [] c = ".." -> (IF acc = Root THEN Root ELSE Front(acc))
                   [] OTHER -> IF Append(acc, c) \in DOMAIN LinkTo
                               THEN LinkTo[Append(acc, c)] ELSE Append(acc, c),
             Root, p)
Stat(p) == Real(p) \in Files
Entry(p) == IF p = Root THEN Root ELSE Append(Real(Front(p)), Last(p))
Lstat(p) == Entry(p) \in Files \cup DOMAIN LinkTo
IsLink(p) == Entry(p) \in DOMAIN LinkTo

(* resolvePath joins without cleaning; filepath.Abs cleans.  A word below *)
(* "~" is not expanded: it becomes a relative path named "~".             *)
resolvePath(w, cwd) ==
    LET t == PathText(w)
    IN  CASE t.home -> SessionCwd \o <<"~">> \o t.parts
          [] ~t.home /\ t.abs -> t.parts
          [] OTHER -> cwd \o t.parts
Abs(w, cwd) == Clean(resolvePath(w, cwd))

(* The nearest existing ancestor is resolved through its links, the       *)
(* missing rest appended.  A link to nowhere cannot be resolved.          *)
ResolvedAt(p, n) == [ok |-> Stat(FirstN(p, n)), path |-> Clean(Real(FirstN(p, n)) \o From(p, n + 1))]
ResolveThroughExistingAncestor(p) ==
    ResolvedAt(p, CHOOSE k \in 0..Len(p) :
        Lstat(FirstN(p, k)) /\ \A j \in (k + 1)..Len(p) : ~Lstat(FirstN(p, j)))

resolveExistingPath(w, cwd) == ResolveThroughExistingAncestor(resolvePath(w, cwd))

(* Where target stands to root, by file identity along target's ancestors *)
(* and, when none is root, by spelling.                                   *)
Unrelated == [equal |-> FALSE, within |-> FALSE, same |-> FALSE, relative |-> Root]
Related(target, n, same) == [equal |-> n = Len(target), within |-> n < Len(target),
                             same |-> same, relative |-> From(target, n + 1)]
Longest(hits) == CHOOSE k \in hits : \A j \in hits : j <= k
RelationBy(target, root, hits) ==
    IF hits # {} THEN Related(target, Longest(hits), FirstN(target, Longest(hits)) = root)
    ELSE IF IsPrefix(root, target) THEN Related(target, Len(root), TRUE) ELSE Unrelated
pathRelationBetween(target, root) ==
    RelationBy(target, root, {n \in 0..Len(target) : /\ Stat(root) /\ Stat(FirstN(target, n))
                                                     /\ Real(FirstN(target, n)) = Real(root)})

Inside(r) == r.equal \/ r.within

hasRawDotDot(w) == ".." \in Range(PathText(w).parts)

(* A candidate path of a rule: the word and the directory it is read in.  *)
Candidate(w, cwd, unknown) == [path |-> w, cwd |-> cwd, cwdUnknown |-> unknown]
Floating(c) == c.cwdUnknown /\ ~PathText(c.path).abs

systemTempRoots == {Temp, Real(Temp)}

(* The memory directory of a Claude project below the user's home: each   *)
(* of its four components spelled as expected and none of them a link.    *)
MemoryBelow(base, rest, names, memory, home) ==
    IF /\ \A k \in 1..4 : /\ ~IsLink(base \o FirstN(rest, k))
                          /\ pathRelationBetween(base \o FirstN(rest, k), Home \o FirstN(names, k)).equal
       /\ memory.ok /\ home.ok /\ pathRelationBetween(memory.path, home.path).within
    THEN {Home \o names} ELSE {}
MemoryNames(rest) == <<".claude", "projects", rest[3], "memory">>
MemoryIn(target, rel) ==
    IF ~rel.within \/ Len(rel.relative) < 4 THEN {}
    ELSE MemoryBelow(FirstN(target, Len(target) - Len(rel.relative)), rel.relative,
                     MemoryNames(rel.relative),
                     ResolveThroughExistingAncestor(Home \o MemoryNames(rel.relative)),
                     ResolveThroughExistingAncestor(Home))
claudeMemoryRoot(c) ==
    IF PathText(c.path).home \/ hasRawDotDot(c.path) \/ Floating(c) THEN {}
    ELSE MemoryIn(Abs(c.path, c.cwd), pathRelationBetween(Abs(c.path, c.cwd), Home))

strictWriteRoots(c) ==
    systemTempRoots \cup PermittedRoots \cup (IF Claude THEN claudeMemoryRoot(c) ELSE {})

(***************************************************************************)
(* authorizedPath: is a path inside one of the roots a write may go to?    *)
(* It must be inside both as it is spelled and where its links lead.  A    *)
(* strict root admits what lies below it and not itself.                   *)
(***************************************************************************)
Answer(ok, lexical) == [ok |-> ok, lexical |-> lexical]

addRoot(root, physical, rejectLink) ==
    IF \/ root = Root \/ ~physical.ok \/ physical.path = Root
       \/ rejectLink /\ physical.path # root
    THEN {} ELSE {[lexical |-> root, physical |-> physical.path]}
AddRoots(roots, rejectLink) ==
    UNION {addRoot(r, ResolveThroughExistingAncestor(r), rejectLink) : r \in roots}

Spelled(l) == l.same /\ Inside(l)
Named(target, r) == Spelled(pathRelationBetween(target, r.lexical))
Held(physical, r) == Spelled(pathRelationBetween(physical, r.physical))
AtRoot(target, physical, r) ==
    \/ pathRelationBetween(target, r.lexical).equal
    \/ pathRelationBetween(physical, r.physical).equal

AuthorizedBy(target, physical, refused, named) ==
    CASE ~physical.ok -> Answer(FALSE, FALSE)
      [] physical.ok /\ refused # {} ->
             Answer(FALSE, \E r \in refused : pathRelationBetween(target, r.lexical).same)
      [] OTHER -> Answer(\E r \in named : Held(physical.path, r), named # {})
Authorized(target, physical, roots, strict) ==
    AuthorizedBy(target, physical, {r \in strict : AtRoot(target, physical.path, r)},
                 {r \in roots \cup strict : Named(target, r)})

authorizedPath(c, repo, safeRoots, strictRoots, allowTemp) ==
    IF PathText(c.path).home \/ Floating(c) THEN Answer(FALSE, FALSE)
    ELSE Authorized(Abs(c.path, c.cwd),
                    ResolveThroughExistingAncestor(Abs(c.path, c.cwd)),
                    AddRoots(repo \cup (IF allowTemp THEN {Temp} ELSE {}), FALSE)
                        \cup AddRoots(safeRoots, TRUE),
                    AddRoots(strictRoots, FALSE))

(* The working tree of the session: the repository root or the directory  *)
(* of the call, or a directory above one of them.                         *)
Covers(target, physical, ref, refPhysical) ==
    \/ pathRelationBetween(target, ref).equal
    \/ pathRelationBetween(ref, target).within
    \/ /\ physical.ok /\ refPhysical.ok
       /\ \/ pathRelationBetween(physical.path, refPhysical.path).equal
          \/ pathRelationBetween(refPhysical.path, physical.path).within

isWorkingTreeDeletion(c) ==
    /\ ~Floating(c)
    /\ \E ref \in {SessionCwd, Repo} :
           Covers(Abs(c.path, c.cwd),
                  ResolveThroughExistingAncestor(Abs(c.path, c.cwd)),
                  ref, ResolveThroughExistingAncestor(ref))

(***************************************************************************)
(* Glob lists.  A path is matched as it is written, where its links lead,  *)
(* and, for lists anchored at the repository root, relative to that root.  *)
(***************************************************************************)
resolvePathCandidate(c) ==
    IF Floating(c) THEN [ok |-> FALSE, path |-> Root]
    ELSE resolveExistingPath(c.path, c.cwd)

Form(abs, parts) == [abs |-> abs, parts |-> parts]
pathCandidateForms(c, resolved) ==
    {Form(PathText(c.path).abs, PathText(c.path).parts)}
        \cup (IF resolved.ok THEN {Form(TRUE, resolved.path)} ELSE {})

(* The form of a path below the repository; none outside it.              *)
RelativeTo(p, r) ==
    CASE IsPrefix(Repo, p) /\ p # Repo -> {From(p, Len(Repo) + 1)}
      [] ~IsPrefix(Repo, p) /\ r.within -> {r.relative}
      [] OTHER -> {}
repoRelative(f, cwd) ==
    LET p == Clean(IF f.abs THEN f.parts ELSE cwd \o f.parts)
    IN  RelativeTo(p, pathRelationBetween(p, Repo))

matchesScoped(c, anywhere, rootOnly, forms) ==
    \E f \in forms : \/ GlobMatch(anywhere, f.parts)
                     \/ \E g \in repoRelative(f, c.cwd) : GlobMatch(rootOnly, g)

(* A path claimed inside the repository that its links take outside.      *)
EscapesRepo(abs, resolved, root) ==
    /\ Inside(pathRelationBetween(abs, Repo))
    /\ resolved.ok /\ root.ok
    /\ ~Inside(pathRelationBetween(resolved.path, root.path))
checkSymlinkEscape(c) ==
    LET t == PathText(c.path)
        abs == IF t.abs THEN t.parts ELSE Clean(c.cwd \o t.parts)
    IN  /\ ~Floating(c)
        /\ EscapesRepo(abs, ResolveThroughExistingAncestor(abs),
                       ResolveThroughExistingAncestor(Repo))
=============================================================================
