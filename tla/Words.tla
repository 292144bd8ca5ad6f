------------------------------- MODULE Words -------------------------------
(***************************************************************************)
(* Command words and the option readers of the engine.                     *)
(*                                                                         *)
(* Every rule of internal/engine begins by reading an argument list: which *)
(* words are options, which of them take the next word or the rest of      *)
(* their own as a value, and where the operands begin.  The source has one *)
(* loop per tool; they differ in their option tables and in a few          *)
(* conventions, and both are data here: a grammar is                       *)
(*                                                                         *)
(*   flags, values, optional  the options without a value, with one, and   *)
(*                            with one that is only ever attached;         *)
(*   exact    an option is a whole word: no clusters, nothing attached;    *)
(*   end      "--" ends the options (otherwise it is an unknown option);   *)
(*   dash     "-" is an operand (otherwise it is an unknown option);       *)
(*   bools    a flag may carry an attached truth value;                    *)
(*   abbrev   a long option may be shortened to an unambiguous prefix;     *)
(*   permute  options may follow operands;                                 *)
(*   lenient  an unreadable option is noted and passed over.               *)
(*                                                                         *)
(* Words are strings.  What the loops read off a word by its characters,   *)
(* its dashes, its letters and what follows a letter or an "=", is given   *)
(* by Lex, so that nothing here takes a word apart.                        *)
(***************************************************************************)
EXTENDS Naturals, Sequences, FiniteSets, SequencesExt

CONSTANTS
    Lex(_),            \* the shape of a word, see Shape
    BaseName(_),       \* a program's name without its directory and suffix
    Abbreviates(_, _)  \* a long option's name begins with the given text

Shape == [kind : {"operand", "end", "dash", "short", "long"},
          name : STRING, attached : BOOLEAN, value : STRING,
          letters : Seq(STRING), tails : Seq(STRING)]

Grammar == [flags |-> {}, values |-> {}, optional |-> {}, exact |-> FALSE,
            end |-> TRUE, dash |-> TRUE, bools |-> FALSE, abbrev |-> FALSE,
            permute |-> FALSE, lenient |-> FALSE]

Flags(g, names) == [g EXCEPT !.flags = names]
Values(g, names) == [g EXCEPT !.values = names]
Exact == [Grammar EXCEPT !.exact = TRUE, !.end = FALSE, !.dash = FALSE]

Dashed(w) == Lex(w).kind # "operand"
From(argv, i) == SubSeq(argv, i, Len(argv))

Truth == {"true", "false", "1", "0", "t", "f"}

(* One option word: the options it gives, how many words it takes, and    *)
(* whether it could not be read.                                          *)
Took(n, opts) == [bad |-> FALSE, used |-> n, opts |-> opts]
Unread(opts) == [bad |-> TRUE, used |-> 1, opts |-> opts]
Option(o, v) == [o |-> o, v |-> v]

(* An option that takes a value which is not attached takes the next word. *)
WithNext(argv, i, o, before) ==
    IF i < Len(argv) THEN Took(2, Append(before, Option(o, argv[i + 1])))
                     ELSE Unread(before)

LongNamed(name, g) ==
    LET all == g.flags \cup g.values \cup g.optional
        short == {o \in all : Abbreviates(name, o)}
    IN  IF name \in all \/ ~g.abbrev \/ Cardinality(short) # 1 THEN name
        ELSE CHOOSE o \in short : TRUE

ReadLong(argv, i, g, s, o) ==
    CASE o \in g.optional -> Took(1, <<Option(o, s.value)>>)
      [] o \in g.values /\ s.attached -> Took(1, <<Option(o, s.value)>>)
      [] o \in g.values /\ ~s.attached -> WithNext(argv, i, o, <<>>)
      [] o \in g.flags /\ (s.attached => g.bools /\ s.value \in Truth) ->
             Took(1, <<Option(o, s.value)>>)
      [] OTHER -> Unread(<<>>)

(* A cluster is read up to its first letter that takes a value, or, where *)
(* flags carry truth values, up to an "=".                                *)
Takes(s, j, g) == \/ s.letters[j] \in g.values \cup g.optional
                  \/ /\ g.bools /\ s.letters[j] \in g.flags
                     /\ j < Len(s.letters) /\ s.letters[j + 1] = "-="

ReadLetter(argv, i, g, o, tail, plain) ==
    CASE o = "" -> Took(1, plain)
      [] o \in g.values /\ tail = "" -> WithNext(argv, i, o, plain)
      [] o \in g.values \cup g.optional -> Took(1, Append(plain, Option(o, tail)))
      [] OTHER -> IF \E t \in Truth : tail = "=" \o t
                  THEN Took(1, Append(plain, Option(o, tail))) ELSE Unread(plain)
ReadCluster(argv, i, g, s, k) ==
    [ReadLetter(argv, i, g, IF k > Len(s.letters) THEN "" ELSE s.letters[k],
                IF k > Len(s.letters) THEN "" ELSE s.tails[k],
                [j \in 1..(k - 1) |-> Option(s.letters[j], "")])
         EXCEPT !.bad = @ \/ \E j \in 1..(k - 1) : s.letters[j] \notin g.flags]

ReadExact(argv, i, g) ==
    CASE argv[i] \in g.flags -> Took(1, <<Option(argv[i], "")>>)
      [] argv[i] \in g.values -> WithNext(argv, i, argv[i], <<>>)
      [] OTHER -> Unread(<<>>)

ReadOption(argv, i, g, s) ==
    CASE g.exact -> ReadExact(argv, i, g)
      [] ~g.exact /\ s.kind = "long" -> ReadLong(argv, i, g, s, LongNamed(s.name, g))
      [] ~g.exact /\ s.kind = "short" ->
             ReadCluster(argv, i, g, s,
                 LET T == {j \in 1..Len(s.letters) : Takes(s, j, g)}
                 IN  IF T = {} THEN Len(s.letters) + 1
                     ELSE CHOOSE j \in T : \A l \in T : j <= l)
      [] OTHER -> Unread(<<>>)

(* The whole argument list from word i on.  rest: the operands, or, when  *)
(* options do not permute, everything from the first operand on.  ended:  *)
(* the options were ended by "--".                                        *)
Scanned == [bad |-> FALSE, ended |-> FALSE, opts |-> <<>>, rest |-> <<>>]

RECURSIVE Scan(_, _, _, _)
RECURSIVE ScanWord(_, _, _, _, _)
RECURSIVE ScanOn(_, _, _, _, _)
Scan(argv, i, g, r) ==
    IF i > Len(argv) \/ (r.bad /\ ~g.lenient) THEN r ELSE ScanWord(argv, i, g, r, Lex(argv[i]))
ScanWord(argv, i, g, r, s) ==
    CASE s.kind = "operand" \/ (s.kind = "dash" /\ g.dash) ->
             IF g.permute
             THEN Scan(argv, i + 1, g, [r EXCEPT !.rest = Append(@, argv[i])])
             ELSE [r EXCEPT !.rest = From(argv, i)]
      [] s.kind = "end" /\ g.end ->
             [r EXCEPT !.ended = TRUE, !.rest = @ \o From(argv, i + 1)]
      [] OTHER -> ScanOn(argv, i, g, r, ReadOption(argv, i, g, s))
ScanOn(argv, i, g, r, one) ==
    Scan(argv, i + one.used, g,
         [r EXCEPT !.bad = @ \/ one.bad, !.opts = @ \o one.opts])

Given(p, names) == \E j \in DOMAIN p.opts : p.opts[j].o \in names
ValuesOf(p, names) ==
    LET mine == SelectSeq(p.opts, LAMBDA e : e.o \in names)
    IN  [j \in DOMAIN mine |-> mine[j].v]

(* hasAnyFlag, nonFlagArgs and head: the loops that ignore grammar.       *)
FlagAmong(s, long, short) ==
    \/ s.kind = "long" /\ s.name \in long
    \/ s.kind = "short" /\ Range(s.letters) \cap short # {}
hasAnyFlag(argv, long, short) == \E i \in 2..Len(argv) : FlagAmong(Lex(argv[i]), long, short)
nonFlagArgs(argv) == SelectSeq(Tail(argv), LAMBDA w : ~Dashed(w))
head(argv) == IF argv = <<>> THEN "" ELSE BaseName(argv[1])
=============================================================================
