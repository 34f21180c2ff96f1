------------------------------ MODULE PatternShape ------------------------------
(***************************************************************************)
(* The analyser that derives from the source of a detection pattern how    *)
(* long its matches may be and which characters may occur in one           *)
(* (src/detection/mod.rs).  The selector relies on both when the budget of *)
(* its scan is spent: a pattern the analyser does not understand counts as *)
(* unbounded with every character in its alphabet.                         *)
(*                                                                         *)
(* A source is a sequence of tokens; an escape, a counted repetition and   *)
(* the opening of a group with its flags are one token each.  Five ASCII   *)
(* characters in the order of their codes stand for all, and "wide" for    *)
(* those beyond ASCII, which take up to four bytes.                        *)
(***************************************************************************)
EXTENDS Integers, Sequences, FiniteSets, Functions

CONSTANT BOUNDED_MATCH_LIMIT \* the longest match scanned as bounded (256 in the code)

Ascii == <<"lf", "-", "1", "K", "k">>
Char  == Range(Ascii) \cup {"wide"}
Code  == Inverse(Ascii, DOMAIN Ascii, Range(Ascii))

None  == -1 \* no bound
Flags == [case_insensitive : BOOLEAN, dot_all : BOOLEAN]
NoFlags == [case_insensitive |-> FALSE, dot_all |-> FALSE]

(* What a part of the parser returns: where it stopped, the flags from there *)
(* on, and the bound and the alphabet of what it has read.                   *)
Fail == [pos |-> 0, flags |-> NoFlags, max |-> 0, alpha |-> {}]
Read(pos, flags, max, alpha) == [pos |-> pos, flags |-> flags, max |-> max, alpha |-> alpha]

------------------------------------------------------------------------------
(* ShapePiece.                                                               *)
At(pos, flags, piece) == Read(pos, flags, piece.max, piece.alpha)

Letters == {"K", "k"}

(* One character of a set; folding case may reach beyond ASCII, as do the    *)
(* Unicode classes.                                                          *)
Class(set, non_ascii, flags) ==
  LET folded == flags.case_insensitive /\ set \cap Letters # {}
      wide   == non_ascii \/ folded
  IN [max   |-> IF wide THEN 4 ELSE 1,
      alpha |-> set \cup (IF folded THEN Letters ELSE {}) \cup (IF wide THEN {"wide"} ELSE {})]

AnyChar(dot_all) == [max |-> 4, alpha |-> IF dot_all THEN Char ELSE Char \ {"lf"}]
Empty        == [max |-> 0, alpha |-> {}]

Then(a, b)  == IF None \in {a.max, b.max} THEN None ELSE a.max + b.max
OrMax(a, b) == IF None \in {a.max, b.max} THEN None ELSE IF a.max > b.max THEN a.max ELSE b.max

(* escape: the zero-width assertions, the sets and the negated classes.      *)
Escape == [e \in {"\\b", "\\n", "\\d", "\\w", "\\S"} |->
  CASE e = "\\b" -> [kind |-> "empty", set |-> {}, wide |-> FALSE]
    [] e = "\\n" -> [kind |-> "set", set |-> {"lf"}, wide |-> FALSE]
    [] e = "\\d" -> [kind |-> "set", set |-> {"1"}, wide |-> TRUE]
    [] e = "\\w" -> [kind |-> "set", set |-> {"1", "K", "k"}, wide |-> TRUE]
    [] e = "\\S" -> [kind |-> "any", set |-> {}, wide |-> TRUE]]

------------------------------------------------------------------------------
(* ShapeParser.                                                              *)
Peek(src, pos) == IF pos \in DOMAIN src THEN src[pos] ELSE "end"

(* A class after its bracket.  A negated one is taken for any character with *)
(* the bracket still to come, at which the parser then gives up.             *)
RECURSIVE Members(_, _, _, _, _)
Members(src, pos, flags, set, wide) ==
  LET Single(c) == IF c = "\\n" THEN "lf" ELSE c
      b     == Peek(src, pos)
      first == set = {} /\ ~wide
      lo    == Single(b)
      range == Peek(src, pos + 1) = "-" /\ Peek(src, pos + 2) # "]"
      hi    == IF range THEN Single(Peek(src, pos + 2)) ELSE lo
      twice == b = "-" /\ Peek(src, pos + 1) = "-" /\ ~first
  IN CASE b = "]" /\ ~first -> At(pos + 1, flags, Class(set, wide, flags))
       [] {lo, hi} \subseteq Range(Ascii) /\ Code[hi] >= Code[lo] /\ ~twice ->
            Members(src, IF range THEN pos + 3 ELSE pos + 1, flags,
                    set \cup {c \in Range(Ascii) : Code[c] \in Code[lo]..Code[hi]}, wide)
       [] b \in {"\\d", "\\w"} ->
            Members(src, pos + 1, flags, set \cup Escape[b].set, TRUE)
       [] b = "\\S" -> At(pos + 1, flags, AnyChar(TRUE))
       [] OTHER -> Fail

(* The openings of a group: the flags they turn on, and whether these hold   *)
(* for the group alone or from here to the end of the group around it.  What *)
(* comes after a minus is read and not turned off.                           *)
Groups == [g \in {"(", "(?i:", "(?-i:", "(?i)", "(?s)"} |->
  [turn |-> CASE g \in {"(?i:", "(?i)"} -> [NoFlags EXCEPT !.case_insensitive = TRUE]
              [] g = "(?s)"             -> [NoFlags EXCEPT !.dot_all = TRUE]
              [] OTHER                  -> NoFlags,
   scoped |-> g \notin {"(?i)", "(?s)"}]]

WithFlags(f, g) == [case_insensitive |-> f.case_insensitive \/ g.case_insensitive,
                    dot_all          |-> f.dot_all \/ g.dot_all]

Quantifiers == {"?", "*", "+", "{2}", "{1,}", "{0,2}"}
UpperBound  == [q \in Quantifiers |-> CASE q = "?" -> 1 [] q \in {"{2}", "{0,2}"} -> 2 [] OTHER -> None]

(* The bound of an atom repeated; nothing repeated is still nothing.         *)
Repeated(max, q) ==
  CASE UpperBound[q] = None -> IF max = 0 THEN 0 ELSE None
    [] UpperBound[q] # None -> IF max = None THEN None ELSE max * UpperBound[q]

Quantified(src, atom) ==
  LET q == Peek(src, atom.pos)
      after == IF Peek(src, atom.pos + 1) = "?" THEN atom.pos + 2 ELSE atom.pos + 1
  IN CASE atom.pos = 0 -> Fail
       [] atom.pos # 0 /\ q \notin Quantifiers -> atom
       [] atom.pos # 0 /\ q \in Quantifiers ->
            IF Peek(src, after) \in Quantifiers THEN Fail
            ELSE [atom EXCEPT !.pos = after, !.max = Repeated(@, q)]

RECURSIVE Atom(_, _, _), SeqFrom(_, _), AltFrom(_, _)

Alt(src, pos, flags) == AltFrom(src, SeqFrom(src, Read(pos, flags, 0, {})))

OrElse(acc, branch) ==
  IF branch.pos = 0 THEN Fail
  ELSE Read(branch.pos, branch.flags, OrMax(acc, branch), acc.alpha \cup branch.alpha)

AltFrom(src, acc) ==
  IF acc.pos = 0 \/ Peek(src, acc.pos) # "|" THEN acc
  ELSE AltFrom(src, OrElse(acc, SeqFrom(src, Read(acc.pos + 1, acc.flags, 0, {}))))

AndThen(acc, piece) ==
  IF piece.pos = 0 THEN Fail
  ELSE Read(piece.pos, piece.flags, Then(acc, piece), acc.alpha \cup piece.alpha)

SeqFrom(src, acc) ==
  IF acc.pos = 0 \/ Peek(src, acc.pos) \in {"end", "|", ")"} THEN acc
  ELSE SeqFrom(src, AndThen(acc, Quantified(src, Atom(src, acc.pos, acc.flags))))

Closed(src, body, flags) ==
  IF body.pos = 0 \/ Peek(src, body.pos) # ")" THEN Fail
  ELSE Read(body.pos + 1, flags, body.max, body.alpha)

Group(src, pos, flags) ==
  LET g     == Groups[src[pos]]
      inner == WithFlags(flags, g.turn)
  IN IF g.scoped THEN Closed(src, Alt(src, pos + 1, inner), flags) ELSE Read(pos + 1, inner, 0, {})

Atom(src, pos, flags) ==
  LET t == src[pos]
      One(piece) == At(pos + 1, flags, piece)
  IN CASE t \in DOMAIN Groups -> Group(src, pos, flags)
       [] t = "[" /\ Peek(src, pos + 1) = "^" -> One(AnyChar(TRUE))
       [] t = "[" /\ Peek(src, pos + 1) # "^" -> Members(src, pos + 1, flags, {}, FALSE)
       [] t = "."             -> One(AnyChar(flags.dot_all))
       [] t \in {"^", "$"}    -> One(Empty)
       [] t \in DOMAIN Escape ->
            (CASE Escape[t].kind = "empty" -> One(Empty)
               [] Escape[t].kind = "set"   -> One(Class(Escape[t].set, Escape[t].wide, flags))
               [] Escape[t].kind = "any"   -> One(AnyChar(TRUE)))
       [] t \in Range(Ascii)  -> One(Class({t}, FALSE, flags))
       [] OTHER -> Fail

Opaque == [max |-> None, alpha |-> Char]

(* PatternShape::of; the whole source must have been read.                   *)
Whole(src, piece) == piece.pos = Len(src) + 1
Understood(src) == Whole(src, Alt(src, 1, NoFlags))
ShapeOf(src, piece) ==
  IF ~Whole(src, piece) THEN Opaque
  ELSE [max   |-> IF piece.max > BOUNDED_MATCH_LIMIT THEN None ELSE piece.max,
        alpha |-> piece.alpha]
Of(src) == ShapeOf(src, Alt(src, 1, NoFlags))

------------------------------------------------------------------------------
(* What a pattern matches, to compare with: a pattern is its source and, for *)
(* the flags in force where it begins, the words of at most three characters *)
(* in its language.                                                          *)
Words == UNION {[1..n -> Char] : n \in 0..3}
Bytes(w) == Len(w) + 3 * Cardinality({i \in DOMAIN w : w[i] = "wide"})

Concat(L, M) == {v \o w : <<v, w>> \in {x \in L \X M : Len(x[1]) + Len(x[2]) <= 3}}

(* (?i) matches the other case, and k the sign for Kelvin.                   *)
Folded(C, f) ==
  IF f.case_insensitive /\ C \cap Letters # {} THEN C \cup Letters \cup {"wide"} ELSE C

OneOf(src, C(_)) == [src |-> src, lang |-> [f \in Flags |-> {<<c>> : c \in C(f)}]]
Plain(src, C)    == OneOf(src, LAMBDA f : Folded(C, f))

Atoms ==
  {Plain(<<"k">>, {"k"}), Plain(<<"1">>, {"1"}),
   OneOf(<<".">>, LAMBDA f : IF f.dot_all THEN Char ELSE Char \ {"lf"}),
   Plain(<<"\\d">>, {"1", "wide"}), Plain(<<"\\S">>, Char \ {"lf"}),
   Plain(<<"[", "1", "-", "K", "]">>, {"1", "K"}),
   Plain(<<"[", "\\n", "k", "-", "]">>, {"lf", "k", "-"}),
   OneOf(<<"[", "^", "k", "]">>, LAMBDA f : Char \ Folded({"k"}, f)),
   [src |-> <<"\\b">>, lang |-> [f \in Flags |-> {<<>>}]]}

LowerBound == [q \in Quantifiers |-> CASE q \in {"?", "*", "{0,2}"} -> 0 [] q = "{2}" -> 2 [] OTHER -> 1]

Powers(L) == LET two == Concat(L, L) IN <<{<<>>}, L, two, Concat(two, L)>>

RepeatedAtom(a, q, lazy) ==
  [src  |-> a.src \o <<q>> \o (IF lazy THEN <<"?">> ELSE <<>>),
   lang |-> [f \in Flags |->
     LET p  == Powers(a.lang[f])
         hi == IF UpperBound[q] = None THEN 3 ELSE UpperBound[q]
     IN UNION {p[n + 1] : n \in LowerBound[q]..hi}]]

Sequence(a, b) ==
  [src |-> a.src \o b.src, lang |-> [f \in Flags |-> Concat(a.lang[f], b.lang[f])]]
Either(a, b) ==
  [src |-> a.src \o <<"|">> \o b.src, lang |-> [f \in Flags |-> a.lang[f] \cup b.lang[f]]]
Grouped(a) == [a EXCEPT !.src = <<"(">> \o @ \o <<")">>]
Under(g, a) ==
  [src  |-> <<g>> \o a.src \o (IF g \in {"(?i)", "(?s)"} THEN <<>> ELSE <<")">>),
   lang |-> [f \in Flags |->
     a.lang[IF g = "(?-i:" THEN [f EXCEPT !.case_insensitive = FALSE]
            ELSE WithFlags(f, Groups[g].turn)]]]

Patterns ==
  LET quantified == {RepeatedAtom(a, q, lazy) : a \in Atoms, q \in Quantifiers, lazy \in BOOLEAN}
      simple     == {a \in Atoms : Head(a.src) \in {"k", "1", ".", "\\d", "\\b"}}
      pairs      == {Either(a, b) : a, b \in simple} \cup {Sequence(a, b) : a, b \in simple}
      groups     == {Grouped(a) : a \in pairs}
                      \cup {Under(g, a) : g \in {"(?i:", "(?-i:"}, a \in pairs}
                      \cup {Grouped(Under(g, a)) : g \in {"(?i)", "(?s)"}, a \in pairs}
      repeated   == {RepeatedAtom(a, q, FALSE) : a \in groups, q \in {"*", "{2}", "{0,2}"}}
      tail       == Plain(<<"k">>, {"k"})
  IN quantified \cup {Sequence(a, b) : a \in quantified, b \in Atoms}
       \cup {Sequence(a, tail) : a \in groups} \cup repeated
       \cup {Under("(?i)", Sequence(a, tail)) : a \in groups}

------------------------------------------------------------------------------
(* Properties.                                                               *)

(* Whatever the analyser says of a pattern holds for everything the pattern  *)
(* matches: a bounded one has no longer match, and no match has a character  *)
(* outside the alphabet, in the scope of flags, under repetition and with    *)
(* Unicode's case folding; and it understands every pattern without negated  *)
(* class (detection/mod.rs:137-149).                                         *)
ShapesSound ==
  \A p \in Patterns :
    /\ \A shape \in {Of(p.src)} :
         /\ \A w \in p.lang[NoFlags] :
              Range(w) \subseteq shape.alpha /\ (shape.max # None => Bytes(w) <= shape.max)
         /\ shape.max <= BOUNDED_MATCH_LIMIT
    /\ Understood(p.src) \/ "^" \in Range(p.src)
================================================================================
