----------------------------- MODULE Conditions -----------------------------
(***************************************************************************)
(* The language of detection conditions: the recursive-descent parsers of  *)
(* sigma.py (_CondParser) and analytics.py (_Parser), and an independent   *)
(* definition of what a condition means, by its loosest connective, to     *)
(* hold them against.                                                      *)
(*                                                                         *)
(* A condition is a stretch of a text, a sequence of tokens: the words     *)
(* below, which are read in any case and stand here in lower, and atoms -- *)
(* the name of a selection as written, or one comparison.  A condition is  *)
(*   [text, from, to, names, sigma]                                        *)
(* names being what there is to name.  A row makes some names true; a      *)
(* predicate is the set of those sets of names that satisfy it, and so is  *)
(* what the parsers build: closures over a row in analytics.py, in         *)
(* sigma.py a tree for _eval_cond to walk.                                 *)
(***************************************************************************)
EXTENDS Integers, Sequences, FiniteSets, SequencesExt

CONSTANTS
  Prefixed,  \* what a "sel*" names: pattern -> the names it matches
  LowerCase  \* the lower case of the names and patterns that have capitals

Quantifiers == {"all", "any", "1"}
Words == {"(", ")", "and", "or", "not"}

\* where the parser is, and what it has; at = 0 is the exception it raises
Parsed(holds, at) == [holds |-> holds, at |-> at]
Error == Parsed({}, 0)

At(c, i) == IF i <= c.to THEN c.text[i] ELSE "end"

(***************************************************************************)
(* Atoms.                                                                  *)
(***************************************************************************)
\* a name no selection has is false
Naming(c, name) == {held \in SUBSET c.names : name \in held}

Lowered(word) == IF word \in DOMAIN LowerCase THEN LowerCase[word] ELSE word

\* compared as it stands, so a name with capitals is only matched by capitals
NamesMatching(target, names) ==
  CASE target = "them" -> names
    [] target \in DOMAIN Prefixed -> Prefixed[target] \intersect names
    [] OTHER -> {target} \intersect names

\* ... and so is a quantifier over none
Counting(c, quant, target) ==
  LET named == NamesMatching(target, c.names)
  IN {held \in SUBSET c.names :
        named # {} /\ IF quant = "all" THEN named \subseteq held
                                       ELSE named \intersect held # {}}

\* "1 of sel*", "all of them": the target is put in lower case, the names are
\* not.  A bare quantifier is taken for a name.
Quantified(c, i) ==
  IF At(c, i + 1) # "of" THEN Parsed(Naming(c, c.text[i]), i + 1)
  ELSE IF i + 2 <= c.to
  THEN Parsed(Counting(c, c.text[i], Lowered(c.text[i + 2])), i + 3)
  ELSE Parsed(Counting(c, c.text[i], "them"), i + 2)

(***************************************************************************)
(* The parser.  Every call but the first of a level has a token behind it  *)
(* that its caller had not, so it is told by the number of tokens that may *)
(* still be read: "later" has the results of the calls further on.  The    *)
(* loops over "and" and "or" are the right recursions that yield the same. *)
(***************************************************************************)
\* Whatever stands in the place of a name is one in a Sigma condition.
AtomAt(c, i, later) ==
  IF At(c, i) = "("
  THEN LET inner == later[i + 1].or
       IN IF inner.at = 0 \/ At(c, inner.at) # ")" THEN Error
          ELSE Parsed(inner.holds, inner.at + 1)
  ELSE IF i > c.to \/ (~c.sigma /\ c.text[i] \notin c.names) THEN Error
  ELSE IF c.sigma /\ c.text[i] \in Quantifiers THEN Quantified(c, i)
  ELSE Parsed(Naming(c, c.text[i]), i + 1)

UnaryAt(c, i, later) ==
  IF At(c, i) # "not" THEN AtomAt(c, i, later)
  ELSE LET inner == later[i + 1].not
       IN IF inner.at = 0 THEN inner
          ELSE Parsed(SUBSET c.names \ inner.holds, inner.at)

AndFrom(c, left, later) ==
  IF left.at = 0 \/ At(c, left.at) # "and" THEN left
  ELSE LET right == later[left.at + 1].and
       IN IF right.at = 0 THEN right
          ELSE Parsed(left.holds \intersect right.holds, right.at)

\* mutant: an "or" binds what follows it to the conjunction it ends
OrInConjunction(c, left, later) ==
  IF left.at = 0 \/ At(c, left.at) \notin {"and", "or"} THEN left
  ELSE LET right == later[left.at + 1].and
       IN IF right.at = 0 THEN right
          ELSE Parsed(IF At(c, left.at) = "and" THEN left.holds \intersect right.holds
                                                ELSE left.holds \union right.holds,
                      right.at)
Conjunction(c, left, later) == AndFrom(c, left, later)

OrFrom(c, left, later) ==
  IF left.at = 0 \/ At(c, left.at) # "or" THEN left
  ELSE LET right == later[left.at + 1].or
       IN IF right.at = 0 THEN right
          ELSE Parsed(left.holds \union right.holds, right.at)

ReadAt(c, i, later) ==
  LET unary == UnaryAt(c, i, later)
      and   == Conjunction(c, unary, later)
  IN [not |-> unary, and |-> and, or |-> OrFrom(c, and, later)]

\* tokens left over are an error too
Parse(c) ==
  LET places == 1 .. c.to + 1
      read[n \in 0 .. c.to] ==
        IF n = 0 THEN [i \in places |-> [not |-> Error, and |-> Error, or |-> Error]]
                 ELSE [i \in places |-> ReadAt(c, i, read[n - 1])]
      whole == read[c.to][c.from].or
  IN IF whole.at = c.to + 1 THEN whole ELSE Error

(***************************************************************************)
(* What a condition means: "or" is looser than "and", and "and" than       *)
(* "not".  A stretch of none of these forms means nothing.                 *)
(***************************************************************************)
Depth(t, i) ==
  Cardinality({j \in 1..(i - 1) : t[j] = "("})
    - Cardinality({j \in 1..(i - 1) : t[j] = ")"})
First(S) == CHOOSE i \in S : \A j \in S : i <= j

\* the connectives of the stretch that no parenthesis in it encloses
Tops(t, i, j, word) == {k \in i..j : t[k] = word /\ Depth(t, k) = Depth(t, i)}

\* the senses of a stretch, from those of its parts: one, or none
SenseOf(c, i, j, part) ==
  LET t    == c.text
      ors  == Tops(t, i, j, "or")
      ands == Tops(t, i, j, "and")
  IN IF i > j THEN {}
     ELSE IF ors # {}
     THEN {a \union b : a \in part[<<i, First(ors) - 1>>], b \in part[<<First(ors) + 1, j>>]}
     ELSE IF ands # {}
     THEN {a \intersect b : a \in part[<<i, First(ands) - 1>>],
                            b \in part[<<First(ands) + 1, j>>]}
     ELSE IF t[i] = "not" THEN {SUBSET c.names \ a : a \in part[<<i + 1, j>>]}
     ELSE IF t[i] = "(" /\ t[j] = ")" /\ i + 1 < j THEN part[<<i + 1, j - 1>>]
     ELSE IF i = j /\ t[i] \in c.names \ Words THEN {Naming(c, t[i])}
     ELSE IF /\ c.sigma /\ j = i + 2 /\ t[i] \in Quantifiers /\ t[i + 1] = "of"
             /\ t[j] \in c.names \union DOMAIN Prefixed \union {"them"}
     THEN {Counting(c, t[i], t[j])}
     ELSE {}

Senses(c) ==
  LET last      == Len(c.text)
      stretches == (1 .. last + 1) \X (0 .. last)
      sense[n \in 0 .. last] ==
        IF n = 0 THEN [s \in stretches |-> {}]
                 ELSE [s \in stretches |-> SenseOf(c, s[1], s[2], sense[n - 1])]
  IN sense[last][<<c.from, c.to>>]

WellFormed(c) == Senses(c) # {}
\* every quantifier's target is written in lower case
LowerTargets(c) ==
  \A i \in 1 .. c.to - 1 : c.text[i] = "of" => Lowered(c.text[i + 1]) = c.text[i + 1]
\* is a condition true where these names are?
Means(c, held) == \E m \in Senses(c) : held \in m
=============================================================================
