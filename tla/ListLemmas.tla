----------------------------- MODULE ListLemmas -----------------------------
(***************************************************************************)
(* Induction over data, and what it shows of lists of lists.               *)
(*                                                                         *)
(* The induction theorems of the library range over a predicate, which the *)
(* provers cannot instantiate.  The well-foundedness of the naturals is    *)
(* stated about a set, and so the induction here is on sets: a set of      *)
(* naturals that holds 0 and every successor is Nat, and a set that is not *)
(* empty has a least member.  It is enough to show what a recursive        *)
(* function computes for every argument.                                   *)
(***************************************************************************)
EXTENDS Integers, Sequences, SequencesExt, SequenceTheorems, FiniteSetTheorems,
        WellFoundedInduction, TLAPS

Less == {pair \in Nat \X Nat : pair[1] < pair[2]}

\* A set of naturals that has a member has a least one.
LEMMA LeastNatural ==
  ASSUME NEW T \in SUBSET Nat, T # {}
  PROVE  \E x \in T : \A y \in T : x <= y
<1>1. IsWellFoundedOn(Less, Nat)
  BY NatLessThanWellFounded DEF OpToRel, Less
<1>2. \E x \in T : \A y \in T : ~(<<y, x>> \in Less)
  BY <1>1, WFMin
<1>3. \E x \in T : \A y \in T : ~(y < x)
  BY <1>2 DEF Less
<1>. QED  BY <1>3

\* A set of naturals that holds 0 and every successor holds them all.
LEMMA NaturalsByInduction ==
  ASSUME NEW S \in SUBSET Nat, 0 \in S, \A n \in S : n + 1 \in S
  PROVE  S = Nat
<1>. SUFFICES ASSUME Nat \ S # {} PROVE FALSE
  OBVIOUS
<1>1. PICK x \in Nat \ S : \A y \in Nat \ S : x <= y
  BY LeastNatural
<1>2. x # 0 /\ x - 1 \in Nat /\ ~(x <= x - 1)
  BY <1>1
<1>3. x - 1 \in S
  BY <1>1, <1>2
<1>4. x \in S
  BY <1>2, <1>3
<1>. QED  BY <1>1, <1>4

-----------------------------------------------------------------------------
(* Lists: sequences of whatever they hold.                                 *)

IsList(s) == s \in Seq(ToSet(s))

LEMMA ListOf ==
  ASSUME NEW S, NEW s \in Seq(S)
  PROVE  IsList(s)
  BY DEF IsList, ToSet

LEMMA ListLen ==
  ASSUME NEW s, IsList(s)
  PROVE  /\ Len(s) \in Nat /\ DOMAIN s = 1 .. Len(s)
         /\ s = [i \in 1 .. Len(s) |-> s[i]]
         /\ Len(s) = 0 <=> s = << >>
  BY DEF IsList

\* A function on 1..n is a list.
LEMMA ListMade ==
  ASSUME NEW n \in Nat, NEW f, f = [i \in 1 .. n |-> f[i]]
  PROVE  IsList(f) /\ Len(f) = n
<1>1. f \in [1 .. n -> ToSet(f)]
  BY DEF ToSet
<1>. QED  BY <1>1 DEF IsList

\* What is made of a list member by member is a list as long.
LEMMA ListMapped ==
  ASSUME NEW s, IsList(s), NEW f, f = [i \in DOMAIN s |-> f[i]]
  PROVE  IsList(f) /\ Len(f) = Len(s) /\ DOMAIN f = DOMAIN s
  BY ListLen, ListMade

\* Two lists are lists over one set.
LEMMA ListBoth ==
  ASSUME NEW a, IsList(a), NEW b, IsList(b)
  PROVE  \E S : a \in Seq(S) /\ b \in Seq(S)
<1>1. a \in Seq(ToSet(a) \cup ToSet(b)) /\ b \in Seq(ToSet(a) \cup ToSet(b))
  BY DEF IsList
<1>. QED  BY <1>1

LEMMA ListEmpty == IsList(<< >>) /\ Len(<< >>) = 0
  BY DEF IsList, ToSet

LEMMA ListSingle ==
  ASSUME NEW x
  PROVE  IsList(<<x>>) /\ Len(<<x>>) = 1 /\ <<x>>[1] = x
  BY DEF IsList, ToSet

LEMMA ListEqual ==
  ASSUME NEW a, IsList(a), NEW b, IsList(b), Len(a) = Len(b),
         \A i \in 1 .. Len(a) : a[i] = b[i]
  PROVE  a = b
  BY ListLen

LEMMA ListConcat ==
  ASSUME NEW a, IsList(a), NEW b, IsList(b)
  PROVE  /\ IsList(a \o b) /\ Len(a \o b) = Len(a) + Len(b)
         /\ \A i \in 1 .. Len(a) : (a \o b)[i] = a[i]
         /\ \A i \in 1 .. Len(b) : (a \o b)[Len(a) + i] = b[i]
         /\ \A i \in 1 .. Len(a) + Len(b) :
              (a \o b)[i] = IF i <= Len(a) THEN a[i] ELSE b[i - Len(a)]
         /\ << >> \o a = a /\ a \o << >> = a
<1>1. PICK S : a \in Seq(S) /\ b \in Seq(S)
  BY ListBoth
<1>2. a \o b \in Seq(S)
  BY <1>1
<1>3. IsList(a \o b)
  BY <1>2, ListOf
<1>. QED  BY <1>1, <1>3

LEMMA ListAppend ==
  ASSUME NEW a, IsList(a), NEW x
  PROVE  /\ IsList(Append(a, x)) /\ Len(Append(a, x)) = Len(a) + 1
         /\ Append(a, x) = a \o <<x>>
         /\ \A i \in 1 .. Len(a) : Append(a, x)[i] = a[i]
         /\ Append(a, x)[Len(a) + 1] = x
<1>1. a \in Seq(ToSet(a) \cup {x}) /\ x \in ToSet(a) \cup {x}
  BY DEF IsList
<1>2. Append(a, x) \in Seq(ToSet(a) \cup {x})
  BY <1>1
<1>3. IsList(Append(a, x))
  BY <1>2, ListOf
<1>. QED  BY <1>1, <1>3

LEMMA ListAssociative ==
  ASSUME NEW a, IsList(a), NEW b, IsList(b), NEW c, IsList(c)
  PROVE  (a \o b) \o c = a \o (b \o c)
<1>. DEFINE S == ToSet(a) \cup ToSet(b) \cup ToSet(c)
<1>1. a \in Seq(S) /\ b \in Seq(S) /\ c \in Seq(S)
  BY DEF IsList
<1>. QED  BY <1>1, ConcatAssociative

LEMMA ListHeadTail ==
  ASSUME NEW a, IsList(a), a # << >>
  PROVE  /\ IsList(Tail(a)) /\ Len(Tail(a)) = Len(a) - 1 /\ Len(a) # 0
         /\ Head(a) = a[1] /\ 1 \in DOMAIN a
         /\ \A i \in 1 .. Len(a) - 1 : Tail(a)[i] = a[i + 1]
         /\ a = <<Head(a)>> \o Tail(a)
<1>1. a \in Seq(ToSet(a))
  BY DEF IsList
<1>2. Tail(a) \in Seq(ToSet(a)) /\ Len(Tail(a)) = Len(a) - 1 /\ Len(a) \in Nat \ {0}
  BY <1>1
<1>3. IsList(Tail(a))
  BY <1>2, ListOf
<1>4. \A i \in 1 .. Len(a) - 1 : Tail(a)[i] = a[i + 1]
  BY <1>1, <1>2
<1>5. Head(a) = a[1] /\ 1 \in DOMAIN a
  BY <1>1, <1>2
<1>6. a = <<Head(a)>> \o Tail(a)
  <2>. DEFINE h == <<Head(a)>>
  <2>1. IsList(h) /\ Len(h) = 1 /\ h[1] = Head(a)
    BY ListSingle
  <2>2. /\ IsList(h \o Tail(a)) /\ Len(h \o Tail(a)) = Len(a)
        /\ \A i \in 1 .. Len(a) : (h \o Tail(a))[i] = IF i <= 1 THEN h[i] ELSE Tail(a)[i - 1]
    <3>. HIDE DEF h
    <3>1. /\ IsList(h \o Tail(a)) /\ Len(h \o Tail(a)) = Len(h) + Len(Tail(a))
          /\ \A i \in 1 .. Len(h) + Len(Tail(a)) :
               (h \o Tail(a))[i] = IF i <= Len(h) THEN h[i] ELSE Tail(a)[i - Len(h)]
      BY <1>3, <2>1, ListConcat
    <3>2. Len(h) + Len(Tail(a)) = Len(a)
      BY <1>2, <2>1
    <3>. QED  BY <2>1, <3>1, <3>2
  <2>3. \A i \in 1 .. Len(a) : (h \o Tail(a))[i] = a[i]
    <3>. HIDE DEF h
    <3>1. ASSUME NEW i \in 1 .. Len(a)
          PROVE  (h \o Tail(a))[i] = a[i]
      <4>1. CASE i = 1
        BY <1>5, <2>1, <2>2, <4>1
      <4>2. CASE i # 1
        <5>1. i - 1 \in 1 .. Len(a) - 1 /\ (i - 1) + 1 = i /\ ~(i <= 1)
          BY <1>2, <4>2
        <5>. QED  BY <1>4, <2>2, <5>1
      <4>. QED  BY <4>1, <4>2
    <3>. QED  BY <3>1
  <2>. QED  BY <2>2, <2>3, ListEqual
<1>. QED  BY <1>2, <1>3, <1>4, <1>5, <1>6

-----------------------------------------------------------------------------
(* The first so many members of a list.                                    *)

Prefix(s, n) == [i \in 1 .. n |-> s[i]]

\* A prefix is a list; it grows by one member, up to the list itself.
LEMMA PrefixList ==
  ASSUME NEW s, IsList(s), NEW n \in 0 .. Len(s)
  PROVE  /\ IsList(Prefix(s, n)) /\ Len(Prefix(s, n)) = n
         /\ \A i \in 1 .. n : Prefix(s, n)[i] = s[i]
<1>1. n \in Nat
  BY ListLen
<1>2. Prefix(s, n) = [i \in 1 .. n |-> Prefix(s, n)[i]]
  BY DEF Prefix
<1>3. IsList(Prefix(s, n)) /\ Len(Prefix(s, n)) = n
  BY <1>1, <1>2, ListMade
<1>. QED  BY <1>3 DEF Prefix

LEMMA PrefixNext ==
  ASSUME NEW s, IsList(s)
  PROVE  /\ Prefix(s, 0) = << >> /\ Prefix(s, Len(s)) = s
         /\ \A n \in Nat : n < Len(s) =>
              Prefix(s, n + 1) = Append(Prefix(s, n), s[n + 1])
<1>1. Prefix(s, 0) = << >>
  BY DEF Prefix
<1>2. Prefix(s, Len(s)) = s
  BY ListLen DEF Prefix
<1>3. ASSUME NEW n \in Nat, n < Len(s)
      PROVE  Prefix(s, n + 1) = Append(Prefix(s, n), s[n + 1])
  <2>. DEFINE p == Prefix(s, n)
              q == Prefix(s, n + 1)
              a == Append(p, s[n + 1])
  <2>1. n \in 0 .. Len(s) /\ n + 1 \in 0 .. Len(s)
    BY <1>3, ListLen
  <2>2. /\ IsList(p) /\ Len(p) = n /\ \A i \in 1 .. n : p[i] = s[i]
        /\ IsList(q) /\ Len(q) = n + 1 /\ \A i \in 1 .. n + 1 : q[i] = s[i]
    BY <2>1, PrefixList
  <2>. HIDE DEF p, q
  <2>3. /\ IsList(a) /\ Len(a) = n + 1
        /\ \A i \in 1 .. n : a[i] = p[i]
        /\ a[n + 1] = s[n + 1]
    <3>0. IsList(p)
      BY <2>2
    <3>1. /\ IsList(a) /\ Len(a) = Len(p) + 1
          /\ a[Len(p) + 1] = s[n + 1]
      BY <3>0, ListAppend, Zenon
    <3>2. \A i \in 1 .. Len(p) : a[i] = p[i]
      BY <3>0, ListAppend, Zenon
    <3>. HIDE DEF a
    <3>. QED  BY <2>2, <3>1, <3>2
  <2>. HIDE DEF a
  <2>4. ASSUME NEW i \in 1 .. n + 1
        PROVE  q[i] = a[i]
    <3>1. i \in 1 .. n \/ i = n + 1
      OBVIOUS
    <3>. QED  BY <2>2, <2>3, <3>1
  <2>5. q = a
    BY <2>2, <2>3, <2>4, ListEqual
  <2>. QED  BY <2>5 DEF p, q, a
<1>. QED  BY <1>1, <1>2, <1>3

-----------------------------------------------------------------------------
(* FlattenSeq, which the library defines by a recursive function.          *)

Steps(ss, f, n) == f = [i \in 1 .. n |-> IF i = 1 THEN ss[i] ELSE f[i - 1] \o ss[i]]

Flats(ss) ==
  CHOOSE f : f = [i \in 1 .. Len(ss) |-> IF i = 1 THEN ss[i] ELSE f[i - 1] \o ss[i]]

LEMMA FlattenLast ==
  ASSUME NEW ss, Len(ss) # 0
  PROVE  FlattenSeq(ss) = Flats(ss)[Len(ss)]
  BY DEF FlattenSeq, Flats

\* The recursion has one solution.
LEMMA StepsExist ==
  ASSUME NEW ss, NEW n \in Nat
  PROVE  \E f : Steps(ss, f, n)
<1>. DEFINE T == {m \in Nat : \E f : Steps(ss, f, m)}
<1>1. 0 \in T
  <2>1. Steps(ss, << >>, 0)
    BY DEF Steps
  <2>. QED  BY <2>1
<1>2. ASSUME NEW m \in T
      PROVE  m + 1 \in T
  <2>1. m \in Nat
    OBVIOUS
  <2>2. PICK f : Steps(ss, f, m)
    OBVIOUS
  <2>. DEFINE g == [i \in 1 .. m + 1 |->
                     IF i \in 1 .. m THEN f[i]
                     ELSE IF i = 1 THEN ss[i] ELSE f[i - 1] \o ss[i]]
  <2>3. ASSUME NEW i \in 1 .. m + 1
        PROVE  g[i] = IF i = 1 THEN ss[i] ELSE g[i - 1] \o ss[i]
    <3>1. CASE i = 1 /\ i \in 1 .. m
      BY <2>1, <2>2, <3>1 DEF Steps
    <3>2. CASE i = 1 /\ i \notin 1 .. m
      BY <2>1, <3>2
    <3>3. CASE i # 1 /\ i \in 1 .. m
      <4>1. i - 1 \in 1 .. m /\ i - 1 \in 1 .. m + 1
        BY <2>1, <3>3
      <4>2. f[i] = f[i - 1] \o ss[i]
        BY <2>2, <3>3 DEF Steps
      <4>. QED  BY <3>3, <4>1, <4>2
    <3>4. CASE i # 1 /\ i \notin 1 .. m
      <4>1. i - 1 \in 1 .. m /\ i - 1 \in 1 .. m + 1
        BY <2>1, <3>4
      <4>. QED  BY <3>4, <4>1
    <3>. QED  BY <3>1, <3>2, <3>3, <3>4
  <2>4. g = [i \in 1 .. m + 1 |-> g[i]]
    OBVIOUS
  <2>. HIDE DEF g
  <2>5. Steps(ss, g, m + 1)
    BY <2>3, <2>4 DEF Steps
  <2>. QED  BY <2>1, <2>5
<1>. HIDE DEF T
<1>3. T = Nat
  <2>1. T \in SUBSET Nat
    BY DEF T
  <2>. QED  BY <1>1, <1>2, <2>1, NaturalsByInduction
<1>. QED  BY <1>3 DEF T

\* Two solutions agree as far as both go over the same members.
LEMMA StepsAgree ==
  ASSUME NEW ss, NEW tt, NEW f, NEW g, NEW n \in Nat, NEW k \in Nat,
         Steps(ss, f, n), Steps(tt, g, k), k <= n,
         \A i \in 1 .. k : ss[i] = tt[i]
  PROVE  \A i \in 1 .. k : f[i] = g[i]
<1>. DEFINE T == {m \in Nat : m \in 1 .. k => f[m] = g[m]}
<1>1. 0 \in T
  OBVIOUS
<1>2. ASSUME NEW m \in T
      PROVE  m + 1 \in T
  <2>. SUFFICES ASSUME m + 1 \in 1 .. k
                PROVE  f[m + 1] = g[m + 1]
    OBVIOUS
  <2>1. m \in Nat /\ m + 1 \in 1 .. n
    OBVIOUS
  <2>2. /\ f[m + 1] = IF m + 1 = 1 THEN ss[m + 1] ELSE f[(m + 1) - 1] \o ss[m + 1]
        /\ g[m + 1] = IF m + 1 = 1 THEN tt[m + 1] ELSE g[(m + 1) - 1] \o tt[m + 1]
    BY <2>1 DEF Steps
  <2>3. CASE m = 0
    BY <2>2, <2>3
  <2>4. CASE m # 0
    <3>1. m \in 1 .. k /\ (m + 1) - 1 = m /\ m + 1 # 1
      BY <2>1, <2>4
    <3>2. f[m] = g[m]
      BY <3>1
    <3>. QED  BY <2>2, <3>1, <3>2
  <2>. QED  BY <2>3, <2>4
<1>. HIDE DEF T
<1>3. T = Nat
  <2>1. T \in SUBSET Nat
    BY DEF T
  <2>. QED  BY <1>1, <1>2, <2>1, NaturalsByInduction
<1>. QED  BY <1>3 DEF T

LEMMA FlatsSteps ==
  ASSUME NEW ss, Len(ss) \in Nat
  PROVE  Steps(ss, Flats(ss), Len(ss))
<1>1. \E f : f = [i \in 1 .. Len(ss) |-> IF i = 1 THEN ss[i] ELSE f[i - 1] \o ss[i]]
  BY StepsExist DEF Steps
<1>. QED  BY <1>1 DEF Steps, Flats

AllLists(ss) == \A i \in DOMAIN ss : IsList(ss[i])

LEMMA FlattenEmpty == FlattenSeq(<< >>) = << >>
  BY ListEmpty DEF FlattenSeq

\* One more part comes after all the others.
LEMMA FlattenAppend ==
  ASSUME NEW ss, IsList(ss), NEW x, IsList(x)
  PROVE  FlattenSeq(Append(ss, x)) = FlattenSeq(ss) \o x
<1>. DEFINE n == Len(ss)
            tt == Append(ss, x)
<1>1. /\ n \in Nat /\ (n = 0 <=> ss = << >>)
      /\ Len(tt) = n + 1 /\ tt[n + 1] = x
      /\ \A i \in 1 .. n : tt[i] = ss[i]
  <2>1. n \in Nat /\ (n = 0 <=> ss = << >>)
    BY ListLen
  <2>2. Len(tt) = n + 1 /\ tt[n + 1] = x
    BY ListAppend, Zenon
  <2>3. \A i \in 1 .. n : tt[i] = ss[i]
    BY ListAppend, Zenon
  <2>. QED  BY <2>1, <2>2, <2>3
<1>. HIDE DEF n, tt
<1>2. FlattenSeq(tt) = Flats(tt)[n + 1] /\ Steps(tt, Flats(tt), n + 1)
  <2>1. Len(tt) \in Nat /\ Len(tt) # 0
    BY <1>1
  <2>. QED  BY <1>1, <2>1, FlattenLast, FlatsSteps
<1>3. Flats(tt)[n + 1] = IF n + 1 = 1 THEN tt[n + 1] ELSE Flats(tt)[(n + 1) - 1] \o tt[n + 1]
  <2>1. n + 1 \in 1 .. n + 1
    BY <1>1
  <2>. QED  BY <1>2, <2>1 DEF Steps
<1>4. CASE n = 0
  <2>1. FlattenSeq(tt) = x
    BY <1>1, <1>2, <1>3, <1>4
  <2>2. FlattenSeq(ss) = << >>
    BY <1>1, <1>4, FlattenEmpty
  <2>3. << >> \o x = x
    BY ListConcat, ListEmpty
  <2>. QED  BY <2>1, <2>2, <2>3 DEF tt
<1>5. CASE n # 0
  <2>1. FlattenSeq(ss) = Flats(ss)[n] /\ Steps(ss, Flats(ss), n)
    BY <1>1, <1>5, FlattenLast, FlatsSteps DEF n
  <2>2. Flats(tt)[n] = Flats(ss)[n]
    <3>1. n <= n + 1 /\ n \in 1 .. n /\ n + 1 \in Nat
      BY <1>1, <1>5
    <3>2. \A i \in 1 .. n : Flats(tt)[i] = Flats(ss)[i]
      BY <1>1, <1>2, <2>1, <3>1, StepsAgree
    <3>. QED  BY <3>1, <3>2
  <2>3. n + 1 # 1 /\ (n + 1) - 1 = n
    BY <1>1, <1>5
  <2>. QED  BY <1>1, <1>2, <1>3, <2>1, <2>2, <2>3 DEF tt
<1>. QED  BY <1>4, <1>5

\* The parts are lists, and so is what they make together.
LEMMA FlattenList ==
  ASSUME NEW ss, IsList(ss), AllLists(ss)
  PROVE  IsList(FlattenSeq(ss))
<1>. DEFINE T == {m \in Nat : m <= Len(ss) => IsList(FlattenSeq(Prefix(ss, m)))}
<1>1. 0 \in T
  BY PrefixNext, FlattenEmpty, ListEmpty
<1>2. ASSUME NEW m \in T
      PROVE  m + 1 \in T
  <2>. SUFFICES ASSUME m + 1 <= Len(ss)
                PROVE  IsList(FlattenSeq(Prefix(ss, m + 1)))
    OBVIOUS
  <2>1. m \in Nat /\ m < Len(ss) /\ m \in 0 .. Len(ss) /\ m + 1 \in DOMAIN ss
    BY ListLen
  <2>2. IsList(FlattenSeq(Prefix(ss, m))) /\ IsList(Prefix(ss, m)) /\ IsList(ss[m + 1])
    BY <2>1, ListLen, PrefixList DEF AllLists
  <2>3. Prefix(ss, m + 1) = Append(Prefix(ss, m), ss[m + 1])
    BY <2>1, PrefixNext
  <2>4. FlattenSeq(Prefix(ss, m + 1)) = FlattenSeq(Prefix(ss, m)) \o ss[m + 1]
    BY <2>2, <2>3, FlattenAppend
  <2>5. IsList(FlattenSeq(Prefix(ss, m)) \o ss[m + 1])
    BY <2>2, ListConcat, Zenon
  <2>. QED  BY <2>4, <2>5
<1>. HIDE DEF T
<1>3. T = Nat
  <2>1. T \in SUBSET Nat
    BY DEF T
  <2>. QED  BY <1>1, <1>2, <2>1, NaturalsByInduction
<1>4. Len(ss) \in T
  BY <1>3, ListLen
<1>. QED  BY <1>4, PrefixNext, ListLen DEF T

LEMMA FlattenNext ==
  ASSUME NEW ss, IsList(ss), AllLists(ss), NEW n \in Nat, n < Len(ss)
  PROVE  /\ FlattenSeq(Prefix(ss, n + 1)) = FlattenSeq(Prefix(ss, n)) \o ss[n + 1]
         /\ IsList(FlattenSeq(Prefix(ss, n))) /\ IsList(ss[n + 1])
<1>1. n \in 0 .. Len(ss) /\ n + 1 \in DOMAIN ss
  BY ListLen
<1>2. IsList(Prefix(ss, n)) /\ IsList(ss[n + 1]) /\ AllLists(Prefix(ss, n))
  <2>1. IsList(Prefix(ss, n)) /\ Len(Prefix(ss, n)) = n /\ \A i \in 1 .. n : Prefix(ss, n)[i] = ss[i]
    BY <1>1, PrefixList
  <2>2. DOMAIN Prefix(ss, n) = 1 .. n /\ DOMAIN ss = 1 .. Len(ss) /\ Len(ss) \in Nat
    BY <2>1, ListLen
  <2>. QED  BY <1>1, <2>1, <2>2 DEF AllLists
<1>3. Prefix(ss, n + 1) = Append(Prefix(ss, n), ss[n + 1])
  BY PrefixNext
<1>. QED  BY <1>2, <1>3, FlattenAppend, FlattenList

\* Two lists of parts, one after the other.
LEMMA FlattenConcat ==
  ASSUME NEW a, IsList(a), AllLists(a), NEW b, IsList(b), AllLists(b)
  PROVE  FlattenSeq(a \o b) = FlattenSeq(a) \o FlattenSeq(b)
<1>. DEFINE T == {m \in Nat : m <= Len(b) =>
                    FlattenSeq(a \o Prefix(b, m)) = FlattenSeq(a) \o FlattenSeq(Prefix(b, m))}
<1>0. IsList(FlattenSeq(a))
  BY FlattenList
<1>1. 0 \in T
  <2>1. Prefix(b, 0) = << >>
    BY PrefixNext
  <2>2. a \o << >> = a /\ FlattenSeq(a) \o << >> = FlattenSeq(a)
    BY <1>0, ListConcat, Zenon
  <2>3. FlattenSeq(a \o Prefix(b, 0)) = FlattenSeq(a) \o FlattenSeq(Prefix(b, 0))
    BY <2>1, <2>2, FlattenEmpty, Zenon
  <2>. QED  BY <2>3
<1>2. ASSUME NEW m \in T
      PROVE  m + 1 \in T
  <2>. SUFFICES ASSUME m + 1 <= Len(b)
                PROVE  FlattenSeq(a \o Prefix(b, m + 1)) = FlattenSeq(a) \o FlattenSeq(Prefix(b, m + 1))
    OBVIOUS
  <2>. DEFINE p == Prefix(b, m)
              x == b[m + 1]
  <2>1. m \in Nat /\ m < Len(b) /\ m \in 0 .. Len(b)
    BY ListLen
  <2>2. FlattenSeq(a \o p) = FlattenSeq(a) \o FlattenSeq(p) /\ IsList(p)
    BY <2>1, ListLen, PrefixList
  <2>3. Prefix(b, m + 1) = Append(p, x)
    BY <2>1, PrefixNext
  <2>4. /\ FlattenSeq(Prefix(b, m + 1)) = FlattenSeq(p) \o x
        /\ IsList(FlattenSeq(p)) /\ IsList(x)
    BY <2>1, FlattenNext
  <2>. HIDE DEF p, x
  <2>5. a \o Append(p, x) = Append(a \o p, x) /\ IsList(a \o p)
    <3>1. Append(p, x) = p \o <<x>> /\ IsList(<<x>>) /\ IsList(a \o p)
      BY <2>2, ListAppend, ListSingle, ListConcat
    <3>2. Append(a \o p, x) = (a \o p) \o <<x>>
      BY <3>1, ListAppend
    <3>3. (a \o p) \o <<x>> = a \o (p \o <<x>>)
      <4>1. IsList(a) /\ IsList(p) /\ IsList(<<x>>)
        BY <2>2, <3>1
      <4>. DEFINE one == <<x>>
      <4>. HIDE DEF one
      <4>. QED  BY ONLY <4>1, IsList(one), ListAssociative, SMT DEF one
    <3>. QED  BY <3>1, <3>2, <3>3
  <2>6. FlattenSeq(Append(a \o p, x)) = FlattenSeq(a \o p) \o x
    BY <2>4, <2>5, FlattenAppend
  <2>7. (FlattenSeq(a) \o FlattenSeq(p)) \o x = FlattenSeq(a) \o (FlattenSeq(p) \o x)
    <3>1. IsList(FlattenSeq(a)) /\ IsList(FlattenSeq(p)) /\ IsList(x)
      BY <1>0, <2>4
    <3>. QED  BY ONLY <3>1, ListAssociative, SMT
  <2>. QED  BY <2>2, <2>3, <2>4, <2>5, <2>6, <2>7
<1>. HIDE DEF T
<1>3. T = Nat
  <2>1. T \in SUBSET Nat
    BY DEF T
  <2>. QED  BY <1>1, <1>2, <2>1, NaturalsByInduction
<1>4. Len(b) \in T
  BY <1>3, ListLen
<1>. QED  BY <1>4, PrefixNext, ListLen DEF T

\* One part in front.
LEMMA FlattenCons ==
  ASSUME NEW x, IsList(x), NEW ss, IsList(ss), AllLists(ss)
  PROVE  FlattenSeq(<<x>> \o ss) = x \o FlattenSeq(ss)
<1>1. IsList(<<x>>) /\ AllLists(<<x>>)
  BY ListSingle DEF AllLists
<1>2. FlattenSeq(<<x>>) = x
  <2>1. <<x>> = Append(<< >>, x)
    OBVIOUS
  <2>2. FlattenSeq(Append(<< >>, x)) = FlattenSeq(<< >>) \o x
    BY FlattenAppend, ListEmpty, Zenon
  <2>3. << >> \o x = x
    BY ListConcat, ListEmpty, Zenon
  <2>. QED  BY <2>1, <2>2, <2>3, FlattenEmpty
<1>. QED  BY <1>1, <1>2, FlattenConcat

\* Parts that are all empty make nothing.
LEMMA FlattenNothing ==
  ASSUME NEW ss, IsList(ss), \A i \in DOMAIN ss : ss[i] = << >>
  PROVE  FlattenSeq(ss) = << >>
<1>. DEFINE T == {m \in Nat : m <= Len(ss) => FlattenSeq(Prefix(ss, m)) = << >>}
<1>0. AllLists(ss)
  BY ListEmpty DEF AllLists
<1>1. 0 \in T
  BY PrefixNext, FlattenEmpty
<1>2. ASSUME NEW m \in T
      PROVE  m + 1 \in T
  <2>. SUFFICES ASSUME m + 1 <= Len(ss)
                PROVE  FlattenSeq(Prefix(ss, m + 1)) = << >>
    OBVIOUS
  <2>1. m \in Nat /\ m < Len(ss) /\ m + 1 \in DOMAIN ss
    BY ListLen
  <2>2. FlattenSeq(Prefix(ss, m + 1)) = FlattenSeq(Prefix(ss, m)) \o ss[m + 1]
    BY <1>0, <2>1, FlattenNext
  <2>. QED  BY <2>1, <2>2
<1>. HIDE DEF T
<1>3. T = Nat
  <2>1. T \in SUBSET Nat
    BY DEF T
  <2>. QED  BY <1>1, <1>2, <2>1, NaturalsByInduction
<1>4. Len(ss) \in T
  BY <1>3, ListLen
<1>. QED  BY <1>4, PrefixNext, ListLen DEF T

\* What two lists make together has the members of both.
LEMMA ConcatMembers ==
  ASSUME NEW a, IsList(a), NEW b, IsList(b)
  PROVE  ToSet(a \o b) = ToSet(a) \cup ToSet(b)
<1>1. PICK S : a \in Seq(S) /\ b \in Seq(S)
  BY ListBoth
<1>2. /\ a \o b \in Seq(S) /\ Len(a \o b) = Len(a) + Len(b)
      /\ Len(a) \in Nat /\ Len(b) \in Nat
      /\ DOMAIN a = 1 .. Len(a) /\ DOMAIN b = 1 .. Len(b)
      /\ DOMAIN (a \o b) = 1 .. Len(a) + Len(b)
  BY <1>1
<1>3. /\ \A i \in 1 .. Len(a) : (a \o b)[i] = a[i]
      /\ \A i \in 1 .. Len(b) : (a \o b)[Len(a) + i] = b[i]
      /\ \A i \in 1 .. Len(a) + Len(b) :
           (a \o b)[i] = IF i <= Len(a) THEN a[i] ELSE b[i - Len(a)]
  <2>1. \A i \in 1 .. Len(a) : (a \o b)[i] = a[i]
    BY ListConcat, Zenon
  <2>2. \A i \in 1 .. Len(b) : (a \o b)[Len(a) + i] = b[i]
    BY <1>1
  <2>3. \A i \in 1 .. Len(a) + Len(b) :
          (a \o b)[i] = IF i <= Len(a) THEN a[i] ELSE b[i - Len(a)]
    BY ListConcat, Zenon
  <2>. QED  BY <2>1, <2>2, <2>3, Zenon
<1>4. ASSUME NEW x \in ToSet(a \o b)
      PROVE  x \in ToSet(a) \cup ToSet(b)
  <2>1. PICK i \in 1 .. Len(a) + Len(b) : x = (a \o b)[i]
    BY <1>2 DEF ToSet
  <2>2. CASE i <= Len(a)
    BY <1>2, <1>3, <2>1, <2>2 DEF ToSet
  <2>3. CASE ~(i <= Len(a))
    <3>1. i - Len(a) \in 1 .. Len(b)
      BY <1>2, <2>3
    <3>2. x = b[i - Len(a)]
      BY <1>3, <2>1, <2>3
    <3>. QED  BY <1>2, <3>1, <3>2 DEF ToSet
  <2>. QED  BY <2>2, <2>3
<1>5. ASSUME NEW x \in ToSet(a)
      PROVE  x \in ToSet(a \o b)
  <2>1. PICK i \in 1 .. Len(a) : x = a[i]
    BY <1>2 DEF ToSet
  <2>2. i \in DOMAIN (a \o b) /\ (a \o b)[i] = x
    BY <1>2, <1>3, <2>1
  <2>. QED  BY <2>2 DEF ToSet
<1>6. ASSUME NEW x \in ToSet(b)
      PROVE  x \in ToSet(a \o b)
  <2>1. PICK i \in 1 .. Len(b) : x = b[i]
    BY <1>2 DEF ToSet
  <2>2. Len(a) + i \in DOMAIN (a \o b) /\ (a \o b)[Len(a) + i] = x
    BY <1>2, <1>3, <2>1
  <2>. QED  BY <2>2 DEF ToSet
<1>. QED  BY <1>4, <1>5, <1>6

\* A member of the whole is a member of a part.
LEMMA FlattenMembers ==
  ASSUME NEW ss, IsList(ss), AllLists(ss), NEW x \in ToSet(FlattenSeq(ss))
  PROVE  \E i \in DOMAIN ss : x \in ToSet(ss[i])
<1>. DEFINE T == {m \in Nat : m <= Len(ss) =>
                    \A y \in ToSet(FlattenSeq(Prefix(ss, m))) :
                      \E i \in DOMAIN ss : y \in ToSet(ss[i])}
<1>1. 0 \in T
  <2>1. FlattenSeq(Prefix(ss, 0)) = << >>
    BY PrefixNext, FlattenEmpty
  <2>2. ToSet(<< >>) = {}
    BY DEF ToSet
  <2>. QED  BY <2>1, <2>2
<1>2. ASSUME NEW m \in T
      PROVE  m + 1 \in T
  <2>. SUFFICES ASSUME m + 1 <= Len(ss), NEW y \in ToSet(FlattenSeq(Prefix(ss, m + 1)))
                PROVE  \E i \in DOMAIN ss : y \in ToSet(ss[i])
    OBVIOUS
  <2>1. m \in Nat /\ m < Len(ss) /\ m + 1 \in DOMAIN ss
    BY ListLen
  <2>2. /\ FlattenSeq(Prefix(ss, m + 1)) = FlattenSeq(Prefix(ss, m)) \o ss[m + 1]
        /\ IsList(FlattenSeq(Prefix(ss, m))) /\ IsList(ss[m + 1])
    BY <2>1, FlattenNext
  <2>3. ToSet(FlattenSeq(Prefix(ss, m + 1))) =
          ToSet(FlattenSeq(Prefix(ss, m))) \cup ToSet(ss[m + 1])
    BY <2>2, ConcatMembers
  <2>4. CASE y \in ToSet(FlattenSeq(Prefix(ss, m)))
    BY <2>1, <2>4
  <2>5. CASE y \in ToSet(ss[m + 1])
    BY <2>1, <2>5
  <2>. QED  BY <2>3, <2>4, <2>5
<1>. HIDE DEF T
<1>3. T = Nat
  <2>1. T \in SUBSET Nat
    BY DEF T
  <2>. QED  BY <1>1, <1>2, <2>1, NaturalsByInduction
<1>4. Len(ss) \in T
  BY <1>3, ListLen
<1>. QED  BY <1>4, PrefixNext, ListLen DEF T

\* A member of a part is a member of the whole.
LEMMA FlattenHas ==
  ASSUME NEW ss, IsList(ss), AllLists(ss), NEW k \in DOMAIN ss, NEW x \in ToSet(ss[k])
  PROVE  x \in ToSet(FlattenSeq(ss))
<1>. DEFINE T == {m \in Nat : m <= Len(ss) =>
                    (k <= m => x \in ToSet(FlattenSeq(Prefix(ss, m))))}
<1>0. k \in 1 .. Len(ss) /\ Len(ss) \in Nat
  BY ListLen
<1>1. 0 \in T
  BY <1>0
<1>2. ASSUME NEW m \in T
      PROVE  m + 1 \in T
  <2>. SUFFICES ASSUME m + 1 <= Len(ss), k <= m + 1
                PROVE  x \in ToSet(FlattenSeq(Prefix(ss, m + 1)))
    OBVIOUS
  <2>1. m \in Nat /\ m < Len(ss)
    BY <1>0
  <2>2. /\ FlattenSeq(Prefix(ss, m + 1)) = FlattenSeq(Prefix(ss, m)) \o ss[m + 1]
        /\ IsList(FlattenSeq(Prefix(ss, m))) /\ IsList(ss[m + 1])
    BY <2>1, FlattenNext
  <2>3. ToSet(FlattenSeq(Prefix(ss, m + 1))) =
          ToSet(FlattenSeq(Prefix(ss, m))) \cup ToSet(ss[m + 1])
    BY <2>2, ConcatMembers
  <2>4. CASE k <= m
    BY <1>0, <2>1, <2>3, <2>4
  <2>5. CASE k = m + 1
    BY <2>3, <2>5
  <2>. QED  BY <1>0, <2>1, <2>4, <2>5
<1>. HIDE DEF T
<1>3. T = Nat
  <2>1. T \in SUBSET Nat
    BY DEF T
  <2>. QED  BY <1>1, <1>2, <2>1, NaturalsByInduction
<1>4. Len(ss) \in T
  BY <1>0, <1>3
<1>. QED  BY <1>0, <1>4, PrefixNext DEF T

PartsMapped(p, q, h) ==
  \A k \in 1 .. Len(p) :
    Len(p[k]) = Len(q[k]) /\ \A j \in 1 .. Len(p[k]) : q[k][j] = h[p[k][j]]

\* What is done to the members of each part is done to those of the whole.
LEMMA FlattenMapped ==
  ASSUME NEW p, IsList(p), AllLists(p), NEW q, IsList(q), AllLists(q),
         Len(p) = Len(q), NEW h, PartsMapped(p, q, h)
  PROVE  /\ Len(FlattenSeq(q)) = Len(FlattenSeq(p))
         /\ \A i \in 1 .. Len(FlattenSeq(p)) : FlattenSeq(q)[i] = h[FlattenSeq(p)[i]]
<1>. DEFINE P(m) == FlattenSeq(Prefix(p, m))
            Q(m) == FlattenSeq(Prefix(q, m))
            Alike(m) == /\ Len(Q(m)) = Len(P(m))
                        /\ \A i \in 1 .. Len(P(m)) : Q(m)[i] = h[P(m)[i]]
            T == {m \in Nat : m <= Len(p) => Alike(m)}
<1>0. Len(p) \in Nat
  BY ListLen
<1>1. 0 \in T
  <2>1. P(0) = << >> /\ Q(0) = << >>
    BY PrefixNext, FlattenEmpty
  <2>2. Len(<< >>) = 0
    OBVIOUS
  <2>. QED  BY <2>1, <2>2
<1>2. ASSUME NEW m \in T
      PROVE  m + 1 \in T
  <2>. SUFFICES ASSUME m + 1 <= Len(p)
                PROVE  Alike(m + 1)
    OBVIOUS
  <2>. DEFINE a == P(m)
              b == Q(m)
              c == p[m + 1]
              d == q[m + 1]
  <2>1. m \in Nat /\ m < Len(p) /\ m + 1 \in 1 .. Len(p)
    BY <1>0
  <2>2. Len(a) = Len(b) /\ \A i \in 1 .. Len(a) : b[i] = h[a[i]]
    BY <1>0, <2>1
  <2>3. Len(c) = Len(d) /\ \A j \in 1 .. Len(c) : d[j] = h[c[j]]
    BY <2>1 DEF PartsMapped
  <2>4. P(m + 1) = a \o c /\ Q(m + 1) = b \o d
    BY <2>1, FlattenNext
  <2>5. IsList(a) /\ IsList(b) /\ IsList(c) /\ IsList(d)
    BY <2>1, FlattenNext
  <2>. HIDE DEF a, b, c, d, P, Q
  <2>6. /\ Len(a) \in Nat /\ Len(c) \in Nat
        /\ Len(a \o c) = Len(a) + Len(c) /\ Len(b \o d) = Len(b) + Len(d)
    BY <2>5, ListLen, ListConcat
  <2>7. \A i \in 1 .. Len(a) + Len(c) :
          (a \o c)[i] = IF i <= Len(a) THEN a[i] ELSE c[i - Len(a)]
    BY ONLY <2>5, ListConcat
  <2>8. \A i \in 1 .. Len(b) + Len(d) :
          (b \o d)[i] = IF i <= Len(b) THEN b[i] ELSE d[i - Len(b)]
    BY ONLY <2>5, ListConcat
  <2>9. ASSUME NEW i \in 1 .. Len(a) + Len(c)
        PROVE  (b \o d)[i] = h[(a \o c)[i]]
    <3>1. CASE i <= Len(a)
      BY <2>2, <2>3, <2>6, <2>7, <2>8, <3>1
    <3>2. CASE ~(i <= Len(a))
      <4>1. i - Len(a) \in 1 .. Len(c)
        BY <2>6, <3>2
      <4>2. (a \o c)[i] = c[i - Len(a)] /\ (b \o d)[i] = d[i - Len(a)]
        BY <2>2, <2>3, <2>7, <2>8, <3>2
      <4>. QED  BY <2>3, <4>1, <4>2
    <3>. QED  BY <3>1, <3>2
  <2>. QED  BY <2>2, <2>3, <2>4, <2>6, <2>9
<1>. HIDE DEF T
<1>3. T = Nat
  <2>1. T \in SUBSET Nat
    BY DEF T
  <2>. QED  BY <1>1, <1>2, <2>1, NaturalsByInduction
<1>4. Alike(Len(p))
  BY <1>0, <1>3 DEF T
<1>5. P(Len(p)) = FlattenSeq(p) /\ Q(Len(p)) = FlattenSeq(q)
  BY PrefixNext
<1>. QED  BY <1>4, <1>5

\* Lists that repeat nothing and share nothing repeat nothing together.
LEMMA ConcatInjective ==
  ASSUME NEW a, IsList(a), IsInjective(a), NEW b, IsList(b), IsInjective(b),
         \A x \in ToSet(a) : x \notin ToSet(b)
  PROVE  IsInjective(a \o b)
<1>1. /\ Len(a) \in Nat /\ Len(b) \in Nat
      /\ DOMAIN a = 1 .. Len(a) /\ DOMAIN b = 1 .. Len(b)
  BY ListLen
<1>2. /\ IsList(a \o b) /\ Len(a \o b) = Len(a) + Len(b)
      /\ \A i \in 1 .. Len(a) + Len(b) :
           (a \o b)[i] = IF i <= Len(a) THEN a[i] ELSE b[i - Len(a)]
  BY ListConcat
<1>3. DOMAIN (a \o b) = 1 .. Len(a) + Len(b)
  BY <1>2, ListLen
<1>. SUFFICES ASSUME NEW i \in 1 .. Len(a) + Len(b), NEW j \in 1 .. Len(a) + Len(b),
                     (a \o b)[i] = (a \o b)[j]
              PROVE  i = j
  BY <1>3 DEF IsInjective
<1>4. \A k \in 1 .. Len(a) + Len(b) :
        /\ k <= Len(a) => (a \o b)[k] = a[k] /\ k \in DOMAIN a
        /\ ~(k <= Len(a)) => (a \o b)[k] = b[k - Len(a)] /\ k - Len(a) \in DOMAIN b
  BY <1>1, <1>2
<1>5. \A k \in DOMAIN a, l \in DOMAIN b : a[k] # b[l]
  BY DEF ToSet
<1>6. CASE i <= Len(a) /\ j <= Len(a)
  BY <1>4, <1>6 DEF IsInjective
<1>7. CASE i <= Len(a) /\ ~(j <= Len(a))
  BY <1>4, <1>5, <1>7
<1>8. CASE ~(i <= Len(a)) /\ j <= Len(a)
  BY <1>4, <1>5, <1>8
<1>9. CASE ~(i <= Len(a)) /\ ~(j <= Len(a))
  <2>1. i - Len(a) = j - Len(a)
    BY <1>4, <1>9 DEF IsInjective
  <2>. QED  BY <1>1, <2>1
<1>. QED  BY <1>6, <1>7, <1>8, <1>9

LEMMA FlattenInjective ==
  ASSUME NEW ss, IsList(ss), AllLists(ss), \A i \in DOMAIN ss : IsInjective(ss[i]),
         \A i, j \in DOMAIN ss : i # j => \A x \in ToSet(ss[i]) : x \notin ToSet(ss[j])
  PROVE  IsInjective(FlattenSeq(ss))
<1>. DEFINE Some(m, x) == \E i \in 1 .. m : x \in ToSet(ss[i])
            T == {m \in Nat : m <= Len(ss) =>
                    /\ IsInjective(FlattenSeq(Prefix(ss, m)))
                    /\ \A x \in ToSet(FlattenSeq(Prefix(ss, m))) : Some(m, x)}
<1>0. Len(ss) \in Nat /\ DOMAIN ss = 1 .. Len(ss)
  BY ListLen
<1>1. 0 \in T
  <2>1. FlattenSeq(Prefix(ss, 0)) = << >>
    BY PrefixNext, FlattenEmpty
  <2>2. ToSet(<< >>) = {} /\ IsInjective(<< >>)
    BY DEF ToSet, IsInjective
  <2>. QED  BY <2>1, <2>2
<1>2. ASSUME NEW m \in T
      PROVE  m + 1 \in T
  <2>. SUFFICES ASSUME m + 1 <= Len(ss)
                PROVE  /\ IsInjective(FlattenSeq(Prefix(ss, m + 1)))
                       /\ \A x \in ToSet(FlattenSeq(Prefix(ss, m + 1))) : Some(m + 1, x)
    OBVIOUS
  <2>. DEFINE a == FlattenSeq(Prefix(ss, m))
              b == ss[m + 1]
  <2>1. m \in Nat /\ m < Len(ss) /\ m + 1 \in DOMAIN ss /\ 1 .. m \subseteq DOMAIN ss
    BY <1>0
  <2>2. FlattenSeq(Prefix(ss, m + 1)) = a \o b /\ IsList(a) /\ IsList(b)
    BY <2>1, FlattenNext
  <2>3. IsInjective(a) /\ \A x \in ToSet(a) : Some(m, x)
    BY <2>1
  <2>4. \A i \in 1 .. m : \A x \in ToSet(ss[i]) : x \notin ToSet(b)
    BY <2>1
  <2>5. IsInjective(b) /\ \A x \in ToSet(a) : x \notin ToSet(b)
    BY <2>1, <2>3, <2>4
  <2>. HIDE DEF a, b
  <2>6. IsInjective(a \o b)
    BY <2>2, <2>3, <2>5, ConcatInjective
  <2>7. ToSet(a \o b) = ToSet(a) \cup ToSet(b)
    BY <2>2, ConcatMembers
  <2>8. \A x \in ToSet(b) : Some(m + 1, x)
    BY <2>1 DEF b
  <2>9. \A x : Some(m, x) => Some(m + 1, x)
    BY <2>1
  <2>. QED  BY <2>2, <2>3, <2>6, <2>7, <2>8, <2>9
<1>. HIDE DEF T
<1>3. T = Nat
  <2>1. T \in SUBSET Nat
    BY DEF T
  <2>. QED  BY <1>1, <1>2, <2>1, NaturalsByInduction
<1>4. Len(ss) \in T
  BY <1>0, <1>3
<1>. QED  BY <1>0, <1>4, PrefixNext DEF T

(***************************************************************************)
(* Ranks.  In a finite set with a strict total order, counting what comes  *)
(* before a member numbers the members 1, 2, ... in that order.            *)
(***************************************************************************)
Orders(R, K) ==
  /\ \A i \in K : <<i, i>> \notin R
  /\ \A i, j \in K : i # j => <<i, j>> \in R \/ <<j, i>> \in R
  /\ \A i, j, k \in K : <<i, j>> \in R /\ <<j, k>> \in R => <<i, k>> \in R

Rank1(R, K, i) == Cardinality({j \in K : <<j, i>> \in R}) + 1

LEMMA RankRises ==
  ASSUME NEW K, IsFiniteSet(K), NEW R, Orders(R, K)
  PROVE  /\ Cardinality(K) \in Nat
         /\ \A i \in K : Rank1(R, K, i) \in 1 .. Cardinality(K)
         /\ \A i, j \in K : <<i, j>> \in R => Rank1(R, K, i) < Rank1(R, K, j)
<1>. DEFINE Below(i) == {j \in K : <<j, i>> \in R}
<1>1. \A i : IsFiniteSet(Below(i)) /\ Cardinality(Below(i)) \in Nat
  <2>. TAKE i
  <2>1. Below(i) \in SUBSET K
    OBVIOUS
  <2>2. IsFiniteSet(Below(i))
    BY <2>1, FS_Subset
  <2>. QED  BY <2>2, FS_CardinalityType
<1>2. Cardinality(K) \in Nat
  BY FS_CardinalityType
<1>3. ASSUME NEW i \in K
      PROVE  Cardinality(Below(i)) + 1 \in 1 .. Cardinality(K)
  <2>1. Below(i) \in SUBSET K /\ i \in K /\ i \notin Below(i)
    BY DEF Orders
  <2>2. Cardinality(Below(i)) <= Cardinality(K) /\ Cardinality(K) # Cardinality(Below(i))
    BY <2>1, FS_Subset
  <2>. HIDE DEF Below
  <2>. QED  BY <1>1, <1>2, <2>2
<1>4. ASSUME NEW i \in K, NEW j \in K, <<i, j>> \in R
      PROVE  Cardinality(Below(i)) < Cardinality(Below(j))
  <2>1. Below(i) \in SUBSET Below(j) /\ i \in Below(j) /\ i \notin Below(i)
    BY <1>4 DEF Orders
  <2>2. /\ Cardinality(Below(i)) <= Cardinality(Below(j))
        /\ Cardinality(Below(j)) # Cardinality(Below(i))
    BY <1>1, <2>1, FS_Subset
  <2>. HIDE DEF Below
  <2>. QED  BY <1>1, <2>2
<1>. HIDE DEF Below
<1>5. \A i \in K : Cardinality(Below(i)) + 1 \in 1 .. Cardinality(K)
  BY <1>3
<1>6. \A i, j \in K : <<i, j>> \in R => Cardinality(Below(i)) + 1 < Cardinality(Below(j)) + 1
  BY <1>1, <1>4
<1>7. \A i : Rank1(R, K, i) = Cardinality(Below(i)) + 1
  BY DEF Below, Rank1
<1>. QED  BY <1>2, <1>5, <1>6, <1>7

\* So every rank is some member's, and one member's only.
LEMMA RankIsOnes ==
  ASSUME NEW K, IsFiniteSet(K), NEW R, Orders(R, K), NEW n \in 1 .. Cardinality(K)
  PROVE  /\ \E i \in K : Rank1(R, K, i) = n
         /\ \A i, j \in K : Rank1(R, K, i) = Rank1(R, K, j) => i = j
<1>. DEFINE C == 1 .. Cardinality(K)
            f == [i \in K |-> Rank1(R, K, i)]
<1>1. /\ Cardinality(K) \in Nat
      /\ \A i \in K : Rank1(R, K, i) \in C
      /\ \A i, j \in K : <<i, j>> \in R => Rank1(R, K, i) < Rank1(R, K, j)
  BY RankRises
<1>2. ASSUME NEW i \in K, NEW j \in K, Rank1(R, K, i) = Rank1(R, K, j)
      PROVE  i = j
  <2>1. Rank1(R, K, i) \in Int /\ Rank1(R, K, j) \in Int
    BY <1>1
  <2>2. <<i, j>> \notin R /\ <<j, i>> \notin R
    BY <1>1, <1>2, <2>1
  <2>. QED  BY <2>2 DEF Orders
<1>3. f \in Injection(K, C)
  <2>1. f \in [K -> C]
    BY <1>1
  <2>2. IsInjective(f)
    BY <1>2 DEF IsInjective
  <2>. QED  BY <2>1, <2>2 DEF Injection
<1>4. IsFiniteSet(C) /\ Cardinality(C) = Cardinality(K)
  BY <1>1, FS_Interval
<1>. HIDE DEF f, C
<1>5. f \in Surjection(K, C)
  BY <1>3, <1>4, FS_Injection
<1>6. \A m \in C : \E i \in K : f[i] = m
  BY <1>5 DEF Surjection
<1>. QED  BY <1>2, <1>6 DEF f, C

=============================================================================
