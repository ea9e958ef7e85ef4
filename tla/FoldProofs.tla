----------------------------- MODULE FoldProofs -----------------------------
(***************************************************************************)
(* The fold loses nothing, invents nothing, makes one row of every event   *)
(* and counts every contributor once, whatever rows it is given and in     *)
(* whatever order (enrich.fold, enrich._merge_into).                       *)
(*                                                                         *)
(* The argument: merging one more row into a base that holds the evidence  *)
(* of some rows gives one that still holds it and holds the new row's too  *)
(* (MergeKeeps, MergeTakes), and says nothing neither of them said         *)
(* (MergeSays).  The loop's invariant (FInv) is that the groups partition  *)
(* the rows seen so far by identity, and that the base holds the group's   *)
(* rows before i, each row of out those of its whole group.                *)
(*                                                                         *)
(* For the order and the counts the invariant also needs (TallyInv) that a *)
(* group lists its rows in their order, and is itself listed once, in the  *)
(* place of its first row among the first rows (Listing), so that a row    *)
(* without identity is alone; that the weights of the groups add up to the *)
(* weight of the rows seen (Weighing), which grouping one more row keeps   *)
(* because it raises one weight, or adds one; and that the base keeps the  *)
(* counters it came with until they are written (Counting).  Totals and    *)
(* lists of names are recursive functions: what they compute is shown by   *)
(* the induction of ListLemmas.                                            *)
(*                                                                         *)
(* That a fold can be continued compares two complete folds.  The loop     *)
(* computes Folded (SoFar, LoopIsFolded); a row that comes last joins what *)
(* its event has become as if it had been in the group (FoldedNext), since *)
(* merging does not read the counters and the counters continue            *)
(* (CountersContinue); and folded rows fold into themselves (FoldedOnce).  *)
(* The rest is induction over the rows that come later (FoldedAgain).      *)
(***************************************************************************)
EXTENDS Fold, FiniteSetTheorems, ListLemmas

AllCarried(r, e) == \A f \in Fields : Carried(r, e, f)

\* What a row may say about f, given the rows with its key.
Backed(rows, r) ==
  \A f \in Fields :
    LET mine == { n \in DOMAIN rows : rows[n].key = r.key } IN
    /\ Has(r, f) => \E n \in mine : rows[n].vals[f] = r.vals[f]
    /\ \A c \in ToSet(r.conflicts[f]) : \E n \in mine :
         \/ c = << rows[n].src, rows[n].vals[f] >>
         \/ c \in ToSet(rows[n].conflicts[f])

-----------------------------------------------------------------------------
(* Totals, which the model defines by a recursive function.                *)

Sums(w, f, n) == f = [k \in 0 .. n |-> IF k = 0 THEN 0 ELSE f[k - 1] + w[k]]

LEMMA SumsExist ==
  ASSUME NEW w, NEW n \in Nat
  PROVE  \E f : Sums(w, f, n)
<1>. DEFINE T == {m \in Nat : \E f : Sums(w, f, m)}
<1>1. 0 \in T
  <2>. DEFINE f == [k \in 0 .. 0 |-> 0]
  <2>1. f = [k \in 0 .. 0 |-> IF k = 0 THEN 0 ELSE f[k - 1] + w[k]]
    OBVIOUS
  <2>. HIDE DEF f
  <2>2. Sums(w, f, 0)
    BY <2>1 DEF Sums
  <2>. QED  BY <2>2
<1>2. ASSUME NEW m \in T
      PROVE  m + 1 \in T
  <2>1. m \in Nat
    OBVIOUS
  <2>2. PICK f : Sums(w, f, m)
    OBVIOUS
  <2>. DEFINE g == [k \in 0 .. m + 1 |-> IF k \in 0 .. m THEN f[k] ELSE f[k - 1] + w[k]]
  <2>3. ASSUME NEW k \in 0 .. m + 1
        PROVE  g[k] = IF k = 0 THEN 0 ELSE g[k - 1] + w[k]
    <3>1. CASE k = 0
      BY <2>1, <2>2, <3>1 DEF Sums
    <3>2. CASE k # 0 /\ k \in 0 .. m
      <4>1. k - 1 \in 0 .. m /\ k - 1 \in 0 .. m + 1
        BY <2>1, <3>2
      <4>2. f[k] = f[k - 1] + w[k]
        BY <2>2, <3>2 DEF Sums
      <4>. QED  BY <3>2, <4>1, <4>2
    <3>3. CASE k # 0 /\ k \notin 0 .. m
      <4>1. k - 1 \in 0 .. m /\ k - 1 \in 0 .. m + 1
        BY <2>1, <3>3
      <4>. QED  BY <3>3, <4>1
    <3>. QED  BY <3>1, <3>2, <3>3
  <2>4. g = [k \in 0 .. m + 1 |-> g[k]]
    OBVIOUS
  <2>. HIDE DEF g
  <2>5. Sums(w, g, m + 1)
    BY <2>3, <2>4 DEF Sums
  <2>. QED  BY <2>1, <2>5
<1>. HIDE DEF T
<1>3. T = Nat
  <2>1. T \in SUBSET Nat
    BY DEF T
  <2>. QED  BY <1>1, <1>2, <2>1, NaturalsByInduction
<1>. QED  BY <1>3 DEF T

LEMMA SumsAgree ==
  ASSUME NEW w, NEW v, NEW f, NEW g, NEW n \in Nat, NEW k \in Nat,
         Sums(w, f, n), Sums(v, g, k), k <= n, \A m \in 1 .. k : w[m] = v[m]
  PROVE  f[k] = g[k]
<1>. DEFINE T == {m \in Nat : m <= k => f[m] = g[m]}
<1>1. 0 \in T
  BY DEF Sums
<1>2. ASSUME NEW m \in T
      PROVE  m + 1 \in T
  <2>. SUFFICES ASSUME m + 1 <= k
                PROVE  f[m + 1] = g[m + 1]
    OBVIOUS
  <2>1. /\ m \in Nat /\ m + 1 \in 0 .. n /\ m + 1 \in 0 .. k /\ m + 1 # 0 /\ (m + 1) - 1 = m
        /\ m + 1 \in 1 .. k /\ f[m] = g[m]
    OBVIOUS
  <2>2. /\ f[m + 1] = IF m + 1 = 0 THEN 0 ELSE f[(m + 1) - 1] + w[m + 1]
        /\ g[m + 1] = IF m + 1 = 0 THEN 0 ELSE g[(m + 1) - 1] + v[m + 1]
    BY <2>1 DEF Sums
  <2>. QED  BY <2>1, <2>2
<1>. HIDE DEF T
<1>3. T = Nat
  <2>1. T \in SUBSET Nat
    BY DEF T
  <2>. QED  BY <1>1, <1>2, <2>1, NaturalsByInduction
<1>. QED  BY <1>3 DEF T

LEMMA TotalIs ==
  ASSUME NEW w, Len(w) \in Nat
  PROVE  \E f : Sums(w, f, Len(w)) /\ Total(w) = f[Len(w)]
<1>. DEFINE upTo == CHOOSE f : f = [k \in 0 .. Len(w) |-> IF k = 0 THEN 0 ELSE f[k - 1] + w[k]]
<1>1. \E f : f = [k \in 0 .. Len(w) |-> IF k = 0 THEN 0 ELSE f[k - 1] + w[k]]
  BY SumsExist DEF Sums
<1>2. upTo = [k \in 0 .. Len(w) |-> IF k = 0 THEN 0 ELSE upTo[k - 1] + w[k]]
  BY <1>1
<1>3. Total(w) = upTo[Len(w)]
  BY DEF Total
<1>. HIDE DEF upTo
<1>4. Sums(w, upTo, Len(w))
  BY <1>2 DEF Sums
<1>. QED  BY <1>3, <1>4

LEMMA TotalNone == Total(<< >>) = 0
<1>1. Len(<< >>) = 0
  OBVIOUS
<1>2. PICK f : Sums(<< >>, f, 0) /\ Total(<< >>) = f[0]
  BY <1>1, TotalIs
<1>. QED  BY <1>2 DEF Sums

LEMMA TotalAppend ==
  ASSUME NEW w \in Seq(Nat), NEW x \in Nat
  PROVE  Total(Append(w, x)) = Total(w) + x
<1>. DEFINE v == Append(w, x)  n == Len(w)
<1>1. n \in Nat /\ Len(v) = n + 1 /\ v[n + 1] = x /\ \A m \in 1 .. n : v[m] = w[m]
  OBVIOUS
<1>. HIDE DEF v, n
<1>2. PICK f : Sums(w, f, n) /\ Total(w) = f[n]
  BY <1>1, TotalIs DEF n
<1>3. PICK g : Sums(v, g, n + 1) /\ Total(v) = g[n + 1]
  <2>1. Len(v) \in Nat
    BY <1>1
  <2>. QED  BY <1>1, <2>1, TotalIs
<1>4. g[n] = f[n]
  <2>1. n + 1 \in Nat /\ n <= n + 1
    BY <1>1
  <2>. QED  BY <1>1, <1>2, <1>3, <2>1, SumsAgree
<1>5. g[n + 1] = g[n] + x
  <2>1. n + 1 \in 0 .. n + 1 /\ n + 1 # 0 /\ (n + 1) - 1 = n
    BY <1>1
  <2>2. g[n + 1] = IF n + 1 = 0 THEN 0 ELSE g[(n + 1) - 1] + v[n + 1]
    BY <1>3, <2>1 DEF Sums
  <2>. QED  BY <1>1, <2>1, <2>2
<1>. QED  BY <1>2, <1>3, <1>4, <1>5 DEF v

LEMMA TotalNext ==
  ASSUME NEW w \in Seq(Nat), NEW n \in Nat, n < Len(w)
  PROVE  /\ Total(Prefix(w, n + 1)) = Total(Prefix(w, n)) + w[n + 1]
         /\ Prefix(w, n) \in Seq(Nat) /\ w[n + 1] \in Nat
<1>1. IsList(w)
  BY ListOf
<1>2. Prefix(w, n + 1) = Append(Prefix(w, n), w[n + 1])
  BY <1>1, PrefixNext
<1>3. w[n + 1] \in Nat /\ Prefix(w, n) \in Seq(Nat)
  BY DEF Prefix
<1>. QED  BY <1>2, <1>3, TotalAppend

LEMMA TotalType ==
  ASSUME NEW w \in Seq(Nat)
  PROVE  Total(w) \in Nat
<1>. DEFINE T == {m \in Nat : m <= Len(w) => Total(Prefix(w, m)) \in Nat}
<1>0. IsList(w) /\ Len(w) \in Nat
  BY ListOf
<1>1. 0 \in T
  BY <1>0, PrefixNext, TotalNone
<1>2. ASSUME NEW m \in T
      PROVE  m + 1 \in T
  <2>. SUFFICES ASSUME m + 1 <= Len(w)
                PROVE  Total(Prefix(w, m + 1)) \in Nat
    OBVIOUS
  <2>1. m \in Nat /\ m < Len(w) /\ Total(Prefix(w, m)) \in Nat
    BY <1>0
  <2>2. Total(Prefix(w, m + 1)) = Total(Prefix(w, m)) + w[m + 1] /\ w[m + 1] \in Nat
    BY <2>1, TotalNext
  <2>. QED  BY <2>1, <2>2
<1>. HIDE DEF T
<1>3. T = Nat
  <2>1. T \in SUBSET Nat
    BY DEF T
  <2>. QED  BY <1>1, <1>2, <2>1, NaturalsByInduction
<1>4. Total(Prefix(w, Len(w))) \in Nat
  BY <1>0, <1>3 DEF T
<1>. QED  BY <1>0, <1>4, PrefixNext

\* Raising one number raises the total by as much.
LEMMA TotalRaised ==
  ASSUME NEW w \in Seq(Nat), NEW v \in Seq(Nat), Len(v) = Len(w),
         NEW k \in 1 .. Len(w), NEW x \in Nat, v[k] = w[k] + x,
         \A m \in 1 .. Len(w) : m # k => v[m] = w[m]
  PROVE  Total(v) = Total(w) + x
<1>. DEFINE T == {m \in Nat : m <= Len(w) =>
                    Total(Prefix(v, m)) = Total(Prefix(w, m)) + (IF k <= m THEN x ELSE 0)}
<1>0. IsList(w) /\ IsList(v) /\ Len(w) \in Nat
  BY ListOf
<1>1. 0 \in T
  BY <1>0, PrefixNext, TotalNone
<1>2. ASSUME NEW m \in T
      PROVE  m + 1 \in T
  <2>. SUFFICES ASSUME m + 1 <= Len(w)
                PROVE  Total(Prefix(v, m + 1)) =
                         Total(Prefix(w, m + 1)) + (IF k <= m + 1 THEN x ELSE 0)
    OBVIOUS
  <2>1. /\ m \in Nat /\ m < Len(w)
        /\ Total(Prefix(v, m)) = Total(Prefix(w, m)) + (IF k <= m THEN x ELSE 0)
    BY <1>0
  <2>2. /\ Total(Prefix(w, m + 1)) = Total(Prefix(w, m)) + w[m + 1] /\ w[m + 1] \in Nat
        /\ Total(Prefix(w, m)) \in Nat
    BY <2>1, TotalNext, TotalType
  <2>3. Total(Prefix(v, m + 1)) = Total(Prefix(v, m)) + v[m + 1]
    BY <2>1, TotalNext
  <2>. DEFINE a == Total(Prefix(w, m))  b == Total(Prefix(v, m))
  <2>4. a \in Nat /\ (k <= m => b = a + x) /\ (~(k <= m) => b = a)
    BY <2>1, <2>2
  <2>5. /\ Total(Prefix(w, m + 1)) = a + w[m + 1]
        /\ Total(Prefix(v, m + 1)) = b + v[m + 1]
    BY <2>2, <2>3
  <2>. HIDE DEF a, b
  <2>6. CASE m + 1 = k
    <3>1. v[m + 1] = w[m + 1] + x
      BY <2>6
    <3>2. b = a /\ k <= m + 1
      BY <2>1, <2>4, <2>6
    <3>3. a + (w[m + 1] + x) = (a + w[m + 1]) + x
      BY <2>2, <2>4
    <3>. QED  BY <2>5, <3>1, <3>2, <3>3
  <2>7. CASE m + 1 # k
    <3>1. v[m + 1] = w[m + 1]
      BY <2>1, <2>7
    <3>2. k <= m + 1 <=> k <= m
      BY <2>1, <2>7
    <3>3. CASE k <= m
      <4>1. (a + x) + w[m + 1] = (a + w[m + 1]) + x
        BY <2>2, <2>4
      <4>. QED  BY <2>4, <2>5, <3>1, <3>2, <3>3, <4>1
    <3>4. CASE ~(k <= m)
      <4>1. (a + w[m + 1]) + 0 = a + w[m + 1]
        BY <2>2, <2>4
      <4>. QED  BY <2>4, <2>5, <3>1, <3>2, <3>4, <4>1
    <3>. QED  BY <3>3, <3>4
  <2>. QED  BY <2>6, <2>7
<1>. HIDE DEF T
<1>3. T = Nat
  <2>1. T \in SUBSET Nat
    BY DEF T
  <2>. QED  BY <1>1, <1>2, <2>1, NaturalsByInduction
<1>4. Total(Prefix(v, Len(w))) = Total(Prefix(w, Len(w))) + x
  BY <1>0, <1>3 DEF T
<1>. QED  BY <1>0, <1>4, PrefixNext

-----------------------------------------------------------------------------
(* What rows weigh, and whom they name.                                    *)

LEMMA WeightType ==
  ASSUME NEW r \in Row
  PROVE  Weight(r) \in Nat /\ 1 <= Weight(r)
BY DEF Weight, Row

LEMMA WeightOfType ==
  ASSUME NEW rows \in Seq(Row)
  PROVE  WeightOf(rows) \in Nat
<1>1. [ n \in DOMAIN rows |-> Weight(rows[n]) ] \in Seq(Nat)
  BY WeightType
<1>. QED  BY <1>1, TotalType DEF WeightOf

LEMMA WeightOfAppend ==
  ASSUME NEW rows \in Seq(Row), NEW r \in Row
  PROVE  WeightOf(Append(rows, r)) = WeightOf(rows) + Weight(r)
<1>. DEFINE w == [ n \in DOMAIN rows |-> Weight(rows[n]) ]
            more == Append(rows, r)
            v == [ n \in DOMAIN more |-> Weight(more[n]) ]
<1>1. w \in Seq(Nat) /\ Len(w) = Len(rows) /\ Len(rows) \in Nat
  BY WeightType
<1>2. Weight(r) \in Nat
  BY WeightType
<1>3. /\ more \in Seq(Row) /\ Len(more) = Len(rows) + 1 /\ DOMAIN more = 1 .. Len(rows) + 1
      /\ more[Len(rows) + 1] = r /\ \A m \in 1 .. Len(rows) : more[m] = rows[m]
  BY <1>1
<1>. HIDE DEF more
<1>4. v = Append(w, Weight(r))
  <2>1. /\ Append(w, Weight(r)) \in Seq(Nat) /\ Len(Append(w, Weight(r))) = Len(rows) + 1
        /\ Append(w, Weight(r))[Len(rows) + 1] = Weight(r)
        /\ \A m \in 1 .. Len(rows) : Append(w, Weight(r))[m] = Weight(rows[m])
    BY <1>1, <1>2
  <2>2. v \in Seq(Nat) /\ Len(v) = Len(rows) + 1
    BY <1>1, <1>3, WeightType
  <2>3. \A m \in 1 .. Len(rows) + 1 : v[m] = Append(w, Weight(r))[m]
    BY <1>1, <1>3, <2>1
  <2>. HIDE DEF v, w
  <2>. QED  BY <2>1, <2>2, <2>3
<1>. HIDE DEF v, w
<1>5. Total(v) = Total(w) + Weight(r)
  BY <1>1, <1>2, <1>4, TotalAppend
<1>. QED  BY <1>5 DEF WeightOf, v, w, more

LEMMA WeightOfNone == WeightOf(<< >>) = 0
<1>1. [ n \in DOMAIN << >> |-> Weight(<< >>[n]) ] = << >>
  OBVIOUS
<1>. QED  BY <1>1, TotalNone DEF WeightOf

LEMMA WeightOfOne ==
  ASSUME NEW r \in Row
  PROVE  WeightOf(<< r >>) = Weight(r)
<1>1. << r >> = Append(<< >>, r) /\ << >> \in Seq(Row)
  OBVIOUS
<1>2. WeightOf(Append(<< >>, r)) = WeightOf(<< >>) + Weight(r)
  BY <1>1, WeightOfAppend
<1>. QED  BY <1>1, <1>2, WeightOfNone, WeightType

\* Something of its own is in every row.
LEMMA WeightOfSome ==
  ASSUME NEW rows \in Seq(Row), rows # << >>
  PROVE  WeightOf(rows) # 0
<1>. DEFINE n == Len(rows)
            front == Prefix(rows, n - 1)
<1>1. n \in Nat /\ n - 1 \in Nat /\ n - 1 < n /\ n \in DOMAIN rows /\ (n - 1) + 1 = n
  OBVIOUS
<1>2. IsList(rows)
  BY ListOf
<1>3. front \in Seq(Row) /\ rows[n] \in Row
  BY <1>1 DEF Prefix
<1>4. Prefix(rows, n) = Append(Prefix(rows, n - 1), rows[(n - 1) + 1])
  <2>. HIDE DEF n
  <2>1. \A m \in Nat : m < Len(rows) => Prefix(rows, m + 1) = Append(Prefix(rows, m), rows[m + 1])
    BY <1>2, PrefixNext
  <2>2. n = Len(rows)
    BY DEF n
  <2>. QED  BY <1>1, <2>1, <2>2
<1>5. rows = Append(front, rows[n])
  <2>1. Prefix(rows, n) = rows
    BY <1>2, PrefixNext
  <2>. QED  BY <1>1, <1>4, <2>1
<1>. HIDE DEF n, front
<1>6. WeightOf(rows) = WeightOf(front) + Weight(rows[n])
  BY <1>3, <1>5, WeightOfAppend
<1>. QED  BY <1>3, <1>6, WeightOfType, WeightType

\* Names: each row's own, one row after the other.
LEMMA ContributorsType ==
  ASSUME NEW r \in Row
  PROVE  ContributorsOf(r) \in Seq(Contributor)
<1>1. << r.src, r.ref >> \in Contributor /\ r.by \in Seq(Contributor)
  BY DEF Row, Contributor
<1>. QED  BY <1>1 DEF ContributorsOf

LEMMA NamedParts ==
  ASSUME NEW rows \in Seq(Row)
  PROVE  LET parts == [ n \in DOMAIN rows |-> ContributorsOf(rows[n]) ] IN
         /\ parts \in Seq(Seq(Contributor)) /\ IsList(parts) /\ AllLists(parts)
         /\ Len(parts) = Len(rows)
<1>. DEFINE parts == [ n \in DOMAIN rows |-> ContributorsOf(rows[n]) ]
<1>1. parts \in Seq(Seq(Contributor)) /\ Len(parts) = Len(rows)
  <2>. DEFINE S == Seq(Contributor)
  <2>1. \A n \in DOMAIN rows : ContributorsOf(rows[n]) \in S
    BY ContributorsType
  <2>. HIDE DEF S
  <2>2. parts \in Seq(S) /\ Len(parts) = Len(rows)
    BY <2>1
  <2>. QED  BY <2>2 DEF S
<1>2. \A n \in DOMAIN parts : parts[n] \in Seq(Contributor)
  BY <1>1
<1>. HIDE DEF parts
<1>3. IsList(parts) /\ AllLists(parts)
  BY <1>1, <1>2, ListOf DEF AllLists
<1>. QED  BY <1>1, <1>3 DEF parts

LEMMA NamedMembers ==
  ASSUME NEW rows \in Seq(Row)
  PROVE  /\ \A c \in ToSet(Named(rows)) : \E n \in DOMAIN rows : c \in ToSet(ContributorsOf(rows[n]))
         /\ \A n \in DOMAIN rows : ToSet(ContributorsOf(rows[n])) \subseteq ToSet(Named(rows))
<1>. DEFINE parts == [ n \in DOMAIN rows |-> ContributorsOf(rows[n]) ]
<1>1. IsList(parts) /\ AllLists(parts)
  BY NamedParts
<1>2. DOMAIN parts = DOMAIN rows /\ \A n \in DOMAIN rows : parts[n] = ContributorsOf(rows[n])
  OBVIOUS
<1>3. Named(rows) = FlattenSeq(parts)
  BY DEF Named
<1>. HIDE DEF parts
<1>4. ASSUME NEW c \in ToSet(Named(rows))
      PROVE  \E n \in DOMAIN rows : c \in ToSet(ContributorsOf(rows[n]))
  <2>1. \E n \in DOMAIN parts : c \in ToSet(parts[n])
    BY <1>1, <1>3, <1>4, FlattenMembers
  <2>. QED  BY <1>2, <2>1
<1>5. ASSUME NEW n \in DOMAIN rows, NEW c \in ToSet(ContributorsOf(rows[n]))
      PROVE  c \in ToSet(Named(rows))
  <2>1. n \in DOMAIN parts /\ c \in ToSet(parts[n])
    BY <1>2, <1>5
  <2>. QED  BY <1>1, <1>3, <2>1, FlattenHas
<1>. QED  BY <1>4, <1>5

LEMMA NamedType ==
  ASSUME NEW rows \in Seq(Row)
  PROVE  Named(rows) \in Seq(Contributor)
<1>. DEFINE parts == [ n \in DOMAIN rows |-> ContributorsOf(rows[n]) ]
<1>1. IsList(parts) /\ AllLists(parts)
  BY NamedParts
<1>2. Named(rows) = FlattenSeq(parts)
  BY DEF Named
<1>. HIDE DEF parts
<1>3. IsList(Named(rows))
  BY <1>1, <1>2, FlattenList
<1>4. ASSUME NEW c \in ToSet(Named(rows))
      PROVE  c \in Contributor
  <2>1. PICK n \in DOMAIN rows : c \in ToSet(ContributorsOf(rows[n]))
    BY <1>4, NamedMembers
  <2>2. ContributorsOf(rows[n]) \in Seq(Contributor)
    BY ContributorsType
  <2>. QED  BY <2>1, <2>2 DEF ToSet
<1>. QED  BY <1>3, <1>4 DEF IsList

LEMMA NamedAppend ==
  ASSUME NEW rows \in Seq(Row), NEW r \in Row
  PROVE  Named(Append(rows, r)) = Named(rows) \o ContributorsOf(r)
<1>. DEFINE w == [ n \in DOMAIN rows |-> ContributorsOf(rows[n]) ]
            more == Append(rows, r)
            v == [ n \in DOMAIN more |-> ContributorsOf(more[n]) ]
            mine == ContributorsOf(r)
            S == Seq(Contributor)
<1>1. w \in Seq(S) /\ Len(w) = Len(rows) /\ Len(rows) \in Nat /\ IsList(w)
  BY NamedParts
<1>2. mine \in S
  BY ContributorsType
<1>3. /\ more \in Seq(Row) /\ Len(more) = Len(rows) + 1 /\ DOMAIN more = 1 .. Len(rows) + 1
      /\ more[Len(rows) + 1] = r /\ \A m \in 1 .. Len(rows) : more[m] = rows[m]
  BY <1>1
<1>4. \A m \in 1 .. Len(rows) : w[m] = ContributorsOf(rows[m])
  OBVIOUS
<1>. HIDE DEF more, S, w
<1>5. v = Append(w, mine)
  <2>. HIDE DEF mine
  <2>1. /\ Append(w, mine) \in Seq(S) /\ Len(Append(w, mine)) = Len(rows) + 1
        /\ Append(w, mine)[Len(rows) + 1] = mine
        /\ \A m \in 1 .. Len(rows) : Append(w, mine)[m] = w[m]
    BY <1>1, <1>2
  <2>2. v \in Seq(S) /\ Len(v) = Len(rows) + 1
    <3>1. \A n \in DOMAIN more : ContributorsOf(more[n]) \in S
      BY <1>3, ContributorsType DEF S
    <3>. QED  BY <1>1, <1>3, <3>1
  <2>3. \A m \in 1 .. Len(rows) + 1 : v[m] = Append(w, mine)[m]
    BY <1>1, <1>3, <1>4, <2>1 DEF mine
  <2>. HIDE DEF v
  <2>. QED  BY <2>1, <2>2, <2>3
<1>. HIDE DEF v
<1>6. FlattenSeq(Append(w, mine)) = FlattenSeq(w) \o mine
  <2>1. IsList(mine)
    BY <1>2, ListOf DEF S
  <2>. HIDE DEF mine
  <2>. QED  BY <1>1, <2>1, FlattenAppend
<1>. QED  BY <1>5, <1>6 DEF Named, v, more, w, mine

LEMMA NamedNone == Named(<< >>) = << >>
<1>1. [ n \in DOMAIN << >> |-> ContributorsOf(<< >>[n]) ] = << >>
  OBVIOUS
<1>. QED  BY <1>1, FlattenEmpty DEF Named

\* As many names as were counted, up to the cap.
UpTo(number) == IF number < Cap THEN number ELSE Cap
Tallied(rows) == \A n \in DOMAIN rows : Len(rows[n].by) = UpTo(rows[n].count)

LEMMA ContributorsLen ==
  ASSUME NEW r \in Row, Len(r.by) = UpTo(r.count)
  PROVE  /\ UpTo(Len(ContributorsOf(r))) = UpTo(Weight(r))
         /\ Len(ContributorsOf(r)) <= Weight(r)
<1>1. Cap \in Nat /\ r.count \in Nat /\ r.by \in Seq(Contributor)
  BY FoldAssumption DEF Row
<1>2. CASE r.by = << >>
  <2>1. Len(ContributorsOf(r)) = 1
    BY <1>2 DEF ContributorsOf
  <2>2. Len(r.by) = 0
    BY <1>2
  <2>3. r.count = 0 \/ Cap = 0
    BY <1>1, <2>2 DEF UpTo
  <2>. QED  BY <1>1, <2>1, <2>3 DEF UpTo, Weight
<1>3. CASE r.by # << >>
  <2>1. Len(ContributorsOf(r)) = Len(r.by) /\ Len(r.by) # 0
    BY <1>1, <1>3 DEF ContributorsOf
  <2>2. r.count # 0
    BY <1>1, <2>1 DEF UpTo
  <2>3. Weight(r) = r.count
    BY <2>2 DEF Weight
  <2>. QED  BY <1>1, <2>1, <2>3 DEF UpTo
<1>. QED  BY <1>2, <1>3

LEMMA NamedLen ==
  ASSUME NEW rows \in Seq(Row), Tallied(rows)
  PROVE  /\ UpTo(Len(Named(rows))) = UpTo(WeightOf(rows))
         /\ Len(Named(rows)) <= WeightOf(rows)
<1>. DEFINE Fit(part) == /\ UpTo(Len(Named(part))) = UpTo(WeightOf(part))
                         /\ Len(Named(part)) <= WeightOf(part)
            T == {m \in Nat : m <= Len(rows) => Fit(Prefix(rows, m))}
<1>0. IsList(rows) /\ Len(rows) \in Nat
  BY ListOf
<1>1. 0 \in T
  <2>1. Len(<< >>) = 0
    OBVIOUS
  <2>. QED  BY <1>0, <2>1, PrefixNext, NamedNone, WeightOfNone
<1>2. ASSUME NEW m \in T
      PROVE  m + 1 \in T
  <2>. SUFFICES ASSUME m + 1 <= Len(rows)
                PROVE  Fit(Prefix(rows, m + 1))
    OBVIOUS
  <2>. DEFINE p == Prefix(rows, m)
              r == rows[m + 1]
  <2>1. /\ m \in Nat /\ m < Len(rows)
        /\ UpTo(Len(Named(p))) = UpTo(WeightOf(p)) /\ Len(Named(p)) <= WeightOf(p)
    BY <1>0
  <2>2. p \in Seq(Row) /\ r \in Row /\ m + 1 \in DOMAIN rows
    BY <2>1 DEF Prefix
  <2>3. Prefix(rows, m + 1) = Append(p, r)
    BY <1>0, <2>1, PrefixNext
  <2>4. Len(r.by) = UpTo(r.count)
    BY <2>2 DEF Tallied
  <2>. HIDE DEF p, r
  <2>5. /\ Named(Append(p, r)) = Named(p) \o ContributorsOf(r)
        /\ WeightOf(Append(p, r)) = WeightOf(p) + Weight(r)
    BY <2>2, NamedAppend, WeightOfAppend
  <2>6. Named(p) \in Seq(Contributor) /\ ContributorsOf(r) \in Seq(Contributor)
    BY <2>2, NamedType, ContributorsType
  <2>7. /\ Len(Named(p) \o ContributorsOf(r)) = Len(Named(p)) + Len(ContributorsOf(r))
        /\ Len(Named(p)) \in Nat /\ Len(ContributorsOf(r)) \in Nat
    BY <2>6
  <2>8. /\ UpTo(Len(ContributorsOf(r))) = UpTo(Weight(r))
        /\ Len(ContributorsOf(r)) <= Weight(r)
    BY <2>2, <2>4, ContributorsLen
  <2>9. WeightOf(p) \in Nat /\ Weight(r) \in Nat /\ Cap \in Nat
    BY <2>2, WeightOfType, WeightType, FoldAssumption
  <2>10. \A a, b, c, d \in Nat : UpTo(a) = UpTo(b) /\ UpTo(c) = UpTo(d) => UpTo(a + c) = UpTo(b + d)
    BY <2>9 DEF UpTo
  <2>11. UpTo(Len(Named(p)) + Len(ContributorsOf(r))) = UpTo(WeightOf(p) + Weight(r))
    BY <2>1, <2>7, <2>8, <2>9, <2>10
  <2>12. Len(Named(p)) + Len(ContributorsOf(r)) <= WeightOf(p) + Weight(r)
    BY <2>1, <2>7, <2>8, <2>9
  <2>. QED  BY <2>3, <2>5, <2>7, <2>11, <2>12
<1>. HIDE DEF T
<1>3. T = Nat
  <2>1. T \in SUBSET Nat
    BY DEF T
  <2>. QED  BY <1>1, <1>2, <2>1, NaturalsByInduction
<1>4. Fit(Prefix(rows, Len(rows)))
  BY <1>0, <1>3 DEF T
<1>. QED  BY <1>0, <1>4, PrefixNext

LEMMA FrontIs ==
  ASSUME NEW S, NEW s \in Seq(S), NEW k \in Nat, k <= Len(s)
  PROVE  /\ SubSeq(s, 1, k) \in Seq(S) /\ Len(SubSeq(s, 1, k)) = k
         /\ ToSet(SubSeq(s, 1, k)) \subseteq ToSet(s)
         /\ k = Len(s) => SubSeq(s, 1, k) = s
<1>. DEFINE sub == SubSeq(s, 1, k)
<1>1. /\ sub \in Seq(S) /\ Len(sub) = k /\ DOMAIN sub = 1 .. k
      /\ \A n \in 1 .. k : n \in DOMAIN s /\ sub[n] = s[n]
  OBVIOUS
<1>. HIDE DEF sub
<1>2. ToSet(sub) \subseteq ToSet(s)
  BY <1>1 DEF ToSet
<1>3. k = Len(s) => sub = s
  BY <1>1
<1>. QED  BY <1>1, <1>2, <1>3 DEF sub

LEMMA UpToIs ==
  ASSUME NEW number \in Nat
  PROVE  /\ UpTo(number) \in Nat /\ UpTo(number) <= number
         /\ number <= Cap => UpTo(number) = number
BY FoldAssumption DEF UpTo

LEMMA CappedIs ==
  ASSUME NEW names \in Seq(Contributor)
  PROVE  /\ Capped(names) \in Seq(Contributor) /\ Len(Capped(names)) = UpTo(Len(names))
         /\ ToSet(Capped(names)) \subseteq ToSet(names)
         /\ Len(names) <= Cap => Capped(names) = names
<1>1. Capped(names) = SubSeq(names, 1, UpTo(Len(names)))
  BY DEF UpTo, Capped
<1>2. Len(names) \in Nat
  OBVIOUS
<1>3. /\ UpTo(Len(names)) \in Nat /\ UpTo(Len(names)) <= Len(names)
      /\ Len(names) <= Cap => UpTo(Len(names)) = Len(names)
  BY <1>2, UpToIs
<1>. QED  BY <1>1, <1>3, FrontIs

\* max() finds one of the rows: the first of the most populated.
LEMMA FullestIs ==
  ASSUME NEW rows \in Seq(Row), rows # << >>
  PROVE  \E n \in DOMAIN rows : Fullest(rows) = rows[n]
<1>. DEFINE most == Cardinality(Columns)
            P(n) == Populated(rows[n])
            room == { most - P(n) : n \in DOMAIN rows }
<1>1. IsFiniteSet(Columns) /\ most \in Nat
  BY FoldAssumption, FS_CardinalityType
<1>2. ASSUME NEW n \in DOMAIN rows
      PROVE  P(n) \in Nat /\ P(n) <= most
  <2>. DEFINE full == { f \in Columns : Has(rows[n], f) }
  <2>1. full \in SUBSET Columns
    OBVIOUS
  <2>2. P(n) = Cardinality(full)
    BY DEF Populated
  <2>. HIDE DEF full, P
  <2>3. IsFiniteSet(full) /\ Cardinality(full) <= most
    BY <1>1, <2>1, FS_Subset
  <2>4. Cardinality(full) \in Nat
    BY <2>3, FS_CardinalityType
  <2>. QED  BY <2>2, <2>3, <2>4
<1>3. 1 \in DOMAIN rows /\ DOMAIN rows \subseteq Nat
  OBVIOUS
<1>. HIDE DEF most, P
<1>4. \E n \in DOMAIN rows : \A m \in DOMAIN rows : P(m) <= P(n)
  <2>1. room \in SUBSET Nat /\ room # {}
    BY <1>1, <1>2, <1>3
  <2>2. PICK x \in room : \A y \in room : x <= y
    BY <2>1, LeastNatural
  <2>3. PICK n \in DOMAIN rows : x = most - P(n)
    OBVIOUS
  <2>4. ASSUME NEW m \in DOMAIN rows PROVE P(m) <= P(n)
    <3>1. most - P(n) <= most - P(m)
      BY <2>2, <2>3
    <3>. QED  BY <1>1, <1>2, <3>1
  <2>. QED  BY <2>4
<1>. DEFINE best == { n \in DOMAIN rows : \A m \in DOMAIN rows : P(m) <= P(n) }
<1>5. PICK n \in best : \A m \in best : n <= m
  <2>1. best \in SUBSET Nat /\ best # {}
    BY <1>3, <1>4
  <2>. HIDE DEF best
  <2>. QED  BY <2>1, LeastNatural
<1>6. n \in DOMAIN rows /\ \A m \in DOMAIN rows : P(m) <= P(n)
  OBVIOUS
<1>7. ASSUME NEW m \in 1 .. n - 1 PROVE P(m) < P(n)
  <2>1. n \in 1 .. Len(rows) /\ Len(rows) \in Nat /\ m \in DOMAIN rows /\ ~(n <= m)
    BY <1>6
  <2>2. m \notin best
    BY <1>5, <2>1
  <2>3. PICK k \in DOMAIN rows : ~(P(k) <= P(m))
    BY <2>1, <2>2
  <2>. QED  BY <1>2, <1>6, <2>1, <2>3
<1>8. \E k \in DOMAIN rows : /\ \A m \in DOMAIN rows : Populated(rows[m]) <= Populated(rows[k])
                             /\ \A m \in 1 .. k - 1 : Populated(rows[m]) < Populated(rows[k])
  BY <1>6, <1>7 DEF P
<1>. QED  BY <1>8 DEF Fullest

-----------------------------------------------------------------------------
(* Merging.                                                                *)

LEMMA AppendIndex ==
  ASSUME NEW S, NEW s \in Seq(S), NEW x \in S
  PROVE  /\ Append(s, x) \in Seq(S) /\ Append(s, x) # << >>
         /\ \A m \in DOMAIN Append(s, x) :
              Append(s, x)[m] = x \/ \E n \in DOMAIN s : s[n] = Append(s, x)[m]
         /\ \E m \in DOMAIN Append(s, x) : Append(s, x)[m] = x
         /\ \A n \in DOMAIN s : n \in DOMAIN Append(s, x) /\ Append(s, x)[n] = s[n]
<1>1. /\ Append(s, x) \in Seq(S) /\ Len(Append(s, x)) = Len(s) + 1 /\ Len(s) \in Nat
      /\ \A n \in 1 .. Len(s) : Append(s, x)[n] = s[n]
      /\ Append(s, x)[Len(s) + 1] = x
  OBVIOUS
<1>2. DOMAIN s = 1 .. Len(s) /\ DOMAIN Append(s, x) = 1 .. Len(s) + 1
  BY <1>1
<1>3. \A m \in DOMAIN Append(s, x) : m = Len(s) + 1 \/ m \in DOMAIN s
  BY <1>1, <1>2
<1>. QED  BY <1>1, <1>2, <1>3

LEMMA AppendSet ==
  ASSUME NEW S, NEW s \in Seq(S), NEW x \in S
  PROVE  /\ Append(s, x) \in Seq(S)
         /\ ToSet(Append(s, x)) = ToSet(s) \cup {x}
<1>1. /\ Append(s, x) \in Seq(S) /\ Len(Append(s, x)) = Len(s) + 1 /\ Len(s) \in Nat
      /\ \A n \in 1 .. Len(s) : Append(s, x)[n] = s[n]
      /\ Append(s, x)[Len(s) + 1] = x
  OBVIOUS
<1>2. ToSet(s) = { s[n] : n \in 1 .. Len(s) }
  BY DEF ToSet
<1>3. ToSet(Append(s, x)) = { Append(s, x)[n] : n \in 1 .. Len(s) + 1 }
  BY <1>1 DEF ToSet
<1>4. 1 .. Len(s) + 1 = (1 .. Len(s)) \cup {Len(s) + 1}
  BY <1>1
<1>. QED  BY <1>1, <1>2, <1>3, <1>4

LEMMA MergeType ==
  ASSUME NEW r \in Row, NEW other \in Row
  PROVE  /\ MergeInto(r, other) \in Row
         /\ MergeInto(r, other).key = r.key
         /\ MergeInto(r, other).vals =
              [ f \in Fields |-> IF Has(r, f) THEN r.vals[f] ELSE other.vals[f] ]
         /\ MergeInto(r, other).conflicts =
              [ f \in Fields |-> IF Disagree(r, other, f)
                                 THEN Append(r.conflicts[f], << other.src, other.vals[f] >>)
                                 ELSE r.conflicts[f] ]
<1> DEFINE srcs == IF other.src \in ToSet(SourcesOf(r)) THEN SourcesOf(r)
                   ELSE Append(SourcesOf(r), other.src)
           vals == [ f \in Fields |-> IF Has(r, f) THEN r.vals[f] ELSE other.vals[f] ]
           conflicts == [ f \in Fields |->
             IF Disagree(r, other, f) THEN Append(r.conflicts[f], << other.src, other.vals[f] >>)
             ELSE r.conflicts[f] ]
<1>1. srcs \in Seq(Artefacts)
  <2>1. SourcesOf(r) \in Seq(Artefacts)
    BY DEF SourcesOf, Row
  <2>. QED  BY <2>1 DEF Row
<1>2. vals \in [Fields -> Values \cup {Missing}]
  BY DEF Row
<1>3. conflicts \in [Fields -> Seq(Claim)]
  <2>. SUFFICES ASSUME NEW f \in Fields PROVE conflicts[f] \in Seq(Claim)
    OBVIOUS
  <2>1. r.conflicts[f] \in Seq(Claim)
    BY DEF Row
  <2>2. Disagree(r, other, f) => << other.src, other.vals[f] >> \in Claim
    BY DEF Disagree, Has, Claim, Row
  <2>. QED  BY <2>1, <2>2
<1>4. MergeInto(r, other) = [ r EXCEPT !.srcs = srcs, !.vals = vals, !.conflicts = conflicts ]
  BY DEF MergeInto
<1>. HIDE DEF srcs, vals, conflicts
<1>5. /\ MergeInto(r, other) \in Row /\ MergeInto(r, other).key = r.key
      /\ MergeInto(r, other).vals = vals /\ MergeInto(r, other).conflicts = conflicts
  BY <1>1, <1>2, <1>3, <1>4 DEF Row
<1>. QED  BY <1>5 DEF vals, conflicts

LEMMA MergeVals ==
  ASSUME NEW r \in Row, NEW other \in Row, NEW f \in Fields
  PROVE  MergeInto(r, other).vals[f] = IF Has(r, f) THEN r.vals[f] ELSE other.vals[f]
<1>1. MergeInto(r, other).vals = [ g \in Fields |-> IF Has(r, g) THEN r.vals[g] ELSE other.vals[g] ]
  BY MergeType
<1>. HIDE DEF MergeInto
<1>. QED  BY <1>1

LEMMA MergeConflicts ==
  ASSUME NEW r \in Row, NEW other \in Row, NEW f \in Fields
  PROVE  /\ Disagree(r, other, f) =>
              ToSet(MergeInto(r, other).conflicts[f]) =
                ToSet(r.conflicts[f]) \cup { << other.src, other.vals[f] >> }
         /\ ~Disagree(r, other, f) =>
              ToSet(MergeInto(r, other).conflicts[f]) = ToSet(r.conflicts[f])
<1>1. MergeInto(r, other).conflicts =
        [ g \in Fields |-> IF Disagree(r, other, g)
                           THEN Append(r.conflicts[g], << other.src, other.vals[g] >>)
                           ELSE r.conflicts[g] ]
  BY MergeType
<1>2. MergeInto(r, other).conflicts[f] =
        IF Disagree(r, other, f) THEN Append(r.conflicts[f], << other.src, other.vals[f] >>)
        ELSE r.conflicts[f]
  BY <1>1
<1>3. CASE Disagree(r, other, f)
  <2>1. r.conflicts[f] \in Seq(Claim) /\ << other.src, other.vals[f] >> \in Claim
    BY <1>3 DEF Row, Claim, Disagree, Has
  <2>2. ToSet(Append(r.conflicts[f], << other.src, other.vals[f] >>)) =
          ToSet(r.conflicts[f]) \cup { << other.src, other.vals[f] >> }
    BY <2>1, AppendSet
  <2>. QED  BY <1>2, <1>3, <2>2
<1>4. CASE ~Disagree(r, other, f)
  BY <1>2, <1>4
<1>. QED  BY <1>3, <1>4

\* What the base held before the merge it holds after it.
LEMMA MergeKeeps ==
  ASSUME NEW r \in Row, NEW other \in Row, NEW e \in Row, AllCarried(r, e)
  PROVE  AllCarried(MergeInto(r, other), e)
<1>. SUFFICES ASSUME NEW f \in Fields, Has(e, f)
              PROVE  /\ Has(MergeInto(r, other), f)
                     /\ \/ Text[MergeInto(r, other).vals[f]] = Text[e.vals[f]]
                        \/ << e.src, e.vals[f] >> \in ToSet(MergeInto(r, other).conflicts[f])
  BY DEF AllCarried, Carried
<1>1. /\ Has(r, f)
      /\ \/ Text[r.vals[f]] = Text[e.vals[f]]
         \/ << e.src, e.vals[f] >> \in ToSet(r.conflicts[f])
  BY DEF AllCarried, Carried
<1>2. MergeInto(r, other).vals[f] = r.vals[f]
  BY <1>1, MergeVals
<1>3. ToSet(r.conflicts[f]) \subseteq ToSet(MergeInto(r, other).conflicts[f])
  <2>1. CASE Disagree(r, other, f)
    <3>1. ToSet(MergeInto(r, other).conflicts[f]) =
            ToSet(r.conflicts[f]) \cup { << other.src, other.vals[f] >> }
      BY <2>1, MergeConflicts
    <3>. HIDE DEF ToSet, MergeInto
    <3>. QED  BY <3>1
  <2>2. CASE ~Disagree(r, other, f)
    BY <2>2, MergeConflicts
  <2>. QED  BY <2>1, <2>2
<1>. QED  BY <1>1, <1>2, <1>3 DEF Has

\* The row that is merged is held afterwards: filled in, agreed with, or noted.
LEMMA MergeTakes ==
  ASSUME NEW r \in Row, NEW other \in Row
  PROVE  AllCarried(MergeInto(r, other), other)
<1>. SUFFICES ASSUME NEW f \in Fields, Has(other, f)
              PROVE  /\ Has(MergeInto(r, other), f)
                     /\ \/ Text[MergeInto(r, other).vals[f]] = Text[other.vals[f]]
                        \/ << other.src, other.vals[f] >> \in ToSet(MergeInto(r, other).conflicts[f])
  BY DEF AllCarried, Carried
<1>1. CASE ~Has(r, f)
  <2>1. MergeInto(r, other).vals[f] = other.vals[f]
    BY <1>1, MergeVals
  <2>. QED  BY <2>1 DEF Has
<1>2. CASE Has(r, f)
  <2>1. MergeInto(r, other).vals[f] = r.vals[f]
    BY <1>2, MergeVals
  <2>2. CASE Text[r.vals[f]] = Text[other.vals[f]]
    BY <1>2, <2>1, <2>2 DEF Has
  <2>3. CASE Text[r.vals[f]] # Text[other.vals[f]]
    <3>1. Disagree(r, other, f)
      BY <1>2, <2>3 DEF Disagree
    <3>2. << other.src, other.vals[f] >> \in ToSet(MergeInto(r, other).conflicts[f])
      BY <3>1, MergeConflicts
    <3>. QED  BY <1>2, <2>1, <3>2 DEF Has
  <2>. QED  BY <2>2, <2>3
<1>. QED  BY <1>1, <1>2

\* A merged row says only what the two rows of the event said.
LEMMA MergeSays ==
  ASSUME events \in Seq(Row), NEW r \in Row, Backed(events, r),
         NEW n \in DOMAIN events, events[n].key = r.key
  PROVE  Backed(events, MergeInto(r, events[n]))
<1> DEFINE merged == MergeInto(r, events[n])
           mine == { x \in DOMAIN events : events[x].key = r.key }
<1>1. events[n] \in Row
  OBVIOUS
<1>2. merged.key = r.key
  BY <1>1, MergeType
<1>. SUFFICES ASSUME NEW f \in Fields
              PROVE  /\ Has(merged, f) => \E x \in mine : events[x].vals[f] = merged.vals[f]
                     /\ \A c \in ToSet(merged.conflicts[f]) : \E x \in mine :
                          \/ c = << events[x].src, events[x].vals[f] >>
                          \/ c \in ToSet(events[x].conflicts[f])
  BY <1>2 DEF Backed
<1>3. /\ Has(r, f) => \E x \in mine : events[x].vals[f] = r.vals[f]
      /\ \A c \in ToSet(r.conflicts[f]) : \E x \in mine :
           \/ c = << events[x].src, events[x].vals[f] >>
           \/ c \in ToSet(events[x].conflicts[f])
  BY DEF Backed
<1>4. n \in mine
  OBVIOUS
<1>5. merged.vals[f] = IF Has(r, f) THEN r.vals[f] ELSE events[n].vals[f]
  BY <1>1, MergeVals
<1>6. ToSet(merged.conflicts[f]) \subseteq
        ToSet(r.conflicts[f]) \cup { << events[n].src, events[n].vals[f] >> }
  BY <1>1, MergeConflicts
<1>. HIDE DEF merged, mine
<1>. QED  BY <1>3, <1>4, <1>5, <1>6

\* A row holds its own evidence and says only that.
LEMMA OwnRow ==
  ASSUME events \in Seq(Row), NEW n \in DOMAIN events
  PROVE  AllCarried(events[n], events[n]) /\ Backed(events, events[n])
BY DEF AllCarried, Carried, Backed

-----------------------------------------------------------------------------
(* The loop's invariant.                                                   *)

FType ==
  /\ events \in Inputs /\ events \in Seq(Row)
  /\ mode \in {"additive", "most_populated"}
  /\ pc \in {"group", "open", "merge", "done"}
  /\ i \in Nat \ {0}
  /\ \A q \in DOMAIN groups : groups[q] \in Seq(DOMAIN events) /\ groups[q] # << >>
  /\ DOMAIN groups \subseteq Identities
  /\ order \in Seq(Identities)
  /\ pc = "merge" => base \in Row
  /\ out \in Seq(Row)

\* The groups partition the rows grouped so far, and order lists them all.
Grouping ==
  /\ \A q \in DOMAIN groups : \A x \in DOMAIN groups[q] : Identity(events, groups[q][x]) = q
  /\ \A n \in DOMAIN events : (pc = "group" => n < i) =>
       /\ Identity(events, n) \in DOMAIN groups
       /\ \E x \in DOMAIN groups[Identity(events, n)] : groups[Identity(events, n)][x] = n
  /\ \A x \in DOMAIN order : order[x] \in DOMAIN groups
  /\ \A q \in DOMAIN groups : \E x \in DOMAIN order : order[x] = q

Progress ==
  /\ pc = "group" => out = << >>
  /\ Len(out) <= Len(order)
  /\ pc = "merge" => Len(out) < Len(order) /\ mode = "additive" /\ 2 <= i
  /\ pc = "done" => Len(out) = Len(order)

\* r is the row of identity q that the group's rows were folded into.
Holds(rows, group, r, q) ==
  /\ r.key = q[1] /\ Backed(rows, r)
  /\ \A x \in DOMAIN group : AllCarried(r, rows[group[x]])

Holding ==
  mode = "additive" =>
    /\ \A m \in DOMAIN out : Holds(events, groups[order[m]], out[m], order[m])
    /\ pc = "merge" =>
         /\ base.key = order[Len(out) + 1][1] /\ Backed(events, base)
         /\ \A x \in DOMAIN Current : x < i => AllCarried(base, events[Current[x]])

FInv == FType /\ Grouping /\ Progress /\ Holding

LEMMA InitFInv == Init => FInv
<1>. SUFFICES ASSUME Init PROVE FInv
  OBVIOUS
<1>1. FType
  BY FoldAssumption DEF Init, FType
<1>2. Grouping /\ Progress /\ Holding
  BY <1>1 DEF Init, Grouping, Progress, Holding, FType
<1>. QED  BY <1>1, <1>2 DEF FInv

\* What a group's turn offers: its rows are rows of the event it is named for.
LEMMA CurrentGroup ==
  ASSUME FInv, Len(out) < Len(order)
  PROVE  /\ Len(out) + 1 \in DOMAIN order /\ order[Len(out) + 1] \in DOMAIN groups
         /\ Current \in Seq(DOMAIN events) /\ Current # << >> /\ 1 \in DOMAIN Current
         /\ \A x \in DOMAIN Current :
              /\ Current[x] \in DOMAIN events
              /\ events[Current[x]] \in Row
              /\ events[Current[x]].key = order[Len(out) + 1][1]
<1>1. Len(out) + 1 \in DOMAIN order /\ order[Len(out) + 1] \in DOMAIN groups
  BY DEF FInv, FType, Grouping
<1>2. Current \in Seq(DOMAIN events) /\ Current # << >>
  BY <1>1 DEF Current, FInv, FType
<1>3. 1 \in DOMAIN Current
  BY <1>2
<1>4. ASSUME NEW x \in DOMAIN Current
      PROVE  /\ Current[x] \in DOMAIN events
             /\ events[Current[x]] \in Row
             /\ events[Current[x]].key = order[Len(out) + 1][1]
  <2>1. Current[x] \in DOMAIN events
    BY <1>2, <1>4
  <2>2. Identity(events, Current[x]) = order[Len(out) + 1]
    BY <1>1, <1>4 DEF Current, FInv, Grouping
  <2>. QED  BY <2>1, <2>2 DEF Identity, FInv, FType
<1>. QED  BY <1>1, <1>2, <1>3, <1>4

\* What the step that groups row i does to the group and to the list.
LEMMA GroupStep ==
  ASSUME FInv, Group
  PROVE  LET q == Identity(events, i) IN
         /\ i \in DOMAIN events /\ events \in Seq(Row) /\ out = << >> /\ pc = "group"
         /\ UNCHANGED << events, mode, pc, base, out >> /\ i' = i + 1
         /\ q \in Identities
         /\ DOMAIN groups' = DOMAIN groups \cup {q}
         /\ \A p \in DOMAIN groups : p # q => groups'[p] = groups[p]
         /\ groups'[q] = IF q \in DOMAIN groups THEN Append(groups[q], i) ELSE << i >>
         /\ order' = IF q \in DOMAIN groups THEN order ELSE Append(order, q)
<1> DEFINE q == Identity(events, i)
<1>1. /\ i \in DOMAIN events /\ events \in Seq(Row) /\ out = << >> /\ pc = "group"
      /\ UNCHANGED << events, mode, pc, base, out >> /\ i' = i + 1
  BY DEF FInv, FType, Progress, Group
<1>2. q \in Identities
  <2>1. events[i] \in Row /\ i \in Nat
    BY <1>1
  <2>2. events[i].key \in Keys \cup {NoIdentity}
    BY <2>1 DEF Row
  <2>3. (IF events[i].key = NoIdentity THEN i ELSE 0) \in Nat
    BY <2>1
  <2>. QED  BY <2>2, <2>3 DEF Identity, Identities
<1>3. /\ DOMAIN groups' = DOMAIN groups \cup {q}
      /\ \A p \in DOMAIN groups : p # q => groups'[p] = groups[p]
      /\ groups'[q] = IF q \in DOMAIN groups THEN Append(groups[q], i) ELSE << i >>
  BY DEF Group
<1>4. order' = IF q \in DOMAIN groups THEN order ELSE Append(order, q)
  BY DEF Group
<1>. QED  BY <1>1, <1>2, <1>3, <1>4

LEMMA GroupFInv ==
  ASSUME FInv, Group
  PROVE  FInv'
<1> DEFINE q == Identity(events, i)
<1>1. /\ i \in DOMAIN events /\ events \in Seq(Row) /\ out = << >> /\ pc = "group"
      /\ events' = events /\ out' = out /\ pc' = pc /\ mode' = mode /\ base' = base /\ i' = i + 1
  BY GroupStep
<1>2. q \in Identities
  BY GroupStep
<1>3. /\ DOMAIN groups' = DOMAIN groups \cup {q}
      /\ \A p \in DOMAIN groups : p # q => groups'[p] = groups[p]
      /\ groups'[q] = IF q \in DOMAIN groups THEN Append(groups[q], i) ELSE << i >>
  BY GroupStep
<1>4. order' = IF q \in DOMAIN groups THEN order ELSE Append(order, q)
  BY GroupStep
<1>5. \A n \in DOMAIN events : Identity(events, n)' = Identity(events, n)
  BY <1>1 DEF Identity
<1>. HIDE DEF q
<1>6. /\ groups'[q] \in Seq(DOMAIN events) /\ groups'[q] # << >>
      /\ \A x \in DOMAIN groups'[q] :
           groups'[q][x] = i \/ (q \in DOMAIN groups /\ \E y \in DOMAIN groups[q] : groups[q][y] = groups'[q][x])
      /\ \E x \in DOMAIN groups'[q] : groups'[q][x] = i
      /\ q \in DOMAIN groups => \A y \in DOMAIN groups[q] : \E x \in DOMAIN groups'[q] : groups'[q][x] = groups[q][y]
  <2>1. CASE q \in DOMAIN groups
    <3>1. groups[q] \in Seq(DOMAIN events)
      BY <2>1 DEF FInv, FType
    <3>2. groups'[q] = Append(groups[q], i)
      BY <1>3, <2>1
    <3>3. /\ Append(groups[q], i) \in Seq(DOMAIN events) /\ Append(groups[q], i) # << >>
          /\ \A x \in DOMAIN Append(groups[q], i) :
               Append(groups[q], i)[x] = i
                 \/ \E y \in DOMAIN groups[q] : groups[q][y] = Append(groups[q], i)[x]
          /\ \E x \in DOMAIN Append(groups[q], i) : Append(groups[q], i)[x] = i
          /\ \A y \in DOMAIN groups[q] :
               y \in DOMAIN Append(groups[q], i) /\ Append(groups[q], i)[y] = groups[q][y]
      <4>1. i \in DOMAIN events
        BY <1>1
      <4>. DEFINE old == groups[q]  rows == DOMAIN events
      <4>2. old \in Seq(rows) /\ i \in rows
        BY <3>1, <4>1
      <4>. HIDE DEF old, rows
      <4>3. /\ Append(old, i) \in Seq(rows) /\ Append(old, i) # << >>
            /\ \A x \in DOMAIN Append(old, i) :
                 Append(old, i)[x] = i \/ \E y \in DOMAIN old : old[y] = Append(old, i)[x]
            /\ \E x \in DOMAIN Append(old, i) : Append(old, i)[x] = i
            /\ \A y \in DOMAIN old : /\ y \in DOMAIN Append(old, i)
                                     /\ Append(old, i)[y] = old[y]
        BY <4>2, AppendIndex
      <4>. QED  BY <4>3 DEF old, rows
    <3>4. \A y \in DOMAIN groups[q] : \E x \in DOMAIN Append(groups[q], i) :
            Append(groups[q], i)[x] = groups[q][y]
      BY <3>3
    <3>. HIDE DEF Group
    <3>. QED  BY <2>1, <3>2, <3>3, <3>4, Zenon
  <2>2. CASE q \notin DOMAIN groups
    BY <1>1, <1>3, <2>2
  <2>. QED  BY <2>1, <2>2
<1>7. /\ order' \in Seq(Identities)
      /\ \A x \in DOMAIN order' : order'[x] = q \/ (x \in DOMAIN order /\ order'[x] = order[x])
      /\ \A x \in DOMAIN order : x \in DOMAIN order' /\ order'[x] = order[x]
      /\ q \notin DOMAIN groups => \E x \in DOMAIN order' : order'[x] = q
  <2>1. order \in Seq(Identities)
    BY DEF FInv, FType
  <2>. QED  BY <1>2, <1>4, <2>1
<1>8. FType'
  <2>1. \A p \in DOMAIN groups' : groups'[p] \in Seq(DOMAIN events) /\ groups'[p] # << >>
    BY <1>3, <1>6 DEF FInv, FType
  <2>. QED  BY <1>1, <1>2, <1>3, <1>7, <2>1 DEF FInv, FType
<1>9. Grouping'
  <2>1. \A p \in DOMAIN groups' : \A x \in DOMAIN groups'[p] : Identity(events, groups'[p][x]) = p
    <3>. SUFFICES ASSUME NEW p \in DOMAIN groups', NEW x \in DOMAIN groups'[p]
                  PROVE  Identity(events, groups'[p][x]) = p
      OBVIOUS
    <3>1. CASE p # q
      BY <1>3, <3>1 DEF FInv, Grouping
    <3>2. CASE p = q
      BY <1>6, <3>2 DEF FInv, Grouping, q
    <3>. QED  BY <3>1, <3>2
  <2>2. \A n \in DOMAIN events : n < i + 1 =>
          /\ Identity(events, n) \in DOMAIN groups'
          /\ \E x \in DOMAIN groups'[Identity(events, n)] : groups'[Identity(events, n)][x] = n
    <3>. SUFFICES ASSUME NEW n \in DOMAIN events, n < i + 1
                  PROVE  /\ Identity(events, n) \in DOMAIN groups'
                         /\ \E x \in DOMAIN groups'[Identity(events, n)] :
                              groups'[Identity(events, n)][x] = n
      OBVIOUS
    <3>1. CASE n = i
      BY <1>3, <1>6, <3>1 DEF q
    <3>2. CASE n # i
      <4>1. n < i
        BY <1>1, <3>2 DEF FInv, FType
      <4>2. /\ Identity(events, n) \in DOMAIN groups
            /\ \E x \in DOMAIN groups[Identity(events, n)] : groups[Identity(events, n)][x] = n
        BY <1>1, <4>1 DEF FInv, Grouping
      <4>3. CASE Identity(events, n) = q
        <5>1. PICK y \in DOMAIN groups[q] : groups[q][y] = n
          BY <4>2, <4>3
        <5>2. \E x \in DOMAIN groups'[q] : groups'[q][x] = n
          BY <1>6, <4>2, <4>3, <5>1
        <5>. QED  BY <1>3, <4>3, <5>2
      <4>4. CASE Identity(events, n) # q
        BY <1>3, <4>2, <4>4
      <4>. QED  BY <4>3, <4>4
    <3>. QED  BY <3>1, <3>2
  <2>3. \A x \in DOMAIN order' : order'[x] \in DOMAIN groups'
    BY <1>3, <1>7 DEF FInv, Grouping
  <2>4. \A p \in DOMAIN groups' : \E x \in DOMAIN order' : order'[x] = p
    BY <1>3, <1>7 DEF FInv, Grouping
  <2>. QED  BY <1>1, <1>5, <2>1, <2>2, <2>3, <2>4 DEF Grouping, Identity
<1>10. Progress' /\ Holding'
  BY <1>1, <1>7, <1>8 DEF Progress, Holding, FType
<1>. QED  BY <1>8, <1>9, <1>10 DEF FInv

\* Leaving the groups alone keeps them a partition.
LEMMA GroupingKept ==
  ASSUME FInv, pc # "group" \/ i > Len(events), pc' # "group",
         UNCHANGED << events, groups, order >>
  PROVE  Grouping'
<1>1. \A n \in DOMAIN events : pc = "group" => n < i
  BY DEF FInv, FType
<1>2. \A n \in DOMAIN events :
        /\ Identity(events, n) \in DOMAIN groups
        /\ \E x \in DOMAIN groups[Identity(events, n)] : groups[Identity(events, n)][x] = n
  BY <1>1 DEF FInv, Grouping
<1>. QED  BY <1>2 DEF FInv, Grouping, Identity

\* One more finished group: what the row put out holds is all that must be shown.
LEMMA OutGrows ==
  ASSUME FInv, Len(out) < Len(order), NEW r \in Row,
         mode = "additive" => Holds(events, Current, r, order[Len(out) + 1]),
         out' = Append(out, r), pc \in {"open", "merge"}, pc' = "open",
         i' \in Nat \ {0}, UNCHANGED << events, mode, groups, order, base >>
  PROVE  FInv'
<1>1. out \in Seq(Row) /\ order \in Seq(Identities)
  BY DEF FInv, FType
<1>2. /\ out' \in Seq(Row) /\ Len(out') = Len(out) + 1 /\ Len(out) \in Nat /\ Len(order) \in Nat
      /\ \A m \in DOMAIN out' : (m \in DOMAIN out /\ out'[m] = out[m]) \/ (m = Len(out) + 1 /\ out'[m] = r)
  BY <1>1
<1>3. FType'
  BY <1>2 DEF FInv, FType
<1>4. Grouping'
  BY GroupingKept
<1>5. Progress'
  BY <1>2 DEF FInv, Progress
<1>6. Holding'
  <2>1. mode = "additive" => \A m \in DOMAIN out' : Holds(events, groups[order[m]], out'[m], order[m])
    BY <1>2 DEF FInv, Holding, Current
  <2>. QED  BY <2>1 DEF Holding
<1>. QED  BY <1>3, <1>4, <1>5, <1>6 DEF FInv

LEMMA KeepLoneFInv ==
  ASSUME FInv, KeepLone
  PROVE  FInv'
<1>1. /\ Len(out) < Len(order) /\ Len(Current) = 1 /\ pc = "open" /\ pc' = "open"
      /\ out' = Append(out, events[Current[1]]) /\ i' = i
      /\ UNCHANGED << events, mode, groups, order, base >>
  BY DEF KeepLone
<1>2. /\ Current[1] \in DOMAIN events /\ events[Current[1]] \in Row
      /\ events[Current[1]].key = order[Len(out) + 1][1]
      /\ Current \in Seq(DOMAIN events)
  BY <1>1, CurrentGroup
<1>3. events[Current[1]] \in Row
  BY <1>2
<1>4. AllCarried(events[Current[1]], events[Current[1]]) /\ Backed(events, events[Current[1]])
  BY <1>2, OwnRow DEF FInv, FType
<1>5. DOMAIN Current = {1}
  BY <1>1, <1>2
<1>6. Holds(events, Current, events[Current[1]], order[Len(out) + 1])
  BY <1>2, <1>4, <1>5 DEF Holds, Current
<1>7. i' \in Nat \ {0}
  BY <1>1 DEF FInv, FType
<1>. QED  BY <1>1, <1>3, <1>6, <1>7, OutGrows

LEMMA KeepFullestFInv ==
  ASSUME FInv, KeepFullest
  PROVE  FInv'
<1>1. /\ Len(out) < Len(order) /\ pc = "open" /\ pc' = "open" /\ mode = "most_populated"
      /\ out' = Append(out, Fullest(RowsOf(Current))) /\ i' = i
      /\ UNCHANGED << events, mode, groups, order, base >>
  BY DEF KeepFullest
<1>2. /\ Current \in Seq(DOMAIN events)
      /\ \A x \in DOMAIN Current : events[Current[x]] \in Row
  BY <1>1, CurrentGroup
<1>3. RowsOf(Current) \in Seq(Row)
  BY <1>2 DEF RowsOf
<1>4. Fullest(RowsOf(Current)) \in Row
  <2>1. RowsOf(Current) # << >>
    BY <1>1, CurrentGroup DEF RowsOf
  <2>. QED  BY <1>3, <2>1, FullestIs
<1>5. i' \in Nat \ {0}
  BY <1>1 DEF FInv, FType
<1>. QED  BY <1>1, <1>4, <1>5, OutGrows

\* The merge loop: the base holds the rows of its group before i.
LEMMA OpenGroupFInv ==
  ASSUME FInv, OpenGroup
  PROVE  FInv'
<1>1. /\ Len(out) < Len(order) /\ pc = "open" /\ pc' = "merge" /\ mode = "additive"
      /\ base' = events[Current[1]] /\ i' = 2
      /\ UNCHANGED << events, mode, groups, order, out >>
  BY DEF OpenGroup
<1>2. /\ Current[1] \in DOMAIN events /\ events[Current[1]] \in Row
      /\ events[Current[1]].key = order[Len(out) + 1][1]
      /\ Current \in Seq(DOMAIN events)
  BY <1>1, CurrentGroup
<1>3. FType'
  BY <1>1, <1>2 DEF FInv, FType
<1>4. Grouping'
  BY <1>1, GroupingKept
<1>5. Progress'
  BY <1>1 DEF FInv, Progress
<1>6. Holding'
  <2>1. AllCarried(base', events[Current[1]]) /\ Backed(events, base')
    BY <1>1, <1>2, OwnRow DEF FInv, FType
  <2>2. \A x \in DOMAIN Current : x < 2 => x = 1
    BY <1>2
  <2>3. \A m \in DOMAIN out : Holds(events, groups[order[m]], out[m], order[m])
    BY <1>1 DEF FInv, Holding
  <2>4. Current' = Current
    BY <1>1 DEF Current
  <2>. QED  BY <1>1, <1>2, <2>1, <2>2, <2>3, <2>4 DEF Holding
<1>. QED  BY <1>3, <1>4, <1>5, <1>6 DEF FInv

LEMMA MergeRowFInv ==
  ASSUME FInv, MergeRow
  PROVE  FInv'
<1>1. /\ pc = "merge" /\ pc' = "merge" /\ mode = "additive" /\ Len(out) < Len(order)
      /\ base' = MergeInto(base, events[Current[i]]) /\ i <= Len(Current) /\ i' = i + 1
      /\ UNCHANGED << events, mode, groups, order, out >>
  BY DEF MergeRow, FInv, Progress
<1>2. /\ Current \in Seq(DOMAIN events)
      /\ \A x \in DOMAIN Current : /\ Current[x] \in DOMAIN events
                                   /\ events[Current[x]] \in Row
                                   /\ events[Current[x]].key = order[Len(out) + 1][1]
  BY <1>1, CurrentGroup
<1>3. i \in DOMAIN Current /\ i \in Nat /\ 2 <= i
  BY <1>1, <1>2 DEF FInv, FType, Progress
<1>4. base \in Row /\ events[Current[i]] \in Row /\ events \in Seq(Row)
  BY <1>1, <1>2, <1>3 DEF FInv, FType
<1>5. base' \in Row /\ base'.key = base.key
  BY <1>1, <1>4, MergeType
<1>6. /\ base.key = order[Len(out) + 1][1] /\ Backed(events, base)
      /\ \A x \in DOMAIN Current : x < i => AllCarried(base, events[Current[x]])
      /\ \A m \in DOMAIN out : Holds(events, groups[order[m]], out[m], order[m])
  BY <1>1 DEF FInv, Holding
<1>7. FType'
  BY <1>1, <1>3, <1>5 DEF FInv, FType
<1>8. Grouping'
  BY <1>1, GroupingKept
<1>9. Progress'
  BY <1>1, <1>3 DEF FInv, Progress
<1>10. Backed(events, base')
  BY <1>1, <1>2, <1>3, <1>4, <1>6, MergeSays
<1>11. ASSUME NEW x \in DOMAIN Current, x < i + 1
       PROVE  AllCarried(base', events[Current[x]])
  <2>1. CASE x = i
    BY <1>1, <1>4, <2>1, MergeTakes
  <2>2. CASE x # i
    <3>1. x < i
      BY <1>2, <1>3, <1>11, <2>2
    <3>2. AllCarried(base, events[Current[x]]) /\ events[Current[x]] \in Row
      BY <1>2, <1>6, <3>1
    <3>. QED  BY <1>1, <1>4, <3>2, MergeKeeps
  <2>. QED  BY <2>1, <2>2
<1>12. Holding'
  <2>1. Current' = Current
    BY <1>1 DEF Current
  <2>. QED  BY <1>1, <1>5, <1>6, <1>10, <1>11, <2>1 DEF Holding
<1>. QED  BY <1>7, <1>8, <1>9, <1>12 DEF FInv

LEMMA CloseGroupFInv ==
  ASSUME FInv, CloseGroup
  PROVE  FInv'
<1> DEFINE rows == [RowsOf(Current) EXCEPT ![1] = base]
<1>1. /\ pc = "merge" /\ pc' = "open" /\ mode = "additive" /\ Len(out) < Len(order)
      /\ i > Len(Current) /\ i' = i /\ out' = Append(out, Seal(base, rows))
      /\ UNCHANGED << events, mode, groups, order, base >>
  BY DEF CloseGroup, FInv, Progress
<1>2. /\ Current \in Seq(DOMAIN events) /\ 1 \in DOMAIN Current
      /\ \A x \in DOMAIN Current : events[Current[x]] \in Row
  BY <1>1, CurrentGroup
<1>3. base \in Row
  BY <1>1 DEF FInv, FType
<1>4. rows \in Seq(Row)
  <2>1. RowsOf(Current) \in Seq(Row) /\ DOMAIN RowsOf(Current) = DOMAIN Current
    BY <1>2 DEF RowsOf
  <2>. HIDE DEF RowsOf
  <2>. QED  BY <1>2, <1>3, <2>1
<1>. HIDE DEF rows
<1>5. WeightOf(rows) \in Nat /\ Capped(Named(rows)) \in Seq(Contributor)
  BY <1>4, WeightOfType, NamedType, CappedIs
<1>6. /\ Seal(base, rows) \in Row
      /\ Seal(base, rows).key = base.key /\ Seal(base, rows).vals = base.vals
      /\ Seal(base, rows).conflicts = base.conflicts
  BY <1>3, <1>5 DEF Seal, Row
<1>7. Holds(events, Current, Seal(base, rows), order[Len(out) + 1])
  <2>1. /\ base.key = order[Len(out) + 1][1] /\ Backed(events, base)
        /\ \A x \in DOMAIN Current : x < i => AllCarried(base, events[Current[x]])
    BY <1>1 DEF FInv, Holding
  <2>2. \A x \in DOMAIN Current : AllCarried(base, events[Current[x]])
    <3>1. \A x \in DOMAIN Current : x < i
      BY <1>1, <1>2 DEF FInv, FType
    <3>. QED  BY <2>1, <3>1
  <2>3. Backed(events, Seal(base, rows))
    BY <1>6, <2>1 DEF Backed, Has
  <2>4. \A x \in DOMAIN Current : AllCarried(Seal(base, rows), events[Current[x]])
    BY <1>6, <2>2 DEF AllCarried, Carried, Has
  <2>. QED  BY <1>6, <2>1, <2>3, <2>4 DEF Holds, Current
<1>8. i' \in Nat \ {0}
  BY <1>1 DEF FInv, FType
<1>. QED  BY <1>1, <1>6, <1>7, <1>8, OutGrows

-----------------------------------------------------------------------------
LEMMA NextFInv == FInv /\ [Next]_vars => FInv'
<1>. SUFFICES ASSUME FInv, [Next]_vars PROVE FInv'
  OBVIOUS
<1>1. CASE UNCHANGED vars
  BY <1>1 DEF vars, FInv, FType, Grouping, Progress, Holding, Current, Identity
<1>2. CASE Grouped
  <2>1. Grouping'
    BY <1>2, GroupingKept DEF Grouped
  <2>2. FType' /\ Progress' /\ Holding'
    BY <1>2 DEF Grouped, FInv, FType, Progress, Holding
  <2>. QED  BY <2>1, <2>2 DEF FInv
<1>3. CASE Finish
  <2>1. Grouping'
    BY <1>3, GroupingKept DEF Finish
  <2>2. FType' /\ Progress'
    BY <1>3 DEF Finish, FInv, FType, Progress
  <2>3. Holding'
    BY <1>3 DEF Finish, FInv, Holding
  <2>. QED  BY <2>1, <2>2, <2>3 DEF FInv
<1>. QED
  BY <1>1, <1>2, <1>3, GroupFInv, KeepLoneFInv, KeepFullestFInv, OpenGroupFInv,
     MergeRowFInv, CloseGroupFInv DEF Next

LEMMA Invariance == Spec => []FInv
BY InitFInv, NextFInv, PTL DEF Spec

\* Whatever rows are folded, every value of every row is in the row its event
\* became: as its value, or as a conflict that names its artefact.
THEOREM FoldLosesNothing == Spec => []NothingLost
<1>1. FInv => NothingLost
  <2>. SUFFICES ASSUME FInv, pc = "done", mode = "additive", NEW n \in DOMAIN events
                PROVE  \E m \in DOMAIN out : /\ out[m].key = events[n].key
                                             /\ AllCarried(out[m], events[n])
    BY DEF NothingLost, AllCarried
  <2> DEFINE q == Identity(events, n)
  <2>1. /\ q \in DOMAIN groups
        /\ \E x \in DOMAIN groups[q] : groups[q][x] = n
    BY DEF FInv, Grouping
  <2>2. PICK m \in DOMAIN order : order[m] = q
    BY <2>1 DEF FInv, Grouping
  <2>3. m \in DOMAIN out
    BY <2>2 DEF FInv, FType, Progress
  <2>4. Holds(events, groups[q], out[m], q)
    BY <2>2, <2>3 DEF FInv, Holding
  <2>5. q[1] = events[n].key
    BY DEF Identity
  <2>. HIDE DEF q
  <2>. QED  BY <2>1, <2>3, <2>4, <2>5 DEF Holds
<1>. QED  BY <1>1, Invariance, PTL

\* Whatever rows are folded, a folded row says only what its contributors said,
\* and attributes each disagreeing value to an artefact that reported it.
THEOREM FoldInventsNothing == Spec => []NothingInvented
<1>1. FInv => NothingInvented
  BY DEF FInv, Holding, Holds, Backed, NothingInvented
<1>. QED  BY <1>1, Invariance, PTL

-----------------------------------------------------------------------------
(* One row per event, and the contributors counted: the order in which the *)
(* groups are listed, and what they weigh.                                 *)

\* The rows that have been grouped.
Seen == IF pc = "group" THEN i - 1 ELSE Len(events)

\* Groups list rows in their order, and are listed once, by their first rows.
Listing ==
  /\ Seen <= Len(events)
  /\ \A q \in DOMAIN groups : \A x \in DOMAIN groups[q] :
       /\ groups[q][x] <= Seen
       /\ \A y \in DOMAIN groups[q] : x < y => groups[q][x] < groups[q][y]
  /\ \A x, y \in DOMAIN order : order[x] = order[y] => x = y
  /\ Len(order) = Cardinality(Firsts(Seen))
  /\ \A n \in Firsts(Seen) : /\ Cardinality(Firsts(n)) \in DOMAIN order
                             /\ order[Cardinality(Firsts(n))] = Identity(events, n)

\* What was put out is a row of its group, and the row itself if it was alone.
Emitted ==
  \A m \in DOMAIN out :
    /\ out[m].key = order[m][1]
    /\ Len(groups[order[m]]) = 1 => out[m] = events[groups[order[m]][1]]

Rows(rows, group) == [ n \in DOMAIN group |-> rows[group[n]] ]

\* The groups weigh as much as the rows in them.
GroupWeights == [ x \in DOMAIN order |-> WeightOf(Rows(events, groups[order[x]])) ]
Weighing == Total(GroupWeights) = WeightOf(Prefix(events, Seen))

NamedIn(rows, key) ==
  UNION { ToSet(ContributorsOf(rows[n])) : n \in { m \in DOMAIN rows : rows[m].key = key } }

Counted(rows, r) ==
  r.count # 0 =>
    /\ Len(r.by) = UpTo(r.count)
    /\ ToSet(r.by) \subseteq NamedIn(rows, r.key)
    /\ r.count <= Cap => NamedIn(rows, r.key) \subseteq ToSet(r.by)

\* Counters are written last: until then the base has those it came with.
Counting ==
  mode = "additive" =>
    /\ \A m \in DOMAIN out : /\ Weight(out[m]) = WeightOf(Rows(events, groups[order[m]]))
                             /\ Counted(events, out[m])
    /\ pc = "merge" => LET first == events[Current[1]] IN
         /\ Len(Current) > 1
         /\ base.src = first.src /\ base.ref = first.ref
         /\ base.count = first.count /\ base.by = first.by

TallyInv == FInv /\ Listing /\ Emitted /\ Weighing /\ Counting

-----------------------------------------------------------------------------
(* First rows.                                                             *)

LEMMA FirstsType ==
  ASSUME NEW n \in Nat
  PROVE  IsFiniteSet(Firsts(n)) /\ Cardinality(Firsts(n)) \in Nat /\ Firsts(n) \subseteq 1 .. n
<1>1. Firsts(n) \in SUBSET (1 .. n)
  BY DEF Firsts
<1>2. IsFiniteSet(1 .. n)
  BY FS_Interval
<1>3. IsFiniteSet(Firsts(n))
  BY <1>1, <1>2, FS_Subset
<1>. QED  BY <1>1, <1>3, FS_CardinalityType

New(n) == \A k \in 1 .. n - 1 : ~OneEvent(k, n)

LEMMA FirstsNone == Firsts(0) = {} /\ Cardinality(Firsts(0)) = 0
<1>1. Firsts(0) = {}
  BY DEF Firsts
<1>. QED  BY <1>1, FS_EmptySet

LEMMA FirstsNext ==
  ASSUME NEW n \in Nat
  PROVE  /\ New(n + 1) => /\ Firsts(n + 1) = Firsts(n) \cup {n + 1}
                          /\ Cardinality(Firsts(n + 1)) = Cardinality(Firsts(n)) + 1
         /\ ~New(n + 1) => Firsts(n + 1) = Firsts(n)
<1>1. 1 .. n + 1 = (1 .. n) \cup {n + 1}
  OBVIOUS
<1>2. CASE New(n + 1)
  <2>1. Firsts(n + 1) = Firsts(n) \cup {n + 1}
    BY <1>1, <1>2 DEF Firsts, New
  <2>2. IsFiniteSet(Firsts(n)) /\ n + 1 \notin Firsts(n)
    BY FirstsType
  <2>. QED  BY <1>2, <2>1, <2>2, FS_AddElement
<1>3. CASE ~New(n + 1)
  <2>1. Firsts(n + 1) = Firsts(n)
    BY <1>1, <1>3 DEF Firsts, New
  <2>. QED  BY <1>3, <2>1
<1>. QED  BY <1>2, <1>3

\* Two rows are one event if they are the same row or have the same identity.
LEMMA SameIdentity ==
  ASSUME events \in Seq(Row), NEW k \in DOMAIN events, NEW m \in DOMAIN events, k # m
  PROVE  OneEvent(k, m) <=> Identity(events, k) = Identity(events, m)
<1>1. k \in Nat \ {0} /\ m \in Nat \ {0}
  OBVIOUS
<1>2. Identity(events, k) = Identity(events, m) <=>
        /\ events[k].key = events[m].key
        /\ (IF events[k].key = NoIdentity THEN k ELSE 0) =
             (IF events[m].key = NoIdentity THEN m ELSE 0)
  BY DEF Identity
<1>. QED  BY <1>1, <1>2 DEF OneEvent

\* A group is open exactly if the event was seen before.
LEMMA KnownGroup ==
  ASSUME FInv, Listing, pc = "group", i <= Len(events)
  PROVE  Identity(events, i) \in DOMAIN groups <=> ~New(i)
<1>1. events \in Seq(Row) /\ i \in DOMAIN events /\ i \in Nat \ {0} /\ Seen = i - 1
  BY DEF FInv, FType, Seen
<1>2. ASSUME ~New(i) PROVE Identity(events, i) \in DOMAIN groups
  <2>1. PICK k \in 1 .. i - 1 : OneEvent(k, i)
    BY <1>2 DEF New
  <2>2. k \in DOMAIN events /\ k # i /\ k < i
    BY <1>1
  <2>3. Identity(events, k) = Identity(events, i)
    BY <1>1, <2>1, <2>2, SameIdentity
  <2>. QED  BY <2>2, <2>3 DEF FInv, Grouping
<1>3. ASSUME Identity(events, i) \in DOMAIN groups PROVE ~New(i)
  <2> DEFINE q == Identity(events, i)
  <2>1. groups[q] \in Seq(DOMAIN events) /\ groups[q] # << >>
    BY <1>3 DEF FInv, FType
  <2>2. 1 \in DOMAIN groups[q] /\ groups[q][1] \in DOMAIN events
    BY <2>1
  <2>3. Identity(events, groups[q][1]) = q
    BY <1>3, <2>2 DEF FInv, Grouping
  <2>4. groups[q][1] <= i - 1
    BY <1>1, <1>3, <2>2 DEF Listing
  <2>. DEFINE k == groups[q][1]
  <2>5. k \in 1 .. i - 1 /\ k # i
    BY <1>1, <2>2, <2>4
  <2>6. OneEvent(k, i)
    BY <1>1, <2>2, <2>3, <2>5, SameIdentity
  <2>. HIDE DEF k
  <2>. QED  BY <2>5, <2>6 DEF New
<1>. QED  BY <1>2, <1>3

LEMMA RowsType ==
  ASSUME NEW rows \in Seq(Row), NEW group \in Seq(DOMAIN rows)
  PROVE  Rows(rows, group) \in Seq(Row) /\ Len(Rows(rows, group)) = Len(group)
BY DEF Rows

LEMMA RowsAppend ==
  ASSUME NEW rows \in Seq(Row), NEW group \in Seq(DOMAIN rows), NEW n \in DOMAIN rows
  PROVE  Rows(rows, Append(group, n)) = Append(Rows(rows, group), rows[n])
<1>. DEFINE S == DOMAIN rows
            more == Append(group, n)
            a == Rows(rows, more)
            b == Append(Rows(rows, group), rows[n])
<1>1. /\ more \in Seq(S) /\ Len(more) = Len(group) + 1 /\ more[Len(group) + 1] = n
      /\ \A m \in 1 .. Len(group) : more[m] = group[m]
      /\ Len(group) \in Nat /\ DOMAIN more = 1 .. Len(group) + 1
  <2>1. group \in Seq(S) /\ n \in S
    OBVIOUS
  <2>. HIDE DEF S
  <2>. QED  BY <2>1
<1>2. Rows(rows, group) \in Seq(Row) /\ Len(Rows(rows, group)) = Len(group) /\ rows[n] \in Row
  BY RowsType
<1>3. a \in Seq(Row) /\ Len(a) = Len(group) + 1
  <2>. HIDE DEF more
  <2>. QED  BY <1>1, RowsType
<1>4. /\ b \in Seq(Row) /\ Len(b) = Len(group) + 1 /\ b[Len(group) + 1] = rows[n]
      /\ \A m \in 1 .. Len(group) : b[m] = Rows(rows, group)[m]
  BY <1>1, <1>2
<1>5. ASSUME NEW m \in 1 .. Len(group) + 1 PROVE a[m] = b[m]
  <2>1. a[m] = rows[more[m]]
    BY <1>1 DEF Rows
  <2>2. CASE m = Len(group) + 1
    BY <1>1, <1>4, <2>1, <2>2
  <2>3. CASE m # Len(group) + 1
    <3>1. m \in 1 .. Len(group) /\ m \in DOMAIN group
      BY <1>1, <2>3
    <3>2. Rows(rows, group)[m] = rows[group[m]]
      BY <3>1 DEF Rows
    <3>. QED  BY <1>1, <1>4, <2>1, <3>1, <3>2
  <2>. QED  BY <2>2, <2>3
<1>. HIDE DEF a, b
<1>6. a = b
  BY <1>1, <1>3, <1>4, <1>5
<1>. QED  BY <1>6 DEF a, b, more

LEMMA RowsOne ==
  ASSUME NEW rows \in Seq(Row), NEW n \in DOMAIN rows
  PROVE  Rows(rows, << n >>) = << rows[n] >>
BY DEF Rows

LEMMA WiderSeq ==
  ASSUME NEW T, NEW S \in SUBSET T, NEW s \in Seq(S)
  PROVE  s \in Seq(T)
OBVIOUS

LEMMA PrefixType ==
  ASSUME NEW S, NEW s \in Seq(S), NEW n \in Nat, n <= Len(s)
  PROVE  Prefix(s, n) \in Seq(S)
BY DEF Prefix

OneWeightEach == GroupWeights \in Seq(Nat) /\ Len(GroupWeights) = Len(order)

LEMMA GroupWeightsType == FInv => OneWeightEach
<1>. SUFFICES ASSUME FInv PROVE OneWeightEach
  OBVIOUS
<1>1. order \in Seq(Identities) /\ events \in Seq(Row)
  BY DEF FInv, FType
<1>2. ASSUME NEW x \in DOMAIN order
      PROVE  WeightOf(Rows(events, groups[order[x]])) \in Nat
  <2>1. groups[order[x]] \in Seq(DOMAIN events)
    BY DEF FInv, FType, Grouping
  <2>2. Rows(events, groups[order[x]]) \in Seq(Row)
    BY <1>1, <2>1, RowsType
  <2>. QED  BY <2>2, WeightOfType
<1>. QED  BY <1>1, <1>2 DEF OneWeightEach, GroupWeights

LEMMA GroupListing ==
  ASSUME FInv, Listing, Group
  PROVE  Listing'
<1> DEFINE q == Identity(events, i)
<1>1. /\ i \in DOMAIN events /\ events \in Seq(Row) /\ pc = "group"
      /\ events' = events /\ pc' = pc /\ i' = i + 1
      /\ q \in Identities /\ DOMAIN groups' = DOMAIN groups \cup {q}
      /\ \A p \in DOMAIN groups : p # q => groups'[p] = groups[p]
      /\ groups'[q] = IF q \in DOMAIN groups THEN Append(groups[q], i) ELSE << i >>
      /\ order' = IF q \in DOMAIN groups THEN order ELSE Append(order, q)
  BY GroupStep
<1>2. /\ Seen = i - 1 /\ Seen' = i /\ i \in Nat \ {0} /\ i <= Len(events)
      /\ i - 1 \in Nat /\ (i - 1) + 1 = i
  BY <1>1 DEF Seen, FInv, FType
<1>3. /\ order \in Seq(Identities) /\ Len(order) \in Nat /\ DOMAIN order = 1 .. Len(order)
      /\ \A p \in DOMAIN groups : groups[p] \in Seq(DOMAIN events)
  BY DEF FInv, FType
<1>4. q \in DOMAIN groups <=> ~New(i)
  BY <1>1, <1>2, KnownGroup
<1>5. \A n : Firsts(n)' = Firsts(n)
  BY <1>1 DEF Firsts, OneEvent
<1>. HIDE DEF q
<1>6. ASSUME NEW p \in DOMAIN groups', NEW x \in DOMAIN groups'[p]
      PROVE  /\ groups'[p][x] <= i
             /\ \A y \in DOMAIN groups'[p] : x < y => groups'[p][x] < groups'[p][y]
  <2>1. CASE p # q
    <3>1. p \in DOMAIN groups /\ groups'[p] = groups[p]
      BY <1>1, <2>1
    <3>2. /\ groups[p][x] <= i - 1
          /\ \A y \in DOMAIN groups[p] : x < y => groups[p][x] < groups[p][y]
      BY <1>2, <1>6, <3>1 DEF Listing
    <3>3. groups[p][x] \in Nat
      <4>1. groups[p][x] \in DOMAIN events
        BY <1>3, <1>6, <3>1
      <4>. QED  BY <1>1, <4>1
    <3>. QED  BY <1>2, <3>1, <3>2, <3>3
  <2>2. CASE p = q /\ q \notin DOMAIN groups
    <3>1. groups'[p] = << i >>
      BY <1>1, <2>2
    <3>. QED  BY <1>2, <1>6, <3>1
  <2>3. CASE p = q /\ q \in DOMAIN groups
    <3>. DEFINE old == groups[q]
    <3>1. groups'[p] = Append(old, i)
      BY <1>1, <2>3
    <3>2. old \in Seq(Nat)
      <4>. DEFINE S == DOMAIN events
      <4>1. old \in Seq(S) /\ S \in SUBSET Nat
        BY <1>1, <1>3, <2>3
      <4>. HIDE DEF old, S
      <4>. QED  BY <4>1, WiderSeq
    <3>3. \A z \in DOMAIN old : /\ old[z] <= i - 1
                                /\ \A y \in DOMAIN old : z < y => old[z] < old[y]
      BY <1>2, <2>3 DEF Listing
    <3>. HIDE DEF old
    <3>4. /\ DOMAIN Append(old, i) = 1 .. Len(old) + 1 /\ DOMAIN old = 1 .. Len(old) /\ Len(old) \in Nat
          /\ Append(old, i)[Len(old) + 1] = i /\ \A z \in 1 .. Len(old) : Append(old, i)[z] = old[z]
      BY <1>2, <3>2
    <3>5. \A z \in 1 .. Len(old) : old[z] \in Nat /\ old[z] < i
      BY <1>2, <3>2, <3>3, <3>4
    <3>6. x \in 1 .. Len(old) + 1
      BY <1>6, <3>1, <3>4
    <3>7. Append(old, i)[x] <= i
      BY <1>2, <3>4, <3>5, <3>6
    <3>8. ASSUME NEW y \in 1 .. Len(old) + 1, x < y
          PROVE  Append(old, i)[x] < Append(old, i)[y]
      BY <1>2, <3>3, <3>4, <3>5, <3>6, <3>8
    <3>. QED  BY <3>1, <3>4, <3>7, <3>8
  <2>. QED  BY <2>1, <2>2, <2>3
<1>7. \A x, y \in DOMAIN order : order[x] = order[y] => x = y
  BY DEF Listing
<1>8. /\ Len(order) = Cardinality(Firsts(i - 1))
      /\ \A n \in Firsts(i - 1) : /\ Cardinality(Firsts(n)) \in DOMAIN order
                                  /\ order[Cardinality(Firsts(n))] = Identity(events, n)
  BY <1>2 DEF Listing
<1>9. CASE q \in DOMAIN groups
  <2>1. order' = order /\ Firsts(i) = Firsts(i - 1)
    <3>1. ~New((i - 1) + 1)
      BY <1>2, <1>4, <1>9
    <3>2. Firsts((i - 1) + 1) = Firsts(i - 1)
      BY <1>2, <3>1, FirstsNext
    <3>. QED  BY <1>1, <1>2, <1>9, <3>2
  <2>2. /\ Len(order') = Cardinality(Firsts(i))
        /\ \A n \in Firsts(i) : /\ Cardinality(Firsts(n)) \in DOMAIN order'
                                /\ order'[Cardinality(Firsts(n))] = Identity(events, n)
    BY <1>8, <2>1
  <2>. QED  BY <1>1, <1>2, <1>5, <1>6, <1>7, <2>1, <2>2 DEF Listing, Identity
<1>10. CASE q \notin DOMAIN groups
  <2>1. /\ order' = Append(order, q) /\ Len(order') = Len(order) + 1
        /\ DOMAIN order' = 1 .. Len(order) + 1
        /\ order'[Len(order) + 1] = q /\ \A x \in 1 .. Len(order) : order'[x] = order[x]
    BY <1>1, <1>3, <1>10
  <2>2. Firsts(i) = Firsts(i - 1) \cup {i} /\ Cardinality(Firsts(i)) = Cardinality(Firsts(i - 1)) + 1
    <3>1. New((i - 1) + 1)
      BY <1>2, <1>4, <1>10
    <3>2. /\ Firsts((i - 1) + 1) = Firsts(i - 1) \cup {(i - 1) + 1}
          /\ Cardinality(Firsts((i - 1) + 1)) = Cardinality(Firsts(i - 1)) + 1
      BY <1>2, <3>1, FirstsNext
    <3>. QED  BY <1>2, <3>2
  <2>3. ASSUME NEW n \in Firsts(i)
        PROVE  /\ Cardinality(Firsts(n)) \in DOMAIN order'
               /\ order'[Cardinality(Firsts(n))] = Identity(events, n)
    <3>1. CASE n = i
      <4>1. Cardinality(Firsts(i)) = Len(order) + 1
        BY <1>8, <2>2
      <4>2. Len(order) + 1 \in 1 .. Len(order) + 1
        BY <1>3
      <4>. QED  BY <2>1, <3>1, <4>1, <4>2, Zenon DEF q
    <3>2. CASE n \in Firsts(i - 1)
      BY <1>3, <1>8, <2>1, <3>2
    <3>. QED  BY <2>2, <2>3, <3>1, <3>2
  <2>4. \A x, y \in DOMAIN order' : order'[x] = order'[y] => x = y
    <3>1. \A x \in DOMAIN order : order[x] # q
      BY <1>10 DEF FInv, Grouping
    <3>. QED  BY <1>3, <1>7, <2>1, <3>1
  <2>5. Len(order') = Cardinality(Firsts(i))
    BY <1>8, <2>1, <2>2
  <2>. QED  BY <1>1, <1>2, <1>5, <1>6, <2>3, <2>4, <2>5 DEF Listing, Identity
<1>. QED  BY <1>9, <1>10

LEMMA GroupWeighing ==
  ASSUME FInv, FInv', Listing, Weighing, Group
  PROVE  Weighing'
<1> DEFINE q == Identity(events, i)
           W == Weight(events[i])
<1>1. /\ i \in DOMAIN events /\ events \in Seq(Row) /\ pc = "group"
      /\ events' = events /\ pc' = pc /\ i' = i + 1
      /\ q \in Identities /\ DOMAIN groups' = DOMAIN groups \cup {q}
      /\ \A p \in DOMAIN groups : p # q => groups'[p] = groups[p]
      /\ groups'[q] = IF q \in DOMAIN groups THEN Append(groups[q], i) ELSE << i >>
      /\ order' = IF q \in DOMAIN groups THEN order ELSE Append(order, q)
  BY GroupStep
<1>2. /\ Seen = i - 1 /\ Seen' = i /\ i \in Nat \ {0} /\ i <= Len(events)
      /\ i - 1 \in Nat /\ (i - 1) + 1 = i /\ i - 1 < Len(events)
  BY <1>1 DEF Seen, FInv, FType
<1>3. order \in Seq(Identities) /\ \A p \in DOMAIN groups : groups[p] \in Seq(DOMAIN events)
  BY DEF FInv, FType
<1>4. events[i] \in Row /\ W \in Nat
  BY <1>1, WeightType
<1>. HIDE DEF q, W
<1>5. WeightOf(Prefix(events, i)) = WeightOf(Prefix(events, i - 1)) + W
  <2>1. IsList(events)
    BY <1>1, ListOf
  <2>2. Prefix(events, (i - 1) + 1) = Append(Prefix(events, i - 1), events[(i - 1) + 1])
    BY <1>2, <2>1, PrefixNext
  <2>3. Prefix(events, i - 1) \in Seq(Row)
    BY <1>1, <1>2, PrefixType
  <2>. QED  BY <1>2, <1>4, <2>2, <2>3, WeightOfAppend DEF W
<1>6. Total(GroupWeights) = WeightOf(Prefix(events, i - 1))
  BY <1>2 DEF Weighing
<1>7. /\ GroupWeights \in Seq(Nat) /\ Len(GroupWeights) = Len(order)
      /\ GroupWeights' \in Seq(Nat) /\ Len(GroupWeights') = Len(order')
  <2>1. OneWeightEach'
    BY GroupWeightsType, PTL
  <2>. QED  BY <2>1, GroupWeightsType DEF OneWeightEach
<1>8. /\ \A x \in DOMAIN order : GroupWeights[x] = WeightOf(Rows(events, groups[order[x]]))
      /\ \A x \in DOMAIN order' : GroupWeights'[x] = WeightOf(Rows(events, groups'[order'[x]]))
  BY <1>1 DEF GroupWeights
<1>9. Total(GroupWeights') = Total(GroupWeights) + W
  <2>. DEFINE v == GroupWeights'  w == GroupWeights
  <2>1. CASE q \in DOMAIN groups
    <3>1. order' = order /\ groups'[q] = Append(groups[q], i) /\ groups[q] \in Seq(DOMAIN events)
      BY <1>1, <1>3, <2>1
    <3>2. PICK x \in DOMAIN order : order[x] = q
      BY <2>1 DEF FInv, Grouping
    <3>3. v[x] = w[x] + W
      <4>1. Rows(events, Append(groups[q], i)) = Append(Rows(events, groups[q]), events[i])
        BY <1>1, <3>1, RowsAppend
      <4>2. Rows(events, groups[q]) \in Seq(Row)
        BY <1>1, <3>1, RowsType
      <4>3. WeightOf(Rows(events, groups'[q])) = WeightOf(Rows(events, groups[q])) + W
        BY <1>4, <3>1, <4>1, <4>2, WeightOfAppend DEF W
      <4>. QED  BY <1>8, <3>1, <3>2, <4>3
    <3>4. \A m \in 1 .. Len(w) : m # x => v[m] = w[m]
      <4>. SUFFICES ASSUME NEW m \in 1 .. Len(w), m # x PROVE v[m] = w[m]
        OBVIOUS
      <4>1. m \in DOMAIN order
        BY <1>3, <1>7
      <4>2. order[m] # q /\ order[m] \in DOMAIN groups
        BY <3>2, <4>1 DEF Listing, FInv, Grouping
      <4>. QED  BY <1>1, <1>8, <3>1, <4>1, <4>2
    <3>5. x \in 1 .. Len(w) /\ Len(v) = Len(w) /\ v \in Seq(Nat) /\ w \in Seq(Nat)
      BY <1>3, <1>7, <3>1, <3>2
    <3>. HIDE DEF v, w
    <3>6. Total(v) = Total(w) + W
      BY <1>4, <3>3, <3>4, <3>5, TotalRaised
    <3>. QED  BY <3>6 DEF v, w
  <2>2. CASE q \notin DOMAIN groups
    <3>1. order' = Append(order, q) /\ groups'[q] = << i >>
      BY <1>1, <2>2
    <3>2. /\ Len(order') = Len(order) + 1 /\ DOMAIN order' = 1 .. Len(order) + 1
          /\ order'[Len(order) + 1] = q /\ \A x \in 1 .. Len(order) : order'[x] = order[x]
          /\ DOMAIN order = 1 .. Len(order) /\ Len(order) \in Nat
      BY <1>1, <1>3, <3>1
    <3>3. v[Len(order) + 1] = W
      <4>1. Rows(events, << i >>) = << events[i] >>
        BY <1>1, RowsOne
      <4>2. WeightOf(Rows(events, groups'[q])) = W
        BY <1>4, <3>1, <4>1, WeightOfOne DEF W
      <4>. QED  BY <1>8, <3>2, <4>2
    <3>4. \A m \in 1 .. Len(order) : v[m] = w[m]
      <4>. SUFFICES ASSUME NEW m \in 1 .. Len(order) PROVE v[m] = w[m]
        OBVIOUS
      <4>1. order[m] \in DOMAIN groups
        BY <3>2 DEF FInv, Grouping
      <4>2. m \in DOMAIN order /\ m \in DOMAIN order' /\ order'[m] = order[m] /\ order[m] # q
        BY <2>2, <3>2, <4>1
      <4>. QED  BY <1>1, <1>8, <4>1, <4>2
    <3>5. v \in Seq(Nat) /\ w \in Seq(Nat) /\ Len(w) = Len(order) /\ Len(v) = Len(order) + 1
      BY <1>7, <3>2
    <3>. HIDE DEF v, w
    <3>6. v = Append(w, W)
      <4>1. /\ Append(w, W) \in Seq(Nat) /\ Len(Append(w, W)) = Len(order) + 1
            /\ Append(w, W)[Len(order) + 1] = W
            /\ \A m \in 1 .. Len(order) : Append(w, W)[m] = w[m]
        BY <1>4, <3>5
      <4>2. \A m \in 1 .. Len(order) + 1 : v[m] = Append(w, W)[m]
        BY <3>2, <3>3, <3>4, <4>1
      <4>. QED  BY <3>5, <4>1, <4>2
    <3>7. Total(v) = Total(w) + W
      BY <1>4, <3>5, <3>6, TotalAppend
    <3>. QED  BY <3>7 DEF v, w
  <2>. QED  BY <2>1, <2>2
<1>10. Total(GroupWeights') = WeightOf(Prefix(events, i))
  BY <1>5, <1>6, <1>9
<1>. QED  BY <1>1, <1>2, <1>10 DEF Weighing

-----------------------------------------------------------------------------
(* The rows put out.                                                       *)

\* A row without identity is alone in its group.
LEMMA AnonymousAlone ==
  ASSUME FInv, Listing, NEW q \in DOMAIN groups, q[1] = NoIdentity
  PROVE  Len(groups[q]) = 1 /\ groups[q][1] = q[2]
<1>1. /\ groups[q] \in Seq(DOMAIN events) /\ groups[q] # << >> /\ events \in Seq(Row)
  BY DEF FInv, FType
<1>2. ASSUME NEW x \in DOMAIN groups[q]
      PROVE  groups[q][x] = q[2] /\ groups[q][x] \in Nat
  <2>1. groups[q][x] \in DOMAIN events
    BY <1>1
  <2>2. Identity(events, groups[q][x]) = q
    BY DEF FInv, Grouping
  <2>. QED  BY <1>1, <2>1, <2>2 DEF Identity
<1>3. \A x, y \in DOMAIN groups[q] : x < y => groups[q][x] < groups[q][y]
  BY DEF Listing
<1>4. DOMAIN groups[q] = 1 .. Len(groups[q]) /\ Len(groups[q]) \in Nat \ {0}
  BY <1>1
<1>5. ~(1 < Len(groups[q]))
  <2>. SUFFICES ASSUME 1 < Len(groups[q]) PROVE FALSE
    OBVIOUS
  <2>1. 1 \in DOMAIN groups[q] /\ 2 \in DOMAIN groups[q] /\ 1 < 2
    BY <1>4
  <2>2. groups[q][1] < groups[q][2]
    BY <1>3, <2>1
  <2>3. groups[q][1] = q[2] /\ groups[q][2] = q[2] /\ groups[q][1] \in Nat
    BY <1>2, <2>1
  <2>. QED  BY <2>2, <2>3
<1>. QED  BY <1>2, <1>4, <1>5

\* A group with an identity is all the rows of its event.
LEMMA WholeGroup ==
  ASSUME FInv, pc # "group", NEW q \in DOMAIN groups, q[1] # NoIdentity
  PROVE  /\ \A x \in DOMAIN groups[q] : groups[q][x] \in DOMAIN events /\ events[groups[q][x]].key = q[1]
         /\ \A n \in DOMAIN events : events[n].key = q[1] =>
              \E x \in DOMAIN groups[q] : groups[q][x] = n
<1>1. groups[q] \in Seq(DOMAIN events) /\ groups[q] # << >>
  BY DEF FInv, FType
<1>2. ASSUME NEW x \in DOMAIN groups[q]
      PROVE  groups[q][x] \in DOMAIN events /\ Identity(events, groups[q][x]) = q
  BY <1>1 DEF FInv, Grouping
<1>3. ASSUME NEW x \in DOMAIN groups[q]
      PROVE  events[groups[q][x]].key = q[1]
  BY <1>2 DEF Identity
<1>4. q = << q[1], 0 >>
  <2>1. 1 \in DOMAIN groups[q]
    BY <1>1
  <2>2. events[groups[q][1]].key = q[1] /\ Identity(events, groups[q][1]) = q
    BY <1>2, <1>3, <2>1
  <2>. QED  BY <2>2 DEF Identity
<1>5. ASSUME NEW n \in DOMAIN events, events[n].key = q[1]
      PROVE  \E x \in DOMAIN groups[q] : groups[q][x] = n
  <2>1. Identity(events, n) = << q[1], 0 >>
    BY <1>5 DEF Identity
  <2>2. Identity(events, n) = q
    BY <1>4, <2>1
  <2>3. \E x \in DOMAIN groups[Identity(events, n)] : groups[Identity(events, n)][x] = n
    BY DEF FInv, Grouping
  <2>. QED  BY <2>2, <2>3
<1>. QED  BY <1>2, <1>3, <1>5

\* What the fold was given is counted as a fold counts.
LEMMA GivenTallied ==
  ASSUME FInv, NEW n \in DOMAIN events
  PROVE  /\ events[n] \in Row /\ Len(events[n].by) = UpTo(events[n].count)
         /\ events[n].key = NoIdentity => events[n].count = 0
BY FoldedBefore DEF FInv, FType, UpTo

\* A step that leaves the groups alone leaves their order and weight alone.
LEMMA ListingKept ==
  ASSUME FInv, Listing, Weighing, pc # "group" \/ i > Len(events), pc' # "group",
         UNCHANGED << events, groups, order >>
  PROVE  Listing' /\ Weighing'
<1>1. Len(events) \in Nat /\ i \in Nat
  BY DEF FInv, FType
<1>2. Seen' = Len(events) /\ Seen = Len(events)
  <2>1. CASE pc = "group"
    <3>1. i - 1 <= Len(events) /\ i > Len(events)
      BY <2>1 DEF Listing, Seen
    <3>. QED  BY <1>1, <2>1, <3>1 DEF Seen
  <2>2. CASE pc # "group"
    BY <2>2 DEF Seen
  <2>. QED  BY <2>1, <2>2
<1>3. \A n : Firsts(n)' = Firsts(n)
  BY DEF Firsts, OneEvent
<1>4. Listing'
  BY <1>2, <1>3 DEF Listing, Identity
<1>5. Weighing'
  <2>1. GroupWeights' = GroupWeights
    BY DEF GroupWeights
  <2>. QED  BY <1>2, <2>1 DEF Weighing
<1>. QED  BY <1>4, <1>5

LEMMA OutGrowsTally ==
  ASSUME FInv, Listing, Weighing, Emitted, Counting, Len(out) < Len(order), NEW r \in Row,
         out' = Append(out, r), r.key = order[Len(out) + 1][1],
         Len(Current) = 1 => r = events[Current[1]],
         mode = "additive" => Weight(r) = WeightOf(Rows(events, Current)) /\ Counted(events, r),
         pc \in {"open", "merge"}, pc' = "open", UNCHANGED << events, mode, groups, order >>
  PROVE  Listing' /\ Weighing' /\ Emitted' /\ Counting'
<1>1. Listing' /\ Weighing'
  BY ListingKept
<1>2. out \in Seq(Row) /\ Len(out) \in Nat
  BY DEF FInv, FType
<1>3. \A m \in DOMAIN out' :
        \/ m \in DOMAIN out /\ out'[m] = out[m]
        \/ m = Len(out) + 1 /\ out'[m] = r
  BY <1>2
<1>4. ASSUME NEW m \in DOMAIN out'
      PROVE  /\ out'[m].key = order[m][1]
             /\ Len(groups[order[m]]) = 1 => out'[m] = events[groups[order[m]][1]]
             /\ mode = "additive" => /\ Weight(out'[m]) = WeightOf(Rows(events, groups[order[m]]))
                                     /\ Counted(events, out'[m])
  <2>1. CASE m \in DOMAIN out /\ out'[m] = out[m]
    BY <2>1 DEF Emitted, Counting
  <2>2. CASE m = Len(out) + 1 /\ out'[m] = r
    <3>1. Current = groups[order[m]]
      BY <2>2 DEF Current
    <3>. QED  BY <2>2, <3>1
  <2>. QED  BY <1>3, <1>4, <2>1, <2>2
<1>5. Emitted'
  BY <1>4 DEF Emitted
<1>6. Counting'
  BY <1>4 DEF Counting
<1>. QED  BY <1>1, <1>5, <1>6

LEMMA KeepLoneTally ==
  ASSUME FInv, Listing, Weighing, Emitted, Counting, KeepLone
  PROVE  Listing' /\ Weighing' /\ Emitted' /\ Counting'
<1> DEFINE r == events[Current[1]]
           q == order[Len(out) + 1]
<1>1. /\ Len(out) < Len(order) /\ Len(Current) = 1 /\ pc = "open" /\ pc' = "open"
      /\ out' = Append(out, r) /\ UNCHANGED << events, mode, groups, order >>
  BY DEF KeepLone
<1>2. /\ Current[1] \in DOMAIN events /\ r \in Row /\ r.key = q[1]
      /\ Current \in Seq(DOMAIN events) /\ q \in DOMAIN groups /\ Current = groups[q]
  BY <1>1, CurrentGroup DEF Current
<1>3. events \in Seq(Row)
  BY DEF FInv, FType
<1>4. Current = << Current[1] >> /\ DOMAIN Current = {1}
  BY <1>1, <1>2
<1>5. Weight(r) = WeightOf(Rows(events, Current))
  <2>1. Rows(events, << Current[1] >>) = << events[Current[1]] >>
    BY <1>2, <1>3, RowsOne
  <2>2. WeightOf(<< r >>) = Weight(r)
    BY <1>2, WeightOfOne
  <2>. QED  BY <1>4, <2>1, <2>2
<1>6. Counted(events, r)
  <2>. SUFFICES ASSUME r.count # 0
                PROVE  /\ Len(r.by) = UpTo(r.count)
                       /\ ToSet(r.by) \subseteq NamedIn(events, r.key)
                       /\ r.count <= Cap => NamedIn(events, r.key) \subseteq ToSet(r.by)
    BY DEF Counted
  <2>1. Len(r.by) = UpTo(r.count) /\ r.key # NoIdentity
    BY <1>2, GivenTallied
  <2>2. r.by # << >> => ContributorsOf(r) = r.by
    BY DEF ContributorsOf
  <2>3. ToSet(r.by) \subseteq NamedIn(events, r.key)
    <3>1. CASE r.by = << >>
      BY <3>1 DEF ToSet
    <3>2. CASE r.by # << >>
      BY <1>2, <2>2, <3>2 DEF NamedIn
    <3>. QED  BY <3>1, <3>2
  <2>4. ASSUME r.count <= Cap PROVE NamedIn(events, r.key) \subseteq ToSet(r.by)
    <3>1. r.by # << >>
      <4>1. r.count \in Nat /\ r.by \in Seq(Contributor)
        BY <1>2 DEF Row
      <4>2. Len(r.by) = r.count
        BY <2>1, <2>4, <4>1, UpToIs
      <4>. QED  BY <4>2
    <3>2. \A n \in DOMAIN events : events[n].key = r.key => n = Current[1]
      <4>1. \A n \in DOMAIN events : events[n].key = q[1] => \E x \in DOMAIN groups[q] : groups[q][x] = n
        BY <1>1, <1>2, <2>1, WholeGroup
      <4>. QED  BY <1>2, <1>4, <4>1
    <3>. HIDE DEF r
    <3>3. \A n \in DOMAIN events : events[n].key = r.key => ContributorsOf(events[n]) = r.by
      BY <2>2, <3>1, <3>2 DEF r
    <3>. QED  BY <3>3 DEF NamedIn
  <2>. QED  BY <2>1, <2>3, <2>4
<1>. QED  BY <1>1, <1>2, <1>5, <1>6, OutGrowsTally

LEMMA KeepFullestTally ==
  ASSUME FInv, Listing, Weighing, Emitted, Counting, KeepFullest
  PROVE  Listing' /\ Weighing' /\ Emitted' /\ Counting'
<1> DEFINE rows == RowsOf(Current)
           r == Fullest(rows)
<1>1. /\ Len(out) < Len(order) /\ Len(Current) > 1 /\ pc = "open" /\ pc' = "open"
      /\ mode = "most_populated" /\ out' = Append(out, r)
      /\ UNCHANGED << events, mode, groups, order >>
  BY DEF KeepFullest
<1>2. /\ Current \in Seq(DOMAIN events) /\ Current # << >>
      /\ \A x \in DOMAIN Current : /\ events[Current[x]] \in Row
                                   /\ events[Current[x]].key = order[Len(out) + 1][1]
  BY <1>1, CurrentGroup
<1>3. /\ rows \in Seq(Row) /\ rows # << >> /\ DOMAIN rows = DOMAIN Current
      /\ \A x \in DOMAIN rows : rows[x] = events[Current[x]]
  BY <1>2 DEF RowsOf
<1>. HIDE DEF rows
<1>4. PICK n \in DOMAIN rows : r = rows[n]
  BY <1>3, FullestIs
<1>5. r \in Row /\ r.key = order[Len(out) + 1][1]
  BY <1>2, <1>3, <1>4
<1>. HIDE DEF r
<1>6. Len(Current) # 1
  BY <1>1, <1>2
<1>. QED  BY <1>1, <1>5, <1>6, OutGrowsTally

LEMMA OpenGroupTally ==
  ASSUME FInv, Listing, Weighing, Emitted, Counting, OpenGroup
  PROVE  Listing' /\ Weighing' /\ Emitted' /\ Counting'
<1>1. /\ Len(out) < Len(order) /\ Len(Current) > 1 /\ pc = "open" /\ pc' = "merge"
      /\ base' = events[Current[1]]
      /\ UNCHANGED << events, mode, groups, order, out >>
  BY DEF OpenGroup
<1>2. Listing' /\ Weighing'
  BY <1>1, ListingKept
<1>3. Emitted'
  BY <1>1 DEF Emitted
<1>4. Current' = Current
  BY <1>1 DEF Current
<1>5. Counting'
  BY <1>1, <1>4 DEF Counting
<1>. QED  BY <1>2, <1>3, <1>5

LEMMA MergeCounters ==
  ASSUME NEW r \in Row, NEW other
  PROVE  LET merged == MergeInto(r, other) IN
         merged.src = r.src /\ merged.ref = r.ref /\ merged.count = r.count /\ merged.by = r.by
BY DEF MergeInto, Row

LEMMA MergeRowTally ==
  ASSUME FInv, Listing, Weighing, Emitted, Counting, MergeRow
  PROVE  Listing' /\ Weighing' /\ Emitted' /\ Counting'
<1>1. /\ pc = "merge" /\ pc' = "merge" /\ base' = MergeInto(base, events[Current[i]])
      /\ UNCHANGED << events, mode, groups, order, out >>
  BY DEF MergeRow
<1>2. Listing' /\ Weighing'
  BY <1>1, ListingKept
<1>3. Emitted'
  BY <1>1 DEF Emitted
<1>4. Current' = Current
  BY <1>1 DEF Current
<1>5. base \in Row
  BY <1>1 DEF FInv, FType
<1>6. base'.src = base.src /\ base'.ref = base.ref /\ base'.count = base.count /\ base'.by = base.by
  BY <1>1, <1>5, MergeCounters
<1>. HIDE DEF MergeInto
<1>7. Counting'
  <2>1. mode = "additive" =>
          /\ \A m \in DOMAIN out : /\ Weight(out[m]) = WeightOf(Rows(events, groups[order[m]]))
                                   /\ Counted(events, out[m])
          /\ Len(Current) > 1
          /\ base.src = events[Current[1]].src /\ base.ref = events[Current[1]].ref
          /\ base.count = events[Current[1]].count /\ base.by = events[Current[1]].by
    BY <1>1 DEF Counting
  <2>2. mode = "additive" =>
          /\ \A m \in DOMAIN out' : /\ Weight(out'[m]) = WeightOf(Rows(events', groups'[order'[m]]))
                                    /\ Counted(events', out'[m])
          /\ Len(Current') > 1
          /\ base'.src = events'[Current'[1]].src /\ base'.ref = events'[Current'[1]].ref
          /\ base'.count = events'[Current'[1]].count /\ base'.by = events'[Current'[1]].by
    BY <1>1, <1>4, <1>6, <2>1
  <2>. QED  BY <1>1, <2>2 DEF Counting
<1>. QED  BY <1>2, <1>3, <1>7

\* Whom the rows name and what they weigh depends on what they came with only.
LEMMA SameCounters ==
  ASSUME NEW rows \in Seq(Row), NEW others \in Seq(Row), Len(rows) = Len(others),
         \A n \in DOMAIN rows :
           /\ rows[n].src = others[n].src /\ rows[n].ref = others[n].ref
           /\ rows[n].count = others[n].count /\ rows[n].by = others[n].by
  PROVE  WeightOf(rows) = WeightOf(others) /\ Named(rows) = Named(others)
<1>1. DOMAIN rows = DOMAIN others
  OBVIOUS
<1>2. \A n \in DOMAIN rows : /\ Weight(rows[n]) = Weight(others[n])
                             /\ ContributorsOf(rows[n]) = ContributorsOf(others[n])
  BY DEF Weight, ContributorsOf
<1>3. [ n \in DOMAIN rows |-> Weight(rows[n]) ] = [ n \in DOMAIN others |-> Weight(others[n]) ]
  BY <1>1, <1>2
<1>4. [ n \in DOMAIN rows |-> ContributorsOf(rows[n]) ] =
        [ n \in DOMAIN others |-> ContributorsOf(others[n]) ]
  BY <1>1, <1>2
<1>. QED  BY <1>3, <1>4 DEF WeightOf, Named

LEMMA CloseGroupTally ==
  ASSUME FInv, Listing, Weighing, Emitted, Counting, CloseGroup
  PROVE  Listing' /\ Weighing' /\ Emitted' /\ Counting'
<1> DEFINE sealed == [RowsOf(Current) EXCEPT ![1] = base]
           rows == Rows(events, Current)
           r == Seal(base, sealed)
           q == order[Len(out) + 1]
<1>1. /\ pc = "merge" /\ pc' = "open" /\ mode = "additive" /\ Len(out) < Len(order)
      /\ out' = Append(out, r) /\ UNCHANGED << events, mode, groups, order >>
  BY DEF CloseGroup, FInv, Progress
<1>2. /\ Current \in Seq(DOMAIN events) /\ 1 \in DOMAIN Current /\ Current # << >>
      /\ q \in DOMAIN groups /\ Current = groups[q]
      /\ \A x \in DOMAIN Current : /\ Current[x] \in DOMAIN events
                                   /\ events[Current[x]] \in Row
                                   /\ events[Current[x]].key = q[1]
  BY <1>1, CurrentGroup DEF Current
<1>3. events \in Seq(Row) /\ base \in Row /\ base.key = q[1]
  BY <1>1 DEF FInv, FType, Holding
<1>4. LET first == events[Current[1]] IN
        /\ Len(Current) > 1
        /\ base.src = first.src /\ base.ref = first.ref
        /\ base.count = first.count /\ base.by = first.by
  BY <1>1 DEF Counting
<1>5. /\ rows \in Seq(Row) /\ Len(rows) = Len(Current) /\ DOMAIN rows = DOMAIN Current
      /\ \A x \in DOMAIN rows : rows[x] = events[Current[x]]
  BY <1>2, <1>3, RowsType DEF Rows
<1>6. /\ sealed \in Seq(Row) /\ Len(sealed) = Len(Current) /\ DOMAIN sealed = DOMAIN Current
      /\ \A x \in DOMAIN sealed : sealed[x] = IF x = 1 THEN base ELSE rows[x]
  <2>1. RowsOf(Current) = rows
    BY DEF RowsOf, Rows
  <2>2. sealed = [rows EXCEPT ![1] = base]
    BY <2>1
  <2>. HIDE DEF rows, sealed
  <2>. QED  BY <1>2, <1>3, <1>5, <2>2
<1>. HIDE DEF rows, sealed
<1>7. WeightOf(sealed) = WeightOf(rows) /\ Named(sealed) = Named(rows)
  <2>1. \A n \in DOMAIN sealed :
          /\ sealed[n].src = rows[n].src /\ sealed[n].ref = rows[n].ref
          /\ sealed[n].count = rows[n].count /\ sealed[n].by = rows[n].by
    BY <1>4, <1>5, <1>6
  <2>. QED  BY <1>5, <1>6, <2>1, SameCounters
<1>. DEFINE weight == WeightOf(rows)  names == Named(rows)
<1>8. /\ weight \in Nat /\ weight # 0 /\ names \in Seq(Contributor)
      /\ UpTo(Len(names)) = UpTo(weight) /\ Len(names) <= weight
  <2>1. Tallied(rows)
    BY <1>2, <1>5, GivenTallied DEF Tallied
  <2>2. rows # << >>
    BY <1>2, <1>5
  <2>. QED  BY <1>5, <2>1, <2>2, WeightOfType, WeightOfSome, NamedType, NamedLen
<1>9. /\ Capped(names) \in Seq(Contributor) /\ Len(Capped(names)) = UpTo(Len(names))
      /\ ToSet(Capped(names)) \subseteq ToSet(names)
      /\ Len(names) <= Cap => Capped(names) = names
  BY <1>8, CappedIs
<1>10. r \in Row /\ r.key = q[1] /\ r.count = weight /\ r.by = Capped(names)
  <2>1. r = [ base EXCEPT !.count = weight, !.by = Capped(names) ]
    BY <1>7 DEF Seal
  <2>. HIDE DEF weight, names, r
  <2>. QED  BY <1>3, <1>8, <1>9, <2>1 DEF Row
<1>11. q[1] # NoIdentity
  BY <1>2, <1>4, AnonymousAlone
<1>12. ToSet(names) = NamedIn(events, q[1])
  <2>1. ASSUME NEW c \in ToSet(names) PROVE c \in NamedIn(events, q[1])
    <3>1. PICK n \in DOMAIN rows : c \in ToSet(ContributorsOf(rows[n]))
      BY <1>5, <2>1, NamedMembers
    <3>2. /\ Current[n] \in DOMAIN events /\ events[Current[n]].key = q[1]
          /\ c \in ToSet(ContributorsOf(events[Current[n]]))
      BY <1>2, <1>5, <3>1
    <3>. QED  BY <3>2 DEF NamedIn
  <2>2. ASSUME NEW c \in NamedIn(events, q[1]) PROVE c \in ToSet(names)
    <3>1. PICK n \in DOMAIN events : /\ events[n].key = q[1]
                                     /\ c \in ToSet(ContributorsOf(events[n]))
      BY <2>2 DEF NamedIn
    <3>2. PICK x \in DOMAIN Current : Current[x] = n
      BY <1>1, <1>2, <1>11, <3>1, WholeGroup
    <3>3. x \in DOMAIN rows /\ rows[x] = events[n]
      BY <1>5, <3>2
    <3>4. ToSet(ContributorsOf(rows[x])) \subseteq ToSet(Named(rows))
      BY <1>5, <3>3, NamedMembers
    <3>. QED  BY <3>1, <3>3, <3>4
  <2>. QED  BY <2>1, <2>2
<1>. HIDE DEF weight, names, r
<1>13. Counted(events, r)
  <2>1. Len(r.by) = UpTo(r.count) /\ ToSet(r.by) \subseteq NamedIn(events, r.key)
    BY <1>8, <1>9, <1>10, <1>12
  <2>2. ASSUME r.count <= Cap PROVE NamedIn(events, r.key) \subseteq ToSet(r.by)
    <3>1. Len(names) \in Nat /\ Cap \in Nat
      BY <1>8, FoldAssumption
    <3>2. Len(names) <= Cap
      BY <1>8, <1>10, <2>2, <3>1
    <3>. QED  BY <1>9, <1>10, <1>12, <3>2
  <2>. QED  BY <2>1, <2>2 DEF Counted
<1>14. Weight(r) = WeightOf(rows)
  BY <1>8, <1>10 DEF Weight, weight
<1>15. Len(Current) # 1
  BY <1>2, <1>4
<1>. HIDE DEF q
<1>16. r.key = order[Len(out) + 1][1]
  BY <1>10 DEF q
<1>. QED
  BY <1>1, <1>10, <1>13, <1>14, <1>15, <1>16, OutGrowsTally DEF rows

-----------------------------------------------------------------------------
LEMMA InitTally == Init => TallyInv
<1>. SUFFICES ASSUME Init PROVE TallyInv
  OBVIOUS
<1>1. FInv
  BY InitFInv
<1>2. /\ pc = "group" /\ i = 1 /\ groups = << >> /\ order = << >> /\ out = << >>
      /\ events \in Seq(Row)
  BY <1>1 DEF Init, FInv, FType
<1>3. Seen = 0 /\ Len(events) \in Nat
  BY <1>2 DEF Seen
<1>4. Listing
  BY <1>2, <1>3, FirstsNone DEF Listing
<1>5. Weighing
  <2>1. GroupWeights = << >>
    BY <1>2 DEF GroupWeights
  <2>2. Prefix(events, 0) = << >>
    BY DEF Prefix
  <2>. QED  BY <1>3, <2>1, <2>2, TotalNone, WeightOfNone DEF Weighing
<1>6. Emitted /\ Counting
  BY <1>2 DEF Emitted, Counting
<1>. QED  BY <1>1, <1>4, <1>5, <1>6 DEF TallyInv

LEMMA NextTally == TallyInv /\ [Next]_vars => TallyInv'
<1>. SUFFICES ASSUME TallyInv, [Next]_vars PROVE TallyInv'
  OBVIOUS
<1>1. FInv /\ Listing /\ Emitted /\ Weighing /\ Counting
  BY DEF TallyInv
<1>2. FInv'
  BY <1>1, NextFInv
<1>3. CASE UNCHANGED vars
  <2>1. Listing' /\ Weighing'
    <3>1. UNCHANGED << events, mode, pc, i, groups, order >>
      BY <1>3 DEF vars
    <3>2. Seen' = Seen /\ GroupWeights' = GroupWeights
      BY <3>1 DEF Seen, GroupWeights
    <3>3. \A n : Firsts(n)' = Firsts(n)
      BY <3>1 DEF Firsts, OneEvent
    <3>4. Listing'
      BY <1>1, <3>1, <3>2, <3>3 DEF Listing, Identity
    <3>. QED  BY <1>1, <3>1, <3>2, <3>4 DEF Weighing
  <2>2. Emitted' /\ Counting'
    BY <1>1, <1>3 DEF vars, Emitted, Counting, Current
  <2>. QED  BY <1>2, <2>1, <2>2 DEF TallyInv
<1>4. CASE Group
  <2>1. Listing' /\ Weighing'
    BY <1>1, <1>2, <1>4, GroupListing, GroupWeighing
  <2>2. Emitted' /\ Counting'
    <3>1. out' = << >> /\ pc' = "group"
      BY <1>1, <1>4, GroupStep
    <3>. QED  BY <3>1 DEF Emitted, Counting
  <2>. QED  BY <1>2, <2>1, <2>2 DEF TallyInv
<1>5. CASE Grouped \/ Finish
  <2>1. /\ pc' \in {"open", "done"} /\ pc \in {"group", "open"} /\ (pc = "group" => i > Len(events))
        /\ UNCHANGED << events, mode, groups, order, out, base >>
    BY <1>5 DEF Grouped, Finish
  <2>2. Listing' /\ Weighing'
    BY <1>1, <2>1, ListingKept
  <2>3. Emitted' /\ Counting'
    BY <1>1, <2>1 DEF Emitted, Counting
  <2>. QED  BY <1>2, <2>2, <2>3 DEF TallyInv
<1>6. CASE KeepLone
  BY <1>1, <1>2, <1>6, KeepLoneTally DEF TallyInv
<1>7. CASE KeepFullest
  BY <1>1, <1>2, <1>7, KeepFullestTally DEF TallyInv
<1>8. CASE OpenGroup
  BY <1>1, <1>2, <1>8, OpenGroupTally DEF TallyInv
<1>9. CASE MergeRow
  BY <1>1, <1>2, <1>9, MergeRowTally DEF TallyInv
<1>10. CASE CloseGroup
  BY <1>1, <1>2, <1>10, CloseGroupTally DEF TallyInv
<1>. QED  BY <1>3, <1>4, <1>5, <1>6, <1>7, <1>8, <1>9, <1>10 DEF Next

LEMMA TallyInvAlways == Spec => []TallyInv
BY InitTally, NextTally, PTL DEF Spec

\* Whatever rows are folded, in either mode, there is one row for each event, in
\* the order in which the events were first seen, and a row without identity
\* comes out as it went in.
THEOREM OneRowEach == Spec => []OneRowPerEvent
<1>1. TallyInv => OneRowPerEvent
  <2>. SUFFICES ASSUME TallyInv, pc = "done" PROVE
         /\ Len(out) = Cardinality(Firsts(Len(events)))
         /\ \A n \in Firsts(Len(events)) :
              /\ out[Cardinality(Firsts(n))].key = events[n].key
              /\ out[Cardinality(Firsts(n))].key = NoIdentity =>
                   out[Cardinality(Firsts(n))] = events[n]
    BY DEF OneRowPerEvent
  <2>1. FInv /\ Listing /\ Emitted
    BY DEF TallyInv
  <2>2. Seen = Len(events)
    BY DEF Seen
  <2>3. Len(out) = Len(order) /\ DOMAIN out = DOMAIN order
    BY <2>1 DEF FInv, Progress, FType
  <2>4. Len(out) = Cardinality(Firsts(Len(events)))
    BY <2>1, <2>2, <2>3 DEF Listing
  <2>5. ASSUME NEW n \in Firsts(Len(events))
        PROVE  /\ out[Cardinality(Firsts(n))].key = events[n].key
               /\ out[Cardinality(Firsts(n))].key = NoIdentity =>
                    out[Cardinality(Firsts(n))] = events[n]
    <3> DEFINE m == Cardinality(Firsts(n))
    <3>1. m \in DOMAIN order /\ order[m] = Identity(events, n)
      BY <2>1, <2>2, <2>5 DEF Listing
    <3>. HIDE DEF m
    <3>2. /\ out[m].key = order[m][1]
          /\ Len(groups[order[m]]) = 1 => out[m] = events[groups[order[m]][1]]
      BY <2>1, <2>3, <3>1 DEF Emitted
    <3>3. order[m][1] = events[n].key /\ (events[n].key = NoIdentity => order[m][2] = n)
      BY <3>1 DEF Identity
    <3>4. order[m] \in DOMAIN groups
      BY <2>1, <3>1 DEF FInv, Grouping
    <3>5. ASSUME out[m].key = NoIdentity PROVE out[m] = events[n]
      <4>1. Len(groups[order[m]]) = 1 /\ groups[order[m]][1] = order[m][2]
        BY <2>1, <3>2, <3>4, <3>5, AnonymousAlone
      <4>. QED  BY <3>2, <3>3, <3>5, <4>1
    <3>. QED  BY <3>2, <3>3, <3>5 DEF m
  <2>. QED  BY <2>4, <2>5
<1>. QED  BY <1>1, TallyInvAlways, PTL

\* However often rows have been folded before, the additive fold neither loses a
\* contribution nor counts one twice, and names the contributors it counted.
THEOREM EveryoneCounted == Spec => []ContributorsCounted
<1>1. TallyInv => ContributorsCounted
  <2>. SUFFICES ASSUME TallyInv, pc = "done", mode = "additive" PROVE
         /\ WeightOf(out) = WeightOf(events)
         /\ \A m \in DOMAIN out : Counted(events, out[m])
    <3>1. \A key : NamedIn(events, key) = NamedFor(key)
      BY DEF NamedIn, NamedFor
    <3>. QED  BY <3>1 DEF ContributorsCounted, Counted, UpTo
  <2>1. FInv /\ Weighing /\ Counting
    BY DEF TallyInv
  <2>2. /\ events \in Seq(Row) /\ Seen = Len(events)
        /\ Len(out) = Len(order) /\ DOMAIN out = DOMAIN order
    BY <2>1 DEF FInv, Progress, FType, Seen
  <2>3. \A m \in DOMAIN out : /\ Weight(out[m]) = WeightOf(Rows(events, groups[order[m]]))
                              /\ Counted(events, out[m])
    BY <2>1 DEF Counting
  <2>4. WeightOf(out) = Total(GroupWeights)
    <3>1. [ m \in DOMAIN out |-> Weight(out[m]) ] = GroupWeights
      BY <2>2, <2>3 DEF GroupWeights
    <3>. QED  BY <3>1 DEF WeightOf
  <2>5. Total(GroupWeights) = WeightOf(events)
    <3>1. Prefix(events, Len(events)) = events
      BY <2>2, ListOf, PrefixNext
    <3>. QED  BY <2>1, <2>2, <3>1 DEF Weighing
  <2>. QED  BY <2>3, <2>4, <2>5
<1>. QED  BY <1>1, TallyInvAlways, PTL

-----------------------------------------------------------------------------
(* The members of a set, in their order: a recursive function of how far    *)
(* the listing has come.                                                   *)

Listings(S, f, n) ==
  f = [ m \in 0 .. n |-> IF m = 0 THEN << >>
                         ELSE IF m \in S THEN Append(f[m - 1], m) ELSE f[m - 1] ]

LEMMA ListingsExist ==
  ASSUME NEW S, NEW n \in Nat
  PROVE  \E f : Listings(S, f, n)
<1>. DEFINE T == {m \in Nat : \E f : Listings(S, f, m)}
            Step(f, m) == IF m = 0 THEN << >>
                          ELSE IF m \in S THEN Append(f[m - 1], m) ELSE f[m - 1]
<1>1. 0 \in T
  <2>. DEFINE f == [m \in 0 .. 0 |-> << >>]
  <2>1. f = [m \in 0 .. 0 |-> IF m = 0 THEN << >>
                              ELSE IF m \in S THEN Append(f[m - 1], m) ELSE f[m - 1]]
    OBVIOUS
  <2>. HIDE DEF f
  <2>2. Listings(S, f, 0)
    BY <2>1 DEF Listings
  <2>. QED  BY <2>2
<1>2. ASSUME NEW m \in T
      PROVE  m + 1 \in T
  <2>1. m \in Nat
    OBVIOUS
  <2>2. PICK f : Listings(S, f, m)
    OBVIOUS
  <2>. DEFINE g == [k \in 0 .. m + 1 |-> IF k \in 0 .. m THEN f[k] ELSE Step(f, k)]
  <2>3. ASSUME NEW k \in 0 .. m + 1
        PROVE  g[k] = Step(g, k)
    <3>1. CASE k = 0
      BY <2>1, <2>2, <3>1 DEF Listings
    <3>2. CASE k # 0 /\ k \in 0 .. m
      <4>1. k - 1 \in 0 .. m /\ k - 1 \in 0 .. m + 1
        BY <2>1, <3>2
      <4>2. f[k] = Step(f, k)
        BY <2>2, <3>2 DEF Listings
      <4>3. g[k] = f[k] /\ g[k - 1] = f[k - 1]
        BY <3>2, <4>1
      <4>. HIDE DEF g
      <4>. QED  BY <3>2, <4>2, <4>3
    <3>3. CASE k # 0 /\ k \notin 0 .. m
      <4>1. k - 1 \in 0 .. m /\ k - 1 \in 0 .. m + 1
        BY <2>1, <3>3
      <4>2. g[k] = Step(f, k) /\ g[k - 1] = f[k - 1]
        BY <3>3, <4>1
      <4>. HIDE DEF g
      <4>. QED  BY <3>3, <4>2
    <3>. QED  BY <3>1, <3>2, <3>3
  <2>4. g = [k \in 0 .. m + 1 |-> g[k]]
    OBVIOUS
  <2>. HIDE DEF g
  <2>5. g = [k \in 0 .. m + 1 |-> Step(g, k)]
    BY <2>3, <2>4
  <2>6. Listings(S, g, m + 1)
    BY <2>5 DEF Listings
  <2>. QED  BY <2>1, <2>6
<1>. HIDE DEF T
<1>3. T = Nat
  <2>1. T \in SUBSET Nat
    BY DEF T
  <2>. QED  BY <1>1, <1>2, <2>1, NaturalsByInduction
<1>. QED  BY <1>3 DEF T

LEMMA ListingsAgree ==
  ASSUME NEW S, NEW f, NEW g, NEW n \in Nat, NEW k \in Nat,
         Listings(S, f, n), Listings(S, g, k), k <= n
  PROVE  f[k] = g[k]
<1>. DEFINE T == {m \in Nat : m <= k => f[m] = g[m]}
<1>1. 0 \in T
  BY DEF Listings
<1>2. ASSUME NEW m \in T
      PROVE  m + 1 \in T
  <2>. SUFFICES ASSUME m + 1 <= k
                PROVE  f[m + 1] = g[m + 1]
    OBVIOUS
  <2>1. /\ m \in Nat /\ m + 1 \in 0 .. n /\ m + 1 \in 0 .. k /\ m + 1 # 0 /\ (m + 1) - 1 = m
        /\ f[m] = g[m]
    OBVIOUS
  <2>2. /\ f[m + 1] = IF m + 1 \in S THEN Append(f[(m + 1) - 1], m + 1) ELSE f[(m + 1) - 1]
        /\ g[m + 1] = IF m + 1 \in S THEN Append(g[(m + 1) - 1], m + 1) ELSE g[(m + 1) - 1]
    BY <2>1 DEF Listings
  <2>. QED  BY <2>1, <2>2
<1>. HIDE DEF T
<1>3. T = Nat
  <2>1. T \in SUBSET Nat
    BY DEF T
  <2>. QED  BY <1>1, <1>2, <2>1, NaturalsByInduction
<1>. QED  BY <1>3 DEF T

LEMMA UpwardIs ==
  ASSUME NEW S, NEW n \in Nat
  PROVE  \E f : Listings(S, f, n) /\ Upward(S, n) = f[n]
<1>. DEFINE upTo == CHOOSE f : f = [ m \in 0 .. n |->
                      IF m = 0 THEN << >>
                      ELSE IF m \in S THEN Append(f[m - 1], m) ELSE f[m - 1] ]
<1>1. \E f : f = [ m \in 0 .. n |-> IF m = 0 THEN << >>
                      ELSE IF m \in S THEN Append(f[m - 1], m) ELSE f[m - 1] ]
  <2>1. PICK f : Listings(S, f, n)
    BY ListingsExist
  <2>. QED  BY <2>1 DEF Listings
<1>2. upTo = [ m \in 0 .. n |-> IF m = 0 THEN << >>
                      ELSE IF m \in S THEN Append(upTo[m - 1], m) ELSE upTo[m - 1] ]
  BY <1>1
<1>3. Upward(S, n) = upTo[n]
  BY DEF Upward
<1>. HIDE DEF upTo
<1>4. Listings(S, upTo, n)
  BY <1>2 DEF Listings
<1>. QED  BY <1>3, <1>4

LEMMA UpwardNext ==
  ASSUME NEW S, NEW n \in Nat
  PROVE  /\ Upward(S, 0) = << >>
         /\ n + 1 \in S => Upward(S, n + 1) = Append(Upward(S, n), n + 1)
         /\ n + 1 \notin S => Upward(S, n + 1) = Upward(S, n)
<1>1. Upward(S, 0) = << >>
  <2>1. PICK f : Listings(S, f, 0) /\ Upward(S, 0) = f[0]
    BY UpwardIs
  <2>. QED  BY <2>1 DEF Listings
<1>2. PICK f : Listings(S, f, n) /\ Upward(S, n) = f[n]
  BY UpwardIs
<1>3. PICK g : Listings(S, g, n + 1) /\ Upward(S, n + 1) = g[n + 1]
  BY UpwardIs
<1>4. g[n] = f[n]
  <2>1. n + 1 \in Nat /\ n <= n + 1
    OBVIOUS
  <2>. QED  BY <1>2, <1>3, <2>1, ListingsAgree
<1>5. g[n + 1] = IF n + 1 \in S THEN Append(g[n], n + 1) ELSE g[n]
  <2>1. n + 1 \in 0 .. n + 1 /\ n + 1 # 0 /\ (n + 1) - 1 = n
    OBVIOUS
  <2>2. g[n + 1] = IF n + 1 \in S THEN Append(g[(n + 1) - 1], n + 1) ELSE g[(n + 1) - 1]
    BY <1>3, <2>1 DEF Listings
  <2>. QED  BY <2>1, <2>2
<1>. QED  BY <1>1, <1>2, <1>3, <1>4, <1>5

LEMMA AppendFacts ==
  ASSUME NEW S, NEW s \in Seq(S), NEW x \in S
  PROVE  /\ Append(s, x) \in Seq(S) /\ Len(Append(s, x)) = Len(s) + 1 /\ Len(s) \in Nat
         /\ DOMAIN s = 1 .. Len(s) /\ DOMAIN Append(s, x) = 1 .. Len(s) + 1
         /\ Append(s, x)[Len(s) + 1] = x
         /\ \A n \in 1 .. Len(s) : Append(s, x)[n] = s[n]
OBVIOUS

\* Its entries are the members up to n, each once, and they rise.
UpwardSpec(S, n) ==
  LET u == Upward(S, n) IN
  /\ u \in Seq(Nat)
  /\ \A x \in DOMAIN u : u[x] \in S /\ u[x] \in 1 .. n
  /\ \A x, y \in DOMAIN u : x < y => u[x] < u[y]
  /\ \A m \in 1 .. n : m \in S => \E x \in DOMAIN u : u[x] = m

LEMMA UpwardMembers ==
  ASSUME NEW S, NEW n \in Nat
  PROVE  UpwardSpec(S, n)
<1>. DEFINE T == {m \in Nat : UpwardSpec(S, m)}
<1>1. 0 \in T
  <2>1. Upward(S, 0) = << >>
    BY UpwardNext
  <2>2. << >> \in Seq(Nat) /\ DOMAIN << >> = {} /\ 1 .. 0 = {}
    OBVIOUS
  <2>3. UpwardSpec(S, 0)
    BY <2>1, <2>2, Zenon DEF UpwardSpec
  <2>. QED  BY <2>3
<1>2. ASSUME NEW m \in T
      PROVE  m + 1 \in T
  <2>. DEFINE u == Upward(S, m)  v == Upward(S, m + 1)
  <2>1. /\ m \in Nat /\ u \in Seq(Nat)
        /\ \A x \in DOMAIN u : u[x] \in S /\ u[x] \in 1 .. m
        /\ \A x, y \in DOMAIN u : x < y => u[x] < u[y]
        /\ \A l \in 1 .. m : l \in S => \E x \in DOMAIN u : u[x] = l
    BY DEF UpwardSpec
  <2>2. (m + 1 \in S => v = Append(u, m + 1)) /\ (m + 1 \notin S => v = u)
    BY <2>1, UpwardNext
  <2>. HIDE DEF u, v
  <2>3. 1 .. m + 1 = (1 .. m) \cup {m + 1}
    BY <2>1
  <2>4. /\ v \in Seq(Nat)
        /\ \A x \in DOMAIN v : v[x] \in S /\ v[x] \in 1 .. m + 1
        /\ \A x, y \in DOMAIN v : x < y => v[x] < v[y]
        /\ \A l \in 1 .. m + 1 : l \in S => \E x \in DOMAIN v : v[x] = l
    <3>1. CASE m + 1 \notin S
      BY <2>1, <2>2, <2>3, <3>1
    <3>2. CASE m + 1 \in S
      <4>1. /\ v \in Seq(Nat) /\ Len(v) = Len(u) + 1 /\ Len(u) \in Nat
            /\ DOMAIN u = 1 .. Len(u) /\ DOMAIN v = 1 .. Len(u) + 1
            /\ v[Len(u) + 1] = m + 1 /\ \A x \in 1 .. Len(u) : v[x] = u[x]
        <5>1. m + 1 \in Nat /\ v = Append(u, m + 1)
          BY <2>1, <2>2, <3>2
        <5>. QED  BY <2>1, <5>1, AppendFacts
      <4>2. \A x \in DOMAIN v : x = Len(u) + 1 \/ x \in DOMAIN u
        BY <4>1
      <4>3. \A x \in DOMAIN v : v[x] \in S /\ v[x] \in 1 .. m + 1
        BY <2>1, <2>3, <3>2, <4>1, <4>2
      <4>4. ASSUME NEW x \in DOMAIN v, NEW y \in DOMAIN v, x < y
            PROVE  v[x] < v[y]
        <5>1. x \in DOMAIN u
          BY <4>1, <4>2, <4>4
        <5>2. CASE y \in DOMAIN u
          BY <2>1, <4>1, <4>4, <5>1, <5>2
        <5>3. CASE y = Len(u) + 1
          <6>1. v[y] = m + 1 /\ v[x] = u[x] /\ u[x] \in 1 .. m
            BY <2>1, <4>1, <5>1, <5>3
          <6>. QED  BY <2>1, <6>1
        <5>. QED  BY <4>2, <4>4, <5>2, <5>3
      <4>5. \A l \in 1 .. m + 1 : l \in S => \E x \in DOMAIN v : v[x] = l
        <5>1. Len(u) + 1 \in DOMAIN v /\ \A x \in DOMAIN u : x \in DOMAIN v
          BY <4>1
        <5>. QED  BY <2>1, <2>3, <4>1, <5>1
      <4>. QED  BY <4>1, <4>3, <4>4, <4>5
    <3>. QED  BY <3>1, <3>2
  <2>. QED  BY <2>1, <2>4 DEF UpwardSpec, v
<1>. HIDE DEF T
<1>3. T = Nat
  <2>1. T \in SUBSET Nat
    BY DEF T
  <2>. QED  BY <1>1, <1>2, <2>1, NaturalsByInduction
<1>. QED  BY <1>3 DEF T

\* Only the members up to n matter.
LEMMA UpwardSame ==
  ASSUME NEW S, NEW R, NEW n \in Nat, \A m \in 1 .. n : m \in S <=> m \in R
  PROVE  Upward(S, n) = Upward(R, n)
<1>. DEFINE T == {m \in Nat : m <= n => Upward(S, m) = Upward(R, m)}
<1>1. 0 \in T
  BY UpwardNext
<1>2. ASSUME NEW m \in T
      PROVE  m + 1 \in T
  <2>. SUFFICES ASSUME m + 1 <= n
                PROVE  Upward(S, m + 1) = Upward(R, m + 1)
    OBVIOUS
  <2>1. m \in Nat /\ m <= n /\ m + 1 \in 1 .. n /\ Upward(S, m) = Upward(R, m)
    OBVIOUS
  <2>2. m + 1 \in S <=> m + 1 \in R
    BY <2>1
  <2>. QED  BY <2>1, <2>2, UpwardNext
<1>. HIDE DEF T
<1>3. T = Nat
  <2>1. T \in SUBSET Nat
    BY DEF T
  <2>. QED  BY <1>1, <1>2, <2>1, NaturalsByInduction
<1>. QED  BY <1>3 DEF T

LEMMA UpwardNone ==
  ASSUME NEW S, NEW n \in Nat, \A m \in 1 .. n : m \notin S
  PROVE  Upward(S, n) = << >>
<1>1. UpwardSpec(S, n)
  BY UpwardMembers
<1>2. DOMAIN Upward(S, n) = {} /\ Upward(S, n) \in Seq(Nat)
  BY <1>1 DEF UpwardSpec
<1>. QED  BY <1>2

LEMMA UpwardOnly ==
  ASSUME NEW S, NEW n \in Nat, NEW k \in 1 .. n, \A m \in 1 .. n : m \in S <=> m = k
  PROVE  Upward(S, n) = << k >>
<1>. DEFINE u == Upward(S, n)
<1>1. /\ u \in Seq(Nat)
      /\ \A x \in DOMAIN u : u[x] = k
      /\ \A x, y \in DOMAIN u : x < y => u[x] < u[y]
      /\ \E x \in DOMAIN u : u[x] = k
  <2>1. UpwardSpec(S, n)
    BY UpwardMembers
  <2>. QED  BY <2>1 DEF UpwardSpec
<1>. HIDE DEF u
<1>2. Len(u) \in Nat /\ DOMAIN u = 1 .. Len(u) /\ Len(u) # 0
  BY <1>1
<1>3. ~(Len(u) > 1)
  <2>. SUFFICES ASSUME Len(u) > 1 PROVE FALSE
    OBVIOUS
  <2>1. 1 \in DOMAIN u /\ 2 \in DOMAIN u
    BY <1>2
  <2>. QED  BY <1>1, <2>1
<1>4. Len(u) = 1 /\ u[1] = k
  BY <1>1, <1>2, <1>3
<1>. QED  BY <1>1, <1>4 DEF u

LEMMA UpwardAll ==
  ASSUME NEW S, NEW n \in Nat, \A m \in 1 .. n : m \in S
  PROVE  Upward(S, n) = [ m \in 1 .. n |-> m ]
<1>. DEFINE T == {m \in Nat : m <= n => Upward(S, m) = [ l \in 1 .. m |-> l ]}
<1>1. 0 \in T
  <2>1. [ l \in 1 .. 0 |-> l ] = << >>
    OBVIOUS
  <2>. QED  BY <2>1, UpwardNext
<1>2. ASSUME NEW m \in T
      PROVE  m + 1 \in T
  <2>. SUFFICES ASSUME m + 1 <= n
                PROVE  Upward(S, m + 1) = [ l \in 1 .. m + 1 |-> l ]
    OBVIOUS
  <2>1. m \in Nat /\ m <= n /\ m + 1 \in S /\ Upward(S, m) = [ l \in 1 .. m |-> l ]
    OBVIOUS
  <2>2. Append([ l \in 1 .. m |-> l ], m + 1) = [ l \in 1 .. m + 1 |-> l ]
    <3>. DEFINE a == [ l \in 1 .. m |-> l ]  b == [ l \in 1 .. m + 1 |-> l ]
    <3>1. a \in Seq(Nat) /\ Len(a) = m /\ b \in Seq(Nat) /\ Len(b) = m + 1
      BY <2>1
    <3>2. \A l \in 1 .. m : a[l] = l
      OBVIOUS
    <3>3. \A l \in 1 .. m + 1 : b[l] = l
      OBVIOUS
    <3>. HIDE DEF a, b
    <3>4. /\ Append(a, m + 1) \in Seq(Nat) /\ Len(Append(a, m + 1)) = m + 1
          /\ \A l \in 1 .. m + 1 : Append(a, m + 1)[l] = b[l]
      BY <2>1, <3>1, <3>2, <3>3
    <3>5. Append(a, m + 1) = b
      BY <2>1, <3>1, <3>4
    <3>. QED  BY <3>5 DEF a, b
  <2>3. Upward(S, m + 1) = Append(Upward(S, m), m + 1)
    BY <2>1, UpwardNext
  <2>. QED  BY <2>1, <2>2, <2>3, Zenon
<1>. HIDE DEF T
<1>3. T = Nat
  <2>1. T \in SUBSET Nat
    BY DEF T
  <2>. QED  BY <1>1, <1>2, <2>1, NaturalsByInduction
<1>. QED  BY <1>3 DEF T

-----------------------------------------------------------------------------
(* Merging one row after the other.                                        *)

Merges(rows, f, n) ==
  f = [ m \in 1 .. n |-> IF m = 1 THEN rows[1] ELSE MergeInto(f[m - 1], rows[m]) ]

LEMMA MergesExist ==
  ASSUME NEW rows, NEW n \in Nat
  PROVE  \E f : Merges(rows, f, n)
<1>. DEFINE T == {m \in Nat : \E f : Merges(rows, f, m)}
            Step(f, m) == IF m = 1 THEN rows[1] ELSE MergeInto(f[m - 1], rows[m])
<1>. HIDE DEF MergeInto
<1>1. 0 \in T
  <2>. DEFINE f == [m \in 1 .. 0 |-> rows[1]]
  <2>1. f = [m \in 1 .. 0 |-> IF m = 1 THEN rows[1] ELSE MergeInto(f[m - 1], rows[m])]
    OBVIOUS
  <2>. HIDE DEF f
  <2>2. Merges(rows, f, 0)
    BY <2>1 DEF Merges
  <2>. QED  BY <2>2
<1>2. ASSUME NEW m \in T
      PROVE  m + 1 \in T
  <2>1. m \in Nat
    OBVIOUS
  <2>2. PICK f : Merges(rows, f, m)
    OBVIOUS
  <2>. DEFINE g == [k \in 1 .. m + 1 |-> IF k \in 1 .. m THEN f[k] ELSE Step(f, k)]
  <2>3. ASSUME NEW k \in 1 .. m + 1
        PROVE  g[k] = Step(g, k)
    <3>1. CASE k = 1
      BY <2>1, <2>2, <3>1 DEF Merges
    <3>2. CASE k # 1 /\ k \in 1 .. m
      <4>1. k - 1 \in 1 .. m /\ k - 1 \in 1 .. m + 1
        BY <2>1, <3>2
      <4>2. f[k] = Step(f, k)
        BY <2>2, <3>2 DEF Merges
      <4>3. g[k] = f[k] /\ g[k - 1] = f[k - 1]
        BY <3>2, <4>1
      <4>. HIDE DEF g
      <4>. QED  BY <3>2, <4>2, <4>3
    <3>3. CASE k # 1 /\ k \notin 1 .. m
      <4>1. k - 1 \in 1 .. m /\ k - 1 \in 1 .. m + 1
        BY <2>1, <3>3
      <4>2. g[k] = Step(f, k) /\ g[k - 1] = f[k - 1]
        BY <3>3, <4>1
      <4>. HIDE DEF g
      <4>. QED  BY <3>3, <4>2
    <3>. QED  BY <3>1, <3>2, <3>3
  <2>4. g = [k \in 1 .. m + 1 |-> g[k]]
    OBVIOUS
  <2>. HIDE DEF g
  <2>5. g = [k \in 1 .. m + 1 |-> Step(g, k)]
    BY <2>3, <2>4
  <2>6. Merges(rows, g, m + 1)
    BY <2>5 DEF Merges
  <2>. QED  BY <2>1, <2>6
<1>. HIDE DEF T
<1>3. T = Nat
  <2>1. T \in SUBSET Nat
    BY DEF T
  <2>. QED  BY <1>1, <1>2, <2>1, NaturalsByInduction
<1>. QED  BY <1>3 DEF T

LEMMA MergesAgree ==
  ASSUME NEW rows, NEW others, NEW f, NEW g, NEW n \in Nat, NEW k \in Nat \ {0},
         Merges(rows, f, n), Merges(others, g, k), k <= n,
         \A m \in 1 .. k : rows[m] = others[m]
  PROVE  f[k] = g[k]
<1>. DEFINE T == {m \in Nat : m + 1 <= k => f[m + 1] = g[m + 1]}
<1>1. 0 \in T
  <2>1. 1 \in 1 .. n /\ 1 \in 1 .. k
    OBVIOUS
  <2>2. f[1] = rows[1] /\ g[1] = others[1]
    BY <2>1 DEF Merges
  <2>. QED  BY <2>1, <2>2
<1>2. ASSUME NEW m \in T
      PROVE  m + 1 \in T
  <2>. SUFFICES ASSUME m + 2 <= k
                PROVE  f[m + 2] = g[m + 2]
    OBVIOUS
  <2>1. /\ m \in Nat /\ m + 2 \in 1 .. n /\ m + 2 \in 1 .. k /\ m + 2 # 1 /\ (m + 2) - 1 = m + 1
        /\ f[m + 1] = g[m + 1] /\ rows[m + 2] = others[m + 2]
    OBVIOUS
  <2>2. /\ f[m + 2] = MergeInto(f[(m + 2) - 1], rows[m + 2])
        /\ g[m + 2] = MergeInto(g[(m + 2) - 1], others[m + 2])
    BY <2>1 DEF Merges
  <2>. QED  BY <2>1, <2>2
<1>. HIDE DEF T
<1>3. T = Nat
  <2>1. T \in SUBSET Nat
    BY DEF T
  <2>. QED  BY <1>1, <1>2, <2>1, NaturalsByInduction
<1>4. k - 1 \in T
  BY <1>3
<1>. QED  BY <1>4 DEF T

LEMMA MergedIs ==
  ASSUME NEW rows, Len(rows) \in Nat
  PROVE  \E f : Merges(rows, f, Len(rows)) /\ Merged(rows) = f[Len(rows)]
<1>. DEFINE upTo == CHOOSE f : f = [ m \in 1 .. Len(rows) |->
                      IF m = 1 THEN rows[1] ELSE MergeInto(f[m - 1], rows[m]) ]
<1>1. \E f : f = [ m \in 1 .. Len(rows) |->
                      IF m = 1 THEN rows[1] ELSE MergeInto(f[m - 1], rows[m]) ]
  <2>1. PICK f : Merges(rows, f, Len(rows))
    BY MergesExist
  <2>. QED  BY <2>1 DEF Merges
<1>2. upTo = [ m \in 1 .. Len(rows) |->
                 IF m = 1 THEN rows[1] ELSE MergeInto(upTo[m - 1], rows[m]) ]
  BY <1>1
<1>3. Merged(rows) = upTo[Len(rows)]
  BY DEF Merged
<1>. HIDE DEF upTo
<1>4. Merges(rows, upTo, Len(rows))
  BY <1>2 DEF Merges
<1>. QED  BY <1>3, <1>4

LEMMA MergedOne ==
  ASSUME NEW rows \in Seq(Row), Len(rows) = 1
  PROVE  Merged(rows) = rows[1]
<1>1. Len(rows) \in Nat
  OBVIOUS
<1>2. PICK f : Merges(rows, f, Len(rows)) /\ Merged(rows) = f[Len(rows)]
  BY <1>1, MergedIs
<1>. QED  BY <1>2 DEF Merges

LEMMA MergedAppend ==
  ASSUME NEW rows \in Seq(Row), rows # << >>, NEW r \in Row
  PROVE  Merged(Append(rows, r)) = MergeInto(Merged(rows), r)
<1>. DEFINE more == Append(rows, r)  n == Len(rows)
<1>1. /\ n \in Nat \ {0} /\ Len(more) = n + 1 /\ more[n + 1] = r
      /\ \A m \in 1 .. n : more[m] = rows[m]
  BY AppendFacts
<1>. HIDE DEF more, n
<1>2. PICK f : Merges(rows, f, n) /\ Merged(rows) = f[n]
  BY <1>1, MergedIs DEF n
<1>3. PICK g : Merges(more, g, n + 1) /\ Merged(more) = g[n + 1]
  <2>1. Len(more) \in Nat
    BY <1>1
  <2>. QED  BY <1>1, <2>1, MergedIs
<1>4. g[n] = f[n]
  <2>1. n + 1 \in Nat /\ n <= n + 1
    BY <1>1
  <2>. QED  BY <1>1, <1>2, <1>3, <2>1, MergesAgree
<1>5. g[n + 1] = MergeInto(g[n], r)
  <2>1. n + 1 \in 1 .. n + 1 /\ n + 1 # 1 /\ (n + 1) - 1 = n
    BY <1>1
  <2>2. g[n + 1] = MergeInto(g[(n + 1) - 1], more[n + 1])
    BY <1>3, <2>1 DEF Merges
  <2>. QED  BY <1>1, <2>1, <2>2
<1>. QED  BY <1>2, <1>3, <1>4, <1>5 DEF more

\* What has been merged is a row of its first row's key, with that row's counters.
LikeFirst(r, rows) ==
  /\ r \in Row /\ r.key = rows[1].key
  /\ r.src = rows[1].src /\ r.ref = rows[1].ref
  /\ r.count = rows[1].count /\ r.by = rows[1].by

LEMMA MergedType ==
  ASSUME NEW rows \in Seq(Row), rows # << >>
  PROVE  LikeFirst(Merged(rows), rows)
<1>. DEFINE T == {m \in Nat : m + 1 <= Len(rows) =>
                               LikeFirst(Merged(Prefix(rows, m + 1)), rows)}
<1>0. IsList(rows) /\ Len(rows) \in Nat \ {0} /\ rows[1] \in Row
  BY ListOf
<1>1. 0 \in T
  <2>1. /\ Prefix(rows, 1) \in Seq(Row) /\ Len(Prefix(rows, 1)) = 1
        /\ Prefix(rows, 1)[1] = rows[1]
    BY <1>0 DEF Prefix
  <2>2. Merged(Prefix(rows, 1)) = rows[1]
    BY <2>1, MergedOne
  <2>. QED  BY <1>0, <2>2 DEF LikeFirst
<1>2. ASSUME NEW m \in T
      PROVE  m + 1 \in T
  <2>. DEFINE p == Prefix(rows, m + 1)
              r == rows[m + 2]
  <2>. SUFFICES ASSUME m + 2 <= Len(rows)
                PROVE  LikeFirst(Merged(Prefix(rows, m + 2)), rows)
    OBVIOUS
  <2>1. m \in Nat /\ m + 1 \in Nat /\ m + 1 < Len(rows) /\ (m + 1) + 1 = m + 2
    BY <1>0
  <2>2. LikeFirst(Merged(p), rows)
    BY <1>0, <2>1
  <2>3. p \in Seq(Row) /\ Len(p) = m + 1 /\ r \in Row
    BY <1>0, <2>1 DEF Prefix
  <2>4. Prefix(rows, (m + 1) + 1) = Append(Prefix(rows, m + 1), rows[(m + 1) + 1])
    BY <1>0, <2>1, PrefixNext
  <2>5. Prefix(rows, m + 2) = Append(p, r)
    BY <2>1, <2>4
  <2>. HIDE DEF p, r
  <2>6. Merged(Append(p, r)) = MergeInto(Merged(p), r)
    <3>1. p # << >>
      BY <2>1, <2>3
    <3>. QED  BY <2>3, <3>1, MergedAppend
  <2>. DEFINE a == Merged(p)  b == MergeInto(a, r)
  <2>7. a \in Row
    BY <2>2 DEF LikeFirst
  <2>. HIDE DEF a
  <2>8. /\ b \in Row /\ b.key = a.key
        /\ b.src = a.src /\ b.ref = a.ref /\ b.count = a.count /\ b.by = a.by
    BY <2>3, <2>7, MergeType, MergeCounters
  <2>. HIDE DEF b
  <2>9. LikeFirst(b, rows)
    BY <2>2, <2>8 DEF LikeFirst, a
  <2>. QED  BY <2>5, <2>6, <2>9 DEF a, b
<1>. HIDE DEF T
<1>3. T = Nat
  <2>1. T \in SUBSET Nat
    BY DEF T
  <2>. QED  BY <1>1, <1>2, <2>1, NaturalsByInduction
<1>4. Len(rows) - 1 \in T
  BY <1>0, <1>3
<1>5. LikeFirst(Merged(Prefix(rows, Len(rows))), rows)
  BY <1>0, <1>4 DEF T
<1>6. Prefix(rows, Len(rows)) = rows
  BY <1>0, PrefixNext
<1>. QED  BY <1>5, <1>6

-----------------------------------------------------------------------------
(* What a group becomes, and what it becomes with one row more.            *)

Folding(same) == IF Len(same) = 1 THEN same[1] ELSE Seal(Merged(same), same)

LEMMA SealType ==
  ASSUME NEW r \in Row, NEW rows \in Seq(Row)
  PROVE  /\ Seal(r, rows) \in Row /\ Seal(r, rows).key = r.key
         /\ Seal(r, rows).count = WeightOf(rows)
         /\ Seal(r, rows).by = Capped(Named(rows))
         /\ Seal(r, rows).src = r.src /\ Seal(r, rows).ref = r.ref
         /\ Seal(r, rows).vals = r.vals /\ Seal(r, rows).srcs = r.srcs
         /\ Seal(r, rows).conflicts = r.conflicts
<1>. DEFINE weight == WeightOf(rows)  names == Capped(Named(rows))
<1>1. weight \in Nat /\ names \in Seq(Contributor)
  BY WeightOfType, NamedType, CappedIs
<1>2. Seal(r, rows) = [ r EXCEPT !.count = weight, !.by = names ]
  BY DEF Seal
<1>. HIDE DEF weight, names
<1>3. /\ Seal(r, rows) \in Row /\ Seal(r, rows).key = r.key
      /\ Seal(r, rows).count = weight /\ Seal(r, rows).by = names
      /\ Seal(r, rows).src = r.src /\ Seal(r, rows).ref = r.ref
      /\ Seal(r, rows).vals = r.vals /\ Seal(r, rows).srcs = r.srcs
      /\ Seal(r, rows).conflicts = r.conflicts
  BY <1>1, <1>2 DEF Row
<1>. QED  BY <1>3 DEF weight, names

LEMMA FoldingType ==
  ASSUME NEW rows \in Seq(Row), rows # << >>
  PROVE  Folding(rows) \in Row /\ Folding(rows).key = rows[1].key
<1>1. LikeFirst(Merged(rows), rows)
  BY MergedType
<1>2. rows[1] \in Row
  OBVIOUS
<1>. DEFINE merged == Merged(rows)
<1>3. merged \in Row /\ merged.key = rows[1].key
  BY <1>1 DEF LikeFirst
<1>. HIDE DEF merged
<1>4. Seal(merged, rows) \in Row /\ Seal(merged, rows).key = merged.key
  BY <1>3, SealType
<1>. QED  BY <1>2, <1>3, <1>4 DEF Folding, merged

\* A row is what its fields say.
LEMMA SameRow ==
  ASSUME NEW r \in Row, NEW other \in Row,
         r.key = other.key, r.src = other.src, r.ref = other.ref, r.vals = other.vals,
         r.srcs = other.srcs, r.conflicts = other.conflicts, r.count = other.count,
         r.by = other.by
  PROVE  r = other
<1>1. \A x \in Row : x = [ key |-> x.key, src |-> x.src, ref |-> x.ref, vals |-> x.vals,
                           srcs |-> x.srcs, conflicts |-> x.conflicts, count |-> x.count,
                           by |-> x.by ]
  BY DEF Row
<1>. QED  BY <1>1, Zenon

\* Merging reads what a row says, not how it was counted.
LEMMA MergeAfterSeal ==
  ASSUME NEW r \in Row, NEW sealed \in Row, NEW other \in Row,
         sealed.key = r.key, sealed.src = r.src, sealed.ref = r.ref, sealed.vals = r.vals,
         sealed.srcs = r.srcs, sealed.conflicts = r.conflicts
  PROVE  LET a == MergeInto(sealed, other)  b == MergeInto(r, other) IN
         /\ a.key = b.key /\ a.src = b.src /\ a.ref = b.ref /\ a.vals = b.vals
         /\ a.srcs = b.srcs /\ a.conflicts = b.conflicts
<1>. DEFINE a == MergeInto(sealed, other)  b == MergeInto(r, other)
            merged(x) == IF other.src \in ToSet(SourcesOf(x)) THEN SourcesOf(x)
                         ELSE Append(SourcesOf(x), other.src)
<1>1. a.srcs = merged(sealed) /\ b.srcs = merged(r)
  BY DEF MergeInto, Row
<1>2. SourcesOf(sealed) = SourcesOf(r)
  BY DEF SourcesOf
<1>3. \A f : Has(sealed, f) = Has(r, f) /\ Disagree(sealed, other, f) = Disagree(r, other, f)
  BY DEF Has, Disagree
<1>4. /\ a.key = sealed.key /\ b.key = r.key
      /\ a.vals = [ f \in Fields |-> IF Has(sealed, f) THEN sealed.vals[f] ELSE other.vals[f] ]
      /\ b.vals = [ f \in Fields |-> IF Has(r, f) THEN r.vals[f] ELSE other.vals[f] ]
      /\ a.conflicts = [ f \in Fields |-> IF Disagree(sealed, other, f)
                           THEN Append(sealed.conflicts[f], << other.src, other.vals[f] >>)
                           ELSE sealed.conflicts[f] ]
      /\ b.conflicts = [ f \in Fields |-> IF Disagree(r, other, f)
                           THEN Append(r.conflicts[f], << other.src, other.vals[f] >>)
                           ELSE r.conflicts[f] ]
  BY MergeType
<1>5. a.src = sealed.src /\ a.ref = sealed.ref /\ b.src = r.src /\ b.ref = r.ref
  BY MergeCounters
<1>. HIDE DEF a, b
<1>6. a.vals = b.vals /\ a.conflicts = b.conflicts
  BY <1>3, <1>4
<1>7. a.srcs = b.srcs
  BY <1>1, <1>2
<1>. QED  BY <1>4, <1>5, <1>6, <1>7 DEF a, b

\* A list that was cut at the cap and is continued is cut where it always was.
LEMMA CappedTwice ==
  ASSUME NEW names \in Seq(Contributor), NEW more \in Seq(Contributor)
  PROVE  Capped(Capped(names) \o more) = Capped(names \o more)
<1>. DEFINE front == Capped(names)  a == front \o more  b == names \o more
<1>1. Cap \in Nat /\ Len(names) \in Nat /\ Len(more) \in Nat
  BY FoldAssumption
<1>2. /\ front \in Seq(Contributor) /\ Len(front) = UpTo(Len(names))
      /\ Len(names) <= Cap => front = names
  BY CappedIs
<1>3. \A m \in 1 .. Len(front) : front[m] = names[m]
  BY <1>1, <1>2 DEF Capped, UpTo
<1>. HIDE DEF front
<1>4. CASE Len(names) <= Cap
  BY <1>2, <1>4 DEF front
<1>5. CASE ~(Len(names) <= Cap)
  <2>1. Len(front) = Cap
    BY <1>1, <1>2, <1>5 DEF UpTo
  <2>2. a \in Seq(Contributor) /\ Len(a) = Cap + Len(more)
    BY <1>1, <1>2, <2>1
  <2>3. b \in Seq(Contributor) /\ Len(b) = Len(names) + Len(more)
    BY <1>1
  <2>4. \A m \in 1 .. Cap : a[m] = front[m] /\ b[m] = names[m]
    BY <1>1, <1>2, <1>5, <2>1
  <2>. HIDE DEF a, b
  <2>5. Capped(a) = SubSeq(a, 1, Cap) /\ Capped(b) = SubSeq(b, 1, Cap)
    BY <1>1, <1>5, <2>2, <2>3 DEF Capped
  <2>6. \A m \in 1 .. Cap : a[m] = b[m]
    BY <1>3, <2>1, <2>4
  <2>7. SubSeq(a, 1, Cap) = SubSeq(b, 1, Cap)
    BY <1>1, <1>5, <2>2, <2>3, <2>6
  <2>. QED  BY <2>5, <2>7 DEF a, b, front
<1>. QED  BY <1>4, <1>5

LEMMA NoNames ==
  ASSUME NEW names \in Seq(Contributor), Cap = 0
  PROVE  Capped(names) = << >>
<1>1. Capped(names) \in Seq(Contributor) /\ Len(Capped(names)) = UpTo(Len(names))
  BY CappedIs
<1>2. UpTo(Len(names)) = 0
  BY DEF UpTo
<1>. HIDE DEF Capped
<1>. QED  BY <1>1, <1>2

LEMMA NamedSome ==
  ASSUME NEW rows \in Seq(Row), rows # << >>
  PROVE  Named(rows) # << >>
<1>1. 1 \in DOMAIN rows /\ rows[1] \in Row
  OBVIOUS
<1>2. ContributorsOf(rows[1]) # << >> /\ ContributorsOf(rows[1]) \in Seq(Contributor)
  BY <1>1, ContributorsType DEF ContributorsOf
<1>3. ToSet(ContributorsOf(rows[1])) # {}
  <2>. DEFINE c == ContributorsOf(rows[1])
  <2>. HIDE DEF c
  <2>1. 1 \in DOMAIN c
    BY <1>2 DEF c
  <2>2. c[1] \in ToSet(c)
    BY <2>1 DEF ToSet
  <2>. QED  BY <2>2 DEF c
<1>4. ToSet(ContributorsOf(rows[1])) \subseteq ToSet(Named(rows))
  BY <1>1, NamedMembers
<1>5. ToSet(<< >>) = {}
  BY DEF ToSet
<1>. QED  BY <1>3, <1>4, <1>5

\* One row more weighs and names the same, whether it joins the group or what the
\* group became.
LEMMA CountersContinue ==
  ASSUME NEW rows \in Seq(Row), rows # << >>, NEW sealed \in Row, NEW r \in Row,
         sealed.count = WeightOf(rows), sealed.by = Capped(Named(rows))
  PROVE  /\ WeightOf(<< sealed, r >>) = WeightOf(Append(rows, r))
         /\ Capped(Named(<< sealed, r >>)) = Capped(Named(Append(rows, r)))
<1>. DEFINE names == Named(rows)  mine == ContributorsOf(r)  theirs == ContributorsOf(sealed)
<1>1. << sealed >> \in Seq(Row) /\ << sealed, r >> = Append(<< sealed >>, r)
  OBVIOUS
<1>2. WeightOf(<< sealed, r >>) = Weight(sealed) + Weight(r)
  <2>1. WeightOf(Append(<< sealed >>, r)) = WeightOf(<< sealed >>) + Weight(r)
    BY <1>1, WeightOfAppend
  <2>. QED  BY <1>1, <2>1, WeightOfOne
<1>3. Weight(sealed) = WeightOf(rows)
  BY WeightOfSome DEF Weight
<1>4. WeightOf(Append(rows, r)) = WeightOf(rows) + Weight(r)
  BY WeightOfAppend
<1>5. names \in Seq(Contributor) /\ mine \in Seq(Contributor) /\ theirs \in Seq(Contributor)
  BY NamedType, ContributorsType
<1>6. Named(Append(rows, r)) = names \o mine
  BY NamedAppend
<1>7. Named(<< sealed, r >>) = theirs \o mine
  <2>1. Named(Append(<< sealed >>, r)) = Named(<< sealed >>) \o mine
    BY <1>1, NamedAppend
  <2>2. Named(<< sealed >>) = theirs
    <3>1. Named(Append(<< >>, sealed)) = Named(<< >>) \o theirs
      <4>1. << >> \in Seq(Row)
        OBVIOUS
      <4>. QED  BY <4>1, NamedAppend
    <3>2. << sealed >> = Append(<< >>, sealed)
      OBVIOUS
    <3>3. << >> \o theirs = theirs
      <4>. HIDE DEF theirs
      <4>. QED  BY <1>5
    <3>. QED  BY <3>1, <3>2, <3>3, NamedNone
  <2>. QED  BY <1>1, <2>1, <2>2
<1>8. Cap = 0 \/ theirs = Capped(names)
  <2>. SUFFICES ASSUME Cap # 0 PROVE theirs = Capped(names)
    OBVIOUS
  <2>1. Capped(names) \in Seq(Contributor) /\ Len(Capped(names)) = UpTo(Len(names))
    BY <1>5, CappedIs
  <2>2. names # << >>
    BY NamedSome
  <2>. HIDE DEF names, Capped
  <2>3. Cap \in Nat /\ Len(names) \in Nat /\ Len(names) # 0
    BY <1>5, <2>2, FoldAssumption
  <2>4. UpTo(Len(names)) # 0
    BY <2>3 DEF UpTo
  <2>5. Capped(names) # << >>
    BY <2>1, <2>4
  <2>. QED  BY <2>5 DEF ContributorsOf, names
<1>. HIDE DEF names, mine, theirs
<1>9. Capped(theirs \o mine) = Capped(names \o mine)
  <2>1. CASE theirs = Capped(names)
    BY <1>5, <2>1, CappedTwice
  <2>2. CASE Cap = 0
    <3>1. theirs \o mine \in Seq(Contributor) /\ names \o mine \in Seq(Contributor)
      BY <1>5
    <3>. QED  BY <2>2, <3>1, NoNames
  <2>. QED  BY <1>8, <2>1, <2>2
<1>. QED  BY <1>2, <1>3, <1>4, <1>6, <1>7, <1>9

LEMMA FoldingAppend ==
  ASSUME NEW rows \in Seq(Row), rows # << >>, NEW r \in Row
  PROVE  Folding(Append(rows, r)) = Seal(MergeInto(Folding(rows), r), << Folding(rows), r >>)
<1>. DEFINE more == Append(rows, r)  merged == Merged(rows)  f == Folding(rows)
<1>1. /\ more \in Seq(Row) /\ Len(more) = Len(rows) + 1 /\ Len(rows) \in Nat \ {0}
      /\ more[Len(rows) + 1] = r /\ \A m \in 1 .. Len(rows) : more[m] = rows[m]
  BY AppendFacts
<1>2. Merged(more) = MergeInto(merged, r)
  BY MergedAppend
<1>3. merged \in Row /\ f \in Row
  BY MergedType, FoldingType DEF LikeFirst
<1>4. Folding(more) = Seal(MergeInto(merged, r), more)
  BY <1>1, <1>2 DEF Folding
<1>5. CASE Len(rows) = 1
  <2>1. merged = rows[1] /\ f = rows[1]
    BY <1>5, MergedOne DEF Folding
  <2>2. more = << f, r >>
    <3>. HIDE DEF more, f
    <3>1. Len(more) = 2 /\ more[1] = f /\ more[2] = r
      BY <1>1, <1>5, <2>1
    <3>. QED  BY <1>1, <3>1
  <2>. QED  BY <1>4, <2>1, <2>2
<1>6. CASE Len(rows) # 1
  <2>1. f = Seal(merged, rows)
    BY <1>6 DEF Folding
  <2>. DEFINE a == MergeInto(merged, r)  b == MergeInto(f, r)
  <2>. HIDE DEF merged, f, more
  <2>2. /\ f.key = merged.key /\ f.src = merged.src /\ f.ref = merged.ref
        /\ f.vals = merged.vals /\ f.srcs = merged.srcs /\ f.conflicts = merged.conflicts
        /\ f.count = WeightOf(rows) /\ f.by = Capped(Named(rows))
    BY <1>3, <2>1, SealType
  <2>3. /\ b.key = a.key /\ b.src = a.src /\ b.ref = a.ref /\ b.vals = a.vals
        /\ b.srcs = a.srcs /\ b.conflicts = a.conflicts
    BY <1>3, <2>2, MergeAfterSeal
  <2>4. a \in Row /\ b \in Row
    BY <1>3, MergeType
  <2>5. /\ WeightOf(<< f, r >>) = WeightOf(more)
        /\ Capped(Named(<< f, r >>)) = Capped(Named(more))
    BY <1>3, <2>2, CountersContinue DEF more
  <2>6. << f, r >> \in Seq(Row)
    BY <1>3
  <2>. HIDE DEF a, b
  <2>. DEFINE x == Seal(a, more)  y == Seal(b, << f, r >>)
  <2>7. /\ x \in Row /\ x.key = a.key /\ x.src = a.src /\ x.ref = a.ref /\ x.vals = a.vals
        /\ x.srcs = a.srcs /\ x.conflicts = a.conflicts
        /\ x.count = WeightOf(more) /\ x.by = Capped(Named(more))
    BY <1>1, <2>4, SealType
  <2>8. /\ y \in Row /\ y.key = b.key /\ y.src = b.src /\ y.ref = b.ref /\ y.vals = b.vals
        /\ y.srcs = b.srcs /\ y.conflicts = b.conflicts
        /\ y.count = WeightOf(<< f, r >>) /\ y.by = Capped(Named(<< f, r >>))
    BY <2>4, <2>6, SealType
  <2>. HIDE DEF x, y
  <2>9. x = y
    BY <2>3, <2>5, <2>7, <2>8, SameRow
  <2>. QED  BY <1>4, <2>9 DEF x, y, a, b, merged, f, more
<1>. QED  BY <1>5, <1>6

-----------------------------------------------------------------------------
(* The fold as a function of the rows.                                     *)

LEMMA SameIdentityAs ==
  ASSUME NEW rows \in Seq(Row), NEW m \in DOMAIN rows, NEW l \in DOMAIN rows
  PROVE  /\ Identity(rows, m) = Identity(rows, l) <=>
              m = l \/ (rows[m].key = rows[l].key /\ rows[m].key # NoIdentity)
         /\ Identity(rows, m) = Identity(rows, l) => rows[m].key = rows[l].key
<1>1. m \in Nat \ {0} /\ l \in Nat \ {0}
  OBVIOUS
<1>2. Identity(rows, m) = Identity(rows, l) <=>
        /\ rows[m].key = rows[l].key
        /\ (IF rows[m].key = NoIdentity THEN m ELSE 0) =
             (IF rows[l].key = NoIdentity THEN l ELSE 0)
  BY DEF Identity
<1>. QED  BY <1>1, <1>2

LEMMA SameEventIs ==
  ASSUME NEW rows \in Seq(Row), NEW n \in DOMAIN rows
  PROVE  /\ SameEvent(rows, n) \in Seq(DOMAIN rows) /\ SameEvent(rows, n) # << >>
         /\ \A x \in DOMAIN SameEvent(rows, n) :
              Identity(rows, SameEvent(rows, n)[x]) = Identity(rows, n)
<1>. DEFINE q == Identity(rows, n)  u == SameEvent(rows, n)
<1>1. Len(rows) \in Nat /\ DOMAIN rows = 1 .. Len(rows)
  OBVIOUS
<1>2. UpwardSpec(OfIdentity(rows, q), Len(rows))
  BY <1>1, UpwardMembers
<1>3. /\ u \in Seq(Nat)
      /\ \A x \in DOMAIN u : u[x] \in OfIdentity(rows, q) /\ u[x] \in 1 .. Len(rows)
      /\ \A m \in 1 .. Len(rows) : m \in OfIdentity(rows, q) => \E x \in DOMAIN u : u[x] = m
  BY <1>2 DEF UpwardSpec, SameEvent
<1>4. n \in OfIdentity(rows, q) /\ \A m \in OfIdentity(rows, q) : Identity(rows, m) = q
  BY DEF OfIdentity
<1>. HIDE DEF q, u
<1>5. u \in Seq(1 .. Len(rows)) /\ u # << >>
  <2>1. \E x \in DOMAIN u : TRUE
    BY <1>1, <1>3, <1>4
  <2>. QED  BY <1>3, <2>1
<1>. QED  BY <1>1, <1>3, <1>4, <1>5 DEF q, u

LEMMA FirstSeenIs ==
  ASSUME NEW rows \in Seq(Row)
  PROVE  /\ FirstSeen(rows) \in Seq(DOMAIN rows)
         /\ \A x, y \in DOMAIN FirstSeen(rows) :
              x # y => Identity(rows, FirstSeen(rows)[x]) # Identity(rows, FirstSeen(rows)[y])
         /\ \A m \in DOMAIN rows : \E x \in DOMAIN FirstSeen(rows) :
              Identity(rows, FirstSeen(rows)[x]) = Identity(rows, m)
<1>. DEFINE S == NewIdentity(rows)  u == FirstSeen(rows)
<1>1. Len(rows) \in Nat /\ DOMAIN rows = 1 .. Len(rows)
  OBVIOUS
<1>2. /\ u \in Seq(Nat)
      /\ \A x \in DOMAIN u : u[x] \in S /\ u[x] \in 1 .. Len(rows)
      /\ \A x, y \in DOMAIN u : x < y => u[x] < u[y]
      /\ \A m \in 1 .. Len(rows) : m \in S => \E x \in DOMAIN u : u[x] = m
  BY <1>1, UpwardMembers DEF UpwardSpec, FirstSeen
<1>3. \A m \in S : \A l \in 1 .. m - 1 : Identity(rows, l) # Identity(rows, m)
  BY DEF NewIdentity
<1>4. ASSUME NEW m \in DOMAIN rows
      PROVE  \E l \in S : Identity(rows, l) = Identity(rows, m)
  <2>. DEFINE T == { l \in DOMAIN rows : Identity(rows, l) = Identity(rows, m) }
  <2>1. T \in SUBSET Nat /\ T # {}
    BY <1>1
  <2>2. PICK l \in T : \A y \in T : l <= y
    <3>. HIDE DEF T
    <3>. QED  BY <2>1, LeastNatural
  <2>3. ASSUME NEW y \in 1 .. l - 1, Identity(rows, y) = Identity(rows, l)
        PROVE  FALSE
    <3>1. l \in 1 .. Len(rows)
      BY <1>1
    <3>2. y \in DOMAIN rows /\ ~(l <= y)
      BY <1>1, <3>1
    <3>3. y \in T
      BY <2>2, <2>3, <3>2
    <3>. QED  BY <2>2, <3>2, <3>3
  <2>4. l \in S
    BY <2>2, <2>3 DEF NewIdentity
  <2>. QED  BY <2>2, <2>4
<1>. HIDE DEF S, u
<1>5. u \in Seq(1 .. Len(rows))
  BY <1>2
<1>6. ASSUME NEW x \in DOMAIN u, NEW y \in DOMAIN u, x < y
      PROVE  Identity(rows, u[x]) # Identity(rows, u[y])
  <2>1. u[x] < u[y] /\ u[y] \in S /\ u[x] \in 1 .. Len(rows) /\ u[y] \in 1 .. Len(rows)
    BY <1>2, <1>6
  <2>2. u[x] \in 1 .. u[y] - 1
    BY <1>1, <2>1
  <2>. QED  BY <1>3, <2>1, <2>2
<1>7. ASSUME NEW x \in DOMAIN u, NEW y \in DOMAIN u, x # y
      PROVE  Identity(rows, u[x]) # Identity(rows, u[y])
  <2>1. x < y \/ y < x
    BY <1>5, <1>7
  <2>. QED  BY <1>6, <2>1
<1>8. ASSUME NEW m \in DOMAIN rows
      PROVE  \E x \in DOMAIN u : Identity(rows, u[x]) = Identity(rows, m)
  <2>1. PICK l \in S : Identity(rows, l) = Identity(rows, m)
    BY <1>4
  <2>2. l \in 1 .. Len(rows)
    BY <1>1, <2>1 DEF S, NewIdentity
  <2>. QED  BY <1>2, <2>1, <2>2
<1>. QED  BY <1>1, <1>5, <1>7, <1>8 DEF u

\* Row m of the folded rows is what the event first seen m-th became.
LEMMA FoldedIs ==
  ASSUME NEW rows \in Seq(Row)
  PROVE  /\ Folded(rows) \in Seq(Row) /\ Len(Folded(rows)) = Len(FirstSeen(rows))
         /\ \A m \in DOMAIN FirstSeen(rows) :
              /\ Folded(rows)[m] = Folding(Rows(rows, SameEvent(rows, FirstSeen(rows)[m])))
              /\ Folded(rows)[m].key = rows[FirstSeen(rows)[m]].key
<1>. DEFINE u == FirstSeen(rows)
            row(m) == Folding(Rows(rows, SameEvent(rows, u[m])))
<1>1. u \in Seq(DOMAIN rows)
  BY FirstSeenIs
<1>2. ASSUME NEW m \in DOMAIN u
      PROVE  row(m) \in Row /\ row(m).key = rows[u[m]].key
  <2>. DEFINE n == u[m]  same == SameEvent(rows, n)
  <2>1. n \in DOMAIN rows
    BY <1>1
  <2>. HIDE DEF n
  <2>2. /\ same \in Seq(DOMAIN rows) /\ same # << >>
        /\ \A x \in DOMAIN same : Identity(rows, same[x]) = Identity(rows, n)
    BY <2>1, SameEventIs
  <2>. HIDE DEF same
  <2>3. /\ Rows(rows, same) \in Seq(Row) /\ Len(Rows(rows, same)) = Len(same)
        /\ Rows(rows, same) # << >> /\ Rows(rows, same)[1] = rows[same[1]]
    BY <2>2, RowsType DEF Rows
  <2>4. /\ Folding(Rows(rows, same)) \in Row
        /\ Folding(Rows(rows, same)).key = rows[same[1]].key
    BY <2>3, FoldingType
  <2>5. 1 \in DOMAIN same /\ same[1] \in DOMAIN rows
    BY <2>2
  <2>6. rows[same[1]].key = rows[n].key
    BY <2>1, <2>2, <2>5, SameIdentityAs
  <2>. QED  BY <2>4, <2>6 DEF same, n
<1>3. Folded(rows) = [ m \in DOMAIN u |-> row(m) ]
  BY DEF Folded, FoldedRow, Folding, Rows
<1>. HIDE DEF u
<1>4. \A m \in DOMAIN u : Folded(rows)[m] = row(m)
  BY <1>3
<1>5. Folded(rows) \in Seq(Row) /\ Len(Folded(rows)) = Len(u)
  <2>. DEFINE f(m) == row(m)
  <2>1. \A m \in DOMAIN u : f(m) \in Row
    BY <1>2
  <2>. HIDE DEF f
  <2>2. [ m \in DOMAIN u |-> f(m) ] \in Seq(Row) /\ Len([ m \in DOMAIN u |-> f(m) ]) = Len(u)
    BY <1>1, <2>1
  <2>. QED  BY <1>3, <2>2 DEF f
<1>. QED  BY <1>2, <1>4, <1>5 DEF u

\* Rows that are all different events fold into themselves.
LEMMA FoldedApart ==
  ASSUME NEW rows \in Seq(Row),
         \A m, l \in DOMAIN rows : m # l => Identity(rows, m) # Identity(rows, l)
  PROVE  Folded(rows) = rows
<1>1. Len(rows) \in Nat /\ DOMAIN rows = 1 .. Len(rows)
  OBVIOUS
<1>2. FirstSeen(rows) = [ m \in 1 .. Len(rows) |-> m ]
  <2>1. ASSUME NEW m \in 1 .. Len(rows) PROVE m \in NewIdentity(rows)
    <3>1. \A l \in 1 .. m - 1 : l \in DOMAIN rows /\ l # m
      BY <1>1
    <3>. QED  BY <1>1, <3>1 DEF NewIdentity
  <2>. QED  BY <1>1, <2>1, UpwardAll DEF FirstSeen
<1>3. ASSUME NEW m \in DOMAIN rows
      PROVE  Folding(Rows(rows, SameEvent(rows, m))) = rows[m]
  <2>1. SameEvent(rows, m) = << m >>
    <3>1. \A l \in 1 .. Len(rows) : l \in OfIdentity(rows, Identity(rows, m)) <=> l = m
      BY <1>1 DEF OfIdentity
    <3>. QED  BY <1>1, <3>1, UpwardOnly DEF SameEvent
  <2>2. /\ Rows(rows, << m >>) \in Seq(Row) /\ Len(Rows(rows, << m >>)) = 1
        /\ Rows(rows, << m >>)[1] = rows[m]
    <3>1. << m >> \in Seq(DOMAIN rows) /\ Len(<< m >>) = 1 /\ << m >>[1] = m /\ 1 \in DOMAIN << m >>
      OBVIOUS
    <3>. QED  BY <3>1, RowsType DEF Rows
  <2>. QED  BY <2>1, <2>2 DEF Folding
<1>4. Folded(rows) \in Seq(Row) /\ Len(Folded(rows)) = Len(rows)
  <2>1. Len([ m \in 1 .. Len(rows) |-> m ]) = Len(rows)
    BY <1>1
  <2>. QED  BY <1>2, <2>1, FoldedIs
<1>5. \A m \in 1 .. Len(rows) : Folded(rows)[m] = rows[m]
  <2>. TAKE m \in 1 .. Len(rows)
  <2>1. m \in DOMAIN FirstSeen(rows) /\ FirstSeen(rows)[m] = m
    BY <1>2
  <2>2. Folded(rows)[m] = Folding(Rows(rows, SameEvent(rows, FirstSeen(rows)[m])))
    BY <2>1, FoldedIs
  <2>. QED  BY <1>1, <1>3, <2>1, <2>2
<1>. HIDE DEF Folded
<1>. QED  BY <1>1, <1>4, <1>5

\* Folded rows are all different events.
LEMMA FoldedOnce ==
  ASSUME NEW rows \in Seq(Row)
  PROVE  Folded(Folded(rows)) = Folded(rows)
<1>. DEFINE fs == Folded(rows)  u == FirstSeen(rows)
<1>1. /\ fs \in Seq(Row) /\ Len(fs) = Len(u)
      /\ \A m \in DOMAIN u : fs[m].key = rows[u[m]].key
  BY FoldedIs
<1>2. /\ u \in Seq(DOMAIN rows)
      /\ \A x, y \in DOMAIN u : x # y => Identity(rows, u[x]) # Identity(rows, u[y])
  BY FirstSeenIs
<1>. HIDE DEF fs, u
<1>3. ASSUME NEW m \in DOMAIN fs, NEW l \in DOMAIN fs, m # l
      PROVE  Identity(fs, m) # Identity(fs, l)
  <2>1. m \in DOMAIN u /\ l \in DOMAIN u
    BY <1>1, <1>2
  <2>2. u[m] \in DOMAIN rows /\ u[l] \in DOMAIN rows
    BY <1>2, <2>1
  <2>3. Identity(rows, u[m]) # Identity(rows, u[l])
    BY <1>2, <1>3, <2>1
  <2>4. ~(rows[u[m]].key = rows[u[l]].key /\ rows[u[m]].key # NoIdentity)
    BY <2>2, <2>3, SameIdentityAs
  <2>. QED  BY <1>1, <1>3, <2>1, <2>4, SameIdentityAs
<1>. QED  BY <1>1, <1>3, FoldedApart DEF fs

-----------------------------------------------------------------------------
(* One row more: it starts an event of its own, or joins what its event has *)
(* become.                                                                 *)

Joins(fs, r) == r.key # NoIdentity /\ \E m \in DOMAIN fs : fs[m].key = r.key
Joined(f, r) == Seal(MergeInto(f, r), << f, r >>)

Absorbed(fs, r) ==
  IF Joins(fs, r)
  THEN [ m \in DOMAIN fs |-> IF fs[m].key = r.key THEN Joined(fs[m], r) ELSE fs[m] ]
  ELSE Append(fs, r)

\* A row that is added changes no identity and no group but its own.
LEMMA OneRowMore ==
  ASSUME NEW rows \in Seq(Row), NEW r \in Row
  PROVE  LET more == Append(rows, r)  n == Len(rows) + 1 IN
         /\ \A m \in DOMAIN rows : Identity(more, m) = Identity(rows, m)
         /\ \A m \in DOMAIN rows :
              Identity(more, n) = Identity(more, m) <=> r.key # NoIdentity /\ rows[m].key = r.key
         /\ (\E m \in DOMAIN rows : Identity(more, n) = Identity(more, m))
              => FirstSeen(more) = FirstSeen(rows)
         /\ ~(\E m \in DOMAIN rows : Identity(more, n) = Identity(more, m))
              => FirstSeen(more) = Append(FirstSeen(rows), n) /\ SameEvent(more, n) = << n >>
         /\ \A m \in DOMAIN rows :
              IF Identity(more, n) = Identity(more, m)
              THEN SameEvent(more, m) = Append(SameEvent(rows, m), n)
              ELSE SameEvent(more, m) = SameEvent(rows, m)
<1>. DEFINE more == Append(rows, r)  len == Len(rows)  n == len + 1
<1>1. /\ more \in Seq(Row) /\ len \in Nat /\ Len(more) = n /\ n \in Nat
      /\ DOMAIN rows = 1 .. len /\ DOMAIN more = 1 .. n
      /\ more[n] = r /\ \A m \in 1 .. len : more[m] = rows[m]
  BY AppendFacts
<1>2. /\ 1 .. n = (1 .. len) \cup {n} /\ n \notin 1 .. len /\ n - 1 = len /\ n \in 1 .. n
      /\ \A m \in 1 .. len : m \in 1 .. n /\ \A l \in 1 .. m - 1 : l \in 1 .. len
  BY <1>1
<1>. HIDE DEF more, len
<1>3. \A m \in 1 .. len : Identity(more, m) = Identity(rows, m)
  BY <1>1 DEF Identity
<1>4. ASSUME NEW m \in 1 .. len
      PROVE  Identity(more, n) = Identity(more, m) <=> r.key # NoIdentity /\ rows[m].key = r.key
  <2>1. m \in DOMAIN more /\ n \in DOMAIN more /\ n # m
    BY <1>1, <1>2
  <2>2. Identity(more, n) = Identity(more, m) <=>
          n = m \/ (more[n].key = more[m].key /\ more[n].key # NoIdentity)
    BY <1>1, <2>1, SameIdentityAs
  <2>. QED  BY <1>1, <2>1, <2>2
<1>. HIDE DEF n
<1>5. Upward(NewIdentity(more), len) = FirstSeen(rows)
  <2>1. \A m \in 1 .. len : m \in NewIdentity(more) <=> m \in NewIdentity(rows)
    BY <1>1, <1>2, <1>3 DEF NewIdentity
  <2>. QED  BY <1>1, <2>1, UpwardSame DEF FirstSeen, len
<1>6. n \in NewIdentity(more) <=> ~(\E m \in 1 .. len : Identity(more, n) = Identity(more, m))
  BY <1>1, <1>2 DEF NewIdentity
<1>7. FirstSeen(more) = IF n \in NewIdentity(more) THEN Append(FirstSeen(rows), n)
                        ELSE FirstSeen(rows)
  <2>1. /\ n \in NewIdentity(more) =>
             Upward(NewIdentity(more), len + 1) = Append(Upward(NewIdentity(more), len), len + 1)
        /\ n \notin NewIdentity(more) =>
             Upward(NewIdentity(more), len + 1) = Upward(NewIdentity(more), len)
    BY <1>1, UpwardNext DEF n
  <2>. QED  BY <1>1, <1>5, <2>1 DEF FirstSeen, n
<1>8. ASSUME ~(\E m \in 1 .. len : Identity(more, n) = Identity(more, m))
      PROVE  SameEvent(more, n) = << n >>
  <2>1. \A m \in 1 .. n : m \in OfIdentity(more, Identity(more, n)) <=> m = n
    BY <1>1, <1>2, <1>8 DEF OfIdentity
  <2>. DEFINE S == OfIdentity(more, Identity(more, n))
  <2>2. SameEvent(more, n) = Upward(S, n)
    BY <1>1 DEF SameEvent
  <2>3. \A m \in 1 .. n : m \in S <=> m = n
    BY <2>1
  <2>. HIDE DEF S
  <2>4. Upward(S, n) = << n >>
    BY <1>1, <1>2, <2>3, UpwardOnly
  <2>. QED  BY <2>2, <2>4
<1>9. ASSUME NEW m \in 1 .. len
      PROVE  IF Identity(more, n) = Identity(more, m)
             THEN SameEvent(more, m) = Append(SameEvent(rows, m), n)
             ELSE SameEvent(more, m) = SameEvent(rows, m)
  <2>. DEFINE S == OfIdentity(more, Identity(more, m))
              R == OfIdentity(rows, Identity(rows, m))
  <2>1. \A l \in 1 .. len : l \in S <=> l \in R
    BY <1>1, <1>2, <1>3 DEF OfIdentity
  <2>2. n \in S <=> Identity(more, n) = Identity(more, m)
    BY <1>1, <1>2 DEF OfIdentity
  <2>3. SameEvent(more, m) = Upward(S, len + 1) /\ SameEvent(rows, m) = Upward(R, len)
    BY <1>1 DEF SameEvent, len, n
  <2>. HIDE DEF S, R
  <2>4. Upward(S, len) = Upward(R, len)
    BY <1>1, <2>1, UpwardSame
  <2>5. /\ n \in S => Upward(S, len + 1) = Append(Upward(S, len), n)
        /\ n \notin S => Upward(S, len + 1) = Upward(S, len)
    BY <1>1, UpwardNext DEF n
  <2>. QED  BY <2>2, <2>3, <2>4, <2>5
<1>. QED  BY <1>1, <1>3, <1>4, <1>6, <1>7, <1>8, <1>9 DEF more, len, n

LEMMA FoldedNext ==
  ASSUME NEW rows \in Seq(Row), NEW r \in Row
  PROVE  Folded(Append(rows, r)) = Absorbed(Folded(rows), r)
<1>. DEFINE more == Append(rows, r)  n == Len(rows) + 1
            u == FirstSeen(rows)  v == FirstSeen(more)
            fs == Folded(rows)    gs == Folded(more)
            Again(m) == Identity(more, n) = Identity(more, m)
            Was(m) == Rows(rows, SameEvent(rows, m))
            Is(m) == Rows(more, SameEvent(more, m))
<1>1. /\ more \in Seq(Row) /\ DOMAIN rows = 1 .. Len(rows) /\ DOMAIN more = 1 .. n
      /\ Len(rows) \in Nat /\ more[n] = r /\ n \in DOMAIN more
      /\ \A m \in DOMAIN rows : m \in DOMAIN more /\ more[m] = rows[m]
  <2>1. /\ more \in Seq(Row) /\ DOMAIN rows = 1 .. Len(rows) /\ DOMAIN more = 1 .. n
        /\ Len(rows) \in Nat /\ more[n] = r /\ \A m \in 1 .. Len(rows) : more[m] = rows[m]
    BY AppendFacts
  <2>. HIDE DEF more
  <2>. QED  BY <2>1
<1>2. /\ \A m \in DOMAIN rows : Identity(more, m) = Identity(rows, m)
      /\ \A m \in DOMAIN rows : Again(m) <=> r.key # NoIdentity /\ rows[m].key = r.key
      /\ (\E m \in DOMAIN rows : Again(m)) => v = u
      /\ ~(\E m \in DOMAIN rows : Again(m)) => v = Append(u, n) /\ SameEvent(more, n) = << n >>
      /\ \A m \in DOMAIN rows : IF Again(m) THEN SameEvent(more, m) = Append(SameEvent(rows, m), n)
                                ELSE SameEvent(more, m) = SameEvent(rows, m)
  BY OneRowMore
<1>3. /\ fs \in Seq(Row) /\ Len(fs) = Len(u)
      /\ \A m \in DOMAIN u : fs[m] = Folding(Was(u[m])) /\ fs[m].key = rows[u[m]].key
  BY FoldedIs
<1>4. /\ gs \in Seq(Row) /\ Len(gs) = Len(v)
      /\ \A m \in DOMAIN v : gs[m] = Folding(Is(v[m]))
  BY <1>1, FoldedIs
<1>5. /\ u \in Seq(DOMAIN rows)
      /\ \A m \in DOMAIN rows : \E x \in DOMAIN u : Identity(rows, u[x]) = Identity(rows, m)
  BY FirstSeenIs
<1>. HIDE DEF more, n, u, v, fs, gs
<1>6. ASSUME NEW m \in DOMAIN rows
      PROVE  Folding(Is(m)) = IF Again(m) THEN Joined(Folding(Was(m)), r) ELSE Folding(Was(m))
  <2>. DEFINE group == SameEvent(rows, m)
  <2>1. group \in Seq(DOMAIN rows) /\ group # << >>
    BY SameEventIs
  <2>. HIDE DEF group
  <2>2. Rows(more, group) = Rows(rows, group)
    <3>1. \A x \in DOMAIN group : more[group[x]] = rows[group[x]]
      BY <1>1, <2>1
    <3>. QED  BY <3>1 DEF Rows
  <2>3. Rows(rows, group) \in Seq(Row) /\ Rows(rows, group) # << >>
    BY <2>1, RowsType DEF Rows
  <2>4. CASE ~Again(m)
    <3>1. SameEvent(more, m) = group
      BY <1>2, <2>4 DEF group
    <3>. QED  BY <2>2, <2>4, <3>1 DEF group
  <2>5. CASE Again(m)
    <3>1. SameEvent(more, m) = Append(group, n)
      BY <1>2, <2>5 DEF group
    <3>2. group \in Seq(DOMAIN more)
      BY <1>1, <2>1
    <3>3. Rows(more, Append(group, n)) = Append(Rows(more, group), more[n])
      BY <1>1, <3>2, RowsAppend
    <3>4. Folding(Append(Rows(rows, group), r)) = Joined(Folding(Rows(rows, group)), r)
      BY <2>3, FoldingAppend DEF Joined
    <3>. QED  BY <1>1, <2>2, <2>5, <3>1, <3>3, <3>4 DEF group
  <2>. QED  BY <2>4, <2>5
<1>. HIDE DEF Is, Was
<1>7. DOMAIN fs = DOMAIN u /\ DOMAIN gs = DOMAIN v /\ DOMAIN u = 1 .. Len(u) /\ Len(u) \in Nat
  BY <1>3, <1>4, <1>5
<1>8. (\E m \in DOMAIN rows : Again(m)) <=> Joins(fs, r)
  <2>1. ASSUME NEW m \in DOMAIN rows, Again(m)
        PROVE  Joins(fs, r)
    <3>1. PICK x \in DOMAIN u : Identity(rows, u[x]) = Identity(rows, m)
      BY <1>5
    <3>2. u[x] \in DOMAIN rows
      BY <1>5
    <3>3. rows[u[x]].key = rows[m].key
      BY <3>1, <3>2, SameIdentityAs
    <3>4. r.key # NoIdentity /\ rows[m].key = r.key
      BY <1>2, <2>1
    <3>. QED  BY <1>3, <1>7, <3>3, <3>4 DEF Joins
  <2>2. ASSUME Joins(fs, r)
        PROVE  \E m \in DOMAIN rows : Again(m)
    <3>1. PICK x \in DOMAIN fs : fs[x].key = r.key
      BY <2>2 DEF Joins
    <3>2. u[x] \in DOMAIN rows /\ rows[u[x]].key = r.key
      BY <1>3, <1>5, <1>7, <3>1
    <3>3. r.key # NoIdentity
      BY <2>2 DEF Joins
    <3>. QED  BY <1>2, <3>2, <3>3
  <2>. QED  BY <2>1, <2>2
<1>9. ASSUME NEW x \in DOMAIN u
      PROVE  Folding(Is(u[x])) = IF r.key # NoIdentity /\ fs[x].key = r.key
                                 THEN Joined(fs[x], r) ELSE fs[x]
  <2>1. u[x] \in DOMAIN rows
    BY <1>5
  <2>2. Again(u[x]) <=> r.key # NoIdentity /\ fs[x].key = r.key
    BY <1>2, <1>3, <2>1
  <2>. QED  BY <1>3, <1>6, <2>1, <2>2
<1>10. CASE Joins(fs, r)
  <2>1. v = u
    BY <1>2, <1>8, <1>10
  <2>2. r.key # NoIdentity
    BY <1>10 DEF Joins
  <2>3. \A m \in DOMAIN gs : gs[m] = IF fs[m].key = r.key THEN Joined(fs[m], r) ELSE fs[m]
    BY <1>4, <1>7, <1>9, <2>1, <2>2
  <2>4. gs = [ m \in DOMAIN fs |-> IF fs[m].key = r.key THEN Joined(fs[m], r) ELSE fs[m] ]
    BY <1>4, <1>7, <2>1, <2>3
  <2>. QED  BY <1>10, <2>4 DEF Absorbed, gs, fs, more
<1>11. CASE ~Joins(fs, r)
  <2>1. v = Append(u, n) /\ SameEvent(more, n) = << n >>
    BY <1>2, <1>8, <1>11
  <2>2. /\ n \in Nat /\ u \in Seq(Nat)
        /\ Len(v) = Len(u) + 1 /\ v[Len(u) + 1] = n /\ \A m \in 1 .. Len(u) : v[m] = u[m]
        /\ DOMAIN v = 1 .. Len(u) + 1
    <3>1. n \in Nat /\ u \in Seq(Nat)
      BY <1>1, <1>5 DEF n
    <3>. QED  BY <2>1, <3>1, AppendFacts
  <2>3. \A m \in 1 .. Len(u) : gs[m] = fs[m]
    <3>. TAKE m \in 1 .. Len(u)
    <3>1. ~(r.key # NoIdentity /\ fs[m].key = r.key)
      BY <1>7, <1>11 DEF Joins
    <3>2. gs[m] = Folding(Is(u[m]))
      BY <1>4, <1>7, <2>2
    <3>. QED  BY <1>7, <1>9, <3>1, <3>2
  <2>4. gs[Len(u) + 1] = r
    <3>1. Is(n) = << r >>
      <4>1. << n >> \in Seq(DOMAIN more) /\ Len(<< n >>) = 1 /\ << n >>[1] = n /\ 1 \in DOMAIN << n >>
        BY <1>1
      <4>2. Rows(more, << n >>) \in Seq(Row) /\ Len(Rows(more, << n >>)) = 1
        BY <1>1, <4>1, RowsType
      <4>3. Rows(more, << n >>)[1] = r
        BY <1>1, <4>1 DEF Rows
      <4>4. Rows(more, << n >>) = << r >>
        BY <4>2, <4>3
      <4>. QED  BY <2>1, <4>4 DEF Is
    <3>2. Len(u) + 1 \in DOMAIN v
      BY <1>7, <2>2
    <3>3. Folding(<< r >>) = r
      BY DEF Folding
    <3>. QED  BY <1>4, <2>2, <3>1, <3>2, <3>3
  <2>5. /\ Append(fs, r) \in Seq(Row) /\ Len(Append(fs, r)) = Len(u) + 1
        /\ Append(fs, r)[Len(u) + 1] = r /\ \A m \in 1 .. Len(u) : Append(fs, r)[m] = fs[m]
    BY <1>3, AppendFacts
  <2>. DEFINE a == Append(fs, r)
  <2>. HIDE DEF a
  <2>6. \A m \in 1 .. Len(u) + 1 : gs[m] = a[m]
    <3>1. \A m \in 1 .. Len(u) + 1 : m \in 1 .. Len(u) \/ m = Len(u) + 1
      BY <1>7
    <3>. QED  BY <2>3, <2>4, <2>5, <3>1 DEF a
  <2>7. gs = a
    BY <1>4, <1>7, <2>2, <2>5, <2>6 DEF a
  <2>. QED  BY <1>11, <2>7 DEF Absorbed, gs, fs, more, a
<1>. QED  BY <1>10, <1>11

\* A fold can be continued: by induction over the rows that come later.
LEMMA FoldedAgain ==
  ASSUME NEW rows \in Seq(Row), NEW later \in Seq(Row)
  PROVE  Folded(Folded(rows) \o later) = Folded(rows \o later)
<1>. DEFINE fs == Folded(rows)
            T == {m \in Nat : m <= Len(later) =>
                    Folded(fs \o Prefix(later, m)) = Folded(rows \o Prefix(later, m))}
<1>0. IsList(later) /\ Len(later) \in Nat /\ fs \in Seq(Row)
  BY ListOf, FoldedIs
<1>1. 0 \in T
  <2>1. Prefix(later, 0) = << >>
    BY <1>0, PrefixNext
  <2>2. fs \o << >> = fs /\ rows \o << >> = rows
    <3>. HIDE DEF fs
    <3>. QED  BY <1>0
  <2>. QED  BY <2>1, <2>2, FoldedOnce
<1>2. ASSUME NEW m \in T
      PROVE  m + 1 \in T
  <2>. DEFINE p == Prefix(later, m)  r == later[m + 1]
  <2>. SUFFICES ASSUME m + 1 <= Len(later)
                PROVE  Folded(fs \o Prefix(later, m + 1)) = Folded(rows \o Prefix(later, m + 1))
    OBVIOUS
  <2>1. m \in Nat /\ m < Len(later) /\ Folded(fs \o p) = Folded(rows \o p)
    BY <1>0
  <2>2. p \in Seq(Row) /\ r \in Row
    BY <1>0, <2>1 DEF Prefix
  <2>3. Prefix(later, m + 1) = Append(p, r)
    BY <1>0, <2>1, PrefixNext
  <2>. HIDE DEF p, r, fs
  <2>4. ASSUME NEW s \in Seq(Row)
        PROVE  s \o Append(p, r) = Append(s \o p, r) /\ s \o p \in Seq(Row)
    BY <2>2, <2>4
  <2>5. /\ Folded(Append(fs \o p, r)) = Absorbed(Folded(fs \o p), r)
        /\ Folded(Append(rows \o p, r)) = Absorbed(Folded(rows \o p), r)
    BY <1>0, <2>2, <2>4, FoldedNext
  <2>6. fs \o Append(p, r) = Append(fs \o p, r) /\ rows \o Append(p, r) = Append(rows \o p, r)
    BY <1>0, <2>4
  <2>. QED  BY <2>1, <2>3, <2>5, <2>6
<1>. HIDE DEF T
<1>3. T = Nat
  <2>1. T \in SUBSET Nat
    BY DEF T
  <2>. QED  BY <1>1, <1>2, <2>1, NaturalsByInduction
<1>4. Folded(fs \o Prefix(later, Len(later))) = Folded(rows \o Prefix(later, Len(later)))
  BY <1>0, <1>3 DEF T
<1>5. Prefix(later, Len(later)) = later
  BY <1>0, PrefixNext
<1>. QED  BY <1>4, <1>5

-----------------------------------------------------------------------------
(* What the loop computes is that function.                                *)

Listed(S, u) == u = [ x \in DOMAIN Upward(S, Seen) |-> Identity(events, Upward(S, Seen)[x]) ]

\* Groups list the rows of an identity so far, order the identities; what is out
\* is what groups became, and the base is the group merged up to row i.
SoFar ==
  /\ \A q \in DOMAIN groups : groups[q] = Upward(OfIdentity(events, q), Seen)
  /\ Listed(NewIdentity(events), order)
  /\ mode = "additive" =>
       /\ \A m \in DOMAIN out : out[m] = Folding(Rows(events, groups[order[m]]))
       /\ pc = "merge" =>
            /\ i <= Len(Current) + 1
            /\ base = Merged(Prefix(Rows(events, Current), i - 1))

LEMMA InitSoFar == Init => SoFar
<1>. SUFFICES ASSUME Init PROVE SoFar
  OBVIOUS
<1>1. pc = "group" /\ Seen = 0 /\ DOMAIN groups = {} /\ order = << >> /\ DOMAIN out = {}
  BY DEF Init, Seen
<1>2. Upward(NewIdentity(events), 0) = << >>
  BY UpwardNext
<1>3. [ x \in DOMAIN << >> |-> Identity(events, << >>[x]) ] = << >>
  OBVIOUS
<1>. QED  BY <1>1, <1>2, <1>3 DEF SoFar, Listed

LEMMA GroupSoFar ==
  ASSUME FInv, Listing, SoFar, Group
  PROVE  SoFar'
<1> DEFINE q == Identity(events, i)  rows == events  n == i - 1
           S == NewIdentity(events)  u == Upward(S, n)
<1>1. /\ i \in DOMAIN events /\ events \in Seq(Row) /\ out = << >> /\ pc = "group"
      /\ UNCHANGED << events, mode, pc, base, out >> /\ i' = i + 1
      /\ DOMAIN groups' = DOMAIN groups \cup {q}
      /\ \A p \in DOMAIN groups : p # q => groups'[p] = groups[p]
      /\ groups'[q] = IF q \in DOMAIN groups THEN Append(groups[q], i) ELSE << i >>
      /\ order' = IF q \in DOMAIN groups THEN order ELSE Append(order, q)
  BY GroupStep
<1>2. /\ n \in Nat /\ n + 1 = i /\ i \in Nat \ {0} /\ i <= Len(events) /\ Len(events) \in Nat
      /\ DOMAIN events = 1 .. Len(events) /\ Seen = n /\ Seen' = i
  BY <1>1 DEF Seen
<1>3. /\ \A p \in DOMAIN groups : groups[p] = Upward(OfIdentity(events, p), n)
      /\ order = [ x \in DOMAIN u |-> Identity(events, u[x]) ]
  BY <1>2 DEF SoFar, Listed
<1>4. q \in DOMAIN groups <=> i \notin S
  <2>1. q \in DOMAIN groups <=> ~New(i)
    BY <1>1, <1>2, KnownGroup
  <2>2. \A m \in 1 .. i - 1 : m \in DOMAIN events /\ m # i
    BY <1>2
  <2>3. \A m \in 1 .. i - 1 : OneEvent(m, i) <=> Identity(events, m) = Identity(events, i)
    BY <1>1, <2>2, SameIdentity
  <2>. QED  BY <1>1, <2>1, <2>3 DEF New, NewIdentity
<1>. HIDE DEF n
<1>5. ASSUME NEW p
      PROVE  Upward(OfIdentity(events, p), i) =
               IF p = q THEN Append(Upward(OfIdentity(events, p), n), i)
               ELSE Upward(OfIdentity(events, p), n)
  <2>. DEFINE P == OfIdentity(events, p)
  <2>1. i \in P <=> p = q
    BY <1>1 DEF OfIdentity
  <2>. HIDE DEF P, q
  <2>2. /\ n + 1 \in P => Upward(P, n + 1) = Append(Upward(P, n), n + 1)
        /\ n + 1 \notin P => Upward(P, n + 1) = Upward(P, n)
    BY <1>2, UpwardNext
  <2>. QED  BY <1>2, <2>1, <2>2 DEF P
<1>6. q \notin DOMAIN groups => Upward(OfIdentity(events, q), n) = << >>
  <2>. SUFFICES ASSUME q \notin DOMAIN groups PROVE Upward(OfIdentity(events, q), n) = << >>
    OBVIOUS
  <2>1. \A m \in 1 .. n : m \notin OfIdentity(events, q)
    BY <1>2, <1>4 DEF NewIdentity, OfIdentity
  <2>. HIDE DEF q
  <2>. QED  BY <1>2, <2>1, UpwardNone
<1>7. \A p \in DOMAIN groups' : groups'[p] = Upward(OfIdentity(events, p), i)
  <2>. TAKE p \in DOMAIN groups'
  <2>1. CASE p # q
    <3>1. p \in DOMAIN groups
      BY <1>1, <2>1
    <3>. QED  BY <1>1, <1>3, <1>5, <2>1, <3>1
  <2>2. CASE p = q /\ q \in DOMAIN groups
    BY <1>1, <1>3, <1>5, <2>2
  <2>3. CASE p = q /\ q \notin DOMAIN groups
    <3>1. Append(<< >>, i) = << i >>
      OBVIOUS
    <3>. QED  BY <1>1, <1>5, <1>6, <2>3, <3>1
  <2>. QED  BY <2>1, <2>2, <2>3
<1>. DEFINE v == Upward(S, i)
<1>8. IF i \in S THEN v = Append(u, i) ELSE v = u
  <2>. HIDE DEF S
  <2>1. /\ n + 1 \in S => Upward(S, n + 1) = Append(Upward(S, n), n + 1)
        /\ n + 1 \notin S => Upward(S, n + 1) = Upward(S, n)
    BY <1>2, UpwardNext
  <2>. QED  BY <1>2, <2>1
<1>9. order' = [ x \in DOMAIN v |-> Identity(events, v[x]) ]
  <2>1. CASE i \notin S
    BY <1>1, <1>3, <1>4, <1>8, <2>1
  <2>2. CASE i \in S
    <3>1. u \in Seq(Nat)
      <4>. HIDE DEF S
      <4>. QED  BY <1>2, UpwardMembers DEF UpwardSpec
    <3>. HIDE DEF u, v, S
    <3>2. /\ v \in Seq(Nat) /\ Len(v) = Len(u) + 1 /\ Len(u) \in Nat
          /\ DOMAIN u = 1 .. Len(u) /\ DOMAIN v = 1 .. Len(u) + 1
          /\ v[Len(u) + 1] = i /\ \A x \in 1 .. Len(u) : v[x] = u[x]
      BY <1>2, <1>8, <2>2, <3>1, AppendFacts
    <3>3. order \in Seq(Identities) /\ Len(order) = Len(u) /\ q \in Identities
      <4>1. order \in Seq(Identities)
        BY DEF FInv, FType
      <4>2. DOMAIN order = 1 .. Len(u) /\ DOMAIN order = 1 .. Len(order) /\ Len(order) \in Nat
        BY <1>3, <3>2, <4>1
      <4>3. q \in Identities
        BY GroupStep
      <4>. HIDE DEF q
      <4>. QED  BY <3>2, <4>1, <4>2, <4>3
    <3>4. order' = Append(order, q)
      BY <1>1, <1>4, <2>2
    <3>. DEFINE l == Len(u)  o == order'
    <3>. HIDE DEF q
    <3>5. /\ Append(order, q) \in Seq(Identities) /\ Len(Append(order, q)) = Len(order) + 1
          /\ Append(order, q)[Len(order) + 1] = q
          /\ \A x \in 1 .. Len(order) : Append(order, q)[x] = order[x]
      BY <3>3, AppendFacts
    <3>6. /\ o \in Seq(Identities) /\ Len(o) = l + 1 /\ o[l + 1] = q
          /\ \A x \in 1 .. l : o[x] = order[x]
      BY <3>3, <3>4, <3>5
    <3>7. \A x \in 1 .. l : order[x] = Identity(events, v[x])
      BY <1>3, <3>2
    <3>8. q = Identity(events, v[l + 1])
      BY <3>2 DEF q
    <3>. HIDE DEF l, o
    <3>9. \A x \in DOMAIN v : x \in 1 .. l \/ x = l + 1
      BY <3>2 DEF l
    <3>10. DOMAIN o = DOMAIN v
      BY <3>2, <3>6 DEF l
    <3>11. \A x \in DOMAIN v : o[x] = Identity(events, v[x])
      BY <3>6, <3>7, <3>8, <3>9
    <3>12. o = [ x \in DOMAIN v |-> o[x] ]
      BY <3>6, <3>10
    <3>. QED  BY <3>11, <3>12 DEF o
  <2>. QED  BY <2>1, <2>2
<1>10. events' = events /\ out' = << >> /\ pc' = "group"
  BY <1>1
<1>. HIDE DEF q, u
<1>11. Listed(NewIdentity(events), order)'
  BY <1>2, <1>9, <1>10 DEF Listed, NewIdentity, Identity
<1>12. \A p \in DOMAIN groups' : groups'[p] = Upward(OfIdentity(events', p), Seen')
  BY <1>2, <1>7, <1>10
<1>. QED  BY <1>10, <1>11, <1>12 DEF SoFar

\* Where rows, groups and order stay, so does what is said of them.
LEMMA ListedKept ==
  ASSUME SoFar, UNCHANGED << events, groups, order >>, Seen' = Seen
  PROVE  /\ \A q \in DOMAIN groups' : groups'[q] = Upward(OfIdentity(events', q), Seen')
         /\ Listed(NewIdentity(events), order)'
BY DEF SoFar, Listed, NewIdentity, Identity

\* A row is put out that is what its group became.
LEMMA OutGrowsSoFar ==
  ASSUME FInv, SoFar, NEW r \in Row, out' = Append(out, r), pc # "group", pc' = "open",
         Len(out) < Len(order), UNCHANGED << events, mode, groups, order >>,
         mode = "additive" => r = Folding(Rows(events, Current))
  PROVE  SoFar'
<1>1. Seen' = Seen
  BY DEF Seen
<1>2. out \in Seq(Row)
  BY DEF FInv, FType
<1>3. /\ Len(out) \in Nat /\ DOMAIN out = 1 .. Len(out) /\ DOMAIN out' = 1 .. Len(out) + 1
      /\ out'[Len(out) + 1] = r /\ \A m \in 1 .. Len(out) : out'[m] = out[m]
  BY <1>2, AppendFacts
<1>4. ASSUME mode = "additive", NEW m \in DOMAIN out'
      PROVE  out'[m] = Folding(Rows(events, groups[order[m]]))
  <2>1. CASE m \in DOMAIN out
    BY <1>3, <1>4, <2>1 DEF SoFar
  <2>2. CASE m = Len(out) + 1
    BY <1>3, <1>4, <2>2 DEF Current
  <2>. QED  BY <1>3, <1>4, <2>1, <2>2
<1>. QED  BY <1>1, <1>4, ListedKept DEF SoFar

LEMMA KeepLoneSoFar ==
  ASSUME FInv, SoFar, KeepLone
  PROVE  SoFar'
<1>1. /\ pc = "open" /\ pc' = "open" /\ Len(out) < Len(order) /\ Len(Current) = 1
      /\ out' = Append(out, events[Current[1]]) /\ UNCHANGED << events, mode, groups, order >>
  BY DEF KeepLone
<1>2. /\ Current \in Seq(DOMAIN events) /\ 1 \in DOMAIN Current
      /\ events[Current[1]] \in Row /\ events \in Seq(Row)
  BY <1>1, CurrentGroup DEF FInv, FType
<1>3. events[Current[1]] = Folding(Rows(events, Current))
  BY <1>1, <1>2, RowsType DEF Folding, Rows
<1>. QED  BY <1>1, <1>2, <1>3, OutGrowsSoFar

LEMMA OpenGroupSoFar ==
  ASSUME FInv, SoFar, OpenGroup
  PROVE  SoFar'
<1>1. /\ pc = "open" /\ pc' = "merge" /\ i' = 2 /\ base' = events[Current[1]]
      /\ Len(out) < Len(order) /\ Len(Current) > 1
      /\ UNCHANGED << events, mode, groups, order, out >>
  BY DEF OpenGroup
<1>2. /\ Current \in Seq(DOMAIN events) /\ 1 \in DOMAIN Current
      /\ events[Current[1]] \in Row /\ events \in Seq(Row)
  BY <1>1, CurrentGroup DEF FInv, FType
<1>3. Seen' = Seen /\ Current' = Current
  BY <1>1 DEF Seen, Current
<1>. DEFINE rows == Rows(events, Current)
<1>4. rows \in Seq(Row) /\ Len(rows) = Len(Current) /\ rows[1] = events[Current[1]]
  BY <1>2, RowsType DEF Rows
<1>. HIDE DEF rows
<1>5. Merged(Prefix(rows, 1)) = events[Current[1]]
  <2>1. /\ Prefix(rows, 1) \in Seq(Row) /\ Len(Prefix(rows, 1)) = 1
        /\ Prefix(rows, 1)[1] = rows[1]
    BY <1>1, <1>4 DEF Prefix
  <2>. QED  BY <1>4, <2>1, MergedOne
<1>6. i' <= Len(Current') + 1 /\ base' = Merged(Prefix(Rows(events', Current'), i' - 1))
  <2>1. i' - 1 = 1 /\ i' <= Len(Current) + 1
    BY <1>1, <1>2
  <2>. QED  BY <1>1, <1>3, <1>5, <2>1 DEF rows
<1>7. mode' = "additive" =>
        \A m \in DOMAIN out' : out'[m] = Folding(Rows(events', groups'[order'[m]]))
  BY <1>1 DEF SoFar
<1>. QED  BY <1>1, <1>3, <1>6, <1>7, ListedKept DEF SoFar

LEMMA MergeRowSoFar ==
  ASSUME FInv, SoFar, MergeRow
  PROVE  SoFar'
<1>1. /\ pc = "merge" /\ pc' = "merge" /\ i' = i + 1 /\ i <= Len(Current)
      /\ base' = MergeInto(base, events[Current[i]])
      /\ UNCHANGED << events, mode, groups, order, out >>
  BY DEF MergeRow
<1>2. Len(out) < Len(order) /\ mode = "additive" /\ 2 <= i /\ i \in Nat
  BY <1>1 DEF FInv, Progress, FType
<1>3. Current \in Seq(DOMAIN events) /\ events \in Seq(Row) /\ base = Merged(Prefix(Rows(events, Current), i - 1))
  BY <1>1, <1>2, CurrentGroup DEF FInv, FType, SoFar
<1>4. Seen' = Seen /\ Current' = Current
  BY <1>1 DEF Seen, Current
<1>. DEFINE rows == Rows(events, Current)
<1>5. rows \in Seq(Row) /\ Len(rows) = Len(Current) /\ rows[i] = events[Current[i]]
  <2>1. i \in DOMAIN Current
    BY <1>1, <1>2, <1>3
  <2>. QED  BY <1>3, <2>1, RowsType DEF Rows
<1>. HIDE DEF rows
<1>6. Merged(Prefix(rows, i)) = MergeInto(Merged(Prefix(rows, i - 1)), rows[i])
  <2>1. i - 1 \in Nat /\ i - 1 < Len(rows) /\ (i - 1) + 1 = i /\ IsList(rows) /\ Len(rows) \in Nat
    BY <1>1, <1>2, <1>5, ListOf
  <2>2. Prefix(rows, (i - 1) + 1) = Append(Prefix(rows, i - 1), rows[(i - 1) + 1])
    BY <2>1, PrefixNext
  <2>3. Prefix(rows, i - 1) \in Seq(Row) /\ Prefix(rows, i - 1) # << >> /\ rows[i] \in Row
    <3>1. Prefix(rows, i - 1) \in Seq(Row) /\ Len(Prefix(rows, i - 1)) = i - 1
      BY <1>5, <2>1 DEF Prefix
    <3>2. i - 1 # 0 /\ i \in DOMAIN rows
      BY <1>2, <1>5, <2>1
    <3>. QED  BY <1>5, <3>1, <3>2
  <2>. QED  BY <2>1, <2>2, <2>3, MergedAppend
<1>7. i' <= Len(Current') + 1 /\ base' = Merged(Prefix(Rows(events', Current'), i' - 1))
  <2>1. i' - 1 = i /\ i' <= Len(Current) + 1
    BY <1>1, <1>2, <1>5
  <2>2. base' = Merged(Prefix(rows, i))
    BY <1>1, <1>3, <1>5, <1>6 DEF rows
  <2>. QED  BY <1>1, <1>4, <2>1, <2>2 DEF rows
<1>8. mode' = "additive" =>
        \A m \in DOMAIN out' : out'[m] = Folding(Rows(events', groups'[order'[m]]))
  BY <1>1 DEF SoFar
<1>. QED  BY <1>1, <1>4, <1>7, <1>8, ListedKept DEF SoFar

LEMMA CloseGroupSoFar ==
  ASSUME FInv, Counting, SoFar, CloseGroup
  PROVE  SoFar'
<1> DEFINE sealed == [RowsOf(Current) EXCEPT ![1] = base]
           rows == Rows(events, Current)
           r == Seal(base, sealed)
<1>1. /\ pc = "merge" /\ pc' = "open" /\ mode = "additive" /\ Len(out) < Len(order)
      /\ i > Len(Current) /\ i \in Nat
      /\ out' = Append(out, r) /\ UNCHANGED << events, mode, groups, order >>
  BY DEF CloseGroup, FInv, Progress, FType
<1>2. /\ Current \in Seq(DOMAIN events) /\ 1 \in DOMAIN Current /\ events \in Seq(Row)
      /\ Len(Current) > 1 /\ base \in Row
      /\ i <= Len(Current) + 1 /\ base = Merged(Prefix(rows, i - 1))
  BY <1>1, CurrentGroup DEF FInv, FType, Counting, SoFar
<1>3. /\ rows \in Seq(Row) /\ Len(rows) = Len(Current) /\ DOMAIN rows = DOMAIN Current
      /\ rows # << >>
  BY <1>2, RowsType DEF Rows
<1>4. base = Merged(rows)
  <2>1. i - 1 = Len(rows) /\ IsList(rows)
    BY <1>1, <1>2, <1>3, ListOf
  <2>2. Prefix(rows, Len(rows)) = rows
    BY <2>1, PrefixNext
  <2>. QED  BY <1>2, <2>1, <2>2
<1>5. LikeFirst(base, rows)
  BY <1>3, <1>4, MergedType
<1>6. /\ sealed \in Seq(Row) /\ Len(sealed) = Len(rows) /\ DOMAIN sealed = DOMAIN rows
      /\ \A x \in DOMAIN sealed : sealed[x] = IF x = 1 THEN base ELSE rows[x]
  <2>1. sealed = [rows EXCEPT ![1] = base]
    BY DEF RowsOf, Rows
  <2>. HIDE DEF rows, sealed
  <2>. QED  BY <1>2, <1>3, <2>1
<1>. HIDE DEF rows, sealed
<1>7. WeightOf(sealed) = WeightOf(rows) /\ Named(sealed) = Named(rows)
  <2>1. \A n \in DOMAIN sealed :
          /\ sealed[n].src = rows[n].src /\ sealed[n].ref = rows[n].ref
          /\ sealed[n].count = rows[n].count /\ sealed[n].by = rows[n].by
    BY <1>5, <1>6 DEF LikeFirst
  <2>. QED  BY <1>3, <1>6, <2>1, SameCounters
<1>8. r = Folding(rows)
  <2>1. Len(rows) # 1
    BY <1>2, <1>3
  <2>. QED  BY <1>4, <1>7, <2>1 DEF Seal, Folding
<1>9. r \in Row
  BY <1>2, <1>6, SealType
<1>. HIDE DEF r
<1>. QED  BY <1>1, <1>8, <1>9, OutGrowsSoFar DEF rows

LEMMA NextSoFar == TallyInv /\ SoFar /\ [Next]_vars => SoFar'
<1>. SUFFICES ASSUME TallyInv, SoFar, [Next]_vars PROVE SoFar'
  OBVIOUS
<1>0. FInv /\ Listing /\ Counting
  BY DEF TallyInv
<1>1. CASE UNCHANGED vars
  <2>1. Seen' = Seen /\ Current' = Current
    BY <1>1 DEF vars, Seen, Current
  <2>. QED  BY <1>1, <2>1, ListedKept DEF vars, SoFar
<1>2. CASE Grouped \/ Finish
  <2>1. /\ pc' \in {"open", "done"} /\ pc \in {"group", "open"} /\ (pc = "group" => i > Len(events))
        /\ UNCHANGED << events, mode, groups, order, out, base >>
    BY <1>2 DEF Grouped, Finish
  <2>2. Seen' = Seen
    <3>1. pc = "group" => i - 1 = Len(events)
      <4>1. pc = "group" => Seen = i - 1 /\ Seen <= Len(events)
        BY <1>0 DEF Seen, Listing
      <4>2. i \in Nat /\ Len(events) \in Nat
        BY <1>0 DEF FInv, FType
      <4>. QED  BY <2>1, <4>1, <4>2
    <3>. QED  BY <2>1, <3>1 DEF Seen
  <2>3. mode' = "additive" =>
          \A m \in DOMAIN out' : out'[m] = Folding(Rows(events', groups'[order'[m]]))
    BY <2>1 DEF SoFar
  <2>. QED  BY <2>1, <2>2, <2>3, ListedKept DEF SoFar
<1>3. CASE KeepFullest
  <2>1. /\ pc = "open" /\ pc' = "open" /\ mode = "most_populated"
        /\ UNCHANGED << events, mode, groups, order >>
    BY <1>3 DEF KeepFullest
  <2>2. Seen' = Seen
    BY <2>1 DEF Seen
  <2>. QED  BY <2>1, <2>2, ListedKept DEF SoFar
<1>. QED
  BY <1>0, <1>1, <1>2, <1>3, GroupSoFar, KeepLoneSoFar, OpenGroupSoFar, MergeRowSoFar,
     CloseGroupSoFar DEF Next

LEMMA LoopIsFolded ==
  ASSUME TallyInv, SoFar, pc = "done", mode = "additive"
  PROVE  out = Folded(events)
<1>. DEFINE u == FirstSeen(events)
<1>1. /\ FInv /\ events \in Seq(Row) /\ Seen = Len(events) /\ out \in Seq(Row)
      /\ Len(out) = Len(order) /\ order \in Seq(Identities)
  BY DEF TallyInv, FInv, FType, Progress, Seen
<1>2. /\ order = [ x \in DOMAIN u |-> Identity(events, u[x]) ]
      /\ \A q \in DOMAIN groups : groups[q] = Upward(OfIdentity(events, q), Len(events))
      /\ \A m \in DOMAIN out : out[m] = Folding(Rows(events, groups[order[m]]))
  BY <1>1 DEF SoFar, Listed, FirstSeen
<1>. HIDE DEF u
<1>3. DOMAIN out = DOMAIN u
  BY <1>1, <1>2
<1>4. ASSUME NEW m \in DOMAIN out
      PROVE  out[m] = Folding(Rows(events, SameEvent(events, u[m])))
  <2>1. order[m] = Identity(events, u[m]) /\ order[m] \in DOMAIN groups
    BY <1>1, <1>2, <1>3 DEF FInv, Grouping
  <2>2. groups[order[m]] = SameEvent(events, u[m])
    BY <1>2, <2>1 DEF SameEvent
  <2>. QED  BY <1>2, <2>2
<1>5. /\ Folded(events) \in Seq(Row) /\ Len(Folded(events)) = Len(u)
      /\ \A m \in DOMAIN u : Folded(events)[m] = Folding(Rows(events, SameEvent(events, u[m])))
  BY <1>1, FoldedIs DEF u
<1>6. u \in Seq(DOMAIN events)
  BY <1>1, FirstSeenIs DEF u
<1>. HIDE DEF Folded
<1>7. Len(out) = Len(u) /\ DOMAIN Folded(events) = DOMAIN out
  BY <1>1, <1>3, <1>5, <1>6
<1>8. \A m \in DOMAIN out : out[m] = Folded(events)[m]
  BY <1>3, <1>4, <1>5
<1>. QED  BY <1>1, <1>5, <1>7, <1>8

LEMMA CutInTwo ==
  ASSUME NEW S, NEW s \in Seq(S), NEW n \in 0 .. Len(s)
  PROVE  /\ SubSeq(s, 1, n) \in Seq(S) /\ SubSeq(s, n + 1, Len(s)) \in Seq(S)
         /\ SubSeq(s, 1, n) \o SubSeq(s, n + 1, Len(s)) = s
<1>. DEFINE len == Len(s)  a == SubSeq(s, 1, n)  b == SubSeq(s, n + 1, len)  l == len - n
            c == a \o b
<1>1. len \in Nat /\ n \in Nat /\ l \in Nat /\ n + l = len
  OBVIOUS
<1>2. a \in Seq(S) /\ Len(a) = n /\ \A m \in 1 .. n : a[m] = s[m]
  OBVIOUS
<1>3. b \in Seq(S) /\ Len(b) = l /\ \A m \in 1 .. l : b[m] = s[n + m]
  OBVIOUS
<1>. HIDE DEF a, b, l
<1>4. /\ c \in Seq(S) /\ Len(c) = n + l
      /\ \A m \in 1 .. n : c[m] = a[m]
      /\ \A m \in 1 .. n + l : ~(m <= n) => c[m] = b[m - n]
  BY <1>1, <1>2, <1>3
<1>. HIDE DEF c
<1>5. ASSUME NEW m \in 1 .. len
      PROVE  c[m] = s[m]
  <2>1. CASE m <= n
    <3>1. m \in 1 .. n
      BY <1>1, <2>1
    <3>. QED  BY <1>2, <1>4, <3>1
  <2>2. CASE ~(m <= n)
    <3>1. m - n \in 1 .. l /\ n + (m - n) = m /\ m \in 1 .. n + l
      BY <1>1, <2>2
    <3>2. c[m] = b[m - n] /\ b[m - n] = s[n + (m - n)]
      BY <1>3, <1>4, <2>2, <3>1
    <3>. QED  BY <3>1, <3>2
  <2>. QED  BY <2>1, <2>2
<1>6. c = s
  BY <1>1, <1>4, <1>5
<1>. QED  BY <1>2, <1>3, <1>6 DEF a, b, c

\* Whatever rows are folded, and wherever the list is cut in two: folding what the
\* first part became with the second gives the rows that folding all at once gives.
THEOREM FoldsInInstalments == Spec => []FoldContinues
<1>1. TallyInv /\ SoFar => FoldContinues
  <2>. SUFFICES ASSUME TallyInv, SoFar, pc = "done", mode = "additive",
                       NEW n \in 0 .. Len(events)
                PROVE  Folded(Folded(SubSeq(events, 1, n)) \o SubSeq(events, n + 1, Len(events)))
                         = out
    BY DEF FoldContinues
  <2>1. events \in Seq(Row) /\ Len(events) \in Nat
    BY DEF TallyInv, FInv, FType
  <2>. DEFINE a == SubSeq(events, 1, n)  b == SubSeq(events, n + 1, Len(events))
  <2>2. a \in Seq(Row) /\ b \in Seq(Row) /\ a \o b = events
    BY <2>1, CutInTwo
  <2>. HIDE DEF a, b
  <2>3. Folded(Folded(a) \o b) = Folded(a \o b)
    BY <2>2, FoldedAgain
  <2>. QED  BY <2>2, <2>3, LoopIsFolded DEF a, b
<1>. QED  BY <1>1, InitTally, NextTally, InitSoFar, NextSoFar, PTL DEF Spec

=============================================================================
