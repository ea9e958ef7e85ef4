---------------------------- MODULE ExportProofs ----------------------------
(***************************************************************************)
(* What is made of a finished case keeps what it promises: the two views   *)
(* of a whole case (CaseViews), the STIX bundle of a source (Stix) and the *)
(* hits of the behaviour layer in one (Detect), for every case, store and  *)
(* corpus, and every order in which the keys of one tier are taken.        *)
(*                                                                         *)
(* The timeline: entries are those of the stores read so far, none twice   *)
(* (Gathered), because an entry names its store, its kind and its place.   *)
(* The sort key is a quadruple of numbers in lexicographic order, the      *)
(* entry's own place last, hence a strict total order; a finite set with   *)
(* one is numbered by counting what comes before (RankRises, RankIsOnes),  *)
(* so that the sort loses, repeats and misplaces nothing (SortedIs).       *)
(*                                                                         *)
(* Convergence: what is loaded is every store's rows (Loaded), a bucket is *)
(* the places of the rows that hold its key (Bucketed), and (Emitted) the  *)
(* keys done have their groups and come before those that wait.  The last  *)
(* is what makes a group's tier the strongest: a shared key that joins the *)
(* same rows and is done already would have its group, one that waits is   *)
(* no stronger.  Both need that a name stands for one store.               *)
(*                                                                         *)
(* The bundle: a put gives an object properties and takes none away        *)
(* (PutFacts, PutAllFacts), so that the bundle only grows (Grows).  What a *)
(* builder makes refers to what it makes and to the row's content (Sound,  *)
(* PartsSound), whence ReferencesResolve.  What was offered stays held     *)
(* (KeptIInv), whence NothingIsOverwritten; what a builder consumes it     *)
(* also says, or its loss is known (Homes, PartsHomes), and the rest is on *)
(* the observation, whence NothingIsHomeless.  For the edges, the rows     *)
(* behind and the lookups agree both ways (FoundIInv: a row has its        *)
(* primary and its observation, a primary is of a row, a process is one    *)
(* that a row names); an edge is then drawn exactly when its ends are      *)
(* found, and a drawing stays (EdgesIInv), whence EdgesAreDrawnOrCounted.  *)
(*                                                                         *)
(* The hits: a condition's meaning is split at its loosest connective, and *)
(* the parser goes from left to right.  By induction on the levels of the  *)
(* meaning, every sense of every stretch is what the parser finds at its   *)
(* first token, whatever follows it (SensesFound), so that a condition     *)
(* that means something is parsed, and as that (ParserReadsMeaning).  A    *)
(* filter that is one condition is what the compiler cuts out of the code  *)
(* (FilterIsWhole, FilterMeans).  That each analytic is compiled from its  *)
(* own document and has flagged what it is true of is FlagIInv.            *)
(***************************************************************************)
EXTENDS CaseViews, Stix, Detect, FiniteSetTheorems, ListLemmas, TLAPS

(***************************************************************************)
(* The order of the timeline.                                              *)
(***************************************************************************)
Kinds == {"object", "relationship"}
IsEntry(e) == e.kind \in Kinds /\ e.ts \in Times

\* Lexicographic on four numbers.
Lex(a, b) ==
  \/ a[1] < b[1]
  \/ a[1] = b[1] /\ a[2] < b[2]
  \/ a[1] = b[1] /\ a[2] = b[2] /\ a[3] < b[3]
  \/ a[1] = b[1] /\ a[2] = b[2] /\ a[3] = b[3] /\ a[4] < b[4]

Quads == Int \X Int \X Int \X Int

LEMMA LexOrders ==
  ASSUME NEW a \in Quads, NEW b \in Quads, NEW c \in Quads
  PROVE  /\ ~Lex(a, a)
         /\ a[4] # b[4] => Lex(a, b) \/ Lex(b, a)
         /\ Lex(a, b) /\ Lex(b, c) => Lex(a, c)
  BY DEF Lex, Quads

SortKey(e, i) ==
  <<IF Placed(e.ts) THEN 0 ELSE 1,
    IF Placed(e.ts) THEN e.ts.instant ELSE e.ts.text,
    Rank(e), i>>

LEMMA SortKeyType ==
  ASSUME NEW e, IsEntry(e), NEW i \in Int
  PROVE  /\ SortKey(e, i) \in Quads
         /\ Placed(e.ts) => SortKey(e, i)[1] = 0 /\ SortKey(e, i)[2] = e.ts.instant
         /\ ~Placed(e.ts) => SortKey(e, i)[1] = 1 /\ SortKey(e, i)[2] = e.ts.text
         /\ SortKey(e, i)[3] = Rank(e) /\ SortKey(e, i)[4] = i
<1>1. e.ts.text \in Int /\ (Placed(e.ts) => e.ts.instant \in Int)
  BY DEF IsEntry, Times, Placed
<1>2. Rank(e) \in Int
  BY DEF Rank
<1>3. CASE Placed(e.ts)
  BY <1>1, <1>2, <1>3 DEF SortKey, Quads
<1>4. CASE ~Placed(e.ts)
  BY <1>1, <1>2, <1>4 DEF SortKey, Quads
<1>. QED  BY <1>3, <1>4

Entries(s) == \A i \in DOMAIN s : i \in Nat /\ IsEntry(s[i])

LEMMA BeforeIsLess ==
  ASSUME NEW a, IsEntry(a), NEW b, IsEntry(b), NEW i \in Int, NEW j \in Int,
         NEW x, x = SortKey(a, i), NEW y, y = SortKey(b, j)
  PROVE  Before(a, b) <=> \/ x[1] < y[1]
                          \/ x[1] = y[1] /\ x[2] < y[2]
                          \/ x[1] = y[1] /\ x[2] = y[2] /\ x[3] < y[3]
<1>1. /\ x[3] = Rank(a)
      /\ Placed(a.ts) => x[1] = 0 /\ x[2] = a.ts.instant
      /\ ~Placed(a.ts) => x[1] = 1 /\ x[2] = a.ts.text
  BY SortKeyType
<1>2. /\ y[3] = Rank(b)
      /\ Placed(b.ts) => y[1] = 0 /\ y[2] = b.ts.instant
      /\ ~Placed(b.ts) => y[1] = 1 /\ y[2] = b.ts.text
  BY SortKeyType
<1>3. CASE Placed(a.ts) /\ Placed(b.ts)
  <2>1. Before(a, b) <=> \/ a.ts.instant < b.ts.instant
                         \/ a.ts.instant = b.ts.instant /\ Rank(a) < Rank(b)
    BY <1>3 DEF Before
  <2>. QED  BY <1>1, <1>2, <1>3, <2>1
<1>4. CASE ~Placed(a.ts) /\ ~Placed(b.ts)
  <2>1. Before(a, b) <=> \/ a.ts.text < b.ts.text
                         \/ a.ts.text = b.ts.text /\ Rank(a) < Rank(b)
    BY <1>4 DEF Before, Placed
  <2>. QED  BY <1>1, <1>2, <1>4, <2>1
<1>5. CASE Placed(a.ts) /\ ~Placed(b.ts)
  <2>1. Before(a, b)
    BY <1>5 DEF Before
  <2>. QED  BY <1>1, <1>2, <1>5, <2>1
<1>6. CASE ~Placed(a.ts) /\ Placed(b.ts)
  <2>1. ~Before(a, b)
    BY <1>6 DEF Before
  <2>. QED  BY <1>1, <1>2, <1>6, <2>1
<1>. QED  BY <1>3, <1>4, <1>5, <1>6

\* What sooner means.
LEMMA SoonerIsLex ==
  ASSUME Entries(entries), NEW i \in DOMAIN entries, NEW j \in DOMAIN entries
  PROVE  Sooner(i, j) <=> Lex(SortKey(entries[i], i), SortKey(entries[j], j))
<1>1. /\ i \in Int /\ IsEntry(entries[i])
      /\ j \in Int /\ IsEntry(entries[j])
  BY DEF Entries
<1>2. PICK x : x = SortKey(entries[i], i)
  OBVIOUS
<1>3. PICK y : y = SortKey(entries[j], j)
  OBVIOUS
<1>4. x \in Quads /\ x[4] = i /\ y \in Quads /\ y[4] = j
  BY <1>1, <1>2, <1>3, SortKeyType
<1>5. Before(entries[i], entries[j]) <=>
        \/ x[1] < y[1]
        \/ x[1] = y[1] /\ x[2] < y[2]
        \/ x[1] = y[1] /\ x[2] = y[2] /\ x[3] < y[3]
  BY <1>1, <1>2, <1>3, BeforeIsLess
<1>6. Before(entries[j], entries[i]) <=>
        \/ y[1] < x[1]
        \/ y[1] = x[1] /\ y[2] < x[2]
        \/ y[1] = x[1] /\ y[2] = x[2] /\ y[3] < x[3]
  BY <1>1, <1>2, <1>3, BeforeIsLess
<1>7. Sooner(i, j) <=> Before(entries[i], entries[j])
                         \/ (~Before(entries[j], entries[i]) /\ x[4] < y[4])
  BY <1>4 DEF Sooner
<1>8. Sooner(i, j) <=> Lex(x, y)
  <2>1. \A n \in 1 .. 4 : x[n] \in Int /\ y[n] \in Int
    BY <1>4 DEF Quads
  <2>. QED  BY <1>5, <1>6, <1>7, <2>1 DEF Lex
<1>. QED  BY <1>2, <1>3, <1>8

Sooners == {p \in InWindow \X InWindow : Sooner(p[1], p[2])}

LEMMA SoonerOrders ==
  ASSUME Entries(entries)
  PROVE  Orders(Sooners, InWindow)
<1>. DEFINE Q(i) == SortKey(entries[i], i)
<1>1. InWindow \subseteq DOMAIN entries
  BY DEF InWindow
<1>2. \A i \in InWindow : Q(i) \in Quads /\ Q(i)[4] = i
  BY <1>1, SortKeyType DEF Entries
<1>3. \A i, j \in InWindow : <<i, j>> \in Sooners <=> Lex(Q(i), Q(j))
  BY <1>1, SoonerIsLex DEF Sooners
<1>. HIDE DEF Q
<1>4. \A i, j, k \in InWindow :
        /\ ~Lex(Q(i), Q(i))
        /\ i # j => Lex(Q(i), Q(j)) \/ Lex(Q(j), Q(i))
        /\ Lex(Q(i), Q(j)) /\ Lex(Q(j), Q(k)) => Lex(Q(i), Q(k))
  BY <1>2, LexOrders
<1>. QED  BY <1>3, <1>4 DEF Orders

LEMMA PlaceIsRank ==
  ASSUME NEW i \in InWindow
  PROVE  PlaceOf(i) = Rank1(Sooners, InWindow, i)
<1>1. {j \in InWindow : Sooner(j, i)} = {j \in InWindow : <<j, i>> \in Sooners}
  BY DEF Sooners
<1>. QED  BY <1>1 DEF PlaceOf, Rank1

LEMMA KeptFinite ==
  ASSUME IsList(entries)
  PROVE  /\ IsFiniteSet(InWindow) /\ Cardinality(InWindow) \in Nat
         /\ InWindow \subseteq DOMAIN entries /\ DOMAIN entries = 1 .. Len(entries)
<1>1. DOMAIN entries = 1 .. Len(entries) /\ Len(entries) \in Nat
  BY ListLen
<1>2. IsFiniteSet(DOMAIN entries)
  BY <1>1, FS_Interval
<1>3. InWindow \in SUBSET DOMAIN entries
  BY DEF InWindow
<1>4. IsFiniteSet(InWindow)
  BY <1>2, <1>3, FS_Subset
<1>. QED  BY <1>1, <1>3, <1>4, FS_CardinalityType

InPlace(n) == CHOOSE i \in InWindow : PlaceOf(i) = n
Sorted == [n \in 1 .. Cardinality(InWindow) |-> entries[InPlace(n)]]

\* The n-th place is taken by one kept entry, later places by later ones.
LEMMA PlacesTaken ==
  ASSUME Entries(entries), IsList(entries)
  PROVE  /\ \A n \in 1 .. Cardinality(InWindow) :
              InPlace(n) \in InWindow /\ PlaceOf(InPlace(n)) = n
         /\ \A i \in InWindow :
              PlaceOf(i) \in 1 .. Cardinality(InWindow) /\ InPlace(PlaceOf(i)) = i
         /\ \A m, n \in 1 .. Cardinality(InWindow) :
              m < n => Sooner(InPlace(m), InPlace(n))
<1>. DEFINE C == 1 .. Cardinality(InWindow)
            P(i) == Rank1(Sooners, InWindow, i)
<1>1. IsFiniteSet(InWindow) /\ Orders(Sooners, InWindow) /\ Cardinality(InWindow) \in Nat
  BY KeptFinite, SoonerOrders
<1>2. /\ \A i \in InWindow : P(i) \in C
      /\ \A i, j \in InWindow : <<i, j>> \in Sooners => P(i) < P(j)
  BY <1>1, RankRises
<1>3. \A n \in C : \E i \in InWindow : P(i) = n
  BY <1>1, RankIsOnes
<1>4. ASSUME NEW i \in InWindow, NEW j \in InWindow, P(i) = P(j)
      PROVE  i = j
  <2>1. P(i) \in C
    BY <1>2
  <2>. QED  BY <1>1, <1>4, <2>1, RankIsOnes
<1>5. \A i \in InWindow : PlaceOf(i) = P(i)
  BY PlaceIsRank
<1>. HIDE DEF P
<1>6. \A n \in C : InPlace(n) \in InWindow /\ PlaceOf(InPlace(n)) = n
  BY <1>3, <1>5 DEF InPlace
<1>7. \A i \in InWindow : PlaceOf(i) \in C /\ InPlace(PlaceOf(i)) = i
  BY <1>2, <1>4, <1>5, <1>6
<1>8. ASSUME NEW m \in C, NEW n \in C, m < n
      PROVE  Sooner(InPlace(m), InPlace(n))
  <2>1. /\ InPlace(m) \in InWindow /\ P(InPlace(m)) = m
        /\ InPlace(n) \in InWindow /\ P(InPlace(n)) = n
    BY <1>5, <1>6
  <2>2. InPlace(m) # InPlace(n)
    BY <1>8, <2>1
  <2>3. <<InPlace(n), InPlace(m)>> \notin Sooners
    <3>1. <<InPlace(n), InPlace(m)>> \in Sooners => n < m
      BY <1>2, <2>1
    <3>. QED  BY <1>8, <3>1
  <2>4. <<InPlace(m), InPlace(n)>> \in Sooners
    BY <1>1, <2>1, <2>2, <2>3 DEF Orders
  <2>. QED  BY <2>4 DEF Sooners
<1>. QED  BY <1>6, <1>7, <1>8

Forward(a, b) ==
  /\ Placed(b.ts) => Placed(a.ts) /\ a.ts.instant <= b.ts.instant
  /\ ~Placed(a.ts) => ~Placed(b.ts) /\ a.ts.text <= b.ts.text
  /\ \/ Placed(a.ts) /\ Placed(b.ts) /\ a.ts.instant = b.ts.instant
     \/ ~Placed(a.ts) /\ ~Placed(b.ts) /\ a.ts.text = b.ts.text
     => ~(a.kind = "relationship" /\ b.kind = "object")

RunsForward(s) == \A i, j \in DOMAIN s : i < j => Forward(s[i], s[j])

LEMMA SoonerIsForward ==
  ASSUME Entries(entries), NEW i \in DOMAIN entries, NEW j \in DOMAIN entries,
         Sooner(i, j)
  PROVE  Forward(entries[i], entries[j])
<1>. DEFINE a == entries[i]
            b == entries[j]
<1>1. PICK x : x = SortKey(entries[i], i)
  OBVIOUS
<1>2. PICK y : y = SortKey(entries[j], j)
  OBVIOUS
<1>3. i \in Int /\ j \in Int /\ IsEntry(a) /\ IsEntry(b)
  BY DEF Entries
<1>4. /\ x \in Quads
      /\ Placed(a.ts) => x[1] = 0 /\ x[2] = a.ts.instant
      /\ ~Placed(a.ts) => x[1] = 1 /\ x[2] = a.ts.text
      /\ x[3] = Rank(a)
  BY <1>1, <1>3, SortKeyType
<1>5. /\ y \in Quads
      /\ Placed(b.ts) => y[1] = 0 /\ y[2] = b.ts.instant
      /\ ~Placed(b.ts) => y[1] = 1 /\ y[2] = b.ts.text
      /\ y[3] = Rank(b)
  BY <1>2, <1>3, SortKeyType
<1>6. Lex(x, y)
  BY <1>1, <1>2, SoonerIsLex
<1>7. /\ x[1] <= y[1]
      /\ x[1] = y[1] => x[2] <= y[2]
      /\ x[1] = y[1] /\ x[2] = y[2] => x[3] <= y[3]
  <2>1. \A n \in 1 .. 4 : x[n] \in Int /\ y[n] \in Int
    BY <1>4, <1>5 DEF Quads
  <2>. QED  BY <1>6, <2>1 DEF Lex
<1>8. a.kind = "relationship" /\ b.kind = "object" => Rank(a) = 1 /\ Rank(b) = 0
  BY DEF Rank
<1>. QED  BY <1>4, <1>5, <1>7, <1>8 DEF Forward

\* What the sort makes of the entries.
LEMMA SortedIs ==
  ASSUME Entries(entries), IsList(entries), IsInjective(entries)
  PROVE  /\ IsList(Sorted) /\ IsInjective(Sorted)
         /\ ToSet(Sorted) = {e \in ToSet(entries) : Inside(e.ts)}
         /\ RunsForward(Sorted)
<1>. DEFINE C == 1 .. Cardinality(InWindow)
<1>1. Cardinality(InWindow) \in Nat /\ InWindow \subseteq DOMAIN entries
  BY KeptFinite
<1>2. Sorted = [n \in C |-> Sorted[n]] /\ DOMAIN Sorted = C
  BY DEF Sorted
<1>3. IsList(Sorted)
  BY <1>1, <1>2, ListMade
<1>4. \A n \in C : Sorted[n] = entries[InPlace(n)]
  BY DEF Sorted
<1>5. /\ \A n \in C : InPlace(n) \in InWindow /\ PlaceOf(InPlace(n)) = n
      /\ \A i \in InWindow : PlaceOf(i) \in C /\ InPlace(PlaceOf(i)) = i
      /\ \A m, n \in C : m < n => Sooner(InPlace(m), InPlace(n))
  BY PlacesTaken
<1>6. IsInjective(Sorted)
  <2>. SUFFICES ASSUME NEW m \in C, NEW n \in C, Sorted[m] = Sorted[n]
                PROVE  m = n
    BY <1>2 DEF IsInjective
  <2>1. InPlace(m) = InPlace(n)
    BY <1>1, <1>4, <1>5 DEF IsInjective
  <2>. QED  BY <1>5, <2>1
<1>7. \A e : e \in ToSet(Sorted) <=> \E n \in C : e = entries[InPlace(n)]
  BY <1>2, <1>4 DEF ToSet
<1>8. \A e : (\E n \in C : e = entries[InPlace(n)]) <=> \E i \in InWindow : e = entries[i]
  BY <1>5
<1>9. \A e : (\E i \in InWindow : e = entries[i]) <=> e \in ToSet(entries) /\ Inside(e.ts)
  BY DEF InWindow, ToSet
<1>10. ToSet(Sorted) = {e \in ToSet(entries) : Inside(e.ts)}
  BY <1>7, <1>8, <1>9
<1>11. RunsForward(Sorted)
  <2>. SUFFICES ASSUME NEW m \in C, NEW n \in C, m < n
                PROVE  Forward(Sorted[m], Sorted[n])
    BY <1>2 DEF RunsForward
  <2>1. Sooner(InPlace(m), InPlace(n))
    BY <1>5
  <2>2. InPlace(m) \in DOMAIN entries /\ InPlace(n) \in DOMAIN entries
    BY <1>1, <1>5
  <2>3. Forward(entries[InPlace(m)], entries[InPlace(n)])
    BY <2>1, <2>2, SoonerIsForward
  <2>. QED  BY <1>4, <2>3
<1>. QED  BY <1>3, <1>6, <1>10, <1>11

(***************************************************************************)
(* What is gathered for the timeline.                                      *)
(***************************************************************************)
Wanted(kind, n, es) ==
  {Entry(kind, n, i, es[i]) : i \in {i \in DOMAIN es : es[i].ts # NoTime}}

LEMMA TimedIs ==
  ASSUME NEW es, IsList(es), NEW kind, NEW n
  PROVE  /\ IsList(Timed(kind, n, es)) /\ IsInjective(Timed(kind, n, es))
         /\ ToSet(Timed(kind, n, es)) = Wanted(kind, n, es)
<1>. DEFINE E(i) == Entry(kind, n, i, es[i])
            ss == [i \in DOMAIN es |-> IF es[i].ts = NoTime THEN <<>> ELSE <<E(i)>>]
<1>1. IsList(ss) /\ DOMAIN ss = DOMAIN es
  BY ListMapped
<1>2. ToSet(<<>>) = {} /\ IsInjective(<<>>)
  BY DEF ToSet, IsInjective
<1>3. \A i : ToSet(<<E(i)>>) = {E(i)} /\ IsInjective(<<E(i)>>)
  BY DEF ToSet, IsInjective
<1>4. \A i \in DOMAIN es :
        /\ IsList(ss[i]) /\ IsInjective(ss[i])
        /\ es[i].ts = NoTime => ToSet(ss[i]) = {}
        /\ es[i].ts # NoTime => ToSet(ss[i]) = {E(i)}
  <2>. TAKE i \in DOMAIN es
  <2>1. CASE es[i].ts = NoTime
    BY <1>2, <2>1, ListEmpty
  <2>2. CASE es[i].ts # NoTime
    <3>1. ss[i] = <<E(i)>>
      BY <2>2
    <3>. HIDE DEF ss, E
    <3>. QED  BY <1>3, <2>2, <3>1, ListSingle
  <2>. QED  BY <2>1, <2>2
<1>5. \A i, j : E(i) = E(j) => i = j
  BY DEF Entry
<1>6. Timed(kind, n, es) = FlattenSeq(ss)
  BY DEF Timed
<1>7. \A x : x \in Wanted(kind, n, es) <=>
              \E i \in DOMAIN es : es[i].ts # NoTime /\ x = E(i)
  BY DEF Wanted
<1>. HIDE DEF ss, E
<1>8. AllLists(ss)
  BY <1>1, <1>4 DEF AllLists
<1>9. IsList(FlattenSeq(ss))
  BY <1>1, <1>8, FlattenList
<1>10. IsInjective(FlattenSeq(ss))
  <2>1. \A i, j \in DOMAIN ss : i # j => \A x \in ToSet(ss[i]) : x \notin ToSet(ss[j])
    BY <1>1, <1>4, <1>5
  <2>2. \A i \in DOMAIN ss : IsInjective(ss[i])
    BY <1>1, <1>4
  <2>. QED  BY <1>1, <1>8, <2>1, <2>2, FlattenInjective
<1>11. ToSet(FlattenSeq(ss)) = Wanted(kind, n, es)
  <2>1. ASSUME NEW x \in ToSet(FlattenSeq(ss))
        PROVE  x \in Wanted(kind, n, es)
    <3>1. PICK i \in DOMAIN ss : x \in ToSet(ss[i])
      BY <1>1, <1>8, FlattenMembers
    <3>. QED  BY <1>1, <1>4, <1>7, <3>1
  <2>2. ASSUME NEW x \in Wanted(kind, n, es)
        PROVE  x \in ToSet(FlattenSeq(ss))
    <3>1. PICK i \in DOMAIN es : es[i].ts # NoTime /\ x = E(i)
      BY <1>7
    <3>2. i \in DOMAIN ss /\ x \in ToSet(ss[i])
      BY <1>1, <1>4, <3>1
    <3>. QED  BY <1>1, <1>8, <3>2, FlattenHas
  <2>. QED  BY <2>1, <2>2
<1>. QED  BY <1>6, <1>9, <1>10, <1>11

OfStore(c, n) ==
  Wanted("object", n, c[n].rows) \cup Wanted("relationship", n, c[n].edges)
Upto(c, n) == UNION {OfStore(c, m) : m \in 1 .. n - 1}

\* Entries of different stores, and of different kinds, are different.
LEMMA WantedApart ==
  /\ \A kind, n, es : \A e \in Wanted(kind, n, es) : e.kind = kind /\ e.store = n
  /\ \A c, n : \A e \in Upto(c, n) : \E m \in 1 .. n - 1 : e.store = m
<1>1. \A kind, n, es : \A e \in Wanted(kind, n, es) : e.kind = kind /\ e.store = n
  BY DEF Wanted, Entry
<1>2. \A c, m : \A e \in OfStore(c, m) : e.store = m
  BY <1>1 DEF OfStore
<1>. QED  BY <1>1, <1>2 DEF Upto

LEMMA UptoNext ==
  ASSUME NEW c, NEW n \in Nat, n >= 1
  PROVE  /\ Upto(c, 1) = {}
         /\ Upto(c, n + 1) = Upto(c, n) \cup OfStore(c, n)
<1>1. 1 .. (1 - 1) = {} /\ 1 .. (n + 1) - 1 = (1 .. n - 1) \cup {n}
  OBVIOUS
<1>. QED  BY <1>1 DEF Upto

Bounds(w) == {w.lo, w.hi} \subseteq Int \cup {NoBound}

\* A case as the assumption has it.
LEMMA CaseIs ==
  ASSUME NEW c \in Cases
  PROVE  /\ IsList(c) /\ Len(c) \in Nat /\ DOMAIN c = 1 .. Len(c)
         /\ \A n \in 1 .. Len(c) :
              /\ IsList(c[n].rows) /\ IsList(c[n].edges)
              /\ \A e \in OfStore(c, n) : IsEntry(e)
<1>1. IsList(c)
  BY CaseAssumption DEF IsList
<1>2. Len(c) \in Nat /\ DOMAIN c = 1 .. Len(c)
  BY <1>1, ListLen
<1>3. ASSUME NEW n \in 1 .. Len(c)
      PROVE  /\ IsList(c[n].rows) /\ IsList(c[n].edges)
             /\ \A e \in OfStore(c, n) : IsEntry(e)
  <2>1. c[n] \in ToSet(c)
    BY <1>2 DEF ToSet
  <2>2. /\ IsList(c[n].rows) /\ IsList(c[n].edges)
        /\ \A e \in ToSet(c[n].rows) \cup ToSet(c[n].edges) :
             e.ts = NoTime \/ e.ts \in Times
    BY <2>1, CaseAssumption DEF IsList
  <2>3. ASSUME NEW kind \in Kinds, NEW es, ToSet(es) \subseteq ToSet(c[n].rows) \cup ToSet(c[n].edges),
               NEW e \in Wanted(kind, n, es)
        PROVE  IsEntry(e)
    <3>1. PICK i \in DOMAIN es : es[i].ts # NoTime /\ e = Entry(kind, n, i, es[i])
      BY DEF Wanted
    <3>2. es[i] \in ToSet(es)
      BY DEF ToSet
    <3>3. es[i].ts \in Times
      BY <2>2, <2>3, <3>1, <3>2
    <3>. QED  BY <3>1, <3>3 DEF Entry, IsEntry
  <2>4. \A e \in OfStore(c, n) : IsEntry(e)
    BY <2>3 DEF OfStore, Kinds
  <2>. QED  BY <2>2, <2>4
<1>. QED  BY <1>1, <1>2, <1>3

LEMMA UptoEntries ==
  ASSUME NEW c \in Cases, NEW n \in 1 .. Len(c) + 1
  PROVE  \A e \in Upto(c, n) : IsEntry(e)
<1>1. 1 .. n - 1 \subseteq 1 .. Len(c)
  BY CaseIs
<1>. QED  BY <1>1, CaseIs DEF Upto

Out(w, e) ==
  /\ w.lo # NoBound \/ w.hi # NoBound
  /\ \/ e.ts.instant = NoInstant
     \/ w.lo # NoBound /\ e.ts.instant < w.lo
     \/ w.hi # NoBound /\ e.ts.instant > w.hi

LEMMA InsideIsNotOut ==
  ASSUME window \in Windows, NEW e, IsEntry(e)
  PROVE  Inside(e.ts) <=> ~Out(window, e)
<1>1. /\ window.lo \in Int \cup {NoBound} /\ window.hi \in Int \cup {NoBound}
      /\ e.ts.instant \in Int \cup {NoInstant}
  BY CaseAssumption DEF IsEntry, Times
<1>2. CASE e.ts.instant = NoInstant
  BY <1>2 DEF Inside, Out, Placed
<1>3. CASE e.ts.instant # NoInstant
  <2>1. e.ts.instant \in Int
    BY <1>1, <1>3
  <2>2. window.lo # NoBound => (e.ts.instant >= window.lo <=> ~(e.ts.instant < window.lo))
    BY <1>1, <2>1
  <2>3. window.hi # NoBound => (e.ts.instant <= window.hi <=> ~(e.ts.instant > window.hi))
    BY <1>1, <2>1
  <2>. QED  BY <1>3, <2>2, <2>3 DEF Inside, Out, Placed
<1>. QED  BY <1>2, <1>3

Stages == {"load", "emit", "objects", "edges", "done"}

Gathered ==
  /\ IsList(entries) /\ IsInjective(entries)
  /\ pc \in {"load", "emit"} => entries = <<>>
  /\ pc = "objects" => /\ next \in 1 .. Len(case) + 1
                       /\ ToSet(entries) = Upto(case, next)
  /\ pc = "edges" =>
       /\ next \in 1 .. Len(case)
       /\ ToSet(entries) =
            Upto(case, next) \cup Wanted("object", next, case[next].rows)
  /\ pc = "done" =>
       /\ ToSet(entries) = {e \in Upto(case, Len(case) + 1) : ~Out(window, e)}
       /\ RunsForward(entries)

TInv == case \in Cases /\ window \in Windows /\ pc \in Stages /\ Gathered

LEMMA TInit == ViewsInit => TInv
<1>1. IsList(<<>>) /\ IsInjective(<<>>)
  BY ListEmpty DEF IsInjective
<1>. QED  BY <1>1 DEF ViewsInit, TInv, Gathered, Stages

LEMMA TGathers ==
  ASSUME TInv, pc \in {"objects", "edges"}, NEW b, IsList(b), IsInjective(b),
         \A e \in ToSet(entries) : e \notin ToSet(b)
  PROVE  /\ IsList(entries \o b) /\ IsInjective(entries \o b)
         /\ ToSet(entries \o b) = ToSet(entries) \cup ToSet(b)
  BY ListConcat, ConcatInjective, ConcatMembers DEF TInv, Gathered

LEMMA TObjects == TInv /\ ReadObjects => TInv'
<1>. SUFFICES ASSUME TInv, ReadObjects PROVE TInv'
  OBVIOUS
<1>. DEFINE b == Timed("object", next, case[next].rows)
<1>1. /\ case \in Cases /\ pc = "objects" /\ next \in 1 .. Len(case) + 1 /\ next <= Len(case)
      /\ ToSet(entries) = Upto(case, next)
  BY DEF TInv, Gathered, ReadObjects
<1>2. next \in 1 .. Len(case)
  BY <1>1, CaseIs
<1>3. /\ IsList(b) /\ IsInjective(b)
      /\ ToSet(b) = Wanted("object", next, case[next].rows)
  BY <1>1, <1>2, CaseIs, TimedIs
<1>4. \A e \in ToSet(entries) : e \notin ToSet(b)
  <2>1. next \notin 1 .. next - 1
    BY <1>2
  <2>. QED  BY <1>1, <1>3, <2>1, WantedApart
<1>. HIDE DEF b
<1>5. /\ IsList(entries \o b) /\ IsInjective(entries \o b)
      /\ ToSet(entries \o b) = ToSet(entries) \cup ToSet(b)
  BY <1>1, <1>3, <1>4, TGathers
<1>6. entries' = entries \o b /\ pc' = "edges" /\ UNCHANGED <<case, window, next>>
  BY DEF ReadObjects, b
<1>. QED  BY <1>1, <1>2, <1>3, <1>5, <1>6 DEF TInv, Gathered, Stages

LEMMA TEdges == TInv /\ ReadEdges => TInv'
<1>. SUFFICES ASSUME TInv, ReadEdges PROVE TInv'
  OBVIOUS
<1>. DEFINE b == Timed("relationship", next, case[next].edges)
<1>1. /\ case \in Cases /\ pc = "edges" /\ next \in 1 .. Len(case)
      /\ ToSet(entries) =
           Upto(case, next) \cup Wanted("object", next, case[next].rows)
  BY DEF TInv, Gathered, ReadEdges
<1>2. /\ IsList(b) /\ IsInjective(b)
      /\ ToSet(b) = Wanted("relationship", next, case[next].edges)
  BY <1>1, CaseIs, TimedIs
<1>3. \A e \in ToSet(entries) : e \notin ToSet(b)
  <2>1. next \notin 1 .. next - 1
    BY <1>1
  <2>. QED  BY <1>1, <1>2, <2>1, WantedApart
<1>. HIDE DEF b
<1>4. /\ IsList(entries \o b) /\ IsInjective(entries \o b)
      /\ ToSet(entries \o b) = ToSet(entries) \cup ToSet(b)
  BY <1>1, <1>2, <1>3, TGathers
<1>5. entries' = entries \o b /\ pc' = "objects" /\ next' = next + 1 /\ UNCHANGED <<case, window>>
  BY DEF ReadEdges, b
<1>6. Len(case) \in Nat
  BY <1>1, CaseIs
<1>7. ToSet(entries') = Upto(case, next + 1)
  <2>1. Upto(case, next + 1) = Upto(case, next) \cup OfStore(case, next)
    BY <1>1, <1>6, UptoNext
  <2>. QED  BY <1>1, <1>2, <1>4, <1>5, <2>1 DEF OfStore
<1>8. next + 1 \in 1 .. Len(case) + 1
  BY <1>1, <1>6
<1>. QED  BY <1>1, <1>4, <1>5, <1>7, <1>8 DEF TInv, Gathered, Stages

LEMMA TOrder == TInv /\ Order => TInv'
<1>. SUFFICES ASSUME TInv, Order PROVE TInv'
  OBVIOUS
<1>. DEFINE n == Len(case) + 1
<1>1. /\ case \in Cases /\ window \in Windows /\ pc = "objects"
      /\ IsList(entries) /\ IsInjective(entries)
      /\ next \in 1 .. Len(case) + 1 /\ next > Len(case)
      /\ ToSet(entries) = Upto(case, next)
  BY DEF TInv, Gathered, Order
<1>2. next = n /\ n \in 1 .. Len(case) + 1
  BY <1>1, CaseIs
<1>3. \A e \in ToSet(entries) : IsEntry(e)
  BY <1>1, UptoEntries
<1>4. Entries(entries)
  BY <1>1, <1>3, ListLen DEF Entries, ToSet
<1>5. /\ IsList(Sorted) /\ IsInjective(Sorted)
      /\ ToSet(Sorted) = {e \in ToSet(entries) : Inside(e.ts)}
      /\ RunsForward(Sorted)
  BY <1>1, <1>4, SortedIs
<1>6. entries' = Sorted /\ pc' = "done" /\ UNCHANGED <<case, window>>
  BY DEF Order, Sorted, InPlace
<1>7. ToSet(Sorted) = {e \in Upto(case, n) : ~Out(window, e)}
  BY <1>1, <1>2, <1>3, <1>5, InsideIsNotOut
<1>. QED  BY <1>1, <1>5, <1>6, <1>7 DEF TInv, Gathered, Stages

LEMMA TStart == TInv /\ StartTimeline => TInv'
<1>. SUFFICES ASSUME TInv, StartTimeline PROVE TInv'
  OBVIOUS
<1>1. /\ case \in Cases /\ entries = <<>> /\ entries' = entries /\ pc' = "objects" /\ next' = 1
      /\ UNCHANGED <<case, window>>
  BY DEF TInv, Gathered, StartTimeline
<1>2. ToSet(<<>>) = {} /\ Upto(case, 1) = {}
  BY UptoNext DEF ToSet
<1>3. 1 \in 1 .. Len(case) + 1
  BY <1>1, CaseIs
<1>. QED  BY <1>1, <1>2, <1>3 DEF TInv, Gathered, Stages

LEMMA TNext == TInv /\ [ViewsNext]_viewVars => TInv'
<1>. SUFFICES ASSUME TInv, [ViewsNext]_viewVars PROVE TInv'
  OBVIOUS
<1>1. CASE LoadStore
  BY <1>1 DEF LoadStore, TInv, Gathered, Stages
<1>2. CASE Bucket
  BY <1>2 DEF Bucket, TInv, Gathered, Stages
<1>3. CASE Converge
  BY <1>3 DEF Converge, TInv, Gathered, Stages
<1>4. CASE UNCHANGED viewVars
  BY <1>4 DEF viewVars, TInv, Gathered, Stages
<1>. QED  BY <1>1, <1>2, <1>3, <1>4, TStart, TObjects, TEdges, TOrder DEF ViewsNext

LEMMA TAlways == ViewsSpec => []TInv
  BY TInit, TNext, PTL DEF ViewsSpec

\* The timeline of every case runs forward in true time, whatever its
\* timestamps look like (timeline.py:122-133).
THEOREM RunsForwardInTime == ViewsSpec => []TimeRunsForward
<1>1. TInv => TimeRunsForward
  <2>. SUFFICES ASSUME TInv, pc = "done" PROVE RunsForward(entries)
    BY DEF TimeRunsForward, RunsForward, Forward
  <2>. QED  BY DEF TInv, Gathered
<1>. QED  BY <1>1, TAlways, PTL

\* And it holds every timed row and edge of the window exactly once, for every
\* case and every window (timeline.py:95-123).
THEOREM HoldsEveryMoment == ViewsSpec => []NothingLostInTime
<1>1. TInv => NothingLostInTime
  <2>. SUFFICES ASSUME TInv, pc = "done" PROVE NothingLostInTime
    BY DEF NothingLostInTime
  <2>1. /\ case \in Cases /\ IsInjective(entries)
        /\ ToSet(entries) = {e \in Upto(case, Len(case) + 1) : ~Out(window, e)}
    BY DEF TInv, Gathered
  <2>2. DOMAIN case = 1 .. (Len(case) + 1) - 1
    BY <2>1, CaseIs
  <2>3. Upto(case, Len(case) + 1) = UNION {OfStore(case, n) : n \in DOMAIN case}
    BY <2>2 DEF Upto
  <2>4. \A kind, n, es :
          Wanted(kind, n, es) =
            {[kind |-> kind, store |-> n, at |-> i, ts |-> es[i].ts] :
               i \in {i \in DOMAIN es : es[i].ts # NoTime}}
    BY DEF Wanted, Entry
  <2>. QED  BY <2>1, <2>3, <2>4 DEF NothingLostInTime, OfStore, Out
<1>. QED  BY <1>1, TAlways, PTL

(***************************************************************************)
(* Convergence.                                                            *)
(***************************************************************************)
\* The stores of a case are told apart by the names of their directories: it is
\* a batch output tree, one <source>/car.db per source (crosssource.py:300).
DirectoriesApart ==
  \A c \in Cases : \A m, n \in DOMAIN c : c[m].name = c[n].name => m = n

SourcedRow(c, n, i) == [row |-> c[n].rows[i], source |-> c[n].name]
RowsOf(c) == UNION {{[row |-> r, source |-> s.name] : r \in ToSet(s.rows)} :
                      s \in ToSet(c)}
KeysIn(R) == UNION {Keys(m.row) : m \in R}
Holding(R, k) == {m \in R : k \in Keys(m.row)}
JoinedIn(R, k) == {MemberOf(m) : m \in Holding(R, k)}
SharedIn(R) == {k \in KeysIn(R) : CrossSource(Holding(R, k))}

LEMMA RowsOfIs ==
  ASSUME NEW c \in Cases, NEW m
  PROVE  m \in RowsOf(c) <=>
           \E n \in DOMAIN c : \E i \in DOMAIN c[n].rows : m = SourcedRow(c, n, i)
BY DEF RowsOf, SourcedRow, ToSet

\* What identifies a member of a group identifies a row.
LEMMA MembersDiffer ==
  ASSUME DirectoriesApart, NEW c \in Cases, NEW a \in RowsOf(c), NEW b \in RowsOf(c),
         MemberOf(a) = MemberOf(b)
  PROVE  a = b
<1>1. PICK m \in DOMAIN c : \E i \in DOMAIN c[m].rows : a = SourcedRow(c, m, i)
  BY RowsOfIs
<1>2. PICK i \in DOMAIN c[m].rows : a = SourcedRow(c, m, i)
  BY <1>1
<1>3. PICK n \in DOMAIN c : \E j \in DOMAIN c[n].rows : b = SourcedRow(c, n, j)
  BY RowsOfIs
<1>4. PICK j \in DOMAIN c[n].rows : b = SourcedRow(c, n, j)
  BY <1>3
<1>5. /\ a.source = b.source
      /\ a.row.id = b.row.id
      /\ a.row.obj = b.row.obj
  BY DEF MemberOf
<1>6. m = n
  BY <1>2, <1>4, <1>5 DEF SourcedRow, DirectoriesApart
<1>7. c[m] \in ToSet(c)
  BY DEF ToSet
<1>8. i = j
  BY <1>2, <1>4, <1>5, <1>6, <1>7, CaseAssumption DEF SourcedRow
<1>. QED  BY <1>2, <1>4, <1>6, <1>8

LEMMA KeyShape ==
  ASSUME NEW row, NEW k \in Keys(row)
  PROVE  k = <<k[1], k[2]>> /\ TierRank[k[1]] \in Int
<1>1. k \in RecordKeys(row) => \E x : k = <<"record", x>>
  BY DEF RecordKeys
<1>2. k \in ContentKeys(row) => \E x : k = <<"content", x>>
  BY DEF ContentKeys
<1>3. k \in NativeKeys(row) => \E x : k = <<"native_id", x>>
  BY DEF NativeKeys
<1>4. k \in ImageKeys(row) => \E x : k = <<"image", x>>
  BY DEF ImageKeys
<1>5. \A t \in {"record", "content", "native_id", "image"} : TierRank[t] \in Int
  BY DEF TierRank
<1>. QED  BY <1>1, <1>2, <1>3, <1>4, <1>5 DEF Keys

Told(R, g) ==
  LET members == {m \in R : MemberOf(m) \in g.members}
      Gave(s, p, v) == \E m \in members :
                         m.source = s /\ Said(m.row, p) /\ m.row.said[p] = v
  IN /\ \A m \in members : \A p \in DOMAIN m.row.said :
          \/ /\ g.view[p].value = m.row.said[p]
             /\ m.source \in g.view[p].from
          \/ [value |-> m.row.said[p], from |-> m.source] \in g.view[p].conflicts
     /\ \A p \in DOMAIN g.view :
          /\ g.view[p].from # {}
          /\ \A s \in g.view[p].from : Gave(s, p, g.view[p].value)
          /\ \A c \in g.view[p].conflicts :
               c.value # g.view[p].value /\ Gave(c.from, p, c.value)

Loaded ==
  pc = "load" =>
    /\ next \in 1 .. Len(case) + 1
    /\ \A m \in 1 .. next - 1 :
         case[m].name \in DOMAIN loaded /\ loaded[case[m].name] = case[m].rows
    /\ groups = <<>>

BucketsOf(R, list) ==
  [k \in KeysIn(R) |-> {i \in DOMAIN list : k \in Keys(list[i].row)}]

Bucketed ==
  pc # "load" =>
    /\ IsList(rows) /\ ToSet(rows) = RowsOf(case)
    /\ waiting \subseteq KeysIn(RowsOf(case))
    /\ buckets = BucketsOf(RowsOf(case), rows)
    /\ pc # "emit" => waiting = {}

\* A group is the rows of a shared key, at the strongest tier that joins them.
Strongest(R, g) ==
  /\ <<g.tier, g.key>> \in SharedIn(R)
  /\ g.members = JoinedIn(R, <<g.tier, g.key>>)
  /\ \A k \in SharedIn(R) :
       JoinedIn(R, k) = g.members => TierRank[g.tier] <= TierRank[k[1]]

\* The keys done so far have their groups, and come before those that wait.
Emitted(R, gs, wait) ==
  /\ \A k \in SharedIn(R) \ wait : \E g \in ToSet(gs) : g.members = JoinedIn(R, k)
  /\ \A k \in KeysIn(R) \ wait, l \in wait : TierRank[k[1]] <= TierRank[l[1]]
  /\ \A i \in DOMAIN gs :
       /\ Strongest(R, gs[i]) /\ Told(R, gs[i])
       /\ \A j \in DOMAIN gs : gs[j].members = gs[i].members => i = j

VInv ==
  /\ case \in Cases /\ Loaded /\ Bucketed /\ IsList(groups)
  /\ pc # "load" => Emitted(RowsOf(case), groups, waiting)

LEMMA VInit == ViewsInit => VInv
<1>. SUFFICES ASSUME ViewsInit PROVE VInv
  OBVIOUS
<1>1. case \in Cases /\ pc = "load" /\ next = 1 /\ groups = <<>>
  BY DEF ViewsInit
<1>2. 1 \in 1 .. Len(case) + 1 /\ 1 .. 1 - 1 = {}
  BY <1>1, CaseIs
<1>. QED  BY <1>1, <1>2, ListEmpty DEF VInv, Loaded, Bucketed

LEMMA VLoad == DirectoriesApart /\ VInv /\ LoadStore => VInv'
<1>. SUFFICES ASSUME DirectoriesApart, VInv, LoadStore PROVE VInv'
  OBVIOUS
<1>1. /\ case \in Cases /\ pc = "load" /\ next \in 1 .. Len(case) + 1 /\ next <= Len(case)
      /\ \A m \in 1 .. next - 1 :
           case[m].name \in DOMAIN loaded /\ loaded[case[m].name] = case[m].rows
      /\ groups = <<>> /\ IsList(groups)
  BY DEF VInv, Loaded, LoadStore
<1>2. Len(case) \in Nat /\ DOMAIN case = 1 .. Len(case)
  BY <1>1, CaseIs
<1>3. /\ next' = next + 1 /\ UNCHANGED <<case, groups, pc>>
      /\ loaded' = [n \in DOMAIN loaded \union {case[next].name} |->
                      IF n = case[next].name THEN case[next].rows ELSE loaded[n]]
  BY DEF LoadStore
<1>4. next + 1 \in 1 .. Len(case) + 1
  BY <1>1, <1>2
<1>5. ASSUME NEW m \in 1 .. (next + 1) - 1
      PROVE  case[m].name \in DOMAIN loaded' /\ loaded'[case[m].name] = case[m].rows
  <2>1. CASE m = next
    BY <1>3, <2>1
  <2>2. CASE m # next
    <3>1. m \in 1 .. next - 1 /\ m \in DOMAIN case /\ next \in DOMAIN case
      BY <1>1, <1>2, <2>2
    <3>2. case[m].name # case[next].name
      BY <1>1, <2>2, <3>1 DEF DirectoriesApart
    <3>. QED  BY <1>1, <1>3, <3>1, <3>2
  <2>. QED  BY <2>1, <2>2
<1>. QED  BY <1>1, <1>3, <1>4, <1>5 DEF VInv, Loaded, Bucketed

LEMMA VBucket == DirectoriesApart /\ VInv /\ Bucket => VInv'
<1>. SUFFICES ASSUME DirectoriesApart, VInv, Bucket PROVE VInv'
  OBVIOUS
<1>. DEFINE c == case
            ss == [n \in DOMAIN c |-> IF FirstOfName(n) THEN Sourced(c[n]) ELSE <<>>]
            R == RowsOf(c)
<1>1. /\ c \in Cases /\ pc = "load" /\ next \in 1 .. Len(c) + 1 /\ next > Len(c)
      /\ \A m \in 1 .. next - 1 : loaded[c[m].name] = c[m].rows
      /\ groups = <<>> /\ IsList(groups)
  BY DEF VInv, Loaded, Bucket
<1>2. /\ Len(c) \in Nat /\ DOMAIN c = 1 .. Len(c) /\ IsList(c)
      /\ \A n \in DOMAIN c : IsList(c[n].rows)
  BY <1>1, CaseIs
<1>3. \A n \in DOMAIN c : FirstOfName(n) /\ loaded[c[n].name] = c[n].rows
  BY <1>1, <1>2 DEF FirstOfName, DirectoriesApart
<1>4. \A n \in DOMAIN c : ss[n] = [i \in DOMAIN c[n].rows |-> SourcedRow(c, n, i)]
  BY <1>3 DEF Sourced, SourcedRow
<1>5. IsList(ss) /\ DOMAIN ss = DOMAIN c
  BY <1>2, ListMapped
<1>6. rows' = FlattenSeq(ss)
  BY DEF Bucket
<1>. HIDE DEF ss
<1>7. \A n \in DOMAIN c : IsList(ss[n]) /\ DOMAIN ss[n] = DOMAIN c[n].rows
  <2>. TAKE n \in DOMAIN c
  <2>. DEFINE f == ss[n]
  <2>1. f = [i \in DOMAIN c[n].rows |-> f[i]] /\ IsList(c[n].rows)
    BY <1>2, <1>4
  <2>. HIDE DEF f
  <2>2. IsList(f) /\ DOMAIN f = DOMAIN c[n].rows
    BY <2>1, ListMapped
  <2>. QED  BY <2>2 DEF f
<1>8. AllLists(ss)
  BY <1>5, <1>7 DEF AllLists
<1>9. IsList(rows')
  BY <1>5, <1>6, <1>8, FlattenList
<1>10. ToSet(rows') = R
  <2>1. ASSUME NEW x \in ToSet(FlattenSeq(ss))
        PROVE  x \in R
    <3>1. PICK n \in DOMAIN ss : x \in ToSet(ss[n])
      BY <1>5, <1>8, FlattenMembers
    <3>2. \E i \in DOMAIN c[n].rows : x = SourcedRow(c, n, i)
      BY <1>4, <1>5, <3>1 DEF ToSet
    <3>. QED  BY <1>1, <1>5, <3>2, RowsOfIs
  <2>2. ASSUME NEW x \in R
        PROVE  x \in ToSet(FlattenSeq(ss))
    <3>1. PICK n \in DOMAIN c : \E i \in DOMAIN c[n].rows : x = SourcedRow(c, n, i)
      BY <1>1, RowsOfIs
    <3>2. PICK i \in DOMAIN c[n].rows : x = SourcedRow(c, n, i)
      BY <3>1
    <3>3. i \in DOMAIN ss[n] /\ x = ss[n][i]
      BY <1>4, <1>7, <3>2
    <3>4. x \in ToSet(ss[n])
      BY <3>3 DEF ToSet
    <3>. QED  BY <1>5, <1>8, <3>4, FlattenHas
  <2>. QED  BY <1>6, <2>1, <2>2
<1>11. waiting' = KeysIn(R)
  BY <1>10 DEF Bucket, KeysIn
<1>12. buckets' = BucketsOf(R, rows')
  BY <1>11 DEF Bucket, BucketsOf
<1>13. pc' = "emit" /\ UNCHANGED <<case, groups>>
  BY DEF Bucket
<1>14. Emitted(R, groups', waiting')
  <2>1. DOMAIN groups' = {} /\ SharedIn(R) \subseteq KeysIn(R)
    BY <1>1, <1>13 DEF SharedIn
  <2>. QED  BY <1>11, <2>1 DEF Emitted
<1>. QED  BY <1>1, <1>9, <1>10, <1>11, <1>12, <1>13, <1>14 DEF VInv, Loaded, Bucketed

\* The places of a bucket and the rows that hold its key.
LEMMA BucketIs ==
  ASSUME VInv, pc # "load", NEW k \in KeysIn(RowsOf(case))
  PROVE  /\ buckets[k] \subseteq DOMAIN rows
         /\ \A i \in buckets[k] : rows[i] \in Holding(RowsOf(case), k)
         /\ \A m \in Holding(RowsOf(case), k) : \E i \in buckets[k] : m = rows[i]
<1>. DEFINE R == RowsOf(case)
<1>1. ToSet(rows) = R /\ buckets = BucketsOf(R, rows)
  BY DEF VInv, Bucketed
<1>2. buckets[k] = {i \in DOMAIN rows : k \in Keys(rows[i].row)}
  BY <1>1 DEF BucketsOf
<1>3. /\ \A i \in DOMAIN rows : rows[i] \in R
      /\ \A m \in R : \E i \in DOMAIN rows : m = rows[i]
  BY <1>1 DEF ToSet
<1>. HIDE DEF R
<1>4. \A m : m \in Holding(R, k) <=> m \in R /\ k \in Keys(m.row)
  BY DEF Holding
<1>. QED  BY <1>2, <1>3, <1>4 DEF R

\* What a merge shows of one property.
Shows(bucket, p, v) ==
  /\ \A i \in bucket : Said(rows[i].row, p) =>
       \/ v.value = rows[i].row.said[p] /\ rows[i].source \in v.from
       \/ [value |-> rows[i].row.said[p], from |-> rows[i].source] \in v.conflicts
  /\ v.from # {}
  /\ \A s \in v.from : \E i \in bucket :
       /\ Said(rows[i].row, p) /\ rows[i].source = s
       /\ rows[i].row.said[p] = v.value
  /\ \A c \in v.conflicts :
       /\ c.value # v.value
       /\ \E i \in bucket : /\ Said(rows[i].row, p) /\ rows[i].source = c.from
                            /\ rows[i].row.said[p] = c.value

LEMMA MergeShows ==
  ASSUME NEW bucket, bucket \subseteq Nat, NEW p,
         \E i \in bucket : Said(rows[i].row, p)
  PROVE  Shows(bucket, p, Merged(bucket, p))
<1>. SUFFICES ASSUME NEW v, v = Merged(bucket, p)
              PROVE  Shows(bucket, p, v)
  OBVIOUS
<1>. DEFINE says == {i \in bucket : Said(rows[i].row, p)}
            word(i) == rows[i].row.said[p]
            one == Least(says)
<1>1. /\ v.value = word(one)
      /\ v.from = {rows[i].source : i \in {i \in says : word(i) = word(one)}}
      /\ v.conflicts = {[value |-> word(i), from |-> rows[i].source] :
                          i \in {i \in says : word(i) # word(one)}}
  BY DEF Merged, MergeProperty, SourcesOf
<1>2. one \in says
  <2>1. says \in SUBSET Nat /\ says # {}
    OBVIOUS
  <2>. HIDE DEF says
  <2>2. \E x \in says : \A y \in says : x <= y
    BY <2>1, LeastNatural
  <2>. QED  BY <2>2 DEF Least
<1>3. \A i \in bucket : Said(rows[i].row, p) <=> i \in says
  OBVIOUS
<1>4. says \subseteq bucket
  OBVIOUS
<1>. HIDE DEF says, one, word
<1>5. v.from # {}
  <2>1. rows[one].source \in v.from
    BY <1>1, <1>2
  <2>. QED  BY <2>1
<1>6. \A i \in says : \/ v.value = word(i) /\ rows[i].source \in v.from
                      \/ [value |-> word(i), from |-> rows[i].source] \in v.conflicts
  BY <1>1
<1>7. \A s \in v.from : \E i \in says : rows[i].source = s /\ word(i) = v.value
  BY <1>1
<1>8. \A c \in v.conflicts :
        c.value # v.value /\ \E i \in says : rows[i].source = c.from /\ word(i) = c.value
  BY <1>1
<1>. QED  BY <1>3, <1>4, <1>5, <1>6, <1>7, <1>8 DEF word, Shows

\* A new group tells what its rows say.
LEMMA NewGroupTells ==
  ASSUME DirectoriesApart, VInv, pc # "load", NEW k \in KeysIn(RowsOf(case)),
         NEW g, g.members = Members(buckets[k]),
         g.view = [p \in Properties(buckets[k]) |-> Merged(buckets[k], p)]
  PROVE  /\ g.members = JoinedIn(RowsOf(case), k)
         /\ Told(RowsOf(case), g)
<1>. DEFINE R == RowsOf(case)
            b == buckets[k]
            ms == {m \in R : MemberOf(m) \in g.members}
            Gave(s, p, v) == \E m \in ms :
                               m.source = s /\ Said(m.row, p) /\ m.row.said[p] = v
<1>1. /\ b \subseteq DOMAIN rows
      /\ \A i \in b : rows[i] \in Holding(R, k)
      /\ \A m \in Holding(R, k) : \E i \in b : m = rows[i]
  BY BucketIs
<1>2. b \subseteq Nat
  <2>1. DOMAIN rows = 1 .. Len(rows) /\ Len(rows) \in Nat
    BY ListLen DEF VInv, Bucketed
  <2>. QED  BY <1>1, <2>1
<1>3. case \in Cases /\ Holding(R, k) \subseteq R
  BY DEF VInv, Holding
<1>4. g.members = {MemberOf(rows[i]) : i \in b}
  BY DEF Members
<1>5. DOMAIN g.view = Properties(b) /\ \A p \in Properties(b) : g.view[p] = Merged(b, p)
  OBVIOUS
<1>. HIDE DEF b
<1>6. g.members = JoinedIn(R, k)
  BY <1>1, <1>4 DEF JoinedIn
<1>7. ms = Holding(R, k)
  <2>1. ASSUME NEW m \in ms
        PROVE  m \in Holding(R, k)
    <3>1. PICK h \in Holding(R, k) : MemberOf(m) = MemberOf(h)
      BY <1>6 DEF JoinedIn
    <3>. QED  BY <1>3, <3>1, MembersDiffer
  <2>2. \A m \in Holding(R, k) : m \in ms
    BY <1>3, <1>6 DEF JoinedIn
  <2>. QED  BY <2>1, <2>2
<1>. HIDE DEF R
<1>8. \A p : p \in Properties(b) <=> \E i \in b : Said(rows[i].row, p)
  BY DEF Properties, Said
<1>. HIDE DEF ms
<1>9. ASSUME NEW m \in ms, NEW p \in DOMAIN m.row.said
      PROVE  \/ g.view[p].value = m.row.said[p] /\ m.source \in g.view[p].from
             \/ [value |-> m.row.said[p], from |-> m.source] \in g.view[p].conflicts
  <2>1. PICK i \in b : m = rows[i]
    BY <1>1, <1>7
  <2>2. Said(rows[i].row, p)
    BY <2>1 DEF Said
  <2>3. g.view[p] = Merged(b, p)
    BY <1>5, <1>8, <2>2
  <2>4. \E h \in b : Said(rows[h].row, p)
    BY <2>2
  <2>5. Shows(b, p, Merged(b, p))
    BY <1>2, <2>4, MergeShows
  <2>6. Shows(b, p, g.view[p])
    BY <2>3, <2>5
  <2>. QED  BY <2>1, <2>2, <2>6 DEF Shows
<1>10. ASSUME NEW p \in DOMAIN g.view
       PROVE  /\ g.view[p].from # {}
              /\ \A s \in g.view[p].from : Gave(s, p, g.view[p].value)
              /\ \A c \in g.view[p].conflicts :
                   c.value # g.view[p].value /\ Gave(c.from, p, c.value)
  <2>. DEFINE v == g.view[p]
  <2>1. v = Merged(b, p) /\ \E i \in b : Said(rows[i].row, p)
    BY <1>5, <1>8
  <2>. HIDE DEF v
  <2>2. /\ v.from # {}
        /\ \A s \in v.from : \E i \in b :
             Said(rows[i].row, p) /\ rows[i].source = s /\ rows[i].row.said[p] = v.value
        /\ \A c \in v.conflicts :
             /\ c.value # v.value
             /\ \E i \in b : /\ Said(rows[i].row, p) /\ rows[i].source = c.from
                             /\ rows[i].row.said[p] = c.value
    <3>1. Shows(b, p, v)
      BY <1>2, <2>1, MergeShows
    <3>. QED  BY <3>1 DEF Shows
  <2>3. \A i \in b : rows[i] \in ms
    BY <1>1, <1>7
  <2>4. /\ \A s \in v.from : Gave(s, p, v.value)
        /\ \A c \in v.conflicts : Gave(c.from, p, c.value)
    BY <2>2, <2>3
  <2>. QED  BY <2>2, <2>4 DEF v
<1>11. Told(R, g)
  BY <1>9, <1>10 DEF Told, ms
<1>. QED  BY <1>6, <1>11 DEF R

LEMMA VConverge == DirectoriesApart /\ VInv /\ Converge => VInv'
<1>. SUFFICES ASSUME DirectoriesApart, VInv, Converge PROVE VInv'
  OBVIOUS
<1>. DEFINE R == RowsOf(case)
<1>1. PICK k \in waiting :
        /\ \A l \in waiting : TierRank[k[1]] <= TierRank[l[1]]
        /\ waiting' = waiting \ {k}
        /\ groups' = IF Cardinality(SourcesOf(buckets[k])) >= 2 /\ FirstSeen(buckets[k])
                     THEN Append(groups,
                            [tier |-> k[1], key |-> k[2], members |-> Members(buckets[k]),
                             view |-> [p \in Properties(buckets[k]) |-> Merged(buckets[k], p)]])
                     ELSE groups
  BY DEF Converge
<1>2. pc = "emit" /\ UNCHANGED <<case, rows, buckets, pc>>
  BY DEF Converge
<1>3. /\ case \in Cases /\ IsList(rows) /\ ToSet(rows) = R
      /\ waiting \subseteq KeysIn(R) /\ buckets = BucketsOf(R, rows)
      /\ IsList(groups) /\ Emitted(R, groups, waiting)
  BY <1>2 DEF VInv, Bucketed
<1>4. k \in KeysIn(R) /\ k = <<k[1], k[2]>>
  BY <1>1, <1>3, KeyShape DEF KeysIn
<1>. DEFINE b == buckets[k]
            g == [tier |-> k[1], key |-> k[2], members |-> Members(b),
                  view |-> [p \in Properties(b) |-> Merged(b, p)]]
<1>5. g.members = JoinedIn(R, k) /\ Told(R, g)
  <2>1. /\ g.members = Members(b)
        /\ g.view = [p \in Properties(b) |-> Merged(b, p)]
    OBVIOUS
  <2>. HIDE DEF g
  <2>. QED  BY <1>2, <1>4, <2>1, NewGroupTells
<1>6. g.members = Members(b) /\ g.tier = k[1] /\ g.key = k[2]
  OBVIOUS
<1>7. SourcesOf(b) = {m.source : m \in Holding(R, k)}
  BY <1>2, <1>4, BucketIs DEF SourcesOf
<1>8. Cardinality(SourcesOf(b)) >= 2 <=> k \in SharedIn(R)
  BY <1>4, <1>7 DEF SharedIn, CrossSource
<1>9. groups' = IF Cardinality(SourcesOf(b)) >= 2 /\ FirstSeen(b) THEN Append(groups, g) ELSE groups
  BY <1>1
<1>. HIDE DEF g, b, R
<1>10. /\ \A l \in SharedIn(R) \ waiting : \E h \in ToSet(groups) : h.members = JoinedIn(R, l)
       /\ \A l \in KeysIn(R) \ waiting, m \in waiting : TierRank[l[1]] <= TierRank[m[1]]
       /\ \A i \in DOMAIN groups :
            /\ Strongest(R, groups[i]) /\ Told(R, groups[i])
            /\ \A j \in DOMAIN groups : groups[j].members = groups[i].members => i = j
  BY <1>3 DEF Emitted
<1>11. \A l \in KeysIn(R) \ waiting', m \in waiting' : TierRank[l[1]] <= TierRank[m[1]]
  BY <1>1, <1>10
<1>12. IsList(groups') /\ Emitted(R, groups', waiting')
  <2>1. CASE Cardinality(SourcesOf(b)) >= 2 /\ FirstSeen(b)
    <3>1. groups' = Append(groups, g)
      BY <1>9, <2>1
    <3>2. k \in SharedIn(R) /\ \A h \in ToSet(groups) : h.members # JoinedIn(R, k)
      BY <1>5, <1>6, <1>8, <2>1 DEF FirstSeen
    <3>3. Strongest(R, g)
      <4>1. ASSUME NEW l \in SharedIn(R), JoinedIn(R, l) = g.members
            PROVE  TierRank[g.tier] <= TierRank[l[1]]
        <5>1. l \in waiting
          BY <1>5, <1>10, <3>2, <4>1
        <5>. QED  BY <1>1, <1>6, <5>1
      <4>. QED  BY <1>4, <1>5, <1>6, <3>2, <4>1 DEF Strongest
    <3>4. /\ IsList(groups') /\ Len(groups') = Len(groups) + 1
          /\ \A i \in 1 .. Len(groups) : groups'[i] = groups[i]
          /\ groups'[Len(groups) + 1] = g
      BY <1>3, <3>1, ListAppend
    <3>5. /\ Len(groups) \in Nat /\ DOMAIN groups = 1 .. Len(groups)
          /\ DOMAIN groups' = 1 .. Len(groups) + 1
      BY <1>3, <3>4, ListLen
    <3>6. \A i \in DOMAIN groups : groups[i] \in ToSet(groups)
      BY DEF ToSet
    <3>7. ASSUME NEW i \in DOMAIN groups', NEW j \in DOMAIN groups',
                 groups'[j].members = groups'[i].members
          PROVE  i = j
      <4>1. CASE i \in DOMAIN groups /\ j \in DOMAIN groups
        BY <1>10, <3>4, <3>5, <3>7, <4>1
      <4>2. CASE i \in DOMAIN groups /\ j = Len(groups) + 1
        BY <1>5, <3>2, <3>4, <3>5, <3>6, <3>7, <4>2
      <4>3. CASE i = Len(groups) + 1 /\ j \in DOMAIN groups
        BY <1>5, <3>2, <3>4, <3>5, <3>6, <3>7, <4>3
      <4>. QED  BY <3>5, <4>1, <4>2, <4>3
    <3>8. ASSUME NEW i \in DOMAIN groups'
          PROVE  Strongest(R, groups'[i]) /\ Told(R, groups'[i])
      <4>1. CASE i \in DOMAIN groups
        BY <1>10, <3>4, <3>5, <4>1
      <4>2. CASE i = Len(groups) + 1
        BY <1>5, <3>3, <3>4, <4>2
      <4>. QED  BY <3>5, <4>1, <4>2
    <3>9. ToSet(groups') = ToSet(groups) \cup {g}
      BY <3>4, <3>5 DEF ToSet
    <3>10. \A l \in SharedIn(R) \ waiting' :
             \E h \in ToSet(groups') : h.members = JoinedIn(R, l)
      BY <1>1, <1>5, <1>10, <3>9
    <3>. QED  BY <1>11, <3>4, <3>7, <3>8, <3>10 DEF Emitted
  <2>2. CASE ~(Cardinality(SourcesOf(b)) >= 2 /\ FirstSeen(b))
    <3>1. groups' = groups
      BY <1>9, <2>2
    <3>2. k \in SharedIn(R) => \E h \in ToSet(groups) : h.members = JoinedIn(R, k)
      BY <1>5, <1>6, <1>8, <2>2 DEF FirstSeen
    <3>3. \A l \in SharedIn(R) \ waiting' :
            \E h \in ToSet(groups') : h.members = JoinedIn(R, l)
      BY <1>1, <1>10, <3>1, <3>2
    <3>. QED  BY <1>3, <1>10, <1>11, <3>1, <3>3 DEF Emitted
  <2>. QED  BY <2>1, <2>2
<1>13. waiting' \subseteq KeysIn(R)
  BY <1>1, <1>3
<1>. QED  BY <1>2, <1>3, <1>12, <1>13 DEF VInv, Loaded, Bucketed, R

LEMMA VNext == DirectoriesApart /\ VInv /\ [ViewsNext]_viewVars => VInv'
<1>. SUFFICES ASSUME DirectoriesApart, VInv, [ViewsNext]_viewVars PROVE VInv'
  OBVIOUS
<1>1. CASE StartTimeline
  BY <1>1 DEF StartTimeline, VInv, Loaded, Bucketed
<1>2. CASE ReadObjects
  BY <1>2 DEF ReadObjects, VInv, Loaded, Bucketed
<1>3. CASE ReadEdges
  BY <1>3 DEF ReadEdges, VInv, Loaded, Bucketed
<1>4. CASE Order
  BY <1>4 DEF Order, VInv, Loaded, Bucketed
<1>5. CASE UNCHANGED viewVars
  BY <1>5 DEF viewVars, VInv, Loaded, Bucketed
<1>. QED  BY <1>1, <1>2, <1>3, <1>4, <1>5, VLoad, VBucket, VConverge DEF ViewsNext

LEMMA VAlways == ASSUME DirectoriesApart PROVE ViewsSpec => []VInv
  BY VInit, VNext, PTL DEF ViewsSpec

LEMMA SharedIs ==
  /\ AllRows = RowsOf(case) /\ SharedKeys = SharedIn(RowsOf(case))
  /\ \A k : Joined(k) = JoinedIn(RowsOf(case), k)
<1>1. AllRows = RowsOf(case)
  BY DEF AllRows, RowsOf
<1>2. \A k : Sharing(k) = Holding(RowsOf(case), k)
  BY <1>1 DEF Sharing, Holding
<1>. QED  BY <1>1, <1>2 DEF SharedKeys, SharedIn, KeysIn, Joined, JoinedIn

\* Over every case whose directories have names of their own, rows of two
\* sources that share a key converge, once for each set of rows and at the
\* strongest tier that joins it, and nothing else does (crosssource.py:224-278).
THEOREM ConvergesOnce ==
  ASSUME DirectoriesApart
  PROVE  ViewsSpec => []ConvergedOnceAtTheStrongest
<1>1. VInv => ConvergedOnceAtTheStrongest
  <2>. SUFFICES ASSUME VInv, pc = "done" PROVE ConvergedOnceAtTheStrongest
    BY DEF ConvergedOnceAtTheStrongest
  <2>1. waiting = {} /\ Emitted(RowsOf(case), groups, waiting)
    BY DEF VInv, Bucketed
  <2>. QED  BY <2>1, SharedIs DEF ConvergedOnceAtTheStrongest, Emitted, Strongest
<1>. QED  BY <1>1, VAlways, PTL

\* And a group shows every value its rows gave, with its source, and lays no
\* value to a source that did not give it (crosssource.py:200-221).
THEOREM KeepsEveryWord ==
  ASSUME DirectoriesApart
  PROVE  ViewsSpec => []EveryWordIsKept
<1>1. VInv => EveryWordIsKept
  <2>. SUFFICES ASSUME VInv, NEW g \in ToSet(groups) PROVE Told(AllRows, g)
    BY DEF EveryWordIsKept, Told
  <2>1. PICK i \in DOMAIN groups : g = groups[i]
    BY DEF ToSet
  <2>2. pc # "load"
    <3>1. DOMAIN <<>> = {}
      OBVIOUS
    <3>. QED  BY <2>1, <3>1 DEF VInv, Loaded
  <2>3. Told(RowsOf(case), g)
    BY <2>1, <2>2 DEF VInv, Emitted
  <2>. QED  BY <2>3, SharedIs
<1>. QED  BY <1>1, VAlways, PTL

-----------------------------------------------------------------------------
(* Functions of properties.                                                *)

LEMMA Over ==
  ASSUME NEW f, NEW g
  PROVE  /\ DOMAIN (f ++ g) = DOMAIN f \cup DOMAIN g
         /\ \A p \in DOMAIN f : (f ++ g)[p] = f[p]
         /\ \A p \in DOMAIN g \ DOMAIN f : (f ++ g)[p] = g[p]
  BY DEF ++

LEMMA OfOne ==
  ASSUME NEW p, NEW v
  PROVE  DOMAIN Prop(p, v) = {p} /\ Prop(p, v)[p] = v
  BY DEF Prop

LEMMA WhatIsGiven ==
  ASSUME NEW props
  PROVE  /\ DOMAIN Given(props) = {p \in DOMAIN props : IF p \in ListProps THEN props[p] # {} ELSE props[p] # Blank}
         /\ \A p \in DOMAIN Given(props) : Given(props)[p] = props[p]
  BY DEF Given

LEMMA GivenAt ==
  ASSUME NEW props, NEW p \in DOMAIN Given(props)
  PROVE  Given(props)[p] = props[p] /\ p \in DOMAIN props /\ (p \notin ListProps => props[p] # Blank)
<1>. DEFINE new == Given(props)
<1>1. /\ \A q : q \in DOMAIN new <=> q \in DOMAIN props /\ (IF q \in ListProps THEN props[q] # {} ELSE props[q] # Blank)
      /\ \A q \in DOMAIN new : new[q] = props[q]
  BY WhatIsGiven
<1>2. p \in DOMAIN new
  OBVIOUS
<1>. HIDE DEF new
<1>3. new[p] = props[p] /\ p \in DOMAIN props /\ (p \notin ListProps => props[p] # Blank)
  BY <1>1, <1>2
<1>. QED  BY <1>3 DEF new

-----------------------------------------------------------------------------
(* What an object holds.                                                   *)

\* What is offered under a property; what an object has under one, as its value
\* or as one of the values it conflicts with.
Gives(props, p, v) ==
  /\ p \in DOMAIN props
  /\ IF p \in ListProps THEN v \in props[p] ELSE v = props[p] /\ v # Blank
Has(o, p, v) ==
  IF p \in ListProps THEN p \in DOMAIN o.val /\ v \in o.val[p]
  ELSE (p \in DOMAIN o.val /\ v = o.val[p]) \/ << p, v >> \in o.alt
Holds(os, id, p, v) == id \in DOMAIN os /\ Has(os[id], p, v)
Carries(os, id, p) == id \in DOMAIN os /\ p \in DOMAIN os[id].val

\* The objects that are referred to from what is offered.
RefsGiven(props) ==
  ({props[p] : p \in RefProps \cap DOMAIN props} \ {Blank})
  \cup (UNION {props[p] : p \in RefLists \cap DOMAIN props})
RefsWithin(os, D) == \A id \in DOMAIN os : RefsOf(os[id]) \subseteq D

LEMMA RefsAreNoLists == RefProps \cap ListProps = {} /\ RefLists \subseteq ListProps
  BY DEF RefProps, RefLists, ListProps

\* What is filled in is all there afterwards, beside all there was.
LEMMA FillFacts ==
  ASSUME NEW o, NEW props, NEW p, NEW v
  PROVE  /\ Has(Fill(o, Given(props)), p, v) <=> Has(o, p, v) \/ Gives(props, p, v)
         /\ DOMAIN Fill(o, Given(props)).val = DOMAIN o.val \cup DOMAIN Given(props)
         /\ p \in DOMAIN o.val \ ListProps => Fill(o, Given(props)).val[p] = o.val[p]
<1>. DEFINE new == Given(props)
            f   == Fill(o, new)
<1>1. /\ DOMAIN f.val = DOMAIN o.val \cup DOMAIN new
      /\ \A q \in DOMAIN o.val \cup DOMAIN new : f.val[q] =
           IF q \notin DOMAIN o.val THEN new[q]
           ELSE IF q \in ListProps /\ q \in DOMAIN new THEN o.val[q] \cup new[q] ELSE o.val[q]
      /\ f.alt = o.alt \cup { << q, new[q] >> :
                   q \in { x \in (DOMAIN o.val \cap DOMAIN new) \ ListProps : o.val[x] # new[x] } }
  BY DEF Fill
<1>2. /\ \A q : q \in DOMAIN new <=> q \in DOMAIN props /\ (IF q \in ListProps THEN props[q] # {} ELSE props[q] # Blank)
      /\ \A q \in DOMAIN new : new[q] = props[q]
  BY WhatIsGiven
<1>. HIDE DEF f, new
<1>3. Has(f, p, v) <=> Has(o, p, v) \/ Gives(props, p, v)
  <2>1. CASE p \in ListProps
    BY <1>1, <1>2, <2>1 DEF Has, Gives
  <2>2. CASE p \notin ListProps
    <3>1. << p, v >> \in f.alt <=>
            << p, v >> \in o.alt \/ (p \in DOMAIN o.val /\ p \in DOMAIN new /\ o.val[p] # new[p] /\ v = new[p])
      BY <1>1, <2>2
    <3>2. CASE p \in DOMAIN o.val
      BY <1>1, <1>2, <2>2, <3>1, <3>2 DEF Has, Gives
    <3>3. CASE p \notin DOMAIN o.val
      BY <1>1, <1>2, <2>2, <3>1, <3>3 DEF Has, Gives
    <3>. QED  BY <3>2, <3>3
  <2>. QED  BY <2>1, <2>2
<1>. QED  BY <1>1, <1>3 DEF f, new

\* A new object holds what it is made of.
LEMMA MadeFacts ==
  ASSUME NEW props, NEW p, NEW v
  PROVE  LET o == [val |-> Given(props), alt |-> {}]
         IN  (Has(o, p, v) <=> Gives(props, p, v)) /\ RefsOf(o) \subseteq RefsGiven(props)
<1>. DEFINE o == [val |-> Given(props), alt |-> {}]
            new == Given(props)
<1>1. o.val = new /\ o.alt = {}
  OBVIOUS
<1>a. /\ \A q : q \in DOMAIN new <=> q \in DOMAIN props /\ (IF q \in ListProps THEN props[q] # {} ELSE props[q] # Blank)
      /\ \A q \in DOMAIN new : new[q] = props[q]
  BY WhatIsGiven
<1>. HIDE DEF o, new
<1>2. Has(o, p, v) <=> Gives(props, p, v)
  <2>1. CASE p \in ListProps
    BY <1>1, <1>a, <2>1 DEF Has, Gives
  <2>2. CASE p \notin ListProps
    BY <1>1, <1>a, <2>2 DEF Has, Gives
  <2>. QED  BY <2>1, <2>2
<1>3. RefsOf(o) \subseteq RefsGiven(props)
  <2>1. RefsOf(o) = {new[q] : q \in RefProps \cap DOMAIN new}
                      \cup (UNION {new[q] : q \in RefLists \cap DOMAIN new})
    BY <1>1 DEF RefsOf
  <2>2. ASSUME NEW q \in RefProps \cap DOMAIN new
        PROVE  new[q] \in RefsGiven(props)
    BY <1>a, RefsAreNoLists DEF RefsGiven
  <2>3. ASSUME NEW q \in RefLists \cap DOMAIN new
        PROVE  new[q] \subseteq RefsGiven(props)
    BY <1>a DEF RefsGiven
  <2>. QED  BY <2>1, <2>2, <2>3
<1>. QED  BY <1>2, <1>3 DEF o, new

LEMMA FillRefs ==
  ASSUME NEW o, NEW props, NEW D, RefsOf(o) \subseteq D, RefsGiven(props) \subseteq D
  PROVE  RefsOf(Fill(o, Given(props))) \subseteq D
<1>. DEFINE new == Given(props)
            f   == Fill(o, new)
<1>1. /\ DOMAIN f.val = DOMAIN o.val \cup DOMAIN new
      /\ \A q \in DOMAIN o.val \cup DOMAIN new : f.val[q] =
           IF q \notin DOMAIN o.val THEN new[q]
           ELSE IF q \in ListProps /\ q \in DOMAIN new THEN o.val[q] \cup new[q] ELSE o.val[q]
      /\ f.alt = o.alt \cup { << q, new[q] >> :
                   q \in { x \in (DOMAIN o.val \cap DOMAIN new) \ ListProps : o.val[x] # new[x] } }
  BY DEF Fill
<1>2. /\ \A q : q \in DOMAIN new <=> q \in DOMAIN props /\ (IF q \in ListProps THEN props[q] # {} ELSE props[q] # Blank)
      /\ \A q \in DOMAIN new : new[q] = props[q]
  BY WhatIsGiven
<1>. HIDE DEF f, new
<1>3. /\ \A q \in RefProps \cap DOMAIN o.val : o.val[q] \in D
      /\ \A q \in RefLists \cap DOMAIN o.val : o.val[q] \subseteq D
      /\ \A c \in o.alt : c[1] \in RefProps => c[2] \in D
  BY DEF RefsOf
<1>4. /\ \A q \in RefProps \cap DOMAIN new : new[q] \in D
      /\ \A q \in RefLists \cap DOMAIN new : new[q] \subseteq D
  BY <1>2, RefsAreNoLists DEF RefsGiven
<1>5. \A q \in RefProps \cap DOMAIN f.val : f.val[q] \in D
  BY <1>1, <1>3, <1>4, RefsAreNoLists
<1>6. \A q \in RefLists \cap DOMAIN f.val : f.val[q] \subseteq D
  BY <1>1, <1>3, <1>4, RefsAreNoLists
<1>7. ASSUME NEW c \in f.alt, c[1] \in RefProps
      PROVE  c[2] \in D
  <2>1. CASE c \in o.alt
    BY <1>3, <1>7, <2>1
  <2>2. CASE c \notin o.alt
    <3>1. PICK q \in DOMAIN new : c = << q, new[q] >>
      BY <1>1, <2>2
    <3>. QED  BY <1>4, <1>7, <3>1
  <2>. QED  BY <2>1, <2>2
<1>8. RefsOf(f) \subseteq D
  BY <1>5, <1>6, <1>7 DEF RefsOf
<1>. QED  BY <1>8 DEF f, new

-----------------------------------------------------------------------------
(* The registry of objects.                                                *)

LEMMA PutFacts ==
  ASSUME NEW os, NEW put
  PROVE  /\ DOMAIN Put(os, put) = DOMAIN os \cup {put[1]}
         /\ \A id, p, v : Holds(Put(os, put), id, p, v) <=>
              Holds(os, id, p, v) \/ (put[1] = id /\ Gives(put[2], p, v))
         /\ \A id, p : Carries(Put(os, put), id, p) <=>
              Carries(os, id, p) \/ (put[1] = id /\ p \in DOMAIN Given(put[2]))
         /\ \A id, p : Carries(os, id, p) /\ p \notin ListProps =>
              Put(os, put)[id].val[p] = os[id].val[p]
         /\ \A D : RefsWithin(os, D) /\ RefsGiven(put[2]) \subseteq D => RefsWithin(Put(os, put), D)
<1>. DEFINE k == put[1]
            new == Given(put[2])
            q == Put(os, put)
            fresh == [val |-> new, alt |-> {}]
<1>1. CASE k \in DOMAIN os
  <2>1. /\ DOMAIN q = DOMAIN os /\ q[k] = Fill(os[k], new)
        /\ \A id \in DOMAIN os \ {k} : q[id] = os[id]
    BY <1>1 DEF Put
  <2>. HIDE DEF q
  <2>2. ASSUME NEW id, NEW p, NEW v
        PROVE  /\ Holds(q, id, p, v) <=> Holds(os, id, p, v) \/ (k = id /\ Gives(put[2], p, v))
               /\ Carries(q, id, p) <=> Carries(os, id, p) \/ (k = id /\ p \in DOMAIN new)
               /\ Carries(os, id, p) /\ p \notin ListProps => q[id].val[p] = os[id].val[p]
    <3>1. CASE id = k
      <4>1. /\ Has(q[k], p, v) <=> Has(os[k], p, v) \/ Gives(put[2], p, v)
            /\ DOMAIN q[k].val = DOMAIN os[k].val \cup DOMAIN new
            /\ p \in DOMAIN os[k].val \ ListProps => q[k].val[p] = os[k].val[p]
        BY <2>1, FillFacts
      <4>. QED  BY <1>1, <2>1, <3>1, <4>1 DEF Holds, Carries
    <3>2. CASE id # k
      BY <1>1, <2>1, <3>2 DEF Holds, Carries
    <3>. QED  BY <3>1, <3>2
  <2>3. ASSUME NEW D, RefsWithin(os, D), RefsGiven(put[2]) \subseteq D
        PROVE  RefsWithin(q, D)
    <3>1. RefsOf(Fill(os[k], new)) \subseteq D
      BY <1>1, <2>3, FillRefs DEF RefsWithin
    <3>. QED  BY <2>1, <2>3, <3>1 DEF RefsWithin
  <2>. QED  BY <1>1, <2>1, <2>2, <2>3 DEF q
<1>2. CASE k \notin DOMAIN os
  <2>1. q = Prop(k, fresh) ++ os
    BY <1>2 DEF Put
  <2>2. /\ DOMAIN q = DOMAIN os \cup {k} /\ q[k] = fresh
        /\ \A id \in DOMAIN os : q[id] = os[id]
    <3>. DEFINE g == Prop(k, fresh)
    <3>0. q = g ++ os
      BY <2>1
    <3>. HIDE DEF q, fresh
    <3>2. DOMAIN g = {k} /\ g[k] = fresh
      BY OfOne, Zenon
    <3>. HIDE DEF g
    <3>1. /\ DOMAIN q = DOMAIN g \cup DOMAIN os
          /\ \A p \in DOMAIN g : q[p] = g[p]
          /\ \A p \in DOMAIN os \ DOMAIN g : q[p] = os[p]
      BY <3>0 DEF ++
    <3>. QED  BY <1>2, <3>1, <3>2
  <2>. HIDE DEF q
  <2>3. ASSUME NEW id, NEW p, NEW v
        PROVE  /\ Holds(q, id, p, v) <=> Holds(os, id, p, v) \/ (k = id /\ Gives(put[2], p, v))
               /\ Carries(q, id, p) <=> Carries(os, id, p) \/ (k = id /\ p \in DOMAIN new)
               /\ Carries(os, id, p) /\ p \notin ListProps => q[id].val[p] = os[id].val[p]
    <3>1. CASE id = k
      <4>1. (Has(fresh, p, v) <=> Gives(put[2], p, v)) /\ fresh.val = new
        BY MadeFacts
      <4>. QED  BY <1>2, <2>2, <3>1, <4>1 DEF Holds, Carries
    <3>2. CASE id # k
      BY <1>2, <2>2, <3>2 DEF Holds, Carries
    <3>. QED  BY <3>1, <3>2
  <2>4. ASSUME NEW D, RefsWithin(os, D), RefsGiven(put[2]) \subseteq D
        PROVE  RefsWithin(q, D)
    <3>1. RefsOf(fresh) \subseteq D
      BY <2>4, MadeFacts
    <3>. QED  BY <2>2, <2>4, <3>1 DEF RefsWithin
  <2>. QED  BY <2>2, <2>3, <2>4 DEF q
<1>. QED  BY <1>1, <1>2

\* The puts of a list, one after the other.
Putting(os, puts, f, n) == f = [i \in 0 .. n |-> IF i = 0 THEN os ELSE Put(f[i - 1], puts[i])]

LEMMA PuttingExists ==
  ASSUME NEW os, NEW puts, NEW n \in Nat
  PROVE  \E f : Putting(os, puts, f, n)
<1>. DEFINE T == {m \in Nat : \E f : Putting(os, puts, f, m)}
<1>1. 0 \in T
  <2>1. Putting(os, puts, [i \in 0 .. 0 |-> os], 0)
    BY DEF Putting
  <2>. QED  BY <2>1
<1>2. ASSUME NEW m \in T
      PROVE  m + 1 \in T
  <2>1. m \in Nat
    OBVIOUS
  <2>2. PICK f : Putting(os, puts, f, m)
    OBVIOUS
  <2>. DEFINE g == [i \in 0 .. m + 1 |-> IF i \in 0 .. m THEN f[i] ELSE Put(f[m], puts[i])]
  <2>3. ASSUME NEW i \in 0 .. m + 1
        PROVE  g[i] = IF i = 0 THEN os ELSE Put(g[i - 1], puts[i])
    <3>1. CASE i = 0
      BY <2>1, <2>2, <3>1 DEF Putting
    <3>2. CASE i # 0 /\ i \in 0 .. m
      <4>1. i - 1 \in 0 .. m /\ i - 1 \in 0 .. m + 1
        BY <2>1, <3>2
      <4>2. f[i] = Put(f[i - 1], puts[i])
        BY <2>2, <3>2 DEF Putting
      <4>. QED  BY <3>2, <4>1, <4>2
    <3>3. CASE i \notin 0 .. m
      <4>1. i = m + 1 /\ i - 1 = m /\ m \in 0 .. m /\ m \in 0 .. m + 1 /\ i # 0
        BY <2>1, <3>3
      <4>. QED  BY <3>3, <4>1
    <3>. QED  BY <3>1, <3>2, <3>3
  <2>4. g = [i \in 0 .. m + 1 |-> g[i]]
    OBVIOUS
  <2>. HIDE DEF g
  <2>5. Putting(os, puts, g, m + 1)
    BY <2>3, <2>4 DEF Putting
  <2>. QED  BY <2>1, <2>5
<1>. HIDE DEF T
<1>3. T = Nat
  <2>1. T \in SUBSET Nat
    BY DEF T
  <2>. QED  BY <1>1, <1>2, <2>1, NaturalsByInduction
<1>. QED  BY <1>3 DEF T

LEMMA PutAllPuts ==
  ASSUME NEW os, NEW puts, IsList(puts)
  PROVE  \E f : Putting(os, puts, f, Len(puts)) /\ PutAll(os, puts) = f[Len(puts)]
<1>. DEFINE F == CHOOSE f : f = [i \in 0 .. Len(puts) |-> IF i = 0 THEN os ELSE Put(f[i - 1], puts[i])]
<1>1. \E f : f = [i \in 0 .. Len(puts) |-> IF i = 0 THEN os ELSE Put(f[i - 1], puts[i])]
  <2>1. Len(puts) \in Nat
    BY ListLen
  <2>2. \E f : Putting(os, puts, f, Len(puts))
    BY <2>1, PuttingExists
  <2>. QED  BY <2>2 DEF Putting
<1>2. F = [i \in 0 .. Len(puts) |-> IF i = 0 THEN os ELSE Put(F[i - 1], puts[i])]
  BY <1>1
<1>3. PutAll(os, puts) = F[Len(puts)]
  BY DEF PutAll
<1>. QED  BY <1>2, <1>3 DEF Putting

\* What was put so far.
PutUpTo(puts, n, id) == \E i \in 1 .. n : puts[i][1] = id
GivenUpTo(puts, n, id, p, v) == \E i \in 1 .. n : puts[i][1] = id /\ Gives(puts[i][2], p, v)
NamedUpTo(puts, n, id, p) == \E i \in 1 .. n : puts[i][1] = id /\ p \in DOMAIN Given(puts[i][2])
After(os, puts, n, r) ==
  /\ \A id : id \in DOMAIN r <=> id \in DOMAIN os \/ PutUpTo(puts, n, id)
  /\ \A id, p, v : Holds(r, id, p, v) <=> Holds(os, id, p, v) \/ GivenUpTo(puts, n, id, p, v)
  /\ \A id, p : Carries(r, id, p) <=> Carries(os, id, p) \/ NamedUpTo(puts, n, id, p)
  /\ \A id, p : Carries(os, id, p) /\ p \notin ListProps => r[id].val[p] = os[id].val[p]
  /\ \A D : RefsWithin(os, D) /\ (\A i \in 1 .. n : RefsGiven(puts[i][2]) \subseteq D) => RefsWithin(r, D)

LEMMA PutsUpTo ==
  ASSUME NEW os, NEW puts, IsList(puts)
  PROVE  After(os, puts, Len(puts), PutAll(os, puts))
<1>1. PICK f : Putting(os, puts, f, Len(puts)) /\ PutAll(os, puts) = f[Len(puts)]
  BY PutAllPuts
<1>2. Len(puts) \in Nat
  BY ListLen
<1>. DEFINE T == {m \in Nat : m <= Len(puts) => After(os, puts, m, f[m])}
<1>3. 0 \in T
  <2>1. f[0] = os
    BY <1>1, <1>2 DEF Putting
  <2>2. After(os, puts, 0, os)
    BY DEF After, PutUpTo, GivenUpTo, NamedUpTo
  <2>. QED  BY <2>1, <2>2
<1>4. ASSUME NEW m \in T
      PROVE  m + 1 \in T
  <2>. SUFFICES ASSUME m + 1 <= Len(puts)
                PROVE  After(os, puts, m + 1, f[m + 1])
    OBVIOUS
  <2>1. m \in Nat /\ After(os, puts, m, f[m])
    BY <1>2
  <2>2. f[m + 1] = Put(f[m], puts[m + 1])
    <3>1. m + 1 \in 0 .. Len(puts) /\ m + 1 # 0 /\ (m + 1) - 1 = m
      BY <1>2, <2>1
    <3>. QED  BY <1>1, <3>1 DEF Putting
  <2>. DEFINE r == f[m]
              x == puts[m + 1]
  <2>3. \A i : i \in 1 .. m + 1 <=> i \in 1 .. m \/ i = m + 1
    BY <2>1
  <2>. HIDE DEF r, x
  <2>4. /\ \A id : PutUpTo(puts, m + 1, id) <=> PutUpTo(puts, m, id) \/ x[1] = id
        /\ \A id, p, v : GivenUpTo(puts, m + 1, id, p, v) <=>
             GivenUpTo(puts, m, id, p, v) \/ (x[1] = id /\ Gives(x[2], p, v))
        /\ \A id, p : NamedUpTo(puts, m + 1, id, p) <=>
             NamedUpTo(puts, m, id, p) \/ (x[1] = id /\ p \in DOMAIN Given(x[2]))
    BY <2>3 DEF PutUpTo, GivenUpTo, NamedUpTo, x
  <2>5. /\ \A id : id \in DOMAIN r <=> id \in DOMAIN os \/ PutUpTo(puts, m, id)
        /\ \A id, p, v : Holds(r, id, p, v) <=> Holds(os, id, p, v) \/ GivenUpTo(puts, m, id, p, v)
        /\ \A id, p : Carries(r, id, p) <=> Carries(os, id, p) \/ NamedUpTo(puts, m, id, p)
        /\ \A id, p : Carries(os, id, p) /\ p \notin ListProps => r[id].val[p] = os[id].val[p]
        /\ \A D : RefsWithin(os, D) /\ (\A i \in 1 .. m : RefsGiven(puts[i][2]) \subseteq D) => RefsWithin(r, D)
    BY <2>1 DEF After, r
  <2>. DEFINE q == Put(r, x)
  <2>6. /\ DOMAIN q = DOMAIN r \cup {x[1]}
        /\ \A id, p, v : Holds(q, id, p, v) <=> Holds(r, id, p, v) \/ (x[1] = id /\ Gives(x[2], p, v))
        /\ \A id, p : Carries(q, id, p) <=> Carries(r, id, p) \/ (x[1] = id /\ p \in DOMAIN Given(x[2]))
        /\ \A id, p : Carries(r, id, p) /\ p \notin ListProps => q[id].val[p] = r[id].val[p]
        /\ \A D : RefsWithin(r, D) /\ RefsGiven(x[2]) \subseteq D => RefsWithin(q, D)
    BY PutFacts
  <2>. HIDE DEF q
  <2>7. \A id : id \in DOMAIN q <=> id \in DOMAIN os \/ PutUpTo(puts, m + 1, id)
    BY <2>4, <2>5, <2>6
  <2>8. \A id, p, v : Holds(q, id, p, v) <=> Holds(os, id, p, v) \/ GivenUpTo(puts, m + 1, id, p, v)
    BY <2>4, <2>5, <2>6
  <2>9. \A id, p : Carries(q, id, p) <=> Carries(os, id, p) \/ NamedUpTo(puts, m + 1, id, p)
    BY <2>4, <2>5, <2>6
  <2>10. \A id, p : Carries(os, id, p) /\ p \notin ListProps => q[id].val[p] = os[id].val[p]
    BY <2>5, <2>6
  <2>11. ASSUME NEW D, RefsWithin(os, D), \A i \in 1 .. m + 1 : RefsGiven(puts[i][2]) \subseteq D
         PROVE  RefsWithin(q, D)
    <3>1. \A i \in 1 .. m : RefsGiven(puts[i][2]) \subseteq D
      BY <2>3, <2>11
    <3>2. m + 1 \in 1 .. m + 1
      BY <2>1
    <3>3. RefsGiven(x[2]) \subseteq D
      BY <2>11, <3>2 DEF x
    <3>. QED  BY <2>5, <2>6, <2>11, <3>1, <3>3
  <2>12. After(os, puts, m + 1, q)
    BY <2>7, <2>8, <2>9, <2>10, <2>11 DEF After
  <2>. QED  BY <2>2, <2>12 DEF q, r, x
<1>. HIDE DEF T
<1>5. T = Nat
  <2>1. T \in SUBSET Nat
    BY DEF T
  <2>. QED  BY <1>3, <1>4, <2>1, NaturalsByInduction
<1>6. Len(puts) \in T
  BY <1>2, <1>5
<1>. QED  BY <1>1, <1>2, <1>6 DEF T

\* What a list of puts leaves, whatever their order: all that was there and all
\* that is offered, first values first, and no reference that nobody gave.
PutsId(puts) == {x[1] : x \in ToSet(puts)}
LEMMA PutAllFacts ==
  ASSUME NEW os, NEW puts, IsList(puts)
  PROVE  /\ DOMAIN PutAll(os, puts) = DOMAIN os \cup PutsId(puts)
         /\ \A id, p, v : Holds(PutAll(os, puts), id, p, v) <=>
              Holds(os, id, p, v) \/ \E x \in ToSet(puts) : x[1] = id /\ Gives(x[2], p, v)
         /\ \A id, p : Carries(PutAll(os, puts), id, p) <=>
              Carries(os, id, p) \/ \E x \in ToSet(puts) : x[1] = id /\ p \in DOMAIN Given(x[2])
         /\ \A id, p : Carries(os, id, p) /\ p \notin ListProps =>
              PutAll(os, puts)[id].val[p] = os[id].val[p]
         /\ \A D : RefsWithin(os, D) /\ (\A x \in ToSet(puts) : RefsGiven(x[2]) \subseteq D) =>
              RefsWithin(PutAll(os, puts), D)
<1>1. After(os, puts, Len(puts), PutAll(os, puts))
  BY PutsUpTo
<1>2. DOMAIN puts = 1 .. Len(puts)
  BY ListLen
<1>3. /\ \A id : PutUpTo(puts, Len(puts), id) <=> id \in PutsId(puts)
      /\ \A id, p, v : GivenUpTo(puts, Len(puts), id, p, v) <=>
           \E x \in ToSet(puts) : x[1] = id /\ Gives(x[2], p, v)
      /\ \A id, p : NamedUpTo(puts, Len(puts), id, p) <=>
           \E x \in ToSet(puts) : x[1] = id /\ p \in DOMAIN Given(x[2])
      /\ \A i \in 1 .. Len(puts) : puts[i] \in ToSet(puts)
  BY <1>2 DEF PutUpTo, GivenUpTo, NamedUpTo, PutsId, ToSet
<1>. DEFINE r == PutAll(os, puts)
<1>. HIDE DEF r
<1>4. After(os, puts, Len(puts), r)
  BY <1>1 DEF r
<1>5. DOMAIN r = DOMAIN os \cup PutsId(puts)
  BY <1>3, <1>4 DEF After
<1>6. \A id, p, v : Holds(r, id, p, v) <=>
         Holds(os, id, p, v) \/ \E x \in ToSet(puts) : x[1] = id /\ Gives(x[2], p, v)
  BY <1>3, <1>4 DEF After
<1>7. \A id, p : Carries(r, id, p) <=>
         Carries(os, id, p) \/ \E x \in ToSet(puts) : x[1] = id /\ p \in DOMAIN Given(x[2])
  BY <1>3, <1>4 DEF After
<1>8. \A id, p : Carries(os, id, p) /\ p \notin ListProps => r[id].val[p] = os[id].val[p]
  BY <1>4 DEF After
<1>9. \A D : RefsWithin(os, D) /\ (\A x \in ToSet(puts) : RefsGiven(x[2]) \subseteq D) => RefsWithin(r, D)
  BY <1>3, <1>4 DEF After
<1>. QED  BY <1>5, <1>6, <1>7, <1>8, <1>9 DEF r


-----------------------------------------------------------------------------
(* What the pieces refer to.                                               *)

LEMMA RefsOfNone ==
  ASSUME NEW f, DOMAIN f \cap (RefProps \cup RefLists) = {}
  PROVE  RefsGiven(f) = {}
  BY DEF RefsGiven

LEMMA RefsOfProp ==
  ASSUME NEW p, NEW v
  PROVE  /\ p \notin RefProps \cup RefLists => RefsGiven(Prop(p, v)) = {}
         /\ p \in RefProps => RefsGiven(Prop(p, v)) \subseteq Some(v)
         /\ p \in RefLists => RefsGiven(Prop(p, v)) \subseteq v
<1>. DEFINE f == Prop(p, v)
<1>1. DOMAIN f = {p} /\ f[p] = v
  BY OfOne, Zenon
<1>2. RefProps \cap RefLists = {}
  BY RefsAreNoLists
<1>. HIDE DEF f
<1>3. CASE p \notin RefProps \cup RefLists
  BY <1>1, <1>3 DEF RefsGiven, f
<1>4. CASE p \in RefProps
  BY <1>1, <1>2, <1>4 DEF RefsGiven, Some, f
<1>5. CASE p \in RefLists
  BY <1>1, <1>2, <1>5 DEF RefsGiven, f
<1>. QED  BY <1>2, <1>3, <1>4, <1>5 DEF f

LEMMA RefsOfBoth ==
  ASSUME NEW f, NEW g, NEW D, RefsGiven(f) \subseteq D, RefsGiven(g) \subseteq D
  PROVE  RefsGiven(f ++ g) \subseteq D
<1>. DEFINE h == f ++ g
<1>1. /\ DOMAIN h = DOMAIN f \cup DOMAIN g
      /\ \A p \in DOMAIN h : h[p] = IF p \in DOMAIN f THEN f[p] ELSE g[p]
  BY DEF ++
<1>. HIDE DEF h
<1>2. ASSUME NEW p \in RefProps \cap DOMAIN h, h[p] # Blank
      PROVE  h[p] \in D
  BY <1>1, <1>2 DEF RefsGiven
<1>3. ASSUME NEW p \in RefLists \cap DOMAIN h
      PROVE  h[p] \subseteq D
  BY <1>1 DEF RefsGiven
<1>4. RefsGiven(h) \subseteq D
  BY <1>2, <1>3 DEF RefsGiven
<1>. QED  BY <1>4 DEF h

LEMMA ColumnsAreProps ==
  ASSUME NEW r, NEW table
  PROVE  DOMAIN Props(r, table) \subseteq {t[1] : t \in table}
  BY DEF Props, Live

LEMMA RefsOfColumns ==
  ASSUME NEW r, NEW table, \A t \in table : t[1] \notin RefProps \cup RefLists
  PROVE  RefsGiven(Props(r, table)) = {}
  BY ColumnsAreProps, RefsOfNone

-----------------------------------------------------------------------------
(* Pieces.                                                                 *)

\* A piece refers to what it puts, and to what is known; it names and shows
\* only what it puts, and the processes it puts are among the given ones.
IdIsSound(id, procs) ==
  id[1] # "relationship" /\ (id[1] = "process" /\ Len(id) = 3 => id \in procs)
Sound(p, known, procs) ==
  /\ IsList(p.puts)
  /\ p.id \in PutsId(p.puts) \cup {Blank}
  /\ p.refs \subseteq PutsId(p.puts)
  /\ \A x \in ToSet(p.puts) : RefsGiven(x[2]) \subseteq known \cup PutsId(p.puts)
  /\ \A id \in PutsId(p.puts) : IdIsSound(id, procs)

LEMMA SoundMore ==
  ASSUME NEW p, NEW D, NEW E, NEW P, NEW Q, D \subseteq E, P \subseteq Q, Sound(p, D, P)
  PROVE  Sound(p, E, Q)
<1>1. \A id \in PutsId(p.puts) : IdIsSound(id, Q)
  BY DEF Sound, IdIsSound
<1>2. \A x \in ToSet(p.puts) : RefsGiven(x[2]) \subseteq E \cup PutsId(p.puts)
  BY DEF Sound
<1>. QED  BY <1>1, <1>2 DEF Sound

LEMMA NothingFacts ==
  /\ Nothing.id = Blank /\ Nothing.puts = << >> /\ Nothing.refs = {} /\ Nothing.used = {}
  /\ PutsId(Nothing.puts) = {} /\ ToSet(Nothing.puts) = {}
  /\ \A D, P : Sound(Nothing, D, P)
<1>1. /\ Nothing.id = Blank /\ Nothing.puts = << >> /\ Nothing.refs = {} /\ Nothing.used = {}
  BY DEF Nothing, Piece
<1>2. ToSet(<< >>) = {}
  BY DEF ToSet
<1>3. PutsId(Nothing.puts) = {} /\ ToSet(Nothing.puts) = {}
  BY <1>1, <1>2 DEF PutsId
<1>. QED  BY <1>1, <1>3, ListEmpty DEF Sound

LEMMA OneFacts ==
  ASSUME NEW id, NEW props
  PROVE  /\ One(id, props).id = id /\ One(id, props).used = {}
         /\ One(id, props).refs = {id} \ {Blank}
         /\ ToSet(One(id, props).puts) = {<< id, props >>}
         /\ PutsId(One(id, props).puts) = {id} /\ IsList(One(id, props).puts)
<1>. DEFINE x == << id, props >>
<1>1. /\ One(id, props).id = id /\ One(id, props).used = {}
      /\ One(id, props).refs = {id} \ {Blank}
      /\ One(id, props).puts = << x >>
  BY DEF One, Piece
<1>. HIDE DEF x
<1>2. IsList(<< x >>) /\ Len(<< x >>) = 1 /\ << x >>[1] = x /\ DOMAIN << x >> = {1}
  BY ListSingle, ListLen
<1>3. ToSet(<< x >>) = {x}
  BY <1>2 DEF ToSet
<1>4. x[1] = id
  BY DEF x
<1>5. PutsId(<< x >>) = {id}
  BY <1>3, <1>4 DEF PutsId
<1>. QED  BY <1>1, <1>2, <1>3, <1>5 DEF x

LEMMA OneSound ==
  ASSUME NEW id, NEW props, NEW D, NEW P, RefsGiven(props) \subseteq D, IdIsSound(id, P)
  PROVE  Sound(One(id, props), D, P)
<1>. DEFINE o == One(id, props)
<1>1. /\ o.id = id /\ o.refs = {id} \ {Blank} /\ ToSet(o.puts) = {<< id, props >>}
      /\ PutsId(o.puts) = {id} /\ IsList(o.puts)
  BY OneFacts
<1>. HIDE DEF o
<1>2. Sound(o, D, P)
  BY <1>1 DEF Sound
<1>. QED  BY <1>2 DEF o

LEMMA MintedSound ==
  ASSUME NEW key, NEW id, NEW props, NEW D, NEW P, RefsGiven(props) \subseteq D, IdIsSound(id, P)
  PROVE  Sound(Minted(key, id, props), D, P)
  BY OneSound, NothingFacts DEF Minted

LEMMA MintedFacts ==
  ASSUME NEW key, NEW id, NEW props
  PROVE  /\ key # Blank => /\ Minted(key, id, props).id = id /\ PutsId(Minted(key, id, props).puts) = {id}
                           /\ ToSet(Minted(key, id, props).puts) = {<< id, props >>}
         /\ key = Blank => Minted(key, id, props) = Nothing
         /\ Minted(key, id, props).used = {}
  BY OneFacts, NothingFacts DEF Minted

LEMMA AndFacts ==
  ASSUME NEW p, NEW q, IsList(p.puts), IsList(q.puts)
  PROVE  /\ And(p, q).id = q.id /\ IsList(And(p, q).puts)
         /\ And(p, q).refs = (p.refs \cup q.refs) \ {Blank}
         /\ And(p, q).used = p.used \cup q.used
         /\ ToSet(And(p, q).puts) = ToSet(p.puts) \cup ToSet(q.puts)
         /\ PutsId(And(p, q).puts) = PutsId(p.puts) \cup PutsId(q.puts)
<1>. DEFINE a == p.puts
            b == q.puts
<1>1. /\ And(p, q).id = q.id /\ And(p, q).puts = a \o b
      /\ And(p, q).refs = (p.refs \cup q.refs) \ {Blank}
      /\ And(p, q).used = p.used \cup q.used
  BY DEF And, Piece
<1>. HIDE DEF a, b
<1>2. IsList(a \o b) /\ ToSet(a \o b) = ToSet(a) \cup ToSet(b)
  BY ConcatMembers, ListConcat DEF a, b
<1>3. PutsId(a \o b) = PutsId(a) \cup PutsId(b)
  BY <1>2 DEF PutsId
<1>. QED  BY <1>1, <1>2, <1>3 DEF a, b

LEMMA AndSound ==
  ASSUME NEW p, NEW q, NEW D, NEW P, Sound(p, D, P), Sound(q, D \cup PutsId(p.puts), P)
  PROVE  Sound(And(p, q), D, P)
<1>. DEFINE a == And(p, q)
<1>1. IsList(p.puts) /\ IsList(q.puts)
  BY DEF Sound
<1>2. /\ a.id = q.id /\ IsList(a.puts) /\ a.refs = (p.refs \cup q.refs) \ {Blank}
      /\ ToSet(a.puts) = ToSet(p.puts) \cup ToSet(q.puts)
      /\ PutsId(a.puts) = PutsId(p.puts) \cup PutsId(q.puts)
  BY <1>1, AndFacts
<1>. HIDE DEF a
<1>3. \A x \in ToSet(a.puts) : RefsGiven(x[2]) \subseteq D \cup PutsId(a.puts)
  BY <1>2 DEF Sound
<1>4. Sound(a, D, P)
  BY <1>2, <1>3 DEF Sound
<1>. QED  BY <1>4 DEF a

LEMMA ConsumingFacts ==
  ASSUME NEW p, NEW used
  PROVE  /\ Consuming(p, used).id = p.id /\ Consuming(p, used).puts = p.puts
         /\ Consuming(p, used).refs = p.refs \ {Blank} /\ Consuming(p, used).used = p.used \cup used
         /\ \A D, P : Sound(p, D, P) => Sound(Consuming(p, used), D, P)
  BY DEF Consuming, Piece, Sound

LEMMA NamedFacts ==
  ASSUME NEW p, NEW id
  PROVE  /\ Named(p, id).id = id /\ Named(p, id).puts = p.puts
         /\ Named(p, id).refs = p.refs \ {Blank} /\ Named(p, id).used = p.used
         /\ \A D, P : Sound(p, D, P) /\ id \in PutsId(p.puts) \cup {Blank} => Sound(Named(p, id), D, P)
  BY DEF Named, Piece, Sound

LEMMA LedSound ==
  ASSUME NEW p, NEW q, NEW D, NEW P, Sound(p, D, P), Sound(q, D \cup PutsId(p.puts), P)
  PROVE  Sound(Led(p, q), D, P)
<1>1. Sound(And(p, q), D, P)
  BY AndSound
<1>2. PutsId(And(p, q).puts) = PutsId(p.puts) \cup PutsId(q.puts)
  BY AndFacts DEF Sound
<1>3. p.id \in PutsId(And(p, q).puts) \cup {Blank}
  BY <1>2 DEF Sound
<1>. QED  BY <1>1, <1>3, NamedFacts DEF Led

LEMMA LedFacts ==
  ASSUME NEW p, NEW q, IsList(p.puts), IsList(q.puts)
  PROVE  /\ Led(p, q).id = p.id /\ IsList(Led(p, q).puts)
         /\ Led(p, q).used = p.used \cup q.used
         /\ ToSet(Led(p, q).puts) = ToSet(p.puts) \cup ToSet(q.puts)
         /\ PutsId(Led(p, q).puts) = PutsId(p.puts) \cup PutsId(q.puts)
  BY AndFacts, NamedFacts DEF Led

LEMMA AllFacts ==
  ASSUME NEW ps, IsList(ps), \A i \in DOMAIN ps : IsList(ps[i].puts)
  PROVE  /\ All(ps).id = Blank /\ IsList(All(ps).puts)
         /\ \A x : x \in ToSet(All(ps).puts) <=> \E i \in DOMAIN ps : x \in ToSet(ps[i].puts)
         /\ \A id : id \in PutsId(All(ps).puts) <=> \E i \in DOMAIN ps : id \in PutsId(ps[i].puts)
         /\ \A id : id \in All(ps).refs <=> id # Blank /\ \E i \in DOMAIN ps : id \in ps[i].refs
         /\ \A c : c \in All(ps).used <=> \E i \in DOMAIN ps : c \in ps[i].used
<1>. DEFINE ss == [i \in DOMAIN ps |-> ps[i].puts]
<1>1. IsList(ss) /\ DOMAIN ss = DOMAIN ps
  BY ListMapped
<1>2. AllLists(ss) /\ \A i \in DOMAIN ps : ss[i] = ps[i].puts
  BY DEF AllLists
<1>3. /\ All(ps).id = Blank /\ All(ps).puts = FlattenSeq(ss)
      /\ All(ps).refs = (UNION {ps[i].refs : i \in DOMAIN ps}) \ {Blank}
      /\ All(ps).used = UNION {ps[i].used : i \in DOMAIN ps}
  BY DEF All, Piece
<1>. HIDE DEF ss
<1>4. IsList(FlattenSeq(ss))
  BY <1>1, <1>2, FlattenList
<1>5. \A x : x \in ToSet(FlattenSeq(ss)) <=> \E i \in DOMAIN ps : x \in ToSet(ps[i].puts)
  BY <1>1, <1>2, FlattenMembers, FlattenHas
<1>6. \A id : id \in PutsId(FlattenSeq(ss)) <=> \E i \in DOMAIN ps : id \in PutsId(ps[i].puts)
  BY <1>5 DEF PutsId
<1>. QED  BY <1>3, <1>4, <1>5, <1>6

LEMMA AllSound ==
  ASSUME NEW ps, NEW D, NEW P, IsList(ps), \A i \in DOMAIN ps : Sound(ps[i], D, P)
  PROVE  Sound(All(ps), D, P)
<1>. DEFINE a == All(ps)
<1>1. \A i \in DOMAIN ps : IsList(ps[i].puts)
  BY DEF Sound
<1>2. /\ a.id = Blank /\ IsList(a.puts)
      /\ \A x : x \in ToSet(a.puts) <=> \E i \in DOMAIN ps : x \in ToSet(ps[i].puts)
      /\ \A id : id \in PutsId(a.puts) <=> \E i \in DOMAIN ps : id \in PutsId(ps[i].puts)
      /\ \A id : id \in a.refs <=> id # Blank /\ \E i \in DOMAIN ps : id \in ps[i].refs
  BY <1>1, AllFacts
<1>. HIDE DEF a
<1>3. ASSUME NEW x \in ToSet(a.puts)
      PROVE  RefsGiven(x[2]) \subseteq D \cup PutsId(a.puts)
  <2>1. PICK i \in DOMAIN ps : x \in ToSet(ps[i].puts)
    BY <1>2
  <2>2. RefsGiven(x[2]) \subseteq D \cup PutsId(ps[i].puts)
    BY <2>1 DEF Sound
  <2>. QED  BY <1>2, <2>2
<1>4. a.refs \subseteq PutsId(a.puts)
  BY <1>2 DEF Sound
<1>5. \A id \in PutsId(a.puts) : IdIsSound(id, P)
  BY <1>2 DEF Sound
<1>6. Sound(a, D, P)
  BY <1>2, <1>3, <1>4, <1>5 DEF Sound
<1>. QED  BY <1>6 DEF a

-----------------------------------------------------------------------------
(* What the builders share.                                                *)

LEMMA NoProps == DOMAIN << >> = {} /\ RefsGiven(<< >>) = {}
<1>1. DOMAIN << >> = {}
  OBVIOUS
<1>. QED  BY <1>1, RefsOfNone

LEMMA TupleIds ==
  ASSUME NEW a, NEW b, NEW c, NEW d, NEW e, NEW P, a # "relationship"
  PROVE  /\ IdIsSound(<< a, b >>, P)
         /\ a # "process" \/ << a, b, c >> \in P => IdIsSound(<< a, b, c >>, P)
         /\ IdIsSound(<< a, b, c, d >>, P) /\ IdIsSound(<< a, b, c, d, e >>, P)
  BY DEF IdIsSound

LEMMA ValueSound ==
  ASSUME NEW kind, NEW how, NEW r, NEW col, kind # "relationship", NEW D, NEW P
  PROVE  Sound(Value(kind, how, r, col), D, P)
<1>1. \A v : RefsGiven(Prop("value", v)) = {}
  BY RefsOfProp DEF RefProps, RefLists
<1>2. \A v : Sound(One(<< kind, v >>, Prop("value", v)), D, P)
  BY <1>1, TupleIds, OneSound
<1>. QED  BY <1>2, NothingFacts DEF Value

LEMMA EndSound ==
  ASSUME NEW r, NEW e, e[2] # "relationship", NEW D, NEW P
  PROVE  Sound(End(r, e), D, P)
  BY ValueSound, ConsumingFacts DEF End

LEMMA AccountSound ==
  ASSUME NEW host, NEW ident, NEW name, NEW D, NEW P
  PROVE  Sound(Account(host, ident, name), D, P)
<1>1. \A s, n : RefsGiven(Prop("user_id", s) ++ Prop("display_name", n) ++ Prop("x_car_logins", Some(n))) = {}
  <2>. TAKE s, n
  <2>1. /\ RefsGiven(Prop("user_id", s)) \subseteq {} /\ RefsGiven(Prop("display_name", n)) \subseteq {}
        /\ RefsGiven(Prop("x_car_logins", Some(n))) \subseteq {}
    BY RefsOfProp DEF RefProps, RefLists
  <2>. QED  BY <2>1, RefsOfBoth
<1>2. \A s, n : RefsGiven(Prop("user_id", s) ++ Prop("account_login", n)) = {}
  <2>. TAKE s, n
  <2>1. RefsGiven(Prop("user_id", s)) \subseteq {} /\ RefsGiven(Prop("account_login", n)) \subseteq {}
    BY RefsOfProp DEF RefProps, RefLists
  <2>. QED  BY <2>1, RefsOfBoth
<1>3. \A b, c, d : IdIsSound(<< "user-account", b >>, P) /\ IdIsSound(<< "user-account", b, c, d >>, P)
  BY TupleIds
<1>4. \A id, props : RefsGiven(props) = {} /\ IdIsSound(id, P) => Sound(One(id, props), D, P)
  BY OneSound
<1>. QED  BY <1>1, <1>2, <1>3, <1>4, NothingFacts DEF Account

LEMMA AccountOfSound ==
  ASSUME NEW r, NEW ident, NEW name, NEW D, NEW P
  PROVE  Sound(AccountOf(r, ident, name), D, P)
  BY AccountSound, ConsumingFacts DEF AccountOf

LEMMA DirectorySound ==
  ASSUME NEW host, NEW path, NEW D, NEW P
  PROVE  Sound(Directory(host, path), D, P)
<1>1. RefsGiven(Prop("path", path)) = {}
  BY RefsOfProp DEF RefProps, RefLists
<1>2. IdIsSound(<< "directory", host, path >>, P)
  BY DEF IdIsSound
<1>3. Sound(One(<< "directory", host, path >>, Prop("path", path)), D, P)
  BY <1>1, <1>2, OneSound
<1>. QED  BY <1>3 DEF Directory

\* A file refers to its directory and to its content.
LEMMA FileAtSound ==
  ASSUME NEW host, NEW path, NEW name, NEW hashes, NEW ref, NEW props, NEW row, NEW D, NEW P,
         Some(ref) \subseteq D, RefsGiven(props) \subseteq D,
         \A h \in hashes : h[1] \in ToSet(HashColumns)
  PROVE  Sound(FileAt(host, path, name, hashes, ref, props, row), D, P)
<1>. DEFINE id == IF path # Blank THEN << "file", host, "path", path >>
                  ELSE IF name # Blank THEN << "file", host, "name", name >>
                  ELSE << "file", host, "row", row[1], row[2] >>
            key == IF path # Blank THEN path ELSE IF name # Blank THEN name ELSE row[2]
            base == IF name # Blank THEN name ELSE IF path # Blank THEN Reads["base"][path] ELSE Blank
            up  == IF path = Blank \/ Reads["dir"][path] = Blank THEN Nothing
                   ELSE Directory(host, Reads["dir"][path])
            named == [f \in {h[1] : h \in hashes} |-> (CHOOSE h \in hashes : h[1] = f)[2]]
            own == Prop("name", base) ++ Prop("x_car_path", path) ++ Prop("parent_directory_ref", up.id)
                   ++ Prop("x_car_content_ref", ref) ++ named
            file == Minted(key, id, props ++ own)
<1>1. FileAt(host, path, name, hashes, ref, props, row) =
        IF path = Blank /\ name = Blank /\ hashes = {} /\ DOMAIN props = {} THEN Nothing ELSE And(up, file)
  BY DEF FileAt
<1>2. IdIsSound(id, P)
  BY TupleIds
<1>3. Sound(up, D, P)
  BY NothingFacts, DirectorySound
<1>. HIDE DEF id, key, base, up
<1>4. RefsGiven(props ++ own) \subseteq D \cup PutsId(up.puts)
  <2>. DEFINE E == D \cup PutsId(up.puts)
  <2>1. Some(up.id) \subseteq E /\ Some(ref) \subseteq E
    BY <1>3 DEF Sound, Some
  <2>2. DOMAIN named \cap (RefProps \cup RefLists) = {}
    BY DEF HashColumns, ToSet, RefProps, RefLists
  <2>. HIDE DEF E, named
  <2>3. RefsGiven(Prop("name", base)) \subseteq E /\ RefsGiven(Prop("x_car_path", path)) \subseteq E
    BY RefsOfProp DEF RefProps, RefLists
  <2>4. /\ RefsGiven(Prop("parent_directory_ref", up.id)) \subseteq E
        /\ RefsGiven(Prop("x_car_content_ref", ref)) \subseteq E
    BY <2>1, RefsOfProp DEF RefProps
  <2>5. RefsGiven(named) \subseteq E
    BY <2>2, RefsOfNone
  <2>6. RefsGiven(props) \subseteq E
    BY DEF E
  <2>7. RefsGiven(props ++ own) \subseteq E
    BY <2>3, <2>4, <2>5, <2>6, RefsOfBoth
  <2>. QED  BY <2>7 DEF E
<1>. HIDE DEF own
<1>5. Sound(file, D \cup PutsId(up.puts), P)
  BY <1>2, <1>4, MintedSound
<1>. HIDE DEF file
<1>6. Sound(And(up, file), D, P)
  BY <1>3, <1>5, AndSound
<1>. QED  BY <1>1, <1>6, NothingFacts

LEMMA RunningSound ==
  ASSUME NEW host, NEW guid, NEW props, NEW image, NEW D, NEW P,
         Sound(image, D, P), RefsGiven(props) \subseteq D, guid # Blank => << "process", host, guid >> \in P
  PROVE  Sound(Running(host, guid, props, image), D, P)
<1>. DEFINE id == << "process", host, guid >>
            all == props ++ Prop("x_car_entity_id", guid) ++ Prop("image_ref", image.id)
            E == D \cup PutsId(image.puts)
<1>1. RefsGiven(all) \subseteq E
  <2>1. Some(image.id) \subseteq E
    BY DEF Sound, Some
  <2>2. RefsGiven(props) \subseteq E
    OBVIOUS
  <2>. HIDE DEF E
  <2>3. RefsGiven(Prop("x_car_entity_id", guid)) \subseteq E
    BY RefsOfProp DEF RefProps, RefLists
  <2>4. RefsGiven(Prop("image_ref", image.id)) \subseteq E
    BY <2>1, RefsOfProp DEF RefProps
  <2>. QED  BY <2>2, <2>3, <2>4, RefsOfBoth
<1>2. Running(host, guid, props, image) = And(image, Minted(guid, id, all))
  BY DEF Running
<1>. HIDE DEF all
<1>3. Sound(Minted(guid, id, all), E, P)
  <2>1. guid # Blank => IdIsSound(id, P)
    BY TupleIds
  <2>2. guid # Blank => Sound(Minted(guid, id, all), E, P)
    BY <1>1, <2>1, MintedSound
  <2>. QED  BY <2>2, MintedFacts, NothingFacts
<1>. QED  BY <1>2, <1>3, AndSound

LEMMA ProcessSound ==
  ASSUME NEW host, NEW guid, NEW props, NEW path, NEW name, NEW hashes, NEW ref, NEW imageProps, NEW D, NEW P,
         Some(ref) \subseteq D, RefsGiven(props) \subseteq D, RefsGiven(imageProps) \subseteq D,
         \A h \in hashes : h[1] \in ToSet(HashColumns), guid # Blank => << "process", host, guid >> \in P
  PROVE  Sound(Process(host, guid, props, path, name, hashes, ref, imageProps), D, P)
<1>. DEFINE image == IF path = Blank /\ name = Blank /\ hashes = {} THEN Nothing
                     ELSE FileAt(host, path, name, hashes, ref, imageProps, << "process", guid >>)
<1>1. Sound(image, D, P)
  BY FileAtSound, NothingFacts
<1>2. Process(host, guid, props, path, name, hashes, ref, imageProps) = Running(host, guid, props, image)
  BY DEF Process
<1>. HIDE DEF image
<1>. QED  BY <1>1, <1>2, RunningSound

\* A process with an identity is put under it, last.
LEMMA ProcessPuts ==
  ASSUME NEW host, NEW guid, NEW props, NEW path, NEW name, NEW hashes, NEW ref, NEW imageProps,
         \A h \in hashes : h[1] \in ToSet(HashColumns), guid # Blank
  PROVE  LET p == Process(host, guid, props, path, name, hashes, ref, imageProps)
         IN  p.id = << "process", host, guid >> /\ << "process", host, guid >> \in PutsId(p.puts)
<1>. DEFINE image == IF path = Blank /\ name = Blank /\ hashes = {} THEN Nothing
                     ELSE FileAt(host, path, name, hashes, ref, imageProps, << "process", guid >>)
            p == Process(host, guid, props, path, name, hashes, ref, imageProps)
            id == << "process", host, guid >>
            self == Minted(guid, id, props ++ Prop("x_car_entity_id", guid) ++ Prop("image_ref", image.id))
<1>1. Sound(image, Some(ref) \cup RefsGiven(imageProps), {})
  BY FileAtSound, NothingFacts
<1>2. p = And(image, self)
  BY DEF Process, Running
<1>3. self.id = id /\ PutsId(self.puts) = {id}
  BY MintedFacts
<1>4. IsList(self.puts)
  BY OneFacts DEF Minted
<1>. HIDE DEF image, self, p, id
<1>5. p.id = self.id /\ PutsId(p.puts) = PutsId(image.puts) \cup PutsId(self.puts)
  BY <1>1, <1>2, <1>4, AndFacts DEF Sound
<1>6. p.id = id /\ id \in PutsId(p.puts)
  BY <1>3, <1>5
<1>. QED  BY <1>6 DEF p, id

-----------------------------------------------------------------------------
(* The builders.                                                           *)

\* The processes a row puts.
RowProcs(r) ==
  { << "process", r.host, g >> :
      g \in NamedBy(r) \cup (IF r.obj = "process" /\ r.owning = Blank THEN {r.guid} ELSE {}) }

LEMMA RowHashes ==
  ASSUME NEW r
  PROVE  \A h \in Hashes(r) : h[1] \in ToSet(HashColumns) /\ h[1] \notin RefProps \cup RefLists
  BY DEF Hashes, HashColumns, ToSet, RefProps, RefLists

LEMMA FileShapeFacts ==
  ASSUME NEW o \in DOMAIN FileShape
  PROVE  /\ IsList(FileShape[o].accounts)
         /\ \A t \in FileShape[o].props : t[1] \notin RefProps \cup RefLists
<1>1. o \in {"file", "module", "driver"}
  BY DEF FileShape
<1>2. \A t \in Signer : t[1] \notin RefProps \cup RefLists
  BY DEF Signer, RefProps, RefLists
<1>3. \A a, b : IsList(<< a, b >>)
  BY DEF IsList, ToSet
<1>4. /\ IsList(FileShape["file"].accounts) /\ IsList(FileShape["module"].accounts)
      /\ IsList(FileShape["driver"].accounts)
  BY <1>3, ListEmpty DEF FileShape
<1>5. \A t \in FileShape["file"].props : t[1] \notin RefProps \cup RefLists
  BY <1>2 DEF FileShape, RefProps, RefLists
<1>6. \A t \in FileShape["module"].props : t[1] \notin RefProps \cup RefLists
  BY <1>2 DEF FileShape, RefProps, RefLists
<1>7. \A t \in FileShape["driver"].props : t[1] \notin RefProps \cup RefLists
  BY <1>2 DEF FileShape, RefProps, RefLists
<1>. QED  BY <1>1, <1>4, <1>5, <1>6, <1>7

LEMMA BuildFileSound ==
  ASSUME NEW r, NEW ref, r.obj \in DOMAIN FileShape
  PROVE  Sound(BuildFile(r, ref), Some(ref), {})
<1>. DEFINE s == FileShape[r.obj]
            users == [i \in DOMAIN s.accounts |-> AccountOf(r, s.accounts[i][1], s.accounts[i][2])]
            made == FileAt(r.host, Peek(r, s.path), Peek(r, s.name), Hashes(r), ref, Props(r, s.props), << r.obj, r.guid >>)
            used == Present(r, {s.path, s.name}) \cup {h[1] : h \in Hashes(r)} \cup Used(r, s.props)
            file == Consuming(made, used)
            D == Some(ref)
<1>1. IsList(s.accounts) /\ RefsGiven(Props(r, s.props)) = {}
  BY FileShapeFacts, RefsOfColumns
<1>2. IsList(users) /\ \A i \in DOMAIN users : Sound(users[i], D \cup PutsId(file.puts), {})
  <2>1. IsList(users) /\ DOMAIN users = DOMAIN s.accounts
    BY <1>1, ListMapped
  <2>. QED  BY <2>1, AccountOfSound
<1>3. Sound(made, D, {})
  BY <1>1, RowHashes, FileAtSound
<1>4. BuildFile(r, ref) = Led(file, All(users))
  BY DEF BuildFile
<1>. HIDE DEF users, made, used, D
<1>5. Sound(file, D, {})
  BY <1>3, ConsumingFacts
<1>. HIDE DEF file
<1>6. Sound(All(users), D \cup PutsId(file.puts), {})
  BY <1>2, AllSound
<1>. QED  BY <1>4, <1>5, <1>6, LedSound DEF D

LEMMA ParentSound ==
  ASSUME NEW r, r.obj = "process", NEW D
  PROVE  Sound(ParentOf(r), D, RowProcs(r))
<1>. DEFINE g == Peek(r, "parent_guid")
            p == Process(r.host, g, Props(r, ParentColumns), Peek(r, "parent_image_path"),
                         Peek(r, "parent_exe"), {}, Blank, << >>)
<1>1. RefsGiven(Props(r, ParentColumns)) = {}
  BY RefsOfColumns DEF ParentColumns, RefProps, RefLists
<1>2. << "process", r.host, g >> \in RowProcs(r)
  BY DEF RowProcs, NamedBy
<1>3. Some(Blank) = {}
  BY DEF Some
<1>4. Sound(p, D, RowProcs(r))
  BY <1>1, <1>2, <1>3, NoProps, ProcessSound
<1>. HIDE DEF p
<1>5. Sound(Consuming(p, {"parent_guid"}), D, RowProcs(r))
  BY <1>4, ConsumingFacts
<1>6. ParentOf(r) = Consuming(IF g = Blank THEN Nothing ELSE Consuming(p, {"parent_guid"}),
                              Used(r, ParentColumns) \cup Present(r, ParentImage))
  BY DEF ParentOf, p
<1>. QED  BY <1>5, <1>6, NothingFacts, ConsumingFacts

LEMMA AccessedSound ==
  ASSUME NEW r, r.obj = "process", NEW D
  PROVE  Sound(Accessed(r), D, RowProcs(r))
<1>. DEFINE g == Peek(r, "target_guid")
            cols == {<< "pid", "int", "target_pid" >>}
            p == Process(r.host, g, Props(r, cols), Peek(r, "target_name"), Blank, {}, Blank, << >>)
            used == {"target_guid"} \cup Used(r, cols) \cup Present(r, {"target_name"})
<1>1. RefsGiven(Props(r, cols)) = {}
  BY RefsOfColumns DEF RefProps, RefLists
<1>2. r.act = "access" => << "process", r.host, g >> \in RowProcs(r)
  BY DEF RowProcs, NamedBy
<1>3. Some(Blank) = {}
  BY DEF Some
<1>4. r.act = "access" => Sound(p, D, RowProcs(r))
  BY <1>1, <1>2, <1>3, NoProps, ProcessSound
<1>5. Accessed(r) = IF r.act # "access" \/ g = Blank THEN Nothing ELSE Consuming(p, used)
  BY DEF Accessed
<1>. HIDE DEF p, used
<1>. QED  BY <1>4, <1>5, NothingFacts, ConsumingFacts

LEMMA RanSound ==
  ASSUME NEW r, NEW ref, r.obj = "process", NEW parent, NEW user,
         Sound(parent, Some(ref), RowProcs(r)), Sound(user, Some(ref), RowProcs(r))
  PROVE  Sound(Ran(r, ref, parent, user), Some(ref), RowProcs(r))
<1>. DEFINE D == Some(ref)
            said == IF Peek(r, "parent_guid") = Blank THEN Props(r, SaidOfParent) ELSE << >>
            made == Prop("created_time", IF r.act = "create" THEN Reads["ts"][r.ts] ELSE Blank)
            props == Props(r, ProcessColumns) ++ said
                     ++ Prop("parent_ref", parent.id) ++ Prop("creator_user_ref", user.id) ++ made
            ran == Process(r.host, Identity(r), props, Peek(r, "image_path"),
                           Peek(r, "exe"), Hashes(r), ref, Props(r, Signer))
            used == Used(r, ProcessColumns \cup Signer) \cup {h[1] : h \in Hashes(r)} \cup Present(r, {"image_path", "exe"})
            self == Consuming(ran, used)
            both == And(parent, user)
            E == D \cup PutsId(both.puts)
            P == RowProcs(r)
            all == And(And(both, self), Accessed(r))
<1>1. Ran(r, ref, parent, user) = Named(all, ProcessId(r.host, Identity(r)))
  BY DEF Ran
<1>2. Sound(both, D, P) /\ PutsId(both.puts) = PutsId(parent.puts) \cup PutsId(user.puts)
  <2>1. Sound(user, D \cup PutsId(parent.puts), P)
    BY SoundMore
  <2>. QED  BY <2>1, AndSound, AndFacts DEF Sound
<1>3. RefsGiven(props) \subseteq E
  <2>1. Some(parent.id) \subseteq E /\ Some(user.id) \subseteq E
    BY <1>2 DEF Sound, Some
  <2>. HIDE DEF E
  <2>2. RefsGiven(Prop("parent_ref", parent.id)) \subseteq E /\ RefsGiven(Prop("creator_user_ref", user.id)) \subseteq E
    BY <2>1, RefsOfProp DEF RefProps
  <2>3. RefsGiven(made) \subseteq E
    BY RefsOfProp DEF RefProps, RefLists
  <2>4. RefsGiven(said) \subseteq E
    BY RefsOfColumns, NoProps DEF SaidOfParent, RefProps, RefLists
  <2>5. RefsGiven(Props(r, ProcessColumns)) \subseteq E
    BY RefsOfColumns DEF ProcessColumns, RefProps, RefLists
  <2>. HIDE DEF said, made
  <2>. QED  BY <2>2, <2>3, <2>4, <2>5, RefsOfBoth
<1>4. << "process", r.host, Identity(r) >> \in P
  BY DEF RowProcs, NamedBy, Identity
<1>5. RefsGiven(Props(r, Signer)) \subseteq E
  BY RefsOfColumns DEF Signer, RefProps, RefLists
<1>6. Some(ref) \subseteq E
  OBVIOUS
<1>. HIDE DEF props, E, P
<1>7. Sound(ran, E, P)
  BY <1>3, <1>4, <1>5, <1>6, RowHashes, ProcessSound
<1>8. Identity(r) # Blank => << "process", r.host, Identity(r) >> \in PutsId(ran.puts)
  BY RowHashes, ProcessPuts
<1>. HIDE DEF ran, used
<1>9. Sound(self, E, P) /\ self.puts = ran.puts
  BY <1>7, ConsumingFacts
<1>. HIDE DEF self, both
<1>10. Sound(And(both, self), D, P) /\ PutsId(And(both, self).puts) = PutsId(both.puts) \cup PutsId(self.puts)
  BY <1>2, <1>9, AndSound, AndFacts DEF Sound, E
<1>11. Sound(all, D, P) /\ PutsId(self.puts) \subseteq PutsId(all.puts)
  <2>. DEFINE a == And(both, self)
  <2>1. Sound(Accessed(r), D \cup PutsId(a.puts), P)
    BY AccessedSound DEF P
  <2>2. Sound(a, D, P) /\ PutsId(self.puts) \subseteq PutsId(a.puts)
    BY <1>10
  <2>. HIDE DEF a, D
  <2>3. Sound(And(a, Accessed(r)), D, P)
    BY <2>1, <2>2, AndSound
  <2>4. IsList(a.puts) /\ IsList(Accessed(r).puts)
    BY <2>1, <2>2 DEF Sound
  <2>5. PutsId(And(a, Accessed(r)).puts) = PutsId(a.puts) \cup PutsId(Accessed(r).puts)
    BY <2>4, AndFacts
  <2>. QED  BY <2>2, <2>3, <2>5 DEF a
<1>12. ProcessId(r.host, Identity(r)) \in PutsId(all.puts) \cup {Blank}
  BY <1>8, <1>9, <1>11 DEF ProcessId
<1>. HIDE DEF all
<1>. QED  BY <1>1, <1>11, <1>12, NamedFacts DEF P

\* The shapes are what the builders rely on.
ShapeIsSound(s) ==
  /\ IsList(s.ends) /\ IsList(s.accounts) /\ (s.type = "relationship" => s.type = Blank)
  /\ \A i \in DOMAIN s.ends : s.ends[i][2] # "relationship"
  /\ \A t \in s.plain : t[1] \notin RefProps \cup RefLists

LEMMA TuplesAreLists ==
  ASSUME NEW a, NEW b, NEW c, NEW d, NEW e, NEW f
  PROVE  /\ IsList(<< a >>) /\ IsList(<< a, b >>) /\ IsList(<< a, b, c >>)
         /\ IsList(<< a, b, c, d, e, f >>)
         /\ DOMAIN << a >> = {1} /\ DOMAIN << a, b >> = {1, 2} /\ DOMAIN << a, b, c >> = {1, 2, 3}
         /\ DOMAIN << a, b, c, d, e, f >> = {1, 2, 3, 4, 5, 6}
  BY DEF IsList, ToSet

LEMMA ShapeFacts ==
  ASSUME NEW o \in DOMAIN Shape
  PROVE  ShapeIsSound(Shape[o])
<1>1. o \in {"flow", "socket", "http", "authentication", "user_session", "service", "thread", "registry", "email"}
  BY DEF Shape
<1>2. ShapeIsSound(Shape["flow"])
  <2>1. IsList(Shape["flow"].ends) /\ IsList(Shape["flow"].accounts)
    BY TuplesAreLists, ListEmpty DEF Shape
  <2>2. Shape["flow"].type = "relationship" => Shape["flow"].type = Blank
    BY DEF Shape
  <2>3. \A i \in DOMAIN Shape["flow"].ends : Shape["flow"].ends[i][2] # "relationship"
    BY TuplesAreLists DEF Shape
  <2>4. \A t \in Shape["flow"].plain : t[1] \notin RefProps \cup RefLists
    BY DEF Shape, RefProps, RefLists
  <2>. QED  BY <2>1, <2>2, <2>3, <2>4 DEF ShapeIsSound
<1>3. ShapeIsSound(Shape["socket"])
  <2>1. IsList(Shape["socket"].ends) /\ IsList(Shape["socket"].accounts)
    BY TuplesAreLists, ListEmpty DEF Shape
  <2>2. Shape["socket"].type = "relationship" => Shape["socket"].type = Blank
    BY DEF Shape
  <2>3. \A i \in DOMAIN Shape["socket"].ends : Shape["socket"].ends[i][2] # "relationship"
    BY TuplesAreLists DEF Shape
  <2>4. \A t \in Shape["socket"].plain : t[1] \notin RefProps \cup RefLists
    BY DEF Shape, RefProps, RefLists
  <2>. QED  BY <2>1, <2>2, <2>3, <2>4 DEF ShapeIsSound
<1>4. ShapeIsSound(Shape["http"])
  <2>1. IsList(Shape["http"].ends) /\ IsList(Shape["http"].accounts)
    BY TuplesAreLists, ListEmpty DEF Shape
  <2>2. Shape["http"].type = "relationship" => Shape["http"].type = Blank
    BY DEF Shape
  <2>3. \A i \in DOMAIN Shape["http"].ends : Shape["http"].ends[i][2] # "relationship"
    BY TuplesAreLists DEF Shape
  <2>4. \A t \in Shape["http"].plain : t[1] \notin RefProps \cup RefLists
    BY DEF Shape, RefProps, RefLists
  <2>. QED  BY <2>1, <2>2, <2>3, <2>4 DEF ShapeIsSound
<1>5. ShapeIsSound(Shape["authentication"])
  <2>1. IsList(Shape["authentication"].ends) /\ IsList(Shape["authentication"].accounts)
    BY TuplesAreLists, ListEmpty DEF Shape
  <2>2. Shape["authentication"].type = "relationship" => Shape["authentication"].type = Blank
    BY DEF Shape
  <2>3. \A i \in DOMAIN Shape["authentication"].ends : Shape["authentication"].ends[i][2] # "relationship"
    BY TuplesAreLists DEF Shape
  <2>4. \A t \in Shape["authentication"].plain : t[1] \notin RefProps \cup RefLists
    BY DEF Shape, RefProps, RefLists
  <2>. QED  BY <2>1, <2>2, <2>3, <2>4 DEF ShapeIsSound
<1>6. ShapeIsSound(Shape["user_session"])
  <2>1. IsList(Shape["user_session"].ends) /\ IsList(Shape["user_session"].accounts)
    BY TuplesAreLists, ListEmpty DEF Shape
  <2>2. Shape["user_session"].type = "relationship" => Shape["user_session"].type = Blank
    BY DEF Shape
  <2>3. \A i \in DOMAIN Shape["user_session"].ends : Shape["user_session"].ends[i][2] # "relationship"
    BY TuplesAreLists DEF Shape
  <2>4. \A t \in Shape["user_session"].plain : t[1] \notin RefProps \cup RefLists
    BY DEF Shape, RefProps, RefLists
  <2>. QED  BY <2>1, <2>2, <2>3, <2>4 DEF ShapeIsSound
<1>7. ShapeIsSound(Shape["service"])
  <2>1. IsList(Shape["service"].ends) /\ IsList(Shape["service"].accounts)
    BY TuplesAreLists, ListEmpty DEF Shape
  <2>2. Shape["service"].type = "relationship" => Shape["service"].type = Blank
    BY DEF Shape
  <2>3. \A i \in DOMAIN Shape["service"].ends : Shape["service"].ends[i][2] # "relationship"
    BY TuplesAreLists DEF Shape
  <2>4. \A t \in Shape["service"].plain : t[1] \notin RefProps \cup RefLists
    BY DEF Shape, RefProps, RefLists
  <2>. QED  BY <2>1, <2>2, <2>3, <2>4 DEF ShapeIsSound
<1>8. ShapeIsSound(Shape["thread"])
  <2>1. IsList(Shape["thread"].ends) /\ IsList(Shape["thread"].accounts)
    BY TuplesAreLists, ListEmpty DEF Shape
  <2>2. Shape["thread"].type = "relationship" => Shape["thread"].type = Blank
    BY DEF Shape
  <2>3. \A i \in DOMAIN Shape["thread"].ends : Shape["thread"].ends[i][2] # "relationship"
    BY TuplesAreLists DEF Shape
  <2>4. \A t \in Shape["thread"].plain : t[1] \notin RefProps \cup RefLists
    BY DEF Shape, RefProps, RefLists
  <2>. QED  BY <2>1, <2>2, <2>3, <2>4 DEF ShapeIsSound
<1>9. ShapeIsSound(Shape["registry"])
  <2>1. IsList(Shape["registry"].ends) /\ IsList(Shape["registry"].accounts)
    BY TuplesAreLists, ListEmpty DEF Shape
  <2>2. Shape["registry"].type = "relationship" => Shape["registry"].type = Blank
    BY DEF Shape
  <2>3. \A i \in DOMAIN Shape["registry"].ends : Shape["registry"].ends[i][2] # "relationship"
    BY TuplesAreLists DEF Shape
  <2>4. \A t \in Shape["registry"].plain : t[1] \notin RefProps \cup RefLists
    BY DEF Shape, RefProps, RefLists
  <2>. QED  BY <2>1, <2>2, <2>3, <2>4 DEF ShapeIsSound
<1>10. ShapeIsSound(Shape["email"])
  <2>1. IsList(Shape["email"].ends) /\ IsList(Shape["email"].accounts)
    BY TuplesAreLists, ListEmpty DEF Shape
  <2>2. Shape["email"].type = "relationship" => Shape["email"].type = Blank
    BY DEF Shape
  <2>3. \A i \in DOMAIN Shape["email"].ends : Shape["email"].ends[i][2] # "relationship"
    BY TuplesAreLists DEF Shape
  <2>4. \A t \in Shape["email"].plain : t[1] \notin RefProps \cup RefLists
    BY DEF Shape, RefProps, RefLists
  <2>. QED  BY <2>1, <2>2, <2>3, <2>4 DEF ShapeIsSound
<1>. QED  BY <1>1, <1>2, <1>3, <1>4, <1>5, <1>6, <1>7, <1>8, <1>9, <1>10

LEMMA LinkedRefs ==
  ASSUME NEW prop, NEW p, NEW D, p.id \in D \cup {Blank}
  PROVE  RefsGiven(Linked(prop, p)) \subseteq D
<1>1. CASE prop = Blank
  BY <1>1, NoProps DEF Linked
<1>2. CASE prop # Blank
  <2>. DEFINE v == IF prop \in ListProps THEN Some(p.id) ELSE p.id
  <2>1. Linked(prop, p) = Prop(prop, v)
    BY <1>2 DEF Linked
  <2>2. /\ prop \notin RefProps \cup RefLists => RefsGiven(Prop(prop, v)) = {}
        /\ prop \in RefProps => RefsGiven(Prop(prop, v)) \subseteq Some(v)
        /\ prop \in RefLists => RefsGiven(Prop(prop, v)) \subseteq v
    BY RefsOfProp
  <2>3. Some(p.id) \subseteq D
    BY DEF Some
  <2>4. (prop \in RefProps => v = p.id) /\ (prop \in RefLists => v = Some(p.id))
    BY RefsAreNoLists
  <2>. HIDE DEF v
  <2>. QED  BY <2>1, <2>2, <2>3, <2>4
<1>. QED  BY <1>1, <1>2

LEMMA AllPropsRefs ==
  ASSUME NEW fs, NEW D, \A i \in DOMAIN fs : RefsGiven(fs[i]) \subseteq D
  PROVE  RefsGiven(AllProps(fs)) \subseteq D
<1>. DEFINE h == AllProps(fs)
<1>1. ASSUME NEW p \in DOMAIN h
      PROVE  \E i \in DOMAIN fs : p \in DOMAIN fs[i] /\ h[p] = fs[i][p]
  <2>1. \E i \in DOMAIN fs : p \in DOMAIN fs[i]
    BY DEF AllProps
  <2>. DEFINE k == CHOOSE i \in DOMAIN fs : p \in DOMAIN fs[i]
  <2>2. k \in DOMAIN fs /\ p \in DOMAIN fs[k] /\ h[p] = fs[k][p]
    BY <2>1 DEF AllProps
  <2>. QED  BY <2>2
<1>. HIDE DEF h
<1>2. ASSUME NEW p \in RefProps \cap DOMAIN h, h[p] # Blank
      PROVE  h[p] \in D
  <2>1. PICK i \in DOMAIN fs : p \in DOMAIN fs[i] /\ h[p] = fs[i][p]
    BY <1>1
  <2>2. h[p] \in RefsGiven(fs[i])
    BY <1>2, <2>1 DEF RefsGiven
  <2>. QED  BY <2>2
<1>3. ASSUME NEW p \in RefLists \cap DOMAIN h
      PROVE  h[p] \subseteq D
  <2>1. PICK i \in DOMAIN fs : p \in DOMAIN fs[i] /\ h[p] = fs[i][p]
    BY <1>1
  <2>2. h[p] \subseteq RefsGiven(fs[i])
    BY <2>1 DEF RefsGiven
  <2>. QED  BY <2>2
<1>4. RefsGiven(h) \subseteq D
  BY <1>2, <1>3 DEF RefsGiven
<1>. QED  BY <1>4 DEF h

LEMMA ExtraRefs ==
  ASSUME NEW r
  PROVE  RefsGiven(Request(r)[1]) = {} /\ RefsGiven(KeyValue(r)[1]) = {}
<1>1. RefsGiven(Request(r)[1]) = {}
  <2>. DEFINE cols == {<< "request_version", "get", "http_version" >>, << "header.user_agent", "get", "user_agent_full" >>,
                       << "header.referer", "get", "request_referrer" >>, << "request_bytes", "int", "request_body_bytes" >>}
              from == IF Peek(r, "url_remainder") # Blank THEN "url_remainder" ELSE "url_full"
              f == Prop("request_value", Peek(r, from)) ++ Props(r, cols)
  <2>1. Request(r)[1] = << >> \/ Request(r)[1] = f
    BY DEF Request
  <2>2. RefsGiven(Prop("request_value", Peek(r, from))) = {} /\ RefsGiven(Props(r, cols)) = {}
    BY RefsOfProp, RefsOfColumns DEF RefProps, RefLists
  <2>3. RefsGiven(f) \subseteq {}
    BY <2>2, RefsOfBoth
  <2>. HIDE DEF f
  <2>. QED  BY <2>1, <2>3, NoProps
<1>2. RefsGiven(KeyValue(r)[1]) = {}
  <2>. DEFINE f == Prop("values", {<< Peek(r, "value"), Peek(r, "data"), Take(r, "regtype", "type") >>})
  <2>1. KeyValue(r)[1] = << >> \/ KeyValue(r)[1] = f
    BY DEF KeyValue
  <2>2. RefsGiven(f) = {}
    BY RefsOfProp DEF RefProps, RefLists
  <2>. HIDE DEF f
  <2>. QED  BY <2>1, <2>2, NoProps
<1>. QED  BY <1>1, <1>2

LEMMA FilePartSound ==
  ASSUME NEW r, NEW s, NEW D, NEW P
  PROVE  Sound(FilePart(r, s), D, P)
<1>. DEFINE path == IF s.file = << >> THEN Blank ELSE Peek(r, s.file[2])
            name == IF s.file = << >> THEN Blank ELSE Peek(r, s.file[3])
            more == IF r.obj = "email" THEN AttachmentColumns ELSE {}
            file == FileAt(r.host, path, name, {}, Blank, Props(r, more), << r.obj, r.guid >>)
            used == Present(r, {s.file[2], s.file[3]}) \cup Used(r, more)
<1>1. FilePart(r, s) = IF path = Blank /\ name = Blank THEN Nothing ELSE Consuming(file, used)
  BY DEF FilePart
<1>2. RefsGiven(Props(r, more)) = {}
  BY RefsOfColumns DEF AttachmentColumns, RefProps, RefLists
<1>3. Some(Blank) = {}
  BY DEF Some
<1>. HIDE DEF path, name, more
<1>4. Sound(file, D, P)
  BY <1>2, <1>3, FileAtSound
<1>. HIDE DEF file, used
<1>5. Sound(Consuming(file, used), D, P)
  BY <1>4, ConsumingFacts
<1>. QED  BY <1>1, <1>5, NothingFacts

\* The account that stands for a row is one of those it names.
LEMMA FirstIsOne ==
  ASSUME NEW users, IsList(users)
  PROVE  FirstOf(users) = Blank \/ \E i \in DOMAIN users : FirstOf(users) = users[i].id /\ users[i].id # Blank
<1>. DEFINE named == {i \in DOMAIN users : users[i].id # Blank}
<1>1. DOMAIN users \subseteq Nat
  BY ListLen
<1>2. named # {} => \E x \in named : \A y \in named : x <= y
  BY <1>1, LeastNatural
<1>3. named # {} => Min(named) \in named
  BY <1>2 DEF Min
<1>4. FirstOf(users) = IF named = {} THEN Blank ELSE users[Min(named)].id
  BY DEF FirstOf
<1>. QED  BY <1>3, <1>4

LEMMA AndNamed ==
  ASSUME NEW p, NEW q, NEW id
  PROVE  And(p, Named(q, id)) = Named(And(p, q), id)
<1>1. (p.refs \cup (q.refs \ {Blank})) \ {Blank} = ((p.refs \cup q.refs) \ {Blank}) \ {Blank}
  OBVIOUS
<1>. QED  BY <1>1 DEF And, Named, Piece

\* The parts of a row that has an entity of its own, or that is one of its accounts.
LEMMA AssembledSound ==
  ASSUME NEW r, NEW s, NEW ends, NEW users, NEW file, NEW extra, NEW D, NEW P,
         ShapeIsSound(s), IsList(ends), IsList(users), Sound(file, D, P),
         \A i \in DOMAIN ends : Sound(ends[i], D, P), \A i \in DOMAIN users : Sound(users[i], D, P),
         RefsGiven(extra[1][1]) = {}, RefsGiven(extra[2][1]) = {}
  PROVE  Sound(Assembled(r, s, ends, users, file, extra), D, P)
<1>. DEFINE named == s.key # "guid" /\ Peek(r, s.key) # Blank
            id    == IF named THEN << s.type, r.host, s.key, Peek(r, s.key) >> ELSE << s.type, r.host, r.obj, r.guid >>
            linked == IF s.file = << >> THEN << >> ELSE Linked(s.file[1], file)
            linkedEnds == AllProps([i \in DOMAIN ends |-> Linked(s.ends[i][1], ends[i])])
            linkedUsers == AllProps([i \in DOMAIN users |-> Linked(s.accounts[i][1], users[i])])
            props == Props(r, s.plain) ++ extra[1][1] ++ extra[2][1] ++ linked ++ linkedEnds ++ linkedUsers
            key   == IF named THEN Peek(r, s.key) ELSE r.guid
            self  == IF s.type = Blank THEN Named(Nothing, FirstOf(users)) ELSE Minted(key, id, props)
            used  == Used(r, s.plain) \cup extra[1][2] \cup extra[2][2]
            around == And(All(ends), All(users))
            E == D \cup PutsId(around.puts)
            F == E \cup PutsId(file.puts)
<1>1. Assembled(r, s, ends, users, file, extra) = Consuming(And(around, And(file, self)), used)
  BY DEF Assembled
<1>2. /\ Sound(around, D, P)
      /\ PutsId(around.puts) = PutsId(All(ends).puts) \cup PutsId(All(users).puts)
  <2>1. Sound(All(ends), D, P) /\ Sound(All(users), D, P)
    BY AllSound
  <2>2. Sound(All(users), D \cup PutsId(All(ends).puts), P)
    BY <2>1, SoundMore
  <2>3. IsList(All(ends).puts) /\ IsList(All(users).puts)
    BY <2>1 DEF Sound
  <2>. QED  BY <2>1, <2>2, <2>3, AndSound, AndFacts
<1>3. /\ \A i \in DOMAIN ends : ends[i].id \in PutsId(around.puts) \cup {Blank}
      /\ \A i \in DOMAIN users : users[i].id \in PutsId(around.puts) \cup {Blank}
  <2>1. /\ \A i \in DOMAIN ends : IsList(ends[i].puts) /\ ends[i].id \in PutsId(ends[i].puts) \cup {Blank}
        /\ \A i \in DOMAIN users : IsList(users[i].puts) /\ users[i].id \in PutsId(users[i].puts) \cup {Blank}
    BY DEF Sound
  <2>2. /\ \A x : x \in PutsId(All(ends).puts) <=> \E i \in DOMAIN ends : x \in PutsId(ends[i].puts)
        /\ \A x : x \in PutsId(All(users).puts) <=> \E i \in DOMAIN users : x \in PutsId(users[i].puts)
    BY <2>1, AllFacts
  <2>. QED  BY <1>2, <2>1, <2>2
<1>4. Sound(file, E, P)
  BY SoundMore
<1>5. CASE s.type = Blank
  <2>1. Sound(And(file, Nothing), E, P)
    BY <1>4, NothingFacts, AndSound
  <2>2. Sound(And(around, And(file, Nothing)), D, P)
    BY <1>2, <2>1, AndSound
  <2>3. PutsId(And(around, And(file, Nothing)).puts) = PutsId(around.puts) \cup PutsId(And(file, Nothing).puts)
    BY <1>2, <2>1, AndFacts DEF Sound
  <2>4. FirstOf(users) \in PutsId(around.puts) \cup {Blank}
    BY <1>3, FirstIsOne
  <2>. DEFINE all == And(around, And(file, Nothing))
  <2>5. Sound(Named(all, FirstOf(users)), D, P)
    BY <2>2, <2>3, <2>4, NamedFacts
  <2>6. And(around, And(file, self)) = Named(all, FirstOf(users))
    BY <1>5, AndNamed
  <2>. HIDE DEF all, self, around
  <2>. QED  BY <1>1, <2>5, <2>6, ConsumingFacts
<1>6. CASE s.type # Blank
  <2>1. self = Minted(key, id, props)
    BY <1>6
  <2>2. IdIsSound(id, P)
    BY <1>6, TupleIds DEF ShapeIsSound
  <2>3. RefsGiven(props) \subseteq F
    <3>1. file.id \in F \cup {Blank} /\ E \subseteq F
      BY DEF Sound
    <3>2. RefsGiven(linked) \subseteq F
      BY <3>1, LinkedRefs, NoProps
    <3>. HIDE DEF around, E, F
    <3>3. PutsId(around.puts) \subseteq F
      BY <3>1 DEF E
    <3>4. RefsGiven(linkedEnds) \subseteq F
      <4>1. \A i \in DOMAIN ends : RefsGiven(Linked(s.ends[i][1], ends[i])) \subseteq F
        BY <1>3, <3>3, LinkedRefs
      <4>. QED  BY <4>1, AllPropsRefs
    <3>5. RefsGiven(linkedUsers) \subseteq F
      <4>1. \A i \in DOMAIN users : RefsGiven(Linked(s.accounts[i][1], users[i])) \subseteq F
        BY <1>3, <3>3, LinkedRefs
      <4>. QED  BY <4>1, AllPropsRefs
    <3>6. RefsGiven(Props(r, s.plain)) \subseteq F
      BY RefsOfColumns DEF ShapeIsSound
    <3>7. RefsGiven(extra[1][1]) \subseteq F /\ RefsGiven(extra[2][1]) \subseteq F
      OBVIOUS
    <3>. HIDE DEF linked, linkedEnds, linkedUsers
    <3>. QED  BY <3>2, <3>4, <3>5, <3>6, <3>7, RefsOfBoth
  <2>. HIDE DEF props, id, key
  <2>4. Sound(Minted(key, id, props), F, P)
    BY <2>2, <2>3, MintedSound
  <2>. HIDE DEF around, self
  <2>5. Sound(And(file, self), E, P)
    BY <1>4, <2>1, <2>4, AndSound
  <2>6. Sound(And(around, And(file, self)), D, P)
    BY <1>2, <2>5, AndSound
  <2>. QED  BY <1>1, <2>6, ConsumingFacts
<1>. QED  BY <1>5, <1>6

LEMMA BuildOtherSound ==
  ASSUME NEW r, r.obj \in DOMAIN Shape, NEW D, NEW P
  PROVE  Sound(BuildOther(r), D, P)
<1>. DEFINE s == Shape[r.obj]
            ends == [i \in DOMAIN s.ends |-> End(r, s.ends[i])]
            users == [i \in DOMAIN s.accounts |-> AccountOf(r, s.accounts[i][2], s.accounts[i][3])]
            extra == << Request(r), KeyValue(r) >>
<1>1. ShapeIsSound(s)
  BY ShapeFacts
<1>. HIDE DEF s
<1>2. IsList(ends) /\ \A i \in DOMAIN ends : Sound(ends[i], D, P)
  <2>1. IsList(ends) /\ DOMAIN ends = DOMAIN s.ends
    BY <1>1, ListMapped DEF ShapeIsSound
  <2>. QED  BY <1>1, <2>1, EndSound DEF ShapeIsSound
<1>3. IsList(users) /\ \A i \in DOMAIN users : Sound(users[i], D, P)
  <2>1. IsList(users) /\ DOMAIN users = DOMAIN s.accounts
    BY <1>1, ListMapped DEF ShapeIsSound
  <2>. QED  BY <2>1, AccountOfSound
<1>4. RefsGiven(extra[1][1]) = {} /\ RefsGiven(extra[2][1]) = {}
  BY ExtraRefs
<1>5. Sound(FilePart(r, s), D, P)
  BY FilePartSound
<1>6. BuildOther(r) = Assembled(r, s, ends, users, FilePart(r, s), extra)
  BY DEF BuildOther, BuildShaped, s
<1>. HIDE DEF ends, users, extra
<1>. QED  BY <1>1, <1>2, <1>3, <1>4, <1>5, <1>6, AssembledSound

LEMMA ActsSound ==
  ASSUME NEW r, NEW D
  PROVE  /\ Sound(Acts(r), D, RowProcs(r))
         /\ r.owning # Blank /\ r.obj # "process" => << "process", r.host, r.owning >> \in PutsId(Acts(r).puts)
<1>. DEFINE cols == IF r.obj \in DOMAIN Acting THEN Acting[r.obj] ELSE {}
            image == IF r.obj \in ActingImage THEN Peek(r, "image_path") ELSE Blank
            exe   == IF r.obj = "flow" THEN Peek(r, "exe") ELSE Blank
            p == Process(r.host, r.owning, Props(r, cols), image, exe, {}, Blank, << >>)
            used == Used(r, cols) \cup (IF r.obj \in ActingImage THEN Present(r, {"image_path"}) ELSE {})
                                  \cup (IF r.obj = "flow" THEN Present(r, {"exe"}) ELSE {})
<1>1. Acts(r) = IF r.owning = Blank \/ r.obj = "process" THEN Nothing ELSE Consuming(p, used)
  BY DEF Acts
<1>2. RefsGiven(Props(r, cols)) = {}
  <2>1. \A t \in cols : t[1] \notin RefProps \cup RefLists
    BY DEF Acting, RefProps, RefLists
  <2>. HIDE DEF cols
  <2>. QED  BY <2>1, RefsOfColumns
<1>3. Some(Blank) = {}
  BY DEF Some
<1>4. << "process", r.host, r.owning >> \in RowProcs(r)
  BY DEF RowProcs, NamedBy
<1>. HIDE DEF cols, image, exe
<1>5. Sound(p, D, RowProcs(r))
  BY <1>2, <1>3, <1>4, NoProps, ProcessSound
<1>6. r.owning # Blank => << "process", r.host, r.owning >> \in PutsId(p.puts)
  BY ProcessPuts
<1>. HIDE DEF p, used
<1>. QED  BY <1>1, <1>5, <1>6, NothingFacts, ConsumingFacts

LEMMA BuildProcessSound ==
  ASSUME NEW r, NEW ref, r.obj = "process"
  PROVE  Sound(BuildProcess(r, ref), Some(ref), RowProcs(r))
<1>1. Sound(ParentOf(r), Some(ref), RowProcs(r)) /\ Sound(AccountOf(r, WhoRan(r), "user"), Some(ref), RowProcs(r))
  BY ParentSound, AccountOfSound
<1>. QED  BY <1>1, RanSound DEF BuildProcess

LEMMA BuildSound ==
  ASSUME NEW r, NEW ref, r.obj \in Objects
  PROVE  Sound(Build(r, ref), Some(ref), RowProcs(r))
<1>1. CASE r.obj \in DOMAIN FileShape
  <2>1. Sound(BuildFile(r, ref), Some(ref), {})
    BY <1>1, BuildFileSound
  <2>2. Sound(BuildFile(r, ref), Some(ref), RowProcs(r))
    BY <2>1, SoundMore
  <2>. QED  BY <1>1, <2>2 DEF Build
<1>2. CASE r.obj \notin DOMAIN FileShape /\ r.obj = "process"
  BY <1>2, BuildProcessSound DEF Build
<1>3. CASE r.obj \notin DOMAIN FileShape /\ r.obj # "process"
  BY <1>3, BuildOtherSound DEF Build, Objects
<1>. QED  BY <1>1, <1>2, <1>3

LEMMA OrRecordSound ==
  ASSUME NEW r, NEW built, NEW D, NEW P, Sound(built, D, P)
  PROVE  /\ Sound(OrRecord(r, built), D, P)
         /\ PutsId(built.puts) \subseteq PutsId(OrRecord(r, built).puts)
         /\ OrRecord(r, built).id = IF built.id # Blank THEN built.id
                                    ELSE IF r.guid = Blank THEN Blank ELSE << "x-car-record", r.host, r.obj, r.guid >>
<1>. DEFINE record == RecordOf(r)
            id == << "x-car-record", r.host, r.obj, r.guid >>
            both == And(built, record)
<1>1. Sound(record, D \cup PutsId(built.puts), P)
  <2>1. RefsGiven(Prop("x_car_event_id", r.guid)) = {}
    BY RefsOfProp DEF RefProps, RefLists
  <2>2. IdIsSound(id, P)
    BY TupleIds
  <2>. QED  BY <2>1, <2>2, MintedSound DEF RecordOf
<1>2. record.id = IF r.guid = Blank THEN Blank ELSE id
  BY MintedFacts, NothingFacts DEF RecordOf
<1>3. OrRecord(r, built) = IF built.id # Blank THEN built ELSE Named(both, record.id)
  BY DEF OrRecord
<1>. HIDE DEF record, id
<1>4. Sound(both, D, P)
  BY <1>1, AndSound
<1>5. both.id = record.id /\ PutsId(both.puts) = PutsId(built.puts) \cup PutsId(record.puts)
  BY <1>1, AndFacts DEF Sound
<1>6. record.id \in PutsId(both.puts) \cup {Blank}
  BY <1>4, <1>5 DEF Sound
<1>. HIDE DEF both
<1>. QED  BY <1>2, <1>3, <1>4, <1>5, <1>6, NamedFacts DEF id

\* All that a row makes refers to what it makes and to its content; the
\* processes it puts are those that it names.
LEMMA PartsSound ==
  ASSUME NEW r, NEW ref, r.obj \in Objects
  PROVE  Sound(Parts(r, ref), Some(ref), RowProcs(r))
<1>. DEFINE own == OrRecord(r, Build(r, ref))
<1>1. Sound(own, Some(ref), RowProcs(r))
  BY BuildSound, OrRecordSound
<1>2. Sound(Acts(r), Some(ref) \cup PutsId(own.puts), RowProcs(r))
  BY ActsSound
<1>. QED  BY <1>1, <1>2, LedSound DEF Parts

LEMMA PartsId ==
  ASSUME NEW r, NEW ref, r.obj \in Objects
  PROVE  LET own == OrRecord(r, Build(r, ref))
         IN  /\ Parts(r, ref).id = own.id
             /\ PutsId(Parts(r, ref).puts) = PutsId(own.puts) \cup PutsId(Acts(r).puts)
             /\ ToSet(Parts(r, ref).puts) = ToSet(own.puts) \cup ToSet(Acts(r).puts)
<1>. DEFINE own == OrRecord(r, Build(r, ref))
<1>1. Sound(own, Some(ref), RowProcs(r))
  BY BuildSound, OrRecordSound
<1>2. Sound(Acts(r), {}, RowProcs(r))
  BY ActsSound
<1>3. IsList(own.puts) /\ IsList(Acts(r).puts)
  BY <1>1, <1>2 DEF Sound
<1>. HIDE DEF own
<1>4. Parts(r, ref) = Led(own, Acts(r))
  BY DEF Parts, own
<1>. QED  BY <1>3, <1>4, LedFacts DEF own

\* A row with an identity is something.
LEMMA RowsAreSomething ==
  ASSUME NEW r, NEW ref, r.obj \in Objects, r.guid # Blank, << "x-car-record", r.host, r.obj, r.guid >> # Blank
  PROVE  Parts(r, ref).id # Blank
<1>1. Sound(Build(r, ref), Some(ref), RowProcs(r))
  BY BuildSound
<1>2. Parts(r, ref).id = OrRecord(r, Build(r, ref)).id
  BY PartsId
<1>. DEFINE b == Build(r, ref)
<1>3. OrRecord(r, b).id = IF b.id # Blank THEN b.id
                          ELSE IF r.guid = Blank THEN Blank ELSE << "x-car-record", r.host, r.obj, r.guid >>
  BY <1>1, OrRecordSound
<1>. HIDE DEF b
<1>4. OrRecord(r, b).id # Blank
  BY <1>3
<1>. QED  BY <1>2, <1>4 DEF b

\* The processes a process row puts: its own, its parent and its target.
LEMMA BuildProcessPuts ==
  ASSUME NEW r, NEW ref, r.obj = "process"
  PROVE  LET b == BuildProcess(r, ref)
         IN  /\ b.id = ProcessId(r.host, Identity(r))
             /\ Identity(r) # Blank => << "process", r.host, Identity(r) >> \in PutsId(b.puts)
             /\ Peek(r, "parent_guid") # Blank => << "process", r.host, Peek(r, "parent_guid") >> \in PutsId(b.puts)
             /\ r.act = "access" /\ Peek(r, "target_guid") # Blank =>
                  << "process", r.host, Peek(r, "target_guid") >> \in PutsId(b.puts)
<1>. DEFINE parent == ParentOf(r)
            user == AccountOf(r, WhoRan(r), "user")
            said == IF Peek(r, "parent_guid") = Blank THEN Props(r, SaidOfParent) ELSE << >>
            props == Props(r, ProcessColumns) ++ said
                     ++ Prop("parent_ref", parent.id) ++ Prop("creator_user_ref", user.id)
                     ++ Prop("created_time", IF r.act = "create" THEN Reads["ts"][r.ts] ELSE Blank)
            ran == Process(r.host, Identity(r), props, Peek(r, "image_path"),
                           Peek(r, "exe"), Hashes(r), ref, Props(r, Signer))
            used == Used(r, ProcessColumns \cup Signer) \cup {h[1] : h \in Hashes(r)} \cup Present(r, {"image_path", "exe"})
            self == Consuming(ran, used)
            both == And(parent, user)
            most == And(both, self)
            all == And(most, Accessed(r))
            b == BuildProcess(r, ref)
<1>1. b = Named(all, ProcessId(r.host, Identity(r)))
  BY DEF BuildProcess, Ran
<1>2. IsList(parent.puts) /\ IsList(user.puts) /\ IsList(Accessed(r).puts)
  <2>1. Sound(parent, {}, RowProcs(r)) /\ Sound(user, {}, {}) /\ Sound(Accessed(r), {}, RowProcs(r))
    BY ParentSound, AccountOfSound, AccessedSound
  <2>. QED  BY <2>1 DEF Sound
<1>3. IsList(ran.puts) /\ (Identity(r) # Blank => << "process", r.host, Identity(r) >> \in PutsId(ran.puts))
  <2>1. Sound(ran, Some(ref) \cup RefsGiven(props) \cup RefsGiven(Props(r, Signer)), {<< "process", r.host, Identity(r) >>})
    <3>. HIDE DEF props
    <3>. QED  BY RowHashes, ProcessSound
  <2>2. Identity(r) # Blank => << "process", r.host, Identity(r) >> \in PutsId(ran.puts)
    <3>. HIDE DEF props
    <3>. QED  BY RowHashes, ProcessPuts
  <2>. HIDE DEF ran, props
  <2>. QED  BY <2>1, <2>2 DEF Sound
<1>. HIDE DEF ran, used
<1>4. self.puts = ran.puts
  BY ConsumingFacts
<1>5. ASSUME Peek(r, "parent_guid") # Blank
      PROVE  << "process", r.host, Peek(r, "parent_guid") >> \in PutsId(parent.puts)
  <2>. DEFINE g == Peek(r, "parent_guid")
              p == Process(r.host, g, Props(r, ParentColumns), Peek(r, "parent_image_path"),
                           Peek(r, "parent_exe"), {}, Blank, << >>)
              more == Used(r, ParentColumns) \cup Present(r, ParentImage)
  <2>1. parent = Consuming(Consuming(p, {"parent_guid"}), more)
    BY <1>5 DEF ParentOf
  <2>2. << "process", r.host, g >> \in PutsId(p.puts)
    BY <1>5, ProcessPuts
  <2>. HIDE DEF p, parent, more
  <2>3. parent.puts = p.puts
    BY <2>1, ConsumingFacts
  <2>. QED  BY <2>2, <2>3
<1>6. ASSUME r.act = "access", Peek(r, "target_guid") # Blank
      PROVE  << "process", r.host, Peek(r, "target_guid") >> \in PutsId(Accessed(r).puts)
  <2>. DEFINE g == Peek(r, "target_guid")
              cols == {<< "pid", "int", "target_pid" >>}
              p == Process(r.host, g, Props(r, cols), Peek(r, "target_name"), Blank, {}, Blank, << >>)
              of == {"target_guid"} \cup Used(r, cols) \cup Present(r, {"target_name"})
  <2>1. Accessed(r) = Consuming(p, of)
    BY <1>6 DEF Accessed
  <2>2. << "process", r.host, g >> \in PutsId(p.puts)
    BY <1>6, ProcessPuts
  <2>. HIDE DEF p, of
  <2>3. Accessed(r).puts = p.puts
    BY <2>1, ConsumingFacts
  <2>. QED  BY <2>2, <2>3
<1>. HIDE DEF parent, user, self
<1>7. IsList(both.puts) /\ PutsId(both.puts) = PutsId(parent.puts) \cup PutsId(user.puts)
  BY <1>2, AndFacts
<1>. HIDE DEF both
<1>8. IsList(most.puts) /\ PutsId(most.puts) = PutsId(both.puts) \cup PutsId(self.puts)
  BY <1>3, <1>4, <1>7, AndFacts
<1>. HIDE DEF most
<1>9. PutsId(all.puts) = PutsId(most.puts) \cup PutsId(Accessed(r).puts)
  BY <1>2, <1>8, AndFacts
<1>. HIDE DEF all
<1>10. b.id = ProcessId(r.host, Identity(r)) /\ b.puts = all.puts
  BY <1>1, NamedFacts
<1>. HIDE DEF b
<1>11. PutsId(parent.puts) \cup PutsId(ran.puts) \cup PutsId(Accessed(r).puts) \subseteq PutsId(b.puts)
  BY <1>4, <1>7, <1>8, <1>9, <1>10
<1>. QED  BY <1>3, <1>5, <1>6, <1>10, <1>11 DEF b

\* A row puts every process it names.
LEMMA NamedArePut ==
  ASSUME NEW r, NEW ref, r.obj \in Objects, NEW g \in NamedBy(r), g # Blank
  PROVE  << "process", r.host, g >> \in PutsId(Parts(r, ref).puts)
<1>. DEFINE own == OrRecord(r, Build(r, ref))
            id == << "process", r.host, g >>
<1>1. /\ PutsId(Parts(r, ref).puts) = PutsId(own.puts) \cup PutsId(Acts(r).puts)
      /\ PutsId(Build(r, ref).puts) \subseteq PutsId(own.puts)
  <2>1. Sound(Build(r, ref), Some(ref), RowProcs(r))
    BY BuildSound
  <2>. QED  BY <2>1, PartsId, OrRecordSound
<1>. HIDE DEF own
<1>2. CASE r.obj = "process"
  <2>1. Build(r, ref) = BuildProcess(r, ref)
    <3>1. "process" \notin DOMAIN FileShape
      BY DEF FileShape
    <3>. QED  BY <1>2, <3>1 DEF Build
  <2>2. g = r.owning \/ g = Peek(r, "parent_guid") \/ (r.act = "access" /\ g = Peek(r, "target_guid"))
    BY DEF NamedBy
  <2>. DEFINE S == PutsId(BuildProcess(r, ref).puts)
  <2>3. /\ Identity(r) # Blank => << "process", r.host, Identity(r) >> \in S
        /\ Peek(r, "parent_guid") # Blank => << "process", r.host, Peek(r, "parent_guid") >> \in S
        /\ r.act = "access" /\ Peek(r, "target_guid") # Blank => << "process", r.host, Peek(r, "target_guid") >> \in S
    BY <1>2, BuildProcessPuts
  <2>4. g = r.owning => g = Identity(r)
    BY DEF Identity
  <2>. HIDE DEF S
  <2>5. id \in S
    BY <2>2, <2>3, <2>4
  <2>. QED  BY <1>1, <2>1, <2>5 DEF S
<1>3. CASE r.obj # "process"
  <2>1. g = r.owning
    BY <1>3 DEF NamedBy
  <2>. QED  BY <1>1, <1>3, <2>1, ActsSound
<1>. QED  BY <1>2, <1>3

-----------------------------------------------------------------------------
(* The content.                                                            *)

Joining(stored, f, n) ==
  f = [i \in 0 .. n |-> IF i = 0 THEN {{h} : h \in HashNodes(stored)}
                        ELSE Join(RecordHashes(stored, stored[i]), f[i - 1])]

LEMMA JoiningExists ==
  ASSUME NEW stored, NEW n \in Nat
  PROVE  \E f : Joining(stored, f, n)
<1>. DEFINE T == {m \in Nat : \E f : Joining(stored, f, m)}
            first == {{h} : h \in HashNodes(stored)}
<1>1. 0 \in T
  <2>1. Joining(stored, [i \in 0 .. 0 |-> first], 0)
    BY DEF Joining
  <2>. QED  BY <2>1
<1>2. ASSUME NEW m \in T
      PROVE  m + 1 \in T
  <2>1. m \in Nat
    OBVIOUS
  <2>2. PICK f : Joining(stored, f, m)
    OBVIOUS
  <2>. DEFINE g == [i \in 0 .. m + 1 |-> IF i \in 0 .. m THEN f[i] ELSE Join(RecordHashes(stored, stored[i]), f[m])]
  <2>3. ASSUME NEW i \in 0 .. m + 1
        PROVE  g[i] = IF i = 0 THEN first ELSE Join(RecordHashes(stored, stored[i]), g[i - 1])
    <3>1. CASE i = 0
      BY <2>1, <2>2, <3>1 DEF Joining
    <3>2. CASE i # 0 /\ i \in 0 .. m
      <4>1. i - 1 \in 0 .. m /\ i - 1 \in 0 .. m + 1
        BY <2>1, <3>2
      <4>2. f[i] = Join(RecordHashes(stored, stored[i]), f[i - 1])
        BY <2>2, <3>2 DEF Joining
      <4>. QED  BY <3>2, <4>1, <4>2
    <3>3. CASE i \notin 0 .. m
      <4>1. i = m + 1 /\ i - 1 = m /\ m \in 0 .. m /\ m \in 0 .. m + 1 /\ i # 0
        BY <2>1, <3>3
      <4>. QED  BY <3>3, <4>1
    <3>. QED  BY <3>1, <3>2, <3>3
  <2>4. g = [i \in 0 .. m + 1 |-> g[i]]
    OBVIOUS
  <2>. HIDE DEF g
  <2>5. Joining(stored, g, m + 1)
    BY <2>3, <2>4 DEF Joining
  <2>. QED  BY <2>1, <2>5
<1>. HIDE DEF T
<1>3. T = Nat
  <2>1. T \in SUBSET Nat
    BY DEF T
  <2>. QED  BY <1>1, <1>2, <2>1, NaturalsByInduction
<1>. QED  BY <1>3 DEF T

\* Groups are united, never lost.
LEMMA GroupsCover ==
  ASSUME NEW stored, IsList(stored), NEW h \in HashNodes(stored)
  PROVE  \E g \in Groups(stored) : h \in g
<1>. DEFINE F == CHOOSE f : f = [i \in 0 .. Len(stored) |->
                   IF i = 0 THEN {{x} : x \in HashNodes(stored)} ELSE Join(RecordHashes(stored, stored[i]), f[i - 1])]
<1>1. Len(stored) \in Nat
  BY ListLen
<1>2. \E f : f = [i \in 0 .. Len(stored) |->
                   IF i = 0 THEN {{x} : x \in HashNodes(stored)} ELSE Join(RecordHashes(stored, stored[i]), f[i - 1])]
  <2>1. \E f : Joining(stored, f, Len(stored))
    BY <1>1, JoiningExists
  <2>. QED  BY <2>1 DEF Joining
<1>3. F = [i \in 0 .. Len(stored) |->
             IF i = 0 THEN {{x} : x \in HashNodes(stored)} ELSE Join(RecordHashes(stored, stored[i]), F[i - 1])]
  BY <1>2
<1>4. Groups(stored) = F[Len(stored)]
  BY DEF Groups
<1>. HIDE DEF F
<1>. DEFINE T == {m \in Nat : m <= Len(stored) => \E g \in F[m] : h \in g}
<1>5. 0 \in T
  <2>1. F[0] = {{x} : x \in HashNodes(stored)}
    BY <1>1, <1>3
  <2>. QED  BY <2>1
<1>6. ASSUME NEW m \in T
      PROVE  m + 1 \in T
  <2>. SUFFICES ASSUME m + 1 <= Len(stored)
                PROVE  \E g \in F[m + 1] : h \in g
    OBVIOUS
  <2>1. m \in Nat /\ m <= Len(stored)
    BY <1>1
  <2>2. F[m + 1] = Join(RecordHashes(stored, stored[m + 1]), F[m])
    <3>1. m + 1 \in 0 .. Len(stored) /\ m + 1 # 0 /\ (m + 1) - 1 = m
      BY <1>1, <2>1
    <3>. QED  BY <1>3, <3>1
  <2>3. PICK g \in F[m] : h \in g
    BY <2>1
  <2>. DEFINE nodes == RecordHashes(stored, stored[m + 1])
              met == {x \in F[m] : x \cap nodes # {}}
  <2>4. F[m + 1] = (F[m] \ met) \cup ({UNION met} \ {{}})
    BY <2>2 DEF Join
  <2>5. CASE g \in met
    <3>1. h \in UNION met
      BY <2>3, <2>5
    <3>. QED  BY <2>4, <3>1
  <2>6. CASE g \notin met
    BY <2>3, <2>4, <2>6
  <2>. QED  BY <2>5, <2>6
<1>. HIDE DEF T
<1>7. T = Nat
  <2>1. T \in SUBSET Nat
    BY DEF T
  <2>. QED  BY <1>5, <1>6, <2>1, NaturalsByInduction
<1>8. Len(stored) \in T
  BY <1>1, <1>7
<1>. QED  BY <1>1, <1>4, <1>8 DEF T

LEMMA HashNodesFacts ==
  ASSUME NEW stored
  PROVE  /\ \A n \in HashNodes(stored) : n[1] \in ToSet(HashColumns) /\ n[1] # "sid"
         /\ \A n \in Accounts(stored) : n[1] = "sid"
         /\ \A r \in ToSet(stored) : Hashes(r) \subseteq HashNodes(stored)
                                   /\ NodesOf(r) \subseteq HashNodes(stored) \cup Accounts(stored)
<1>1. \A r : \A n \in Hashes(r) : n[1] \in ToSet(HashColumns)
  BY RowHashes
<1>2. "sid" \notin ToSet(HashColumns)
  BY DEF ToSet, HashColumns
<1>3. \A n \in HashNodes(stored) : n[1] \in ToSet(HashColumns)
  BY <1>1 DEF HashNodes
<1>4. ASSUME NEW r \in ToSet(stored), NEW n \in NodesOf(r)
      PROVE  n \in HashNodes(stored) \cup Accounts(stored)
  <2>1. CASE n \in Hashes(r)
    BY <2>1 DEF HashNodes
  <2>2. CASE n \notin Hashes(r)
    <3>1. n[1] = "sid"
      BY <2>2 DEF NodesOf
    <3>. QED  BY <3>1 DEF Accounts
  <2>. QED  BY <2>1, <2>2
<1>5. \A r \in ToSet(stored) : Hashes(r) \subseteq HashNodes(stored)
  BY DEF HashNodes
<1>6. \A n \in Accounts(stored) : n[1] = "sid"
  BY DEF Accounts
<1>. QED  BY <1>2, <1>3, <1>4, <1>5, <1>6

\* Every node of the content has its object.
LEMMA ContentHasObjects ==
  ASSUME NEW stored, IsList(stored)
  PROVE  /\ DOMAIN ContentNodes(stored) = HashNodes(stored) \cup Accounts(stored)
         /\ \A n \in DOMAIN ContentNodes(stored) : ContentNodes(stored)[n] \in DOMAIN ContentObjects(stored)
<1>. DEFINE c == ContentNodes(stored)
            byGroup == [id \in {ContentId(g) : g \in Groups(stored)} |->
                          ContentFile(stored, CHOOSE g \in Groups(stored) : ContentId(g) = id)]
            byUser  == [id \in {<< "user-account", n[2] >> : n \in Accounts(stored)} |->
                          ContentUser(stored, << "sid", id[2] >>)]
<1>1. DOMAIN ContentObjects(stored) = DOMAIN byGroup \cup DOMAIN byUser
  BY Over DEF ContentObjects, Described
<1>2. DOMAIN c = HashNodes(stored) \cup Accounts(stored)
  BY DEF ContentNodes
<1>3. ASSUME NEW n \in HashNodes(stored)
      PROVE  c[n] \in DOMAIN byGroup
  <2>1. n[1] # "sid"
    BY HashNodesFacts
  <2>2. c[n] = ContentId(CHOOSE g \in Groups(stored) : n \in g)
    BY <2>1 DEF ContentNodes
  <2>3. (CHOOSE g \in Groups(stored) : n \in g) \in Groups(stored)
    BY GroupsCover
  <2>. QED  BY <2>2, <2>3
<1>4. ASSUME NEW n \in Accounts(stored)
      PROVE  c[n] \in DOMAIN byUser
  <2>1. n[1] = "sid"
    BY HashNodesFacts
  <2>2. c[n] = << "user-account", n[2] >>
    BY <2>1 DEF ContentNodes
  <2>. QED  BY <2>2
<1>. HIDE DEF byGroup, byUser, c
<1>5. \A n \in DOMAIN c : c[n] \in DOMAIN ContentObjects(stored)
  BY <1>1, <1>2, <1>3, <1>4
<1>. QED  BY <1>2, <1>5 DEF c

LEMMA BoundIsContent ==
  ASSUME NEW stored, IsList(stored), NEW r \in ToSet(stored)
  PROVE  /\ Some(Bound(ContentNodes(stored), r)) \subseteq DOMAIN ContentObjects(stored)
         /\ ContentRefs(ContentNodes(stored), stored, r) \subseteq DOMAIN ContentObjects(stored)
<1>. DEFINE c == ContentNodes(stored)
            D == DOMAIN ContentObjects(stored)
<1>1. DOMAIN c = HashNodes(stored) \cup Accounts(stored) /\ \A n \in DOMAIN c : c[n] \in D
  BY ContentHasObjects
<1>2. Hashes(r) \subseteq DOMAIN c /\ \A s \in ToSet(stored) : NodesOf(s) \subseteq DOMAIN c
  BY <1>1, HashNodesFacts
<1>. HIDE DEF c, D
<1>3. ContentRefs(c, stored, r) \subseteq D
  BY <1>1, <1>2 DEF ContentRefs
<1>4. CASE Hashes(r) = {}
  <2>1. Bound(c, r) = Blank
    BY <1>4 DEF Bound
  <2>2. Some(Bound(c, r)) = {}
    BY <2>1 DEF Some
  <2>. QED  BY <1>3, <2>2 DEF c, D
<1>5. CASE Hashes(r) # {}
  <2>. DEFINE hashes == Hashes(r)
              ofs == {h[1] : h \in hashes}
              Leads(f, g) == \E i, j \in DOMAIN HashColumns : HashColumns[i] = f /\ HashColumns[j] = g /\ i <= j
              f0 == CHOOSE f \in ofs : \A g \in ofs : Leads(f, g)
              n0 == CHOOSE h \in hashes : h[1] = f0
  <2>1. ofs \subseteq {"md5_hash", "sha1_hash", "sha256_hash"} /\ ofs # {}
    BY <1>5, RowHashes DEF HashColumns, ToSet
  <2>2. /\ Leads("md5_hash", "md5_hash") /\ Leads("md5_hash", "sha1_hash") /\ Leads("md5_hash", "sha256_hash")
        /\ Leads("sha1_hash", "sha1_hash") /\ Leads("sha1_hash", "sha256_hash")
        /\ Leads("sha256_hash", "sha256_hash")
    <3>1. DOMAIN HashColumns = {1, 2, 3} /\ HashColumns[1] = "md5_hash" /\ HashColumns[2] = "sha1_hash" /\ HashColumns[3] = "sha256_hash"
      BY DEF HashColumns
    <3>. QED  BY <3>1
  <2>. HIDE DEF ofs, Leads
  <2>3. \E f \in ofs : \A g \in ofs : Leads(f, g)
    <3>1. CASE "md5_hash" \in ofs
      BY <2>1, <2>2, <3>1
    <3>2. CASE "md5_hash" \notin ofs /\ "sha1_hash" \in ofs
      BY <2>1, <2>2, <3>2
    <3>3. CASE "md5_hash" \notin ofs /\ "sha1_hash" \notin ofs
      <4>1. ofs = {"sha256_hash"}
        BY <2>1, <3>3
      <4>. QED  BY <2>2, <4>1
    <3>. QED  BY <3>1, <3>2, <3>3
  <2>4. f0 \in ofs
    BY <2>3
  <2>. HIDE DEF f0
  <2>5. n0 \in hashes
    BY <2>4 DEF ofs
  <2>6. Bound(c, r) = IF n0 \in DOMAIN c THEN c[n0] ELSE ContentId(hashes)
    BY <1>5 DEF Bound, ContentRef, f0, ofs, Leads
  <2>. HIDE DEF n0
  <2>7. Bound(c, r) \in D
    BY <1>1, <1>2, <2>5, <2>6
  <2>. QED  BY <1>3, <2>7 DEF Some, c, D
<1>. QED  BY <1>4, <1>5

\* The content refers to nothing.
LEMMA ContentRefersToNothing ==
  ASSUME NEW stored
  PROVE  /\ RefsWithin(ContentObjects(stored), {})
         /\ \A id \in DOMAIN ContentObjects(stored) : IdIsSound(id, {})
<1>. DEFINE byGroup == [id \in {ContentId(g) : g \in Groups(stored)} |->
                          ContentFile(stored, CHOOSE g \in Groups(stored) : ContentId(g) = id)]
            byUser  == [id \in {<< "user-account", n[2] >> : n \in Accounts(stored)} |->
                          ContentUser(stored, << "sid", id[2] >>)]
            os == ContentObjects(stored)
<1>1. os = byGroup ++ byUser
  BY DEF ContentObjects, Described
<1>2. ASSUME NEW props, NEW alt, DOMAIN props \cap (RefProps \cup RefLists) = {}, \A d \in alt : d[1] \notin RefProps
      PROVE  RefsOf([val |-> Given(props), alt |-> alt]) = {}
  <2>1. DOMAIN Given(props) \subseteq DOMAIN props
    BY WhatIsGiven
  <2>2. RefProps \cap DOMAIN Given(props) = {} /\ RefLists \cap DOMAIN Given(props) = {}
    BY <1>2, <2>1
  <2>. QED  BY <1>2, <2>2 DEF RefsOf
<1>3. ASSUME NEW g
      PROVE  RefsOf(ContentFile(stored, g)) = {}
  <2>. DEFINE held == {f \in ToSet(HashColumns) : ValuesIn(g, f) # {}}
              of == [f \in held |-> LeastHash(ValuesIn(g, f))]
              paths == Prop("x_car_paths", ColumnsOf(stored, g, {"file_path", "image_path", "module_path"}))
              signers == Prop("x_car_signers", ColumnsOf(stored, g, {"signer"}))
              props == of ++ paths ++ signers
              alt == UNION {{<< f, v >> : v \in ValuesIn(g, f) \ {LeastHash(ValuesIn(g, f))}} : f \in held}
  <2>1. ContentFile(stored, g) = [val |-> Given(props), alt |-> alt]
    BY DEF ContentFile
  <2>2. held \cap (RefProps \cup RefLists) = {}
    BY DEF HashColumns, ToSet, RefProps, RefLists
  <2>3. DOMAIN props = held \cup {"x_car_paths", "x_car_signers"}
    <3>1. DOMAIN of = held /\ DOMAIN paths = {"x_car_paths"} /\ DOMAIN signers = {"x_car_signers"}
      BY OfOne
    <3>. HIDE DEF held, of, paths, signers
    <3>. QED  BY <3>1 DEF ++
  <2>4. DOMAIN props \cap (RefProps \cup RefLists) = {}
    BY <2>2, <2>3 DEF RefProps, RefLists
  <2>5. \A d \in alt : d[1] \in held
    OBVIOUS
  <2>. HIDE DEF props, alt, held
  <2>. QED  BY <1>2, <2>1, <2>2, <2>4, <2>5
<1>4. ASSUME NEW n
      PROVE  RefsOf(ContentUser(stored, n)) = {}
  <2>. DEFINE of    == {i \in DOMAIN stored : n \in NodesOf(stored[i])}
              known == {i \in of : Peek(stored[i], "user") # Blank}
              a == Prop("user_id", n[2])
              b == Prop("x_car_logins", {Peek(stored[i], "user") : i \in known})
              c == Prop("display_name", IF known = {} THEN Blank ELSE Peek(stored[Min(known)], "user"))
              d == Prop("x_car_hosts", {Peek(stored[i], "hostname") : i \in of} \ {Blank})
              props == a ++ b ++ c ++ d
  <2>1. ContentUser(stored, n) = [val |-> Given(props), alt |-> {}]
    BY DEF ContentUser
  <2>2. DOMAIN a = {"user_id"} /\ DOMAIN b = {"x_car_logins"} /\ DOMAIN c = {"display_name"} /\ DOMAIN d = {"x_car_hosts"}
    BY OfOne
  <2>. HIDE DEF a, b, c, d
  <2>3. DOMAIN props = {"user_id", "x_car_logins", "display_name", "x_car_hosts"}
    BY <2>2 DEF ++
  <2>4. DOMAIN props \cap (RefProps \cup RefLists) = {}
    BY <2>3 DEF RefProps, RefLists
  <2>. HIDE DEF props
  <2>. QED  BY <1>2, <2>1, <2>4
<1>5. \A g : IdIsSound(ContentId(g), {})
  <2>. TAKE g
  <2>1. \A f, v : IdIsSound(<< "file", f, v >>, {})
    BY DEF IdIsSound
  <2>. QED  BY <2>1 DEF ContentId
<1>6. \A v : IdIsSound(<< "user-account", v >>, {})
  BY TupleIds
<1>7. \A id \in DOMAIN byGroup : IdIsSound(id, {}) /\ RefsOf(byGroup[id]) = {}
  BY <1>3, <1>5
<1>8. \A id \in DOMAIN byUser : IdIsSound(id, {}) /\ RefsOf(byUser[id]) = {}
  BY <1>4, <1>6
<1>. HIDE DEF byGroup, byUser, os
<1>9. /\ DOMAIN os = DOMAIN byGroup \cup DOMAIN byUser
      /\ \A id \in DOMAIN os : os[id] = IF id \in DOMAIN byGroup THEN byGroup[id] ELSE byUser[id]
  BY <1>1 DEF ++
<1>10. RefsWithin(os, {}) /\ \A id \in DOMAIN os : IdIsSound(id, {})
  BY <1>7, <1>8, <1>9 DEF RefsWithin
<1>. QED  BY <1>10 DEF os

-----------------------------------------------------------------------------
(* The puts of a row, a node, an edge and a hit.                           *)

LEMMA ObservationRefs ==
  ASSUME NEW r, RowIsSound(r), NEW p, NEW refs
  PROVE  RefsGiven(Observation(r, p, refs)[2]) \subseteq p.refs \cup refs
<1>. DEFINE a == Prop("object_refs", p.refs \cup refs)
            b == Prop("x_car_event_id", r.guid)
            c == Prop("x_car_action", r.act)
            d == Prop("x_car_timestamp", r.ts)
            e == Prop("x_car_process_entity_id", IF r.owning # Blank THEN r.owning
                                                 ELSE IF r.obj = "process" THEN r.guid ELSE Blank)
            f == [col \in Leftovers(r, p.used) |-> r.cols[col]]
            D == p.refs \cup refs
<1>1. Observation(r, p, refs)[2] = a ++ b ++ c ++ d ++ e ++ f
  BY DEF Observation
<1>2. RefsGiven(a) \subseteq D
  BY RefsOfProp DEF RefLists
<1>3. /\ RefsGiven(b) \subseteq D /\ RefsGiven(c) \subseteq D /\ RefsGiven(d) \subseteq D
      /\ RefsGiven(e) \subseteq D
  BY RefsOfProp DEF RefProps, RefLists
<1>4. DOMAIN f \cap (RefProps \cup RefLists) = {}
  <2>1. DOMAIN r.cols \cap (RefProps \cup RefLists) = {}
    BY RefsAreNoLists DEF RowIsSound
  <2>. QED  BY <2>1 DEF Leftovers
<1>. HIDE DEF a, b, c, d, e, f, D
<1>5. RefsGiven(f) \subseteq D
  BY <1>4, RefsOfNone
<1>6. RefsGiven(a ++ b ++ c ++ d ++ e ++ f) \subseteq D
  BY <1>2, <1>3, <1>5, RefsOfBoth
<1>. QED  BY <1>1, <1>6 DEF D

LEMMA RowPutsFacts ==
  ASSUME NEW r, NEW p, NEW refs, IsList(p.puts)
  PROVE  LET puts == RowPuts(r, p, refs)
         IN  /\ IsList(puts)
             /\ ToSet(puts) = ToSet(p.puts) \cup (IF Seen(r) THEN {Observation(r, p, refs)} ELSE {})
             /\ PutsId(puts) = PutsId(p.puts) \cup (IF Seen(r) THEN {ObservationId(r)} ELSE {})
<1>. DEFINE o == Observation(r, p, refs)
            last == IF Seen(r) THEN << o >> ELSE << >>
            puts == RowPuts(r, p, refs)
<1>1. IsList(last) /\ ToSet(last) = IF Seen(r) THEN {o} ELSE {}
  <2>1. ToSet(<< o >>) = {o} /\ ToSet(<< >>) = {}
    BY DEF ToSet
  <2>. QED  BY <2>1, ListSingle, ListEmpty
<1>2. o[1] = ObservationId(r)
  BY DEF Observation
<1>3. puts = p.puts \o last
  BY DEF RowPuts
<1>. HIDE DEF last, puts, o
<1>4. IsList(puts) /\ ToSet(puts) = ToSet(p.puts) \cup ToSet(last)
  BY <1>1, <1>3, ListConcat, ConcatMembers
<1>5. PutsId(puts) = PutsId(p.puts) \cup (IF Seen(r) THEN {ObservationId(r)} ELSE {})
  BY <1>1, <1>2, <1>4 DEF PutsId
<1>. QED  BY <1>1, <1>4, <1>5 DEF puts, o

\* A row refers to what it makes and to its content.
LEMMA RowPutsRefs ==
  ASSUME NEW r, RowIsSound(r), NEW ref, NEW refs,
         NEW x \in ToSet(RowPuts(r, Parts(r, ref), refs))
  PROVE  RefsGiven(x[2]) \subseteq Some(ref) \cup refs \cup PutsId(Parts(r, ref).puts)
<1>. DEFINE p == Parts(r, ref)
<1>1. Sound(p, Some(ref), RowProcs(r))
  BY PartsSound DEF RowIsSound
<1>. HIDE DEF p
<1>2. IsList(p.puts) /\ p.refs \subseteq PutsId(p.puts)
  BY <1>1 DEF Sound
<1>3. ToSet(RowPuts(r, p, refs)) = ToSet(p.puts) \cup (IF Seen(r) THEN {Observation(r, p, refs)} ELSE {})
  BY <1>2, RowPutsFacts
<1>4. CASE x \in ToSet(p.puts)
  BY <1>1, <1>4 DEF Sound, p
<1>5. CASE x = Observation(r, p, refs)
  BY <1>2, <1>5, ObservationRefs DEF p
<1>6. x \in ToSet(p.puts) \/ x = Observation(r, p, refs)
  BY <1>3 DEF p
<1>. QED  BY <1>4, <1>5, <1>6

LEMMA NodeRefs ==
  ASSUME NEW host, NEW guid, NEW corr
  PROVE  RefsGiven(InferredNode(host, guid, corr)[2]) \subseteq UNION {ObservedAt(<< host, g >>) : g \in corr}
<1>. DEFINE D == UNION {ObservedAt(<< host, g >>) : g \in corr}
            a == Prop("x_car_node_id", guid)
            b == Prop("x_car_corroborated_by", corr)
            c == Prop("corroborating_refs", D)
<1>1. InferredNode(host, guid, corr)[2] = a ++ b ++ c
  BY DEF InferredNode
<1>. HIDE DEF D
<1>2. RefsGiven(a) \subseteq D /\ RefsGiven(b) \subseteq D /\ RefsGiven(c) \subseteq D
  BY RefsOfProp DEF RefProps, RefLists
<1>. HIDE DEF a, b, c
<1>. QED  BY <1>1, <1>2, RefsOfBoth DEF D

LEMMA DrawingRefs ==
  ASSUME NEW id, NEW s, NEW t, NEW e
  PROVE  RefsGiven(Drawing(id, s, t, e)[2]) \subseteq Some(s) \cup Some(t)
<1>. DEFINE D == Some(s) \cup Some(t)
            a == Prop("source_ref", s)
            b == Prop("target_ref", t)
            c == Prop("x_car_inferred_end", e.inferred)
            d == Prop("x_car_corroborated_by", e.corr)
<1>1. Drawing(id, s, t, e)[2] = a ++ b ++ c ++ d
  BY DEF Drawing
<1>2. RefsGiven(a) \subseteq D /\ RefsGiven(b) \subseteq D /\ RefsGiven(c) \subseteq D /\ RefsGiven(d) \subseteq D
  BY RefsOfProp DEF RefProps, RefLists
<1>. HIDE DEF a, b, c, d, D
<1>. QED  BY <1>1, <1>2, RefsOfBoth DEF D

\* An indicator is put before what refers to it, its techniques too.
LEMMA IndicatorFacts ==
  ASSUME NEW a \in DOMAIN Analytics
  PROVE  LET puts == IndicatorPuts(a)
         IN  /\ IsList(puts) /\ << "indicator", a >> \in PutsId(puts)
             /\ \A x \in ToSet(puts) : RefsGiven(x[2]) \subseteq PutsId(puts)
             /\ \A id \in PutsId(puts) : IdIsSound(id, {}) \/ (id[1] = "relationship" /\ Len(id) = 4)
<1>. DEFINE ts == Analytics[a]
            ind == << "indicator", a >>
            Ap(t) == << "attack-pattern", t >>
            Named0(t) == << Ap(t), Prop("name", t) >>
            Rel(t) == << << "relationship", "indicates", ind, Ap(t) >>,
                         Prop("source_ref", ind) ++ Prop("target_ref", Ap(t)) >>
            ss == [i \in DOMAIN ts |-> << Named0(ts[i]), Rel(ts[i]) >>]
            first == << ind, Prop("x_car_analytic", a) >>
            puts == IndicatorPuts(a)
<1>1. puts = << first >> \o FlattenSeq(ss)
  BY DEF IndicatorPuts
<1>2. IsList(ts)
  BY StoresAssumption DEF Listed, IsList
<1>3. IsList(ss) /\ DOMAIN ss = DOMAIN ts
  BY <1>2, ListMapped
<1>4. AllLists(ss) /\ \A i \in DOMAIN ts : ToSet(ss[i]) = {Named0(ts[i]), Rel(ts[i])}
  <2>1. \A x, y : IsList(<< x, y >>) /\ ToSet(<< x, y >>) = {x, y}
    BY DEF IsList, ToSet
  <2>. HIDE DEF Named0, Rel
  <2>. QED  BY <2>1, <1>3 DEF AllLists
<1>5. RefsGiven(first[2]) = {} /\ \A t : RefsGiven(Named0(t)[2]) = {}
  BY RefsOfProp DEF RefProps, RefLists
<1>6. \A t : RefsGiven(Rel(t)[2]) \subseteq {ind, Ap(t)}
  <2>. TAKE t
  <2>1. /\ RefsGiven(Prop("source_ref", ind)) \subseteq {ind, Ap(t)}
        /\ RefsGiven(Prop("target_ref", Ap(t))) \subseteq {ind, Ap(t)}
    BY RefsOfProp DEF RefProps, Some
  <2>2. RefsGiven(Prop("source_ref", ind) ++ Prop("target_ref", Ap(t))) \subseteq {ind, Ap(t)}
    BY <2>1, RefsOfBoth
  <2>. QED  BY <2>2
<1>7. /\ first[1] = ind /\ ind[1] = "indicator" /\ Len(ind) = 2
      /\ \A t : Named0(t)[1] = Ap(t) /\ Ap(t)[1] = "attack-pattern" /\ Len(Ap(t)) = 2
      /\ \A t : Rel(t)[1][1] = "relationship" /\ Len(Rel(t)[1]) = 4
  OBVIOUS
<1>. HIDE DEF ss, first, ind, Ap, Named0, Rel, puts
<1>8. IsList(FlattenSeq(ss)) /\ IsList(<< first >>) /\ ToSet(<< first >>) = {first}
  <2>1. ToSet(<< first >>) = {first}
    BY DEF ToSet
  <2>. QED  BY <1>3, <1>4, <2>1, FlattenList, ListSingle
<1>9. IsList(puts) /\ ToSet(puts) = {first} \cup ToSet(FlattenSeq(ss))
  BY <1>1, <1>8, ListConcat, ConcatMembers
<1>10. \A x \in ToSet(puts) : x = first \/ \E i \in DOMAIN ts : x \in {Named0(ts[i]), Rel(ts[i])}
  BY <1>3, <1>4, <1>9, FlattenMembers
<1>11. first \in ToSet(puts) /\ \A i \in DOMAIN ts : Named0(ts[i]) \in ToSet(puts)
  BY <1>3, <1>4, <1>9, FlattenHas
<1>12. ind \in PutsId(puts) /\ \A i \in DOMAIN ts : Ap(ts[i]) \in PutsId(puts)
  BY <1>7, <1>11 DEF PutsId
<1>13. \A x \in ToSet(puts) : RefsGiven(x[2]) \subseteq PutsId(puts)
  BY <1>5, <1>6, <1>10, <1>12
<1>14. \A x \in ToSet(puts) : IdIsSound(x[1], {}) \/ (x[1][1] = "relationship" /\ Len(x[1]) = 4)
  <2>1. IdIsSound(first[1], {}) /\ \A t : IdIsSound(Named0(t)[1], {})
    BY <1>7 DEF IdIsSound
  <2>. QED  BY <1>7, <1>10, <2>1
<1>15. \A id \in PutsId(puts) : IdIsSound(id, {}) \/ (id[1] = "relationship" /\ Len(id) = 4)
  BY <1>14 DEF PutsId
<1>. QED  BY <1>9, <1>12, <1>13, <1>15 DEF puts, ind

LEMMA SightingFacts ==
  ASSUME NEW h, h.analytic \in DOMAIN Analytics
  PROVE  LET puts == IndicatorPuts(h.analytic) \o Sighting(h)
             key == << h.host, h.obj, h.guid >>
         IN  /\ IsList(puts)
             /\ \A x \in ToSet(puts) : RefsGiven(x[2]) \subseteq PutsId(puts) \cup (IF key \in DOMAIN obs THEN {obs[key]} ELSE {})
             /\ \A id \in PutsId(puts) : IdIsSound(id, {}) \/ (id[1] = "relationship" /\ Len(id) = 4)
<1>. DEFINE ind == IndicatorPuts(h.analytic)
            host == << "identity", h.host >>
            key == << h.host, h.obj, h.guid >>
            seen == IF key \in DOMAIN obs THEN {obs[key]} ELSE {}
            of == << "indicator", h.analytic >>
            who == << host, Prop("name", h.host) >>
            props == Prop("sighting_of_ref", of) ++ Prop("where_sighted_ref", host)
                     ++ Prop("x_car_action", h.act) ++ Prop("x_car_timestamp", h.ts)
                     ++ Prop("observed_data_refs", seen)
            what == << << "sighting", h.analytic, h.guid, h.ts, h.clause >>, props >>
            puts == ind \o Sighting(h)
            D == PutsId(puts) \cup seen
<1>1. /\ IsList(ind) /\ of \in PutsId(ind)
      /\ \A x \in ToSet(ind) : RefsGiven(x[2]) \subseteq PutsId(ind)
      /\ \A id \in PutsId(ind) : IdIsSound(id, {}) \/ (id[1] = "relationship" /\ Len(id) = 4)
  BY IndicatorFacts
<1>2. Sighting(h) = << who, what >>
  BY DEF Sighting
<1>3. IsList(<< who, what >>) /\ ToSet(<< who, what >>) = {who, what}
  <2>. HIDE DEF who, what
  <2>. QED  BY DEF IsList, ToSet
<1>. HIDE DEF ind, who, what, puts
<1>4. IsList(puts) /\ ToSet(puts) = ToSet(ind) \cup {who, what}
  <2>1. puts = ind \o << who, what >>
    BY <1>2 DEF puts
  <2>. DEFINE last == << who, what >>
  <2>2. IsList(last) /\ ToSet(last) = {who, what}
    BY <1>3
  <2>. HIDE DEF last
  <2>3. puts = ind \o last
    BY <2>1 DEF last
  <2>4. IsList(ind \o last) /\ ToSet(ind \o last) = ToSet(ind) \cup ToSet(last)
    BY <1>1, <2>2, ListConcat, ConcatMembers
  <2>. QED  BY <2>2, <2>3, <2>4
<1>5. PutsId(puts) = PutsId(ind) \cup {who[1], what[1]}
  BY <1>4 DEF PutsId
<1>6. who[1] = host /\ what[1][1] = "sighting" /\ Len(what[1]) = 5 /\ what[2] = props
  BY DEF who, what
<1>7. RefsGiven(who[2]) = {}
  BY RefsOfProp DEF who, RefProps, RefLists
<1>8. RefsGiven(props) \subseteq D
  <2>1. Some(of) \subseteq D /\ Some(host) \subseteq D /\ seen \subseteq D
    BY <1>1, <1>5, <1>6 DEF Some
  <2>. HIDE DEF D, of, host, seen
  <2>2. RefsGiven(Prop("sighting_of_ref", of)) \subseteq D /\ RefsGiven(Prop("where_sighted_ref", host)) \subseteq D
    BY <2>1, RefsOfProp DEF RefProps
  <2>3. RefsGiven(Prop("x_car_action", h.act)) \subseteq D /\ RefsGiven(Prop("x_car_timestamp", h.ts)) \subseteq D
    BY RefsOfProp DEF RefProps, RefLists
  <2>4. RefsGiven(Prop("observed_data_refs", seen)) \subseteq D
    BY <2>1, RefsOfProp DEF RefLists
  <2>. QED  BY <2>2, <2>3, <2>4, RefsOfBoth
<1>. HIDE DEF props
<1>9. \A x \in ToSet(puts) : RefsGiven(x[2]) \subseteq D
  BY <1>1, <1>4, <1>5, <1>6, <1>7, <1>8
<1>10. \A id \in PutsId(puts) : IdIsSound(id, {}) \/ (id[1] = "relationship" /\ Len(id) = 4)
  <2>1. \A id \in PutsId(ind) : IdIsSound(id, {}) \/ (id[1] = "relationship" /\ Len(id) = 4)
    BY <1>1
  <2>2. IdIsSound(host, {})
    BY TupleIds
  <2>3. IdIsSound(what[1], {})
    BY <1>6 DEF IdIsSound
  <2>. QED  BY <1>5, <1>6, <2>1, <2>2, <2>3
<1>. QED  BY <1>4, <1>9, <1>10 DEF puts, ind

-----------------------------------------------------------------------------
(* Where the pass is.                                                      *)

\* Where the pass is, and what the content pass left for the others.
Place ==
  /\ car \in Stores
  /\ phase \in DOMAIN NextPhase \cup {"content", "done"} /\ at \in Nat
  /\ phase \in DOMAIN NextPhase => at <= Len(Inputs)
  /\ phase = "content" =>
       /\ at = 0 /\ objs = << >> /\ primary = << >> /\ obs = << >> /\ obsOf = << >> /\ unresolved = 0
  /\ phase # "content" =>
       contentOf = ContentNodes(car.rows) /\ DOMAIN ContentObjects(car.rows) \subseteq DOMAIN objs

LEMMA StoreFacts ==
  ASSUME NEW s \in Stores
  PROVE  /\ IsList(s.rows) /\ IsList(s.nodes) /\ IsList(s.edges) /\ IsList(s.hits)
         /\ \A r \in ToSet(s.rows) : RowIsSound(r)
         /\ \A e \in ToSet(s.edges) : Blank \notin {InferredId(e.host, e.src), InferredId(e.host, e.tgt)}
  BY StoresAssumption DEF Listed, IsList

LEMMA ListHas ==
  ASSUME NEW s, IsList(s), NEW n \in Nat, n < Len(s)
  PROVE  n + 1 \in 1 .. Len(s) /\ s[n + 1] \in ToSet(s)
<1>1. Len(s) \in Nat /\ DOMAIN s = 1 .. Len(s)
  BY ListLen
<1>2. n + 1 \in 1 .. Len(s)
  BY <1>1
<1>. QED  BY <1>1, <1>2 DEF ToSet

LEMMA Phases ==
  /\ DOMAIN NextPhase = {"rows", "nodes", "edges", "hits"}
  /\ NextPhase["rows"] = "nodes" /\ NextPhase["nodes"] = "edges"
  /\ NextPhase["edges"] = "hits" /\ NextPhase["hits"] = "done"
  BY DEF NextPhase

LEMMA FlaggedFacts ==
  ASSUME NEW os, NEW e
  PROVE  LET guid == IF e.inferred = "source" THEN e.src ELSE e.tgt
         IN  /\ \/ Flagged(os, e) = os
                \/ Flagged(os, e) = Put(os, InferredNode(e.host, guid, e.corr))
             /\ DOMAIN os \subseteq DOMAIN Flagged(os, e)
             /\ e.inferred # "none" => InferredId(e.host, guid) \in DOMAIN Flagged(os, e)
<1>. DEFINE guid == IF e.inferred = "source" THEN e.src ELSE e.tgt
            put == InferredNode(e.host, guid, e.corr)
<1>1. put[1] = InferredId(e.host, guid)
  BY DEF InferredNode
<1>2. Flagged(os, e) = IF e.inferred = "none" \/ InferredId(e.host, guid) \in DOMAIN os THEN os ELSE Put(os, put)
  BY DEF Flagged
<1>. HIDE DEF put, guid
<1>3. DOMAIN Put(os, put) = DOMAIN os \cup {put[1]}
  BY PutFacts
<1>. QED  BY <1>1, <1>2, <1>3 DEF put, guid

\* No step takes an object away.
LEMMA ObjectsStay ==
  ASSUME Place, Next, phase # "content"
  PROVE  DOMAIN objs \subseteq DOMAIN objs' /\ car' = car /\ contentOf' = contentOf
<1>. USE DEF Place
<1>1. CASE Content
  BY <1>1 DEF Content
<1>2. CASE Row
  <2>1. PICK r \in {car.rows[at + 1]}, p \in {Made(car.rows[at + 1])} :
          objs' = PutAll(objs, RowPuts(r, p, ContentRefs(contentOf, car.rows, r)))
    BY <1>2 DEF Row
  <2>2. r \in ToSet(car.rows)
    BY <1>2, <2>1, StoreFacts, ListHas DEF Row
  <2>3. r.obj \in Objects
    BY <2>2, StoreFacts DEF RowIsSound
  <2>4. IsList(p.puts)
    BY <2>1, <2>3, PartsSound DEF Made, Sound
  <2>. DEFINE puts == RowPuts(r, p, ContentRefs(contentOf, car.rows, r))
  <2>5. IsList(puts)
    BY <2>4, RowPutsFacts
  <2>. HIDE DEF puts
  <2>6. DOMAIN PutAll(objs, puts) = DOMAIN objs \cup PutsId(puts)
    BY <2>5, PutAllFacts
  <2>7. objs' = PutAll(objs, puts) /\ car' = car /\ contentOf' = contentOf
    BY <1>2, <2>1 DEF Row, puts
  <2>. QED  BY <2>6, <2>7
<1>3. CASE Node
  <2>. DEFINE n == car.nodes[at + 1]
              put == InferredNode(n.host, n.guid, n.corr)
  <2>1. objs' = Put(objs, put) /\ car' = car /\ contentOf' = contentOf
    BY <1>3 DEF Node
  <2>. HIDE DEF put
  <2>2. DOMAIN Put(objs, put) = DOMAIN objs \cup {put[1]}
    BY PutFacts
  <2>. QED  BY <2>1, <2>2
<1>4. CASE Edge
  <2>. DEFINE e == car.edges[at + 1]
              s == SourceOf(e)
              t == TargetOf(e)
              put == Drawing(<< "relationship", e.class, e.verb, s, t, e.ts, e.method >>, s, t, e)
              f == Flagged(objs, e)
  <2>1. (objs' = f \/ objs' = Put(f, put)) /\ car' = car /\ contentOf' = contentOf
    BY <1>4 DEF Edge
  <2>2. DOMAIN objs \subseteq DOMAIN f
    BY FlaggedFacts
  <2>. HIDE DEF put, f
  <2>3. DOMAIN Put(f, put) = DOMAIN f \cup {put[1]}
    BY PutFacts
  <2>. QED  BY <2>1, <2>2, <2>3
<1>5. CASE Hit
  <2>. DEFINE h == car.hits[at + 1]
              puts == IndicatorPuts(h.analytic) \o Sighting(h)
  <2>1. /\ objs' = IF h.analytic \notin DOMAIN Analytics THEN objs ELSE PutAll(objs, puts)
        /\ car' = car /\ contentOf' = contentOf
    BY <1>5 DEF Hit
  <2>2. h.analytic \in DOMAIN Analytics => IsList(puts)
    BY SightingFacts
  <2>. HIDE DEF puts, h
  <2>3. IsList(puts) => DOMAIN PutAll(objs, puts) = DOMAIN objs \cup PutsId(puts)
    BY PutAllFacts
  <2>. QED  BY <2>1, <2>2, <2>3
<1>6. CASE Advance
  BY <1>6 DEF Advance
<1>. QED  BY <1>1, <1>2, <1>3, <1>4, <1>5, <1>6 DEF Next

LEMMA PlaceInit == Init => Place
  BY Phases DEF Init, Place

LEMMA PlaceNext ==
  ASSUME Place, [Next]_vars
  PROVE  Place'
<1>. USE DEF Place
<1>0. /\ IsList(car.rows) /\ IsList(car.nodes) /\ IsList(car.edges) /\ IsList(car.hits)
      /\ Len(car.rows) \in Nat /\ Len(car.nodes) \in Nat /\ Len(car.edges) \in Nat /\ Len(car.hits) \in Nat
  BY StoreFacts, ListLen
<1>1. CASE UNCHANGED vars
  BY <1>1 DEF vars, Inputs
<1>2. CASE Content
  <2>1. /\ car' = car /\ phase' = "rows" /\ at' = 0
        /\ contentOf' = ContentNodes(car.rows) /\ objs' = ContentObjects(car.rows)
    BY <1>2 DEF Content
  <2>2. Inputs' = car.rows
    BY <2>1 DEF Inputs
  <2>. QED  BY <1>0, <2>1, <2>2, Phases
<1>3. ASSUME Row \/ Node \/ Edge \/ Hit
      PROVE  Place'
  <2>1. /\ phase \in DOMAIN NextPhase /\ phase' = phase /\ at' = at + 1 /\ at < Len(Inputs) /\ Len(Inputs) \in Nat
        /\ car' = car
    BY <1>0, <1>3, Phases DEF Row, Node, Edge, Hit, Inputs
  <2>2. Inputs' = Inputs
    BY <2>1 DEF Inputs
  <2>3. phase # "content"
    BY <2>1, Phases
  <2>4. DOMAIN objs \subseteq DOMAIN objs' /\ contentOf' = contentOf
    BY <1>3, <2>3, ObjectsStay DEF Next
  <2>. QED  BY <2>1, <2>2, <2>3, <2>4
<1>4. CASE Advance
  <2>1. /\ phase \in DOMAIN NextPhase /\ phase' = NextPhase[phase] /\ at' = 0 /\ car' = car
        /\ objs' = objs /\ contentOf' = contentOf
    BY <1>4 DEF Advance
  <2>2. Len(Inputs') \in Nat
    BY <1>0, <2>1 DEF Inputs
  <2>3. phase # "content" /\ phase' # "content" /\ phase' \in DOMAIN NextPhase \cup {"done"}
    BY <2>1, Phases
  <2>. QED  BY <2>1, <2>2, <2>3
<1>. QED  BY <1>1, <1>2, <1>3, <1>4 DEF Next

\* The pass is always at a place of the phase it is in, never past its inputs, and
\* the content is the one of the store's rows (project, Projection.content).
THEOREM PassKeepsItsPlace == Spec => []Place
<1>1. Place /\ [Next]_vars => Place'
  BY PlaceNext
<1>. QED  BY <1>1, PlaceInit, PTL DEF Spec

-----------------------------------------------------------------------------
(* Every reference resolves.                                               *)

RefsIInv ==
  /\ Place
  /\ RefsWithin(objs, DOMAIN objs)
  /\ \A k \in DOMAIN primary : primary[k] \in DOMAIN objs \cup {Blank}
  /\ \A k \in DOMAIN obs : obs[k] \in DOMAIN objs
  /\ \A k \in DOMAIN obsOf : obsOf[k] \subseteq DOMAIN objs

LEMMA RefsMore ==
  ASSUME NEW os, NEW D, NEW E, D \subseteq E, RefsWithin(os, D)
  PROVE  RefsWithin(os, E)
  BY DEF RefsWithin

\* What an end of an edge names is there, or is the node its edge flags.
LEMMA EndsAreThere ==
  ASSUME RefsIInv, NEW e
  PROVE  /\ \/ SourceOf(e) = Blank \/ SourceOf(e) \in DOMAIN objs
            \/ e.inferred = "source" /\ SourceOf(e) = InferredId(e.host, e.src)
         /\ \/ TargetOf(e) = Blank \/ TargetOf(e) \in DOMAIN objs
            \/ e.inferred = "target" /\ TargetOf(e) = InferredId(e.host, e.tgt)
  BY DEF RefsIInv, EndOf, SourceOf, TargetOf

LEMMA ObservedAreThere ==
  ASSUME RefsIInv, NEW host, NEW corr
  PROVE  (UNION {ObservedAt(<< host, g >>) : g \in corr}) \subseteq DOMAIN objs
  BY DEF RefsIInv, ObservedAt

LEMMA PutKeepsRefs ==
  ASSUME NEW os, NEW put, RefsWithin(os, DOMAIN os), RefsGiven(put[2]) \subseteq DOMAIN os \cup {put[1]}
  PROVE  RefsWithin(Put(os, put), DOMAIN Put(os, put))
<1>. DEFINE q == Put(os, put)
            D == DOMAIN os \cup {put[1]}
<1>1. DOMAIN q = D
  BY PutFacts
<1>2. RefsWithin(os, D)
  BY RefsMore
<1>3. RefsWithin(os, D) /\ RefsGiven(put[2]) \subseteq D => RefsWithin(q, D)
  <2>. HIDE DEF D
  <2>. QED  BY PutFacts
<1>. HIDE DEF q
<1>. QED  BY <1>1, <1>2, <1>3 DEF q

LEMMA PutAllKeepsRefs ==
  ASSUME NEW os, NEW puts, IsList(puts), RefsWithin(os, DOMAIN os),
         \A x \in ToSet(puts) : RefsGiven(x[2]) \subseteq DOMAIN os \cup PutsId(puts)
  PROVE  RefsWithin(PutAll(os, puts), DOMAIN PutAll(os, puts))
<1>. DEFINE q == PutAll(os, puts)
            D == DOMAIN os \cup PutsId(puts)
<1>1. DOMAIN q = D
  BY PutAllFacts
<1>2. RefsWithin(os, D)
  BY RefsMore
<1>3. RefsWithin(os, D) /\ (\A x \in ToSet(puts) : RefsGiven(x[2]) \subseteq D) => RefsWithin(q, D)
  <2>. HIDE DEF D
  <2>. QED  BY PutAllFacts
<1>. HIDE DEF q
<1>. QED  BY <1>1, <1>2, <1>3 DEF q

LEMMA ContentKeepsRefs ==
  ASSUME RefsIInv, Content
  PROVE  RefsWithin(objs, DOMAIN objs)' /\ primary' = << >> /\ obs' = << >> /\ obsOf' = << >>
<1>1. objs' = ContentObjects(car.rows) /\ primary' = << >> /\ obs' = << >> /\ obsOf' = << >>
  BY DEF RefsIInv, Place, Content
<1>2. RefsWithin(ContentObjects(car.rows), DOMAIN ContentObjects(car.rows))
  BY ContentRefersToNothing, RefsMore
<1>. QED  BY <1>1, <1>2

\* The row that comes next, and what it makes.
LEMMA RowFacts ==
  ASSUME Place, Row
  PROVE  /\ at + 1 \in 1 .. Len(car.rows) /\ car.rows[at + 1] \in ToSet(car.rows)
         /\ RowIsSound(car.rows[at + 1]) /\ car.rows[at + 1].obj \in Objects
         /\ contentOf = ContentNodes(car.rows) /\ IsList(car.rows)
         /\ objs' = PutAll(objs, Offers(car.rows[at + 1]))
         /\ IsList(Offers(car.rows[at + 1]))
         /\ Sound(Made(car.rows[at + 1]), DOMAIN objs, RowProcs(car.rows[at + 1]))
         /\ Some(Bound(contentOf, car.rows[at + 1])) \subseteq DOMAIN objs
         /\ ContentRefs(contentOf, car.rows, car.rows[at + 1]) \subseteq DOMAIN objs
<1>. DEFINE r == car.rows[at + 1]
<1>1. /\ IsList(car.rows) /\ at \in Nat /\ at < Len(car.rows) /\ contentOf = ContentNodes(car.rows)
      /\ DOMAIN ContentObjects(car.rows) \subseteq DOMAIN objs
  BY StoreFacts DEF Place, Row
<1>2. at + 1 \in 1 .. Len(car.rows) /\ r \in ToSet(car.rows)
  BY <1>1, ListHas
<1>3. RowIsSound(r) /\ r.obj \in Objects
  BY <1>2, StoreFacts DEF Place, RowIsSound
<1>4. objs' = PutAll(objs, Offers(r))
  BY DEF Row, Offers
<1>5. /\ Some(Bound(contentOf, r)) \subseteq DOMAIN objs
      /\ ContentRefs(contentOf, car.rows, r) \subseteq DOMAIN objs
  BY <1>1, <1>2, BoundIsContent
<1>. HIDE DEF r
<1>6. Sound(Made(r), DOMAIN objs, RowProcs(r))
  <2>1. Sound(Made(r), Some(Bound(contentOf, r)), RowProcs(r))
    BY <1>3, PartsSound DEF Made
  <2>. QED  BY <1>5, <2>1, SoundMore
<1>7. IsList(Offers(r))
  BY <1>6, RowPutsFacts DEF Offers, Sound
<1>. QED  BY <1>1, <1>2, <1>3, <1>4, <1>5, <1>6, <1>7 DEF r

\* The indexes after a row.
LEMMA RowIndexes ==
  ASSUME Row, NEW r, r = car.rows[at + 1]
  PROVE  /\ primary' = primary ++ Processes(Made(r).puts) ++ (IF r.guid = Blank THEN << >> ELSE Prop(RowKey(r), Made(r).id))
         /\ obs' = IF Seen(r) THEN Prop(RowKey(r), ObservationId(r)) ++ obs ELSE obs
         /\ obsOf' = IF ~Seen(r) THEN obsOf
                     ELSE Prop(<< r.host, r.guid >>, ObservedAt(<< r.host, r.guid >>) \cup {ObservationId(r)}) ++ obsOf
  BY DEF Row

LEMMA RowKeepsRefs ==
  ASSUME RefsIInv, Row
  PROVE  /\ RefsWithin(objs, DOMAIN objs)'
         /\ (\A k \in DOMAIN primary : primary[k] \in DOMAIN objs \cup {Blank})'
         /\ (\A k \in DOMAIN obs : obs[k] \in DOMAIN objs)'
         /\ (\A k \in DOMAIN obsOf : obsOf[k] \subseteq DOMAIN objs)'
<1>. DEFINE r == car.rows[at + 1]
            puts == Offers(r)
            p == Made(r)
            refs == ContentRefs(contentOf, car.rows, r)
<1>1. /\ objs' = PutAll(objs, puts) /\ IsList(puts) /\ RowIsSound(r)
      /\ Sound(p, DOMAIN objs, RowProcs(r))
      /\ Some(Bound(contentOf, r)) \subseteq DOMAIN objs /\ refs \subseteq DOMAIN objs
  BY RowFacts DEF RefsIInv
<1>2. /\ ToSet(puts) = ToSet(p.puts) \cup (IF Seen(r) THEN {Observation(r, p, refs)} ELSE {})
      /\ PutsId(puts) = PutsId(p.puts) \cup (IF Seen(r) THEN {ObservationId(r)} ELSE {})
  BY <1>1, RowPutsFacts DEF Offers, Sound
<1>3. \A x \in ToSet(puts) : RefsGiven(x[2]) \subseteq Some(Bound(contentOf, r)) \cup refs \cup PutsId(p.puts)
  BY <1>1, RowPutsRefs DEF Made, Offers
<1>4. /\ primary' = primary ++ Processes(p.puts) ++ (IF r.guid = Blank THEN << >> ELSE Prop(RowKey(r), p.id))
      /\ obs' = IF Seen(r) THEN Prop(RowKey(r), ObservationId(r)) ++ obs ELSE obs
      /\ obsOf' = IF ~Seen(r) THEN obsOf
                  ELSE Prop(<< r.host, r.guid >>, ObservedAt(<< r.host, r.guid >>) \cup {ObservationId(r)}) ++ obsOf
  BY RowIndexes
<1>. HIDE DEF r, puts, p, refs
<1>5. DOMAIN objs' = DOMAIN objs \cup PutsId(puts)
  BY <1>1, PutAllFacts
<1>6. RefsWithin(objs, DOMAIN objs)'
  <2>1. \A x \in ToSet(puts) : RefsGiven(x[2]) \subseteq DOMAIN objs \cup PutsId(puts)
    BY <1>1, <1>2, <1>3
  <2>2. RefsWithin(objs, DOMAIN objs)
    BY DEF RefsIInv
  <2>. QED  BY <1>1, <2>1, <2>2, PutAllKeepsRefs
<1>7. \A k \in DOMAIN primary' : primary'[k] \in DOMAIN objs' \cup {Blank}
  <2>. DEFINE named == Processes(p.puts)
              own == IF r.guid = Blank THEN << >> ELSE Prop(RowKey(r), p.id)
  <2>1. \A k \in DOMAIN named : named[k] \in PutsId(p.puts)
    <3>1. \A k \in DOMAIN named : \E put \in ToSet(p.puts) :
            put[1][1] = "process" /\ Len(put[1]) = 3 /\ k = << put[1][2], "process", put[1][3] >> /\ named[k] = << "process", k[1], k[3] >>
      BY DEF Processes
    <3>2. \A put \in ToSet(p.puts) : put[1][1] = "process" /\ Len(put[1]) = 3 =>
            put[1] = << "process", put[1][2], put[1][3] >>
      <4>1. \A put \in ToSet(p.puts) : put[1] \in PutsId(p.puts)
        BY DEF PutsId
      <4>2. \A id \in PutsId(p.puts) : id[1] = "process" /\ Len(id) = 3 => id \in RowProcs(r)
        BY <1>1 DEF Sound, IdIsSound
      <4>3. \A id \in RowProcs(r) : id = << "process", id[2], id[3] >>
        BY DEF RowProcs
      <4>. QED  BY <4>1, <4>2, <4>3
    <3>. QED  BY <3>1, <3>2 DEF PutsId
  <2>2. \A k \in DOMAIN own : own[k] = p.id
    BY DEF Prop
  <2>3. p.id \in PutsId(p.puts) \cup {Blank}
    BY <1>1 DEF Sound
  <2>4. \A k \in DOMAIN primary : primary[k] \in DOMAIN objs \cup {Blank}
    BY DEF RefsIInv
  <2>. HIDE DEF named, own
  <2>5. primary' = primary ++ named ++ own
    BY <1>4 DEF named, own
  <2>. QED  BY <1>2, <1>5, <2>1, <2>2, <2>3, <2>4, <2>5 DEF ++
<1>8. \A k \in DOMAIN obs' : obs'[k] \in DOMAIN objs'
  <2>. DEFINE own == Prop(RowKey(r), ObservationId(r))
  <2>1. \A k \in DOMAIN own : own[k] = ObservationId(r)
    BY DEF Prop
  <2>2. \A k \in DOMAIN obs : obs[k] \in DOMAIN objs
    BY DEF RefsIInv
  <2>. HIDE DEF own
  <2>3. obs' = IF Seen(r) THEN own ++ obs ELSE obs
    BY <1>4 DEF own
  <2>. QED  BY <1>2, <1>5, <2>1, <2>2, <2>3 DEF ++
<1>9. \A k \in DOMAIN obsOf' : obsOf'[k] \subseteq DOMAIN objs'
  <2>. DEFINE key == << r.host, r.guid >>
              own == Prop(key, ObservedAt(key) \cup {ObservationId(r)})
  <2>1. \A k \in DOMAIN own : own[k] = ObservedAt(key) \cup {ObservationId(r)}
    BY DEF Prop
  <2>2. \A k \in DOMAIN obsOf : obsOf[k] \subseteq DOMAIN objs
    BY DEF RefsIInv
  <2>3. ObservedAt(key) \subseteq DOMAIN objs
    BY <2>2 DEF ObservedAt
  <2>4. obsOf' = IF ~Seen(r) THEN obsOf ELSE own ++ obsOf
    BY <1>4
  <2>. HIDE DEF own, key
  <2>. QED  BY <1>2, <1>5, <2>1, <2>2, <2>3, <2>4 DEF ++
<1>. QED  BY <1>6, <1>7, <1>8, <1>9

LEMMA NodeKeepsRefs ==
  ASSUME RefsIInv, Node
  PROVE  RefsWithin(objs, DOMAIN objs)'
<1>. DEFINE n == car.nodes[at + 1]
            put == InferredNode(n.host, n.guid, n.corr)
<1>1. objs' = Put(objs, put)
  BY DEF Node
<1>2. RefsGiven(put[2]) \subseteq DOMAIN objs
  BY NodeRefs, ObservedAreThere
<1>. HIDE DEF put
<1>. QED  BY <1>1, <1>2, PutKeepsRefs DEF RefsIInv

LEMMA EdgeKeepsRefs ==
  ASSUME RefsIInv, Edge
  PROVE  RefsWithin(objs, DOMAIN objs)'
<1>. DEFINE e == car.edges[at + 1]
            s == SourceOf(e)
            t == TargetOf(e)
            put == Drawing(<< "relationship", e.class, e.verb, s, t, e.ts, e.method >>, s, t, e)
            guid == IF e.inferred = "source" THEN e.src ELSE e.tgt
            node == InferredNode(e.host, guid, e.corr)
            f == Flagged(objs, e)
<1>1. IF s = Blank \/ t = Blank THEN objs' = f ELSE objs' = Put(f, put)
  BY DEF Edge
<1>2. (f = objs \/ f = Put(objs, node)) /\ DOMAIN objs \subseteq DOMAIN f
      /\ (e.inferred # "none" => InferredId(e.host, guid) \in DOMAIN f)
  BY FlaggedFacts
<1>3. RefsGiven(node[2]) \subseteq DOMAIN objs
  BY NodeRefs, ObservedAreThere
<1>4. s = Blank \/ s \in DOMAIN objs \/ (e.inferred = "source" /\ s = InferredId(e.host, e.src))
  BY EndsAreThere
<1>5. t = Blank \/ t \in DOMAIN objs \/ (e.inferred = "target" /\ t = InferredId(e.host, e.tgt))
  BY EndsAreThere
<1>6. RefsGiven(put[2]) \subseteq Some(s) \cup Some(t)
  BY DrawingRefs
<1>7. Some(s) \cup Some(t) \subseteq DOMAIN f
  <2>. HIDE DEF s, t, f, put, node
  <2>. QED  BY <1>2, <1>4, <1>5 DEF Some
<1>8. RefsWithin(f, DOMAIN f)
  <2>. HIDE DEF s, t, f, put, node
  <2>. QED  BY <1>2, <1>3, PutKeepsRefs DEF RefsIInv
<1>. HIDE DEF s, t, f, put
<1>. QED  BY <1>1, <1>6, <1>7, <1>8, PutKeepsRefs

LEMMA HitKeepsRefs ==
  ASSUME RefsIInv, Hit
  PROVE  RefsWithin(objs, DOMAIN objs)'
<1>. DEFINE h == car.hits[at + 1]
            puts == IndicatorPuts(h.analytic) \o Sighting(h)
            key == << h.host, h.obj, h.guid >>
            seen == IF key \in DOMAIN obs THEN {obs[key]} ELSE {}
<1>1. objs' = IF h.analytic \notin DOMAIN Analytics THEN objs ELSE PutAll(objs, puts)
  BY DEF Hit
<1>2. h.analytic \in DOMAIN Analytics =>
        IsList(puts) /\ \A x \in ToSet(puts) : RefsGiven(x[2]) \subseteq PutsId(puts) \cup seen
  BY SightingFacts
<1>3. seen \subseteq DOMAIN objs
  BY DEF RefsIInv
<1>. HIDE DEF puts, h, seen
<1>4. h.analytic \in DOMAIN Analytics => RefsWithin(PutAll(objs, puts), DOMAIN PutAll(objs, puts))
  BY <1>2, <1>3, PutAllKeepsRefs DEF RefsIInv
<1>. QED  BY <1>1, <1>4 DEF RefsIInv

LEMMA RefsIInvNext ==
  ASSUME RefsIInv, [Next]_vars
  PROVE  RefsIInv'
<1>1. Place'
  BY PlaceNext DEF RefsIInv
<1>2. CASE UNCHANGED vars
  BY <1>1, <1>2 DEF vars, RefsIInv, RefsWithin, RefsOf
<1>3. CASE Content
  <2>1. RefsWithin(objs, DOMAIN objs)' /\ primary' = << >> /\ obs' = << >> /\ obsOf' = << >>
    BY <1>3, ContentKeepsRefs
  <2>. QED  BY <1>1, <2>1 DEF RefsIInv
<1>4. CASE Row
  BY <1>1, <1>4, RowKeepsRefs DEF RefsIInv
<1>5. ASSUME Node \/ Edge \/ Hit
      PROVE  RefsIInv'
  <2>1. RefsWithin(objs, DOMAIN objs)'
    BY <1>5, NodeKeepsRefs, EdgeKeepsRefs, HitKeepsRefs
  <2>2. primary' = primary /\ obs' = obs /\ obsOf' = obsOf /\ phase # "content"
    BY <1>5 DEF Node, Edge, Hit
  <2>3. DOMAIN objs \subseteq DOMAIN objs'
    BY <1>5, <2>2, ObjectsStay DEF RefsIInv, Next
  <2>. QED  BY <1>1, <2>1, <2>2, <2>3 DEF RefsIInv
<1>6. CASE Advance
  BY <1>1, <1>6 DEF Advance, RefsIInv, RefsWithin, RefsOf
<1>. QED  BY <1>2, <1>3, <1>4, <1>5, <1>6 DEF Next

\* For any stores and readers, every object that an object of the bundle refers
\* to is in the bundle, after any row, node, edge or hit (Projection.ref, _put).
THEOREM ReferencesResolve == Spec => []RefsResolve
<1>1. Init => RefsIInv
  BY PlaceInit DEF Init, RefsIInv, RefsWithin
<1>2. RefsIInv /\ [Next]_vars => RefsIInv'
  BY RefsIInvNext
<1>3. RefsIInv => RefsResolve
  BY DEF RefsIInv, RefsWithin, RefsResolve
<1>. QED  BY <1>1, <1>2, <1>3, PTL DEF Spec

-----------------------------------------------------------------------------
(* Nothing is overwritten.                                                 *)

\* One registry holds all that another does.
Grows(os, qs) ==
  /\ DOMAIN os \subseteq DOMAIN qs
  /\ \A id, p, v : Holds(os, id, p, v) => Holds(qs, id, p, v)
  /\ \A id, p : Carries(os, id, p) => Carries(qs, id, p)
  /\ \A id, p : Carries(os, id, p) /\ p \notin ListProps => qs[id].val[p] = os[id].val[p]

LEMMA GrowsOn ==
  ASSUME NEW a, NEW b, NEW c, Grows(a, b), Grows(b, c)
  PROVE  Grows(a, c)
  BY DEF Grows

LEMMA GrowsFromItself ==
  ASSUME NEW os
  PROVE  Grows(os, os)
  BY DEF Grows

LEMMA PutGrows ==
  ASSUME NEW os, NEW put
  PROVE  Grows(os, Put(os, put))
<1>. DEFINE q == Put(os, put)
<1>1. /\ DOMAIN q = DOMAIN os \cup {put[1]}
      /\ \A id, p, v : Holds(q, id, p, v) <=> Holds(os, id, p, v) \/ (put[1] = id /\ Gives(put[2], p, v))
      /\ \A id, p : Carries(q, id, p) <=> Carries(os, id, p) \/ (put[1] = id /\ p \in DOMAIN Given(put[2]))
      /\ \A id, p : Carries(os, id, p) /\ p \notin ListProps => q[id].val[p] = os[id].val[p]
      /\ \A D : RefsWithin(os, D) /\ RefsGiven(put[2]) \subseteq D => RefsWithin(q, D)
  BY PutFacts
<1>. HIDE DEF q
<1>2. Grows(os, q)
  BY <1>1 DEF Grows
<1>. QED  BY <1>2 DEF q

LEMMA PutAllGrows ==
  ASSUME NEW os, NEW puts, IsList(puts)
  PROVE  Grows(os, PutAll(os, puts))
<1>. DEFINE q == PutAll(os, puts)
<1>1. /\ DOMAIN q = DOMAIN os \cup PutsId(puts)
      /\ \A id, p, v : Holds(q, id, p, v) <=>
           Holds(os, id, p, v) \/ \E x \in ToSet(puts) : x[1] = id /\ Gives(x[2], p, v)
      /\ \A id, p : Carries(q, id, p) <=>
           Carries(os, id, p) \/ \E x \in ToSet(puts) : x[1] = id /\ p \in DOMAIN Given(x[2])
      /\ \A id, p : Carries(os, id, p) /\ p \notin ListProps => q[id].val[p] = os[id].val[p]
      /\ \A D : RefsWithin(os, D) /\ (\A x \in ToSet(puts) : RefsGiven(x[2]) \subseteq D) => RefsWithin(q, D)
  BY PutAllFacts
<1>. HIDE DEF q
<1>2. Grows(os, q)
  BY <1>1 DEF Grows
<1>. QED  BY <1>2 DEF q

LEMMA ObjectsGrow ==
  ASSUME Place, Next, phase # "content"
  PROVE  Grows(objs, objs')
<1>1. CASE Content
  BY <1>1 DEF Content
<1>2. CASE Row
  <2>1. objs' = PutAll(objs, Offers(car.rows[at + 1])) /\ IsList(Offers(car.rows[at + 1]))
    BY <1>2, RowFacts
  <2>. QED  BY <2>1, PutAllGrows
<1>3. CASE Node
  <2>1. \E put : objs' = Put(objs, put)
    BY <1>3 DEF Node
  <2>. QED  BY <2>1, PutGrows
<1>4. CASE Edge
  <2>. DEFINE e == car.edges[at + 1]
              s == SourceOf(e)
              t == TargetOf(e)
              put == Drawing(<< "relationship", e.class, e.verb, s, t, e.ts, e.method >>, s, t, e)
              f == Flagged(objs, e)
  <2>1. objs' = f \/ objs' = Put(f, put)
    BY <1>4 DEF Edge
  <2>. HIDE DEF put
  <2>2. f = objs \/ \E node : f = Put(objs, node)
    BY FlaggedFacts
  <2>. HIDE DEF f
  <2>3. Grows(objs, f)
    BY <2>2, PutGrows, GrowsFromItself
  <2>. QED  BY <2>1, <2>3, PutGrows, GrowsOn
<1>5. CASE Hit
  <2>. DEFINE h == car.hits[at + 1]
              puts == IndicatorPuts(h.analytic) \o Sighting(h)
  <2>1. objs' = IF h.analytic \notin DOMAIN Analytics THEN objs ELSE PutAll(objs, puts)
    BY <1>5 DEF Hit
  <2>2. h.analytic \in DOMAIN Analytics => IsList(puts)
    BY SightingFacts
  <2>. HIDE DEF puts, h
  <2>. QED  BY <2>1, <2>2, PutAllGrows, GrowsFromItself
<1>6. CASE Advance
  BY <1>6, GrowsFromItself DEF Advance
<1>. QED  BY <1>1, <1>2, <1>3, <1>4, <1>5, <1>6 DEF Next

\* All that is offered to an object is there.
IsHeld(os, x) ==
  /\ x[1] \in DOMAIN os
  /\ \A p \in DOMAIN Given(x[2]) : Carries(os, x[1], p) /\ \A v : Gives(x[2], p, v) => Holds(os, x[1], p, v)

LEMMA HeldStays ==
  ASSUME NEW os, NEW qs, NEW x, Grows(os, qs), IsHeld(os, x)
  PROVE  IsHeld(qs, x)
  BY DEF Grows, IsHeld

LEMMA PutsAreHeld ==
  ASSUME NEW os, NEW puts, IsList(puts), NEW x \in ToSet(puts)
  PROVE  IsHeld(PutAll(os, puts), x)
<1>. DEFINE q == PutAll(os, puts)
<1>1. /\ DOMAIN q = DOMAIN os \cup PutsId(puts)
      /\ \A id, p, v : Holds(q, id, p, v) <=>
           Holds(os, id, p, v) \/ \E y \in ToSet(puts) : y[1] = id /\ Gives(y[2], p, v)
      /\ \A id, p : Carries(q, id, p) <=>
           Carries(os, id, p) \/ \E y \in ToSet(puts) : y[1] = id /\ p \in DOMAIN Given(y[2])
      /\ \A id, p : Carries(os, id, p) /\ p \notin ListProps => q[id].val[p] = os[id].val[p]
      /\ \A D : RefsWithin(os, D) /\ (\A y \in ToSet(puts) : RefsGiven(y[2]) \subseteq D) => RefsWithin(q, D)
  BY PutAllFacts
<1>. HIDE DEF q
<1>2. x[1] \in PutsId(puts)
  BY DEF PutsId
<1>3. IsHeld(q, x)
  BY <1>1, <1>2 DEF IsHeld
<1>. QED  BY <1>3 DEF q

LEMMA HeldIsKept ==
  ASSUME NEW os, NEW x, IsHeld(os, x), NEW p \in DOMAIN Given(x[2])
  PROVE  /\ p \in DOMAIN os[x[1]].val
         /\ (IF p \in ListProps THEN Given(x[2])[p] ELSE {Given(x[2])[p]}) \subseteq Kept(os[x[1]], p)
<1>. DEFINE props == x[2]
            new == Given(props)
            o == os[x[1]]
<1>1. new[p] = props[p] /\ p \in DOMAIN props /\ (p \notin ListProps => props[p] # Blank)
  BY GivenAt
<1>2. p \in DOMAIN o.val /\ \A v : Gives(props, p, v) => Has(o, p, v)
  BY DEF IsHeld, Carries, Holds
<1>. HIDE DEF props, new, o
<1>3. ASSUME NEW v, v \in IF p \in ListProps THEN new[p] ELSE {new[p]}
      PROVE  v \in Kept(o, p)
  <2>1. Has(o, p, v)
    BY <1>1, <1>2, <1>3 DEF Gives
  <2>2. CASE p \in ListProps
    BY <2>1, <2>2 DEF Has, Kept
  <2>3. CASE p \notin ListProps
    <3>1. v = o.val[p] \/ << p, v >> \in o.alt
      BY <2>1, <2>3 DEF Has
    <3>2. << p, v >>[1] = p /\ << p, v >>[2] = v
      OBVIOUS
    <3>. QED  BY <2>3, <3>1, <3>2 DEF Kept
  <2>. QED  BY <2>2, <2>3
<1>. QED  BY <1>2, <1>3 DEF props, new, o

LEMMA ContentIsHeld ==
  ASSUME NEW content, NEW x \in Offered(content)
  PROVE  IsHeld(content, x)
<1>1. PICK id \in DOMAIN content : x = << id, content[id].val >>
  BY DEF Offered
<1>2. x[1] = id /\ x[2] = content[id].val
  BY <1>1
<1>. DEFINE val == content[id].val
<1>3. DOMAIN Given(val) \subseteq DOMAIN val
  BY WhatIsGiven
<1>4. \A p, v : Gives(val, p, v) => Has(content[id], p, v)
  BY DEF Gives, Has
<1>. QED  BY <1>2, <1>3, <1>4 DEF IsHeld, Holds, Carries

\* The rows that are behind.
RowsBehind == IF phase = "content" THEN 0 ELSE IF phase = "rows" THEN at ELSE Len(car.rows)
Past == {car.rows[i] : i \in 1 .. RowsBehind}

LEMMA PastNext ==
  ASSUME Place, [Next]_vars
  PROVE  /\ Row => Past' = Past \cup {car.rows[at + 1]}
         /\ ~Row => Past' = Past
<1>. USE DEF Place
<1>1. /\ car \in Stores /\ at \in Nat /\ Len(car.rows) \in Nat /\ phase \in DOMAIN NextPhase \cup {"content", "done"}
  BY StoreFacts, ListLen
<1>2. CASE Row
  <2>1. phase = "rows" /\ phase' = "rows" /\ at' = at + 1 /\ car' = car
    BY <1>2 DEF Row
  <2>2. RowsBehind = at /\ RowsBehind' = at + 1
    BY <2>1 DEF RowsBehind
  <2>3. 1 .. at + 1 = (1 .. at) \cup {at + 1}
    BY <1>1
  <2>. QED  BY <1>2, <2>1, <2>2, <2>3 DEF Past
<1>3. CASE UNCHANGED vars /\ ~Row
  BY <1>3 DEF vars, Past, RowsBehind
<1>4. CASE Content
  <2>1. phase = "content" /\ phase' = "rows" /\ at = 0 /\ at' = 0 /\ car' = car
    BY <1>4 DEF Content
  <2>2. RowsBehind = 0 /\ RowsBehind' = 0 /\ ~Row
    BY <2>1 DEF RowsBehind, Row
  <2>. QED  BY <2>1, <2>2 DEF Past
<1>5. CASE (Node \/ Edge \/ Hit) /\ ~Row
  <2>1. phase \notin {"content", "rows"} /\ phase' = phase /\ car' = car
    BY <1>5 DEF Node, Edge, Hit
  <2>. QED  BY <1>5, <2>1 DEF Past, RowsBehind
<1>6. CASE Advance
  <2>1. phase \in DOMAIN NextPhase /\ at = Len(Inputs) /\ phase' = NextPhase[phase] /\ car' = car
    BY <1>6 DEF Advance
  <2>2. phase # "content" /\ phase' \notin {"content", "rows"} /\ (phase = "rows" => at = Len(car.rows))
    BY <2>1, Phases DEF Inputs
  <2>3. ~Row
    BY <2>1, <2>2 DEF Row
  <2>4. RowsBehind = Len(car.rows) /\ RowsBehind' = Len(car.rows)
    BY <2>1, <2>2 DEF RowsBehind
  <2>. QED  BY <2>1, <2>3, <2>4 DEF Past
<1>. QED  BY <1>2, <1>3, <1>4, <1>5, <1>6 DEF Next

LEMMA PastInRows ==
  ASSUME Place
  PROVE  /\ Past \subseteq ToSet(car.rows)
         /\ phase \notin {"content", "rows"} => Past = ToSet(car.rows)
         /\ phase = "content" => Past = {}
<1>1. IsList(car.rows) /\ at \in Nat /\ Len(car.rows) \in Nat /\ DOMAIN car.rows = 1 .. Len(car.rows)
  BY StoreFacts, ListLen DEF Place
<1>2. RowsBehind \in 0 .. Len(car.rows)
  <2>1. phase = "rows" => at <= Len(car.rows)
    BY Phases DEF Place, Inputs
  <2>. QED  BY <1>1, <2>1 DEF RowsBehind
<1>3. 1 .. RowsBehind \subseteq DOMAIN car.rows
  BY <1>1, <1>2
<1>4. ToSet(car.rows) = {car.rows[i] : i \in 1 .. Len(car.rows)}
  BY <1>1 DEF ToSet
<1>5. phase \notin {"content", "rows"} => RowsBehind = Len(car.rows)
  BY DEF RowsBehind
<1>6. phase = "content" => RowsBehind = 0
  BY DEF RowsBehind
<1>. QED  BY <1>1, <1>3, <1>4, <1>5, <1>6 DEF Past

\* While the rows pass, all that the content and the rows behind offered is held.
KeptIInv ==
  /\ Place
  /\ phase # "content" => \A x \in Offered(ContentObjects(car.rows)) : IsHeld(objs, x)
  /\ \A r \in Past : \A x \in ToSet(Offers(r)) : IsHeld(objs, x)

LEMMA KeptIInvNext ==
  ASSUME KeptIInv, [Next]_vars
  PROVE  KeptIInv'
<1>1. Place /\ Place'
  BY PlaceNext DEF KeptIInv
<1>2. CASE UNCHANGED vars
  <2>1. \A r : Offers(r)' = Offers(r)
    BY <1>2 DEF vars, Offers, Made
  <2>2. Past' = Past
    BY <1>2 DEF vars, Past, RowsBehind
  <2>. QED  BY <1>1, <1>2, <2>1, <2>2 DEF vars, KeptIInv
<1>3. CASE Content
  <2>1. objs' = ContentObjects(car.rows) /\ car' = car /\ ~Row /\ phase = "content"
    BY <1>3 DEF Content, Row
  <2>2. Past' = {}
    BY <1>1, <2>1, PastInRows, PastNext
  <2>3. \A x \in Offered(ContentObjects(car.rows)) : IsHeld(ContentObjects(car.rows), x)
    BY ContentIsHeld
  <2>. QED  BY <1>1, <2>1, <2>2, <2>3 DEF KeptIInv
<1>4. CASE Next /\ ~Content
  <2>1. phase # "content"
    BY <1>1, <1>4, Phases DEF Next, Row, Node, Edge, Hit, Advance
  <2>2. Grows(objs, objs') /\ car' = car /\ contentOf' = contentOf
    BY <1>1, <1>4, <2>1, ObjectsGrow, ObjectsStay
  <2>3. \A r : Offers(r)' = Offers(r)
    BY <2>2 DEF Offers, Made
  <2>4. \A x \in Offered(ContentObjects(car.rows)) : IsHeld(objs', x)
    BY <2>1, <2>2, HeldStays DEF KeptIInv
  <2>5. \A r \in Past : \A x \in ToSet(Offers(r)) : IsHeld(objs', x)
    BY <2>2, HeldStays DEF KeptIInv
  <2>6. CASE Row
    <3>. DEFINE coming == car.rows[at + 1]
    <3>1. objs' = PutAll(objs, Offers(coming)) /\ IsList(Offers(coming))
      BY <1>1, <2>6, RowFacts
    <3>2. \A x \in ToSet(Offers(coming)) : IsHeld(objs', x)
      BY <3>1, PutsAreHeld
    <3>3. Past' = Past \cup {coming}
      BY <1>1, <2>6, PastNext
    <3>. HIDE DEF coming
    <3>4. \A r \in Past' : \A x \in ToSet(Offers(r)') : IsHeld(objs', x)
      BY <2>3, <2>5, <3>2, <3>3
    <3>. QED  BY <1>1, <2>2, <2>4, <3>4 DEF KeptIInv
  <2>7. CASE ~Row
    <3>1. Past' = Past
      BY <1>1, <2>7, PastNext
    <3>2. \A r \in Past' : \A x \in ToSet(Offers(r)') : IsHeld(objs', x)
      BY <2>3, <2>5, <3>1
    <3>. QED  BY <1>1, <2>2, <2>4, <3>2 DEF KeptIInv
  <2>. QED  BY <2>6, <2>7
<1>. QED  BY <1>2, <1>3, <1>4

\* For any rows in any order, an object holds all that was ever offered to it:
\* the first value of a property, the others beside it, lists united (_fill).
THEOREM NothingIsOverwritten == Spec => []NothingOverwritten
<1>1. Init => KeptIInv
  <2>1. Init => Place /\ phase = "content"
    BY PlaceInit DEF Init
  <2>. QED  BY <2>1, PastInRows DEF KeptIInv
<1>2. KeptIInv /\ [Next]_vars => KeptIInv'
  BY KeptIInvNext
<1>3. KeptIInv => NothingOverwritten
  <2>. SUFFICES ASSUME KeptIInv, phase = "done",
                       NEW put \in (UNION {ToSet(Offers(r)) : r \in ToSet(car.rows)}) \cup Offered(ContentObjects(car.rows)),
                       NEW p \in DOMAIN Given(put[2])
                PROVE  /\ p \in DOMAIN objs[put[1]].val
                       /\ (IF p \in ListProps THEN Given(put[2])[p] ELSE {Given(put[2])[p]}) \subseteq Kept(objs[put[1]], p)
    BY DEF NothingOverwritten
  <2>1. Past = ToSet(car.rows)
    BY PastInRows DEF KeptIInv
  <2>2. IsHeld(objs, put)
    BY <2>1 DEF KeptIInv
  <2>. QED  BY <2>2, HeldIsKept
<1>. QED  BY <1>1, <1>2, <1>3, PTL DEF Spec

-----------------------------------------------------------------------------
(* Every edge finds its ends.                                              *)

IsProcess(id) == id[1] = "process" /\ Len(id) = 3
IsDrawing(id) == id[1] = "relationship" /\ Len(id) = 7

LEMMA PutDomain ==
  ASSUME NEW os, NEW put
  PROVE  DOMAIN Put(os, put) = DOMAIN os \cup {put[1]}
  BY PutFacts

LEMMA PutAllDomain ==
  ASSUME NEW os, NEW puts, IsList(puts)
  PROVE  DOMAIN PutAll(os, puts) = DOMAIN os \cup PutsId(puts)
  BY PutAllFacts

\* A process comes into the bundle with a row, and a drawing with an edge.
LEMMA NewObjects ==
  ASSUME Place, Next, phase # "content", NEW id \in DOMAIN objs', id \notin DOMAIN objs
  PROVE  /\ IsProcess(id) => Row /\ id \in RowProcs(car.rows[at + 1])
         /\ IsDrawing(id) => Edge
<1>1. CASE Content
  BY <1>1 DEF Content
<1>2. CASE Row
  <2>. DEFINE r == car.rows[at + 1]
              puts == Offers(r)
              refs == ContentRefs(contentOf, car.rows, r)
  <2>1. objs' = PutAll(objs, puts) /\ IsList(puts) /\ Sound(Made(r), DOMAIN objs, RowProcs(r))
    BY <1>2, RowFacts
  <2>2. PutsId(puts) = PutsId(Made(r).puts) \cup (IF Seen(r) THEN {ObservationId(r)} ELSE {})
    BY <2>1, RowPutsFacts DEF Offers, Sound
  <2>. HIDE DEF puts, r
  <2>3. id \in PutsId(puts)
    BY <2>1, PutAllDomain
  <2>4. ObservationId(r)[1] = "observed-data"
    BY DEF ObservationId
  <2>5. \A x \in PutsId(Made(r).puts) : IdIsSound(x, RowProcs(r))
    BY <2>1 DEF Sound
  <2>. QED  BY <1>2, <2>2, <2>3, <2>4, <2>5 DEF IdIsSound, IsProcess, IsDrawing, r
<1>3. CASE Node
  <2>. DEFINE n == car.nodes[at + 1]
              put == InferredNode(n.host, n.guid, n.corr)
  <2>1. objs' = Put(objs, put) /\ put[1] = InferredId(n.host, n.guid)
    BY <1>3 DEF Node, InferredNode
  <2>. HIDE DEF put
  <2>2. DOMAIN Put(objs, put) = DOMAIN objs \cup {put[1]}
    BY PutDomain
  <2>3. id = put[1]
    BY <2>1, <2>2
  <2>. QED  BY <2>1, <2>3 DEF InferredId, IsProcess, IsDrawing
<1>4. CASE Edge
  <2>. DEFINE e == car.edges[at + 1]
              s == SourceOf(e)
              t == TargetOf(e)
              put == Drawing(<< "relationship", e.class, e.verb, s, t, e.ts, e.method >>, s, t, e)
              guid == IF e.inferred = "source" THEN e.src ELSE e.tgt
              node == InferredNode(e.host, guid, e.corr)
              f == Flagged(objs, e)
  <2>1. objs' = f \/ objs' = Put(f, put)
    BY <1>4 DEF Edge
  <2>2. f = objs \/ f = Put(objs, node)
    BY FlaggedFacts
  <2>3. put[1] = << "relationship", e.class, e.verb, s, t, e.ts, e.method >> /\ node[1] = InferredId(e.host, guid)
    BY DEF Drawing, InferredNode
  <2>. HIDE DEF put, node, f, s, t, guid, e
  <2>4. id = put[1] \/ id = node[1]
    <3>1. DOMAIN Put(f, put) = DOMAIN f \cup {put[1]} /\ DOMAIN Put(objs, node) = DOMAIN objs \cup {node[1]}
      BY PutDomain
    <3>2. id \in DOMAIN f \/ id = put[1]
      BY <2>1, <3>1
    <3>3. id \in DOMAIN f => id = node[1]
      BY <2>2, <3>1
    <3>. QED  BY <3>2, <3>3
  <2>. QED  BY <1>4, <2>3, <2>4 DEF InferredId, IsProcess, IsDrawing
<1>5. CASE Hit
  <2>. DEFINE h == car.hits[at + 1]
              puts == IndicatorPuts(h.analytic) \o Sighting(h)
  <2>1. objs' = IF h.analytic \notin DOMAIN Analytics THEN objs ELSE PutAll(objs, puts)
    BY <1>5 DEF Hit
  <2>2. h.analytic \in DOMAIN Analytics =>
          IsList(puts) /\ \A x \in PutsId(puts) : IdIsSound(x, {}) \/ (x[1] = "relationship" /\ Len(x) = 4)
    BY SightingFacts
  <2>. HIDE DEF puts, h
  <2>3. id \in PutsId(puts) /\ h.analytic \in DOMAIN Analytics
    BY <2>1, <2>2, PutAllDomain
  <2>4. IdIsSound(id, {}) \/ (id[1] = "relationship" /\ Len(id) = 4)
    BY <2>2, <2>3
  <2>. QED  BY <2>4 DEF IdIsSound, IsProcess, IsDrawing
<1>6. CASE Advance
  BY <1>6 DEF Advance
<1>. QED  BY <1>1, <1>2, <1>3, <1>4, <1>5, <1>6 DEF Next

\* What a drawing is keyed by is what it draws between.
DrawingsAreKeyed(os) ==
  \A id \in DOMAIN os : IsDrawing(id) =>
    /\ Carries(os, id, "source_ref") /\ Carries(os, id, "target_ref")
    /\ os[id].val["source_ref"] = id[4] /\ os[id].val["target_ref"] = id[5]

LEMMA EndsAreScalars == "source_ref" \notin ListProps /\ "target_ref" \notin ListProps
  BY DEF ListProps

LEMMA DrawingsStay ==
  ASSUME NEW os, NEW qs, Grows(os, qs), DrawingsAreKeyed(os),
         \A id \in DOMAIN qs \ DOMAIN os : ~IsDrawing(id)
  PROVE  DrawingsAreKeyed(qs)
  BY EndsAreScalars DEF Grows, DrawingsAreKeyed

LEMMA DrawingGives ==
  ASSUME NEW id, NEW s, NEW t, NEW e, s # Blank, t # Blank
  PROVE  LET put == Drawing(id, s, t, e)
         IN  /\ put[1] = id
             /\ {"source_ref", "target_ref"} \subseteq DOMAIN Given(put[2])
             /\ Given(put[2])["source_ref"] = s /\ Given(put[2])["target_ref"] = t
             /\ \A v \in e.corr : Gives(put[2], "x_car_corroborated_by", v)
             /\ e.corr # {} => "x_car_corroborated_by" \in DOMAIN Given(put[2])
<1>. DEFINE props == Drawing(id, s, t, e)[2]
<1>1. Drawing(id, s, t, e)[1] = id
  BY DEF Drawing
<1>2. /\ {"source_ref", "target_ref", "x_car_corroborated_by"} \subseteq DOMAIN props
      /\ props["source_ref"] = s /\ props["target_ref"] = t /\ props["x_car_corroborated_by"] = e.corr
  BY DEF Drawing, ++, Prop
<1>. HIDE DEF props
<1>3. "x_car_corroborated_by" \in ListProps
  BY DEF ListProps
<1>4. {"source_ref", "target_ref"} \subseteq DOMAIN Given(props)
  BY <1>2, WhatIsGiven, EndsAreScalars
<1>5. Given(props)["source_ref"] = s /\ Given(props)["target_ref"] = t
  BY <1>2, <1>4, WhatIsGiven
<1>6. \A v \in e.corr : Gives(props, "x_car_corroborated_by", v)
  BY <1>2, <1>3 DEF Gives
<1>7. e.corr # {} => "x_car_corroborated_by" \in DOMAIN Given(props)
  BY <1>2, <1>3, WhatIsGiven
<1>. QED  BY <1>1, <1>4, <1>5, <1>6, <1>7 DEF props

LEMMA DrawingIsKeyed ==
  ASSUME NEW os, NEW id, NEW s, NEW t, NEW e, s # Blank, t # Blank, id[4] = s, id[5] = t, DrawingsAreKeyed(os)
  PROVE  DrawingsAreKeyed(Put(os, Drawing(id, s, t, e)))
<1>. DEFINE put == Drawing(id, s, t, e)
            new == Given(put[2])
            q == Put(os, put)
<1>1. put[1] = id /\ {"source_ref", "target_ref"} \subseteq DOMAIN new /\ new["source_ref"] = s /\ new["target_ref"] = t
  BY DrawingGives
<1>2. Grows(os, q)
  BY PutGrows
<1>3. q = IF put[1] \in DOMAIN os THEN [os EXCEPT ![put[1]] = Fill(@, new)]
          ELSE Prop(put[1], [val |-> new, alt |-> {}]) ++ os
  BY DEF Put
<1>. HIDE DEF put, new
<1>4. CASE id \in DOMAIN os
  <2>1. DOMAIN q = DOMAIN os
    BY <1>1, <1>3, <1>4
  <2>. HIDE DEF q
  <2>. QED  BY <1>2, <2>1, DrawingsStay DEF q, put
<1>5. CASE id \notin DOMAIN os
  <2>1. DOMAIN q = DOMAIN os \cup {id} /\ q[id].val = new /\ \A x \in DOMAIN os : q[x] = os[x]
    BY <1>1, <1>3, <1>5 DEF ++, Prop
  <2>. HIDE DEF q
  <2>2. DrawingsAreKeyed(q)
    BY <1>1, <2>1 DEF DrawingsAreKeyed, Carries
  <2>. QED  BY <2>2 DEF q, put
<1>. QED  BY <1>4, <1>5

\* Every process is named by a row behind, every row behind is in the indexes,
\* and the indexes hold nothing else.
PrimaryIsFrom(k, r) ==
  \/ r.guid # Blank /\ k = RowKey(r) /\ primary[k] = Made(r).id
  \/ primary[k] \in RowProcs(r) /\ k[2] = "process" /\ primary[k] = << "process", k[1], k[3] >>
ProcessesAreNamed == \A id \in DOMAIN objs : IsProcess(id) => \E r \in Past : id \in RowProcs(r)
NamedAreThere == \A r \in Past : \A g \in NamedBy(r) \ {Blank} : << "process", r.host, g >> \in DOMAIN objs
PrimaryIsFound ==
  /\ \A k \in DOMAIN primary : \E r \in Past : PrimaryIsFrom(k, r)
  /\ \A r \in Past : r.guid # Blank => RowKey(r) \in DOMAIN primary
ObservedIsFound ==
  /\ \A k \in DOMAIN obs : \E r \in Past : Seen(r) /\ k = RowKey(r) /\ obs[k] = ObservationId(r)
  /\ \A r \in Past : Seen(r) => RowKey(r) \in DOMAIN obs
FoundIInv ==
  /\ Place
  /\ DrawingsAreKeyed(objs)
  /\ ProcessesAreNamed /\ NamedAreThere
  /\ PrimaryIsFound /\ ObservedIsFound

\* What is found stays found while the registry grows and the indexes stay.
LEMMA FoundStays ==
  ASSUME FoundIInv, Place', Grows(objs, objs'), Past' = Past, contentOf' = contentOf,
         primary' = primary, obs' = obs, DrawingsAreKeyed(objs'),
         \A id \in DOMAIN objs' \ DOMAIN objs : ~IsProcess(id)
  PROVE  FoundIInv'
<1>1. ProcessesAreNamed'
  BY DEF FoundIInv, ProcessesAreNamed
<1>2. NamedAreThere'
  BY DEF FoundIInv, NamedAreThere, Grows
<1>3. \A k, r : PrimaryIsFrom(k, r)' <=> PrimaryIsFrom(k, r)
  BY DEF PrimaryIsFrom, Made
<1>4. PrimaryIsFound'
  BY <1>3 DEF FoundIInv, PrimaryIsFound
<1>5. ObservedIsFound'
  BY DEF FoundIInv, ObservedIsFound
<1>. QED  BY <1>1, <1>2, <1>4, <1>5 DEF FoundIInv

LEMMA RowFound ==
  ASSUME FoundIInv, Row, NEW r, r = car.rows[at + 1]
  PROVE  FoundIInv'
<1>. DEFINE p == Made(r)
            puts == Offers(r)
            refs == ContentRefs(contentOf, car.rows, r)
<1>1. /\ Place /\ Place' /\ contentOf' = contentOf /\ car' = car /\ phase = "rows"
      /\ Past' = Past \cup {r} /\ Past \subseteq Past' /\ r \in Past'
  BY PlaceNext, PastNext DEF FoundIInv, Next, Row
<1>2. /\ objs' = PutAll(objs, puts) /\ IsList(puts) /\ RowIsSound(r) /\ r.obj \in Objects
      /\ Sound(p, DOMAIN objs, RowProcs(r))
  BY <1>1, RowFacts
<1>3. PutsId(puts) = PutsId(p.puts) \cup (IF Seen(r) THEN {ObservationId(r)} ELSE {})
  BY <1>2, RowPutsFacts DEF Offers, Sound
<1>4. Grows(objs, objs') /\ DOMAIN objs' = DOMAIN objs \cup PutsId(puts)
  BY <1>2, PutAllGrows, PutAllDomain
<1>5. /\ primary' = primary ++ Processes(p.puts) ++ (IF r.guid = Blank THEN << >> ELSE Prop(RowKey(r), p.id))
      /\ obs' = IF Seen(r) THEN Prop(RowKey(r), ObservationId(r)) ++ obs ELSE obs
  BY RowIndexes
<1>6. \A id \in DOMAIN objs' : id \in DOMAIN objs \/ (~IsDrawing(id) /\ (IsProcess(id) => id \in RowProcs(r)))
  BY <1>1, NewObjects DEF Next, Row, Edge
<1>7. DrawingsAreKeyed(objs')
  BY <1>4, <1>6, DrawingsStay DEF FoundIInv
<1>8. ProcessesAreNamed'
  BY <1>1, <1>6 DEF FoundIInv, ProcessesAreNamed
<1>9. NamedAreThere'
  <2>1. \A g \in NamedBy(r) \ {Blank} : << "process", r.host, g >> \in PutsId(p.puts)
    BY <1>2, NamedArePut DEF Made
  <2>2. \A s \in Past' : s = r \/ s \in Past
    BY <1>1
  <2>. HIDE DEF p, puts
  <2>3. \A s \in Past : \A g \in NamedBy(s) \ {Blank} : << "process", s.host, g >> \in DOMAIN objs
    BY DEF FoundIInv, NamedAreThere
  <2>. QED  BY <1>3, <1>4, <2>1, <2>2, <2>3 DEF NamedAreThere
<1>10. PrimaryIsFound'
  <2>. DEFINE named == Processes(p.puts)
              own == IF r.guid = Blank THEN << >> ELSE Prop(RowKey(r), p.id)
  <2>1. \A k \in DOMAIN named : named[k] \in RowProcs(r) /\ k[2] = "process" /\ named[k] = << "process", k[1], k[3] >>
    <3>1. \A k \in DOMAIN named : \E put \in ToSet(p.puts) :
            put[1][1] = "process" /\ Len(put[1]) = 3 /\ k = << put[1][2], "process", put[1][3] >> /\ named[k] = << "process", k[1], k[3] >>
      BY DEF Processes
    <3>2. \A put \in ToSet(p.puts) : put[1][1] = "process" /\ Len(put[1]) = 3 =>
            put[1] = << "process", put[1][2], put[1][3] >> /\ put[1] \in RowProcs(r)
      <4>1. \A put \in ToSet(p.puts) : put[1] \in PutsId(p.puts)
        BY DEF PutsId
      <4>2. \A id \in PutsId(p.puts) : id[1] = "process" /\ Len(id) = 3 => id \in RowProcs(r)
        BY <1>2 DEF Sound, IdIsSound
      <4>3. \A id \in RowProcs(r) : id = << "process", id[2], id[3] >>
        BY DEF RowProcs
      <4>. QED  BY <4>1, <4>2, <4>3
    <3>. HIDE DEF named, p
    <3>. QED  BY <3>1, <3>2
  <2>2. /\ DOMAIN own = IF r.guid = Blank THEN {} ELSE {RowKey(r)}
        /\ \A k \in DOMAIN own : own[k] = p.id
    BY DEF Prop
  <2>3. primary' = primary ++ named ++ own
    BY <1>5
  <2>4. \A k : PrimaryIsFrom(k, r)' <=>
          \/ r.guid # Blank /\ k = RowKey(r) /\ primary'[k] = p.id
          \/ primary'[k] \in RowProcs(r) /\ k[2] = "process" /\ primary'[k] = << "process", k[1], k[3] >>
    <3>1. Made(r)' = p
      BY <1>1 DEF Made
    <3>. QED  BY <1>1, <3>1 DEF PrimaryIsFrom, Made, Row
  <2>5. \A s \in Past : \A k \in DOMAIN primary : PrimaryIsFrom(k, s) /\ primary'[k] = primary[k] => PrimaryIsFrom(k, s)'
    BY <1>1 DEF PrimaryIsFrom, Made
  <2>. HIDE DEF named, own, p
  <2>6. /\ DOMAIN primary' = DOMAIN primary \cup DOMAIN named \cup DOMAIN own
        /\ \A k \in DOMAIN primary : primary'[k] = primary[k]
        /\ \A k \in DOMAIN named \ DOMAIN primary : primary'[k] = named[k]
        /\ \A k \in DOMAIN own \ (DOMAIN primary \cup DOMAIN named) : primary'[k] = own[k]
    BY <2>3 DEF ++
  <2>7. ASSUME NEW k \in DOMAIN primary'
        PROVE  \E s \in Past' : PrimaryIsFrom(k, s)'
    <3>1. CASE k \in DOMAIN primary
      <4>1. PICK s \in Past : PrimaryIsFrom(k, s)
        BY <3>1 DEF FoundIInv, PrimaryIsFound
      <4>2. PrimaryIsFrom(k, s)'
        BY <2>5, <2>6, <3>1, <4>1
      <4>. QED  BY <1>1, <4>2
    <3>2. CASE k \in DOMAIN named \ DOMAIN primary
      <4>1. PrimaryIsFrom(k, r)'
        BY <2>1, <2>4, <2>6, <3>2
      <4>. QED  BY <1>1, <4>1
    <3>3. CASE k \in DOMAIN own \ (DOMAIN primary \cup DOMAIN named)
      <4>1. r.guid # Blank /\ k = RowKey(r) /\ primary'[k] = p.id
        BY <2>2, <2>6, <3>3
      <4>2. PrimaryIsFrom(k, r)'
        BY <2>4, <4>1
      <4>. QED  BY <1>1, <4>2
    <3>. QED  BY <2>6, <2>7, <3>1, <3>2, <3>3
  <2>8. \A s \in Past' : s.guid # Blank => RowKey(s) \in DOMAIN primary'
    BY <1>1, <2>2, <2>6 DEF FoundIInv, PrimaryIsFound
  <2>. QED  BY <2>7, <2>8 DEF PrimaryIsFound
<1>11. ObservedIsFound'
  <2>. DEFINE own == Prop(RowKey(r), ObservationId(r))
  <2>1. DOMAIN own = {RowKey(r)} /\ own[RowKey(r)] = ObservationId(r)
    BY DEF Prop
  <2>2. obs' = IF Seen(r) THEN own ++ obs ELSE obs
    BY <1>5
  <2>. HIDE DEF own
  <2>3. /\ DOMAIN obs' = DOMAIN obs \cup (IF Seen(r) THEN {RowKey(r)} ELSE {})
        /\ Seen(r) => obs'[RowKey(r)] = ObservationId(r)
        /\ \A k \in DOMAIN obs : obs'[k] = obs[k] \/ (Seen(r) /\ k = RowKey(r))
    BY <2>1, <2>2 DEF ++
  <2>4. /\ \A k \in DOMAIN obs : \E s \in Past : Seen(s) /\ k = RowKey(s) /\ obs[k] = ObservationId(s)
        /\ \A s \in Past : Seen(s) => RowKey(s) \in DOMAIN obs
    BY DEF FoundIInv, ObservedIsFound
  <2>5. \A k \in DOMAIN obs' : \E s \in Past' : Seen(s) /\ k = RowKey(s) /\ obs'[k] = ObservationId(s)
    BY <1>1, <2>3, <2>4
  <2>6. \A s \in Past' : Seen(s) => RowKey(s) \in DOMAIN obs'
    BY <1>1, <2>3, <2>4
  <2>. QED  BY <2>5, <2>6 DEF ObservedIsFound
<1>. QED  BY <1>1, <1>7, <1>8, <1>9, <1>10, <1>11 DEF FoundIInv

LEMMA EdgeDraws ==
  ASSUME DrawingsAreKeyed(objs), Edge
  PROVE  DrawingsAreKeyed(objs')
<1>. DEFINE e == car.edges[at + 1]
            s == SourceOf(e)
            t == TargetOf(e)
            id == << "relationship", e.class, e.verb, s, t, e.ts, e.method >>
            guid == IF e.inferred = "source" THEN e.src ELSE e.tgt
            node == InferredNode(e.host, guid, e.corr)
            f == Flagged(objs, e)
<1>1. IF s = Blank \/ t = Blank THEN objs' = f ELSE objs' = Put(f, Drawing(id, s, t, e))
  BY DEF Edge
<1>2. f = objs \/ f = Put(objs, node)
  BY FlaggedFacts
<1>3. node[1] = InferredId(e.host, guid)
  BY DEF InferredNode
<1>4. id[4] = s /\ id[5] = t
  OBVIOUS
<1>. HIDE DEF node, f, s, t, id, guid, e
<1>5. DrawingsAreKeyed(f)
  <2>1. ~IsDrawing(node[1])
    BY <1>3 DEF InferredId, IsDrawing
  <2>2. Grows(objs, Put(objs, node)) /\ DOMAIN Put(objs, node) = DOMAIN objs \cup {node[1]}
    BY PutGrows, PutDomain
  <2>3. DrawingsAreKeyed(Put(objs, node))
    BY <2>1, <2>2, DrawingsStay
  <2>. QED  BY <1>2, <2>3
<1>6. s # Blank /\ t # Blank => DrawingsAreKeyed(Put(f, Drawing(id, s, t, e)))
  BY <1>4, <1>5, DrawingIsKeyed
<1>. QED  BY <1>1, <1>5, <1>6

LEMMA FoundIInvNext ==
  ASSUME FoundIInv, [Next]_vars
  PROVE  FoundIInv'
<1>1. Place /\ Place'
  BY PlaceNext DEF FoundIInv
<1>2. CASE UNCHANGED vars
  <2>1. Past' = Past
    BY <1>2 DEF vars, Past, RowsBehind
  <2>2. Grows(objs, objs')
    BY <1>2, GrowsFromItself DEF vars
  <2>. QED  BY <1>1, <1>2, <2>1, <2>2, FoundStays DEF vars, FoundIInv
<1>3. CASE Content
  <2>1. /\ objs' = ContentObjects(car.rows) /\ ~Row /\ phase = "content"
        /\ primary' = << >> /\ obs' = << >>
    BY <1>1, <1>3 DEF Content, Row, Place
  <2>2. Past' = {}
    BY <1>1, <1>3, <2>1, PastInRows, PastNext DEF Next
  <2>3. \A id \in DOMAIN objs' : ~IsProcess(id) /\ ~IsDrawing(id)
    <3>1. \A id \in DOMAIN ContentObjects(car.rows) : IdIsSound(id, {})
      BY ContentRefersToNothing
    <3>. QED  BY <2>1, <3>1 DEF IdIsSound, IsProcess, IsDrawing
  <2>4. DrawingsAreKeyed(objs') /\ ProcessesAreNamed' /\ NamedAreThere'
    BY <2>2, <2>3 DEF DrawingsAreKeyed, ProcessesAreNamed, NamedAreThere
  <2>5. PrimaryIsFound' /\ ObservedIsFound'
    BY <2>1, <2>2 DEF PrimaryIsFound, ObservedIsFound
  <2>. QED  BY <1>1, <2>4, <2>5 DEF FoundIInv
<1>4. CASE Row
  BY <1>4, RowFound
<1>5. ASSUME Node \/ Edge \/ Hit \/ Advance
      PROVE  FoundIInv'
  <2>1. /\ phase # "content" /\ ~Row /\ contentOf' = contentOf /\ primary' = primary /\ obs' = obs
    <3>1. Advance => phase # "content" /\ (phase = "rows" => at = Len(car.rows))
      BY Phases DEF Advance, Inputs
    <3>2. ~Row
      <4>1. Row => phase = "rows" /\ at < Len(car.rows)
        BY DEF Row
      <4>2. Row => phase = "rows" /\ at < Len(car.rows) /\ Len(car.rows) \in Nat /\ at \in Nat
        BY <1>1, <4>1, StoreFacts, ListLen DEF Place
      <4>. QED  BY <1>5, <3>1, <4>2 DEF Node, Edge, Hit
    <3>. QED  BY <1>5, <3>1, <3>2 DEF Node, Edge, Hit, Advance
  <2>2. Grows(objs, objs') /\ Past' = Past
    BY <1>1, <1>5, <2>1, ObjectsGrow, PastNext DEF Next
  <2>3. \A id \in DOMAIN objs' \ DOMAIN objs : ~IsProcess(id) /\ (IsDrawing(id) => Edge)
    BY <1>1, <1>5, <2>1, NewObjects DEF Next
  <2>4. DrawingsAreKeyed(objs')
    <3>1. CASE Edge
      BY <3>1, EdgeDraws DEF FoundIInv
    <3>2. CASE ~Edge
      BY <2>2, <2>3, <3>2, DrawingsStay DEF FoundIInv
    <3>. QED  BY <3>1, <3>2
  <2>. QED  BY <1>1, <2>1, <2>2, <2>3, <2>4, FoundStays
<1>. QED  BY <1>2, <1>3, <1>4, <1>5 DEF Next

\* A process row that no other owns is its own process.
LEMMA OwnProcess ==
  ASSUME NEW r, NEW ref, RowIsSound(r), r.obj = "process", r.owning = Blank, r.guid # Blank
  PROVE  Parts(r, ref).id = << "process", r.host, r.guid >> /\ << "process", r.host, r.guid >> # Blank
<1>1. r.obj \in Objects /\ << "process", r.host, r.guid >> # Blank
  BY DEF RowIsSound
<1>2. Build(r, ref) = BuildProcess(r, ref)
  <2>1. "process" \notin DOMAIN FileShape
    BY DEF FileShape
  <2>. QED  BY <2>1 DEF Build
<1>3. Build(r, ref).id = << "process", r.host, r.guid >>
  <2>1. BuildProcess(r, ref).id = ProcessId(r.host, Identity(r))
    BY BuildProcessPuts
  <2>. QED  BY <1>2, <2>1 DEF ProcessId, Identity
<1>. DEFINE b == Build(r, ref)
<1>4. Parts(r, ref).id = OrRecord(r, b).id
  BY <1>1, PartsId
<1>. HIDE DEF b
<1>5. OrRecord(r, b) = b
  BY <1>1, <1>3 DEF OrRecord, b
<1>. QED  BY <1>1, <1>3, <1>4, <1>5 DEF b

\* An end of an edge is one of the objects it may be, and is none only when
\* there is no such object.
LEMMA EndIsFound ==
  ASSUME FoundIInv, phase \notin {"content", "rows"}, NEW e \in ToSet(car.edges), NEW obj, NEW guid, NEW side,
         side = "source" => guid = e.src, side = "target" => guid = e.tgt, side \in {"source", "target"}
  PROVE  /\ EndOf(e, obj, guid, e.inferred = side) = Blank => EndsOf(e, obj, guid, e.inferred = side) = {}
         /\ EndOf(e, obj, guid, e.inferred = side) # Blank =>
              EndOf(e, obj, guid, e.inferred = side) \in EndsOf(e, obj, guid, e.inferred = side)
         /\ EndsOf(e, obj, guid, e.inferred = side) # {} => EndOf(e, obj, guid, e.inferred = side) # Blank
<1>. DEFINE key == << e.host, obj, guid >>
            stored == ToSet(car.rows)
<1>1. Place /\ car \in Stores /\ Past = stored /\ \A r \in stored : RowIsSound(r) /\ r.obj \in Objects
  BY PastInRows, StoreFacts DEF FoundIInv, Place, RowIsSound
<1>2. InferredId(e.host, e.src) # Blank /\ InferredId(e.host, e.tgt) # Blank
  BY <1>1, StoreFacts
<1>3. \A r \in stored : r \in RowsAt(e.host, obj, guid) <=> RowKey(r) = key
  BY DEF RowsAt
<1>4. RowsAt(e.host, obj, guid) \subseteq stored /\ \A r \in RowsAt(e.host, obj, guid) : r.guid = guid /\ r.host = e.host /\ r.obj = obj
  BY DEF RowsAt, RowKey
<1>5. CASE guid = Blank
  BY <1>5 DEF EndOf, EndsOf
<1>6. CASE guid # Blank /\ e.inferred = side
  BY <1>2, <1>6 DEF EndOf, EndsOf
<1>7. CASE guid # Blank /\ e.inferred # side /\ obj \in EventObjects
  <2>. DEFINE ends == {ObservationId(r) : r \in {s \in RowsAt(e.host, obj, guid) : Reads["ts"][s.ts] # Blank}}
              end == IF key \in DOMAIN obs THEN obs[key] ELSE Blank
  <2>1. EndsOf(e, obj, guid, e.inferred = side) = ends /\ EndOf(e, obj, guid, e.inferred = side) = end
    BY <1>7 DEF EndOf, EndsOf
  <2>2. \A r \in RowsAt(e.host, obj, guid) : Reads["ts"][r.ts] # Blank <=> Seen(r)
    BY <1>4, <1>7 DEF Seen
  <2>3. CASE key \in DOMAIN obs
    <3>1. PICK r \in Past : Seen(r) /\ key = RowKey(r) /\ obs[key] = ObservationId(r)
      BY <2>3 DEF FoundIInv, ObservedIsFound
    <3>2. r \in stored /\ ObservationId(r) # Blank /\ r \in RowsAt(e.host, obj, guid)
      BY <1>1, <1>3, <3>1 DEF RowIsSound
    <3>3. end = ObservationId(r) /\ ObservationId(r) \in ends
      BY <2>2, <2>3, <3>1, <3>2
    <3>. HIDE DEF end, ends
    <3>. QED  BY <2>1, <3>2, <3>3
  <2>4. CASE key \notin DOMAIN obs
    <3>1. \A r \in RowsAt(e.host, obj, guid) : ~Seen(r)
      BY <1>1, <1>3, <1>4, <2>4 DEF FoundIInv, ObservedIsFound
    <3>2. end = Blank /\ ends = {}
      BY <2>2, <2>4, <3>1
    <3>. HIDE DEF end, ends
    <3>. QED  BY <2>1, <3>2
  <2>. QED  BY <2>3, <2>4
<1>8. CASE guid # Blank /\ e.inferred # side /\ obj \notin EventObjects
  <2>. DEFINE own == {Made(r).id : r \in RowsAt(e.host, obj, guid)}
              id == << "process", e.host, guid >>
              named == obj = "process" /\ \E r \in stored : r.host = e.host /\ guid \in NamedBy(r)
              end == IF key \in DOMAIN primary THEN primary[key]
                     ELSE IF obj = "process" /\ id \in DOMAIN objs THEN id ELSE Blank
  <2>1. ProcessId(e.host, guid) = id
    BY <1>8 DEF ProcessId
  <2>2. /\ EndOf(e, obj, guid, e.inferred = side) = end
        /\ EndsOf(e, obj, guid, e.inferred = side) = own \cup (IF named THEN {id} ELSE {})
    BY <1>8, <2>1 DEF EndOf, EndsOf
  <2>3. \A r \in stored : id \in RowProcs(r) =>
          /\ id # Blank
          /\ (r.host = e.host /\ guid \in NamedBy(r)) \/ (r.obj = "process" /\ r.owning = Blank /\ r.guid = guid /\ r.host = e.host)
    <3>. TAKE r \in stored
    <3>. HAVE id \in RowProcs(r)
    <3>1. PICK g \in NamedBy(r) \cup (IF r.obj = "process" /\ r.owning = Blank THEN {r.guid} ELSE {}) :
            id = << "process", r.host, g >>
      BY DEF RowProcs
    <3>2. g = guid /\ r.host = e.host
      BY <3>1
    <3>3. id # Blank
      BY <1>1, <3>1 DEF RowIsSound
    <3>. QED  BY <3>1, <3>2, <3>3
  <2>4. \A r \in stored : id \in RowProcs(r) /\ obj = "process" => id \in own \cup (IF named THEN {id} ELSE {})
    <3>. TAKE r \in stored
    <3>. HAVE id \in RowProcs(r) /\ obj = "process"
    <3>1. CASE r.host = e.host /\ guid \in NamedBy(r)
      BY <3>1
    <3>2. CASE r.obj = "process" /\ r.owning = Blank /\ r.guid = guid /\ r.host = e.host
      <4>1. Made(r).id = id
        BY <1>1, <1>8, <3>2, OwnProcess DEF Made
      <4>2. r \in RowsAt(e.host, obj, guid)
        BY <1>3, <3>2 DEF RowKey
      <4>. QED  BY <4>1, <4>2
    <3>. QED  BY <2>3, <3>1, <3>2
  <2>5. CASE key \in DOMAIN primary
    <3>1. PICK r \in Past : PrimaryIsFrom(key, r)
      BY <2>5 DEF FoundIInv, PrimaryIsFound
    <3>2. CASE r.guid # Blank /\ key = RowKey(r) /\ primary[key] = Made(r).id
      <4>1. r \in RowsAt(e.host, obj, guid) /\ Made(r).id \in own
        BY <1>1, <1>3, <3>2
      <4>2. Made(r).id # Blank
        BY <1>1, <3>2, RowsAreSomething DEF Made, RowIsSound
      <4>. HIDE DEF own, named
      <4>. QED  BY <2>2, <2>5, <3>2, <4>1, <4>2
    <3>3. CASE primary[key] \in RowProcs(r) /\ key[2] = "process" /\ primary[key] = << "process", key[1], key[3] >>
      <4>1. key[2] = obj /\ key[1] = e.host /\ key[3] = guid
        OBVIOUS
      <4>2. primary[key] = id /\ obj = "process" /\ id \in RowProcs(r)
        BY <3>3, <4>1
      <4>3. id # Blank /\ id \in own \cup (IF named THEN {id} ELSE {})
        BY <1>1, <2>3, <2>4, <4>2
      <4>. HIDE DEF own, named, id, key
      <4>. QED  BY <2>2, <2>5, <4>2, <4>3
    <3>. QED  BY <3>1, <3>2, <3>3 DEF PrimaryIsFrom
  <2>6. CASE key \notin DOMAIN primary
    <3>1. \A r \in stored : RowKey(r) # key
      <4>1. \A r \in stored : RowKey(r) = key => r.guid = guid
        BY <1>3, <1>4
      <4>. QED  BY <1>1, <1>8, <2>6, <4>1 DEF FoundIInv, PrimaryIsFound
    <3>2. own = {}
      BY <1>3, <1>4, <3>1
    <3>3. obj = "process" /\ id \in DOMAIN objs => named /\ id # Blank
      <4>. HAVE obj = "process" /\ id \in DOMAIN objs
      <4>1. IsProcess(id)
        BY DEF IsProcess
      <4>2. PICK r \in stored : id \in RowProcs(r)
        BY <1>1, <4>1 DEF FoundIInv, ProcessesAreNamed
      <4>3. ~(r.obj = "process" /\ r.guid = guid /\ r.host = e.host)
        BY <3>1 DEF RowKey
      <4>. QED  BY <2>3, <4>2, <4>3
    <3>4. named => id \in DOMAIN objs
      BY <1>1, <1>8 DEF FoundIInv, NamedAreThere
    <3>5. named => obj = "process"
      OBVIOUS
    <3>. HIDE DEF own, named, id
    <3>. QED  BY <2>2, <2>6, <3>2, <3>3, <3>4, <3>5
  <2>. QED  BY <2>5, <2>6
<1>. QED  BY <1>5, <1>6, <1>7, <1>8

\* An edge is open when one of its records made no object.
IsOpen(e) == {} \in {BothEnds(e).source, BothEnds(e).target}

LEMMA EndsAreFound ==
  ASSUME FoundIInv, phase \notin {"content", "rows"}, NEW e \in ToSet(car.edges)
  PROVE  /\ IsOpen(e) <=> SourceOf(e) = Blank \/ TargetOf(e) = Blank
         /\ ~IsOpen(e) => SourceOf(e) \in BothEnds(e).source /\ TargetOf(e) \in BothEnds(e).target
<1>1. /\ EndOf(e, e.srcObj, e.src, e.inferred = "source") = Blank => EndsOf(e, e.srcObj, e.src, e.inferred = "source") = {}
      /\ EndOf(e, e.srcObj, e.src, e.inferred = "source") # Blank =>
           EndOf(e, e.srcObj, e.src, e.inferred = "source") \in EndsOf(e, e.srcObj, e.src, e.inferred = "source")
      /\ EndsOf(e, e.srcObj, e.src, e.inferred = "source") # {} => EndOf(e, e.srcObj, e.src, e.inferred = "source") # Blank
  BY EndIsFound
<1>2. /\ EndOf(e, e.tgtObj, e.tgt, e.inferred = "target") = Blank => EndsOf(e, e.tgtObj, e.tgt, e.inferred = "target") = {}
      /\ EndOf(e, e.tgtObj, e.tgt, e.inferred = "target") # Blank =>
           EndOf(e, e.tgtObj, e.tgt, e.inferred = "target") \in EndsOf(e, e.tgtObj, e.tgt, e.inferred = "target")
      /\ EndsOf(e, e.tgtObj, e.tgt, e.inferred = "target") # {} => EndOf(e, e.tgtObj, e.tgt, e.inferred = "target") # Blank
  BY EndIsFound
<1>3. /\ BothEnds(e).source = EndsOf(e, e.srcObj, e.src, e.inferred = "source")
      /\ BothEnds(e).target = EndsOf(e, e.tgtObj, e.tgt, e.inferred = "target")
  BY DEF BothEnds
<1>4. (BothEnds(e).source = {} <=> SourceOf(e) = Blank) /\ (BothEnds(e).target = {} <=> TargetOf(e) = Blank)
  BY <1>1, <1>2, <1>3 DEF SourceOf, TargetOf
<1>5. /\ SourceOf(e) # Blank => SourceOf(e) \in BothEnds(e).source
      /\ TargetOf(e) # Blank => TargetOf(e) \in BothEnds(e).target
  BY <1>1, <1>2, <1>3 DEF SourceOf, TargetOf
<1>. QED  BY <1>4, <1>5 DEF IsOpen

\* What is drawn stays drawn.
DrawnIn(os, e, ends) ==
  \E id \in DOMAIN os :
    /\ IsDrawing(id) /\ << id[2], id[3], id[6], id[7] >> = << e.class, e.verb, e.ts, e.method >>
    /\ id[4] \in ends.source /\ id[5] \in ends.target
    /\ \A v \in e.corr : Holds(os, id, "x_car_corroborated_by", v)

LEMMA DrawnIsIn ==
  ASSUME DrawingsAreKeyed(objs), NEW e, NEW ends, DrawnIn(objs, e, ends)
  PROVE  Drawn(e, ends)
<1>1. PICK id \in DOMAIN objs :
        /\ IsDrawing(id) /\ << id[2], id[3], id[6], id[7] >> = << e.class, e.verb, e.ts, e.method >>
        /\ id[4] \in ends.source /\ id[5] \in ends.target
        /\ \A v \in e.corr : Holds(objs, id, "x_car_corroborated_by", v)
  BY DEF DrawnIn
<1>2. objs[id].val["source_ref"] = id[4] /\ objs[id].val["target_ref"] = id[5]
  BY <1>1 DEF DrawingsAreKeyed
<1>3. "x_car_corroborated_by" \in ListProps
  BY DEF ListProps
<1>4. e.corr \subseteq (IF "x_car_corroborated_by" \in DOMAIN objs[id].val THEN objs[id].val["x_car_corroborated_by"] ELSE {})
  BY <1>1, <1>3 DEF Holds, Has
<1>5. id[1] = "relationship" /\ Len(id) = 7
  BY <1>1 DEF IsDrawing
<1>. QED  BY <1>1, <1>2, <1>4, <1>5 DEF Drawn

LEMMA DrawnStays ==
  ASSUME NEW os, NEW qs, Grows(os, qs), NEW e, NEW ends, DrawnIn(os, e, ends)
  PROVE  DrawnIn(qs, e, ends)
  BY DEF DrawnIn, Grows

LEMMA EdgeIsDrawn ==
  ASSUME NEW os, NEW e, NEW ends, NEW s \in ends.source, NEW t \in ends.target, s # Blank, t # Blank
  PROVE  DrawnIn(Put(os, Drawing(<< "relationship", e.class, e.verb, s, t, e.ts, e.method >>, s, t, e)), e, ends)
<1>. DEFINE id == << "relationship", e.class, e.verb, s, t, e.ts, e.method >>
            put == Drawing(id, s, t, e)
            q == Put(os, put)
<1>1. /\ IsDrawing(id) /\ << id[2], id[3], id[6], id[7] >> = << e.class, e.verb, e.ts, e.method >>
      /\ id[4] = s /\ id[5] = t
  BY DEF IsDrawing
<1>. HIDE DEF id
<1>2. put[1] = id /\ \A v \in e.corr : Gives(put[2], "x_car_corroborated_by", v)
  BY DrawingGives
<1>. HIDE DEF put
<1>3. DOMAIN q = DOMAIN os \cup {put[1]}
  BY PutDomain
<1>4. \A p, v : Holds(q, put[1], p, v) <=> Holds(os, put[1], p, v) \/ (put[1] = put[1] /\ Gives(put[2], p, v))
  BY PutFacts
<1>. HIDE DEF q
<1>5. id \in DOMAIN q /\ \A v \in e.corr : Holds(q, id, "x_car_corroborated_by", v)
  BY <1>2, <1>3, <1>4
<1>6. DrawnIn(q, e, ends)
  BY <1>1, <1>5 DEF DrawnIn
<1>. QED  BY <1>6 DEF q, put, id

\* The edges that are behind, and the open ones of the first n.
EdgesBehind ==
  IF phase \in {"hits", "done"} THEN Len(car.edges) ELSE IF phase = "edges" THEN at ELSE 0
OpenUpTo(n) == {i \in 1 .. n : IsOpen(car.edges[i])}

LEMMA OpenNext ==
  ASSUME NEW n \in Nat
  PROVE  /\ IsFiniteSet(OpenUpTo(n))
         /\ Cardinality(OpenUpTo(n + 1)) =
              IF IsOpen(car.edges[n + 1]) THEN Cardinality(OpenUpTo(n)) + 1 ELSE Cardinality(OpenUpTo(n))
<1>1. IsFiniteSet(OpenUpTo(n))
  <2>1. IsFiniteSet(1 .. n)
    BY FS_Interval
  <2>2. OpenUpTo(n) \subseteq 1 .. n
    BY DEF OpenUpTo
  <2>. QED  BY <2>1, <2>2, FS_Subset
<1>2. 1 .. n + 1 = (1 .. n) \cup {n + 1} /\ n + 1 \notin 1 .. n
  OBVIOUS
<1>3. OpenUpTo(n + 1) = OpenUpTo(n) \cup (IF IsOpen(car.edges[n + 1]) THEN {n + 1} ELSE {}) /\ n + 1 \notin OpenUpTo(n)
  BY <1>2 DEF OpenUpTo
<1>4. CASE IsOpen(car.edges[n + 1])
  BY <1>1, <1>3, <1>4, FS_AddElement
<1>5. CASE ~IsOpen(car.edges[n + 1])
  <2>1. OpenUpTo(n + 1) = OpenUpTo(n)
    BY <1>3, <1>5
  <2>. QED  BY <1>1, <1>5, <2>1
<1>. QED  BY <1>4, <1>5

\* All edges behind are drawn or counted.
EdgesIInv ==
  /\ FoundIInv
  /\ unresolved = Cardinality(OpenUpTo(EdgesBehind))
  /\ \A i \in 1 .. EdgesBehind : ~IsOpen(car.edges[i]) => DrawnIn(objs, car.edges[i], BothEnds(car.edges[i]))

LEMMA EdgesStay ==
  ASSUME EdgesIInv, FoundIInv', Grows(objs, objs'), car' = car, contentOf' = contentOf,
         unresolved' = unresolved, EdgesBehind' = EdgesBehind
  PROVE  EdgesIInv'
<1>1. \A e : BothEnds(e)' = BothEnds(e)
  BY DEF BothEnds, EndsOf, RowsAt, Made
<1>2. \A e : IsOpen(e)' <=> IsOpen(e)
  BY <1>1 DEF IsOpen
<1>3. \A n : OpenUpTo(n)' = OpenUpTo(n)
  BY <1>2 DEF OpenUpTo
<1>4. unresolved' = Cardinality(OpenUpTo(EdgesBehind)')
  BY <1>3 DEF EdgesIInv
<1>5. \A i \in 1 .. EdgesBehind' : ~IsOpen(car.edges[i])' => DrawnIn(objs', car'.edges[i], BothEnds(car.edges[i])')
  BY <1>1, <1>2, DrawnStays DEF EdgesIInv
<1>. QED  BY <1>4, <1>5 DEF EdgesIInv

LEMMA EdgesIInvEdge ==
  ASSUME EdgesIInv, Edge, NEW e, e = car.edges[at + 1]
  PROVE  EdgesIInv'
<1>. DEFINE s == SourceOf(e)
            t == TargetOf(e)
            f == Flagged(objs, e)
            put == Drawing(<< "relationship", e.class, e.verb, s, t, e.ts, e.method >>, s, t, e)
<1>1. /\ FoundIInv /\ FoundIInv' /\ Place /\ phase = "edges" /\ phase' = "edges" /\ at' = at + 1 /\ at \in Nat
      /\ car' = car /\ contentOf' = contentOf /\ at < Len(car.edges) /\ IsList(car.edges)
  <2>1. FoundIInv /\ Place
    BY DEF EdgesIInv, FoundIInv
  <2>. QED  BY <2>1, FoundIInvNext, StoreFacts DEF Next, Edge, Place
<1>2. e \in ToSet(car.edges)
  BY <1>1, ListHas
<1>3. EdgesBehind = at /\ EdgesBehind' = at + 1
  BY <1>1 DEF EdgesBehind
<1>4. IF s = Blank \/ t = Blank THEN unresolved' = unresolved + 1 /\ objs' = f
      ELSE objs' = Put(f, put) /\ unresolved' = unresolved
  BY DEF Edge
<1>5. Grows(objs, objs')
  BY <1>1, ObjectsGrow DEF Next
<1>6. /\ IsOpen(e) <=> s = Blank \/ t = Blank
      /\ ~IsOpen(e) => s \in BothEnds(e).source /\ t \in BothEnds(e).target
  BY <1>1, <1>2, EndsAreFound
<1>7. \A x : BothEnds(x)' = BothEnds(x)
  BY <1>1 DEF BothEnds, EndsOf, RowsAt, Made
<1>8. \A x : IsOpen(x)' <=> IsOpen(x)
  BY <1>7 DEF IsOpen
<1>9. unresolved' = Cardinality(OpenUpTo(EdgesBehind)')
  <2>1. /\ IsFiniteSet(OpenUpTo(at))
        /\ Cardinality(OpenUpTo(at + 1)) = IF IsOpen(e) THEN Cardinality(OpenUpTo(at)) + 1 ELSE Cardinality(OpenUpTo(at))
    BY <1>1, OpenNext
  <2>2. unresolved = Cardinality(OpenUpTo(at))
    BY <1>3 DEF EdgesIInv
  <2>. HIDE DEF s, t, f, put
  <2>3. unresolved' = Cardinality(OpenUpTo(at + 1))
    BY <1>4, <1>6, <2>1, <2>2
  <2>4. OpenUpTo(EdgesBehind)' = OpenUpTo(at + 1)
    BY <1>1, <1>3, <1>8 DEF OpenUpTo
  <2>. QED  BY <2>3, <2>4
<1>10. ~IsOpen(e) => DrawnIn(objs', e, BothEnds(e))
  <2>. HAVE ~IsOpen(e)
  <2>1. /\ s # Blank /\ t # Blank /\ s \in BothEnds(e).source /\ t \in BothEnds(e).target
        /\ objs' = Put(f, put)
    BY <1>4, <1>6
  <2>. HIDE DEF s, t, f
  <2>2. DrawnIn(Put(f, put), e, BothEnds(e))
    BY <2>1, EdgeIsDrawn
  <2>. HIDE DEF put
  <2>. QED  BY <2>1, <2>2
<1>11. \A i \in 1 .. EdgesBehind' : ~IsOpen(car.edges[i])' => DrawnIn(objs', car'.edges[i], BothEnds(car.edges[i])')
  <2>1. \A i \in 1 .. at : ~IsOpen(car.edges[i]) => DrawnIn(objs', car.edges[i], BothEnds(car.edges[i]))
    BY <1>3, <1>5, DrawnStays DEF EdgesIInv
  <2>2. \A i \in 1 .. at + 1 : i \in 1 .. at \/ i = at + 1
    BY <1>1
  <2>3. \A i \in 1 .. at + 1 : ~IsOpen(car.edges[i]) => DrawnIn(objs', car.edges[i], BothEnds(car.edges[i]))
    BY <1>10, <2>1, <2>2
  <2>. QED  BY <1>1, <1>3, <1>7, <1>8, <2>3
<1>. QED  BY <1>1, <1>9, <1>11 DEF EdgesIInv

LEMMA EdgesIInvNext ==
  ASSUME EdgesIInv, [Next]_vars
  PROVE  EdgesIInv'
<1>1. FoundIInv /\ FoundIInv' /\ Place
  BY FoundIInvNext DEF EdgesIInv, FoundIInv
<1>2. CASE UNCHANGED vars
  <2>1. Grows(objs, objs') /\ EdgesBehind' = EdgesBehind
    BY <1>2, GrowsFromItself DEF vars, EdgesBehind
  <2>. QED  BY <1>1, <1>2, <2>1, EdgesStay DEF vars
<1>3. CASE Content
  <2>1. unresolved = 0 /\ unresolved' = 0 /\ EdgesBehind' = 0
    BY <1>1, <1>3 DEF Content, Place, EdgesBehind
  <2>2. OpenUpTo(EdgesBehind)' = {}
    BY <2>1 DEF OpenUpTo
  <2>3. Cardinality({}) = 0
    BY FS_EmptySet
  <2>4. \A i : i \notin 1 .. EdgesBehind'
    BY <2>1
  <2>. QED  BY <1>1, <2>1, <2>2, <2>3, <2>4 DEF EdgesIInv
<1>4. CASE Edge
  BY <1>4, EdgesIInvEdge
<1>5. ASSUME Row \/ Node \/ Hit \/ Advance
      PROVE  EdgesIInv'
  <2>1. Advance => /\ phase \in DOMAIN NextPhase /\ phase' = NextPhase[phase] /\ at' = 0
                   /\ phase = "edges" => at = Len(car.edges)
    BY DEF Advance, Inputs
  <2>2. phase # "content" /\ contentOf' = contentOf /\ car' = car /\ unresolved' = unresolved
    BY <1>5, <2>1, Phases DEF Row, Node, Hit, Advance
  <2>3. EdgesBehind' = EdgesBehind
    <3>1. CASE Row \/ Node \/ Hit
      BY <2>2, <3>1 DEF Row, Node, Hit, EdgesBehind
    <3>2. CASE Advance
      BY <2>1, <2>2, <3>2, Phases DEF EdgesBehind
    <3>. QED  BY <1>5, <3>1, <3>2
  <2>4. Grows(objs, objs')
    BY <1>1, <1>5, <2>2, ObjectsGrow DEF Next
  <2>. QED  BY <1>1, <2>2, <2>3, <2>4, EdgesStay
<1>. QED  BY <1>2, <1>3, <1>4, <1>5 DEF Next

\* For any edges over any rows, each is drawn between objects of the records it
\* names or counted as unresolved, and it is counted only when one of them made
\* no object (Projection.edge, _end).
THEOREM EdgesAreDrawnOrCounted == Spec => []EdgesFindTheirEnds
<1>1. Init => EdgesIInv
  <2>. SUFFICES ASSUME Init
                PROVE  EdgesIInv
    OBVIOUS
  <2>1. Place /\ phase = "content" /\ unresolved = 0 /\ EdgesBehind = 0
    BY PlaceInit DEF Init, EdgesBehind
  <2>2. Past = {} /\ OpenUpTo(EdgesBehind) = {} /\ Cardinality({}) = 0
    BY <2>1, PastInRows, FS_EmptySet DEF OpenUpTo
  <2>3. FoundIInv
    BY <2>1, <2>2 DEF Init, FoundIInv, DrawingsAreKeyed, ProcessesAreNamed, NamedAreThere, PrimaryIsFound, ObservedIsFound
  <2>. QED  BY <2>1, <2>2, <2>3 DEF EdgesIInv
<1>2. EdgesIInv /\ [Next]_vars => EdgesIInv'
  BY EdgesIInvNext
<1>3. EdgesIInv => EdgesFindTheirEnds
  <2>. SUFFICES ASSUME EdgesIInv, phase \in {"hits", "done"}
                PROVE  DrawnOrCounted([i \in DOMAIN car.edges |-> BothEnds(car.edges[i])])
    BY DEF EdgesFindTheirEnds
  <2>. DEFINE ends == [i \in DOMAIN car.edges |-> BothEnds(car.edges[i])]
              open == {i \in DOMAIN ends : {} \in {ends[i].source, ends[i].target}}
  <2>1. DOMAIN car.edges = 1 .. Len(car.edges) /\ EdgesBehind = Len(car.edges)
    BY StoreFacts, ListLen DEF EdgesIInv, FoundIInv, Place, EdgesBehind
  <2>2. DOMAIN ends = 1 .. Len(car.edges) /\ \A i \in DOMAIN ends : ends[i] = BothEnds(car.edges[i])
    BY <2>1
  <2>3. open = OpenUpTo(Len(car.edges))
    BY <2>2 DEF OpenUpTo, IsOpen
  <2>4. DrawingsAreKeyed(objs)
    BY DEF EdgesIInv, FoundIInv
  <2>5. \A i \in DOMAIN ends \ open : Drawn(car.edges[i], ends[i])
    <3>1. \A i \in 1 .. Len(car.edges) : i \notin OpenUpTo(Len(car.edges)) => Drawn(car.edges[i], BothEnds(car.edges[i]))
      BY <2>1, <2>4, DrawnIsIn DEF EdgesIInv, OpenUpTo
    <3>. HIDE DEF ends, open
    <3>. QED  BY <2>2, <2>3, <3>1
  <2>6. unresolved = Cardinality(open)
    BY <2>1, <2>3 DEF EdgesIInv
  <2>. QED  BY <2>5, <2>6 DEF DrawnOrCounted
<1>. QED  BY <1>1, <1>2, <1>3, PTL DEF Spec

-----------------------------------------------------------------------------
(* Nothing is homeless.                                                    *)

\* A property that is a plain value; what an object says; what is said of a value.
Names(props, p, w) == p \in DOMAIN props \ (RefProps \cup ListProps) /\ props[p] = w /\ w # Blank
Says(props, w) ==
  \E p \in DOMAIN Given(props) \ RefProps :
    \/ p \notin ListProps /\ props[p] = w
    \/ p \in {"x_car_logins", "x_car_paths", "x_car_signers"} /\ w \in props[p]
    \/ p = "values" /\ \E t \in props[p] : w \in ToSet(t)
SaidIn(puts, w) == \E x \in ToSet(puts) : Says(x[2], w)
ToldIn(puts, v) == \E w \in Traces(v) : SaidIn(puts, w)
HasHome(r, c, puts) == Peek(r, c) = Blank \/ KnownLost(r, c) \/ ToldIn(puts, Peek(r, c))
\* A piece has a home for all that it consumes.
Homes(r, p) == \A c \in p.used : HasHome(r, c, p.puts)

LEMMA NamesSay ==
  ASSUME NEW props, NEW p, NEW w, Names(props, p, w)
  PROVE  Says(props, w)
<1>1. p \in DOMAIN Given(props) \ RefProps /\ p \notin ListProps /\ props[p] = w
  BY WhatIsGiven DEF Names
<1>. QED  BY <1>1 DEF Says

LEMMA NamesOver ==
  ASSUME NEW f, NEW g, NEW p, NEW w
  PROVE  /\ Names(f, p, w) => Names(f ++ g, p, w)
         /\ Names(g, p, w) /\ p \notin DOMAIN f => Names(f ++ g, p, w)
  BY DEF Names, ++

LEMMA NamesProp ==
  ASSUME NEW p, NEW w, p \notin RefProps \cup ListProps, w # Blank
  PROVE  Names(Prop(p, w), p, w)
  BY DEF Names, Prop

LEMMA HomesMore ==
  ASSUME NEW r, NEW c, NEW a, NEW b, ToSet(a) \subseteq ToSet(b), HasHome(r, c, a)
  PROVE  HasHome(r, c, b)
  BY DEF HasHome, ToldIn, SaidIn

LEMMA AValueIsATrace ==
  ASSUME NEW v, v # Blank
  PROVE  v \in Traces(v)
  BY DEF Traces

LEMMA SaidIsHome ==
  ASSUME NEW r, NEW c, NEW puts, Peek(r, c) # Blank => SaidIn(puts, Peek(r, c))
  PROVE  HasHome(r, c, puts)
  BY AValueIsATrace DEF HasHome, ToldIn

LEMMA ReadIsATrace ==
  ASSUME NEW r, NEW how \in Readers \cup {"get"}, NEW c, Take(r, how, c) # Blank
  PROVE  Take(r, how, c) \in Traces(Peek(r, c))
<1>1. Take(r, how, c) = Peek(r, c) \/ Take(r, how, c) = Reads[how][Peek(r, c)]
  BY DEF Take
<1>2. how = "get" => Take(r, how, c) = Peek(r, c)
  BY DEF Take
<1>3. DOMAIN Reads = Readers
  BY ReadsAssumption
<1>. QED  BY <1>1, <1>2, <1>3 DEF Traces

\* A table names a property once, and reads it with a reader.
TableIsSound(table) ==
  \A t \in table :
    /\ t[1] \notin RefProps \cup ListProps /\ t[2] \in Readers \cup {"get"}
    /\ \A u \in table : t[1] = u[1] => t = u
PropsOf(table) == {t[1] : t \in table}

LEMMA UsedIsNamed ==
  ASSUME NEW r, NEW table, TableIsSound(table), NEW c \in Used(r, table)
  PROVE  \E p \in PropsOf(table), w \in Traces(Peek(r, c)) : Names(Props(r, table), p, w)
<1>1. PICK t \in Live(r, table) : c = t[3]
  BY DEF Used
<1>2. t \in table /\ Take(r, t[2], t[3]) # Blank
  BY DEF Live
<1>3. \A u \in Live(r, table) : u[1] = t[1] => u = t
  BY <1>2 DEF TableIsSound, Live
<1>. DEFINE u == CHOOSE u \in Live(r, table) : u[1] = t[1]
<1>4. u = t
  <2>1. u \in Live(r, table) /\ u[1] = t[1]
    OBVIOUS
  <2>. QED  BY <1>3, <2>1
<1>5. t[1] \in DOMAIN Props(r, table) /\ Props(r, table)[t[1]] = Take(r, t[2], t[3])
  <2>1. t[1] \in {x[1] : x \in Live(r, table)}
    OBVIOUS
  <2>2. Props(r, table)[t[1]] = Take(r, u[2], u[3])
    BY <2>1 DEF Props
  <2>3. DOMAIN Props(r, table) = {x[1] : x \in Live(r, table)}
    BY DEF Props
  <2>. HIDE DEF u
  <2>. QED  BY <1>4, <2>1, <2>2, <2>3
<1>6. Take(r, t[2], c) \in Traces(Peek(r, c))
  BY <1>1, <1>2, ReadIsATrace DEF TableIsSound
<1>7. Names(Props(r, table), t[1], Take(r, t[2], c))
  BY <1>1, <1>2, <1>5 DEF Names, TableIsSound
<1>8. t[1] \in PropsOf(table)
  BY <1>2 DEF PropsOf
<1>. QED  BY <1>6, <1>7, <1>8

\* All of the columns of a table that are used have a home where they are said.
LEMMA TableHasHome ==
  ASSUME NEW r, NEW table, TableIsSound(table), NEW puts,
         \A p \in PropsOf(table) : \A w : Names(Props(r, table), p, w) => SaidIn(puts, w)
  PROVE  \A c \in Used(r, table) : HasHome(r, c, puts)
  BY UsedIsNamed DEF HasHome, ToldIn

\* Pieces put together.
LEMMA HomesNothing ==
  ASSUME NEW r
  PROVE  Homes(r, Nothing)
  BY NothingFacts DEF Homes

LEMMA HomesAnd ==
  ASSUME NEW r, NEW p, NEW q, IsList(p.puts), IsList(q.puts), Homes(r, p), Homes(r, q)
  PROVE  Homes(r, And(p, q))
<1>. DEFINE a == And(p, q)
<1>1. a.used = p.used \cup q.used /\ ToSet(a.puts) = ToSet(p.puts) \cup ToSet(q.puts)
  BY AndFacts
<1>. HIDE DEF a
<1>2. ToSet(p.puts) \subseteq ToSet(a.puts) /\ ToSet(q.puts) \subseteq ToSet(a.puts)
  BY <1>1
<1>3. Homes(r, a)
  BY <1>1, <1>2, HomesMore DEF Homes
<1>. QED  BY <1>3 DEF a

LEMMA HomesNamed ==
  ASSUME NEW r, NEW p, NEW id, Homes(r, p)
  PROVE  Homes(r, Named(p, id))
  BY NamedFacts DEF Homes

LEMMA HomesLed ==
  ASSUME NEW r, NEW p, NEW q, IsList(p.puts), IsList(q.puts), Homes(r, p), Homes(r, q)
  PROVE  Homes(r, Led(p, q))
  BY HomesAnd, HomesNamed DEF Led

LEMMA HomesConsuming ==
  ASSUME NEW r, NEW p, NEW used, Homes(r, p), \A c \in used : HasHome(r, c, p.puts)
  PROVE  Homes(r, Consuming(p, used))
  BY ConsumingFacts DEF Homes

LEMMA HomesAll ==
  ASSUME NEW r, NEW ps, IsList(ps), \A i \in DOMAIN ps : IsList(ps[i].puts) /\ Homes(r, ps[i])
  PROVE  Homes(r, All(ps))
<1>. DEFINE a == All(ps)
<1>1. /\ \A x : x \in ToSet(a.puts) <=> \E i \in DOMAIN ps : x \in ToSet(ps[i].puts)
      /\ \A c : c \in a.used <=> \E i \in DOMAIN ps : c \in ps[i].used
  BY AllFacts
<1>. HIDE DEF a
<1>2. ASSUME NEW c \in a.used
      PROVE  HasHome(r, c, a.puts)
  <2>1. PICK i \in DOMAIN ps : c \in ps[i].used
    BY <1>1
  <2>2. HasHome(r, c, ps[i].puts) /\ ToSet(ps[i].puts) \subseteq ToSet(a.puts)
    BY <1>1, <2>1 DEF Homes
  <2>. QED  BY <2>2, HomesMore
<1>3. Homes(r, a)
  BY <1>2 DEF Homes
<1>. QED  BY <1>3 DEF a

LEMMA OneSays ==
  ASSUME NEW id, NEW props, NEW w, Says(props, w)
  PROVE  SaidIn(One(id, props).puts, w)
<1>1. << id, props >> \in ToSet(One(id, props).puts)
  BY OneFacts
<1>2. << id, props >>[2] = props
  OBVIOUS
<1>. QED  BY <1>1, <1>2 DEF SaidIn

LEMMA ValueSays ==
  ASSUME NEW kind, NEW how \in Readers, NEW r, NEW col
  PROVE  LET p == Value(kind, how, r, col)
         IN  /\ p.used = {} /\ IsList(p.puts)
             /\ Take(r, how, col) # Blank => HasHome(r, col, p.puts)
             /\ Take(r, how, col) = Blank => p = Nothing
<1>. DEFINE p == Value(kind, how, r, col)
            v == Take(r, how, col)
            o == One(<< kind, v >>, Prop("value", v))
<1>1. p = IF v = Blank THEN Nothing ELSE o
  BY DEF Value
<1>2. o.used = {} /\ IsList(o.puts)
  BY OneFacts
<1>3. v # Blank => SaidIn(o.puts, v)
  <2>1. "value" \notin RefProps \cup ListProps
    BY DEF RefProps, ListProps
  <2>. HIDE DEF v
  <2>. QED  BY <2>1, NamesProp, NamesSay, OneSays
<1>4. v # Blank => v \in Traces(Peek(r, col))
  BY ReadIsATrace
<1>5. v # Blank => HasHome(r, col, o.puts)
  BY <1>3, <1>4 DEF HasHome, ToldIn
<1>. HIDE DEF o, p, v
<1>6. /\ p.used = {} /\ IsList(p.puts) /\ (v # Blank => HasHome(r, col, p.puts)) /\ (v = Blank => p = Nothing)
  BY <1>1, <1>2, <1>5, NothingFacts, ListEmpty
<1>. QED  BY <1>6 DEF p, v

LEMMA EndHomes ==
  ASSUME NEW r, NEW e, e[3] \in {"ip", "text"},
         e[3] = "text" => r.obj \in {"http", "email"} /\ e \in ToSet(Shape[r.obj].ends)
  PROVE  Homes(r, End(r, e)) /\ IsList(End(r, e).puts)
<1>. DEFINE p == Value(e[2], e[3], r, e[4])
            v == Take(r, e[3], e[4])
            used == IF e[3] = "ip" /\ p = Nothing THEN {} ELSE Present(r, {e[4]})
<1>1. End(r, e) = Consuming(p, used)
  BY DEF End
<1>2. /\ p.used = {} /\ IsList(p.puts) /\ (v # Blank => HasHome(r, e[4], p.puts)) /\ (v = Blank => p = Nothing)
  BY ValueSays DEF Readers
<1>3. v = Blank /\ e[3] = "text" => KnownLost(r, e[4])
  BY DEF KnownLost
<1>4. \A c \in used : c = e[4]
  BY DEF Present
<1>5. \A c \in used : HasHome(r, c, p.puts)
  <2>. TAKE c \in used
  <2>1. CASE v # Blank
    BY <1>2, <1>4, <2>1
  <2>2. CASE v = Blank
    <3>1. e[3] = "text"
      BY <1>2, <2>2
    <3>. QED  BY <1>3, <1>4, <2>2, <3>1 DEF HasHome
  <2>. QED  BY <2>1, <2>2
<1>. HIDE DEF p, used
<1>6. Homes(r, p)
  BY <1>2 DEF Homes
<1>7. Consuming(p, used).puts = p.puts
  BY ConsumingFacts
<1>. QED  BY <1>1, <1>2, <1>5, <1>6, <1>7, HomesConsuming

LEMMA AccountSays ==
  ASSUME NEW host, NEW ident, NEW name
  PROVE  LET p == Account(host, ident, name)
         IN  /\ p.used = {} /\ IsList(p.puts)
             /\ ident # Blank => ToldIn(p.puts, ident)
             /\ name # Blank => SaidIn(p.puts, name)
<1>. DEFINE sid == IF ident = Blank THEN Blank ELSE Reads["sid"][ident]
            id == IF sid # Blank THEN << "user-account", sid >>
                  ELSE IF ident # Blank THEN << "user-account", host, "id", ident >>
                  ELSE << "user-account", host, "name", name >>
            known == Prop("user_id", sid) ++ Prop("display_name", name) ++ Prop("x_car_logins", Some(name))
            local == Prop("user_id", ident) ++ Prop("account_login", name)
            props == IF sid # Blank THEN known ELSE local
            p == Account(host, ident, name)
            o == One(id, props)
<1>1. p = IF ident = Blank /\ name = Blank THEN Nothing ELSE o
  BY DEF Account
<1>2. /\ "user_id" \notin RefProps \cup ListProps /\ "account_login" \notin RefProps \cup ListProps
      /\ "display_name" \notin RefProps \cup ListProps
  BY DEF RefProps, ListProps
<1>3. DOMAIN Prop("user_id", sid) = {"user_id"} /\ DOMAIN Prop("user_id", ident) = {"user_id"}
  BY DEF Prop
<1>4. sid # Blank => Says(known, sid)
  <2>. HIDE DEF sid
  <2>. QED  BY <1>2, NamesProp, NamesOver, NamesSay
<1>5. name # Blank => Says(known, name)
  <2>1. name # Blank => Names(Prop("display_name", name), "display_name", name)
    BY <1>2, NamesProp
  <2>2. name # Blank => Names(Prop("user_id", sid) ++ Prop("display_name", name), "display_name", name)
    BY <1>3, <2>1, NamesOver
  <2>. HIDE DEF sid
  <2>. QED  BY <2>2, NamesOver, NamesSay
<1>6. ident # Blank => Says(local, ident)
  BY <1>2, NamesProp, NamesOver, NamesSay
<1>7. name # Blank => Says(local, name)
  <2>1. name # Blank => Names(Prop("account_login", name), "account_login", name)
    BY <1>2, NamesProp
  <2>2. name # Blank => Names(local, "account_login", name)
    BY <1>3, <2>1, NamesOver
  <2>. QED  BY <2>2, NamesSay
<1>8. sid # Blank => sid \in Traces(ident)
  BY ReadsAssumption DEF Traces, Readers
<1>9. ident # Blank => ident \in Traces(ident)
  BY AValueIsATrace
<1>. HIDE DEF known, local, sid, id
<1>10. ident # Blank \/ name # Blank => o.used = {} /\ IsList(o.puts)
  BY OneFacts
<1>11. ident # Blank => ToldIn(o.puts, ident)
  <2>1. CASE sid # Blank
    BY <1>4, <1>8, <2>1, OneSays DEF ToldIn
  <2>2. CASE sid = Blank
    BY <1>6, <1>9, <2>2, OneSays DEF ToldIn
  <2>. QED  BY <2>1, <2>2
<1>12. name # Blank => SaidIn(o.puts, name)
  BY <1>5, <1>7, OneSays
<1>. HIDE DEF o, p
<1>13. p.used = {} /\ IsList(p.puts) /\ (ident # Blank => ToldIn(p.puts, ident)) /\ (name # Blank => SaidIn(p.puts, name))
  BY <1>1, <1>10, <1>11, <1>12, NothingFacts, ListEmpty
<1>. QED  BY <1>13 DEF p

LEMMA AccountHomes ==
  ASSUME NEW r, NEW ident, NEW name
  PROVE  Homes(r, AccountOf(r, ident, name)) /\ IsList(AccountOf(r, ident, name).puts)
<1>. DEFINE p == Account(r.host, Peek(r, ident), Peek(r, name))
            used == Present(r, {ident, name})
<1>1. AccountOf(r, ident, name) = Consuming(p, used)
  BY DEF AccountOf
<1>2. /\ p.used = {} /\ IsList(p.puts)
      /\ Peek(r, ident) # Blank => ToldIn(p.puts, Peek(r, ident))
      /\ Peek(r, name) # Blank => SaidIn(p.puts, Peek(r, name))
  BY AccountSays
<1>. HIDE DEF p
<1>3. HasHome(r, ident, p.puts) /\ HasHome(r, name, p.puts)
  BY <1>2, SaidIsHome DEF HasHome
<1>4. used \subseteq {ident, name}
  BY DEF Present
<1>5. Homes(r, p)
  BY <1>2 DEF Homes
<1>. HIDE DEF used
<1>6. Consuming(p, used).puts = p.puts
  BY ConsumingFacts
<1>7. Homes(r, Consuming(p, used))
  BY <1>3, <1>4, <1>5, HomesConsuming
<1>. QED  BY <1>1, <1>2, <1>6, <1>7

HashesAreSound(hashes) ==
  \A h \in hashes : h[1] \in ToSet(HashColumns) /\ h[2] # Blank /\ \A g \in hashes : g[1] = h[1] => g = h
FileNames == {"name", "x_car_path"} \cup ToSet(HashColumns)

LEMMA FileNamesFacts ==
  /\ FileNames = {"name", "x_car_path", "md5_hash", "sha1_hash", "sha256_hash"}
  /\ ToSet(HashColumns) = {"md5_hash", "sha1_hash", "sha256_hash"}
  /\ FileNames \cap (RefProps \cup ListProps) = {}
<1>1. ToSet(HashColumns) = {"md5_hash", "sha1_hash", "sha256_hash"}
  BY DEF HashColumns, ToSet
<1>2. FileNames = {"name", "x_car_path", "md5_hash", "sha1_hash", "sha256_hash"}
  BY <1>1 DEF FileNames
<1>. QED  BY <1>1, <1>2 DEF RefProps, ListProps

LEMMA HashesOfARow ==
  ASSUME NEW r
  PROVE  /\ HashesAreSound(Hashes(r)) /\ HashesAreSound({})
         /\ \A h \in Hashes(r) : h[2] = Take(r, "hash", h[1]) /\ h[2] \in Traces(Peek(r, h[1]))
<1>1. ASSUME NEW h \in Hashes(r)
      PROVE  h[1] \in ToSet(HashColumns) /\ h[2] = Take(r, "hash", h[1]) /\ h[2] # Blank /\ h = << h[1], h[2] >>
  BY DEF Hashes
<1>2. \A h \in Hashes(r) : h[2] \in Traces(Peek(r, h[1]))
  <2>1. "hash" \in Readers \cup {"get"}
    BY DEF Readers
  <2>. QED  BY <1>1, <2>1, ReadIsATrace
<1>3. HashesAreSound(Hashes(r))
  <2>1. \A h, g \in Hashes(r) : g[1] = h[1] => g = h
    BY <1>1
  <2>. QED  BY <1>1, <2>1 DEF HashesAreSound
<1>. QED  BY <1>1, <1>2, <1>3 DEF HashesAreSound

\* A file says its path, its name, its hashes and what it is given.
LEMMA FileSays ==
  ASSUME NEW host, NEW path, NEW name, NEW hashes, NEW ref, NEW props, NEW row,
         HashesAreSound(hashes), DOMAIN props \cap FileNames = {}, row[2] # Blank
  PROVE  LET p == FileAt(host, path, name, hashes, ref, props, row)
         IN  /\ p.used = {} /\ IsList(p.puts)
             /\ path # Blank => SaidIn(p.puts, path)
             /\ name # Blank => SaidIn(p.puts, name)
             /\ \A h \in hashes : SaidIn(p.puts, h[2])
             /\ \A q, w : Names(props, q, w) => SaidIn(p.puts, w)
<1>. DEFINE id == IF path # Blank THEN << "file", host, "path", path >>
                  ELSE IF name # Blank THEN << "file", host, "name", name >>
                  ELSE << "file", host, "row", row[1], row[2] >>
            key == IF path # Blank THEN path ELSE IF name # Blank THEN name ELSE row[2]
            base == IF name # Blank THEN name ELSE IF path # Blank THEN Reads["base"][path] ELSE Blank
            up  == IF path = Blank \/ Reads["dir"][path] = Blank THEN Nothing
                   ELSE Directory(host, Reads["dir"][path])
            byName == [f \in {h[1] : h \in hashes} |-> (CHOOSE h \in hashes : h[1] = f)[2]]
            some == Prop("name", base) ++ Prop("x_car_path", path) ++ Prop("parent_directory_ref", up.id)
                    ++ Prop("x_car_content_ref", ref)
            own == some ++ byName
            all == props ++ own
            file == Minted(key, id, all)
            none == path = Blank /\ name = Blank /\ hashes = {} /\ DOMAIN props = {}
            p == FileAt(host, path, name, hashes, ref, props, row)
<1>1. p = IF none THEN Nothing ELSE And(up, file)
  BY DEF FileAt
<1>2. key # Blank
  OBVIOUS
<1>3. IsList(up.puts) /\ up.used = {}
  <2>1. \A d : IsList(Directory(host, d).puts) /\ Directory(host, d).used = {}
    BY OneFacts DEF Directory
  <2>. QED  BY <2>1, NothingFacts, ListEmpty
<1>4. DOMAIN some = {"name", "x_car_path", "parent_directory_ref", "x_car_content_ref"}
  BY DEF ++, Prop
<1>5. path # Blank => Names(own, "x_car_path", path)
  <2>. HAVE path # Blank
  <2>1. Names(Prop("x_car_path", path), "x_car_path", path)
    BY FileNamesFacts, NamesProp
  <2>2. DOMAIN Prop("name", base) = {"name"}
    BY DEF Prop
  <2>3. Names(Prop("name", base) ++ Prop("x_car_path", path), "x_car_path", path)
    BY <2>1, <2>2, NamesOver
  <2>. HIDE DEF base, up, byName
  <2>. QED  BY <2>3, NamesOver
<1>6. name # Blank => Names(own, "name", name)
  <2>. HAVE name # Blank
  <2>1. Names(Prop("name", base), "name", name)
    BY FileNamesFacts, NamesProp
  <2>. HIDE DEF base, up, byName
  <2>. QED  BY <2>1, NamesOver
<1>7. \A h \in hashes : Names(own, h[1], h[2])
  <2>. TAKE h \in hashes
  <2>. DEFINE g == CHOOSE g \in hashes : g[1] = h[1]
  <2>1. g \in hashes /\ g[1] = h[1]
    OBVIOUS
  <2>2. g = h
    BY <2>1 DEF HashesAreSound
  <2>3. h[1] \in DOMAIN byName /\ byName[h[1]] = g[2]
    OBVIOUS
  <2>. HIDE DEF g, byName, some
  <2>4. h[1] \in ToSet(HashColumns) /\ h[2] # Blank
    BY DEF HashesAreSound
  <2>5. h[1] \notin RefProps \cup ListProps /\ h[1] \notin DOMAIN some
    BY <1>4, <2>4, FileNamesFacts
  <2>6. Names(byName, h[1], h[2])
    BY <2>2, <2>3, <2>4, <2>5 DEF Names
  <2>. QED  BY <2>5, <2>6, NamesOver
<1>. HIDE DEF id, key, base, up, byName, some, own
<1>8. \A q, w : Names(props, q, w) => Names(all, q, w)
  BY NamesOver
<1>9. \A q, w : Names(own, q, w) /\ q \in FileNames => Names(all, q, w)
  BY NamesOver
<1>. HIDE DEF all
<1>10. file.used = {} /\ IsList(file.puts) /\ \A q, w : Names(all, q, w) => SaidIn(file.puts, w)
  <2>1. file = One(id, all)
    BY <1>2 DEF Minted
  <2>2. One(id, all).used = {} /\ IsList(One(id, all).puts)
    BY OneFacts
  <2>3. \A q, w : Names(all, q, w) => SaidIn(One(id, all).puts, w)
    BY NamesSay, OneSays
  <2>. HIDE DEF file
  <2>. QED  BY <2>1, <2>2, <2>3
<1>. HIDE DEF file
<1>11. /\ And(up, file).used = {} /\ IsList(And(up, file).puts)
       /\ \A w : SaidIn(file.puts, w) => SaidIn(And(up, file).puts, w)
  <2>1. /\ IsList(And(up, file).puts) /\ And(up, file).used = up.used \cup file.used
        /\ ToSet(And(up, file).puts) = ToSet(up.puts) \cup ToSet(file.puts)
    BY <1>3, <1>10, AndFacts
  <2>2. And(up, file).used = {}
    BY <1>3, <1>10, <2>1
  <2>3. \A w : SaidIn(file.puts, w) => SaidIn(And(up, file).puts, w)
    BY <2>1 DEF SaidIn
  <2>. QED  BY <2>1, <2>2, <2>3
<1>12. CASE none
  <2>1. \A q, w : ~Names(props, q, w)
    BY <1>12 DEF Names
  <2>. HIDE DEF p
  <2>2. p = Nothing
    BY <1>1, <1>12
  <2>3. /\ p.used = {} /\ IsList(p.puts)
    BY <2>2, NothingFacts, ListEmpty
  <2>. QED  BY <1>12, <2>1, <2>3 DEF p
<1>13. CASE ~none
  <2>. HIDE DEF none, p
  <2>1. p = And(up, file)
    BY <1>1, <1>13
  <2>2. \A q, w : Names(all, q, w) => SaidIn(p.puts, w)
    BY <1>10, <1>11, <2>1
  <2>3. "name" \in FileNames /\ "x_car_path" \in FileNames /\ \A h \in hashes : h[1] \in FileNames
    BY DEF FileNames, HashesAreSound
  <2>4. path # Blank => SaidIn(p.puts, path)
    BY <1>5, <1>9, <2>2, <2>3
  <2>5. name # Blank => SaidIn(p.puts, name)
    BY <1>6, <1>9, <2>2, <2>3
  <2>6. \A h \in hashes : SaidIn(p.puts, h[2])
    BY <1>7, <1>9, <2>2, <2>3
  <2>7. \A q, w : Names(props, q, w) => SaidIn(p.puts, w)
    BY <1>8, <2>2
  <2>8. p.used = {} /\ IsList(p.puts)
    BY <1>11, <2>1
  <2>. QED  BY <2>4, <2>5, <2>6, <2>7, <2>8 DEF p
<1>. QED  BY <1>12, <1>13

\* A process says its identity and what it is given, its image the rest.
LEMMA ProcessSays ==
  ASSUME NEW host, NEW guid, NEW props, NEW path, NEW name, NEW hashes, NEW ref, NEW imageProps,
         guid # Blank, HashesAreSound(hashes), DOMAIN imageProps \cap FileNames = {}, "x_car_entity_id" \notin DOMAIN props
  PROVE  LET p == Process(host, guid, props, path, name, hashes, ref, imageProps)
         IN  /\ p.used = {} /\ IsList(p.puts)
             /\ SaidIn(p.puts, guid)
             /\ path # Blank => SaidIn(p.puts, path)
             /\ name # Blank => SaidIn(p.puts, name)
             /\ \A h \in hashes : SaidIn(p.puts, h[2])
             /\ \A q, w : Names(props, q, w) => SaidIn(p.puts, w)
             /\ path # Blank \/ name # Blank \/ hashes # {} => \A q, w : Names(imageProps, q, w) => SaidIn(p.puts, w)
<1>. DEFINE none == path = Blank /\ name = Blank /\ hashes = {}
            file == FileAt(host, path, name, hashes, ref, imageProps, << "process", guid >>)
            image == IF none THEN Nothing ELSE file
            id == << "process", host, guid >>
            all == props ++ Prop("x_car_entity_id", guid) ++ Prop("image_ref", image.id)
            self == One(id, all)
            p == Process(host, guid, props, path, name, hashes, ref, imageProps)
<1>1. p = And(image, self)
  BY DEF Process, Running, Minted
<1>2. /\ file.used = {} /\ IsList(file.puts)
      /\ path # Blank => SaidIn(file.puts, path)
      /\ name # Blank => SaidIn(file.puts, name)
      /\ \A h \in hashes : SaidIn(file.puts, h[2])
      /\ \A q, w : Names(imageProps, q, w) => SaidIn(file.puts, w)
  <2>. DEFINE row == << "process", guid >>
  <2>1. row[2] # Blank
    OBVIOUS
  <2>2. file = FileAt(host, path, name, hashes, ref, imageProps, row)
    OBVIOUS
  <2>. HIDE DEF row
  <2>. QED  BY <2>1, <2>2, FileSays
<1>. HIDE DEF file
<1>3. /\ image.used = {} /\ IsList(image.puts)
      /\ path # Blank => SaidIn(image.puts, path)
      /\ name # Blank => SaidIn(image.puts, name)
      /\ \A h \in hashes : SaidIn(image.puts, h[2])
      /\ path # Blank \/ name # Blank \/ hashes # {} => \A q, w : Names(imageProps, q, w) => SaidIn(image.puts, w)
  BY <1>2, NothingFacts, ListEmpty
<1>. HIDE DEF image
<1>4. Names(all, "x_car_entity_id", guid)
  <2>1. "x_car_entity_id" \notin RefProps \cup ListProps
    BY DEF RefProps, ListProps
  <2>2. Names(props ++ Prop("x_car_entity_id", guid), "x_car_entity_id", guid)
    BY <2>1, NamesProp, NamesOver
  <2>. QED  BY <2>2, NamesOver
<1>5. \A q, w : Names(props, q, w) => Names(all, q, w)
  BY NamesOver
<1>. HIDE DEF all
<1>6. self.used = {} /\ IsList(self.puts) /\ \A q, w : Names(all, q, w) => SaidIn(self.puts, w)
  BY OneFacts, NamesSay, OneSays
<1>. HIDE DEF self, id
<1>7. /\ IsList(p.puts) /\ p.used = image.used \cup self.used
      /\ ToSet(p.puts) = ToSet(image.puts) \cup ToSet(self.puts)
  BY <1>1, <1>3, <1>6, AndFacts
<1>. HIDE DEF p
<1>8. \A w : SaidIn(image.puts, w) \/ SaidIn(self.puts, w) => SaidIn(p.puts, w)
  BY <1>7 DEF SaidIn
<1>9. p.used = {} /\ IsList(p.puts)
  BY <1>3, <1>6, <1>7
<1>10. SaidIn(p.puts, guid) /\ \A q, w : Names(props, q, w) => SaidIn(p.puts, w)
  BY <1>4, <1>5, <1>6, <1>8
<1>11. /\ path # Blank => SaidIn(p.puts, path)
       /\ name # Blank => SaidIn(p.puts, name)
       /\ \A h \in hashes : SaidIn(p.puts, h[2])
       /\ path # Blank \/ name # Blank \/ hashes # {} => \A q, w : Names(imageProps, q, w) => SaidIn(p.puts, w)
  BY <1>3, <1>8
<1>. QED  BY <1>9, <1>10, <1>11 DEF p

\* The tables name each property once.
LEMMA ProcessTables ==
  /\ TableIsSound(ParentColumns) /\ TableIsSound(SaidOfParent) /\ TableIsSound(ProcessColumns) /\ TableIsSound(Signer)
  /\ \A c : TableIsSound({<< "pid", "int", c >>})
  /\ "x_car_entity_id" \notin PropsOf(ParentColumns) \cup PropsOf(SaidOfParent) \cup PropsOf(ProcessColumns)
  /\ PropsOf(Signer) \cap FileNames = {}
  /\ PropsOf(ProcessColumns) \cap PropsOf(SaidOfParent) = {}
  /\ PropsOf(ProcessColumns) = {"pid", "command_line", "cwd", "integrity_level"}
  /\ PropsOf(SaidOfParent) = {"x_car_parent.pid", "x_car_parent.command_line", "x_car_parent.image_path", "x_car_parent.exe"}
<1>1. TableIsSound(ParentColumns)
  BY DEF TableIsSound, ParentColumns, RefProps, ListProps, Readers
<1>2. TableIsSound(SaidOfParent)
  BY DEF TableIsSound, SaidOfParent, RefProps, ListProps, Readers
<1>3. TableIsSound(ProcessColumns)
  BY DEF TableIsSound, ProcessColumns, RefProps, ListProps, Readers
<1>4. TableIsSound(Signer)
  BY DEF TableIsSound, Signer, RefProps, ListProps, Readers
<1>5. \A c : TableIsSound({<< "pid", "int", c >>})
  BY DEF TableIsSound, RefProps, ListProps, Readers
<1>6. PropsOf(ParentColumns) = {"pid", "command_line"}
  BY DEF PropsOf, ParentColumns
<1>7. PropsOf(SaidOfParent) = {"x_car_parent.pid", "x_car_parent.command_line", "x_car_parent.image_path", "x_car_parent.exe"}
  BY DEF PropsOf, SaidOfParent
<1>8. PropsOf(ProcessColumns) = {"pid", "command_line", "cwd", "integrity_level"}
  BY DEF PropsOf, ProcessColumns
<1>9. PropsOf(Signer) = {"x_car_signer", "x_car_signature_valid"}
  BY DEF PropsOf, Signer
<1>. QED  BY <1>1, <1>2, <1>3, <1>4, <1>5, <1>6, <1>7, <1>8, <1>9, FileNamesFacts

LEMMA PropsAreOfTables ==
  ASSUME NEW r, NEW table
  PROVE  DOMAIN Props(r, table) \subseteq PropsOf(table)
  BY ColumnsAreProps DEF PropsOf

\* The parent of a process, when the cascade resolved it.
LEMMA ParentHomes ==
  ASSUME NEW r
  PROVE  /\ IsList(ParentOf(r).puts)
         /\ ParentOf(r).used \subseteq {"parent_guid"} \cup Used(r, ParentColumns) \cup Present(r, ParentImage)
         /\ Peek(r, "parent_guid") # Blank => Homes(r, ParentOf(r))
         /\ Peek(r, "parent_guid") = Blank => "parent_guid" \notin ParentOf(r).used
<1>. DEFINE g == Peek(r, "parent_guid")
            props == Props(r, ParentColumns)
            path == Peek(r, "parent_image_path")
            name == Peek(r, "parent_exe")
            p == Process(r.host, g, props, path, name, {}, Blank, << >>)
            used == Used(r, ParentColumns) \cup Present(r, ParentImage)
            inner == IF g = Blank THEN Nothing ELSE Consuming(p, {"parent_guid"})
<1>1. ParentOf(r) = Consuming(inner, used)
  BY DEF ParentOf
<1>2. CASE g = Blank
  <2>1. "parent_guid" \notin used
    <3>1. "parent_guid" \notin Used(r, ParentColumns)
      BY DEF Used, Live, ParentColumns
    <3>2. "parent_guid" \notin Present(r, ParentImage)
      BY DEF Present, ParentImage
    <3>. QED  BY <3>1, <3>2
  <2>. HIDE DEF used, p
  <2>2. inner = Nothing
    BY <1>2
  <2>. HIDE DEF inner
  <2>3. ParentOf(r).puts = << >> /\ ParentOf(r).used = used
    <3>1. ParentOf(r).puts = inner.puts /\ ParentOf(r).used = inner.used \cup used
      BY <1>1, ConsumingFacts
    <3>2. inner.puts = << >> /\ inner.used = {}
      BY <2>2, NothingFacts
    <3>. QED  BY <3>1, <3>2
  <2>. QED  BY <1>2, <2>1, <2>3, ListEmpty DEF used
<1>3. CASE g # Blank
  <2>1. "x_car_entity_id" \notin DOMAIN props
    BY PropsAreOfTables, ProcessTables
  <2>2. HashesAreSound({}) /\ DOMAIN << >> \cap FileNames = {}
    BY HashesOfARow, NoProps
  <2>. HIDE DEF g, props, path, name
  <2>3. /\ p.used = {} /\ IsList(p.puts)
        /\ SaidIn(p.puts, g)
        /\ path # Blank => SaidIn(p.puts, path)
        /\ name # Blank => SaidIn(p.puts, name)
        /\ \A h \in {} : SaidIn(p.puts, h[2])
        /\ \A q, w : Names(props, q, w) => SaidIn(p.puts, w)
        /\ path # Blank \/ name # Blank \/ {} # {} => \A q, w : Names(<< >>, q, w) => SaidIn(p.puts, w)
    BY <1>3, <2>1, <2>2, ProcessSays
  <2>. HIDE DEF p
  <2>4. HasHome(r, "parent_guid", p.puts) /\ HasHome(r, "parent_image_path", p.puts) /\ HasHome(r, "parent_exe", p.puts)
    BY <2>3, SaidIsHome DEF g, path, name
  <2>5. \A c \in Used(r, ParentColumns) : HasHome(r, c, p.puts)
    BY <2>3, ProcessTables, TableHasHome DEF props
  <2>6. Present(r, ParentImage) \subseteq {"parent_image_path", "parent_exe"}
    BY DEF Present, ParentImage
  <2>7. Homes(r, p)
    BY <2>3 DEF Homes
  <2>. DEFINE pg == Consuming(p, {"parent_guid"})
  <2>8. Homes(r, pg) /\ pg.puts = p.puts /\ pg.used = {"parent_guid"}
    BY <2>3, <2>4, <2>7, HomesConsuming, ConsumingFacts
  <2>9. inner = pg
    BY <1>3
  <2>. HIDE DEF pg, inner
  <2>10. \A c \in used : HasHome(r, c, pg.puts)
    BY <2>4, <2>5, <2>6, <2>8
  <2>. HIDE DEF used
  <2>11. Homes(r, Consuming(pg, used)) /\ Consuming(pg, used).puts = p.puts /\ Consuming(pg, used).used = {"parent_guid"} \cup used
    BY <2>8, <2>10, HomesConsuming, ConsumingFacts
  <2>. QED  BY <1>1, <1>3, <2>3, <2>9, <2>11 DEF g, used
<1>. QED  BY <1>2, <1>3

LEMMA AccessedHomes ==
  ASSUME NEW r
  PROVE  Homes(r, Accessed(r)) /\ IsList(Accessed(r).puts)
<1>. DEFINE g == Peek(r, "target_guid")
            cols == {<< "pid", "int", "target_pid" >>}
            props == Props(r, cols)
            path == Peek(r, "target_name")
            p == Process(r.host, g, props, path, Blank, {}, Blank, << >>)
            used == {"target_guid"} \cup Used(r, cols) \cup Present(r, {"target_name"})
<1>1. Accessed(r) = IF r.act # "access" \/ g = Blank THEN Nothing ELSE Consuming(p, used)
  BY DEF Accessed
<1>2. CASE g = Blank \/ r.act # "access"
  <2>. HIDE DEF p, used
  <2>1. Accessed(r) = Nothing
    BY <1>1, <1>2
  <2>. QED  BY <2>1, HomesNothing, NothingFacts, ListEmpty
<1>3. CASE g # Blank /\ r.act = "access"
  <2>1. TableIsSound(cols) /\ PropsOf(cols) = {"pid"}
    <3>1. TableIsSound(cols)
      BY ProcessTables
    <3>2. PropsOf(cols) = {"pid"}
      BY DEF PropsOf
    <3>. QED  BY <3>1, <3>2
  <2>2. "x_car_entity_id" \notin DOMAIN props
    BY <2>1, PropsAreOfTables
  <2>3. HashesAreSound({}) /\ DOMAIN << >> \cap FileNames = {}
    BY HashesOfARow, NoProps
  <2>. HIDE DEF g, props, path, cols
  <2>4. /\ p.used = {} /\ IsList(p.puts)
        /\ SaidIn(p.puts, g)
        /\ path # Blank => SaidIn(p.puts, path)
        /\ Blank # Blank => SaidIn(p.puts, Blank)
        /\ \A h \in {} : SaidIn(p.puts, h[2])
        /\ \A q, w : Names(props, q, w) => SaidIn(p.puts, w)
        /\ path # Blank \/ Blank # Blank \/ {} # {} => \A q, w : Names(<< >>, q, w) => SaidIn(p.puts, w)
    BY <1>3, <2>2, <2>3, ProcessSays
  <2>. HIDE DEF p
  <2>5. HasHome(r, "target_guid", p.puts) /\ HasHome(r, "target_name", p.puts)
    BY <2>4, SaidIsHome DEF g, path
  <2>6. \A c \in Used(r, cols) : HasHome(r, c, p.puts)
    BY <2>1, <2>4, TableHasHome DEF props
  <2>7. Present(r, {"target_name"}) \subseteq {"target_name"}
    BY DEF Present
  <2>8. \A c \in used : HasHome(r, c, p.puts)
    BY <2>5, <2>6, <2>7
  <2>9. Homes(r, p)
    BY <2>4 DEF Homes
  <2>. HIDE DEF used
  <2>10. Homes(r, Consuming(p, used)) /\ Consuming(p, used).puts = p.puts
    BY <2>8, <2>9, HomesConsuming, ConsumingFacts
  <2>. QED  BY <1>1, <1>3, <2>4, <2>10
<1>. QED  BY <1>2, <1>3

LEMMA NamesOvers ==
  ASSUME NEW f, NEW g, NEW a, NEW b, NEW c, NEW p, NEW w
  PROVE  /\ Names(f, p, w) => Names(f ++ g ++ a ++ b ++ c, p, w)
         /\ Names(g, p, w) /\ p \notin DOMAIN f => Names(f ++ g ++ a ++ b ++ c, p, w)
<1>1. \A x, y : Names(x, p, w) => Names(x ++ y, p, w)
  BY NamesOver
<1>2. Names(f, p, w) \/ (Names(g, p, w) /\ p \notin DOMAIN f) => Names(f ++ g, p, w)
  BY NamesOver
<1>3. Names(f ++ g, p, w) => Names(f ++ g ++ a ++ b ++ c, p, w)
  BY <1>1
<1>. QED  BY <1>2, <1>3

\* The columns of a parent that the cascade did not resolve.
LEMMA SaidColumns ==
  ASSUME NEW r
  PROVE  Used(r, ParentColumns) \cup Present(r, ParentImage) \subseteq Used(r, SaidOfParent)
<1>1. ASSUME NEW c \in Used(r, ParentColumns)
      PROVE  c \in Used(r, SaidOfParent)
  <2>1. PICK t \in ParentColumns : Take(r, t[2], t[3]) # Blank /\ c = t[3]
    BY DEF Used, Live
  <2>2. \E u \in SaidOfParent : u[2] = t[2] /\ u[3] = t[3]
    BY DEF ParentColumns, SaidOfParent
  <2>. QED  BY <2>1, <2>2 DEF Used, Live
<1>2. ASSUME NEW c \in Present(r, ParentImage)
      PROVE  c \in Used(r, SaidOfParent)
  <2>1. Peek(r, c) # Blank /\ Take(r, "get", c) = Peek(r, c)
    BY DEF Present, Take
  <2>2. \E u \in SaidOfParent : u[2] = "get" /\ u[3] = c
    BY DEF Present, ParentImage, SaidOfParent
  <2>. QED  BY <2>1, <2>2 DEF Used, Live
<1>. QED  BY <1>1, <1>2

\* The process of a row, its parent and the account it ran as.
LEMMA SelfHomes ==
  ASSUME NEW r, NEW ref, NEW parent, NEW user, r.obj = "process", r.guid # Blank
  PROVE  LET said  == IF Peek(r, "parent_guid") = Blank THEN Props(r, SaidOfParent) ELSE << >>
             props == Props(r, ProcessColumns) ++ said
                      ++ Prop("parent_ref", parent) ++ Prop("creator_user_ref", user)
                      ++ Prop("created_time", IF r.act = "create" THEN Reads["ts"][r.ts] ELSE Blank)
             p == Process(r.host, Identity(r), props, Peek(r, "image_path"),
                          Peek(r, "exe"), Hashes(r), ref, Props(r, Signer))
             used == Used(r, ProcessColumns \cup Signer) \cup {h[1] : h \in Hashes(r)} \cup Present(r, {"image_path", "exe"})
         IN  /\ Homes(r, Consuming(p, used)) /\ IsList(p.puts)
             /\ Peek(r, "parent_guid") = Blank =>
                  \A c \in Used(r, ParentColumns) \cup Present(r, ParentImage) : HasHome(r, c, p.puts)
<1>. DEFINE said == IF Peek(r, "parent_guid") = Blank THEN Props(r, SaidOfParent) ELSE << >>
            own == Props(r, ProcessColumns)
            made == Prop("created_time", IF r.act = "create" THEN Reads["ts"][r.ts] ELSE Blank)
            props == own ++ said ++ Prop("parent_ref", parent) ++ Prop("creator_user_ref", user) ++ made
            path == Peek(r, "image_path")
            name == Peek(r, "exe")
            hashes == Hashes(r)
            signer == Props(r, Signer)
            p == Process(r.host, Identity(r), props, path, name, hashes, ref, signer)
            used == Used(r, ProcessColumns \cup Signer) \cup {h[1] : h \in Hashes(r)} \cup Present(r, {"image_path", "exe"})
<1>1. Identity(r) # Blank
  BY DEF Identity
<1>2. DOMAIN own \subseteq PropsOf(ProcessColumns) /\ DOMAIN said \subseteq PropsOf(SaidOfParent)
  BY PropsAreOfTables, NoProps
<1>3. "x_car_entity_id" \notin DOMAIN props
  <2>1. DOMAIN Prop("parent_ref", parent) = {"parent_ref"} /\ DOMAIN Prop("creator_user_ref", user) = {"creator_user_ref"}
        /\ DOMAIN made = {"created_time"}
    BY DEF Prop
  <2>. HIDE DEF own, said, made
  <2>2. DOMAIN props = DOMAIN own \cup DOMAIN said \cup {"parent_ref", "creator_user_ref", "created_time"}
    BY <2>1 DEF ++
  <2>. QED  BY <1>2, <2>2, ProcessTables
<1>4. HashesAreSound(hashes) /\ DOMAIN signer \cap FileNames = {}
  BY HashesOfARow, PropsAreOfTables, ProcessTables
<1>5. \A h \in hashes : h[2] \in Traces(Peek(r, h[1]))
  BY HashesOfARow
<1>6. \A q, w : Names(own, q, w) => Names(props, q, w)
  <2>. HIDE DEF own, said, made
  <2>. QED  BY NamesOvers
<1>7. \A q \in PropsOf(SaidOfParent) : \A w : Names(said, q, w) => Names(props, q, w)
  <2>1. \A q \in PropsOf(SaidOfParent) : q \notin DOMAIN own
    BY <1>2, ProcessTables
  <2>. HIDE DEF own, said, made
  <2>. QED  BY <2>1, NamesOvers
<1>8. Peek(r, "parent_guid") = Blank => said = Props(r, SaidOfParent)
  OBVIOUS
<1>. HIDE DEF said, own, made, props, path, name, hashes, signer
<1>9. /\ p.used = {} /\ IsList(p.puts)
      /\ SaidIn(p.puts, Identity(r))
      /\ path # Blank => SaidIn(p.puts, path)
      /\ name # Blank => SaidIn(p.puts, name)
      /\ \A h \in hashes : SaidIn(p.puts, h[2])
      /\ \A q, w : Names(props, q, w) => SaidIn(p.puts, w)
      /\ path # Blank \/ name # Blank \/ hashes # {} => \A q, w : Names(signer, q, w) => SaidIn(p.puts, w)
  BY <1>1, <1>3, <1>4, ProcessSays
<1>. HIDE DEF p
<1>10. \A c \in Used(r, ProcessColumns) : HasHome(r, c, p.puts)
  BY <1>6, <1>9, ProcessTables, TableHasHome DEF own
<1>11. \A c \in Used(r, Signer) : HasHome(r, c, p.puts)
  <2>1. CASE path # Blank \/ name # Blank \/ hashes # {}
    BY <1>9, <2>1, ProcessTables, TableHasHome DEF signer
  <2>2. CASE path = Blank /\ name = Blank /\ hashes = {}
    <3>1. Present(r, {"image_path", "exe"}) = {} /\ Hashes(r) = {}
      BY <2>2 DEF Present, path, name, hashes
    <3>2. \A c \in Used(r, Signer) : c \in {"signer", "signature_valid"}
      BY DEF Used, Live, Signer
    <3>. QED  BY <3>1, <3>2 DEF HasHome, KnownLost
  <2>. QED  BY <2>1, <2>2
<1>12. \A h \in hashes : HasHome(r, h[1], p.puts)
  BY <1>5, <1>9 DEF HasHome, ToldIn
<1>13. HasHome(r, "image_path", p.puts) /\ HasHome(r, "exe", p.puts)
  BY <1>9, SaidIsHome DEF path, name
<1>14. \A c \in used : HasHome(r, c, p.puts)
  <2>1. Used(r, ProcessColumns \cup Signer) \subseteq Used(r, ProcessColumns) \cup Used(r, Signer)
    BY DEF Used, Live
  <2>2. Present(r, {"image_path", "exe"}) \subseteq {"image_path", "exe"}
    BY DEF Present
  <2>. QED  BY <1>10, <1>11, <1>12, <1>13, <2>1, <2>2 DEF hashes
<1>15. Homes(r, p)
  BY <1>9 DEF Homes
<1>. HIDE DEF used
<1>16. Homes(r, Consuming(p, used))
  BY <1>14, <1>15, HomesConsuming
<1>17. Peek(r, "parent_guid") = Blank =>
         \A c \in Used(r, ParentColumns) \cup Present(r, ParentImage) : HasHome(r, c, p.puts)
  <2>. HAVE Peek(r, "parent_guid") = Blank
  <2>1. \A q \in PropsOf(SaidOfParent) : \A w : Names(Props(r, SaidOfParent), q, w) => SaidIn(p.puts, w)
    BY <1>7, <1>8, <1>9
  <2>2. \A c \in Used(r, SaidOfParent) : HasHome(r, c, p.puts)
    BY <2>1, ProcessTables, TableHasHome
  <2>. QED  BY <2>2, SaidColumns
<1>. QED  BY <1>9, <1>16, <1>17 DEF said, own, made, props, path, name, hashes, signer, p, used

LEMMA ProcessHomes ==
  ASSUME NEW r, NEW ref, r.obj = "process", r.guid # Blank
  PROVE  Homes(r, BuildProcess(r, ref)) /\ IsList(BuildProcess(r, ref).puts)
<1>. DEFINE parent == ParentOf(r)
            user == AccountOf(r, WhoRan(r), "user")
            said  == IF Peek(r, "parent_guid") = Blank THEN Props(r, SaidOfParent) ELSE << >>
            props == Props(r, ProcessColumns) ++ said
                     ++ Prop("parent_ref", parent.id) ++ Prop("creator_user_ref", user.id)
                     ++ Prop("created_time", IF r.act = "create" THEN Reads["ts"][r.ts] ELSE Blank)
            p == Process(r.host, Identity(r), props, Peek(r, "image_path"),
                         Peek(r, "exe"), Hashes(r), ref, Props(r, Signer))
            used == Used(r, ProcessColumns \cup Signer) \cup {h[1] : h \in Hashes(r)} \cup Present(r, {"image_path", "exe"})
            self == Consuming(p, used)
            known == And(parent, user)
            both == And(known, self)
            acc == Accessed(r)
            all == And(both, acc)
<1>1. BuildProcess(r, ref) = Named(all, ProcessId(r.host, Identity(r)))
  BY DEF BuildProcess, Ran
<1>2. /\ IsList(parent.puts)
      /\ parent.used \subseteq {"parent_guid"} \cup Used(r, ParentColumns) \cup Present(r, ParentImage)
      /\ Peek(r, "parent_guid") # Blank => Homes(r, parent)
      /\ Peek(r, "parent_guid") = Blank => "parent_guid" \notin parent.used
  BY ParentHomes
<1>3. Homes(r, user) /\ IsList(user.puts) /\ Homes(r, acc) /\ IsList(acc.puts)
  BY AccountHomes, AccessedHomes
<1>4. /\ Homes(r, self) /\ IsList(p.puts)
      /\ Peek(r, "parent_guid") = Blank =>
           \A c \in Used(r, ParentColumns) \cup Present(r, ParentImage) : HasHome(r, c, p.puts)
  BY SelfHomes
<1>. HIDE DEF p, used
<1>5. self.puts = p.puts /\ IsList(self.puts)
  BY <1>4, ConsumingFacts
<1>. HIDE DEF self, parent, user, acc
<1>6. IsList(known.puts) /\ known.used = parent.used \cup user.used /\ ToSet(known.puts) = ToSet(parent.puts) \cup ToSet(user.puts)
  BY <1>2, <1>3, AndFacts
<1>. HIDE DEF known
<1>7. IsList(both.puts) /\ both.used = known.used \cup self.used /\ ToSet(both.puts) = ToSet(known.puts) \cup ToSet(self.puts)
  BY <1>5, <1>6, AndFacts
<1>. HIDE DEF both
<1>8. IsList(all.puts) /\ all.used = both.used \cup acc.used /\ ToSet(all.puts) = ToSet(both.puts) \cup ToSet(acc.puts)
  BY <1>3, <1>7, AndFacts
<1>. HIDE DEF all
<1>9. /\ ToSet(parent.puts) \subseteq ToSet(all.puts) /\ ToSet(user.puts) \subseteq ToSet(all.puts)
      /\ ToSet(self.puts) \subseteq ToSet(all.puts) /\ ToSet(acc.puts) \subseteq ToSet(all.puts)
  BY <1>6, <1>7, <1>8
<1>10. \A c \in user.used \cup self.used \cup acc.used : HasHome(r, c, all.puts)
  BY <1>3, <1>4, <1>9, HomesMore DEF Homes
<1>11. \A c \in parent.used : HasHome(r, c, all.puts)
  <2>1. CASE Peek(r, "parent_guid") # Blank
    BY <1>2, <1>9, <2>1, HomesMore DEF Homes
  <2>2. CASE Peek(r, "parent_guid") = Blank
    <3>1. \A c \in parent.used : HasHome(r, c, self.puts)
      BY <1>2, <1>4, <1>5, <2>2
    <3>. QED  BY <1>9, <3>1, HomesMore
  <2>. QED  BY <2>1, <2>2
<1>12. Homes(r, all)
  BY <1>6, <1>7, <1>8, <1>10, <1>11 DEF Homes
<1>. QED  BY <1>1, <1>8, <1>12, HomesNamed, NamedFacts

LEMMA FileTables ==
  ASSUME NEW o \in DOMAIN FileShape
  PROVE  TableIsSound(FileShape[o].props) /\ PropsOf(FileShape[o].props) \cap FileNames = {}
<1>1. o \in {"file", "module", "driver"}
  BY DEF FileShape
<1>2. /\ FileShape["file"].props = Signer \cup {<< "ctime", "ts", "creation_time" >>, << "mime_type", "get", "mime_type" >>}
      /\ FileShape["module"].props = Signer \cup {<< "x_car_base_address", "get", "base_address" >>}
      /\ FileShape["driver"].props = Signer \cup {<< "x_car_base_address", "get", "base_address" >>}
  BY DEF FileShape
<1>3. TableIsSound(FileShape["file"].props)
  BY <1>2 DEF TableIsSound, Signer, RefProps, ListProps, Readers
<1>4. TableIsSound(FileShape["module"].props) /\ TableIsSound(FileShape["driver"].props)
  BY <1>2 DEF TableIsSound, Signer, RefProps, ListProps, Readers
<1>5. /\ PropsOf(FileShape["file"].props) \cap FileNames = {}
      /\ PropsOf(FileShape["module"].props) \cap FileNames = {}
      /\ PropsOf(FileShape["driver"].props) \cap FileNames = {}
  BY <1>2, FileNamesFacts DEF PropsOf, Signer
<1>. QED  BY <1>1, <1>3, <1>4, <1>5

LEMMA FileHomes ==
  ASSUME NEW r, NEW ref, r.obj \in DOMAIN FileShape, r.guid # Blank
  PROVE  Homes(r, BuildFile(r, ref)) /\ IsList(BuildFile(r, ref).puts)
<1>. DEFINE s == FileShape[r.obj]
            users == [i \in DOMAIN s.accounts |-> AccountOf(r, s.accounts[i][1], s.accounts[i][2])]
            path == Peek(r, s.path)
            name == Peek(r, s.name)
            hashes == Hashes(r)
            props == Props(r, s.props)
            row == << r.obj, r.guid >>
            made == FileAt(r.host, path, name, hashes, ref, props, row)
            used == Present(r, {s.path, s.name}) \cup {h[1] : h \in Hashes(r)} \cup Used(r, s.props)
            file == Consuming(made, used)
<1>1. BuildFile(r, ref) = Led(file, All(users))
  BY DEF BuildFile
<1>2. IsList(s.accounts) /\ TableIsSound(s.props) /\ PropsOf(s.props) \cap FileNames = {}
  BY FileShapeFacts, FileTables
<1>3. IsList(users) /\ \A i \in DOMAIN users : IsList(users[i].puts) /\ Homes(r, users[i])
  <2>1. IsList(users) /\ DOMAIN users = DOMAIN s.accounts
    BY <1>2, ListMapped
  <2>. QED  BY <2>1, AccountHomes
<1>4. HashesAreSound(hashes) /\ row[2] # Blank /\ \A h \in hashes : h[2] \in Traces(Peek(r, h[1]))
  BY HashesOfARow
<1>5. DOMAIN props \cap FileNames = {}
  BY <1>2, PropsAreOfTables
<1>. HIDE DEF path, name, hashes, row, users, props, s
<1>6. /\ made.used = {} /\ IsList(made.puts)
      /\ path # Blank => SaidIn(made.puts, path)
      /\ name # Blank => SaidIn(made.puts, name)
      /\ \A h \in hashes : SaidIn(made.puts, h[2])
      /\ \A q, w : Names(props, q, w) => SaidIn(made.puts, w)
  BY <1>4, <1>5, FileSays
<1>. HIDE DEF made
<1>7. \A c \in used : HasHome(r, c, made.puts)
  <2>1. HasHome(r, s.path, made.puts) /\ HasHome(r, s.name, made.puts)
    BY <1>6, SaidIsHome DEF path, name
  <2>2. \A h \in hashes : HasHome(r, h[1], made.puts)
    BY <1>4, <1>6 DEF HasHome, ToldIn
  <2>3. \A c \in Used(r, s.props) : HasHome(r, c, made.puts)
    BY <1>2, <1>6, TableHasHome DEF props
  <2>4. Present(r, {s.path, s.name}) \subseteq {s.path, s.name}
    BY DEF Present
  <2>. QED  BY <2>1, <2>2, <2>3, <2>4 DEF hashes
<1>8. Homes(r, made)
  BY <1>6 DEF Homes
<1>. HIDE DEF used
<1>9. Homes(r, file) /\ IsList(file.puts)
  BY <1>6, <1>7, <1>8, HomesConsuming, ConsumingFacts
<1>. HIDE DEF file
<1>10. Homes(r, All(users)) /\ IsList(All(users).puts)
  BY <1>3, HomesAll, AllFacts
<1>. QED  BY <1>1, <1>9, <1>10, HomesLed, LedFacts

LEMMA ActingTables ==
  ASSUME NEW o
  PROVE  LET cols == IF o \in DOMAIN Acting THEN Acting[o] ELSE {}
         IN  TableIsSound(cols) /\ "x_car_entity_id" \notin PropsOf(cols)
<1>. DEFINE both == {<< "pid", "int", "pid" >>, << "x_car_ppid", "int", "ppid" >>}
            cols == IF o \in DOMAIN Acting THEN Acting[o] ELSE {}
<1>1. TableIsSound(both) /\ PropsOf(both) = {"pid", "x_car_ppid"}
  BY DEF TableIsSound, PropsOf, RefProps, ListProps, Readers
<1>2. \A c : TableIsSound({<< "pid", "int", c >>}) /\ PropsOf({<< "pid", "int", c >>}) = {"pid"}
  BY DEF TableIsSound, PropsOf, RefProps, ListProps, Readers
<1>3. TableIsSound({}) /\ PropsOf({}) = {}
  BY DEF TableIsSound, PropsOf
<1>4. cols = both \/ cols = {} \/ \E c : cols = {<< "pid", "int", c >>}
  <2>1. DOMAIN Acting = { "file", "flow", "driver", "module", "registry", "socket", "thread" }
    BY DEF Acting
  <2>2. Acting["file"] = both
    BY DEF Acting
  <2>3. Acting["flow"] = both
    BY DEF Acting
  <2>4. Acting["driver"] = {<< "pid", "int", "pid" >>} /\ Acting["module"] = {<< "pid", "int", "pid" >>}
    BY DEF Acting
  <2>5. Acting["registry"] = {<< "pid", "int", "pid" >>} /\ Acting["socket"] = {<< "pid", "int", "pid" >>}
    BY DEF Acting
  <2>6. Acting["thread"] = {<< "pid", "int", "src_pid" >>}
    BY DEF Acting
  <2>. HIDE DEF both
  <2>. QED  BY <2>1, <2>2, <2>3, <2>4, <2>5, <2>6
<1>. HIDE DEF both, cols
<1>5. TableIsSound(cols) /\ "x_car_entity_id" \notin PropsOf(cols)
  <2>1. CASE cols = both
    BY <1>1, <2>1
  <2>2. CASE cols = {}
    BY <1>3, <2>2
  <2>3. ASSUME NEW c, cols = {<< "pid", "int", c >>}
        PROVE  TableIsSound(cols) /\ "x_car_entity_id" \notin PropsOf(cols)
    <3>1. TableIsSound(cols) /\ PropsOf(cols) = {"pid"}
      BY <1>2, <2>3
    <3>. QED  BY <3>1
  <2>. QED  BY <1>4, <2>1, <2>2, <2>3
<1>. QED  BY <1>5 DEF cols

LEMMA ActsHomes ==
  ASSUME NEW r
  PROVE  Homes(r, Acts(r)) /\ IsList(Acts(r).puts)
<1>. DEFINE cols == IF r.obj \in DOMAIN Acting THEN Acting[r.obj] ELSE {}
            path == IF r.obj \in ActingImage THEN Peek(r, "image_path") ELSE Blank
            name == IF r.obj = "flow" THEN Peek(r, "exe") ELSE Blank
            props == Props(r, cols)
            p == Process(r.host, r.owning, props, path, name, {}, Blank, << >>)
            used == Used(r, cols) \cup (IF r.obj \in ActingImage THEN Present(r, {"image_path"}) ELSE {})
                                  \cup (IF r.obj = "flow" THEN Present(r, {"exe"}) ELSE {})
<1>1. Acts(r) = IF r.owning = Blank \/ r.obj = "process" THEN Nothing ELSE Consuming(p, used)
  BY DEF Acts
<1>2. CASE r.owning = Blank \/ r.obj = "process"
  <2>. HIDE DEF p, used
  <2>1. Acts(r) = Nothing
    BY <1>1, <1>2
  <2>. QED  BY <2>1, HomesNothing, NothingFacts, ListEmpty
<1>3. CASE ~(r.owning = Blank \/ r.obj = "process")
  <2>1. TableIsSound(cols) /\ "x_car_entity_id" \notin PropsOf(cols)
    BY ActingTables
  <2>2. "x_car_entity_id" \notin DOMAIN props
    BY <2>1, PropsAreOfTables
  <2>3. HashesAreSound({}) /\ DOMAIN << >> \cap FileNames = {}
    BY HashesOfARow, NoProps
  <2>. HIDE DEF props, path, name, cols
  <2>4. /\ p.used = {} /\ IsList(p.puts)
        /\ SaidIn(p.puts, r.owning)
        /\ path # Blank => SaidIn(p.puts, path)
        /\ name # Blank => SaidIn(p.puts, name)
        /\ \A h \in {} : SaidIn(p.puts, h[2])
        /\ \A q, w : Names(props, q, w) => SaidIn(p.puts, w)
        /\ path # Blank \/ name # Blank \/ {} # {} => \A q, w : Names(<< >>, q, w) => SaidIn(p.puts, w)
    BY <1>3, <2>2, <2>3, ProcessSays
  <2>. HIDE DEF p
  <2>5. /\ r.obj \in ActingImage => HasHome(r, "image_path", p.puts)
        /\ r.obj = "flow" => HasHome(r, "exe", p.puts)
    BY <2>4, SaidIsHome DEF path, name
  <2>6. \A c \in Used(r, cols) : HasHome(r, c, p.puts)
    BY <2>1, <2>4, TableHasHome DEF props
  <2>7. Present(r, {"image_path"}) \subseteq {"image_path"} /\ Present(r, {"exe"}) \subseteq {"exe"}
    BY DEF Present
  <2>8. \A c \in used : HasHome(r, c, p.puts)
    BY <2>5, <2>6, <2>7
  <2>9. Homes(r, p)
    BY <2>4 DEF Homes
  <2>. HIDE DEF used
  <2>10. Homes(r, Consuming(p, used)) /\ Consuming(p, used).puts = p.puts
    BY <2>8, <2>9, HomesConsuming, ConsumingFacts
  <2>. QED  BY <1>1, <1>3, <2>4, <2>10
<1>. QED  BY <1>2, <1>3

\* What the shapes' tables are for their columns to have a home.
ExtraProps == {"request_value", "request_version", "header.user_agent", "header.referer", "request_bytes", "values"}
ShapeHomes(o) ==
  /\ TableIsSound(Shape[o].plain) /\ PropsOf(Shape[o].plain) \cap ExtraProps = {}
  /\ \A i \in DOMAIN Shape[o].ends :
       /\ Shape[o].ends[i][3] \in {"ip", "text"}
       /\ Shape[o].ends[i][3] = "text" => o \in {"http", "email"}
  /\ Shape[o].type = Blank => Shape[o].plain = {} /\ o \notin {"http", "registry"}

LEMMA ShapesHaveHomes ==
  ASSUME NEW o \in DOMAIN Shape
  PROVE  ShapeHomes(o)
<1>1. o \in {"flow", "socket", "http", "authentication", "user_session", "service", "thread", "registry", "email"}
  BY DEF Shape
<1>2. ShapeHomes("flow")
  <2>1. TableIsSound(Shape["flow"].plain)
    BY DEF Shape, TableIsSound, RefProps, ListProps, Readers
  <2>2. PropsOf(Shape["flow"].plain) \cap ExtraProps = {}
    BY DEF Shape, PropsOf, ExtraProps
  <2>3. \A i \in DOMAIN Shape["flow"].ends : Shape["flow"].ends[i][3] \in {"ip", "text"}
    BY TuplesAreLists DEF Shape
  <2>4. \A i \in DOMAIN Shape["flow"].ends : Shape["flow"].ends[i][3] # "text"
    BY TuplesAreLists DEF Shape
  <2>5. Shape["flow"].type # Blank
    <3>1. "flow" \in DOMAIN Shape \ EventObjects
      BY DEF Shape, EventObjects
    <3>. QED  BY <3>1, ShapeAssumption
  <2>. QED  BY <2>1, <2>2, <2>3, <2>4, <2>5 DEF ShapeHomes
<1>3. ShapeHomes("socket")
  <2>1. TableIsSound(Shape["socket"].plain)
    BY DEF Shape, TableIsSound, RefProps, ListProps, Readers
  <2>2. PropsOf(Shape["socket"].plain) \cap ExtraProps = {}
    BY DEF Shape, PropsOf, ExtraProps
  <2>3. \A i \in DOMAIN Shape["socket"].ends : Shape["socket"].ends[i][3] \in {"ip", "text"}
    BY TuplesAreLists DEF Shape
  <2>4. \A i \in DOMAIN Shape["socket"].ends : Shape["socket"].ends[i][3] # "text"
    BY TuplesAreLists DEF Shape
  <2>5. Shape["socket"].type # Blank
    <3>1. "socket" \in DOMAIN Shape \ EventObjects
      BY DEF Shape, EventObjects
    <3>. QED  BY <3>1, ShapeAssumption
  <2>. QED  BY <2>1, <2>2, <2>3, <2>4, <2>5 DEF ShapeHomes
<1>4. ShapeHomes("http")
  <2>1. TableIsSound(Shape["http"].plain)
    BY DEF Shape, TableIsSound, RefProps, ListProps, Readers
  <2>2. PropsOf(Shape["http"].plain) \cap ExtraProps = {}
    BY DEF Shape, PropsOf, ExtraProps
  <2>3. \A i \in DOMAIN Shape["http"].ends : Shape["http"].ends[i][3] \in {"ip", "text"}
    BY TuplesAreLists DEF Shape
  <2>4. "http" \in {"http", "email"}
    OBVIOUS
  <2>5. Shape["http"].type # Blank
    <3>1. "http" \in DOMAIN Shape \ EventObjects
      BY DEF Shape, EventObjects
    <3>. QED  BY <3>1, ShapeAssumption
  <2>. QED  BY <2>1, <2>2, <2>3, <2>4, <2>5 DEF ShapeHomes
<1>5. ShapeHomes("authentication")
  <2>1. TableIsSound(Shape["authentication"].plain)
    BY DEF Shape, TableIsSound, RefProps, ListProps, Readers
  <2>2. PropsOf(Shape["authentication"].plain) \cap ExtraProps = {}
    BY DEF Shape, PropsOf, ExtraProps
  <2>3. \A i \in DOMAIN Shape["authentication"].ends : Shape["authentication"].ends[i][3] \in {"ip", "text"}
    BY TuplesAreLists DEF Shape
  <2>4. \A i \in DOMAIN Shape["authentication"].ends : Shape["authentication"].ends[i][3] # "text"
    BY TuplesAreLists DEF Shape
  <2>5. Shape["authentication"].plain = {} /\ "authentication" \notin {"http", "registry"}
    BY DEF Shape
  <2>. QED  BY <2>1, <2>2, <2>3, <2>4, <2>5 DEF ShapeHomes
<1>6. ShapeHomes("user_session")
  <2>1. TableIsSound(Shape["user_session"].plain)
    BY DEF Shape, TableIsSound, RefProps, ListProps, Readers
  <2>2. PropsOf(Shape["user_session"].plain) \cap ExtraProps = {}
    BY DEF Shape, PropsOf, ExtraProps
  <2>3. \A i \in DOMAIN Shape["user_session"].ends : Shape["user_session"].ends[i][3] \in {"ip", "text"}
    BY TuplesAreLists DEF Shape
  <2>4. \A i \in DOMAIN Shape["user_session"].ends : Shape["user_session"].ends[i][3] # "text"
    BY TuplesAreLists DEF Shape
  <2>5. Shape["user_session"].plain = {} /\ "user_session" \notin {"http", "registry"}
    BY DEF Shape
  <2>. QED  BY <2>1, <2>2, <2>3, <2>4, <2>5 DEF ShapeHomes
<1>7. ShapeHomes("service")
  <2>1. TableIsSound(Shape["service"].plain)
    BY DEF Shape, TableIsSound, RefProps, ListProps, Readers
  <2>2. PropsOf(Shape["service"].plain) \cap ExtraProps = {}
    BY DEF Shape, PropsOf, ExtraProps
  <2>3. \A i \in DOMAIN Shape["service"].ends : Shape["service"].ends[i][3] \in {"ip", "text"}
    BY TuplesAreLists DEF Shape
  <2>4. \A i \in DOMAIN Shape["service"].ends : Shape["service"].ends[i][3] # "text"
    BY TuplesAreLists DEF Shape
  <2>5. Shape["service"].type # Blank
    <3>1. "service" \in DOMAIN Shape \ EventObjects
      BY DEF Shape, EventObjects
    <3>. QED  BY <3>1, ShapeAssumption
  <2>. QED  BY <2>1, <2>2, <2>3, <2>4, <2>5 DEF ShapeHomes
<1>8. ShapeHomes("thread")
  <2>1. TableIsSound(Shape["thread"].plain)
    BY DEF Shape, TableIsSound, RefProps, ListProps, Readers
  <2>2. PropsOf(Shape["thread"].plain) \cap ExtraProps = {}
    <3>1. \A t \in Shape["thread"].plain : t[1] \notin ExtraProps
      BY DEF Shape, ExtraProps
    <3>. QED  BY <3>1 DEF PropsOf
  <2>3. \A i \in DOMAIN Shape["thread"].ends : Shape["thread"].ends[i][3] \in {"ip", "text"}
    BY TuplesAreLists DEF Shape
  <2>4. \A i \in DOMAIN Shape["thread"].ends : Shape["thread"].ends[i][3] # "text"
    BY TuplesAreLists DEF Shape
  <2>5. Shape["thread"].type # Blank
    <3>1. "thread" \in DOMAIN Shape \ EventObjects
      BY DEF Shape, EventObjects
    <3>. QED  BY <3>1, ShapeAssumption
  <2>. QED  BY <2>1, <2>2, <2>3, <2>4, <2>5 DEF ShapeHomes
<1>9. ShapeHomes("registry")
  <2>1. TableIsSound(Shape["registry"].plain)
    BY DEF Shape, TableIsSound, RefProps, ListProps, Readers
  <2>2. PropsOf(Shape["registry"].plain) \cap ExtraProps = {}
    BY DEF Shape, PropsOf, ExtraProps
  <2>3. \A i \in DOMAIN Shape["registry"].ends : Shape["registry"].ends[i][3] \in {"ip", "text"}
    BY TuplesAreLists DEF Shape
  <2>4. \A i \in DOMAIN Shape["registry"].ends : Shape["registry"].ends[i][3] # "text"
    BY TuplesAreLists DEF Shape
  <2>5. Shape["registry"].type # Blank
    <3>1. "registry" \in DOMAIN Shape \ EventObjects
      BY DEF Shape, EventObjects
    <3>. QED  BY <3>1, ShapeAssumption
  <2>. QED  BY <2>1, <2>2, <2>3, <2>4, <2>5 DEF ShapeHomes
<1>10. ShapeHomes("email")
  <2>1. TableIsSound(Shape["email"].plain)
    BY DEF Shape, TableIsSound, RefProps, ListProps, Readers
  <2>2. PropsOf(Shape["email"].plain) \cap ExtraProps = {}
    BY DEF Shape, PropsOf, ExtraProps
  <2>3. \A i \in DOMAIN Shape["email"].ends : Shape["email"].ends[i][3] \in {"ip", "text"}
    BY TuplesAreLists DEF Shape
  <2>4. "email" \in {"http", "email"}
    OBVIOUS
  <2>5. Shape["email"].type # Blank
    <3>1. "email" \in DOMAIN Shape \ EventObjects
      BY DEF Shape, EventObjects
    <3>. QED  BY <3>1, ShapeAssumption
  <2>. QED  BY <2>1, <2>2, <2>3, <2>4, <2>5 DEF ShapeHomes
<1>. QED  BY <1>1, <1>2, <1>3, <1>4, <1>5, <1>6, <1>7, <1>8, <1>9, <1>10

\* The request of an http row: its scheme is a protocol, or it is a known loss.
LEMMA RequestHomes ==
  ASSUME NEW r, NEW puts, r.obj = "http",
         \A p, w : Names(Request(r)[1], p, w) => SaidIn(puts, w),
         \A p, w : Names(Props(r, Shape["http"].plain), p, w) => SaidIn(puts, w)
  PROVE  \A c \in Request(r)[2] : HasHome(r, c, puts)
<1>. DEFINE cols == {<< "request_version", "get", "http_version" >>, << "header.user_agent", "get", "user_agent_full" >>,
                     << "header.referer", "get", "request_referrer" >>, << "request_bytes", "int", "request_body_bytes" >>}
            from == IF Peek(r, "url_remainder") # Blank THEN "url_remainder" ELSE "url_full"
            v == Peek(r, from)
            f == Prop("request_value", v) ++ Props(r, cols)
            used == Present(r, {"url_remainder", "url_scheme"}) \cup Used(r, cols)
            plain == Shape["http"].plain
<1>1. Request(r) = IF v = Blank THEN << << >>, Present(r, {"url_scheme"}) >> ELSE << f, used >>
  BY DEF Request
<1>2. HasHome(r, "url_scheme", puts)
  <2>1. CASE Take(r, "scheme", "url_scheme") = Blank
    BY <2>1 DEF HasHome, KnownLost
  <2>2. CASE Take(r, "scheme", "url_scheme") # Blank
    <3>1. << "protocols.application", "scheme", "url_scheme" >> \in plain
      BY DEF Shape
    <3>. HIDE DEF plain
    <3>2. "url_scheme" \in Used(r, plain)
      BY <2>2, <3>1 DEF Used, Live
    <3>3. TableIsSound(plain)
      <4>1. "http" \in DOMAIN Shape
        BY DEF Shape
      <4>. QED  BY <4>1, ShapesHaveHomes DEF ShapeHomes, plain
    <3>4. \A p \in PropsOf(plain) : \A w : Names(Props(r, plain), p, w) => SaidIn(puts, w)
      BY DEF plain
    <3>. QED  BY <3>2, <3>3, <3>4, TableHasHome
  <2>. QED  BY <2>1, <2>2
<1>3. Present(r, {"url_remainder", "url_scheme"}) \subseteq {"url_remainder", "url_scheme"}
      /\ Present(r, {"url_scheme"}) \subseteq {"url_scheme"}
  BY DEF Present
<1>4. TableIsSound(cols) /\ "request_value" \notin PropsOf(cols)
  BY DEF TableIsSound, PropsOf, RefProps, ListProps, Readers
<1>5. ASSUME v # Blank
      PROVE  /\ HasHome(r, "url_remainder", puts)
             /\ \A c \in Used(r, cols) : HasHome(r, c, puts)
  <2>1. Request(r)[1] = f
    BY <1>1, <1>5
  <2>2. SaidIn(puts, v)
    <3>1. Names(Prop("request_value", v), "request_value", v)
      BY <1>5, NamesProp DEF RefProps, ListProps
    <3>2. Names(f, "request_value", v)
      BY <3>1, NamesOver
    <3>. QED  BY <2>1, <3>2
  <2>3. Peek(r, "url_remainder") # Blank => SaidIn(puts, Peek(r, "url_remainder"))
    BY <2>2
  <2>4. \A p \in PropsOf(cols) : \A w : Names(Props(r, cols), p, w) => SaidIn(puts, w)
    <3>1. DOMAIN Prop("request_value", v) = {"request_value"}
      BY DEF Prop
    <3>. HIDE DEF cols, v
    <3>2. \A p \in PropsOf(cols) : \A w : Names(Props(r, cols), p, w) => Names(f, p, w)
      BY <1>4, <3>1, NamesOver
    <3>. QED  BY <2>1, <3>2
  <2>. HIDE DEF cols
  <2>. QED  BY <1>4, <2>3, <2>4, SaidIsHome, TableHasHome
<1>. HIDE DEF v, f, cols
<1>6. Request(r)[2] = IF v = Blank THEN Present(r, {"url_scheme"}) ELSE used
  BY <1>1
<1>. QED  BY <1>2, <1>3, <1>5, <1>6

\* The value of a registry key, with its type.
LEMMA KeyValueHomes ==
  ASSUME NEW r, NEW puts,
         KeyValue(r)[2] # {} => \A t \in KeyValue(r)[1]["values"] : \A w \in ToSet(t) : SaidIn(puts, w)
  PROVE  \A c \in KeyValue(r)[2] : HasHome(r, c, puts)
<1>. DEFINE type == Take(r, "regtype", "type")
            t == << Peek(r, "value"), Peek(r, "data"), type >>
            used == Present(r, {"value", "data"} \cup (IF type = Blank THEN {} ELSE {"type"}))
            none == r.obj # "registry" \/ Present(r, {"value", "data"}) = {}
<1>1. KeyValue(r) = IF none THEN << << >>, {} >> ELSE << Prop("values", {t}), used >>
  BY DEF KeyValue
<1>2. CASE none
  BY <1>1, <1>2
<1>3. CASE ~none
  <2>1. KeyValue(r)[2] = used /\ KeyValue(r)[1] = Prop("values", {t})
    BY <1>1, <1>3
  <2>2. Prop("values", {t})["values"] = {t}
    BY DEF Prop
  <2>3. ToSet(t) = {Peek(r, "value"), Peek(r, "data"), type}
    BY DEF ToSet
  <2>4. used # {} => SaidIn(puts, Peek(r, "value")) /\ SaidIn(puts, Peek(r, "data")) /\ SaidIn(puts, type)
    BY <2>1, <2>2, <2>3
  <2>5. \A c \in used : c \in {"value", "data"} \/ (c = "type" /\ type # Blank)
    BY DEF Present
  <2>6. ASSUME type # Blank, SaidIn(puts, type)
        PROVE  HasHome(r, "type", puts)
    <3>1. type \in Traces(Peek(r, "type"))
      BY <2>6, ReadIsATrace DEF Readers
    <3>. QED  BY <2>6, <3>1 DEF HasHome, ToldIn
  <2>7. used # {} => HasHome(r, "value", puts) /\ HasHome(r, "data", puts)
    BY <2>4, SaidIsHome
  <2>. HIDE DEF used, type, t
  <2>. QED  BY <2>1, <2>4, <2>5, <2>6, <2>7
<1>. QED  BY <1>2, <1>3

LEMMA ExtraDomains ==
  ASSUME NEW r
  PROVE  /\ DOMAIN Request(r)[1] \subseteq ExtraProps \ {"values"}
         /\ DOMAIN KeyValue(r)[1] \subseteq {"values"}
         /\ r.obj # "http" => Request(r)[2] = {}
         /\ r.obj # "registry" => KeyValue(r)[2] = {}
         /\ KeyValue(r)[2] # {} => \E t : KeyValue(r)[1] = Prop("values", {t})
<1>. DEFINE cols == {<< "request_version", "get", "http_version" >>, << "header.user_agent", "get", "user_agent_full" >>,
                     << "header.referer", "get", "request_referrer" >>, << "request_bytes", "int", "request_body_bytes" >>}
            from == IF Peek(r, "url_remainder") # Blank THEN "url_remainder" ELSE "url_full"
            f == Prop("request_value", Peek(r, from)) ++ Props(r, cols)
            t == << Peek(r, "value"), Peek(r, "data"), Take(r, "regtype", "type") >>
            g == Prop("values", {t})
<1>1. (Request(r)[1] = << >> \/ Request(r)[1] = f) /\ (r.obj # "http" => Request(r)[2] = {})
  BY DEF Request
<1>2. /\ KeyValue(r)[1] = << >> \/ KeyValue(r)[1] = g
      /\ r.obj # "registry" => KeyValue(r)[2] = {}
      /\ KeyValue(r)[2] # {} => KeyValue(r)[1] = g
  BY DEF KeyValue
<1>3. DOMAIN f = {"request_value"} \cup DOMAIN Props(r, cols)
  BY DEF ++, Prop
<1>4. DOMAIN Props(r, cols) \subseteq PropsOf(cols) /\ PropsOf(cols) \subseteq ExtraProps \ {"values"}
  BY PropsAreOfTables DEF PropsOf, ExtraProps
<1>5. DOMAIN f \subseteq ExtraProps \ {"values"}
  BY <1>3, <1>4 DEF ExtraProps
<1>6. DOMAIN g = {"values"} /\ DOMAIN << >> = {}
  BY DEF Prop
<1>. HIDE DEF f
<1>7. KeyValue(r)[2] # {} => \E x : KeyValue(r)[1] = Prop("values", {x})
  BY <1>2
<1>. HIDE DEF g
<1>. QED  BY <1>1, <1>2, <1>5, <1>6, <1>7

\* The entity of a row says what its table, its request and its value hold.
LEMMA OwnHomes ==
  ASSUME NEW r, r.obj \in DOMAIN Shape, NEW id, NEW a, NEW b, NEW c
  PROVE  LET props == Props(r, Shape[r.obj].plain) ++ Request(r)[1] ++ KeyValue(r)[1] ++ a ++ b ++ c
         IN  \A col \in Used(r, Shape[r.obj].plain) \cup Request(r)[2] \cup KeyValue(r)[2] :
               HasHome(r, col, One(id, props).puts)
<1>. DEFINE plain == Shape[r.obj].plain
            own == Props(r, plain)
            req == Request(r)[1]
            kv == KeyValue(r)[1]
            props == own ++ req ++ kv ++ a ++ b ++ c
            puts == One(id, props).puts
<1>1. TableIsSound(plain) /\ PropsOf(plain) \cap ExtraProps = {}
  BY ShapesHaveHomes DEF ShapeHomes
<1>2. /\ DOMAIN req \subseteq ExtraProps \ {"values"} /\ DOMAIN kv \subseteq {"values"}
      /\ r.obj # "http" => Request(r)[2] = {}
      /\ r.obj # "registry" => KeyValue(r)[2] = {}
      /\ KeyValue(r)[2] # {} => \E t : kv = Prop("values", {t})
  BY ExtraDomains
<1>3. DOMAIN own \cap ExtraProps = {}
  BY <1>1, PropsAreOfTables
<1>. HIDE DEF own, req, kv
<1>4. \A p, w : Names(own, p, w) => Names(props, p, w)
  BY NamesOver, NamesOvers
<1>5. \A p, w : Names(req, p, w) => Names(props, p, w)
  <2>1. \A p, w : Names(req, p, w) => p \notin DOMAIN own
    BY <1>2, <1>3 DEF Names
  <2>2. \A p, w : Names(req, p, w) => Names(own ++ req, p, w)
    BY <2>1, NamesOver
  <2>. QED  BY <2>2, NamesOvers
<1>6. ASSUME NEW t, kv = Prop("values", {t})
      PROVE  props["values"] = {t} /\ "values" \in DOMAIN props
  <2>1. "values" \notin DOMAIN own \cup DOMAIN req
    BY <1>2, <1>3 DEF ExtraProps
  <2>2. DOMAIN kv = {"values"} /\ kv["values"] = {t}
    BY <1>6 DEF Prop
  <2>3. "values" \in DOMAIN (own ++ req ++ kv) /\ (own ++ req ++ kv)["values"] = {t}
    BY <2>1, <2>2 DEF ++
  <2>. DEFINE f == own ++ req ++ kv
  <2>. HIDE DEF f
  <2>4. "values" \in DOMAIN f /\ f["values"] = {t}
    BY <2>3 DEF f
  <2>5. "values" \in DOMAIN (f ++ a ++ b ++ c) /\ (f ++ a ++ b ++ c)["values"] = {t}
    BY <2>4 DEF ++
  <2>. QED  BY <2>5 DEF f
<1>. HIDE DEF props
<1>7. \A w : Says(props, w) => SaidIn(puts, w)
  BY OneSays
<1>8. \A p, w : Names(props, p, w) => SaidIn(puts, w)
  BY <1>7, NamesSay
<1>9. ASSUME NEW t, kv = Prop("values", {t})
      PROVE  \A x \in kv["values"] : \A w \in ToSet(x) : SaidIn(puts, w)
  <2>1. kv["values"] = {t}
    BY <1>9 DEF Prop
  <2>2. "values" \in ListProps /\ "values" \notin RefProps
    BY DEF ListProps, RefProps
  <2>3. "values" \in DOMAIN Given(props) \ RefProps
    BY <1>6, <1>9, <2>2 DEF Given
  <2>4. \A w \in ToSet(t) : Says(props, w)
    BY <1>6, <1>9, <2>3 DEF Says
  <2>. QED  BY <1>7, <2>1, <2>4
<1>. HIDE DEF puts
<1>10. \A col \in Used(r, plain) : HasHome(r, col, puts)
  <2>1. \A p \in PropsOf(plain) : \A w : Names(Props(r, plain), p, w) => SaidIn(puts, w)
    BY <1>4, <1>8 DEF own
  <2>. QED  BY <1>1, <2>1, TableHasHome
<1>11. \A col \in Request(r)[2] : HasHome(r, col, puts)
  <2>1. CASE r.obj # "http"
    BY <1>2, <2>1
  <2>2. CASE r.obj = "http"
    <3>1. \A p, w : Names(Request(r)[1], p, w) => SaidIn(puts, w)
      BY <1>5, <1>8 DEF req
    <3>2. \A p, w : Names(Props(r, Shape["http"].plain), p, w) => SaidIn(puts, w)
      BY <1>4, <1>8, <2>2 DEF own, plain
    <3>. QED  BY <2>2, <3>1, <3>2, RequestHomes
  <2>. QED  BY <2>1, <2>2
<1>12. \A col \in KeyValue(r)[2] : HasHome(r, col, puts)
  <2>1. KeyValue(r)[2] # {} => \A x \in KeyValue(r)[1]["values"] : \A w \in ToSet(x) : SaidIn(puts, w)
    BY <1>2, <1>9 DEF kv
  <2>. QED  BY <2>1, KeyValueHomes
<1>13. \A col \in Used(r, plain) \cup Request(r)[2] \cup KeyValue(r)[2] : HasHome(r, col, puts)
  BY <1>10, <1>11, <1>12
<1>. QED  BY <1>13 DEF puts, props, own, req, kv, plain

LEMMA FilePartHomes ==
  ASSUME NEW r, NEW s, r.guid # Blank
  PROVE  Homes(r, FilePart(r, s)) /\ IsList(FilePart(r, s).puts)
<1>. DEFINE path == IF s.file = << >> THEN Blank ELSE Peek(r, s.file[2])
            name == IF s.file = << >> THEN Blank ELSE Peek(r, s.file[3])
            more == IF r.obj = "email" THEN AttachmentColumns ELSE {}
            row == << r.obj, r.guid >>
            props == Props(r, more)
            file == FileAt(r.host, path, name, {}, Blank, props, row)
            used == Present(r, {s.file[2], s.file[3]}) \cup Used(r, more)
<1>1. FilePart(r, s) = IF path = Blank /\ name = Blank THEN Nothing ELSE Consuming(file, used)
  BY DEF FilePart
<1>2. TableIsSound(more) /\ PropsOf(more) \cap FileNames = {}
  <2>1. TableIsSound(AttachmentColumns)
    BY DEF TableIsSound, AttachmentColumns, RefProps, ListProps, Readers
  <2>2. PropsOf(AttachmentColumns) \cap {"name", "x_car_path", "md5_hash", "sha1_hash", "sha256_hash"} = {}
    BY DEF PropsOf, AttachmentColumns
  <2>3. TableIsSound({}) /\ PropsOf({}) = {}
    BY DEF TableIsSound, PropsOf
  <2>. QED  BY <2>1, <2>2, <2>3, FileNamesFacts
<1>3. CASE path = Blank /\ name = Blank
  <2>. HIDE DEF file, used
  <2>. QED  BY <1>1, <1>3, HomesNothing, NothingFacts, ListEmpty
<1>4. CASE ~(path = Blank /\ name = Blank)
  <2>1. DOMAIN props \cap FileNames = {} /\ HashesAreSound({}) /\ row[2] # Blank
    BY <1>2, PropsAreOfTables, HashesOfARow
  <2>2. s.file # << >> /\ path = Peek(r, s.file[2]) /\ name = Peek(r, s.file[3])
    BY <1>4
  <2>. HIDE DEF props, path, name, more, row
  <2>3. /\ file.used = {} /\ IsList(file.puts)
        /\ path # Blank => SaidIn(file.puts, path)
        /\ name # Blank => SaidIn(file.puts, name)
        /\ \A h \in {} : SaidIn(file.puts, h[2])
        /\ \A q, w : Names(props, q, w) => SaidIn(file.puts, w)
    BY <2>1, FileSays
  <2>. HIDE DEF file
  <2>4. HasHome(r, s.file[2], file.puts) /\ HasHome(r, s.file[3], file.puts)
    BY <2>2, <2>3, SaidIsHome
  <2>5. \A c \in Used(r, more) : HasHome(r, c, file.puts)
    BY <1>2, <2>3, TableHasHome DEF props
  <2>6. \A c \in used : HasHome(r, c, file.puts)
    BY <2>4, <2>5 DEF Present
  <2>7. Homes(r, file)
    BY <2>3 DEF Homes
  <2>. HIDE DEF used
  <2>8. FilePart(r, s) = Consuming(file, used)
    BY <1>1, <1>4
  <2>. QED  BY <2>3, <2>6, <2>7, <2>8, HomesConsuming, ConsumingFacts
<1>. QED  BY <1>3, <1>4

\* A row that has an entity of its own, or that is one of the accounts it names.
LEMMA AssembledHomes ==
  ASSUME NEW r, NEW ends, NEW users, NEW file, r.obj \in DOMAIN Shape, r.guid # Blank,
         IsList(ends), IsList(users), Homes(r, file), IsList(file.puts),
         \A i \in DOMAIN ends : IsList(ends[i].puts) /\ Homes(r, ends[i]),
         \A i \in DOMAIN users : IsList(users[i].puts) /\ Homes(r, users[i])
  PROVE  LET p == Assembled(r, Shape[r.obj], ends, users, file, << Request(r), KeyValue(r) >>)
         IN  Homes(r, p) /\ IsList(p.puts)
<1>. DEFINE s == Shape[r.obj]
            extra == << Request(r), KeyValue(r) >>
            named == s.key # "guid" /\ Peek(r, s.key) # Blank
            id    == IF named THEN << s.type, r.host, s.key, Peek(r, s.key) >> ELSE << s.type, r.host, r.obj, r.guid >>
            linked == IF s.file = << >> THEN << >> ELSE Linked(s.file[1], file)
            linkedEnds == AllProps([i \in DOMAIN ends |-> Linked(s.ends[i][1], ends[i])])
            linkedUsers == AllProps([i \in DOMAIN users |-> Linked(s.accounts[i][1], users[i])])
            props == Props(r, s.plain) ++ extra[1][1] ++ extra[2][1] ++ linked ++ linkedEnds ++ linkedUsers
            key   == IF named THEN Peek(r, s.key) ELSE r.guid
            self  == IF s.type = Blank THEN Named(Nothing, FirstOf(users)) ELSE Minted(key, id, props)
            used  == Used(r, s.plain) \cup extra[1][2] \cup extra[2][2]
            around == And(All(ends), All(users))
            p == Assembled(r, s, ends, users, file, extra)
<1>1. p = Consuming(And(around, And(file, self)), used)
  BY DEF Assembled
<1>2. Homes(r, around) /\ IsList(around.puts)
  <2>1. /\ Homes(r, All(ends)) /\ IsList(All(ends).puts)
        /\ Homes(r, All(users)) /\ IsList(All(users).puts)
    BY HomesAll, AllFacts
  <2>. QED  BY <2>1, HomesAnd, AndFacts
<1>. HIDE DEF around
<1>3. IsList(self.puts) /\ self.used = {} /\ \A c \in used : HasHome(r, c, self.puts)
  <2>1. CASE s.type = Blank
    <3>1. s.plain = {} /\ r.obj \notin {"http", "registry"}
      BY <2>1, ShapesHaveHomes DEF ShapeHomes
    <3>2. Used(r, s.plain) = {}
      BY <3>1 DEF Used, Live
    <3>3. Request(r)[2] = {} /\ KeyValue(r)[2] = {}
      BY <3>1, ExtraDomains
    <3>4. used = {}
      BY <3>2, <3>3
    <3>5. self = Named(Nothing, FirstOf(users))
      BY <2>1
    <3>. HIDE DEF self, used
    <3>6. self.puts = << >> /\ self.used = {}
      BY <3>5, NamedFacts, NothingFacts
    <3>. QED  BY <3>4, <3>6, ListEmpty
  <2>2. CASE s.type # Blank
    <3>1. key # Blank
      OBVIOUS
    <3>2. \A c \in Used(r, s.plain) \cup Request(r)[2] \cup KeyValue(r)[2] :
            HasHome(r, c, One(id, Props(r, s.plain) ++ Request(r)[1] ++ KeyValue(r)[1] ++ linked ++ linkedEnds ++ linkedUsers).puts)
      <4>. HIDE DEF id, linked, linkedEnds, linkedUsers
      <4>. QED  BY OwnHomes
    <3>3. \A c \in used : HasHome(r, c, One(id, props).puts)
      <4>. HIDE DEF id, linked, linkedEnds, linkedUsers
      <4>. QED  BY <3>2
    <3>. HIDE DEF id, props, key
    <3>4. self = One(id, props)
      BY <2>2, <3>1 DEF Minted
    <3>. HIDE DEF self, used
    <3>. QED  BY <3>3, <3>4, OneFacts
  <2>. QED  BY <2>1, <2>2
<1>. HIDE DEF self, used
<1>4. Homes(r, self)
  BY <1>3 DEF Homes
<1>5. Homes(r, And(file, self)) /\ IsList(And(file, self).puts)
  BY <1>3, <1>4, HomesAnd, AndFacts
<1>6. ToSet(self.puts) \subseteq ToSet(And(file, self).puts)
  BY <1>3, AndFacts
<1>. DEFINE within == And(file, self)
<1>. HIDE DEF within
<1>7. Homes(r, within) /\ IsList(within.puts) /\ ToSet(self.puts) \subseteq ToSet(within.puts)
  BY <1>5, <1>6 DEF within
<1>8. Homes(r, And(around, within)) /\ IsList(And(around, within).puts)
  BY <1>2, <1>7, HomesAnd, AndFacts
<1>9. ToSet(And(around, within).puts) = ToSet(around.puts) \cup ToSet(within.puts)
  BY <1>2, <1>7, AndFacts
<1>10. \A c \in used : HasHome(r, c, And(around, within).puts)
  <2>1. ToSet(self.puts) \subseteq ToSet(And(around, within).puts)
    BY <1>7, <1>9
  <2>. QED  BY <1>3, <2>1, HomesMore
<1>11. p = Consuming(And(around, within), used)
  BY <1>1 DEF within
<1>. HIDE DEF p
<1>12. Homes(r, p) /\ IsList(p.puts)
  BY <1>8, <1>10, <1>11, HomesConsuming, ConsumingFacts
<1>. QED  BY <1>12 DEF p

LEMMA OtherHomes ==
  ASSUME NEW r, r.obj \in DOMAIN Shape, r.guid # Blank
  PROVE  Homes(r, BuildOther(r)) /\ IsList(BuildOther(r).puts)
<1>. DEFINE s == Shape[r.obj]
            ends == [i \in DOMAIN s.ends |-> End(r, s.ends[i])]
            users == [i \in DOMAIN s.accounts |-> AccountOf(r, s.accounts[i][2], s.accounts[i][3])]
            file == FilePart(r, s)
<1>1. ShapeIsSound(s) /\ ShapeHomes(r.obj)
  BY ShapeFacts, ShapesHaveHomes
<1>2. \A i \in DOMAIN s.ends : Homes(r, End(r, s.ends[i])) /\ IsList(End(r, s.ends[i]).puts)
  <2>1. \A i \in DOMAIN s.ends : s.ends[i][3] \in {"ip", "text"} /\ (s.ends[i][3] = "text" => r.obj \in {"http", "email"})
    BY <1>1 DEF ShapeHomes
  <2>2. \A i \in DOMAIN s.ends : s.ends[i] \in ToSet(s.ends)
    BY DEF ToSet
  <2>. QED  BY <2>1, <2>2, EndHomes
<1>. HIDE DEF s
<1>3. IsList(ends) /\ \A i \in DOMAIN ends : IsList(ends[i].puts) /\ Homes(r, ends[i])
  <2>1. IsList(ends) /\ DOMAIN ends = DOMAIN s.ends
    BY <1>1, ListMapped DEF ShapeIsSound
  <2>. QED  BY <1>2, <2>1
<1>4. IsList(users) /\ \A i \in DOMAIN users : IsList(users[i].puts) /\ Homes(r, users[i])
  <2>1. IsList(users) /\ DOMAIN users = DOMAIN s.accounts
    BY <1>1, ListMapped DEF ShapeIsSound
  <2>. QED  BY <2>1, AccountHomes
<1>5. Homes(r, file) /\ IsList(file.puts)
  BY FilePartHomes
<1>. DEFINE p == Assembled(r, Shape[r.obj], ends, users, file, << Request(r), KeyValue(r) >>)
<1>6. BuildOther(r) = p
  BY DEF BuildOther, BuildShaped, s
<1>. HIDE DEF ends, users, file
<1>7. Homes(r, p) /\ IsList(p.puts)
  BY <1>3, <1>4, <1>5, AssembledHomes
<1>. HIDE DEF p
<1>. QED  BY <1>6, <1>7

\* Whatever a row is of, what it says is in what it makes.
LEMMA PartsHomes ==
  ASSUME NEW r, NEW ref, r.obj \in Objects, r.guid # Blank
  PROVE  Homes(r, Parts(r, ref)) /\ IsList(Parts(r, ref).puts)
<1>. DEFINE built == Build(r, ref)
            record == RecordOf(r)
            own == OrRecord(r, built)
<1>1. Homes(r, built) /\ IsList(built.puts)
  <2>1. CASE r.obj \in DOMAIN FileShape
    BY <2>1, FileHomes DEF Build
  <2>2. CASE r.obj \notin DOMAIN FileShape /\ r.obj = "process"
    BY <2>2, ProcessHomes DEF Build
  <2>3. CASE r.obj \notin DOMAIN FileShape /\ r.obj # "process"
    BY <2>3, OtherHomes DEF Build, Objects
  <2>. QED  BY <2>1, <2>2, <2>3
<1>2. Homes(r, record) /\ IsList(record.puts)
  <2>1. record = One(<< "x-car-record", r.host, r.obj, r.guid >>, Prop("x_car_event_id", r.guid))
    BY DEF RecordOf, Minted
  <2>2. record.used = {} /\ IsList(record.puts)
    BY <2>1, OneFacts
  <2>. QED  BY <2>2 DEF Homes
<1>3. own = built \/ own = Named(And(built, record), record.id)
  BY DEF OrRecord
<1>. HIDE DEF built, record
<1>4. Homes(r, And(built, record)) /\ IsList(And(built, record).puts)
  BY <1>1, <1>2, HomesAnd, AndFacts
<1>. HIDE DEF own
<1>5. Homes(r, own) /\ IsList(own.puts)
  BY <1>1, <1>3, <1>4, HomesNamed, NamedFacts
<1>6. Parts(r, ref) = Led(own, Acts(r))
  BY DEF Parts, own, built
<1>7. Homes(r, Acts(r)) /\ IsList(Acts(r).puts)
  BY ActsHomes
<1>. QED  BY <1>5, <1>6, <1>7, HomesLed, LedFacts

\* What no part of a row consumes is on its observation as it is.
LEMMA ObservationSays ==
  ASSUME NEW r, NEW p, NEW refs, RowIsSound(r), NEW c \in Leftovers(r, p.used)
  PROVE  Says(Observation(r, p, refs)[2], r.cols[c])
<1>. DEFINE left == [x \in Leftovers(r, p.used) |-> r.cols[x]]
            who == IF r.owning # Blank THEN r.owning ELSE IF r.obj = "process" THEN r.guid ELSE Blank
            head == Prop("object_refs", p.refs \cup refs)
                    ++ Prop("x_car_event_id", r.guid) ++ Prop("x_car_action", r.act) ++ Prop("x_car_timestamp", r.ts)
                    ++ Prop("x_car_process_entity_id", who)
<1>1. Observation(r, p, refs)[2] = head ++ left
  BY DEF Observation
<1>2. DOMAIN head = ObservationProps
  BY DEF ++, Prop, ObservationProps
<1>3. c \in DOMAIN r.cols /\ r.cols[c] # Blank
  BY DEF Leftovers
<1>4. c \notin ObservationProps \cup RefProps \cup ListProps
  BY <1>3 DEF RowIsSound
<1>5. Names(left, c, r.cols[c])
  BY <1>3, <1>4 DEF Names
<1>. HIDE DEF head, left
<1>6. Names(head ++ left, c, r.cols[c])
  BY <1>2, <1>4, <1>5, NamesOver
<1>. QED  BY <1>1, <1>6, NamesSay

\* What an offer says is held by the object it was made to.
LEMMA HeldSays ==
  ASSUME NEW os, NEW x, NEW w, IsHeld(os, x), Says(x[2], w)
  PROVE  x[1] \in DOMAIN os /\ w \in Held(os[x[1]])
<1>. DEFINE props == x[2]
            o == os[x[1]]
<1>1. PICK p \in DOMAIN Given(props) \ RefProps :
         \/ p \notin ListProps /\ props[p] = w
         \/ p \in {"x_car_logins", "x_car_paths", "x_car_signers"} /\ w \in props[p]
         \/ p = "values" /\ \E t \in props[p] : w \in ToSet(t)
  BY DEF Says
<1>2. p \in DOMAIN props /\ (p \notin ListProps => props[p] # Blank)
  <2>1. DOMAIN Given(props) = {q \in DOMAIN props : IF q \in ListProps THEN props[q] # {} ELSE props[q] # Blank}
    BY WhatIsGiven
  <2>. QED  BY <1>1, <2>1
<1>3. x[1] \in DOMAIN os /\ p \in DOMAIN o.val /\ \A v : Gives(props, p, v) => Has(o, p, v)
  BY DEF IsHeld, Carries, Holds
<1>4. {"x_car_logins", "x_car_paths", "x_car_signers", "values"} \subseteq ListProps
  BY DEF ListProps
<1>. HIDE DEF props, o
<1>5. CASE p \notin ListProps /\ props[p] = w
  <2>1. Has(o, p, w)
    BY <1>2, <1>3, <1>5 DEF Gives
  <2>2. ASSUME w = o.val[p]
        PROVE  w \in Held(o)
    <3>1. p \in DOMAIN o.val \ (RefProps \cup ListProps)
      BY <1>1, <1>3, <1>5
    <3>. QED  BY <2>2, <3>1 DEF Held
  <2>3. ASSUME << p, w >> \in o.alt
        PROVE  w \in Held(o)
    <3>1. << p, w >>[1] \notin RefProps /\ << p, w >>[2] = w
      BY <1>1
    <3>. QED  BY <2>3, <3>1 DEF Held
  <2>4. w \in Held(o)
    BY <1>5, <2>1, <2>2, <2>3 DEF Has
  <2>. QED  BY <1>3, <2>4 DEF o
<1>6. CASE p \in {"x_car_logins", "x_car_paths", "x_car_signers"} /\ w \in props[p]
  <2>1. w \in o.val[p]
    BY <1>2, <1>3, <1>4, <1>6 DEF Gives, Has
  <2>2. w \in Held(o)
    BY <1>3, <1>6, <2>1 DEF Held
  <2>. QED  BY <1>3, <2>2 DEF o
<1>7. CASE p = "values" /\ \E t \in props[p] : w \in ToSet(t)
  <2>1. PICK t \in props[p] : w \in ToSet(t)
    BY <1>7
  <2>2. t \in o.val[p]
    BY <1>2, <1>3, <1>4, <1>7, <2>1 DEF Gives, Has
  <2>3. w \in Held(o)
    BY <1>3, <1>7, <2>1, <2>2 DEF Held
  <2>. QED  BY <1>3, <2>3 DEF o
<1>. QED  BY <1>1, <1>5, <1>6, <1>7

\* Whatever columns a row has and whichever rows surround it, what it says is in
\* the bundle, the three known losses apart (_Row.leftovers, Projection.row).
THEOREM NothingIsHomeless == Spec => []NothingHomeless
<1>1. Init => KeptIInv
  <2>1. Init => Place /\ phase = "content"
    BY PlaceInit DEF Init
  <2>. QED  BY <2>1, PastInRows DEF KeptIInv
<1>2. KeptIInv /\ [Next]_vars => KeptIInv'
  BY KeptIInvNext
<1>3. KeptIInv => NothingHomeless
  <2>. DEFINE held == UNION {Held(objs[id]) : id \in DOMAIN objs}
  <2>. SUFFICES ASSUME KeptIInv, phase = "done", NEW r \in Observed, NEW c \in DOMAIN r.cols,
                       Peek(r, c) # Blank, ~KnownLost(r, c)
                PROVE  Traces(Peek(r, c)) \cap held # {}
    BY DEF NothingHomeless
  <2>. DEFINE m == Made(r)
              refs == ContentRefs(contentOf, car.rows, r)
  <2>1. r \in ToSet(car.rows) /\ Seen(r) /\ r.guid # Blank
    BY DEF Observed, Seen
  <2>2. r \in Past
    BY <2>1, PastInRows DEF KeptIInv
  <2>3. \A x \in ToSet(Offers(r)) : IsHeld(objs, x)
    BY <2>2 DEF KeptIInv
  <2>4. RowIsSound(r) /\ r.obj \in Objects
    BY <2>1, StoreFacts DEF KeptIInv, Place, RowIsSound
  <2>5. Homes(r, m) /\ IsList(m.puts)
    BY <2>1, <2>4, PartsHomes DEF Made
  <2>6. ToSet(Offers(r)) = ToSet(m.puts) \cup {Observation(r, m, refs)}
    BY <2>1, <2>5, RowPutsFacts DEF Offers
  <2>7. \A x \in ToSet(Offers(r)) : \A w : Says(x[2], w) => w \in held
    BY <2>3, HeldSays
  <2>. HIDE DEF held, m, refs
  <2>8. CASE c \in m.used
    <3>1. ToldIn(m.puts, Peek(r, c))
      BY <2>5, <2>8 DEF Homes, HasHome
    <3>2. PICK w \in Traces(Peek(r, c)), x \in ToSet(m.puts) : Says(x[2], w)
      BY <3>1 DEF ToldIn, SaidIn
    <3>3. w \in held
      BY <2>6, <2>7, <3>2
    <3>. QED  BY <3>2, <3>3
  <2>9. CASE c \notin m.used
    <3>1. Peek(r, c) = r.cols[c]
      BY DEF Peek
    <3>2. c \in Leftovers(r, m.used)
      BY <2>9, <3>1 DEF Leftovers
    <3>3. r.cols[c] \in held
      BY <2>4, <2>6, <2>7, <3>2, ObservationSays
    <3>. QED  BY <3>1, <3>3, AValueIsATrace
  <2>. QED  BY <2>8, <2>9
<1>. QED  BY <1>1, <1>2, <1>3, PTL DEF Spec

(***************************************************************************)
(* What the parsers read.                                                  *)
(***************************************************************************)
\* The results of the calls with up to m tokens to go.
ReadsTo(c, f, m) ==
  f = [n \in 0 .. m |->
         IF n = 0 THEN [i \in 1 .. c.to + 1 |-> [not |-> Error, and |-> Error, or |-> Error]]
                  ELSE [i \in 1 .. c.to + 1 |-> ReadAt(c, i, f[n - 1])]]

\* What the parser reads with more tokens to go is built on what it reads with fewer.
LEMMA ReadsExist ==
  ASSUME NEW c, NEW m \in Nat
  PROVE  \E f : ReadsTo(c, f, m)
<1>. DEFINE none == [i \in 1 .. c.to + 1 |-> [not |-> Error, and |-> Error, or |-> Error]]
            T == {k \in Nat : \E f : ReadsTo(c, f, k)}
<1>1. 0 \in T
  <2>. DEFINE f == [k \in 0 .. 0 |-> none]
  <2>1. f = [n \in 0 .. 0 |-> IF n = 0 THEN none ELSE [i \in 1 .. c.to + 1 |-> ReadAt(c, i, f[n - 1])]]
    OBVIOUS
  <2>. HIDE DEF f
  <2>2. ReadsTo(c, f, 0)
    BY <2>1 DEF ReadsTo
  <2>. QED  BY <2>2
<1>2. ASSUME NEW k \in T
      PROVE  k + 1 \in T
  <2>1. k \in Nat
    OBVIOUS
  <2>2. PICK f : ReadsTo(c, f, k)
    OBVIOUS
  <2>. DEFINE g == [n \in 0 .. k + 1 |-> IF n \in 0 .. k THEN f[n]
                                         ELSE [i \in 1 .. c.to + 1 |-> ReadAt(c, i, f[n - 1])]]
  <2>3. ASSUME NEW n \in 0 .. k + 1
        PROVE  g[n] = IF n = 0 THEN none ELSE [i \in 1 .. c.to + 1 |-> ReadAt(c, i, g[n - 1])]
    <3>1. CASE n = 0
      <4>1. f[0] = none
        BY <2>1, <2>2 DEF ReadsTo
      <4>. QED  BY <2>1, <3>1, <4>1
    <3>2. CASE n # 0 /\ n \in 0 .. k
      <4>1. n - 1 \in 0 .. k /\ n - 1 \in 0 .. k + 1
        BY <2>1, <3>2
      <4>2. f[n] = [i \in 1 .. c.to + 1 |-> ReadAt(c, i, f[n - 1])]
        BY <2>2, <3>2 DEF ReadsTo
      <4>3. g[n - 1] = f[n - 1] /\ g[n] = f[n]
        BY <3>2, <4>1
      <4>. QED  BY <3>2, <4>2, <4>3
    <3>3. CASE n # 0 /\ n \notin 0 .. k
      <4>1. n - 1 \in 0 .. k /\ n - 1 \in 0 .. k + 1
        BY <2>1, <3>3
      <4>2. g[n - 1] = f[n - 1]
        BY <4>1
      <4>. QED  BY <3>3, <4>2
    <3>. QED  BY <3>1, <3>2, <3>3
  <2>4. g = [n \in 0 .. k + 1 |-> g[n]]
    OBVIOUS
  <2>. HIDE DEF g
  <2>5. ReadsTo(c, g, k + 1)
    BY <2>3, <2>4 DEF ReadsTo
  <2>. QED  BY <2>1, <2>5
<1>. HIDE DEF T
<1>3. T = Nat
  <2>1. T \in SUBSET Nat
    BY DEF T
  <2>. QED  BY <1>1, <1>2, <2>1, NaturalsByInduction
<1>. QED  BY <1>3 DEF T

\* So that a parse is what it reads at the start of the stretch with all tokens to go.
LEMMA ParseIs ==
  ASSUME NEW c, c.to \in Nat
  PROVE  \E f : /\ ReadsTo(c, f, c.to)
                /\ Parse(c) = IF f[c.to][c.from].or.at = c.to + 1 THEN f[c.to][c.from].or ELSE Error
<1>. DEFINE read == CHOOSE f : f = [n \in 0 .. c.to |->
                      IF n = 0 THEN [i \in 1 .. c.to + 1 |-> [not |-> Error, and |-> Error, or |-> Error]]
                               ELSE [i \in 1 .. c.to + 1 |-> ReadAt(c, i, f[n - 1])]]
<1>1. \E f : f = [n \in 0 .. c.to |->
                      IF n = 0 THEN [i \in 1 .. c.to + 1 |-> [not |-> Error, and |-> Error, or |-> Error]]
                               ELSE [i \in 1 .. c.to + 1 |-> ReadAt(c, i, f[n - 1])]]
  <2>1. PICK f : ReadsTo(c, f, c.to)
    BY ReadsExist
  <2>. QED  BY <2>1 DEF ReadsTo
<1>2. read = [n \in 0 .. c.to |->
                      IF n = 0 THEN [i \in 1 .. c.to + 1 |-> [not |-> Error, and |-> Error, or |-> Error]]
                               ELSE [i \in 1 .. c.to + 1 |-> ReadAt(c, i, read[n - 1])]]
  BY <1>1
<1>3. Parse(c) = IF read[c.to][c.from].or.at = c.to + 1 THEN read[c.to][c.from].or ELSE Error
  BY DEF Parse
<1>. HIDE DEF read
<1>4. ReadsTo(c, read, c.to)
  BY <1>2 DEF ReadsTo
<1>. QED  BY <1>3, <1>4

\* The senses that up to m levels of connectives and parentheses give.
SensesTo(c, f, m) ==
  f = [n \in 0 .. m |->
         IF n = 0 THEN [s \in (1 .. Len(c.text) + 1) \X (0 .. Len(c.text)) |-> {}]
         ELSE [s \in (1 .. Len(c.text) + 1) \X (0 .. Len(c.text)) |->
                 SenseOf(c, s[1], s[2], f[n - 1])]]

\* One level of senses, by the one below it.
LEMMA SensesStep ==
  ASSUME NEW c, NEW f, NEW m \in Nat, SensesTo(c, f, m), NEW n \in 0 .. m, n # 0,
         NEW i \in 1 .. Len(c.text) + 1, NEW j \in 0 .. Len(c.text)
  PROVE  f[n][<<i, j>>] = SenseOf(c, i, j, f[n - 1])
<1>. DEFINE S == (1 .. Len(c.text) + 1) \X (0 .. Len(c.text))
            G(k) == IF k = 0 THEN [s \in S |-> {}] ELSE [s \in S |-> SenseOf(c, s[1], s[2], f[k - 1])]
<1>1. f = [k \in 0 .. m |-> G(k)]
  BY DEF SensesTo
<1>2. G(n) = [s \in S |-> SenseOf(c, s[1], s[2], f[n - 1])]
  OBVIOUS
<1>. HIDE DEF G
<1>3. f[n] = G(n)
  BY <1>1
<1>4. f[n] = [s \in S |-> SenseOf(c, s[1], s[2], f[n - 1])] /\ <<i, j>> \in S
  BY <1>2, <1>3
<1>. HIDE DEF S
<1>. QED  BY <1>4

\* Senses are built up level on level in the same way.
LEMMA SensesExist ==
  ASSUME NEW c, NEW m \in Nat
  PROVE  \E f : SensesTo(c, f, m)
<1>. DEFINE S == (1 .. Len(c.text) + 1) \X (0 .. Len(c.text))
            none == [s \in S |-> {}]
            T == {k \in Nat : \E f : SensesTo(c, f, k)}
<1>1. 0 \in T
  <2>. DEFINE f == [k \in 0 .. 0 |-> none]
  <2>1. f = [n \in 0 .. 0 |-> IF n = 0 THEN none ELSE [s \in S |-> SenseOf(c, s[1], s[2], f[n - 1])]]
    OBVIOUS
  <2>. HIDE DEF f
  <2>2. SensesTo(c, f, 0)
    BY <2>1 DEF SensesTo
  <2>. QED  BY <2>2
<1>2. ASSUME NEW k \in T
      PROVE  k + 1 \in T
  <2>1. k \in Nat
    OBVIOUS
  <2>2. PICK f : SensesTo(c, f, k)
    OBVIOUS
  <2>. DEFINE g == [n \in 0 .. k + 1 |-> IF n \in 0 .. k THEN f[n]
                                         ELSE [s \in S |-> SenseOf(c, s[1], s[2], f[n - 1])]]
  <2>3. ASSUME NEW n \in 0 .. k + 1
        PROVE  g[n] = IF n = 0 THEN none ELSE [s \in S |-> SenseOf(c, s[1], s[2], g[n - 1])]
    <3>1. CASE n = 0
      <4>1. f[0] = none
        BY <2>1, <2>2 DEF SensesTo
      <4>. QED  BY <2>1, <3>1, <4>1
    <3>2. CASE n # 0 /\ n \in 0 .. k
      <4>1. n - 1 \in 0 .. k /\ n - 1 \in 0 .. k + 1
        BY <2>1, <3>2
      <4>2. f[n] = [s \in S |-> SenseOf(c, s[1], s[2], f[n - 1])]
        BY <2>2, <3>2 DEF SensesTo
      <4>3. g[n - 1] = f[n - 1] /\ g[n] = f[n]
        BY <3>2, <4>1
      <4>. QED  BY <3>2, <4>2, <4>3
    <3>3. CASE n # 0 /\ n \notin 0 .. k
      <4>1. n - 1 \in 0 .. k /\ n - 1 \in 0 .. k + 1
        BY <2>1, <3>3
      <4>2. g[n - 1] = f[n - 1]
        BY <4>1
      <4>. QED  BY <3>3, <4>2
    <3>. QED  BY <3>1, <3>2, <3>3
  <2>4. g = [n \in 0 .. k + 1 |-> g[n]]
    OBVIOUS
  <2>. HIDE DEF g
  <2>5. SensesTo(c, g, k + 1)
    BY <2>3, <2>4 DEF SensesTo
  <2>. QED  BY <2>1, <2>5
<1>. HIDE DEF T
<1>3. T = Nat
  <2>1. T \in SUBSET Nat
    BY DEF T
  <2>. QED  BY <1>1, <1>2, <2>1, NaturalsByInduction
<1>. QED  BY <1>3 DEF T

\* The senses of a condition are those of the highest level.
LEMMA SensesAre ==
  ASSUME NEW c, Len(c.text) \in Nat
  PROVE  \E f : SensesTo(c, f, Len(c.text)) /\ Senses(c) = f[Len(c.text)][<<c.from, c.to>>]
<1>. DEFINE sense == CHOOSE f : f = [n \in 0 .. Len(c.text) |->
                      IF n = 0 THEN [s \in (1 .. Len(c.text) + 1) \X (0 .. Len(c.text)) |-> {}]
                      ELSE [s \in (1 .. Len(c.text) + 1) \X (0 .. Len(c.text)) |->
                              SenseOf(c, s[1], s[2], f[n - 1])]]
<1>1. \E f : f = [n \in 0 .. Len(c.text) |->
                      IF n = 0 THEN [s \in (1 .. Len(c.text) + 1) \X (0 .. Len(c.text)) |-> {}]
                      ELSE [s \in (1 .. Len(c.text) + 1) \X (0 .. Len(c.text)) |->
                              SenseOf(c, s[1], s[2], f[n - 1])]]
  <2>1. PICK f : SensesTo(c, f, Len(c.text))
    BY SensesExist
  <2>. QED  BY <2>1 DEF SensesTo
<1>2. sense = [n \in 0 .. Len(c.text) |->
                      IF n = 0 THEN [s \in (1 .. Len(c.text) + 1) \X (0 .. Len(c.text)) |-> {}]
                      ELSE [s \in (1 .. Len(c.text) + 1) \X (0 .. Len(c.text)) |->
                              SenseOf(c, s[1], s[2], sense[n - 1])]]
  BY <1>1
<1>3. Senses(c) = sense[Len(c.text)][<<c.from, c.to>>]
  BY DEF Senses
<1>. HIDE DEF sense
<1>4. SensesTo(c, sense, Len(c.text))
  BY <1>2 DEF SensesTo
<1>. QED  BY <1>3, <1>4

(***************************************************************************)
(* Depths and least places.                                                *)
(***************************************************************************)
\* A depth is a number.
LEMMA DepthIsInt ==
  ASSUME NEW t, NEW i \in Nat, i >= 1
  PROVE  Depth(t, i) \in Int
<1>1. IsFiniteSet(1 .. i - 1)
  BY FS_Interval
<1>2. /\ IsFiniteSet({j \in 1 .. i - 1 : t[j] = "("})
      /\ IsFiniteSet({j \in 1 .. i - 1 : t[j] = ")"})
  BY <1>1, FS_Subset
<1>. QED  BY <1>2, FS_CardinalityType DEF Depth

\* A token that is no parenthesis leaves the depth as it is.
LEMMA DepthNext ==
  ASSUME NEW t, NEW i \in Nat, i >= 1, t[i] \notin {"(", ")"}
  PROVE  Depth(t, i + 1) = Depth(t, i)
<1>1. 1 .. (i + 1) - 1 = (1 .. i - 1) \cup {i}
  OBVIOUS
<1>2. {j \in 1 .. (i + 1) - 1 : t[j] = "("} = {j \in 1 .. i - 1 : t[j] = "("}
  BY <1>1
<1>3. {j \in 1 .. (i + 1) - 1 : t[j] = ")"} = {j \in 1 .. i - 1 : t[j] = ")"}
  BY <1>1
<1>. QED  BY <1>2, <1>3 DEF Depth

\* The least of a set of places is one of them.
LEMMA FirstIs ==
  ASSUME NEW S \in SUBSET Nat, S # {}
  PROVE  First(S) \in S /\ \A x \in S : First(S) <= x
<1>1. \E x \in S : \A y \in S : x <= y
  BY LeastNatural
<1>. QED  BY <1>1 DEF First

(***************************************************************************)
(* The parser reads what a condition means.                                *)
(***************************************************************************)
\* A stretch of a text.
IsCondition(c) ==
  /\ Len(c.text) \in Nat /\ c.to \in 0 .. Len(c.text)
  /\ c.sigma => LowerTargets(c)

\* With p tokens to go, the parser finds a sense of the stretch <<i, j>> at i, at
\* each level whose connectives do not go on where the stretch ends.
Found(c, f, p, i, j, m) ==
  /\ /\ Tops(c.text, i, j, "or") = {} /\ Tops(c.text, i, j, "and") = {}
     /\ At(c, j + 1) # "of"
     => f[p][i].not = Parsed(m, j + 1)
  /\ Tops(c.text, i, j, "or") = {} /\ At(c, j + 1) \notin {"and", "of"}
     => f[p][i].and = Parsed(m, j + 1)
  /\ At(c, j + 1) \notin {"or", "and", "of"}
     => f[p][i].or = Parsed(m, j + 1)

\* What was parsed, and where the parser is.
LEMMA ParsedFacts ==
  \A m, k : Parsed(m, k).holds = m /\ Parsed(m, k).at = k
  BY DEF Parsed

\* One call of each level of the grammar, by the calls further on.
LEMMA ReadStep ==
  ASSUME NEW c, IsCondition(c), NEW f, ReadsTo(c, f, c.to),
         NEW p \in 1 .. c.to, NEW i \in 1 .. c.to
  PROVE  /\ f[p][i].not = UnaryAt(c, i, f[p - 1])
         /\ f[p][i].and = AndFrom(c, f[p][i].not, f[p - 1])
         /\ f[p][i].or = OrFrom(c, f[p][i].and, f[p - 1])
<1>1. p \in 0 .. c.to /\ p # 0 /\ i \in 1 .. c.to + 1
  BY DEF IsCondition
<1>2. f[p] = [k \in 1 .. c.to + 1 |-> ReadAt(c, k, f[p - 1])]
  BY <1>1 DEF ReadsTo
<1>3. f[p][i] = ReadAt(c, i, f[p - 1])
  BY <1>1, <1>2
<1>. QED  BY <1>3 DEF ReadAt, Conjunction

\* A level that the stretch does not reach passes on what the one below it read.
LEMMA LevelsAbove ==
  ASSUME NEW c, NEW later, NEW j \in Nat, NEW m
  PROVE  /\ At(c, j + 1) # "and" => AndFrom(c, Parsed(m, j + 1), later) = Parsed(m, j + 1)
         /\ At(c, j + 1) # "or" => OrFrom(c, Parsed(m, j + 1), later) = Parsed(m, j + 1)
  BY ParsedFacts DEF AndFrom, OrFrom

\* The parts of a stretch that is split at its first connective.
SplitsAt(t, i, j, word, k) ==
  /\ k \in i .. j /\ t[k] = word
  /\ Tops(t, i, k - 1, word) = {}
  /\ \A w : Tops(t, i, k - 1, w) \subseteq Tops(t, i, j, w)
  /\ \A w : Tops(t, k + 1, j, w) \subseteq Tops(t, i, j, w)

LEMMA SplitAt ==
  ASSUME NEW t, NEW i \in Nat, i >= 1, NEW j \in Nat, NEW word \in {"or", "and"},
         Tops(t, i, j, word) # {}
  PROVE  SplitsAt(t, i, j, word, First(Tops(t, i, j, word)))
<1>. DEFINE S == Tops(t, i, j, word)
            k == First(S)
<1>1. S \in SUBSET Nat
  BY DEF Tops
<1>2. k \in S /\ \A x \in S : k <= x
  BY <1>1, FirstIs
<1>3. k \in i .. j /\ t[k] = word /\ Depth(t, k) = Depth(t, i)
  BY <1>2 DEF Tops
<1>4. Depth(t, k + 1) = Depth(t, i)
  <2>1. t[k] \notin {"(", ")"}
    BY <1>3
  <2>2. k \in Nat /\ k >= 1
    BY <1>3
  <2>. QED  BY <1>3, <2>1, <2>2, DepthNext
<1>5. \A w : Tops(t, i, k - 1, w) \subseteq Tops(t, i, j, w)
  BY <1>3 DEF Tops
<1>6. \A w : Tops(t, k + 1, j, w) \subseteq Tops(t, i, j, w)
  BY <1>3, <1>4 DEF Tops
<1>7. Tops(t, i, k - 1, word) = {}
  <2>. SUFFICES ASSUME NEW x \in Tops(t, i, k - 1, word)
                PROVE  FALSE
    OBVIOUS
  <2>1. x \in S /\ x \in i .. k - 1
    BY <1>5 DEF Tops
  <2>. QED  BY <1>2, <1>3, <2>1
<1>. QED  BY <1>3, <1>5, <1>6, <1>7 DEF SplitsAt

\* What the parts of a stretch are to the parser.
PartsFound(c, f, part) ==
  \A a \in 1 .. c.to + 1, b \in 0 .. c.to : \A m \in part[<<a, b>>] :
    /\ a <= b
    /\ \A q \in 0 .. c.to : b + 1 - a <= q => Found(c, f, q, a, b, m)

\* A stretch that has a top-level "or": the first joins a conjunction to the rest.
LEMMA OrFound ==
  ASSUME NEW c, IsCondition(c), NEW f, ReadsTo(c, f, c.to), NEW part, PartsFound(c, f, part),
         NEW i \in 1 .. c.to, NEW j \in 1 .. c.to, NEW p \in 0 .. c.to, j + 1 - i <= p, i <= j,
         NEW m \in SenseOf(c, i, j, part), Tops(c.text, i, j, "or") # {}
  PROVE  Found(c, f, p, i, j, m)
<1>. DEFINE k == First(Tops(c.text, i, j, "or"))
<1>1. PICK a \in part[<<i, k - 1>>], b \in part[<<k + 1, j>>] : m = a \union b
  BY DEF SenseOf
<1>2. /\ k \in i .. j /\ c.text[k] = "or" /\ Tops(c.text, i, k - 1, "or") = {}
  <2>1. i \in Nat /\ i >= 1 /\ j \in Nat
    OBVIOUS
  <2>2. SplitsAt(c.text, i, j, "or", k)
    BY <2>1, SplitAt
  <2>. HIDE DEF k
  <2>. QED  BY <2>2 DEF SplitsAt
<1>. HIDE DEF k
<1>3. c.to \in Nat /\ p \in 1 .. c.to /\ p - 1 \in 0 .. c.to
  BY DEF IsCondition
<1>4. k - 1 \in 0 .. c.to /\ k + 1 \in 1 .. c.to + 1 /\ k <= c.to /\ k \in Nat
  BY <1>2, <1>3
<1>5. i <= k - 1 /\ Found(c, f, p, i, k - 1, a)
  <2>1. i <= k - 1
    BY <1>3, <1>4 DEF PartsFound
  <2>2. (k - 1) + 1 - i <= p
    BY <1>2, <1>3, <1>4
  <2>. QED  BY <1>3, <1>4, <2>1, <2>2 DEF PartsFound
<1>6. k + 1 <= j /\ Found(c, f, p - 1, k + 1, j, b)
  <2>1. k + 1 <= j
    BY <1>3, <1>4 DEF PartsFound
  <2>2. j + 1 - (k + 1) <= p - 1
    BY <1>2, <1>3, <1>4
  <2>. QED  BY <1>3, <1>4, <2>1, <2>2 DEF PartsFound
<1>7. At(c, k) = "or"
  BY <1>2, <1>4 DEF At
<1>8. (k - 1) + 1 = k
  BY <1>4
<1>9. f[p][i].and = Parsed(a, k)
  <2>1. At(c, (k - 1) + 1) \notin {"and", "of"}
    BY <1>7, <1>8
  <2>. QED  BY <1>2, <1>5, <1>8, <2>1 DEF Found
<1>10. ASSUME At(c, j + 1) \notin {"or", "and", "of"}
       PROVE  f[p][i].or = Parsed(m, j + 1)
  <2>1. f[p - 1][k + 1].or = Parsed(b, j + 1)
    BY <1>6, <1>10 DEF Found
  <2>2. f[p][i].or = OrFrom(c, Parsed(a, k), f[p - 1])
    BY <1>3, <1>9, ReadStep
  <2>3. Parsed(a, k).at = k /\ Parsed(a, k).holds = a /\ k # 0
    BY <1>2, ParsedFacts
  <2>4. Parsed(b, j + 1).at = j + 1 /\ Parsed(b, j + 1).holds = b /\ j + 1 # 0
    BY ParsedFacts
  <2>. QED  BY <1>1, <1>7, <2>1, <2>2, <2>3, <2>4 DEF OrFrom
<1>. QED  BY <1>10 DEF Found

\* A stretch that has a top-level "and" and no "or".
LEMMA AndFound ==
  ASSUME NEW c, IsCondition(c), NEW f, ReadsTo(c, f, c.to), NEW part, PartsFound(c, f, part),
         NEW i \in 1 .. c.to, NEW j \in 1 .. c.to, NEW p \in 0 .. c.to, j + 1 - i <= p, i <= j,
         NEW m \in SenseOf(c, i, j, part),
         Tops(c.text, i, j, "or") = {}, Tops(c.text, i, j, "and") # {}
  PROVE  Found(c, f, p, i, j, m)
<1>. DEFINE k == First(Tops(c.text, i, j, "and"))
<1>1. PICK a \in part[<<i, k - 1>>], b \in part[<<k + 1, j>>] : m = a \intersect b
  BY DEF SenseOf
<1>2. /\ k \in i .. j /\ c.text[k] = "and" /\ Tops(c.text, i, k - 1, "and") = {}
      /\ Tops(c.text, i, k - 1, "or") = {} /\ Tops(c.text, k + 1, j, "or") = {}
  <2>1. i \in Nat /\ i >= 1 /\ j \in Nat
    OBVIOUS
  <2>2. SplitsAt(c.text, i, j, "and", k)
    BY <2>1, SplitAt
  <2>. HIDE DEF k
  <2>3. Tops(c.text, i, k - 1, "or") \subseteq {} /\ Tops(c.text, k + 1, j, "or") \subseteq {}
    BY <2>2 DEF SplitsAt
  <2>. QED  BY <2>2, <2>3 DEF SplitsAt
<1>. HIDE DEF k
<1>3. c.to \in Nat /\ p \in 1 .. c.to /\ p - 1 \in 0 .. c.to
  BY DEF IsCondition
<1>4. k - 1 \in 0 .. c.to /\ k + 1 \in 1 .. c.to + 1 /\ k <= c.to /\ k \in Nat
  BY <1>2, <1>3
<1>5. i <= k - 1 /\ Found(c, f, p, i, k - 1, a)
  <2>1. i <= k - 1
    BY <1>3, <1>4 DEF PartsFound
  <2>2. (k - 1) + 1 - i <= p
    BY <1>2, <1>3, <1>4
  <2>. QED  BY <1>3, <1>4, <2>1, <2>2 DEF PartsFound
<1>6. k + 1 <= j /\ Found(c, f, p - 1, k + 1, j, b)
  <2>1. k + 1 <= j
    BY <1>3, <1>4 DEF PartsFound
  <2>2. j + 1 - (k + 1) <= p - 1
    BY <1>2, <1>3, <1>4
  <2>. QED  BY <1>3, <1>4, <2>1, <2>2 DEF PartsFound
<1>7. At(c, k) = "and"
  BY <1>2, <1>4 DEF At
<1>8. (k - 1) + 1 = k
  BY <1>4
<1>9. f[p][i].not = Parsed(a, k)
  <2>1. At(c, (k - 1) + 1) # "of"
    BY <1>7, <1>8
  <2>. QED  BY <1>2, <1>5, <1>8, <2>1 DEF Found
<1>10. ASSUME At(c, j + 1) \notin {"and", "of"}
       PROVE  f[p][i].and = Parsed(m, j + 1)
  <2>1. f[p - 1][k + 1].and = Parsed(b, j + 1)
    BY <1>2, <1>6, <1>10 DEF Found
  <2>2. f[p][i].and = AndFrom(c, Parsed(a, k), f[p - 1])
    BY <1>3, <1>9, ReadStep
  <2>3. Parsed(a, k).at = k /\ Parsed(a, k).holds = a /\ k # 0
    BY <1>2, ParsedFacts
  <2>4. Parsed(b, j + 1).at = j + 1 /\ Parsed(b, j + 1).holds = b /\ j + 1 # 0
    BY ParsedFacts
  <2>. QED  BY <1>1, <1>7, <2>1, <2>2, <2>3, <2>4 DEF AndFrom
<1>11. ASSUME At(c, j + 1) \notin {"or", "and", "of"}
       PROVE  f[p][i].or = Parsed(m, j + 1)
  <2>1. f[p][i].and = AndFrom(c, f[p][i].not, f[p - 1]) /\ f[p][i].or = OrFrom(c, f[p][i].and, f[p - 1])
    BY <1>3, ReadStep
  <2>2. OrFrom(c, Parsed(m, j + 1), f[p - 1]) = Parsed(m, j + 1)
    BY <1>11, LevelsAbove
  <2>. QED  BY <1>10, <1>11, <2>1, <2>2
<1>. QED  BY <1>10, <1>11 DEF Found

\* A stretch of no connective: a negation, parentheses, a name, a quantifier.
LEMMA UnaryFound ==
  ASSUME NEW c, IsCondition(c), NEW f, ReadsTo(c, f, c.to), NEW part, PartsFound(c, f, part),
         NEW i \in 1 .. c.to, NEW j \in 1 .. c.to, NEW p \in 0 .. c.to, j + 1 - i <= p, i <= j,
         NEW m \in SenseOf(c, i, j, part),
         Tops(c.text, i, j, "or") = {}, Tops(c.text, i, j, "and") = {}
  PROVE  Found(c, f, p, i, j, m)
<1>1. c.to \in Nat /\ p \in 1 .. c.to /\ p - 1 \in 0 .. c.to /\ i + 1 \in 1 .. c.to + 1
  BY DEF IsCondition
<1>2. At(c, i) = c.text[i] /\ At(c, j) = c.text[j]
  BY <1>1 DEF At
<1>3. f[p][i].not = UnaryAt(c, i, f[p - 1])
  BY <1>1, ReadStep
<1>4. ASSUME At(c, j + 1) # "of"
      PROVE  f[p][i].not = Parsed(m, j + 1)
  <2>1. CASE c.text[i] = "not"
    <3>1. PICK a \in part[<<i + 1, j>>] : m = SUBSET c.names \ a
      BY <2>1 DEF SenseOf
    <3>2. i + 1 <= j /\ Found(c, f, p - 1, i + 1, j, a)
      <4>1. i + 1 <= j
        BY <1>1 DEF PartsFound
      <4>2. j + 1 - (i + 1) <= p - 1 /\ j \in 0 .. c.to
        BY <1>1
      <4>. QED  BY <1>1, <4>1, <4>2 DEF PartsFound
    <3>3. Tops(c.text, i + 1, j, "or") = {} /\ Tops(c.text, i + 1, j, "and") = {}
      <4>1. Depth(c.text, i + 1) = Depth(c.text, i)
        BY <2>1, DepthNext
      <4>. QED  BY <1>1, <4>1 DEF Tops
    <3>4. f[p - 1][i + 1].not = Parsed(a, j + 1)
      BY <1>4, <3>2, <3>3 DEF Found
    <3>5. Parsed(a, j + 1).at = j + 1 /\ Parsed(a, j + 1).holds = a /\ j + 1 # 0
      BY ParsedFacts
    <3>. QED  BY <1>2, <1>3, <2>1, <3>1, <3>4, <3>5 DEF UnaryAt
  <2>2. CASE c.text[i] = "(" /\ c.text[j] = ")" /\ i + 1 < j
    <3>1. m \in part[<<i + 1, j - 1>>]
      BY <2>2 DEF SenseOf
    <3>2. j - 1 \in 0 .. c.to /\ (j - 1) + 1 = j /\ (j - 1) + 1 - (i + 1) <= p - 1
      BY <1>1
    <3>3. Found(c, f, p - 1, i + 1, j - 1, m)
      BY <1>1, <3>1, <3>2 DEF PartsFound
    <3>4. f[p - 1][i + 1].or = Parsed(m, j)
      <4>1. At(c, (j - 1) + 1) \notin {"or", "and", "of"}
        BY <1>2, <2>2, <3>2
      <4>. QED  BY <3>2, <3>3, <4>1 DEF Found
    <3>5. Parsed(m, j).at = j /\ Parsed(m, j).holds = m /\ j # 0
      BY ParsedFacts
    <3>6. UnaryAt(c, i, f[p - 1]) = AtomAt(c, i, f[p - 1])
      BY <1>2, <2>2 DEF UnaryAt
    <3>. QED  BY <1>2, <1>3, <2>2, <3>4, <3>5, <3>6 DEF AtomAt
  <2>3. CASE /\ c.text[i] # "not" /\ ~(c.text[i] = "(" /\ c.text[j] = ")" /\ i + 1 < j)
             /\ i = j /\ c.text[i] \in c.names \ Words
    <3>1. m = Naming(c, c.text[i])
      BY <2>3 DEF SenseOf
    <3>2. c.text[i] # "(" /\ ~(i > c.to)
      BY <1>1, <2>3 DEF Words
    <3>3. UnaryAt(c, i, f[p - 1]) = AtomAt(c, i, f[p - 1])
      BY <1>2, <2>3 DEF UnaryAt
    <3>4. CASE c.sigma /\ c.text[i] \in Quantifiers
      <4>1. AtomAt(c, i, f[p - 1]) = Quantified(c, i)
        BY <1>2, <3>2, <3>4 DEF AtomAt
      <4>. QED  BY <1>3, <1>4, <2>3, <3>1, <3>3, <4>1 DEF Quantified
    <3>5. CASE ~(c.sigma /\ c.text[i] \in Quantifiers)
      <4>1. AtomAt(c, i, f[p - 1]) = Parsed(Naming(c, c.text[i]), i + 1)
        BY <1>2, <2>3, <3>2, <3>5 DEF AtomAt
      <4>. QED  BY <1>3, <2>3, <3>1, <3>3, <4>1
    <3>. QED  BY <3>4, <3>5
  <2>4. CASE /\ c.text[i] # "not" /\ ~(c.text[i] = "(" /\ c.text[j] = ")" /\ i + 1 < j)
             /\ ~(i = j /\ c.text[i] \in c.names \ Words)
    <3>1. /\ c.sigma /\ j = i + 2 /\ c.text[i] \in Quantifiers /\ c.text[i + 1] = "of"
          /\ m = Counting(c, c.text[i], c.text[j])
      BY <2>4 DEF SenseOf
    <3>2. c.text[i] # "(" /\ c.text[i] # "not" /\ ~(i > c.to)
      BY <1>1, <3>1 DEF Quantifiers
    <3>3. UnaryAt(c, i, f[p - 1]) = Quantified(c, i)
      <4>1. AtomAt(c, i, f[p - 1]) = Quantified(c, i)
        BY <1>2, <3>1, <3>2 DEF AtomAt
      <4>. QED  BY <1>2, <3>2, <4>1 DEF UnaryAt
    <3>4. At(c, i + 1) = "of" /\ i + 2 <= c.to /\ i + 3 = j + 1
      BY <1>1, <3>1 DEF At
    <3>5. Lowered(c.text[i + 2]) = c.text[j]
      <4>1. i + 1 \in 1 .. c.to - 1 /\ (i + 1) + 1 = j /\ i + 2 = j
        BY <1>1, <3>1
      <4>. QED  BY <3>1, <4>1 DEF IsCondition, LowerTargets
    <3>. QED  BY <1>3, <3>1, <3>3, <3>4, <3>5 DEF Quantified
  <2>. QED  BY <2>1, <2>2, <2>3, <2>4
<1>5. j \in Nat
  OBVIOUS
<1>6. /\ f[p][i].and = AndFrom(c, f[p][i].not, f[p - 1])
      /\ f[p][i].or = OrFrom(c, f[p][i].and, f[p - 1])
  BY <1>1, ReadStep
<1>7. At(c, j + 1) \notin {"and", "of"} => f[p][i].and = Parsed(m, j + 1)
  <2>1. At(c, j + 1) # "and" => AndFrom(c, Parsed(m, j + 1), f[p - 1]) = Parsed(m, j + 1)
    BY <1>5, LevelsAbove
  <2>. QED  BY <1>4, <1>6, <2>1
<1>8. At(c, j + 1) \notin {"or", "and", "of"} => f[p][i].or = Parsed(m, j + 1)
  <2>1. At(c, j + 1) # "or" => OrFrom(c, Parsed(m, j + 1), f[p - 1]) = Parsed(m, j + 1)
    BY <1>5, LevelsAbove
  <2>. QED  BY <1>6, <1>7, <2>1
<1>. QED  BY <1>4, <1>7, <1>8 DEF Found

\* Every sense is found, by induction on the level it is a sense at.
LEMMA SensesFound ==
  ASSUME NEW c, IsCondition(c), NEW f, ReadsTo(c, f, c.to), NEW g, SensesTo(c, g, Len(c.text)),
         NEW n \in 0 .. Len(c.text)
  PROVE  PartsFound(c, f, g[n])
<1>. DEFINE S == (1 .. Len(c.text) + 1) \X (0 .. Len(c.text))
            T == {k \in Nat : k <= Len(c.text) => PartsFound(c, f, g[k])}
<1>0. Len(c.text) \in Nat /\ c.to \in Nat /\ c.to <= Len(c.text)
  BY DEF IsCondition
<1>1. 0 \in T
  <2>1. g[0] = [s \in S |-> {}]
    BY <1>0 DEF SensesTo
  <2>2. \A a \in 1 .. c.to + 1, b \in 0 .. c.to : g[0][<<a, b>>] = {}
    BY <1>0, <2>1
  <2>. QED  BY <2>2 DEF PartsFound
<1>2. ASSUME NEW k \in T
      PROVE  k + 1 \in T
  <2>. SUFFICES ASSUME k + 1 <= Len(c.text)
                PROVE  PartsFound(c, f, g[k + 1])
    OBVIOUS
  <2>1. PartsFound(c, f, g[k]) /\ k + 1 \in 0 .. Len(c.text) /\ k + 1 # 0 /\ (k + 1) - 1 = k
    BY <1>0
  <2>2. g[k + 1] = [s \in S |-> SenseOf(c, s[1], s[2], g[k])]
    <3>1. g[k + 1] = [s \in S |-> SenseOf(c, s[1], s[2], g[(k + 1) - 1])]
      BY <2>1 DEF SensesTo
    <3>. QED  BY <2>1, <3>1
  <2>. SUFFICES ASSUME NEW a \in 1 .. c.to + 1, NEW b \in 0 .. c.to, NEW m \in g[k + 1][<<a, b>>]
                PROVE  /\ a <= b
                       /\ \A q \in 0 .. c.to : b + 1 - a <= q => Found(c, f, q, a, b, m)
    BY DEF PartsFound
  <2>3. m \in SenseOf(c, a, b, g[k])
    BY <1>0, <2>2
  <2>4. a <= b
    BY <2>3 DEF SenseOf
  <2>5. a \in 1 .. c.to /\ b \in 1 .. c.to
    BY <1>0, <2>4
  <2>6. ASSUME NEW q \in 0 .. c.to, b + 1 - a <= q
        PROVE  Found(c, f, q, a, b, m)
    <3>1. CASE Tops(c.text, a, b, "or") # {}
      BY <2>1, <2>3, <2>4, <2>5, <2>6, <3>1, OrFound
    <3>2. CASE Tops(c.text, a, b, "or") = {} /\ Tops(c.text, a, b, "and") # {}
      BY <2>1, <2>3, <2>4, <2>5, <2>6, <3>2, AndFound
    <3>3. CASE Tops(c.text, a, b, "or") = {} /\ Tops(c.text, a, b, "and") = {}
      BY <2>1, <2>3, <2>4, <2>5, <2>6, <3>3, UnaryFound
    <3>. QED  BY <3>1, <3>2, <3>3
  <2>. QED  BY <2>4, <2>6
<1>. HIDE DEF T
<1>3. T = Nat
  <2>1. T \in SUBSET Nat
    BY DEF T
  <2>. QED  BY <1>1, <1>2, <2>1, NaturalsByInduction
<1>. QED  BY <1>0, <1>3 DEF T

\* If a stretch has a sense, of as many levels as you like, the parser reads that
\* sense and all of the stretch, wherever the text around it goes on.
LEMMA ParserReadsSense ==
  ASSUME NEW c, IsCondition(c), c.from \in 1 .. c.to + 1,
         NEW g, SensesTo(c, g, Len(c.text)), NEW n \in 0 .. Len(c.text),
         NEW m \in g[n][<<c.from, c.to>>]
  PROVE  Parse(c) = Parsed(m, c.to + 1)
<1>1. c.to \in Nat /\ c.to \in 0 .. c.to
  BY DEF IsCondition
<1>2. PICK f : /\ ReadsTo(c, f, c.to)
               /\ Parse(c) = IF f[c.to][c.from].or.at = c.to + 1 THEN f[c.to][c.from].or ELSE Error
  BY <1>1, ParseIs
<1>3. PartsFound(c, f, g[n])
  BY <1>2, SensesFound
<1>4. Found(c, f, c.to, c.from, c.to, m)
  <2>1. c.to + 1 - c.from <= c.to
    BY <1>1
  <2>. QED  BY <1>1, <1>3, <2>1 DEF PartsFound
<1>5. At(c, c.to + 1) = "end"
  BY <1>1 DEF At
<1>6. f[c.to][c.from].or = Parsed(m, c.to + 1)
  BY <1>4, <1>5 DEF Found
<1>. QED  BY <1>2, <1>6, ParsedFacts

\* A condition that means something is read, and what is read is what it means.
LEMMA ParserReadsMeaning ==
  ASSUME NEW c, IsCondition(c), c.from \in 1 .. c.to + 1, WellFormed(c)
  PROVE  /\ Parse(c).at # 0
         /\ \A held : Means(c, held) <=> held \in Parse(c).holds
<1>1. PICK g : SensesTo(c, g, Len(c.text)) /\ Senses(c) = g[Len(c.text)][<<c.from, c.to>>]
  BY SensesAre DEF IsCondition
<1>2. Len(c.text) \in 0 .. Len(c.text) /\ c.to \in Nat
  BY DEF IsCondition
<1>3. \A m \in Senses(c) : Parse(c) = Parsed(m, c.to + 1)
  BY <1>1, <1>2, ParserReadsSense
<1>4. PICK m \in Senses(c) : TRUE
  BY DEF WellFormed
<1>5. \A k \in Senses(c) : k = Parse(c).holds
  BY <1>3, ParsedFacts
<1>6. Parse(c).at # 0
  BY <1>2, <1>3, <1>4, ParsedFacts
<1>. QED  BY <1>4, <1>5, <1>6 DEF Means

(***************************************************************************)
(* The filters of an analytic.                                             *)
(***************************************************************************)
\* The tokens of a text.
LEMMA TextIs ==
  ASSUME NEW t, IsText(t)
  PROVE  Len(t) \in Nat /\ DOMAIN t = 1 .. Len(t) /\ \A i \in DOMAIN t : t[i] \in Range(t)
<1>1. t \in Seq(Range(t))
  BY DEF IsText
<1>2. Len(t) \in Nat /\ DOMAIN t = 1 .. Len(t)
  BY <1>1
<1>. QED  BY <1>2 DEF Range

\* Where a filter ends in its code.
LEMMA FilterEnds ==
  ASSUME NEW code, IsText(code), NEW f \in FilterAt(code)
  PROVE  f \in Nat /\ f >= 1 /\ f <= Len(code) /\ FilterEnd(code, f) \in Nat /\ FilterEnd(code, f) <= Len(code)
<1>. DEFINE later == {g \in FilterAt(code) : g > f}
<1>1. Len(code) \in Nat /\ FilterAt(code) \in SUBSET Nat /\ \A g \in FilterAt(code) : g \in 1 .. Len(code)
  BY TextIs DEF FilterAt
<1>2. CASE later = {}
  BY <1>1, <1>2 DEF FilterEnd
<1>3. CASE later # {}
  <2>1. First(later) \in later
    BY <1>1, <1>3, FirstIs
  <2>2. First(later) \in 1 .. Len(code) /\ First(later) > f
    BY <1>1, <2>1
  <2>3. FilterEnd(code, f) = First(later) - 1
    BY <1>3 DEF FilterEnd
  <2>. QED  BY <1>1, <2>2, <2>3
<1>. QED  BY <1>2, <1>3

\* The compiler takes all of a filter that is one condition, and nothing else.
LEMMA FilterIsWhole ==
  ASSUME NEW code, IsText(code), NEW f \in FilterAt(code),
         OneCondition(code, f + 1, FilterEnd(code, f))
  PROVE  ReadFilter(code, f) = Parse(Comparing(code, f + 2, FilterEnd(code, f) - 1))
<1>. DEFINE e == FilterEnd(code, f)
            opening == Opening(code, f)
            closed == Closing(code, f + 1)
<1>1. f \in Nat /\ f >= 1 /\ f <= Len(code) /\ e \in Nat /\ e <= Len(code) /\ Len(code) \in Nat
  BY FilterEnds, TextIs
<1>2. /\ f + 1 < e /\ code[f + 1] = "(" /\ code[e] = ")" /\ code[f] = "filter"
      /\ Depth(code, e + 1) = Depth(code, f + 1)
      /\ \A k \in f + 2 .. e : Depth(code, k) > Depth(code, f + 1)
  <2>1. (f + 1) + 1 = f + 2
    BY <1>1
  <2>2. \A k \in (f + 1) + 1 .. e : Depth(code, k) > Depth(code, f + 1)
    BY DEF OneCondition
  <2>. QED  BY <2>1, <2>2 DEF OneCondition, FilterAt
<1>. HIDE DEF e
<1>3. opening # {} /\ First(opening) = f + 1
  <2>1. opening \in SUBSET Nat /\ f + 1 \in opening
    BY <1>1, <1>2 DEF Opening
  <2>2. First(opening) \in opening /\ First(opening) <= f + 1
    BY <2>1, FirstIs
  <2>3. First(opening) \in f .. Len(code) /\ code[First(opening)] = "("
    BY <2>2 DEF Opening
  <2>4. First(opening) # f
    BY <1>2, <2>3
  <2>. QED  BY <1>1, <2>1, <2>2, <2>3, <2>4
<1>4. closed # {} /\ First(closed) = e
  <2>1. closed \in SUBSET Nat /\ e \in closed
    BY <1>1, <1>2 DEF Closing
  <2>2. First(closed) \in closed /\ First(closed) <= e
    BY <2>1, FirstIs
  <2>. DEFINE x == First(closed)
  <2>3. x \in f + 1 .. Len(code) /\ code[x] = ")" /\ Depth(code, x + 1) = Depth(code, f + 1)
    BY <2>2 DEF Closing
  <2>. HIDE DEF x
  <2>4. ~(x < e)
    <3>. SUFFICES ASSUME x < e
                  PROVE  FALSE
      OBVIOUS
    <3>1. x + 1 \in f + 2 .. e
      BY <1>1, <2>3
    <3>2. Depth(code, x + 1) > Depth(code, f + 1)
      BY <1>2, <3>1
    <3>3. Depth(code, f + 1) \in Int
      BY <1>1, DepthIsInt
    <3>. QED  BY <2>3, <3>2, <3>3
  <2>. QED  BY <1>1, <2>1, <2>2, <2>3, <2>4 DEF x
<1>5. (f + 1) + 1 = f + 2
  BY <1>1
<1>. QED  BY <1>3, <1>4, <1>5 DEF ReadFilter, e

\* The senses of a stretch do not depend on which condition it is a part of.
LEMMA SenseOfSame ==
  ASSUME NEW c, NEW d, c.text = d.text, c.names = d.names, c.sigma = d.sigma,
         NEW i, NEW j, NEW part
  PROVE  SenseOf(c, i, j, part) = SenseOf(d, i, j, part)
<1>. DEFINE t == c.text
            ors == Tops(t, i, j, "or")
            ands == Tops(t, i, j, "and")
            A(tops) == part[<<i, First(tops) - 1>>]
            B(tops) == part[<<First(tops) + 1, j>>]
<1>1. /\ \A name : Naming(c, name) = Naming(d, name)
      /\ \A quant, target : Counting(c, quant, target) = Counting(d, quant, target)
  BY DEF Naming, Counting
<1>2. CASE i > j
  BY <1>2 DEF SenseOf
<1>3. CASE ~(i > j) /\ ors # {}
  <2>1. SenseOf(c, i, j, part) = {a \union b : a \in A(ors), b \in B(ors)}
    BY <1>3 DEF SenseOf
  <2>2. SenseOf(d, i, j, part) = {a \union b : a \in A(ors), b \in B(ors)}
    BY <1>3 DEF SenseOf
  <2>. QED  BY <2>1, <2>2
<1>4. CASE ~(i > j) /\ ors = {} /\ ands # {}
  <2>1. SenseOf(c, i, j, part) = {a \intersect b : a \in A(ands), b \in B(ands)}
    BY <1>4 DEF SenseOf
  <2>2. SenseOf(d, i, j, part) = {a \intersect b : a \in A(ands), b \in B(ands)}
    BY <1>4 DEF SenseOf
  <2>. QED  BY <2>1, <2>2
<1>5. CASE ~(i > j) /\ ors = {} /\ ands = {} /\ t[i] = "not"
  <2>1. SenseOf(c, i, j, part) = {SUBSET c.names \ a : a \in part[<<i + 1, j>>]}
    BY <1>5 DEF SenseOf
  <2>2. SenseOf(d, i, j, part) = {SUBSET c.names \ a : a \in part[<<i + 1, j>>]}
    BY <1>5 DEF SenseOf
  <2>. QED  BY <2>1, <2>2
<1>6. CASE ~(i > j) /\ ors = {} /\ ands = {} /\ t[i] # "not"
  <2>1. CASE t[i] = "(" /\ t[j] = ")" /\ i + 1 < j
    BY <1>6, <2>1 DEF SenseOf
  <2>2. CASE ~(t[i] = "(" /\ t[j] = ")" /\ i + 1 < j) /\ i = j /\ t[i] \in c.names \ Words
    <3>1. SenseOf(c, i, j, part) = {Naming(c, t[i])}
      BY <1>6, <2>2 DEF SenseOf
    <3>2. SenseOf(d, i, j, part) = {Naming(d, t[i])}
      BY <1>6, <2>2 DEF SenseOf
    <3>. QED  BY <1>1, <3>1, <3>2
  <2>. DEFINE counts == /\ c.sigma /\ j = i + 2 /\ t[i] \in Quantifiers /\ t[i + 1] = "of"
                        /\ t[j] \in c.names \union DOMAIN Prefixed \union {"them"}
  <2>3. CASE /\ ~(t[i] = "(" /\ t[j] = ")" /\ i + 1 < j) /\ ~(i = j /\ t[i] \in c.names \ Words)
             /\ counts
    <3>1. SenseOf(c, i, j, part) = {Counting(c, t[i], t[j])}
      BY <1>6, <2>3 DEF SenseOf
    <3>2. SenseOf(d, i, j, part) = {Counting(d, t[i], t[j])}
      BY <1>6, <2>3 DEF SenseOf
    <3>. QED  BY <1>1, <3>1, <3>2
  <2>4. CASE /\ ~(t[i] = "(" /\ t[j] = ")" /\ i + 1 < j) /\ ~(i = j /\ t[i] \in c.names \ Words)
             /\ ~counts
    BY <1>6, <2>4 DEF SenseOf
  <2>. QED  BY <2>1, <2>2, <2>3, <2>4
<1>. QED  BY <1>2, <1>3, <1>4, <1>5, <1>6

\* ... and its sense is what stands between its parentheses.
LEMMA FilterMeans ==
  ASSUME NEW code, IsText(code), NEW f \in FilterAt(code),
         OneCondition(code, f + 1, FilterEnd(code, f))
  PROVE  /\ ReadFilter(code, f).at # 0
         /\ \A held : Means(Comparing(code, f + 1, FilterEnd(code, f)), held)
                      <=> held \in ReadFilter(code, f).holds
<1>. DEFINE e == FilterEnd(code, f)
            c == Comparing(code, f + 1, e)
            d == Comparing(code, f + 2, e - 1)
            L == Len(code)
<1>1. f \in Nat /\ f >= 1 /\ f <= L /\ e \in Nat /\ e <= L /\ L \in Nat
  BY FilterEnds, TextIs
<1>2. /\ f + 1 < e /\ code[f + 1] = "(" /\ code[e] = ")"
      /\ \A k \in (f + 1) + 1 .. e : Depth(code, k) > Depth(code, f + 1)
      /\ Senses(c) # {}
  BY DEF OneCondition, WellFormed
<1>3. ReadFilter(code, f) = Parse(d)
  BY FilterIsWhole
<1>. HIDE DEF e
<1>4. /\ c.text = code /\ c.from = f + 1 /\ c.to = e /\ c.names = DOMAIN Comparisons /\ c.sigma = FALSE
      /\ d.text = code /\ d.from = f + 2 /\ d.to = e - 1 /\ d.names = DOMAIN Comparisons /\ d.sigma = FALSE
  BY DEF Comparing
<1>. HIDE DEF c, d
<1>5. PICK g : SensesTo(c, g, L) /\ Senses(c) = g[L][<<f + 1, e>>]
  BY <1>1, <1>4, SensesAre
<1>6. SensesTo(d, g, L)
  <2>0. c.text = d.text /\ c.names = d.names /\ c.sigma = d.sigma
    BY <1>4
  <2>1. \A i, j, part : SenseOf(c, i, j, part) = SenseOf(d, i, j, part)
    BY <2>0, SenseOfSame
  <2>2. \A n : [s \in (1 .. L + 1) \X (0 .. L) |-> SenseOf(c, s[1], s[2], g[n - 1])]
               = [s \in (1 .. L + 1) \X (0 .. L) |-> SenseOf(d, s[1], s[2], g[n - 1])]
    BY <2>1
  <2>3. g = [n \in 0 .. L |-> IF n = 0 THEN [s \in (1 .. L + 1) \X (0 .. L) |-> {}]
                              ELSE [s \in (1 .. L + 1) \X (0 .. L) |-> SenseOf(c, s[1], s[2], g[n - 1])]]
    BY <1>4, <1>5 DEF SensesTo
  <2>4. g = [n \in 0 .. L |-> IF n = 0 THEN [s \in (1 .. L + 1) \X (0 .. L) |-> {}]
                              ELSE [s \in (1 .. L + 1) \X (0 .. L) |-> SenseOf(d, s[1], s[2], g[n - 1])]]
    BY <2>2, <2>3
  <2>. QED  BY <1>4, <2>4 DEF SensesTo
<1>7. \A w \in {"or", "and"} : Tops(code, f + 1, e, w) = {}
  <2>. SUFFICES ASSUME NEW w \in {"or", "and"}, NEW k \in Tops(code, f + 1, e, w)
                PROVE  FALSE
    OBVIOUS
  <2>1. k \in f + 1 .. e /\ code[k] = w /\ Depth(code, k) = Depth(code, f + 1)
    BY DEF Tops
  <2>2. k # f + 1
    BY <1>2, <2>1
  <2>3. k \in (f + 1) + 1 .. e
    BY <1>1, <2>1, <2>2
  <2>4. Depth(code, f + 1) > Depth(code, f + 1)
    BY <1>2, <2>1, <2>3
  <2>5. Depth(code, f + 1) \in Int
    BY <1>1, DepthIsInt
  <2>. QED  BY <2>4, <2>5
<1>8. L - 1 \in 0 .. L /\ L # 0 /\ L \in 0 .. L
  BY <1>1
<1>9. g[L][<<f + 1, e>>] = SenseOf(c, f + 1, e, g[L - 1])
  <2>. HIDE DEF L
  <2>1. SensesTo(c, g, L) /\ L \in Nat /\ L \in 0 .. L /\ L # 0
    BY <1>1, <1>5, <1>8
  <2>2. f + 1 \in 1 .. Len(c.text) + 1 /\ e \in 0 .. Len(c.text)
    BY <1>1, <1>4 DEF L
  <2>. QED  BY <2>1, <2>2, SensesStep
<1>10. SenseOf(c, f + 1, e, g[L - 1]) = g[L - 1][<<f + 2, e - 1>>]
  <2>1. Tops(code, f + 1, e, "or") = {} /\ Tops(code, f + 1, e, "and") = {}
    BY <1>7
  <2>2. ~(f + 1 > e) /\ (f + 1) + 1 = f + 2 /\ f + 1 # e /\ c.sigma = FALSE
    BY <1>1, <1>2, <1>4
  <2>3. CASE f + 2 < e
    BY <1>2, <1>4, <2>1, <2>2, <2>3 DEF SenseOf
  <2>4. CASE ~(f + 2 < e)
    <3>1. SenseOf(c, f + 1, e, g[L - 1]) = {}
      BY <1>2, <1>4, <2>1, <2>2, <2>4 DEF SenseOf
    <3>. QED  BY <1>2, <1>5, <1>9, <3>1
  <2>. QED  BY <2>3, <2>4
<1>11. \A m \in Senses(c) : Parse(d) = Parsed(m, e)
  <2>. SUFFICES ASSUME NEW m \in Senses(c)
                PROVE  Parse(d) = Parsed(m, e)
    OBVIOUS
  <2>1. m \in g[L - 1][<<d.from, d.to>>]
    BY <1>4, <1>5, <1>9, <1>10
  <2>2. IsCondition(d) /\ d.from \in 1 .. d.to + 1 /\ d.to + 1 = e
    BY <1>1, <1>2, <1>4 DEF IsCondition, Comparing
  <2>3. SensesTo(d, g, Len(d.text)) /\ L - 1 \in 0 .. Len(d.text)
    BY <1>4, <1>6, <1>8
  <2>4. Parse(d) = Parsed(m, d.to + 1)
    BY <2>1, <2>2, <2>3, ParserReadsSense
  <2>. QED  BY <2>2, <2>4
<1>12. PICK m \in Senses(c) : TRUE
  BY <1>2
<1>13. \A k \in Senses(c) : k = Parse(d).holds /\ Parse(d).at = e
  BY <1>11, ParsedFacts
<1>14. Parse(d).at # 0
  BY <1>1, <1>2, <1>12, <1>13
<1>15. \A held : Means(c, held) <=> held \in Parse(d).holds
  BY <1>12, <1>13 DEF Means
<1>. QED  BY <1>3, <1>14, <1>15 DEF c, e

(***************************************************************************)
(* The pass over the corpus, and the pass over the analytics.              *)
(***************************************************************************)
\* What flags a row, and with which clause.
IsHit(i, k, row) ==
  LET an == Compiled(corpus[i])
  IN /\ k \in DOMAIN an.clauses /\ row \in evidence
     /\ Shown(an, row) /\ TrueOf(an.doc, row) \in an.clauses[k]

FlagIInv ==
  /\ corpus \in Corpora
  /\ turn \in 1 .. 2 * Len(corpus) + 1
  /\ analytics = [i \in 1 .. (IF turn <= Len(corpus) THEN turn - 1 ELSE Len(corpus)) |->
                    Compiled(corpus[i])]
  /\ \A i, k, row : <<i, k, row>> \in flagged <=>
                      i \in 1 .. turn - 1 - Len(corpus) /\ IsHit(i, k, row)

\* The corpus is one of the corpora.
LEMMA CorpusIsText ==
  ASSUME corpus \in Corpora
  PROVE  /\ Len(corpus) \in Nat /\ DOMAIN corpus = 1 .. Len(corpus)
         /\ \A i \in DOMAIN corpus :
              IF corpus[i].kind = "sigma"
              THEN corpus[i].condition # NoCondition => IsText(corpus[i].condition)
              ELSE IsText(corpus[i].code)
<1>1. IsText(corpus) /\ \A doc \in Range(corpus) :
         IF doc.kind = "sigma" THEN doc.condition # NoCondition => IsText(doc.condition)
                               ELSE IsText(doc.code)
  BY CorporaAssumption
<1>. QED  BY <1>1, TextIs

\* Nothing is compiled or flagged yet.
LEMMA FlagIInvInit == DetectInit => FlagIInv
<1>. SUFFICES ASSUME DetectInit
              PROVE  FlagIInv
  OBVIOUS
<1>1. corpus \in Corpora /\ turn = 1 /\ analytics = <<>> /\ flagged = {} /\ Len(corpus) \in Nat
  BY CorpusIsText DEF DetectInit
<1>2. 1 .. (IF turn <= Len(corpus) THEN turn - 1 ELSE Len(corpus)) = {}
  BY <1>1
<1>3. 1 .. turn - 1 - Len(corpus) = {} /\ turn \in 1 .. 2 * Len(corpus) + 1
  BY <1>1
<1>. QED  BY <1>1, <1>2, <1>3 DEF FlagIInv

\* A document compiled, an analytic run: one more of each is accounted for.
LEMMA FlagIInvNext ==
  ASSUME FlagIInv, [DetectNext]_detectVars
  PROVE  FlagIInv'
<1>1. corpus \in Corpora /\ Len(corpus) \in Nat /\ turn \in Nat /\ turn >= 1
  BY CorpusIsText DEF FlagIInv
<1>2. CASE UNCHANGED detectVars
  BY <1>2 DEF detectVars, FlagIInv, IsHit, Shown, InScopeOf
<1>3. CASE Compile
  <2>1. /\ turn <= Len(corpus) /\ turn' = turn + 1 /\ corpus' = corpus /\ evidence' = evidence
        /\ flagged' = flagged /\ analytics' = Append(analytics, Compiled(corpus[turn]))
    BY <1>3 DEF Compile
  <2>2. analytics = [i \in 1 .. turn - 1 |-> Compiled(corpus[i])]
    BY <2>1 DEF FlagIInv
  <2>3. Append(analytics, Compiled(corpus[turn])) = [i \in 1 .. turn |-> Compiled(corpus[i])]
    <3>. DEFINE D == {Compiled(corpus[i]) : i \in 1 .. turn}
    <3>1. analytics \in Seq(D) /\ Len(analytics) = turn - 1 /\ Compiled(corpus[turn]) \in D
      BY <1>1, <2>2
    <3>. QED  BY <1>1, <2>2, <3>1
  <2>4. 1 .. (IF turn + 1 <= Len(corpus) THEN (turn + 1) - 1 ELSE Len(corpus)) = 1 .. turn
    BY <1>1, <2>1
  <2>5. 1 .. turn - 1 - Len(corpus) = {} /\ 1 .. (turn + 1) - 1 - Len(corpus) = {}
        /\ turn + 1 \in 1 .. 2 * Len(corpus) + 1
    BY <1>1, <2>1
  <2>6. flagged' = flagged /\ \A i, k, row : <<i, k, row>> \notin flagged
    BY <2>1, <2>5 DEF FlagIInv
  <2>. QED  BY <1>1, <2>1, <2>3, <2>4, <2>5, <2>6 DEF FlagIInv
<1>4. CASE Flag
  <2>. DEFINE n == turn - Len(corpus)
  <2>1. /\ turn > Len(corpus) /\ turn <= 2 * Len(corpus) /\ turn' = turn + 1
        /\ corpus' = corpus /\ evidence' = evidence /\ analytics' = analytics
        /\ flagged' = flagged \cup HitsOf(n, analytics[n])
    BY <1>4 DEF Flag
  <2>2. n \in 1 .. Len(corpus) /\ (turn + 1) - 1 - Len(corpus) = n /\ turn - 1 - Len(corpus) = n - 1
        /\ turn + 1 \in 1 .. 2 * Len(corpus) + 1
    BY <1>1, <2>1
  <2>3. analytics = [i \in 1 .. Len(corpus) |-> Compiled(corpus[i])]
    BY <1>1, <2>1 DEF FlagIInv
  <2>4. analytics[n] = Compiled(corpus[n])
    BY <2>2, <2>3
  <2>5. ASSUME NEW i, NEW k, NEW row
        PROVE  <<i, k, row>> \in HitsOf(n, analytics[n]) <=> i = n /\ IsHit(i, k, row)
    BY <2>4 DEF HitsOf, IsHit
  <2>6. ASSUME NEW i, NEW k, NEW row
        PROVE  <<i, k, row>> \in flagged <=> i \in 1 .. n - 1 /\ IsHit(i, k, row)
    BY <2>2 DEF FlagIInv
  <2>. HIDE DEF n
  <2>7. \A i : i \in 1 .. n <=> i \in 1 .. n - 1 \/ i = n
    BY <1>1, <2>2
  <2>8. ASSUME NEW i, NEW k, NEW row
        PROVE  <<i, k, row>> \in flagged' <=> i \in 1 .. n /\ IsHit(i, k, row)
    BY <2>1, <2>5, <2>6, <2>7
  <2>9. \A i, k, row : IsHit(i, k, row)' <=> IsHit(i, k, row)
    BY <2>1 DEF IsHit, Shown, InScopeOf
  <2>10. ~(turn + 1 <= Len(corpus))
    BY <1>1, <2>1
  <2>. QED  BY <1>1, <2>1, <2>2, <2>3, <2>8, <2>9, <2>10 DEF FlagIInv
<1>. QED  BY <1>2, <1>3, <1>4 DEF DetectNext

\* When all have run, the hits are all the rows there are to flag.
LEMMA AllRunHits ==
  ASSUME FlagIInv, AllRun, NEW i \in DOMAIN corpus
  PROVE  /\ analytics[i] = Compiled(corpus[i])
         /\ \A k : HitRows(i, k) = {row \in evidence : IsHit(i, k, row)}
<1>1. Len(corpus) \in Nat /\ DOMAIN corpus = 1 .. Len(corpus) /\ turn = 2 * Len(corpus) + 1
  BY CorpusIsText DEF FlagIInv, AllRun
<1>2. turn - 1 - Len(corpus) = Len(corpus) /\ ~(turn <= Len(corpus) /\ Len(corpus) # turn - 1)
  <2>. DEFINE n == Len(corpus)
  <2>1. n \in Nat /\ turn = 2 * n + 1
    BY <1>1
  <2>. HIDE DEF n
  <2>2. turn - 1 - n = n /\ ~(turn <= n /\ n # turn - 1)
    BY <2>1
  <2>. QED  BY <2>2 DEF n
<1>3. analytics = [n \in 1 .. Len(corpus) |-> Compiled(corpus[n])]
  BY <1>1, <1>2 DEF FlagIInv
<1>4. ASSUME NEW k, NEW row
      PROVE  <<i, k, row>> \in flagged <=> IsHit(i, k, row)
  BY <1>1, <1>2 DEF FlagIInv
<1>. QED  BY <1>1, <1>3, <1>4 DEF HitRows

\* For any corpus and store, any number of documents, any condition: a well-formed
\* Sigma rule whose quantifiers' targets are in lower case flags exactly the rows
\* its condition is true of (sigma.py:264-352).
THEOREM RulesSayWhatTheyMean == DetectSpec => []RulesMeanWhatTheySay
<1>1. FlagIInv => RulesMeanWhatTheySay
  <2>. SUFFICES ASSUME FlagIInv, AllRun, NEW i \in DOMAIN corpus,
                       corpus[i].kind = "sigma", Honoured(corpus[i]),
                       LowerTargets(ConditionOf(corpus[i]))
                PROVE  HitRows(i, 1) = {row \in evidence : RuleMeans(corpus[i], row)}
    BY DEF RulesMeanWhatTheySay
  <2>. DEFINE rule == corpus[i]
              c == ConditionOf(rule)
  <2>1. IsText(rule.condition)
    BY CorpusIsText DEF FlagIInv, Honoured
  <2>2. Parse(c).at # 0 /\ \A held : Means(c, held) <=> held \in Parse(c).holds
    <3>1. IsCondition(c) /\ c.from \in 1 .. c.to + 1
      BY <2>1, TextIs DEF ConditionOf, IsCondition
    <3>2. WellFormed(c)
      BY DEF Honoured
    <3>. QED  BY <3>1, <3>2, ParserReadsMeaning
  <2>3. Compiled(rule) = Runnable(rule, LogSource[rule.category][1], LogSource[rule.category][2],
                                  <<Parse(c).holds>>)
    BY <2>2 DEF Compiled, CompileRule, Honoured
  <2>4. \A row : IsHit(i, 1, row) <=> row \in evidence /\ RuleMeans(rule, row)
    <3>1. /\ Compiled(rule).doc = rule /\ Compiled(rule).obj = LogSource[rule.category][1]
          /\ Compiled(rule).clauses = <<Parse(c).holds>>
      BY <2>3 DEF Runnable
    <3>2. 1 \in DOMAIN <<Parse(c).holds>> /\ <<Parse(c).holds>>[1] = Parse(c).holds
      OBVIOUS
    <3>. QED  BY <2>2, <3>1, <3>2 DEF IsHit, RuleMeans, Shown, InScopeOf, TrueOf
  <2>. QED  BY <2>4, AllRunHits
<1>. QED  BY <1>1, FlagIInvInit, FlagIInvNext, PTL DEF DetectSpec

\* For any corpus and store: an analytic that runs was one search in the compiler's
\* scope, and each of its filters that is one condition flags exactly the rows of
\* its action that the filter is true of (analytics.py:395-435, 506-548).
THEOREM AnalyticsAreWhole == DetectSpec => []AnalyticsRunWhole
<1>1. FlagIInv => AnalyticsRunWhole
  <2>. SUFFICES ASSUME FlagIInv, AllRun, NEW i \in DOMAIN corpus,
                       corpus[i].kind = "car", analytics[i].runnable
                PROVE  LET an == corpus[i]
                       IN /\ Len(an.searches) = 1 /\ an.marks = {} /\ an.techniques # {}
                          /\ \A f \in FilterAt(an.code) :
                               OneCondition(an.code, f + 1, FilterEnd(an.code, f)) =>
                                 HitRows(i, f) =
                                   {row \in evidence :
                                      /\ row.obj = an.searches[1][1]
                                      /\ row.action = an.searches[1][2]
                                      /\ Means(Comparing(an.code, f + 1, FilterEnd(an.code, f)), Compared(row))}
    BY DEF AnalyticsRunWhole
  <2>. DEFINE an == corpus[i]
  <2>1. IsText(an.code)
    BY CorpusIsText DEF FlagIInv
  <2>2. analytics[i] = CompileAnalytic(an)
    BY AllRunHits DEF Compiled
  <2>3. /\ Len(an.searches) = 1 /\ an.marks = {} /\ an.techniques # {}
        /\ CompileAnalytic(an) = Runnable(an, an.searches[1][1], an.searches[1][2], Clauses(an.code))
    <3>1. Deferred(an).runnable = FALSE
      BY DEF Deferred
    <3>2. CompileAnalytic(an) # Deferred(an)
      BY <2>2, <3>1
    <3>. HIDE DEF an
    <3>. QED  BY <3>2 DEF CompileAnalytic
  <2>4. ASSUME NEW f \in FilterAt(an.code), OneCondition(an.code, f + 1, FilterEnd(an.code, f)), NEW row
        PROVE  IsHit(i, f, row) <=>
                 /\ row \in evidence /\ row.obj = an.searches[1][1] /\ row.action = an.searches[1][2]
                 /\ Means(Comparing(an.code, f + 1, FilterEnd(an.code, f)), Compared(row))
    <3>1. /\ ReadFilter(an.code, f).at # 0
          /\ Means(Comparing(an.code, f + 1, FilterEnd(an.code, f)), Compared(row))
             <=> Compared(row) \in ReadFilter(an.code, f).holds
      BY <2>1, <2>4, FilterMeans
    <3>2. f \in DOMAIN Clauses(an.code) /\ Clauses(an.code)[f] = ReadFilter(an.code, f).holds
      BY <3>1 DEF Clauses
    <3>3. /\ Compiled(an).doc = an /\ Compiled(an).obj = an.searches[1][1]
          /\ Compiled(an).action = an.searches[1][2] /\ Compiled(an).clauses = Clauses(an.code)
      BY <2>3 DEF Compiled, Runnable
    <3>. QED  BY <3>1, <3>2, <3>3 DEF IsHit, Shown, InScopeOf, TrueOf
  <2>5. ASSUME NEW f \in FilterAt(an.code), OneCondition(an.code, f + 1, FilterEnd(an.code, f))
        PROVE  HitRows(i, f) = {row \in evidence :
                                  /\ row.obj = an.searches[1][1] /\ row.action = an.searches[1][2]
                                  /\ Means(Comparing(an.code, f + 1, FilterEnd(an.code, f)), Compared(row))}
    <3>1. HitRows(i, f) = {row \in evidence : IsHit(i, f, row)}
      BY AllRunHits
    <3>. QED  BY <2>4, <2>5, <3>1
  <2>. QED  BY <2>3, <2>5
<1>. QED  BY <1>1, FlagIInvInit, FlagIInvNext, PTL DEF DetectSpec
=============================================================================
