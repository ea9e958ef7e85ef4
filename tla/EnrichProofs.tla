---------------------------- MODULE EnrichProofs ----------------------------
(***************************************************************************)
(* What the enrichment pass does for any rows, any inheritance rules and   *)
(* any table of accounts (enrich.enrich): it loses no evidence, it makes   *)
(* nothing up, the process a row is tied to is the right one, and what it  *)
(* says about sessions is consistent.                                      *)
(*                                                                         *)
(* Evidence.  Every step of the loop body takes a row to a row that keeps  *)
(* its evidence (Keeps): Fill writes blank columns only, the links are     *)
(* fields of their own, and Canonical may replace a user, but only a blank *)
(* one or an alias, and only on a row the pass has not left yet -- which   *)
(* is why the invariant (EInv) says that rows the pass has still to visit  *)
(* have the columns they came with, although a logout may have written to  *)
(* them.                                                                   *)
(*                                                                         *)
(* Ties.  The pass visits a row once; what the visit writes depends on the *)
(* rows as they were given (the indexes) and on rows visited before (their *)
(* sessions).  The invariant (TiesInv) therefore says that a row not yet   *)
(* visited is tied only as the fold left it (Waiting), and of the rows     *)
(* visited that a value they gained has a source (NothingMadeUp), that one *)
(* naming a process by guid got it (NamedWins), that one tied by pid got a *)
(* process that ran then (WindowHolds), that connections are tied to their *)
(* flows (ConnectionsTied) and sessions to their logins (SessionsAgree).   *)
(* Every action is a visit (VisitBy); the other rows keep their ties, but  *)
(* for the login that a logout closes.                                     *)
(***************************************************************************)
EXTENDS Enrich, WellFoundedInduction, TLAPS

\* r is what a step made of the row e without touching columns e had filled.
Keeps(r, e) ==
  /\ r \in Row /\ Evidence(r) = Evidence(e)
  /\ \A c \in Cols : e.col[c] # Blank => r.col[c] = e.col[c]

\* ... and when the user may have become the canonical one of e's own SID.
Kept(r, e) ==
  /\ r \in Row /\ Evidence(r) = Evidence(e)
  /\ \A c \in Cols : ColumnKept(r, e, c)

-----------------------------------------------------------------------------
(* The greatest and the least of a set of positions exist.                 *)

LEMMA LeastOf ==
  ASSUME NEW S, S \subseteq Nat, S # {}
  PROVE  \E x \in S : \A y \in S : x <= y
<1> DEFINE R == OpToRel(<, Nat)
<1>1. IsWellFoundedOn(R, Nat)
  BY NatLessThanWellFounded
<1>2. \A x, y \in Nat : y < x => << y, x >> \in R
  BY DEF OpToRel
<1>. HIDE DEF R
<1>3. PICK x \in S : \A y \in S : ~ (<< y, x >> \in R)
  BY <1>1, WFMin
<1>4. \A y \in S : ~ (y < x)
  BY <1>2, <1>3
<1>. QED  BY <1>4

LEMMA EarliestIn ==
  ASSUME NEW S, S \subseteq Nat, S # {}
  PROVE  Earliest(S) \in S
BY LeastOf DEF Earliest

LEMMA LatestIn ==
  ASSUME NEW N \in Nat, NEW S, S \subseteq 0 .. N, S # {}
  PROVE  Latest(S) \in S
<1> DEFINE T == { N - x : x \in S }
<1>1. T \subseteq Nat /\ T # {}
  <2>1. \A x \in S : N - x \in Nat
    OBVIOUS
  <2>. QED  BY <2>1
<1>2. PICK t \in T : \A u \in T : t <= u
  BY <1>1, LeastOf
<1>3. PICK x \in S : t = N - x
  BY <1>2
<1>4. \A y \in S : y <= x
  <2>. SUFFICES ASSUME NEW y \in S PROVE y <= x
    OBVIOUS
  <2>1. N - x <= N - y
    BY <1>2, <1>3
  <2>. QED  BY <2>1
<1>. QED  BY <1>4 DEF Latest

LEMMA InRows ==
  ASSUME NEW rows \in Seq(Row), NEW S, S \subseteq DOMAIN rows, S # {}
  PROVE  /\ Latest(S) \in DOMAIN rows /\ rows[Latest(S)] \in Row
         /\ Earliest(S) \in DOMAIN rows /\ rows[Earliest(S)] \in Row
<1>1. Len(rows) \in Nat /\ DOMAIN rows = 1 .. Len(rows)
  OBVIOUS
<1>2. Latest(S) \in S
  BY <1>1, LatestIn
<1>3. Earliest(S) \in S
  BY <1>1, EarliestIn
<1>. QED  BY <1>1, <1>2, <1>3

-----------------------------------------------------------------------------
(* The steps of the loop body.                                             *)

LEMMA FillKeeps ==
  ASSUME NEW r \in Row, NEW owner \in Row, NEW from,
         \A c \in DOMAIN from \cap Cols : from[c] \in Cols
  PROVE  Keeps(Fill(r, from, owner), r)
<1> DEFINE col == [ c \in Cols |->
                      IF c \in DOMAIN from \cap FieldsOf[r.obj] /\ r.col[c] = Blank
                      THEN owner.col[from[c]] ELSE r.col[c] ]
<1>1. col \in [Cols -> Link(Values)]
  BY DEF Row
<1>2. Fill(r, from, owner) = [ r EXCEPT !.col = col ]
  BY DEF Fill
<1>3. \A c \in Cols : r.col[c] # Blank => col[c] = r.col[c]
  OBVIOUS
<1>. HIDE DEF col
<1>4. /\ [ r EXCEPT !.col = col ] \in Row /\ [ r EXCEPT !.col = col ].col = col
      /\ Evidence([ r EXCEPT !.col = col ]) = Evidence(r)
  BY <1>1 DEF Row, Evidence
<1>. QED  BY <1>2, <1>3, <1>4 DEF Keeps

LEMMA LinkKeeps ==
  ASSUME NEW r \in Row, NEW g \in Link(Guids), NEW t \in Tier
  PROVE  Keeps([ r EXCEPT !.link = g, !.conf = t ], r)
<1> DEFINE s == [ r EXCEPT !.link = g, !.conf = t ]
<1>1. t \in Link(Tier)
  BY DEF Link
<1>2. s \in Row /\ s.col = r.col
  <2> DEFINE b == [ r EXCEPT !.link = g ]
  <2>1. b \in Row /\ b.col = r.col
    BY DEF Row
  <2>2. s = [ b EXCEPT !.conf = t ]
    OBVIOUS
  <2>. HIDE DEF b
  <2>3. [ b EXCEPT !.conf = t ] \in Row /\ [ b EXCEPT !.conf = t ].col = b.col
    BY <1>1, <2>1 DEF Row
  <2>. QED  BY <2>1, <2>2, <2>3
<1>3. Evidence(s) = Evidence(r)
  BY DEF Row, Evidence
<1>. QED  BY <1>2, <1>3 DEF Keeps

LEMMA KeepsTrans ==
  ASSUME NEW a \in Row, NEW b \in Row, NEW c \in Row, Keeps(b, a), Keeps(c, b)
  PROVE  Keeps(c, a)
BY DEF Keeps

LEMMA CanonicalKept ==
  ASSUME NEW r \in Row
  PROVE  Kept(Canonical(r), r)
<1>1. CASE ~(/\ SidOf(r) \in DOMAIN Account /\ "user" \in FieldsOf[r.obj]
             /\ r.col["user"] \in Aliases \cup {Blank})
  BY <1>1 DEF Canonical, Kept, ColumnKept
<1>2. CASE /\ SidOf(r) \in DOMAIN Account /\ "user" \in FieldsOf[r.obj]
           /\ r.col["user"] \in Aliases \cup {Blank}
  <2> DEFINE col == [ r.col EXCEPT !["user"] = Account[SidOf(r)] ]
  <2>1. Account[SidOf(r)] \in Values /\ "user" \in Cols
    BY <1>2, EnrichAssumption
  <2>2. col \in [Cols -> Link(Values)]
    BY <2>1 DEF Row, Link
  <2>3. \A c \in Cols : col[c] = IF c = "user" THEN Account[SidOf(r)] ELSE r.col[c]
    BY <2>1 DEF Row
  <2>4. Canonical(r) = [ r EXCEPT !.col = col ]
    BY <1>2 DEF Canonical, Row
  <2>. HIDE DEF col
  <2>5. /\ [ r EXCEPT !.col = col ] \in Row /\ [ r EXCEPT !.col = col ].col = col
        /\ Evidence([ r EXCEPT !.col = col ]) = Evidence(r)
    BY <2>2 DEF Row, Evidence
  <2>. QED  BY <1>2, <2>3, <2>4, <2>5 DEF Kept, ColumnKept
<1>. QED  BY <1>1, <1>2

\* A step that keeps what it finds, after one that was already kept.
LEMMA KeptThenKeeps ==
  ASSUME NEW e \in Row, NEW b \in Row, NEW c \in Row, Kept(b, e), Keeps(c, b)
  PROVE  Kept(c, e)
<1>. SUFFICES ASSUME NEW k \in Cols PROVE ColumnKept(c, e, k)
  BY DEF Kept, Keeps
<1>1. ColumnKept(b, e, k)
  BY DEF Kept
<1>2. b.col[k] # Blank => c.col[k] = b.col[k]
  BY DEF Keeps
<1>3. \A x \in DOMAIN Account : Account[x] # Blank
  BY EnrichAssumption
<1>. QED  BY <1>1, <1>2, <1>3 DEF ColumnKept

\* The steps before Canonical: they write native keys and blank columns, but
\* never those Canonical looks at.
AccountCols == {"user", "sid", "uid"}
Before(r, e) == Keeps(r, e) /\ \A c \in AccountCols : r.col[c] = e.col[c]

\* Such a step before one that is kept.
LEMMA BeforeKept ==
  ASSUME NEW e \in Row, NEW b \in Row, NEW c \in Row, Before(b, e), Kept(c, b)
  PROVE  Kept(c, e)
<1>. SUFFICES ASSUME NEW k \in Cols PROVE ColumnKept(c, e, k)
  BY DEF Kept, Before, Keeps
<1>1. ColumnKept(c, b, k)
  BY DEF Kept
<1>2. e.col[k] # Blank => b.col[k] = e.col[k]
  BY DEF Before, Keeps
<1>3. SidOf(b) = SidOf(e) /\ b.col["user"] = e.col["user"]
  BY DEF Before, AccountCols, SidOf
<1>. QED  BY <1>1, <1>2, <1>3 DEF ColumnKept

LEMMA BeforeTrans ==
  ASSUME NEW a \in Row, NEW b \in Row, NEW c \in Row, Before(b, a), Before(c, b)
  PROVE  Before(c, a)
BY KeepsTrans DEF Before

\* The two tiers find a process among the rows, or none.
LEMMA ReferredRow ==
  ASSUME NEW rows \in Seq(Row), NEW r \in Row
  PROVE  /\ TierOf(rows, r) \in Tier
         /\ Referred(rows, r) # {} => rows[Latest(Referred(rows, r))] \in Row
<1>1. TierOf(rows, r) \in Tier
  BY DEF TierOf, Tier
<1>2. Named(rows, r) \subseteq DOMAIN rows
  BY DEF Named, ByGuid
<1>3. InWindow(rows, r) \subseteq DOMAIN rows
  BY DEF InWindow, Match, ByPid
<1>4. Referred(rows, r) \subseteq DOMAIN rows
  BY <1>2, <1>3 DEF Referred
<1>. QED  BY <1>1, <1>4, InRows

LEMMA InheritKeeps ==
  ASSUME NEW r \in Row, NEW owner \in Row, NEW t \in Tier, NEW from,
         \A c \in DOMAIN from \cap Cols : from[c] \in Cols
  PROVE  Keeps(Fill([ r EXCEPT !.link = owner.guid, !.conf = t ], from, owner), r)
<1> DEFINE linked == [ r EXCEPT !.link = owner.guid, !.conf = t ]
<1>1. owner.guid \in Link(Guids)
  BY DEF Row
<1>2. Keeps(linked, r)
  BY <1>1, LinkKeeps
<1>3. linked \in Row
  BY <1>2 DEF Keeps
<1>. HIDE DEF linked
<1>4. Keeps(Fill(linked, from, owner), linked)
  BY <1>3, FillKeeps
<1>5. Fill(linked, from, owner) \in Row
  BY <1>4 DEF Keeps
<1>6. Keeps(Fill(linked, from, owner), r)
  BY <1>2, <1>3, <1>4, <1>5, KeepsTrans
<1>. QED  BY <1>6 DEF linked

LEMMA OwnedKeeps ==
  ASSUME NEW rows \in Seq(Row), NEW r \in Row
  PROVE  Keeps(Owned(rows, r), r)
<1>1. CASE Referred(rows, r) = {}
  BY <1>1 DEF Owned, Keeps
<1>2. CASE Referred(rows, r) # {}
  <2> DEFINE owner == rows[Latest(Referred(rows, r))]
             t == TierOf(rows, r)
  <2>1. owner \in Row /\ t \in Tier
    BY <1>2, ReferredRow
  <2>2. Owned(rows, r) = Fill([ r EXCEPT !.link = owner.guid, !.conf = t ], FromOwner, owner)
    BY <1>2 DEF Owned
  <2>. HIDE DEF owner, t
  <2>3. \A c \in DOMAIN FromOwner \cap Cols : FromOwner[c] \in Cols
    BY EnrichAssumption DEF FromOwner
  <2>. QED  BY <2>1, <2>2, <2>3, InheritKeeps
<1>. QED  BY <1>1, <1>2

LEMMA ParentedKeeps ==
  ASSUME NEW rows \in Seq(Row), NEW r \in Row
  PROVE  Keeps(Parented(rows, r), r)
<1>1. CASE Referred(rows, r) = {} \/ Latest(Referred(rows, r)) = n
  BY <1>1 DEF Parented, Keeps
<1>2. CASE ~(Referred(rows, r) = {} \/ Latest(Referred(rows, r)) = n)
  <2> DEFINE parent == rows[Latest(Referred(rows, r))]
             t == TierOf(rows, r)
  <2>1. parent \in Row /\ t \in Tier
    BY <1>2, ReferredRow
  <2>2. Parented(rows, r) =
          Fill([ r EXCEPT !.link = parent.guid, !.conf = t ], ParentInherits, parent)
    BY <1>2 DEF Parented
  <2>. HIDE DEF parent, t
  <2>3. \A c \in DOMAIN ParentInherits \cap Cols : ParentInherits[c] \in Cols
    BY EnrichAssumption
  <2>. QED  BY <2>1, <2>2, <2>3, InheritKeeps
<1>. QED  BY <1>1, <1>2

LEMMA InjectedKeeps ==
  ASSUME NEW rows \in Seq(Row), NEW r \in Row
  PROVE  Keeps(Injected(rows, r), r)
<1> DEFINE tgt == ByGuid(rows, r.host, r.target)
           g == rows[Latest(tgt)].guid
           s == [ r EXCEPT !.injected = g ]
<1>1. CASE Injected(rows, r) = r
  BY <1>1 DEF Keeps
<1>2. CASE tgt # {} /\ Injected(rows, r) = s
  <2>1. tgt \subseteq DOMAIN rows
    BY DEF ByGuid
  <2>2. g \in Link(Guids)
    <3>1. rows[Latest(tgt)] \in Row
      BY <1>2, <2>1, InRows
    <3>. QED  BY <3>1 DEF Row
  <2>. HIDE DEF g, tgt
  <2>3. s \in Row /\ s.col = r.col
    BY <2>2 DEF Row
  <2>4. Evidence(s) = Evidence(r)
    BY DEF Row, Evidence
  <2>. QED  BY <1>2, <2>3, <2>4 DEF Keeps
<1>. QED  BY <1>1, <1>2 DEF Injected

\* Most of them write native keys only.
SameBut(r, e) == r \in Row /\ r.col = e.col /\ Evidence(r) = Evidence(e)

LEMMA SameIsBefore ==
  ASSUME NEW r, NEW e, SameBut(r, e)
  PROVE  Before(r, e)
BY DEF SameBut, Before, Keeps

LEMMA FlowSame ==
  ASSUME NEW r \in Row, NEW g \in Link(Guids)
  PROVE  SameBut([ r EXCEPT !.flow = g ], r)
<1> DEFINE s == [ r EXCEPT !.flow = g ]
<1>1. s \in Row /\ s.col = r.col
  BY DEF Row
<1>2. Evidence(s) = Evidence(r)
  BY DEF Row, Evidence
<1>. QED  BY <1>1, <1>2 DEF SameBut

LEMMA SpokenBefore ==
  ASSUME NEW rows \in Seq(Row), NEW r \in Row, given \in Seq(Row), DOMAIN rows = DOMAIN given
  PROVE  Before(Spoken(rows, r), r)
<1> DEFINE by == FlowsOf(r.host, r.uid)
           flow == rows[Earliest(by)]
           s == [ r EXCEPT !.flow = flow.guid ]
<1>1. CASE by = {}
  BY <1>1 DEF Spoken, Before, Keeps
<1>2. CASE by # {}
  <2>1. by \subseteq DOMAIN rows
    BY DEF FlowsOf
  <2>2. flow \in Row
    BY <1>2, <2>1, InRows
  <2>3. flow.guid \in Link(Guids)
    BY <2>2 DEF Row
  <2>4. Spoken(rows, r) = Fill(s, FlowInherits, flow)
    BY <1>2 DEF Spoken
  <2>7. SameBut(s, r)
    BY <2>3, FlowSame
  <2>. HIDE DEF flow, by, s
  <2>5. s \in Row
    BY <2>7 DEF SameBut
  <2>8. Keeps(Fill(s, FlowInherits, flow), s)
    <3>1. \A c \in DOMAIN FlowInherits \cap Cols : FlowInherits[c] \in Cols
      BY EnrichAssumption
    <3>. QED  BY <2>2, <2>5, <3>1, FillKeeps
  <2>9. \A c \in AccountCols : Fill(s, FlowInherits, flow).col[c] = s.col[c]
    <3>1. \A c \in AccountCols : c \in Cols /\ c \notin DOMAIN FlowInherits
      BY EnrichAssumption DEF AccountCols
    <3>2. Fill(s, FlowInherits, flow).col =
            [ c \in Cols |-> IF c \in DOMAIN FlowInherits \cap FieldsOf[s.obj] /\ s.col[c] = Blank
                             THEN flow.col[FlowInherits[c]] ELSE s.col[c] ]
      BY <2>5 DEF Fill, Row
    <3>. QED  BY <3>1, <3>2
  <2>10. Before(Fill(s, FlowInherits, flow), s)
    BY <2>8, <2>9 DEF Before
  <2>11. Fill(s, FlowInherits, flow) \in Row
    BY <2>8 DEF Keeps
  <2>. QED  BY <2>4, <2>5, <2>7, <2>10, <2>11, SameIsBefore, BeforeTrans
<1>. QED  BY <1>1, <1>2

LEMMA IfBlankBefore ==
  ASSUME NEW r \in Row, NEW c \in {"dest_fqdn", "src_fqdn"}, NEW v \in Link(Values)
  PROVE  Before(IfBlank(r, c, v), r)
<1>1. CASE r.col[c] # Blank
  BY <1>1 DEF IfBlank, Before, Keeps
<1>2. CASE r.col[c] = Blank
  <2> DEFINE col == [ r.col EXCEPT ![c] = v ]
             s == [ r EXCEPT !.col = col ]
  <2>1. c \in Cols /\ c \notin AccountCols
    BY EnrichAssumption DEF AccountCols
  <2>2. col \in [Cols -> Link(Values)]
    BY <2>1 DEF Row
  <2>3. IfBlank(r, c, v) = s
    BY <1>2 DEF IfBlank, Row
  <2>4. \A k \in Cols : k # c => col[k] = r.col[k]
    BY DEF Row
  <2>. HIDE DEF col
  <2>5. s \in Row /\ s.col = col
    BY <2>2 DEF Row
  <2>6. Evidence(s) = Evidence(r)
    BY DEF Row, Evidence
  <2>7. AccountCols \subseteq Cols
    BY EnrichAssumption DEF AccountCols
  <2>. QED  BY <1>2, <2>1, <2>3, <2>4, <2>5, <2>6, <2>7 DEF Before, Keeps
<1>. QED  BY <1>1, <1>2

LEMMA FirstSaidType ==
  ASSUME given \in Seq(Row), NEW by, by \subseteq DOMAIN given, NEW c \in Cols
  PROVE  FirstSaid(by, c) \in Link(Values)
<1>1. by # {} => given[Earliest(by)] \in Row
  BY InRows
<1>. QED  BY <1>1 DEF FirstSaid, Link, Row

LEMMA LabelledBefore ==
  ASSUME NEW r \in Row, given \in Seq(Row)
  PROVE  Before(Labelled(r), r)
<1> DEFINE d == FirstSaid(Resolving(r.host, r.col["dest_ip"]), "fqdn")
           byDest == IfBlank(r, "dest_fqdn", d)
           s == FirstSaid(Resolving(r.host, r.col["src_ip"]), "fqdn")
           bySrc == IfBlank(byDest, "src_fqdn", s)
           i == FirstSaid(Naming(r.host, Own(r, r.uid)), "dest_fqdn")
<1>1. "fqdn" \in Cols /\ "dest_fqdn" \in Cols
  BY EnrichAssumption
<1>2. d \in Link(Values) /\ s \in Link(Values)
  <2>1. \A ip : Resolving(r.host, ip) \subseteq DOMAIN given
    BY DEF Resolving
  <2>. QED  BY <1>1, <2>1, FirstSaidType
<1>3. i \in Link(Values)
  <2>1. Naming(r.host, Own(r, r.uid)) \subseteq DOMAIN given
    BY DEF Naming
  <2>. QED  BY <1>1, <2>1, FirstSaidType
<1>4. Labelled(r) = IfBlank(bySrc, "dest_fqdn", i)
  BY DEF Labelled
<1>. HIDE DEF d, s, i
<1>5. Before(byDest, r) /\ byDest \in Row
  BY <1>2, IfBlankBefore DEF Before, Keeps
<1>. HIDE DEF byDest
<1>6. Before(bySrc, byDest) /\ bySrc \in Row
  BY <1>2, <1>5, IfBlankBefore DEF Before, Keeps
<1>. HIDE DEF bySrc
<1>7. Before(Labelled(r), bySrc) /\ Labelled(r) \in Row
  BY <1>3, <1>4, <1>6, IfBlankBefore DEF Before, Keeps
<1>. QED  BY <1>5, <1>6, <1>7, BeforeTrans

LEMMA CertifiedSame ==
  ASSUME NEW r \in Row, given \in Seq(Row)
  PROVE  SameBut(Certified(r), r)
<1> DEFINE known == { k \in DOMAIN r.chain : Certifying(r.chain[k]) # {} }
           by == Certifying(r.chain[Earliest(known)])
           v == given[Earliest(by)].certSubject
           s == [ r EXCEPT !.certified = v ]
<1>1. CASE Certified(r) = r
  BY <1>1 DEF SameBut
<1>2. CASE known # {} /\ Certified(r) = s
  <2>1. r.chain \in Seq(Guids)
    BY DEF Row, Chains
  <2>2. known \subseteq Nat
    BY <2>1
  <2>3. Earliest(known) \in known
    BY <1>2, <2>2, EarliestIn
  <2>4. by # {}
    BY <2>3
  <2>5. by \subseteq DOMAIN given
    BY DEF Certifying
  <2>6. given[Earliest(by)] \in Row
    BY <2>4, <2>5, InRows
  <2>7. v \in Link(Values)
    BY <2>6 DEF Row
  <2>. HIDE DEF v, by, known
  <2>8. s \in Row /\ s.col = r.col
    BY <2>7 DEF Row
  <2>9. Evidence(s) = Evidence(r)
    BY DEF Row, Evidence
  <2>. QED  BY <1>2, <2>8, <2>9 DEF SameBut
<1>. QED  BY <1>1, <1>2 DEF Certified

LEMMA ExecutedSame ==
  ASSUME NEW rows, given \in Seq(Row), NEW r \in Row
  PROVE  SameBut(Executed(rows, r), r)
<1> DEFINE path == r.col["file_path"]
           by == { q \in DOMAIN given : IsCreate(given[q]) /\ given[q].host = r.host
                                   /\ path # Blank /\ given[q].col["image_path"] = path }
           g == given[Earliest(by)].guid
           s == [ r EXCEPT !.executedAs = g ]
<1>1. Executed(rows, r) = IF by = {} THEN r ELSE s
  BY DEF Executed
<1>2. CASE by = {}
  BY <1>1, <1>2 DEF SameBut
<1>3. CASE by # {}
  <2>1. g \in Link(Guids)
    <3>1. by \subseteq DOMAIN given
      OBVIOUS
    <3>2. given[Earliest(by)] \in Row
      BY <1>3, <3>1, InRows
    <3>. QED  BY <3>2 DEF Row
  <2>. HIDE DEF g, by
  <2>2. s \in Row /\ s.col = r.col
    BY <2>1 DEF Row
  <2>3. Evidence(s) = Evidence(r)
    BY DEF Row, Evidence
  <2>. QED  BY <1>1, <1>3, <2>2, <2>3 DEF SameBut
<1>. QED  BY <1>2, <1>3

LEMMA SessionOfType ==
  ASSUME NEW rows \in Seq(Row), NEW host, NEW luid
  PROVE  SessionOf(rows, host, luid) \in Link(Link(Guids) \X Tier)
<1> DEFINE ours == { q \in DOMAIN rows : rows[q].obj = "user_session"
                  /\ rows[q].host = host /\ rows[q].luid = luid }
<1>1. ours # {} => rows[Latest(ours)].guid \in Link(Guids)
  <2>1. ours # {} => rows[Latest(ours)] \in Row
    BY InRows
  <2>. QED  BY <2>1 DEF Row
<1>2. (IF luid \in WellKnownLuids THEN "heuristic" ELSE "definitive") \in Tier
  BY DEF Tier
<1>3. SessionOf(rows, host, luid) =
        IF luid \in NullLuids \cup {Blank} \/ ours = {} THEN Blank
        ELSE << rows[Latest(ours)].guid,
              IF luid \in WellKnownLuids THEN "heuristic" ELSE "definitive" >>
  BY DEF SessionOf
<1>. HIDE DEF ours
<1>. QED  BY <1>1, <1>2, <1>3 DEF Link

LEMMA AuthLinkedSame ==
  ASSUME NEW rows \in Seq(Row), NEW r \in Row
  PROVE  SameBut(AuthLinked(rows, r), r)
<1> DEFINE opened == SessionOf(rows, r.host, r.opened)
           asked == SessionOf(rows, r.host, r.subject)
           o == IF r.act = "success" /\ opened # Blank THEN opened ELSE r.openedIn
           a == IF asked # Blank THEN asked ELSE r.askedFrom
           s == [ r EXCEPT !.openedIn = o, !.askedFrom = a ]
<1>1. o \in Link(Link(Guids) \X Tier)
  BY SessionOfType DEF Row
<1>2. a \in Link(Link(Guids) \X Tier)
  BY SessionOfType DEF Row
<1>3. AuthLinked(rows, r) = s
  BY DEF AuthLinked, Row
<1>. HIDE DEF o, a
<1>4. s \in Row /\ s.col = r.col
  <2> DEFINE b == [ r EXCEPT !.openedIn = o ]
  <2>1. b \in Row /\ b.col = r.col
    BY <1>1 DEF Row
  <2>2. s = [ b EXCEPT !.askedFrom = a ]
    OBVIOUS
  <2>. HIDE DEF b
  <2>3. [ b EXCEPT !.askedFrom = a ] \in Row /\ [ b EXCEPT !.askedFrom = a ].col = b.col
    BY <1>2, <2>1 DEF Row
  <2>. QED  BY <2>1, <2>2, <2>3
<1>5. Evidence(s) = Evidence(r)
  BY DEF Row, Evidence
<1>. QED  BY <1>3, <1>4, <1>5 DEF SameBut

\* _pair_session_lifecycle, at the login and at the logout.
LEMMA ClosedSame ==
  ASSUME NEW r \in Row, NEW g \in Link(Guids), NEW t \in Times
  PROVE  SameBut([ r EXCEPT !.logout = g, !.ended = t ], r)
<1> DEFINE s == [ r EXCEPT !.logout = g, !.ended = t ]
<1>1. s \in Row /\ s.col = r.col
  <2> DEFINE b == [ r EXCEPT !.logout = g ]
  <2>1. b \in Row /\ b.col = r.col
    BY DEF Row
  <2>2. s = [ b EXCEPT !.ended = t ]
    OBVIOUS
  <2>. HIDE DEF b
  <2>3. [ b EXCEPT !.ended = t ] \in Row /\ [ b EXCEPT !.ended = t ].col = b.col
    BY <2>1 DEF Row
  <2>. QED  BY <2>1, <2>2, <2>3
<1>2. Evidence(s) = Evidence(r)
  BY DEF Row, Evidence
<1>. QED  BY <1>1, <1>2 DEF SameBut

LEMMA PairedSame ==
  ASSUME NEW r \in Row, NEW g \in Link(Guids)
  PROVE  SameBut([ r EXCEPT !.login = g ], r)
<1> DEFINE s == [ r EXCEPT !.login = g ]
<1>1. s \in Row /\ s.col = r.col
  BY DEF Row
<1>2. Evidence(s) = Evidence(r)
  BY DEF Row, Evidence
<1>. QED  BY <1>1, <1>2 DEF SameBut

\* What a whole visit leaves: keyed steps, Canonical, then the owner.
LEMMA VisitKept ==
  ASSUME NEW rows \in Seq(Row), NEW e \in Row, NEW b \in Row, Before(b, e)
  PROVE  /\ Kept(Owned(rows, Canonical(b)), e)
         /\ Kept(Parented(rows, Canonical(b)), e)
         /\ Kept(Injected(rows, Owned(rows, Canonical(b))), e)
<1>1. Kept(Canonical(b), b)
  BY CanonicalKept
<1>2. Canonical(b) \in Row
  BY <1>1 DEF Kept
<1>3. Kept(Canonical(b), e)
  BY <1>1, <1>2, BeforeKept
<1>4. Keeps(Owned(rows, Canonical(b)), Canonical(b))
  BY <1>2, OwnedKeeps
<1>5. Owned(rows, Canonical(b)) \in Row
  BY <1>4 DEF Keeps
<1>6. Kept(Owned(rows, Canonical(b)), e)
  BY <1>2, <1>3, <1>4, <1>5, KeptThenKeeps
<1>7. Keeps(Parented(rows, Canonical(b)), Canonical(b))
  BY <1>2, ParentedKeeps
<1>8. Parented(rows, Canonical(b)) \in Row
  BY <1>7 DEF Keeps
<1>9. Kept(Parented(rows, Canonical(b)), e)
  BY <1>2, <1>3, <1>7, <1>8, KeptThenKeeps
<1>10. Keeps(Injected(rows, Owned(rows, Canonical(b))), Owned(rows, Canonical(b)))
  BY <1>5, InjectedKeeps
<1>11. Injected(rows, Owned(rows, Canonical(b))) \in Row
  BY <1>10 DEF Keeps
<1>12. Kept(Injected(rows, Owned(rows, Canonical(b))), e)
  BY <1>5, <1>6, <1>10, <1>11, KeptThenKeeps
<1>. QED  BY <1>6, <1>9, <1>12

-----------------------------------------------------------------------------
(* The invariant, and its theorems.                                        *)

EInv ==
  /\ TypeOK
  /\ EvidenceKept
  /\ \A p \in DOMAIN given : n <= p => evs[p].col = given[p].col

LEMMA EInvInit == Init => EInv
<1>. SUFFICES ASSUME Init PROVE EInv
  OBVIOUS
<1>1. given \in Seq(Row) /\ evs = given /\ n = 1
  BY EnrichAssumption DEF Init
<1>2. TypeOK
  BY <1>1 DEF TypeOK
<1>3. EvidenceKept
  BY <1>1 DEF EvidenceKept, ColumnKept
<1>. QED  BY <1>1, <1>2, <1>3 DEF EInv

\* A visit that keeps what the row it is at had, and writes at most native keys
\* of the other rows, preserves the invariant.
LEMMA VisitPreserves ==
  ASSUME EInv, n \in DOMAIN given, n' = n + 1, given' = given,
         evs' \in Seq(Row), DOMAIN evs' = DOMAIN evs, Kept(evs'[n], evs[n]),
         \A p \in DOMAIN evs \ {n} : SameBut(evs'[p], evs[p])
  PROVE  EInv'
<1>1. DOMAIN given = 1 .. Len(given) /\ Len(given) \in Nat /\ DOMAIN evs = DOMAIN given
  BY DEF EInv, TypeOK
<1>2. TypeOK'
  BY <1>1 DEF EInv, TypeOK
<1>3. \A p \in DOMAIN given : given[p] \in Row /\ evs[p] \in Row /\ evs'[p] \in Row
  BY <1>1 DEF EInv, TypeOK
<1>4. \A p \in DOMAIN given : n + 1 <= p => evs'[p].col = given[p].col
  <2>. SUFFICES ASSUME NEW p \in DOMAIN given, n + 1 <= p
                PROVE  evs'[p].col = given[p].col
    OBVIOUS
  <2>1. p # n /\ n <= p
    BY <1>1
  <2>. QED  BY <1>1, <2>1 DEF EInv, SameBut
<1>5. \A p \in DOMAIN given : Evidence(evs[p]) = Evidence(given[p])
                              /\ \A c \in Cols : ColumnKept(evs[p], given[p], c)
  BY DEF EInv, EvidenceKept
<1>6. Kept(evs'[n], given[n])
  <2>1. evs[n].col = given[n].col
    BY <1>1 DEF EInv
  <2>2. SameBut(evs[n], given[n])
    BY <1>3, <1>5, <2>1 DEF SameBut
  <2>. QED  BY <1>3, <2>2, SameIsBefore, BeforeKept
<1>7. \A p \in DOMAIN given : p # n => Kept(evs'[p], given[p])
  <2>. SUFFICES ASSUME NEW p \in DOMAIN given, p # n
                PROVE  Kept(evs'[p], given[p])
    OBVIOUS
  <2>1. SameBut(evs'[p], evs[p])
    BY <1>1
  <2>. QED  BY <1>3, <1>5, <2>1 DEF SameBut, Kept, ColumnKept
<1>8. EvidenceKept'
  BY <1>6, <1>7 DEF EvidenceKept, Kept
<1>. QED  BY <1>2, <1>4, <1>8 DEF EInv

\* ... in particular one that only leaves a row where it is at.
LEMMA LeavePreserves ==
  ASSUME EInv, n \in DOMAIN given, n' = n + 1, given' = given,
         NEW r, Leave(r), Kept(r, evs[n])
  PROVE  EInv'
<1>1. evs \in Seq(Row) /\ DOMAIN evs = DOMAIN given /\ r \in Row
  BY DEF EInv, TypeOK, Kept
<1>2. evs' \in Seq(Row) /\ DOMAIN evs' = DOMAIN evs /\ evs'[n] = r
  BY <1>1 DEF Leave
<1>3. \A p \in DOMAIN evs \ {n} : evs'[p] = evs[p] /\ evs[p] \in Row
  BY <1>1 DEF Leave
<1>4. \A p \in DOMAIN evs \ {n} : SameBut(evs'[p], evs[p])
  BY <1>3 DEF SameBut
<1>. QED  BY <1>2, <1>4, VisitPreserves

\* A logout that closes a login: the login is another row, with native keys of
\* its own to write.
LEMMA PairingPreserves ==
  ASSUME EInv, PairLogout
  PROVE  EInv'
<1> DEFINE q == Earliest(LoginsOf(evs, Here))
           closed == [ evs[q] EXCEPT !.logout = Here.guid, !.ended = Here.time ]
           b == [ Here EXCEPT !.login = evs[q].guid ]
           r == Owned(evs, Canonical(b))
<1>1. evs \in Seq(Row) /\ DOMAIN evs = DOMAIN given /\ n \in Nat /\ n >= 1
  BY DEF EInv, TypeOK
<1>2. n \in DOMAIN evs /\ n' = n + 1 /\ given' = given /\ IsLogout(Here)
  BY <1>1 DEF PairLogout, Visit
<1>3. LoginsOf(evs, Here) \subseteq DOMAIN evs /\ LoginsOf(evs, Here) # {}
  BY DEF LoginsOf, PairLogout
<1>4. q \in LoginsOf(evs, Here) /\ q \in DOMAIN evs
  <2>1. LoginsOf(evs, Here) \subseteq Nat
    BY <1>1, <1>3
  <2>. QED  BY <1>3, <2>1, EarliestIn
<1>5. evs[q].act \in {"login", "reconnect", "unlock"}
  BY <1>4 DEF LoginsOf
<1>6. q # n
  BY <1>2, <1>5 DEF IsLogout, Here
<1>7. evs' = [ [ evs EXCEPT ![q] = closed ] EXCEPT ![n] = r ]
  <2>1. evs' = [ evs EXCEPT ![q].logout = Here.guid, ![q].ended = Here.time, ![n] = r ]
    BY DEF PairLogout
  <2>2. [ evs EXCEPT ![q].logout = Here.guid, ![q].ended = Here.time ]
          = [ evs EXCEPT ![q] = closed ]
    BY <1>1, <1>4
  <2>3. [ evs EXCEPT ![q].logout = Here.guid, ![q].ended = Here.time, ![n] = r ]
          = [ [ evs EXCEPT ![q].logout = Here.guid, ![q].ended = Here.time ] EXCEPT ![n] = r ]
    OBVIOUS
  <2>. QED  BY <2>1, <2>2, <2>3
<1>8. evs[q] \in Row /\ Here \in Row
  BY <1>1, <1>2, <1>4 DEF Here
<1>9. SameBut(closed, evs[q])
  <2>1. Here.guid \in Link(Guids) /\ Here.time \in Times
    BY <1>8 DEF Row
  <2>. QED  BY <1>8, <2>1, ClosedSame
<1>10. SameBut(b, Here)
  <2>1. evs[q].guid \in Link(Guids)
    BY <1>8 DEF Row
  <2>. QED  BY <1>8, <2>1, PairedSame
<1>11. Kept(r, Here)
  <2>1. b \in Row
    BY <1>10 DEF SameBut
  <2>2. Before(b, Here)
    BY <1>10, SameIsBefore
  <2>. HIDE DEF b
  <2>. QED  BY <1>1, <1>8, <2>1, <2>2, VisitKept
<1>12. closed \in Row /\ r \in Row
  BY <1>9, <1>11 DEF SameBut, Kept
<1>. HIDE DEF q, closed, b, r
<1>13. evs' \in Seq(Row) /\ DOMAIN evs' = DOMAIN evs /\ evs'[n] = r
  BY <1>1, <1>2, <1>4, <1>7, <1>12
<1>14. \A p \in DOMAIN evs \ {n} : evs[p] \in Row /\ evs'[p] = IF p = q THEN closed ELSE evs[p]
  BY <1>1, <1>2, <1>4, <1>7
<1>15. \A p \in DOMAIN evs \ {n} : SameBut(evs'[p], evs[p])
  BY <1>9, <1>14 DEF SameBut
<1>16. Kept(evs'[n], evs[n]) /\ n \in DOMAIN given
  BY <1>1, <1>2, <1>11, <1>13 DEF Here
<1>. QED  BY <1>2, <1>13, <1>15, <1>16, VisitPreserves

LEMMA EInvStep == EInv /\ [Next]_vars => EInv'
<1>. SUFFICES ASSUME EInv, [Next]_vars PROVE EInv'
  OBVIOUS
<1>1. evs \in Seq(Row) /\ given \in Seq(Row) /\ DOMAIN evs = DOMAIN given /\ n \in Nat /\ n >= 1
  BY DEF EInv, TypeOK
<1>2. ASSUME NEW obj, Visit(obj)
      PROVE  n \in DOMAIN given /\ n' = n + 1 /\ given' = given /\ Here \in Row
  BY <1>1, <1>2 DEF Visit, Here
<1>3. ASSUME Here \in Row PROVE Before(Here, Here)
  BY <1>3 DEF Before, Keeps
<1>4. CASE EnrichCreate
  <2>1. n \in DOMAIN given /\ n' = n + 1 /\ given' = given /\ Here \in Row
    BY <1>2, <1>4 DEF EnrichCreate
  <2>2. Kept(Parented(evs, Canonical(Here)), Here)
    BY <1>1, <1>3, <2>1, VisitKept
  <2>. QED  BY <1>4, <2>1, <2>2, LeavePreserves DEF EnrichCreate, Here
<1>5. CASE EnrichAuthentication
  <2>1. n \in DOMAIN given /\ n' = n + 1 /\ given' = given /\ Here \in Row
    BY <1>2, <1>5 DEF EnrichAuthentication
  <2>2. SameBut(AuthLinked(evs, Here), Here)
    BY <1>1, <2>1, AuthLinkedSame
  <2>3. AuthLinked(evs, Here) \in Row
    BY <2>2 DEF SameBut
  <2>4. Kept(Owned(evs, Canonical(AuthLinked(evs, Here))), Here)
    BY <1>1, <2>1, <2>2, <2>3, SameIsBefore, VisitKept
  <2>. QED  BY <1>5, <2>1, <2>4, LeavePreserves DEF EnrichAuthentication, Here
<1>6. CASE EnrichFile
  <2>1. n \in DOMAIN given /\ n' = n + 1 /\ given' = given /\ Here \in Row
    BY <1>2, <1>6 DEF EnrichFile
  <2> DEFINE s == Spoken(evs, Here)
  <2>2. Before(s, Here) /\ s \in Row
    BY <1>1, <2>1, SpokenBefore DEF Before, Keeps
  <2>3. SameBut(Executed(evs, s), s) /\ Executed(evs, s) \in Row
    BY <1>1, <2>2, ExecutedSame DEF SameBut
  <2>4. Before(Executed(evs, s), Here)
    BY <2>1, <2>2, <2>3, SameIsBefore, BeforeTrans
  <2>5. Kept(Owned(evs, Canonical(Executed(evs, s))), Here)
    BY <1>1, <2>1, <2>3, <2>4, VisitKept
  <2>. QED  BY <1>6, <2>1, <2>5, LeavePreserves DEF EnrichFile, Here
<1>7. CASE EnrichThread
  <2>1. n \in DOMAIN given /\ n' = n + 1 /\ given' = given /\ Here \in Row
    BY <1>2, <1>7 DEF EnrichThread
  <2>2. Kept(Injected(evs, Owned(evs, Canonical(Here))), Here)
    BY <1>1, <1>3, <2>1, VisitKept
  <2>. QED  BY <1>7, <2>1, <2>2, LeavePreserves DEF EnrichThread, Here
<1>8. CASE PairLogout
  BY <1>8, PairingPreserves
<1>9. CASE EnrichOther
  <2>1. n \in DOMAIN given /\ n' = n + 1 /\ given' = given /\ Here \in Row
    BY <1>2, <1>9 DEF EnrichOther
  <2>2. Kept(Owned(evs, Canonical(Here)), Here)
    BY <1>1, <1>3, <2>1, VisitKept
  <2>. QED  BY <1>9, <2>1, <2>2, LeavePreserves DEF EnrichOther, Here
<1>10. CASE EnrichHttp
  <2>1. n \in DOMAIN given /\ n' = n + 1 /\ given' = given /\ Here \in Row
    BY <1>2, <1>10 DEF EnrichHttp
  <2>2. Before(Spoken(evs, Here), Here) /\ Spoken(evs, Here) \in Row
    BY <1>1, <2>1, SpokenBefore DEF Before, Keeps
  <2>3. Kept(Owned(evs, Canonical(Spoken(evs, Here))), Here)
    BY <1>1, <2>1, <2>2, VisitKept
  <2>. QED  BY <1>10, <2>1, <2>3, LeavePreserves DEF EnrichHttp, Here
<1>11. CASE EnrichFlow
  <2>1. n \in DOMAIN given /\ n' = n + 1 /\ given' = given /\ Here \in Row
    BY <1>2, <1>11 DEF EnrichFlow
  <2> DEFINE l == Labelled(Here)
  <2>2. Before(l, Here) /\ l \in Row
    BY <1>1, <2>1, LabelledBefore DEF Before, Keeps
  <2>. HIDE DEF l
  <2>3. SameBut(Certified(l), l) /\ Certified(l) \in Row
    BY <1>1, <2>2, CertifiedSame DEF SameBut
  <2>4. Before(Certified(l), Here)
    BY <2>1, <2>2, <2>3, SameIsBefore, BeforeTrans
  <2>5. Kept(Owned(evs, Canonical(Certified(l))), Here)
    BY <1>1, <2>1, <2>3, <2>4, VisitKept
  <2>. QED  BY <1>11, <2>1, <2>5, LeavePreserves DEF EnrichFlow, Here, l
<1>12. CASE UNCHANGED vars
  BY <1>12 DEF vars, EInv, TypeOK, EvidenceKept
<1>. QED  BY <1>4, <1>5, <1>6, <1>7, <1>8, <1>9, <1>10, <1>11, <1>12 DEF Next

LEMMA EInvAlways == Spec => []EInv
BY EInvInit, EInvStep, PTL DEF Spec

\* Enrichment neither drops nor adds a row, and what it writes into one is of
\* the kind its column or link holds (enrich.enrich).
THEOREM EnrichTypes == Spec => []TypeOK
<1>1. EInv => TypeOK
  BY DEF EInv
<1>. QED  BY <1>1, EInvAlways, PTL

\* "A natively extracted value is never overwritten": at every moment of the
\* pass every row has the evidence it came with, the rendering of a well-known
\* account's name aside (enrich._inherit and the canonical names of enrich).
THEOREM EvidenceIsKept == Spec => []EvidenceKept
<1>1. EInv => EvidenceKept
  BY DEF EInv
<1>. QED  BY <1>1, EInvAlways, PTL
-----------------------------------------------------------------------------
(* What a row is linked to.  The indexes read nothing the pass writes, so    *)
(* over the rows as they are they give what they give over the evidence.     *)

LEMMA EvidenceParts ==
  ASSUME NEW a, NEW b, Evidence(a) = Evidence(b)
  PROVE  /\ a.host = b.host /\ a.obj = b.obj /\ a.act = b.act /\ a.guid = b.guid
         /\ a.time = b.time /\ a.pid = b.pid /\ a.refGuid = b.refGuid /\ a.refPid = b.refPid
         /\ a.luid = b.luid /\ a.session = b.session /\ a.opened = b.opened
         /\ a.subject = b.subject /\ a.map = b.map /\ a.uid = b.uid
BY DEF Evidence

SameRows(rows) ==
  /\ DOMAIN rows = DOMAIN given
  /\ \A p \in DOMAIN given : Evidence(rows[p]) = Evidence(given[p])

LEMMA SameRowsParts ==
  ASSUME NEW rows, SameRows(rows)
  PROVE  /\ DOMAIN rows = DOMAIN given
         /\ \A p \in DOMAIN given :
              /\ rows[p].host = given[p].host /\ rows[p].obj = given[p].obj
              /\ rows[p].act = given[p].act /\ rows[p].guid = given[p].guid
              /\ rows[p].time = given[p].time /\ rows[p].pid = given[p].pid
              /\ rows[p].luid = given[p].luid /\ rows[p].session = given[p].session
              /\ (IsCreate(rows[p]) <=> IsCreate(given[p]))
              /\ (IsEnd(rows[p]) <=> IsEnd(given[p]))
<1>. SUFFICES ASSUME NEW p \in DOMAIN given
              PROVE  /\ rows[p].host = given[p].host /\ rows[p].obj = given[p].obj
                     /\ rows[p].act = given[p].act /\ rows[p].guid = given[p].guid
                     /\ rows[p].time = given[p].time /\ rows[p].pid = given[p].pid
                     /\ rows[p].luid = given[p].luid /\ rows[p].session = given[p].session
                     /\ (IsCreate(rows[p]) <=> IsCreate(given[p]))
                     /\ (IsEnd(rows[p]) <=> IsEnd(given[p]))
  BY DEF SameRows
<1>1. Evidence(rows[p]) = Evidence(given[p])
  BY DEF SameRows
<1>. QED  BY <1>1, EvidenceParts DEF IsCreate, IsEnd

LEMMA SameByGuid ==
  ASSUME NEW rows, SameRows(rows), NEW host, NEW guid
  PROVE  ByGuid(rows, host, guid) = ByGuid(given, host, guid)
BY SameRowsParts DEF ByGuid

LEMMA SameByPid ==
  ASSUME NEW rows, SameRows(rows), NEW host, NEW pid
  PROVE  ByPid(rows, host, pid) = ByPid(given, host, pid)
BY SameRowsParts DEF ByPid

LEMMA SameExit ==
  ASSUME NEW rows, SameRows(rows), NEW q \in DOMAIN given, given \in Seq(Row)
  PROVE  ExitOf(rows, rows[q]) = ExitOf(given, given[q])
<1> DEFINE ends(rs, r) == { x \in DOMAIN rs : IsEnd(rs[x]) /\ rs[x].host = r.host
                              /\ r.guid # Blank /\ rs[x].guid = r.guid }
           stamps(rs, S) == { rs[x].time : x \in S } \ {0}
           exit(rs, S) == IF S = {} \/ stamps(rs, S) = {} \/ rs[Earliest(S)].time = 0 THEN 0
                          ELSE Earliest(stamps(rs, S))
<1>1. PICK mine : mine = ends(given, given[q])
  OBVIOUS
<1>2. ends(rows, rows[q]) = mine
  BY <1>1, SameRowsParts
<1>3. mine \subseteq DOMAIN given
  BY <1>1
<1>4. stamps(rows, mine) = stamps(given, mine)
  <2>1. \A x \in mine : rows[x].time = given[x].time
    BY <1>3, SameRowsParts
  <2>. QED  BY <2>1
<1>5. mine # {} => rows[Earliest(mine)].time = given[Earliest(mine)].time
  <2>1. mine # {} => Earliest(mine) \in DOMAIN given
    BY <1>3, InRows
  <2>. QED  BY <2>1, SameRowsParts
<1>6. ExitOf(rows, rows[q]) = exit(rows, ends(rows, rows[q]))
  BY DEF ExitOf, EndsOf
<1>7. ExitOf(given, given[q]) = exit(given, ends(given, given[q]))
  BY DEF ExitOf, EndsOf
<1>8. exit(rows, mine) = exit(given, mine)
  <2>. HIDE DEF stamps
  <2>. QED  BY <1>4, <1>5
<1>. HIDE DEF ends, exit
<1>. QED  BY <1>1, <1>2, <1>6, <1>7, <1>8

LEMMA SameMatch ==
  ASSUME NEW rows, SameRows(rows), given \in Seq(Row), NEW host, NEW pid, NEW ts
  PROVE  Match(rows, host, pid, ts) = Match(given, host, pid, ts)
<1> DEFINE C == ByPid(given, host, pid)
           eligible(rs) == { q \in C : rs[q].time <= ts /\ AliveAt(rs, rs[q], ts) }
           newest(rs, S) == { q \in S : \A p \in S :
                  rs[p].time < rs[q].time \/ (rs[p].time = rs[q].time /\ p <= q) }
<1>1. ByPid(rows, host, pid) = C
  BY SameByPid
<1>2. C \subseteq DOMAIN given
  BY DEF ByPid
<1>3. \A q \in C : rows[q].time = given[q].time /\ ExitOf(rows, rows[q]) = ExitOf(given, given[q])
  BY <1>2, SameRowsParts, SameExit
<1>4. eligible(rows) = eligible(given)
  BY <1>3 DEF AliveAt
<1>5. newest(rows, eligible(rows)) = newest(given, eligible(given))
  <2> DEFINE S == eligible(given)
  <2>1. \A q \in S : rows[q].time = given[q].time
    BY <1>3
  <2>. HIDE DEF S
  <2>2. newest(rows, S) = newest(given, S)
    BY <2>1
  <2>. QED  BY <1>4, <2>2 DEF S
<1>6. Match(rows, host, pid, ts) =
        IF ts = 0 THEN IF Cardinality(C) = 1 THEN C ELSE {} ELSE newest(rows, eligible(rows))
  BY <1>1 DEF Match
<1>7. Match(given, host, pid, ts) =
        IF ts = 0 THEN IF Cardinality(C) = 1 THEN C ELSE {} ELSE newest(given, eligible(given))
  BY DEF Match
<1>. HIDE DEF eligible, newest, C
<1>. QED  BY <1>5, <1>6, <1>7

\* The process a row refers to is a matter of evidence.
LEMMA SameReferred ==
  ASSUME NEW rows, SameRows(rows), given \in Seq(Row),
         NEW r, NEW e, Evidence(r) = Evidence(e)
  PROVE  /\ Named(rows, r) = Named(given, e)
         /\ InWindow(rows, r) = InWindow(given, e)
         /\ Referred(rows, r) = Referred(given, e)
         /\ TierOf(rows, r) = TierOf(given, e)
<1>1. r.host = e.host /\ r.refGuid = e.refGuid /\ r.refPid = e.refPid /\ r.time = e.time
  BY EvidenceParts
<1>2. Named(rows, r) = Named(given, e)
  BY <1>1, SameByGuid DEF Named
<1>3. InWindow(rows, r) = InWindow(given, e)
  BY <1>1, SameMatch DEF InWindow
<1>. QED  BY <1>2, <1>3 DEF Referred, TierOf

\* ... and it is a process its host has created.
LEMMA ReferredIsCreate ==
  ASSUME NEW e, given \in Seq(Row), Referred(given, e) # {}
  PROVE  /\ Referred(given, e) \subseteq DOMAIN given
         /\ Latest(Referred(given, e)) \in Referred(given, e)
         /\ IsCreate(given[Latest(Referred(given, e))])
         /\ given[Latest(Referred(given, e))].host = e.host
<1>1. /\ \A q \in Named(given, e) : q \in DOMAIN given /\ IsCreate(given[q]) /\ given[q].host = e.host
      /\ \A q \in InWindow(given, e) : q \in DOMAIN given /\ IsCreate(given[q]) /\ given[q].host = e.host
  BY DEF Named, InWindow, Match, ByGuid, ByPid
<1>2. \A q \in Referred(given, e) : q \in DOMAIN given /\ IsCreate(given[q]) /\ given[q].host = e.host
  BY <1>1 DEF Referred
<1>3. Latest(Referred(given, e)) \in Referred(given, e)
  <2>1. Referred(given, e) \subseteq 0 .. Len(given) /\ Len(given) \in Nat
    BY <1>2
  <2>. QED  BY <2>1, LatestIn
<1>. QED  BY <1>2, <1>3

-----------------------------------------------------------------------------
(* What a visit leaves behind, said of the row it is at and of the others.   *)

\* Everything the pass ties a row to, but for what no property looks at.
Ties(r) == << r.link, r.conf, r.flow, r.certified, r.openedIn, r.askedFrom,
              r.login, r.logout, r.ended >>

LEMMA TiesParts ==
  ASSUME NEW a, NEW b, Ties(a) = Ties(b)
  PROVE  /\ a.link = b.link /\ a.conf = b.conf /\ a.flow = b.flow
         /\ a.certified = b.certified /\ a.openedIn = b.openedIn
         /\ a.askedFrom = b.askedFrom /\ a.login = b.login
         /\ a.logout = b.logout /\ a.ended = b.ended
BY DEF Ties

\* r is b, tied to a process and with its blanks filled from it.
Joined(r, b, owner, t, from) ==
  /\ r.link = owner.guid /\ r.conf = t
  /\ r.flow = b.flow /\ r.certified = b.certified /\ r.openedIn = b.openedIn
  /\ r.askedFrom = b.askedFrom /\ r.login = b.login /\ r.logout = b.logout
  /\ r.ended = b.ended
  /\ \A c \in Cols : r.col[c] = IF c \in DOMAIN from \cap FieldsOf[b.obj] /\ b.col[c] = Blank
                                THEN owner.col[from[c]] ELSE b.col[c]

LEMMA FillSays ==
  ASSUME NEW r \in Row, NEW owner \in Row, NEW from
  PROVE  /\ Ties(Fill(r, from, owner)) = Ties(r)
         /\ \A c \in Cols : Fill(r, from, owner).col[c] =
              IF c \in DOMAIN from \cap FieldsOf[r.obj] /\ r.col[c] = Blank
              THEN owner.col[from[c]] ELSE r.col[c]
<1>1. ASSUME NEW col PROVE [ r EXCEPT !.col = col ].col = col
                           /\ Ties([ r EXCEPT !.col = col ]) = Ties(r)
  BY DEF Row, Ties
<1>2. Fill(r, from, owner) = [ r EXCEPT !.col = [ c \in Cols |->
            IF c \in DOMAIN from \cap FieldsOf[r.obj] /\ r.col[c] = Blank
            THEN owner.col[from[c]] ELSE r.col[c] ] ]
  BY DEF Fill
<1>3. /\ Ties(Fill(r, from, owner)) = Ties(r)
      /\ Fill(r, from, owner).col = [ c \in Cols |->
            IF c \in DOMAIN from \cap FieldsOf[r.obj] /\ r.col[c] = Blank
            THEN owner.col[from[c]] ELSE r.col[c] ]
  BY <1>1, <1>2
<1>. QED  BY <1>3

LEMMA FillJoins ==
  ASSUME NEW r \in Row, NEW owner \in Row, NEW t \in Tier, NEW from
  PROVE  Joined(Fill([ r EXCEPT !.link = owner.guid, !.conf = t ], from, owner),
                r, owner, t, from)
<1> DEFINE linked == [ r EXCEPT !.link = owner.guid, !.conf = t ]
           f == Fill(linked, from, owner)
<1>1. owner.guid \in Link(Guids)
  BY DEF Row
<1>2. linked \in Row
  BY <1>1, LinkKeeps DEF Keeps
<1>3. /\ linked.link = owner.guid /\ linked.conf = t /\ linked.flow = r.flow
      /\ linked.certified = r.certified /\ linked.openedIn = r.openedIn
      /\ linked.askedFrom = r.askedFrom /\ linked.login = r.login
      /\ linked.logout = r.logout /\ linked.ended = r.ended
      /\ linked.col = r.col /\ linked.obj = r.obj
  BY DEF Row
<1>. HIDE DEF linked
<1>4. /\ Ties(f) = Ties(linked)
      /\ \A c \in Cols : f.col[c] =
              IF c \in DOMAIN from \cap FieldsOf[linked.obj] /\ linked.col[c] = Blank
              THEN owner.col[from[c]] ELSE linked.col[c]
  BY <1>2, FillSays
<1>5. /\ f.link = linked.link /\ f.conf = linked.conf /\ f.flow = linked.flow
      /\ f.certified = linked.certified /\ f.openedIn = linked.openedIn
      /\ f.askedFrom = linked.askedFrom /\ f.login = linked.login
      /\ f.logout = linked.logout /\ f.ended = linked.ended
  BY <1>4, TiesParts
<1>6. Joined(f, r, owner, t, from)
  BY <1>3, <1>4, <1>5 DEF Joined
<1>. QED  BY <1>6 DEF linked

\* A column that names the account of the row's own SID.
Accounted(r, e, c) ==
  c = "user" /\ SidOf(e) \in DOMAIN Account /\ r.col[c] = Account[SidOf(e)]

LEMMA CanonicalSays ==
  ASSUME NEW r \in Row
  PROVE  /\ Ties(Canonical(r)) = Ties(r) /\ Canonical(r).obj = r.obj
         /\ \A c \in Cols : \/ Canonical(r).col[c] = r.col[c]
                            \/ Accounted(Canonical(r), r, c)
<1>1. CASE ~(/\ SidOf(r) \in DOMAIN Account /\ "user" \in FieldsOf[r.obj]
             /\ r.col["user"] \in Aliases \cup {Blank})
  BY <1>1 DEF Canonical
<1>2. CASE /\ SidOf(r) \in DOMAIN Account /\ "user" \in FieldsOf[r.obj]
           /\ r.col["user"] \in Aliases \cup {Blank}
  <2> DEFINE col == [ r.col EXCEPT !["user"] = Account[SidOf(r)] ]
  <2>1. "user" \in Cols
    BY EnrichAssumption
  <2>2. \A c \in Cols : col[c] = IF c = "user" THEN Account[SidOf(r)] ELSE r.col[c]
    BY <2>1 DEF Row
  <2>3. Canonical(r) = [ r EXCEPT !.col = col ]
    BY <1>2 DEF Canonical, Row
  <2>. HIDE DEF col
  <2>4. /\ [ r EXCEPT !.col = col ].col = col /\ [ r EXCEPT !.col = col ].obj = r.obj
        /\ Ties([ r EXCEPT !.col = col ]) = Ties(r)
    BY DEF Row, Ties
  <2>. QED  BY <1>2, <2>2, <2>3, <2>4 DEF Accounted
<1>. QED  BY <1>1, <1>2

\* The process the row the pass is at is given, if any.
OwnerAt == Latest(Referred(given, given[n]))
IsOwned(e) == Referred(given, e) # {} /\ (IsCreate(e) => OwnerAt # n)

\* What a visit makes of b, the row with its keyed links: r.
Left(r, b) ==
  /\ r.flow = b.flow /\ r.certified = b.certified /\ r.openedIn = b.openedIn
  /\ r.askedFrom = b.askedFrom /\ r.login = b.login /\ r.logout = b.logout
  /\ r.ended = b.ended
  /\ IF IsOwned(given[n])
     THEN r.link = given[OwnerAt].guid /\ r.conf = TierOf(given, given[n])
     ELSE r.link = b.link /\ r.conf = b.conf
  /\ \A c \in Cols :
       \/ r.col[c] = b.col[c]
       \/ Accounted(r, given[n], c)
       \/ /\ IsOwned(given[n]) /\ b.col[c] = Blank
          /\ c \in DOMAIN Inherits(given[n]) \cap FieldsOf[given[n].obj]
          /\ r.col[c] = evs[OwnerAt].col[Inherits(given[n])[c]]

LEMMA InvParts ==
  ASSUME EInv, n \in DOMAIN given
  PROVE  /\ evs \in Seq(Row) /\ given \in Seq(Row) /\ DOMAIN evs = DOMAIN given
         /\ n \in Nat /\ SameRows(evs) /\ given[n] \in Row /\ Here \in Row
         /\ Evidence(Here) = Evidence(given[n]) /\ Here.col = given[n].col
<1>1. n \in Nat /\ n <= n
  BY DEF EInv, TypeOK
<1>. QED  BY <1>1 DEF EInv, TypeOK, EvidenceKept, SameRows, Here

\* The owner step on the row as Canonical left it.
LEMMA JoinedLeaves ==
  ASSUME EInv, n \in DOMAIN given, NEW b \in Row, Before(b, Here),
         NEW r, IsOwned(given[n]),
         Joined(r, Canonical(b), evs[OwnerAt], TierOf(given, given[n]), Inherits(given[n]))
  PROVE  Left(r, b)
<1> DEFINE e == given[n]
           from == Inherits(e)
           k == Canonical(b)
<1>1. Evidence(b) = Evidence(e) /\ b.obj = e.obj /\ SidOf(b) = SidOf(e)
  <2>1. Evidence(b) = Evidence(Here) /\ SidOf(b) = SidOf(Here)
    BY DEF Before, Keeps, AccountCols, SidOf
  <2>2. Evidence(b) = Evidence(e) /\ SidOf(Here) = SidOf(e)
    BY <2>1, InvParts DEF SidOf
  <2>. QED  BY <2>1, <2>2, EvidenceParts
<1>2. /\ Ties(k) = Ties(b) /\ k.obj = b.obj
      /\ \A c \in Cols : k.col[c] = b.col[c] \/ Accounted(k, b, c)
  BY CanonicalSays
<1>3. /\ k.flow = b.flow /\ k.certified = b.certified /\ k.openedIn = b.openedIn
      /\ k.askedFrom = b.askedFrom /\ k.login = b.login /\ k.logout = b.logout
      /\ k.ended = b.ended
  BY <1>2, TiesParts
<1>4. evs[OwnerAt].guid = given[OwnerAt].guid
  <2>1. OwnerAt \in DOMAIN given
    BY InvParts, ReferredIsCreate DEF IsOwned, OwnerAt
  <2>. QED  BY <2>1, InvParts, SameRowsParts
<1>6. ASSUME NEW c \in Cols
      PROVE  \/ r.col[c] = b.col[c] \/ Accounted(r, e, c)
             \/ /\ b.col[c] = Blank /\ c \in DOMAIN from \cap FieldsOf[e.obj]
                /\ r.col[c] = evs[OwnerAt].col[from[c]]
  <2>. HIDE DEF k, e, from
  <2>1. r.col[c] = IF c \in DOMAIN from \cap FieldsOf[k.obj] /\ k.col[c] = Blank
                   THEN evs[OwnerAt].col[from[c]] ELSE k.col[c]
    BY DEF Joined, k, e, from
  <2>2. \A x \in DOMAIN Account : Account[x] # Blank
    BY EnrichAssumption
  <2>3. CASE Accounted(k, b, c)
    <3>1. k.col[c] # Blank
      BY <2>2, <2>3 DEF Accounted
    <3>2. r.col[c] = k.col[c]
      BY <2>1, <3>1
    <3>. QED  BY <1>1, <2>3, <3>2 DEF Accounted
  <2>4. CASE k.col[c] = b.col[c]
    BY <1>1, <1>2, <2>1, <2>4
  <2>. QED  BY <1>2, <2>3, <2>4
<1>7. /\ r.link = evs[OwnerAt].guid /\ r.conf = TierOf(given, e)
      /\ r.flow = k.flow /\ r.certified = k.certified /\ r.openedIn = k.openedIn
      /\ r.askedFrom = k.askedFrom /\ r.login = k.login /\ r.logout = k.logout
      /\ r.ended = k.ended
  BY DEF Joined
<1>. HIDE DEF k
<1>8. \A c \in Cols :
        \/ r.col[c] = b.col[c] \/ Accounted(r, e, c)
        \/ /\ IsOwned(e) /\ b.col[c] = Blank /\ c \in DOMAIN from \cap FieldsOf[e.obj]
           /\ r.col[c] = evs[OwnerAt].col[from[c]]
  BY <1>6
<1>9. IF IsOwned(e) THEN r.link = given[OwnerAt].guid /\ r.conf = TierOf(given, e)
      ELSE r.link = b.link /\ r.conf = b.conf
  BY <1>4, <1>7
<1>10. /\ r.flow = b.flow /\ r.certified = b.certified /\ r.openedIn = b.openedIn
       /\ r.askedFrom = b.askedFrom /\ r.login = b.login /\ r.logout = b.logout
       /\ r.ended = b.ended
  BY <1>3, <1>7
<1>. QED  BY <1>8, <1>9, <1>10, Zenon DEF Left

\* ... and when it found none.
LEMMA AloneLeaves ==
  ASSUME EInv, n \in DOMAIN given, NEW b \in Row, Before(b, Here), ~IsOwned(given[n])
  PROVE  Left(Canonical(b), b)
<1> DEFINE e == given[n]
           k == Canonical(b)
<1>1. SidOf(b) = SidOf(e)
  <2>1. SidOf(b) = SidOf(Here)
    BY DEF Before, AccountCols, SidOf
  <2>2. SidOf(Here) = SidOf(e)
    BY InvParts DEF SidOf
  <2>. QED  BY <2>1, <2>2
<1>2. /\ Ties(k) = Ties(b)
      /\ \A c \in Cols : k.col[c] = b.col[c] \/ Accounted(k, b, c)
  BY CanonicalSays
<1>3. \A c \in Cols : k.col[c] = b.col[c] \/ Accounted(k, e, c)
  BY <1>1, <1>2 DEF Accounted
<1>4. /\ k.flow = b.flow /\ k.certified = b.certified /\ k.openedIn = b.openedIn
      /\ k.askedFrom = b.askedFrom /\ k.login = b.login /\ k.logout = b.logout
      /\ k.ended = b.ended /\ k.link = b.link /\ k.conf = b.conf
  BY <1>2, TiesParts
<1>. HIDE DEF k
<1>5. Left(k, b)
  BY <1>3, <1>4, Zenon DEF Left
<1>. QED  BY <1>5 DEF k

LEMMA CanonicalEvidence ==
  ASSUME EInv, n \in DOMAIN given, NEW b \in Row, Before(b, Here)
  PROVE  /\ Canonical(b) \in Row /\ Evidence(Canonical(b)) = Evidence(given[n])
         /\ Referred(evs, Canonical(b)) = Referred(given, given[n])
         /\ TierOf(evs, Canonical(b)) = TierOf(given, given[n])
         /\ TierOf(given, given[n]) \in Tier
         /\ Referred(given, given[n]) # {} => evs[OwnerAt] \in Row
<1>1. Canonical(b) \in Row /\ Evidence(Canonical(b)) = Evidence(b)
  BY CanonicalKept DEF Kept
<1>2. Evidence(Canonical(b)) = Evidence(given[n])
  BY <1>1, InvParts DEF Before, Keeps
<1>3. /\ Referred(evs, Canonical(b)) = Referred(given, given[n])
      /\ TierOf(evs, Canonical(b)) = TierOf(given, given[n])
  BY <1>2, InvParts, SameReferred
<1>4. Referred(given, given[n]) # {} => OwnerAt \in DOMAIN evs
  BY InvParts, ReferredIsCreate DEF OwnerAt
<1>5. TierOf(given, given[n]) \in Tier
  BY DEF TierOf, Tier
<1>. QED  BY <1>1, <1>2, <1>3, <1>4, <1>5, InvParts

LEMMA OwnedLeaves ==
  ASSUME EInv, n \in DOMAIN given, NEW b \in Row, Before(b, Here), ~IsCreate(given[n])
  PROVE  Left(Owned(evs, Canonical(b)), b)
<1> DEFINE k == Canonical(b)
<1>1. /\ k \in Row /\ Referred(evs, k) = Referred(given, given[n])
      /\ TierOf(evs, k) = TierOf(given, given[n]) /\ TierOf(given, given[n]) \in Tier
      /\ Referred(given, given[n]) # {} => evs[OwnerAt] \in Row
  BY CanonicalEvidence
<1>2. CASE Referred(given, given[n]) = {}
  <2>1. Owned(evs, k) = k
    BY <1>1, <1>2 DEF Owned
  <2>. QED  BY <1>2, <2>1, AloneLeaves DEF IsOwned
<1>3. CASE Referred(given, given[n]) # {}
  <2>. HIDE DEF k
  <2>1. Latest(Referred(evs, k)) = OwnerAt
    BY <1>1 DEF OwnerAt
  <2>2. Owned(evs, k) = Fill([ k EXCEPT !.link = evs[OwnerAt].guid,
                                        !.conf = TierOf(given, given[n]) ], FromOwner, evs[OwnerAt])
    BY <1>1, <1>3, <2>1 DEF Owned
  <2>3. Joined(Owned(evs, k), k, evs[OwnerAt], TierOf(given, given[n]), FromOwner)
    BY <1>1, <1>3, <2>2, FillJoins
  <2>. QED  BY <1>3, <2>3, JoinedLeaves DEF IsOwned, k, Inherits
<1>. QED  BY <1>2, <1>3

LEMMA ParentedLeaves ==
  ASSUME EInv, n \in DOMAIN given, NEW b \in Row, Before(b, Here), IsCreate(given[n])
  PROVE  Left(Parented(evs, Canonical(b)), b)
<1> DEFINE k == Canonical(b)
<1>1. /\ k \in Row /\ Referred(evs, k) = Referred(given, given[n])
      /\ TierOf(evs, k) = TierOf(given, given[n]) /\ TierOf(given, given[n]) \in Tier
      /\ Referred(given, given[n]) # {} => evs[OwnerAt] \in Row
  BY CanonicalEvidence
<1>2. CASE Referred(given, given[n]) = {} \/ OwnerAt = n
  <2>1. Parented(evs, k) = k
    BY <1>1, <1>2 DEF Parented, OwnerAt
  <2>. QED  BY <1>2, <2>1, AloneLeaves DEF IsOwned
<1>3. CASE Referred(given, given[n]) # {} /\ OwnerAt # n
  <2>. HIDE DEF k
  <2>1. Latest(Referred(evs, k)) = OwnerAt
    BY <1>1 DEF OwnerAt
  <2>2. Parented(evs, k) = Fill([ k EXCEPT !.link = evs[OwnerAt].guid,
                                        !.conf = TierOf(given, given[n]) ], ParentInherits, evs[OwnerAt])
    BY <1>1, <1>3, <2>1 DEF Parented
  <2>3. Joined(Parented(evs, k), k, evs[OwnerAt], TierOf(given, given[n]), ParentInherits)
    BY <1>1, <1>3, <2>2, FillJoins
  <2>. QED  BY <1>3, <2>3, JoinedLeaves DEF IsOwned, k, Inherits
<1>. QED  BY <1>2, <1>3

LEMMA InjectedLeaves ==
  ASSUME NEW r \in Row, NEW b, Left(r, b)
  PROVE  Left(Injected(evs, r), b)
<1>1. ASSUME NEW g PROVE LET s == [ r EXCEPT !.injected = g ] IN
        /\ s.flow = r.flow /\ s.certified = r.certified /\ s.openedIn = r.openedIn
        /\ s.askedFrom = r.askedFrom /\ s.login = r.login /\ s.logout = r.logout
        /\ s.ended = r.ended /\ s.link = r.link /\ s.conf = r.conf /\ s.col = r.col
  BY DEF Row
<1>2. PICK s : s = Injected(evs, r)
  OBVIOUS
<1>3. /\ s.flow = r.flow /\ s.certified = r.certified /\ s.openedIn = r.openedIn
      /\ s.askedFrom = r.askedFrom /\ s.login = r.login /\ s.logout = r.logout
      /\ s.ended = r.ended /\ s.link = r.link /\ s.conf = r.conf /\ s.col = r.col
  BY <1>1, <1>2 DEF Injected
<1>4. \A c : Accounted(s, given[n], c) <=> Accounted(r, given[n], c)
  BY <1>3 DEF Accounted
<1>5. Left(s, b)
  BY <1>3, <1>4 DEF Left
<1>. QED  BY <1>2, <1>5

-----------------------------------------------------------------------------
(* The keyed links of a row: what the steps before Canonical make of it.     *)

\* A row the pass has not come to is tied as the fold left it.
Waiting ==
  \A p \in DOMAIN given : n <= p =>
    /\ evs[p].link = given[p].link /\ evs[p].conf = given[p].conf
    /\ evs[p].flow = given[p].flow /\ evs[p].certified = given[p].certified
    /\ evs[p].openedIn = Blank /\ evs[p].askedFrom = Blank

SessionTied(r, p) ==
  /\ TiedTo(r.openedIn, p, given[p].opened) /\ TiedTo(r.askedFrom, p, given[p].subject)
  /\ given[p].act = "failure" => r.openedIn = Blank

Keyed(b) ==
  /\ b \in Row /\ Before(b, Here) /\ b.link = Here.link /\ b.conf = Here.conf
  /\ b.logout = Here.logout /\ b.ended = Here.ended
  /\ \A c \in Cols : \/ b.col[c] = given[n].col[c]
                     \/ given[n].col[c] = Blank /\ Heard(n, c, b.col[c])
  /\ SessionTied(b, n)
  /\ ConnectionTied(b, n)

LEMMA HereKeyed ==
  ASSUME EInv, Waiting, n \in DOMAIN given, given[n].obj \notin {"http", "file", "flow"}
  PROVE  Keyed(Here)
<1>1. Here \in Row /\ Here.col = given[n].col /\ n \in Nat
  BY InvParts
<1>2. Before(Here, Here)
  BY <1>1 DEF Before, Keeps
<1>3. /\ Here.certified = given[n].certified /\ Here.openedIn = Blank
      /\ Here.askedFrom = Blank
  BY <1>1 DEF Waiting, Here
<1>4. SessionTied(Here, n)
  BY <1>3 DEF SessionTied, TiedTo
<1>5. ConnectionTied(Here, n)
  BY <1>3 DEF ConnectionTied
<1>. QED  BY <1>1, <1>2, <1>4, <1>5 DEF Keyed

\* A step that writes one of the keys no property of ties looks at.
LEMMA KeyedSame ==
  ASSUME NEW s, NEW r, Keyed(s), SameBut(r, s),
         r.link = s.link, r.conf = s.conf, r.flow = s.flow, r.certified = s.certified,
         r.openedIn = s.openedIn, r.askedFrom = s.askedFrom,
         r.logout = s.logout, r.ended = s.ended, Here \in Row
  PROVE  Keyed(r)
<1>1. r \in Row /\ s \in Row /\ r.col = s.col
  BY DEF Keyed, SameBut
<1>2. Before(r, Here)
  BY <1>1, SameIsBefore, BeforeTrans DEF Keyed
<1>3. SessionTied(r, n)
  BY DEF Keyed, SessionTied
<1>4. ConnectionTied(r, n)
  BY <1>1 DEF Keyed, ConnectionTied
<1>. QED  BY <1>1, <1>2, <1>3, <1>4 DEF Keyed

LEMMA ExecutedKeyed ==
  ASSUME EInv, n \in DOMAIN given, NEW s, Keyed(s)
  PROVE  Keyed(Executed(evs, s))
<1>1. s \in Row /\ Here \in Row /\ given \in Seq(Row)
  BY InvParts DEF Keyed
<1>2. SameBut(Executed(evs, s), s)
  BY <1>1, ExecutedSame
<1>3. ASSUME NEW g PROVE LET r == [ s EXCEPT !.executedAs = g ] IN
        /\ r.flow = s.flow /\ r.certified = s.certified /\ r.openedIn = s.openedIn
        /\ r.askedFrom = s.askedFrom /\ r.logout = s.logout
        /\ r.ended = s.ended /\ r.link = s.link /\ r.conf = s.conf
  BY <1>1 DEF Row
<1>4. PICK r : r = Executed(evs, s)
  OBVIOUS
<1>5. /\ r.flow = s.flow /\ r.certified = s.certified /\ r.openedIn = s.openedIn
      /\ r.askedFrom = s.askedFrom /\ r.logout = s.logout
      /\ r.ended = s.ended /\ r.link = s.link /\ r.conf = s.conf
  BY <1>3, <1>4 DEF Executed
<1>6. Keyed(r)
  BY <1>1, <1>2, <1>4, <1>5, KeyedSame
<1>. QED  BY <1>4, <1>6

LEMMA PairedKeyed ==
  ASSUME EInv, Waiting, n \in DOMAIN given, given[n].obj = "user_session",
         NEW g \in Link(Guids)
  PROVE  Keyed([ Here EXCEPT !.login = g ])
<1>1. Here \in Row
  BY InvParts
<1>2. SameBut([ Here EXCEPT !.login = g ], Here)
  BY <1>1, PairedSame
<1>3. LET r == [ Here EXCEPT !.login = g ] IN
        /\ r.flow = Here.flow /\ r.certified = Here.certified /\ r.openedIn = Here.openedIn
        /\ r.askedFrom = Here.askedFrom /\ r.logout = Here.logout
        /\ r.ended = Here.ended /\ r.link = Here.link /\ r.conf = Here.conf
  BY <1>1 DEF Row
<1>4. Keyed(Here)
  BY HereKeyed
<1>. QED  BY <1>1, <1>2, <1>3, <1>4, KeyedSame

\* A session found by its LUID is one of the host's, and of that LUID.
LEMMA SessionIsTied ==
  ASSUME EInv, n \in DOMAIN given, NEW luid
  PROVE  TiedTo(SessionOf(evs, given[n].host, luid), n, luid)
<1> DEFINE ours == { q \in DOMAIN evs : evs[q].obj = "user_session"
                       /\ evs[q].host = given[n].host /\ evs[q].luid = luid }
           tier == IF luid \in WellKnownLuids THEN "heuristic" ELSE "definitive"
<1>1. SessionOf(evs, given[n].host, luid) =
        IF luid \in NullLuids \cup {Blank} \/ ours = {} THEN Blank
        ELSE << evs[Latest(ours)].guid, tier >>
  BY DEF SessionOf
<1>2. CASE SessionOf(evs, given[n].host, luid) = Blank
  BY <1>2 DEF TiedTo
<1>3. CASE ours # {} /\ SessionOf(evs, given[n].host, luid) = << evs[Latest(ours)].guid, tier >>
  <2>1. Latest(ours) \in ours
    <3>1. ours \subseteq 0 .. Len(evs) /\ Len(evs) \in Nat
      BY InvParts
    <3>. QED  BY <1>3, <3>1, LatestIn
  <2>2. PICK q \in DOMAIN given : /\ q = Latest(ours) /\ evs[q].obj = "user_session"
                                  /\ evs[q].host = given[n].host /\ evs[q].luid = luid
    BY <2>1, InvParts
  <2>3. given[q].obj = "user_session" /\ given[q].host = given[n].host
        /\ given[q].luid = luid /\ given[q].guid = evs[q].guid
    BY <2>2, InvParts, SameRowsParts
  <2>4. tier = "definitive" => luid \notin WellKnownLuids
    OBVIOUS
  <2>. HIDE DEF tier, ours
  <2>5. << evs[q].guid, tier >>[1] = evs[q].guid /\ << evs[q].guid, tier >>[2] = tier
    OBVIOUS
  <2>. QED  BY <1>3, <2>2, <2>3, <2>4, <2>5 DEF TiedTo
<1>. QED  BY <1>1, <1>2, <1>3

LEMMA AuthKeyed ==
  ASSUME EInv, Waiting, n \in DOMAIN given, given[n].obj = "authentication"
  PROVE  Keyed(AuthLinked(evs, Here))
<1> DEFINE opened == SessionOf(evs, Here.host, Here.opened)
           asked == SessionOf(evs, Here.host, Here.subject)
           o == IF Here.act = "success" /\ opened # Blank THEN opened ELSE Here.openedIn
           a == IF asked # Blank THEN asked ELSE Here.askedFrom
<1>1. /\ Here \in Row /\ evs \in Seq(Row)
      /\ Here.host = given[n].host /\ Here.act = given[n].act
      /\ Here.opened = given[n].opened /\ Here.subject = given[n].subject
  BY InvParts, EvidenceParts
<1>2. AuthLinked(evs, Here) = [ Here EXCEPT !.openedIn = o, !.askedFrom = a ]
  BY <1>1 DEF AuthLinked, Row
<1>3. Here.openedIn = Blank /\ Here.askedFrom = Blank /\ Here.certified = given[n].certified
  BY InvParts DEF Waiting, Here
<1>4. TiedTo(o, n, given[n].opened) /\ TiedTo(a, n, given[n].subject)
  BY <1>1, <1>3, SessionIsTied DEF TiedTo
<1>5. given[n].act = "failure" => o = Blank
  BY <1>1, <1>3
<1>. HIDE DEF o, a
<1>6. PICK r : r = AuthLinked(evs, Here)
  OBVIOUS
<1>7. /\ r.flow = Here.flow /\ r.certified = Here.certified /\ r.openedIn = o
      /\ r.askedFrom = a /\ r.logout = Here.logout
      /\ r.ended = Here.ended /\ r.link = Here.link /\ r.conf = Here.conf
  BY <1>1, <1>2, <1>6 DEF Row
<1>8. SameBut(r, Here) /\ r \in Row
  BY <1>1, <1>6, AuthLinkedSame DEF SameBut
<1>9. Before(r, Here)
  BY <1>8, SameIsBefore
<1>10. SessionTied(r, n)
  BY <1>4, <1>5, <1>7 DEF SessionTied
<1>11. ConnectionTied(r, n)
  BY <1>3, <1>7 DEF ConnectionTied
<1>12. \A c \in Cols : r.col[c] = given[n].col[c]
  BY <1>8, InvParts DEF SameBut
<1>13. Keyed(r)
  BY <1>7, <1>8, <1>9, <1>10, <1>11, <1>12 DEF Keyed
<1>. QED  BY <1>6, <1>13

\* _flow_by_uid gives a row the flows of its connection.
LEMMA FlowsAreConnected ==
  ASSUME EInv, n \in DOMAIN given, given[n].obj \in {"http", "file"}
  PROVE  FlowsOf(Here.host, Here.uid) = { q \in DOMAIN given : Connected(q, n) }
<1>1. Here.host = given[n].host /\ Here.uid = given[n].uid
  BY InvParts, EvidenceParts
<1>2. ASSUME NEW q \in DOMAIN given
      PROVE  Connected(q, n) <=> /\ given[q].obj = "flow" /\ given[q].host = given[n].host
                                 /\ given[n].uid # Blank
                                 /\ Own(given[q], given[q].uid) = given[n].uid
  BY DEF Connected
<1>. QED  BY <1>1, <1>2 DEF FlowsOf

LEMMA SpokenKeyed ==
  ASSUME EInv, Waiting, n \in DOMAIN given, given[n].obj \in {"http", "file"}
  PROVE  Keyed(Spoken(evs, Here))
<1> DEFINE by == FlowsOf(Here.host, Here.uid)
           q == Earliest(by)
           s == [ Here EXCEPT !.flow = evs[q].guid ]
<1>1. /\ Here \in Row /\ evs \in Seq(Row) /\ given \in Seq(Row)
      /\ DOMAIN evs = DOMAIN given /\ Here.col = given[n].col /\ n \in Nat
  BY InvParts
<1>2. /\ Here.flow = given[n].flow /\ Here.certified = given[n].certified
      /\ Here.openedIn = Blank /\ Here.askedFrom = Blank
  BY <1>1 DEF Waiting, Here
<1>3. PICK r : r = Spoken(evs, Here)
  OBVIOUS
<1>4. Before(r, Here) /\ r \in Row
  BY <1>1, <1>3, SpokenBefore DEF Before, Keeps
<1>5. by = { x \in DOMAIN given : Connected(x, n) }
  BY FlowsAreConnected
<1> DEFINE guids == { given[x].guid : x \in { x \in DOMAIN given : Connected(x, n) } }
<1>6. CASE by = {}
  <2>1. r = Here
    BY <1>3, <1>6 DEF Spoken
  <2>2. guids = {}
    BY <1>5, <1>6
  <2>. HIDE DEF guids
  <2>3. IF guids = {} THEN r.flow = given[n].flow ELSE r.flow \in guids
    BY <1>2, <2>1, <2>2
  <2>. USE DEF guids
  <2>4. ConnectionTied(r, n)
    BY <1>2, <2>1, <2>3 DEF ConnectionTied
  <2>5. SessionTied(r, n)
    BY <1>2, <2>1 DEF SessionTied, TiedTo
  <2>6. Keyed(r)
    BY <1>1, <1>4, <2>1, <2>4, <2>5 DEF Keyed
  <2>. QED  BY <1>3, <2>6
<1>7. CASE by # {}
  <2>1. q \in by
    <3>1. by \subseteq Nat
      BY <1>1 DEF FlowsOf
    <3>. QED  BY <1>7, <3>1, EarliestIn
  <2>2. q \in DOMAIN given /\ Connected(q, n) /\ evs[q] \in Row
    BY <1>1, <1>5, <2>1
  <2>3. evs[q].guid = given[q].guid /\ evs[q].guid \in Link(Guids)
    BY <2>2, InvParts, SameRowsParts DEF Row
  <2>4. r = Fill(s, FlowInherits, evs[q])
    BY <1>3, <1>7 DEF Spoken
  <2>5. s \in Row
    BY <1>1, <2>3, FlowSame DEF SameBut
  <2>6. /\ s.flow = given[q].guid /\ s.certified = Here.certified /\ s.openedIn = Here.openedIn
        /\ s.askedFrom = Here.askedFrom /\ s.logout = Here.logout /\ s.ended = Here.ended
        /\ s.link = Here.link /\ s.conf = Here.conf /\ s.col = Here.col
    BY <1>1, <2>3 DEF Row
  <2>. HIDE DEF s, q
  <2>7. /\ Ties(r) = Ties(s)
        /\ \A c \in Cols : r.col[c] =
              IF c \in DOMAIN FlowInherits \cap FieldsOf[s.obj] /\ s.col[c] = Blank
              THEN evs[q].col[FlowInherits[c]] ELSE s.col[c]
    BY <2>2, <2>4, <2>5, FillSays
  <2>8. /\ r.flow = given[q].guid /\ r.certified = Here.certified /\ r.openedIn = Here.openedIn
        /\ r.askedFrom = Here.askedFrom /\ r.logout = Here.logout /\ r.ended = Here.ended
        /\ r.link = Here.link /\ r.conf = Here.conf
    BY <2>6, <2>7, TiesParts
  <2>9. \A c \in Cols : \/ r.col[c] = given[n].col[c]
                        \/ given[n].col[c] = Blank /\ Heard(n, c, r.col[c])
    <3>. SUFFICES ASSUME NEW c \in Cols, r.col[c] # given[n].col[c]
                  PROVE  given[n].col[c] = Blank /\ Heard(n, c, r.col[c])
      OBVIOUS
    <3>1. /\ given[n].col[c] = Blank /\ c \in DOMAIN FlowInherits
          /\ r.col[c] = evs[q].col[FlowInherits[c]]
      BY <1>1, <2>6, <2>7
    <3>. QED  BY <2>2, <3>1 DEF Heard
  <2>10. given[q].guid \in guids
    BY <2>2
  <2>11. guids # {} /\ r.flow \in guids
    BY <2>8, <2>10
  <2>. HIDE DEF guids
  <2>12. IF guids = {} THEN r.flow = given[n].flow ELSE r.flow \in guids
    BY <2>11
  <2>. USE DEF guids
  <2>13. ConnectionTied(r, n)
    BY <1>2, <2>8, <2>12 DEF ConnectionTied
  <2>14. SessionTied(r, n)
    BY <1>2, <2>8 DEF SessionTied, TiedTo
  <2>15. Keyed(r)
    BY <1>4, <2>8, <2>9, <2>13, <2>14 DEF Keyed
  <2>. QED  BY <1>3, <2>15
<1>. QED  BY <1>6, <1>7

LEMMA IfBlankSays ==
  ASSUME NEW r \in Row, NEW c \in Cols, NEW v
  PROVE  /\ Ties(IfBlank(r, c, v)) = Ties(r)
         /\ \A k \in Cols : IfBlank(r, c, v).col[k] =
              IF k = c /\ r.col[c] = Blank THEN v ELSE r.col[k]
<1>1. CASE r.col[c] # Blank
  BY <1>1 DEF IfBlank
<1>2. CASE r.col[c] = Blank
  <2> DEFINE col == [ r.col EXCEPT ![c] = v ]
  <2>1. IfBlank(r, c, v) = [ r EXCEPT !.col = col ]
    BY <1>2 DEF IfBlank, Row
  <2>2. \A k \in Cols : col[k] = IF k = c THEN v ELSE r.col[k]
    BY DEF Row
  <2>. HIDE DEF col
  <2>3. [ r EXCEPT !.col = col ].col = col /\ Ties([ r EXCEPT !.col = col ]) = Ties(r)
    BY DEF Row, Ties
  <2>. QED  BY <1>2, <2>1, <2>2, <2>3
<1>. QED  BY <1>1, <1>2

\* What the first of some rows said, one of them did say.
LEMMA FirstSaidBy ==
  ASSUME given \in Seq(Row), NEW by, by \subseteq DOMAIN given, NEW c
  PROVE  /\ by = {} => FirstSaid(by, c) = Blank
         /\ by # {} => \E q \in by : FirstSaid(by, c) = given[q].col[c]
<1>1. by # {} => Earliest(by) \in by
  <2>1. by \subseteq Nat
    OBVIOUS
  <2>. QED  BY <2>1, EarliestIn
<1>. QED  BY <1>1 DEF FirstSaid

\* The domain an address was resolved to: named by a row that answers for it,
\* and named as soon as there is one.
LEMMA ResolvedSays ==
  ASSUME EInv, n \in DOMAIN given, NEW c \in Cols,
         NEW d, d = FirstSaid(Resolving(Here.host, given[n].col[c]), "fqdn")
  PROVE  /\ d # Blank => \E q \in DOMAIN given :
                           Answering(q, n, given[n].col[c]) /\ d = given[q].col["fqdn"]
         /\ (\E q \in DOMAIN given : Answering(q, n, given[n].col[c])) => d # Blank
<1> DEFINE ip == given[n].col[c]
           by == Resolving(Here.host, ip)
<1>1. given \in Seq(Row) /\ Here.host = given[n].host
  BY InvParts, EvidenceParts
<1>2. \A q \in DOMAIN given : Blank \notin given[q].answers
  <2>. TAKE q \in DOMAIN given
  <2>1. given[q] \in Row
    BY <1>1
  <2>2. given[q].answers \subseteq Values
    BY <2>1 DEF Row, Addresses
  <2>. QED  BY <2>2, EnrichAssumption
<1>3. \A q \in DOMAIN given : q \in by <=> Answering(q, n, ip)
  BY <1>1, <1>2 DEF Resolving, Answering
<1>4. by \subseteq DOMAIN given
  BY DEF Resolving
<1>5. /\ by = {} => d = Blank
      /\ by # {} => \E q \in by : d = given[q].col["fqdn"]
  BY <1>1, <1>4, FirstSaidBy
<1>6. \A q \in DOMAIN given : Answering(q, n, ip) => given[q].col["fqdn"] # Blank
  BY DEF Answering
<1>. HIDE DEF by, ip
<1>7. /\ d # Blank => \E q \in DOMAIN given : Answering(q, n, ip) /\ d = given[q].col["fqdn"]
      /\ (\E q \in DOMAIN given : Answering(q, n, ip)) => d # Blank
  BY <1>3, <1>4, <1>5, <1>6
<1>. QED  BY <1>7 DEF ip

\* ... and the server its own connection asked for.
LEMMA HandshakeSays ==
  ASSUME EInv, n \in DOMAIN given, given[n].obj = "flow", given \in Inputs,
         NEW i, i = FirstSaid(Naming(Here.host, Own(Here, Here.uid)), "dest_fqdn")
  PROVE  /\ i # Blank => \E q \in DOMAIN given :
                           Handshake(q, n) /\ i = given[q].col["dest_fqdn"]
         /\ (\E q \in DOMAIN given : Handshake(q, n)) => i # Blank
<1> DEFINE by == Naming(Here.host, Own(Here, Here.uid))
<1>1. given \in Seq(Row) /\ Here.host = given[n].host
      /\ Own(Here, Here.uid) = Own(given[n], given[n].uid)
  BY InvParts, EvidenceParts DEF Own
<1>2. \A q \in DOMAIN given : given[q].map = "zeek_ssl" => given[q].obj = "flow"
  BY FoldedRows
<1>3. \A q \in DOMAIN given : q \in by <=> Handshake(q, n)
  BY <1>1, <1>2 DEF Naming, Handshake, Connected
<1>4. by \subseteq DOMAIN given
  BY DEF Naming
<1>5. /\ by = {} => i = Blank
      /\ by # {} => \E q \in by : i = given[q].col["dest_fqdn"]
  BY <1>1, <1>4, FirstSaidBy
<1>6. \A q \in DOMAIN given : Handshake(q, n) => given[q].col["dest_fqdn"] # Blank
  BY DEF Handshake
<1>. HIDE DEF by
<1>. QED  BY <1>3, <1>4, <1>5, <1>6

LEMMA LabelledKeyed ==
  ASSUME EInv, Waiting, n \in DOMAIN given, given[n].obj = "flow", given \in Inputs
  PROVE  /\ Ties(Labelled(Here)) = Ties(Here)
         /\ \A c \in Cols : \/ Labelled(Here).col[c] = given[n].col[c]
                            \/ given[n].col[c] = Blank /\ Heard(n, c, Labelled(Here).col[c])
         /\ (\E q \in DOMAIN given :
               Answering(q, n, given[n].col["dest_ip"]) \/ Handshake(q, n))
             => Labelled(Here).col["dest_fqdn"] # Blank
<1>1. {"dest_fqdn", "src_fqdn", "dest_ip", "src_ip", "fqdn"} \subseteq Cols
  BY EnrichAssumption
<1>2. Here \in Row /\ Here.col = given[n].col /\ given \in Seq(Row)
  BY InvParts
<1>3. PICK d : d = FirstSaid(Resolving(Here.host, given[n].col["dest_ip"]), "fqdn")
  OBVIOUS
<1>4. PICK s : s = FirstSaid(Resolving(Here.host, given[n].col["src_ip"]), "fqdn")
  OBVIOUS
<1>5. PICK i : i = FirstSaid(Naming(Here.host, Own(Here, Here.uid)), "dest_fqdn")
  OBVIOUS
<1>6. /\ d # Blank => \E q \in DOMAIN given :
            Answering(q, n, given[n].col["dest_ip"]) /\ d = given[q].col["fqdn"]
      /\ (\E q \in DOMAIN given : Answering(q, n, given[n].col["dest_ip"])) => d # Blank
  BY <1>1, <1>3, ResolvedSays
<1>7. s # Blank => \E q \in DOMAIN given :
            Answering(q, n, given[n].col["src_ip"]) /\ s = given[q].col["fqdn"]
  BY <1>1, <1>4, ResolvedSays
<1>8. /\ i # Blank => \E q \in DOMAIN given :
            Handshake(q, n) /\ i = given[q].col["dest_fqdn"]
      /\ (\E q \in DOMAIN given : Handshake(q, n)) => i # Blank
  BY <1>5, HandshakeSays
<1>9. d \in Link(Values) /\ s \in Link(Values) /\ i \in Link(Values)
  <2>1. /\ Resolving(Here.host, given[n].col["dest_ip"]) \subseteq DOMAIN given
        /\ Resolving(Here.host, given[n].col["src_ip"]) \subseteq DOMAIN given
        /\ Naming(Here.host, Own(Here, Here.uid)) \subseteq DOMAIN given
    BY DEF Resolving, Naming
  <2>. QED  BY <1>1, <1>2, <1>3, <1>4, <1>5, <2>1, FirstSaidType
<1> DEFINE byDest == IfBlank(Here, "dest_fqdn", d)
           bySrc  == IfBlank(byDest, "src_fqdn", s)
           l      == IfBlank(bySrc, "dest_fqdn", i)
<1>10. Labelled(Here) = l
  BY <1>2, <1>3, <1>4, <1>5 DEF Labelled
<1>11. byDest \in Row
  BY <1>2, <1>9, IfBlankBefore DEF Before, Keeps
<1>12. /\ Ties(byDest) = Ties(Here)
       /\ \A k \in Cols : byDest.col[k] =
            IF k = "dest_fqdn" /\ Here.col[k] = Blank THEN d ELSE Here.col[k]
  BY <1>1, <1>2, IfBlankSays
<1>. HIDE DEF byDest
<1>13. bySrc \in Row
  BY <1>9, <1>11, IfBlankBefore DEF Before, Keeps
<1>14. /\ Ties(bySrc) = Ties(byDest)
       /\ \A k \in Cols : bySrc.col[k] =
            IF k = "src_fqdn" /\ byDest.col[k] = Blank THEN s ELSE byDest.col[k]
  BY <1>1, <1>11, IfBlankSays
<1>. HIDE DEF bySrc
<1>15. /\ Ties(l) = Ties(bySrc)
       /\ \A k \in Cols : l.col[k] =
            IF k = "dest_fqdn" /\ bySrc.col[k] = Blank THEN i ELSE bySrc.col[k]
  BY <1>1, <1>13, IfBlankSays
<1>. HIDE DEF l
<1>16. /\ \A k \in Cols \ {"dest_fqdn", "src_fqdn"} : l.col[k] = given[n].col[k]
       /\ given[n].col["dest_fqdn"] # Blank => l.col["dest_fqdn"] = given[n].col["dest_fqdn"]
       /\ given[n].col["src_fqdn"] # Blank => l.col["src_fqdn"] = given[n].col["src_fqdn"]
       /\ given[n].col["dest_fqdn"] = Blank =>
            l.col["dest_fqdn"] = IF d # Blank THEN d ELSE i
       /\ given[n].col["src_fqdn"] = Blank => l.col["src_fqdn"] = s
  BY <1>1, <1>2, <1>12, <1>14, <1>15
<1>17. d # Blank => Heard(n, "dest_fqdn", d)
  BY <1>6 DEF Heard
<1>18. s # Blank => Heard(n, "src_fqdn", s)
  BY <1>7 DEF Heard
<1>19. i # Blank => Heard(n, "dest_fqdn", i)
  BY <1>8 DEF Heard
<1>20. \A c \in Cols : \/ l.col[c] = given[n].col[c]
                       \/ given[n].col[c] = Blank /\ Heard(n, c, l.col[c])
  <2>. TAKE c \in Cols
  <2>1. CASE c \notin {"dest_fqdn", "src_fqdn"}
    BY <1>16, <2>1
  <2>2. CASE c = "dest_fqdn"
    <3>. SUFFICES ASSUME given[n].col[c] = Blank, l.col[c] # Blank PROVE Heard(n, c, l.col[c])
      BY <1>16, <2>2
    <3>1. (l.col[c] = d /\ d # Blank) \/ (l.col[c] = i /\ i # Blank)
      BY <1>16, <2>2
    <3>. QED  BY <1>17, <1>19, <2>2, <3>1
  <2>3. CASE c = "src_fqdn"
    BY <1>16, <1>18, <2>3
  <2>. QED  BY <2>1, <2>2, <2>3
<1>21. (\E q \in DOMAIN given :
          Answering(q, n, given[n].col["dest_ip"]) \/ Handshake(q, n)) => l.col["dest_fqdn"] # Blank
  BY <1>6, <1>8, <1>16
<1>. QED  BY <1>10, <1>12, <1>14, <1>15, <1>20, <1>21

\* _stamp_flow_cert: a certificate of the flow's own chain.
LEMMA CertifiedSays ==
  ASSUME NEW r \in Row, given \in Seq(Row)
  PROVE  /\ LET c == Certified(r) IN
              /\ c.link = r.link /\ c.conf = r.conf /\ c.flow = r.flow
              /\ c.openedIn = r.openedIn /\ c.askedFrom = r.askedFrom
              /\ c.logout = r.logout /\ c.ended = r.ended
         /\ Certified(r).certified # r.certified =>
              \E q \in DOMAIN given, i \in DOMAIN r.chain :
                /\ given[q].certSubject = Certified(r).certified
                /\ Own(given[q], given[q].sha) = r.chain[i]
<1> DEFINE known == { k \in DOMAIN r.chain : Certifying(r.chain[k]) # {} }
           by == Certifying(r.chain[Earliest(known)])
           v == given[Earliest(by)].certSubject
           s == [ r EXCEPT !.certified = v ]
<1>1. CASE Certified(r) = r
  BY <1>1
<1>2. CASE known # {} /\ Certified(r) = s
  <2>1. r.chain \in Seq(Guids)
    BY DEF Row, Chains
  <2>2. known \subseteq Nat
    BY <2>1
  <2>3. Earliest(known) \in known
    BY <1>2, <2>2, EarliestIn
  <2>4. by # {} /\ by \subseteq DOMAIN given
    BY <2>3 DEF Certifying
  <2>5. Earliest(by) \in by
    <3>. HIDE DEF by
    <3>1. DOMAIN given \subseteq Nat
      OBVIOUS
    <3>2. by \subseteq Nat
      BY <2>4, <3>1
    <3>. QED  BY <2>4, <3>2, EarliestIn
  <2>6. Earliest(by) \in DOMAIN given
        /\ Own(given[Earliest(by)], given[Earliest(by)].sha) = r.chain[Earliest(known)]
    BY <2>5 DEF Certifying
  <2>7. PICK w : w = v
    OBVIOUS
  <2>8. \E q \in DOMAIN given, i \in DOMAIN r.chain :
          given[q].certSubject = w /\ Own(given[q], given[q].sha) = r.chain[i]
    BY <2>3, <2>6, <2>7
  <2>. HIDE DEF known, by, v
  <2>9. /\ s.link = r.link /\ s.conf = r.conf /\ s.flow = r.flow
        /\ s.openedIn = r.openedIn /\ s.askedFrom = r.askedFrom
        /\ s.logout = r.logout /\ s.ended = r.ended /\ s.certified = w
    BY <2>7 DEF Row
  <2>. HIDE DEF s
  <2>. QED  BY <1>2, <2>8, <2>9
<1>. QED  BY <1>1, <1>2 DEF Certified

LEMMA FlowKeyed ==
  ASSUME EInv, Waiting, n \in DOMAIN given, given[n].obj = "flow", given \in Inputs
  PROVE  Keyed(Certified(Labelled(Here)))
<1>1. PICK l : l = Labelled(Here)
  OBVIOUS
<1>2. PICK b : b = Certified(l)
  OBVIOUS
<1>3. Here \in Row /\ given \in Seq(Row) /\ Evidence(Here) = Evidence(given[n]) /\ n \in Nat
  BY InvParts
<1>4. Before(l, Here) /\ l \in Row
  BY <1>1, <1>3, LabelledBefore DEF Before, Keeps
<1>5. SameBut(b, l) /\ b \in Row
  BY <1>2, <1>3, <1>4, CertifiedSame DEF SameBut
<1>6. Before(b, Here)
  BY <1>3, <1>4, <1>5, SameIsBefore, BeforeTrans
<1>7. /\ Ties(l) = Ties(Here)
      /\ \A c \in Cols : \/ l.col[c] = given[n].col[c]
                         \/ given[n].col[c] = Blank /\ Heard(n, c, l.col[c])
      /\ (\E q \in DOMAIN given :
            Answering(q, n, given[n].col["dest_ip"]) \/ Handshake(q, n))
          => l.col["dest_fqdn"] # Blank
  BY <1>1, LabelledKeyed
<1>8. /\ l.link = Here.link /\ l.conf = Here.conf /\ l.flow = Here.flow
      /\ l.certified = Here.certified /\ l.openedIn = Here.openedIn
      /\ l.askedFrom = Here.askedFrom /\ l.logout = Here.logout /\ l.ended = Here.ended
  BY <1>7, TiesParts
<1>9. /\ b.link = l.link /\ b.conf = l.conf /\ b.flow = l.flow
      /\ b.openedIn = l.openedIn /\ b.askedFrom = l.askedFrom
      /\ b.logout = l.logout /\ b.ended = l.ended
      /\ b.certified # l.certified =>
           \E q \in DOMAIN given, i \in DOMAIN l.chain :
             given[q].certSubject = b.certified /\ Own(given[q], given[q].sha) = l.chain[i]
  BY <1>2, <1>3, <1>4, CertifiedSays
<1>10. l.chain = given[n].chain
  BY <1>3, <1>4 DEF Before, Keeps, Evidence
<1>11. /\ Here.certified = given[n].certified /\ Here.openedIn = Blank
       /\ Here.askedFrom = Blank
  BY <1>3 DEF Waiting, Here
<1>12. SessionTied(b, n)
  BY <1>8, <1>9, <1>11 DEF SessionTied, TiedTo
<1>13. b.col = l.col
  BY <1>5 DEF SameBut
<1>14. ConnectionTied(b, n)
  BY <1>7, <1>8, <1>9, <1>10, <1>11, <1>13 DEF ConnectionTied
<1>15. Keyed(b)
  BY <1>5, <1>6, <1>7, <1>8, <1>9, <1>12, <1>13, <1>14 DEF Keyed
<1>. QED  BY <1>1, <1>2, <1>15

-----------------------------------------------------------------------------
(* A step of the pass, as all of its actions take it: the row it is at is    *)
(* left tied and filled, the others keep what they have, but for the end of  *)
(* the login that a logout closes.                                           *)

SameTies(r, s) ==
  /\ r.col = s.col /\ r.link = s.link /\ r.conf = s.conf /\ r.flow = s.flow
  /\ r.certified = s.certified /\ r.openedIn = s.openedIn
  /\ r.askedFrom = s.askedFrom /\ r.login = s.login

SameEnd(r, s) == r.logout = s.logout /\ r.ended = s.ended

\* The login a logout closes, and what both of them say of it.
Closed(q, b) ==
  /\ q \in DOMAIN given \ {n} /\ given[q].host = given[n].host
  /\ evs'[q].logout = given[n].guid /\ evs'[q].ended = given[n].time
  /\ b.login = given[q].guid

VisitBy(b) ==
  /\ Keyed(b)
  /\ n \in DOMAIN given /\ n' = n + 1 /\ given' = given
  /\ Left(evs'[n], b)
  /\ \A p \in DOMAIN given \ {n} : SameTies(evs'[p], evs[p])
  /\ \/ \A p \in DOMAIN given \ {n} : SameEnd(evs'[p], evs[p])
     \/ \E q : Closed(q, b) /\ \A p \in DOMAIN given \ {n, q} : SameEnd(evs'[p], evs[p])

LEMMA LeaveVisits ==
  ASSUME EInv, n \in DOMAIN given, n' = n + 1, given' = given,
         NEW b, Keyed(b), NEW r, Leave(r), Left(r, b)
  PROVE  VisitBy(b)
<1>1. DOMAIN evs = DOMAIN given /\ evs' = [ evs EXCEPT ![n] = r ] /\ evs \in Seq(Row)
  BY InvParts DEF Leave
<1>2. evs'[n] = r /\ \A p \in DOMAIN given \ {n} : evs'[p] = evs[p]
  BY <1>1
<1>3. \A p \in DOMAIN given \ {n} : SameTies(evs'[p], evs[p]) /\ SameEnd(evs'[p], evs[p])
  BY <1>2 DEF SameTies, SameEnd
<1>. QED  BY <1>2, <1>3 DEF VisitBy

LEMMA PairVisits ==
  ASSUME EInv, Waiting, PairLogout
  PROVE  \E b : VisitBy(b)
<1> DEFINE q == Earliest(LoginsOf(evs, Here))
           closed == [ evs[q] EXCEPT !.logout = Here.guid, !.ended = Here.time ]
           r == Owned(evs, Canonical([ Here EXCEPT !.login = evs[q].guid ]))
<1>1. n \in DOMAIN given /\ n' = n + 1 /\ given' = given /\ IsLogout(Here)
      /\ Here.obj = "user_session"
  BY DEF PairLogout, Visit, EInv, TypeOK
<1>2. /\ evs \in Seq(Row) /\ DOMAIN evs = DOMAIN given /\ Here \in Row
      /\ Here.guid = given[n].guid /\ Here.time = given[n].time
      /\ Here.host = given[n].host /\ Here.obj = given[n].obj
  BY <1>1, InvParts, EvidenceParts
<1>3. q \in LoginsOf(evs, Here)
  <2>1. LoginsOf(evs, Here) \subseteq DOMAIN evs /\ LoginsOf(evs, Here) # {}
    BY DEF LoginsOf, PairLogout
  <2>2. LoginsOf(evs, Here) \subseteq Nat
    BY <1>2, <2>1
  <2>. QED  BY <2>1, <2>2, EarliestIn
<1>4. q \in DOMAIN given /\ evs[q].act \in {"login", "reconnect", "unlock"}
      /\ evs[q].host = Here.host /\ evs[q] \in Row
  <2>1. \A x \in LoginsOf(evs, Here) :
          x \in DOMAIN evs /\ evs[x].act \in {"login", "reconnect", "unlock"}
          /\ evs[x].host = Here.host
    BY DEF LoginsOf
  <2>. HIDE DEF q
  <2>. QED  BY <1>2, <1>3, <2>1
<1>5. q # n
  BY <1>1, <1>4 DEF IsLogout, Here
<1>6. given[q].host = given[n].host /\ given[q].guid = evs[q].guid
      /\ evs[q].guid \in Link(Guids)
  BY <1>1, <1>2, <1>4, InvParts, SameRowsParts DEF Row
<1>7. evs' = [ [ evs EXCEPT ![q] = closed ] EXCEPT ![n] = r ]
  <2>1. evs' = [ evs EXCEPT ![q].logout = Here.guid, ![q].ended = Here.time, ![n] = r ]
    BY DEF PairLogout
  <2>2. [ evs EXCEPT ![q].logout = Here.guid, ![q].ended = Here.time ]
          = [ evs EXCEPT ![q] = closed ]
    BY <1>2, <1>4
  <2>3. [ evs EXCEPT ![q].logout = Here.guid, ![q].ended = Here.time, ![n] = r ]
          = [ [ evs EXCEPT ![q].logout = Here.guid, ![q].ended = Here.time ] EXCEPT ![n] = r ]
    OBVIOUS
  <2>. QED  BY <2>1, <2>2, <2>3
<1>8. PICK b : b = [ Here EXCEPT !.login = evs[q].guid ]
  OBVIOUS
<1>9. Keyed(b) /\ b.login = evs[q].guid
  <2>1. Keyed([ Here EXCEPT !.login = evs[q].guid ])
    BY <1>1, <1>2, <1>6, PairedKeyed
  <2>2. [ Here EXCEPT !.login = evs[q].guid ].login = evs[q].guid
    BY <1>2 DEF Row
  <2>. QED  BY <1>8, <2>1, <2>2
<1>10. ~IsCreate(given[n])
  BY <1>1, <1>2 DEF IsCreate
<1>11. Left(r, b)
  <2>1. Left(Owned(evs, Canonical(b)), b)
    BY <1>1, <1>9, <1>10, OwnedLeaves DEF Keyed
  <2>. QED  BY <1>8, <2>1
<1>12. /\ closed.col = evs[q].col /\ closed.link = evs[q].link /\ closed.conf = evs[q].conf
       /\ closed.flow = evs[q].flow /\ closed.certified = evs[q].certified
       /\ closed.openedIn = evs[q].openedIn /\ closed.askedFrom = evs[q].askedFrom
       /\ closed.login = evs[q].login
       /\ closed.logout = Here.guid /\ closed.ended = Here.time
  BY <1>4 DEF Row
<1>. HIDE DEF q, closed, r
<1>13. evs'[n] = r /\ evs'[q] = closed /\ \A p \in DOMAIN given \ {n, q} : evs'[p] = evs[p]
  BY <1>1, <1>2, <1>4, <1>5, <1>7
<1>14. \A p \in DOMAIN given \ {n} : SameTies(evs'[p], evs[p])
  BY <1>12, <1>13 DEF SameTies
<1>15. \A p \in DOMAIN given \ {n, q} : SameEnd(evs'[p], evs[p])
  BY <1>13 DEF SameEnd
<1>16. Closed(q, b)
  BY <1>2, <1>4, <1>5, <1>6, <1>9, <1>12, <1>13 DEF Closed
<1>17. Left(evs'[n], b)
  BY <1>11, <1>13
<1>. QED  BY <1>1, <1>9, <1>14, <1>15, <1>16, <1>17 DEF VisitBy

LEMMA StepVisits ==
  ASSUME EInv, Waiting, given \in Inputs, Next
  PROVE  \E b : VisitBy(b)
<1>1. ASSUME NEW obj, Visit(obj)
      PROVE  /\ n \in DOMAIN given /\ n' = n + 1 /\ given' = given /\ Here \in Row
             /\ given[n].obj = Here.obj /\ Here.obj = obj
             /\ (IsCreate(given[n]) <=> IsCreate(Here)) /\ evs \in Seq(Row)
  <2>1. n \in DOMAIN given /\ n' = n + 1 /\ given' = given /\ Here.obj = obj
    BY <1>1 DEF Visit, EInv, TypeOK
  <2>. QED  BY <2>1, InvParts, EvidenceParts DEF IsCreate
<1>2. CASE EnrichCreate
  <2>1. Visit("process") /\ IsCreate(Here) /\ Leave(Parented(evs, Canonical(Here)))
    BY <1>2 DEF EnrichCreate
  <2>2. Keyed(Here)
    BY <1>1, <2>1, HereKeyed
  <2>3. Left(Parented(evs, Canonical(Here)), Here)
    BY <1>1, <2>1, <2>2, ParentedLeaves DEF Keyed
  <2>. QED  BY <1>1, <2>1, <2>2, <2>3, LeaveVisits
<1>3. CASE EnrichAuthentication
  <2> DEFINE b == AuthLinked(evs, Here)
  <2>1. Visit("authentication") /\ Leave(Owned(evs, Canonical(b)))
    BY <1>3 DEF EnrichAuthentication
  <2>2. Keyed(b)
    BY <1>1, <2>1, AuthKeyed
  <2>. HIDE DEF b
  <2>3. Left(Owned(evs, Canonical(b)), b)
    BY <1>1, <2>1, <2>2, OwnedLeaves DEF Keyed, IsCreate
  <2>. QED  BY <1>1, <2>1, <2>2, <2>3, LeaveVisits
<1>4. CASE EnrichFile
  <2> DEFINE b == Executed(evs, Spoken(evs, Here))
  <2>1. Visit("file") /\ Leave(Owned(evs, Canonical(b)))
    BY <1>4 DEF EnrichFile
  <2>2. Keyed(b)
    BY <1>1, <2>1, SpokenKeyed, ExecutedKeyed
  <2>. HIDE DEF b
  <2>3. Left(Owned(evs, Canonical(b)), b)
    BY <1>1, <2>1, <2>2, OwnedLeaves DEF Keyed, IsCreate
  <2>. QED  BY <1>1, <2>1, <2>2, <2>3, LeaveVisits
<1>5. CASE EnrichHttp
  <2> DEFINE b == Spoken(evs, Here)
  <2>1. Visit("http") /\ Leave(Owned(evs, Canonical(b)))
    BY <1>5 DEF EnrichHttp
  <2>2. Keyed(b)
    BY <1>1, <2>1, SpokenKeyed
  <2>. HIDE DEF b
  <2>3. Left(Owned(evs, Canonical(b)), b)
    BY <1>1, <2>1, <2>2, OwnedLeaves DEF Keyed, IsCreate
  <2>. QED  BY <1>1, <2>1, <2>2, <2>3, LeaveVisits
<1>6. CASE EnrichFlow
  <2> DEFINE b == Certified(Labelled(Here))
  <2>1. Visit("flow") /\ Leave(Owned(evs, Canonical(b)))
    BY <1>6 DEF EnrichFlow
  <2>2. Keyed(b)
    BY <1>1, <2>1, FlowKeyed
  <2>. HIDE DEF b
  <2>3. Left(Owned(evs, Canonical(b)), b)
    BY <1>1, <2>1, <2>2, OwnedLeaves DEF Keyed, IsCreate
  <2>. QED  BY <1>1, <2>1, <2>2, <2>3, LeaveVisits
<1>7. CASE EnrichThread
  <2> DEFINE r == Owned(evs, Canonical(Here))
  <2>1. Visit("thread") /\ Leave(Injected(evs, r))
    BY <1>7 DEF EnrichThread
  <2>2. Keyed(Here)
    BY <1>1, <2>1, HereKeyed
  <2>3. Left(r, Here)
    BY <1>1, <2>1, <2>2, OwnedLeaves DEF Keyed, IsCreate
  <2>4. r \in Row
    BY <1>1, <2>1, <2>2, VisitKept DEF Keyed, Kept
  <2>. HIDE DEF r
  <2>5. Left(Injected(evs, r), Here)
    BY <2>3, <2>4, InjectedLeaves
  <2>. QED  BY <1>1, <2>1, <2>2, <2>5, LeaveVisits
<1>8. CASE PairLogout
  BY <1>8, PairVisits
<1>9. CASE EnrichOther
  <2>1. /\ Visit(Here.obj) /\ ~IsCreate(Here) /\ Leave(Owned(evs, Canonical(Here)))
        /\ Here.obj \notin {"authentication", "file", "thread", "http", "flow"}
    BY <1>9 DEF EnrichOther
  <2>2. Keyed(Here)
    BY <1>1, <2>1, HereKeyed
  <2>3. Left(Owned(evs, Canonical(Here)), Here)
    BY <1>1, <2>1, <2>2, OwnedLeaves DEF Keyed
  <2>. QED  BY <1>1, <2>1, <2>2, <2>3, LeaveVisits
<1>. QED  BY <1>2, <1>3, <1>4, <1>5, <1>6, <1>7, <1>8, <1>9 DEF Next

-----------------------------------------------------------------------------
(* Where the values of filled columns come from.                             *)

\* What a row says when the pass reads it, it said in the evidence or says for
\* good: a column changes at most once, when the pass visits its row.
LEMMA SaidForGood ==
  ASSUME EInv, NEW b, VisitBy(b), NEW q \in DOMAIN given, NEW k \in Cols
  PROVE  evs[q].col[k] \in { given[q].col[k], evs'[q].col[k] }
<1>1. CASE q = n
  <2>1. evs[q].col = given[q].col
    BY <1>1, InvParts DEF VisitBy, Here
  <2>. QED  BY <2>1
<1>2. CASE q # n
  BY <1>2 DEF VisitBy, SameTies
<1>. QED  BY <1>1, <1>2

\* What process, account or row of the capture says what column c of row p says.
SaidBy(p, c) ==
  \/ c = "user" /\ SidOf(given[p]) \in DOMAIN Account
                /\ evs[p].col[c] = Account[SidOf(given[p])]
  \/ Heard(p, c, evs[p].col[c])
  \/ \E q \in DOMAIN given :
       /\ IsCreate(given[q]) /\ given[q].host = given[p].host
       /\ given[q].guid = evs[p].link
       /\ c \in DOMAIN Inherits(given[p]) \cap FieldsOf[given[p].obj]
       /\ evs[p].col[c] \in { given[q].col[Inherits(given[p])[c]],
                              evs[q].col[Inherits(given[p])[c]] }

LEMMA MadeUpMeans ==
  NothingMadeUp <=> \A p \in DOMAIN given, c \in Cols :
                      given[p].col[c] = Blank /\ evs[p].col[c] # Blank => SaidBy(p, c)
BY DEF NothingMadeUp, SaidBy

LEMMA InheritsTyped ==
  ASSUME NEW e, NEW c \in DOMAIN Inherits(e)
  PROVE  Inherits(e)[c] \in Cols
BY EnrichAssumption DEF Inherits, FromOwner

LEMMA HeardForGood ==
  ASSUME EInv, NEW b, VisitBy(b), NEW p \in DOMAIN given, NEW c \in Cols, NEW v,
         Heard(p, c, v)
  PROVE  Heard(p, c, v)'
<1>1. given' = given
  BY DEF VisitBy
<1>2. PICK q \in DOMAIN given :
        \/ /\ given[p].obj = "flow" /\ v = given[q].col["fqdn"]
           /\ \/ c = "dest_fqdn" /\ Answering(q, p, given[p].col["dest_ip"])
              \/ c = "src_fqdn" /\ Answering(q, p, given[p].col["src_ip"])
        \/ /\ given[p].obj = "flow" /\ v = given[q].col[c]
           /\ c = "dest_fqdn" /\ Handshake(q, p)
        \/ /\ given[p].obj \in {"http", "file"} /\ c \in DOMAIN FlowInherits /\ Connected(q, p)
           /\ v \in { given[q].col[FlowInherits[c]], evs[q].col[FlowInherits[c]] }
  BY DEF Heard
<1>3. /\ \A ip : Answering(q, p, ip)' <=> Answering(q, p, ip)
      /\ Connected(q, p)' <=> Connected(q, p)
      /\ Handshake(q, p)' <=> Handshake(q, p)
  BY <1>1 DEF Answering, Connected, Handshake
<1>4. c \in DOMAIN FlowInherits => FlowInherits[c] \in Cols
  BY EnrichAssumption
<1>5. c \in DOMAIN FlowInherits =>
        evs[q].col[FlowInherits[c]] \in { given[q].col[FlowInherits[c]], evs'[q].col[FlowInherits[c]] }
  BY <1>4, SaidForGood
<1>. QED  BY <1>1, <1>2, <1>3, <1>5 DEF Heard

LEMMA MadeUpStep ==
  ASSUME EInv, NothingMadeUp, NEW b, VisitBy(b)
  PROVE  NothingMadeUp'
<1>1. given' = given /\ n \in DOMAIN given
  BY DEF VisitBy
<1>2. ASSUME NEW p \in DOMAIN given, NEW c \in Cols,
             given[p].col[c] = Blank, evs'[p].col[c] # Blank
      PROVE  SaidBy(p, c)'
  <2>1. ASSUME NEW q \in DOMAIN given, IsCreate(given[q]), given[q].host = given[p].host,
               given[q].guid = evs'[p].link,
               c \in DOMAIN Inherits(given[p]) \cap FieldsOf[given[p].obj],
               evs'[p].col[c] \in { given[q].col[Inherits(given[p])[c]],
                                    evs[q].col[Inherits(given[p])[c]] }
        PROVE  SaidBy(p, c)'
    <3> DEFINE k == Inherits(given[p])[c]
    <3>1. k \in Cols
      BY <2>1, InheritsTyped
    <3>2. evs[q].col[k] \in { given[q].col[k], evs'[q].col[k] }
      BY <3>1, SaidForGood
    <3>3. evs'[p].col[c] \in { given[q].col[k], evs'[q].col[k] }
      BY <2>1, <3>2
    <3>. QED  BY <1>1, <2>1, <3>3 DEF SaidBy, Inherits
  <2>2. CASE p # n
    <3>1. evs'[p].col = evs[p].col /\ evs'[p].link = evs[p].link
      BY <2>2 DEF VisitBy, SameTies
    <3>2. SaidBy(p, c)
      BY <1>2, <3>1, MadeUpMeans
    <3>3. CASE Heard(p, c, evs[p].col[c])
      <4>1. PICK v : v = evs[p].col[c]
        OBVIOUS
      <4>2. Heard(p, c, v)'
        BY <3>3, <4>1, HeardForGood
      <4>3. v = evs'[p].col[c]
        BY <3>1, <4>1
      <4>. QED  BY <4>2, <4>3 DEF SaidBy
    <3>4. CASE c = "user" /\ SidOf(given[p]) \in DOMAIN Account
               /\ evs[p].col[c] = Account[SidOf(given[p])]
      BY <1>1, <3>1, <3>4 DEF SaidBy
    <3>. QED  BY <2>1, <3>1, <3>2, <3>3, <3>4 DEF SaidBy
  <2>3. CASE p = n
    <3>1. PICK r : r = evs'[n]
      OBVIOUS
    <3>2. Left(r, b) /\ Keyed(b)
      BY <3>1 DEF VisitBy
    <3>3. CASE r.col[c] = b.col[c]
      <4>1. Heard(p, c, b.col[c])
        BY <1>2, <2>3, <3>1, <3>2, <3>3 DEF Keyed
      <4>2. PICK v : v = b.col[c]
        OBVIOUS
      <4>3. Heard(p, c, v)'
        BY <4>1, <4>2, HeardForGood
      <4>4. v = evs'[p].col[c]
        BY <2>3, <3>1, <3>3, <4>2
      <4>. QED  BY <4>3, <4>4 DEF SaidBy
    <3>4. CASE Accounted(r, given[n], c)
      BY <1>1, <2>3, <3>1, <3>4 DEF Accounted, SaidBy
    <3>5. CASE /\ IsOwned(given[n])
               /\ c \in DOMAIN Inherits(given[n]) \cap FieldsOf[given[n].obj]
               /\ r.col[c] = evs[OwnerAt].col[Inherits(given[n])[c]]
      <4>1. /\ OwnerAt \in DOMAIN given /\ IsCreate(given[OwnerAt])
            /\ given[OwnerAt].host = given[n].host
        BY <1>1, <3>5, InvParts, ReferredIsCreate DEF IsOwned, OwnerAt
      <4>2. r.link = given[OwnerAt].guid
        BY <3>2, <3>5 DEF Left
      <4>. QED  BY <2>1, <2>3, <3>1, <3>5, <4>1, <4>2
    <3>. QED  BY <3>2, <3>3, <3>4, <3>5 DEF Left
  <2>. QED  BY <2>2, <2>3
<1>3. (\A p \in DOMAIN given, c \in Cols :
         given[p].col[c] = Blank /\ evs[p].col[c] # Blank => SaidBy(p, c))'
  BY <1>1, <1>2
<1>. QED  BY <1>3, MadeUpMeans DEF NothingMadeUp, SaidBy

-----------------------------------------------------------------------------
(* Sessions.                                                                 *)

LEMMA SessionsStep ==
  ASSUME EInv, SessionsAgree, NEW b, VisitBy(b)
  PROVE  SessionsAgree'
<1>1. given' = given /\ n \in DOMAIN given /\ n' = n + 1 /\ n \in Nat /\ n >= 1
  BY DEF VisitBy, EInv, TypeOK
<1>2. \A p, link, luid : TiedTo(link, p, luid)' <=> TiedTo(link, p, luid)
  BY <1>1 DEF TiedTo
<1>3. /\ Keyed(b) /\ evs'[n].openedIn = b.openedIn /\ evs'[n].askedFrom = b.askedFrom
      /\ evs'[n].login = b.login /\ evs'[n].logout = b.logout /\ evs'[n].ended = b.ended
  BY DEF VisitBy, Left
<1>4. ASSUME NEW p \in DOMAIN given
      PROVE  /\ TiedTo(evs'[p].openedIn, p, given[p].opened)
             /\ TiedTo(evs'[p].askedFrom, p, given[p].subject)
             /\ given[p].act = "failure" => evs'[p].openedIn = Blank
  <2>1. CASE p = n
    BY <1>3, <2>1 DEF Keyed, SessionTied
  <2>2. CASE p # n
    <3>1. evs'[p].openedIn = evs[p].openedIn /\ evs'[p].askedFrom = evs[p].askedFrom
      BY <2>2 DEF VisitBy, SameTies
    <3>. QED  BY <3>1 DEF SessionsAgree, SessionsNamed
  <2>. QED  BY <2>1, <2>2
<1>5. SessionsNamed'
  <2>1. PICK rows : rows = evs'
    OBVIOUS
  <2>2. \A p \in DOMAIN given :
          /\ TiedTo(rows[p].openedIn, p, given[p].opened)'
          /\ TiedTo(rows[p].askedFrom, p, given[p].subject)'
          /\ given[p].act = "failure" => rows[p].openedIn = Blank
    BY <1>1, <1>2, <1>4, <2>1
  <2>. QED  BY <1>1, <2>1, <2>2 DEF SessionsNamed
<1>6. ASSUME NEW q \in DOMAIN given, evs'[q].logout # Blank
      PROVE  \E p \in 1 .. n : /\ given[p].guid = evs'[q].logout
                               /\ given[p].host = given[q].host
                               /\ evs'[p].login = given[q].guid
                               /\ evs'[q].ended = given[p].time
  <2>1. CASE SameEnd(evs'[q], evs[q])
    <3>1. PICK p \in 1 .. n - 1 : /\ given[p].guid = evs[q].logout
                                  /\ given[p].host = given[q].host
                                  /\ evs[p].login = given[q].guid
                                  /\ evs[q].ended = given[p].time
      BY <1>6, <2>1 DEF SameEnd, SessionsAgree, Paired
    <3>2. p \in DOMAIN given \ {n} /\ p \in 1 .. n
      BY <1>1 DEF EInv, TypeOK
    <3>3. evs'[p].login = evs[p].login
      BY <3>2 DEF VisitBy, SameTies
    <3>. QED  BY <2>1, <3>1, <3>2, <3>3 DEF SameEnd
  <2>2. CASE Closed(q, b)
    <3>1. n \in 1 .. n
      BY <1>1
    <3>. QED  BY <1>3, <2>2, <3>1 DEF Closed
  <2>3. CASE q = n
    <3>1. SameEnd(evs'[q], evs[q])
      BY <1>3, <2>3 DEF SameEnd, Keyed, Here
    <3>. QED  BY <2>1, <3>1
  <2>4. \/ q = n \/ SameEnd(evs'[q], evs[q]) \/ Closed(q, b)
    BY DEF VisitBy
  <2>. QED  BY <2>1, <2>2, <2>3, <2>4
<1>7. Paired'
  <2>1. n' - 1 = n
    BY <1>1
  <2>2. \A q \in DOMAIN given : evs'[q].logout # Blank =>
          \E p \in 1 .. n' - 1 : /\ given[p].guid = evs'[q].logout
                                 /\ given[p].host = given[q].host
                                 /\ evs'[p].login = given[q].guid
                                 /\ evs'[q].ended = given[p].time
    BY <1>6, <2>1
  <2>. QED  BY <1>1, <2>2 DEF Paired
<1>. QED  BY <1>5, <1>7 DEF SessionsAgree

-----------------------------------------------------------------------------
(* The two tiers.                                                            *)

LEMMA WaitingStep ==
  ASSUME EInv, Waiting, NEW b, VisitBy(b)
  PROVE  Waiting'
<1>1. given' = given /\ n \in DOMAIN given /\ n' = n + 1 /\ n \in Nat
      /\ DOMAIN given = 1 .. Len(given)
  BY DEF VisitBy, EInv, TypeOK
<1>2. ASSUME NEW p \in DOMAIN given, n + 1 <= p
      PROVE  /\ evs'[p].link = given[p].link /\ evs'[p].conf = given[p].conf
             /\ evs'[p].flow = given[p].flow /\ evs'[p].certified = given[p].certified
             /\ evs'[p].openedIn = Blank /\ evs'[p].askedFrom = Blank
  <2>1. p # n /\ n <= p
    BY <1>1, <1>2
  <2>2. SameTies(evs'[p], evs[p])
    BY <2>1 DEF VisitBy
  <2>. QED  BY <2>1, <2>2 DEF Waiting, SameTies
<1>. QED  BY <1>1, <1>2 DEF Waiting

\* Tier 1.  That a host knows a process by its guid once is why the latest of
\* the creates with that guid is not the row itself.
NamedAt(p, link, conf) ==
  (\E q \in DOMAIN given \ {p} :
     /\ IsCreate(given[q]) /\ given[q].host = given[p].host
     /\ given[p].refGuid # Blank /\ given[q].guid = given[p].refGuid)
  => link = given[p].refGuid /\ conf = "definitive"

LEMMA NamedStep ==
  ASSUME EInv, NamedWins, given \in Inputs, NEW b, VisitBy(b)
  PROVE  NamedWins'
<1>1. given' = given /\ n \in DOMAIN given /\ n' = n + 1 /\ n \in Nat
      /\ given \in Seq(Row) /\ DOMAIN given = 1 .. Len(given)
  BY DEF VisitBy, EInv, TypeOK
<1>2. NamedAt(n, evs'[n].link, evs'[n].conf)
  <2>. SUFFICES ASSUME NEW q \in DOMAIN given \ {n},
                       IsCreate(given[q]), given[q].host = given[n].host,
                       given[n].refGuid # Blank, given[q].guid = given[n].refGuid
                PROVE  evs'[n].link = given[n].refGuid /\ evs'[n].conf = "definitive"
    BY DEF NamedAt
  <2>1. q \in Named(given, given[n])
    BY DEF Named, ByGuid
  <2>2. Referred(given, given[n]) = Named(given, given[n])
        /\ TierOf(given, given[n]) = "definitive"
    BY <2>1 DEF Referred, TierOf
  <2>3. OwnerAt \in Named(given, given[n])
    BY <1>1, <2>1, <2>2, ReferredIsCreate DEF OwnerAt
  <2>4. /\ OwnerAt \in DOMAIN given /\ IsCreate(given[OwnerAt])
        /\ given[OwnerAt].host = given[n].host /\ given[OwnerAt].guid = given[n].refGuid
    BY <2>3 DEF Named, ByGuid
  <2>5. OwnerAt = q
    BY <2>4, FoldedRows
  <2>6. IsOwned(given[n])
    BY <2>1, <2>2, <2>5 DEF IsOwned
  <2>. QED  BY <2>2, <2>4, <2>6 DEF VisitBy, Left
<1>3. \A p \in 1 .. n - 1 : NamedAt(p, evs'[p].link, evs'[p].conf)
  <2>. TAKE p \in 1 .. n - 1
  <2>1. p \in DOMAIN given \ {n}
    BY <1>1
  <2>2. evs'[p].link = evs[p].link /\ evs'[p].conf = evs[p].conf
    BY <2>1 DEF VisitBy, SameTies
  <2>3. NamedAt(p, evs[p].link, evs[p].conf)
    BY DEF NamedWins, NamedAt
  <2>. QED  BY <2>2, <2>3
<1>4. \A p \in 1 .. n' - 1 : NamedAt(p, evs'[p].link, evs'[p].conf)
  BY <1>1, <1>2, <1>3
<1>. QED  BY <1>1, <1>4 DEF NamedWins, NamedAt

LEMMA TimesAreTexts ==
  ASSUME given \in Seq(Row), NEW q \in DOMAIN given
  PROVE  given[q].time \in Nat
<1>1. given[q] \in Row
  OBVIOUS
<1>. QED  BY <1>1, EnrichAssumption DEF Row, Times

\* _exit_by_guid: what is in the index is the text of some end of the process.
LEMMA ExitIsSome ==
  ASSUME given \in Seq(Row), NEW q \in DOMAIN given, ExitOf(given, given[q]) # 0
  PROVE  \E x \in EndsOf(given, given[q]) : given[x].time = ExitOf(given, given[q])
<1> DEFINE ends == EndsOf(given, given[q])
           stamps == { given[y].time : y \in ends } \ {0}
<1>1. stamps # {} /\ ExitOf(given, given[q]) = Earliest(stamps)
  BY DEF ExitOf
<1>2. stamps \subseteq Nat
  BY TimesAreTexts DEF EndsOf
<1>3. Earliest(stamps) \in stamps
  BY <1>1, <1>2, EarliestIn
<1>. QED  BY <1>1, <1>3

\* ... and when all of them are timed, none has an earlier text.
LEMMA ExitIsFirst ==
  ASSUME given \in Seq(Row), NEW q \in DOMAIN given, NEW x \in EndsOf(given, given[q]),
         \A y \in EndsOf(given, given[q]) : given[y].time # 0
  PROVE  ExitOf(given, given[q]) # 0 /\ ExitOf(given, given[q]) <= given[x].time
<1> DEFINE stamps(S) == { given[y].time : y \in S } \ {0}
<1>1. PICK ends : ends = EndsOf(given, given[q])
  OBVIOUS
<1>2. x \in ends /\ ends \subseteq Nat /\ ends \subseteq DOMAIN given
  BY <1>1 DEF EndsOf
<1>3. Earliest(ends) \in ends
  BY <1>2, EarliestIn
<1>4. given[Earliest(ends)].time # 0
  BY <1>1, <1>3
<1>5. given[x].time \in stamps(ends) /\ stamps(ends) \subseteq Nat
  BY <1>1, <1>2, TimesAreTexts
<1>6. PICK S : S = stamps(ends)
  OBVIOUS
<1>7. ExitOf(given, given[q]) = Earliest(S)
  <2>1. ExitOf(given, given[q]) =
          IF ends = {} \/ S = {} \/ given[Earliest(ends)].time = 0 THEN 0 ELSE Earliest(S)
    BY <1>1, <1>6 DEF ExitOf
  <2>. QED  BY <1>2, <1>4, <1>5, <1>6, <2>1
<1>8. Earliest(S) \in S /\ \A t \in S : Earliest(S) <= t
  <2>1. S # {} /\ S \subseteq Nat
    BY <1>5, <1>6
  <2>. QED  BY <2>1, LeastOf DEF Earliest
<1>9. 0 \notin S
  BY <1>6
<1>. QED  BY <1>5, <1>6, <1>7, <1>8, <1>9

\* What the texts decide is what the instants say, when they sort as told.
LEMMA TextsTell ==
  ASSUME given \in Seq(Row), NEW p \in DOMAIN given, given[p].time # 0,
         NEW q \in DOMAIN given, Bore(q, p), ToldInOrder(TimesAround(p))
  PROVE  /\ CreatedBy(q, p) <=> given[q].time <= given[p].time
         /\ \A x \in EndsOf(given, given[q]) :
              (given[x].time # 0 /\ Instant[given[x].time] < Instant[given[p].time])
              <=> (given[x].time # 0 /\ given[x].time < given[p].time)
<1> DEFINE T == TimesAround(p)
<1>1. /\ given[p].time \in T
      /\ given[q].time # 0 => given[q].time \in T
      /\ \A x \in EndsOf(given, given[q]) : given[x].time # 0 => given[x].time \in T
  BY DEF TimesAround
<1>2. \A t \in T : Instant[t] \in Nat
  BY EnrichAssumption DEF ToldInOrder
<1>3. \A s, t \in T : s < t <=> Instant[s] < Instant[t]
  BY DEF ToldInOrder
<1>4. given[p].time \in Nat /\ given[q].time \in Nat
  BY TimesAreTexts
<1>. HIDE DEF T
<1>5. CASE given[q].time = 0
  BY <1>1, <1>3, <1>4, <1>5 DEF CreatedBy
<1>6. CASE given[q].time # 0
  <2>1. given[p].time < given[q].time <=> Instant[given[p].time] < Instant[given[q].time]
    BY <1>1, <1>3, <1>6
  <2>2. Instant[given[p].time] \in Nat /\ Instant[given[q].time] \in Nat
    BY <1>1, <1>2, <1>6
  <2>3. CreatedBy(q, p) <=> given[q].time <= given[p].time
    BY <1>4, <1>6, <2>1, <2>2 DEF CreatedBy
  <2>. QED  BY <1>1, <1>3, <2>3
<1>. QED  BY <1>5, <1>6

LEMMA AliveMeans ==
  ASSUME given \in Seq(Row), NEW p \in DOMAIN given, given[p].time # 0,
         NEW q \in DOMAIN given, Bore(q, p), ToldInOrder(TimesAround(p))
  PROVE  /\ ~EndedBy(q, p) => AliveAt(given, given[q], given[p].time)
         /\ AliveAt(given, given[q], given[p].time) /\ EndedBy(q, p) =>
              \E x \in EndsOf(given, given[q]) : given[x].time = 0
<1>1. given[p].time \in Nat
  BY TimesAreTexts
<1>2. EndedBy(q, p) <=> \E x \in EndsOf(given, given[q]) :
                          given[x].time # 0 /\ given[x].time < given[p].time
  BY TextsTell DEF EndedBy
<1>3. ASSUME ~AliveAt(given, given[q], given[p].time)
      PROVE  EndedBy(q, p)
  <2>1. ExitOf(given, given[q]) # 0 /\ ~(given[p].time <= ExitOf(given, given[q]))
    BY <1>3 DEF AliveAt
  <2>2. PICK x \in EndsOf(given, given[q]) : given[x].time = ExitOf(given, given[q])
    BY <2>1, ExitIsSome
  <2>3. given[x].time \in Nat
    BY TimesAreTexts DEF EndsOf
  <2>. QED  BY <1>1, <1>2, <2>1, <2>2, <2>3
<1>4. ASSUME AliveAt(given, given[q], given[p].time), EndedBy(q, p),
             \A x \in EndsOf(given, given[q]) : given[x].time # 0
      PROVE  FALSE
  <2>1. PICK x \in EndsOf(given, given[q]) : given[x].time < given[p].time
    BY <1>2, <1>4
  <2>2. ExitOf(given, given[q]) # 0 /\ ExitOf(given, given[q]) <= given[x].time
    BY <1>4, ExitIsFirst
  <2>3. given[p].time <= ExitOf(given, given[q])
    BY <1>4, <2>2 DEF AliveAt
  <2>4. given[x].time \in Nat
    BY TimesAreTexts DEF EndsOf
  <2>5. ExitOf(given, given[q]) \in Nat
    <3>1. PICK y \in EndsOf(given, given[q]) : given[y].time = ExitOf(given, given[q])
      BY <2>2, ExitIsSome
    <3>. QED  BY <3>1, TimesAreTexts DEF EndsOf
  <2>. QED  BY <1>1, <2>1, <2>2, <2>3, <2>4, <2>5
<1>. QED  BY <1>3, <1>4

\* Later by its text is later by its instant.
LEMMA LatestIsLast ==
  ASSUME given \in Seq(Row), NEW p \in DOMAIN given, ToldInOrder(TimesAround(p)),
         NEW q \in DOMAIN given, Bore(q, p), NEW x \in DOMAIN given, Bore(x, p),
         given[x].time <= given[q].time
  PROVE  NotAfter(x, q)
<1>1. given[x].time \in Nat /\ given[q].time \in Nat
  BY TimesAreTexts
<1> SUFFICES ASSUME given[x].time # 0
             PROVE  given[q].time # 0 /\ Instant[given[x].time] <= Instant[given[q].time]
  BY DEF NotAfter
<1>2. given[q].time # 0
  BY <1>1
<1> DEFINE T == TimesAround(p)
<1>3. given[x].time \in T /\ given[q].time \in T
  BY <1>2 DEF TimesAround
<1>4. ~(Instant[given[q].time] < Instant[given[x].time])
  <2>1. given[q].time < given[x].time <=> Instant[given[q].time] < Instant[given[x].time]
    BY <1>3 DEF ToldInOrder
  <2>. QED  BY <1>1, <2>1
<1>5. Instant[given[x].time] \in Nat /\ Instant[given[q].time] \in Nat
  BY <1>3, EnrichAssumption DEF ToldInOrder
<1>. QED  BY <1>2, <1>4, <1>5

\* Tier 2.
WindowAt(p, link, conf) ==
  conf = "heuristic" /\ given[p].conf = Blank /\ given[p].time # 0 =>
    \E q \in DOMAIN given \ {p} :
      /\ given[q].guid = link /\ Bore(q, p)
      /\ ToldInOrder(TimesAround(p)) => Meant(q, p)

LEMMA WindowStep ==
  ASSUME EInv, Waiting, WindowHolds, given \in Inputs, NEW b, VisitBy(b)
  PROVE  WindowHolds'
<1>1. given' = given /\ n \in DOMAIN given /\ n' = n + 1 /\ n \in Nat
      /\ given \in Seq(Row) /\ DOMAIN given = 1 .. Len(given)
  BY DEF VisitBy, EInv, TypeOK
<1>2. WindowAt(n, evs'[n].link, evs'[n].conf)
  <2>. SUFFICES ASSUME evs'[n].conf = "heuristic", given[n].conf = Blank, given[n].time # 0
                PROVE  \E q \in DOMAIN given \ {n} :
                         /\ given[q].guid = evs'[n].link /\ Bore(q, n)
                         /\ ToldInOrder(TimesAround(n)) => Meant(q, n)
    BY DEF WindowAt
  <2>1. IsOwned(given[n])
    <3>1. b.conf = given[n].conf
      BY <1>1 DEF VisitBy, Keyed, Waiting, Here
    <3>2. Blank # "heuristic"
      BY EnrichAssumption DEF Tier
    <3>. QED  BY <3>1, <3>2 DEF VisitBy, Left
  <2>2. evs'[n].link = given[OwnerAt].guid /\ TierOf(given, given[n]) = "heuristic"
    BY <2>1 DEF VisitBy, Left
  <2>3. Referred(given, given[n]) = InWindow(given, given[n])
    BY <2>2 DEF TierOf, Referred
  <2>4. OwnerAt \in InWindow(given, given[n]) /\ OwnerAt \in DOMAIN given
        /\ IsCreate(given[OwnerAt])
    BY <1>1, <2>1, <2>3, ReferredIsCreate DEF OwnerAt, IsOwned
  <2> DEFINE creates == ByPid(given, given[n].host, given[n].refPid)
             eligible == { q \in creates : given[q].time <= given[n].time
                                           /\ AliveAt(given, given[q], given[n].time) }
  <2>5. InWindow(given, given[n]) =
          { q \in eligible : \A p \in eligible :
              given[p].time < given[q].time \/ (given[p].time = given[q].time /\ p <= q) }
    BY DEF InWindow, Match
  <2>6. \A q \in creates : /\ q \in DOMAIN given /\ IsCreate(given[q])
                           /\ given[q].host = given[n].host /\ given[q].pid = given[n].refPid
                           /\ given[n].refPid # Blank
    BY DEF ByPid
  <2>7. OwnerAt \in eligible /\ \A p \in eligible : given[p].time <= given[OwnerAt].time
    <3>1. \A y \in DOMAIN given : given[y].time \in Nat
      <4>1. \A y \in DOMAIN given : given[y] \in Row
        BY <1>1
      <4>. QED  BY <4>1, EnrichAssumption DEF Row, Times
    <3>2. PICK o : o = OwnerAt
      OBVIOUS
    <3>3. o \in eligible /\ \A p \in eligible :
            given[p].time < given[o].time \/ (given[p].time = given[o].time /\ p <= o)
      BY <2>4, <2>5, <3>2
    <3>4. \A p \in eligible : given[p].time \in Nat
      BY <2>6, <3>1
    <3>. HIDE DEF eligible
    <3>. QED  BY <3>2, <3>3, <3>4
  <2>8. PICK o : o = OwnerAt
    OBVIOUS
  <2>9. o \in eligible /\ \A x \in eligible : given[x].time <= given[o].time
    BY <2>7, <2>8
  <2>10. o \in DOMAIN given \ {n} /\ Bore(o, n)
    BY <2>1, <2>4, <2>6, <2>8, <2>9 DEF IsOwned, Bore
  <2>11. ASSUME ToldInOrder(TimesAround(n)) PROVE Meant(o, n)
    <3>1. CreatedBy(o, n)
      BY <1>1, <2>9, <2>10, <2>11, TextsTell
    <3>2. EndedBy(o, n) => \E x \in EndsOf(given, given[o]) : given[x].time = 0
      BY <1>1, <2>9, <2>10, <2>11, AliveMeans
    <3>3. ASSUME NEW x \in DOMAIN given, Bore(x, n), CreatedBy(x, n), ~EndedBy(x, n)
          PROVE  NotAfter(x, o)
      <4>1. given[x].time <= given[n].time /\ AliveAt(given, given[x], given[n].time)
        BY <1>1, <2>11, <3>3, TextsTell, AliveMeans
      <4>2. x \in creates
        BY <3>3 DEF Bore, ByPid
      <4>3. given[x].time <= given[o].time
        BY <2>9, <4>1, <4>2
      <4>. QED  BY <1>1, <2>10, <2>11, <3>3, <4>3, LatestIsLast
    <3>. QED  BY <3>1, <3>2, <3>3 DEF Meant
  <2>. HIDE DEF eligible
  <2>. QED  BY <2>2, <2>8, <2>10, <2>11
<1>3. \A p \in 1 .. n - 1 : WindowAt(p, evs'[p].link, evs'[p].conf)
  <2>. TAKE p \in 1 .. n - 1
  <2>1. p \in DOMAIN given \ {n}
    BY <1>1
  <2>2. evs'[p].link = evs[p].link /\ evs'[p].conf = evs[p].conf
    BY <2>1 DEF VisitBy, SameTies
  <2>3. WindowAt(p, evs[p].link, evs[p].conf)
    BY DEF WindowHolds, WindowAt
  <2>. QED  BY <2>2, <2>3
<1>4. \A p \in 1 .. n' - 1 : WindowAt(p, evs'[p].link, evs'[p].conf)
  BY <1>1, <1>2, <1>3
<1>5. /\ \A q, p : Bore(q, p)' <=> Bore(q, p)
      /\ \A p : TimesAround(p)' = TimesAround(p)
      /\ \A q, p : Meant(q, p)' <=> Meant(q, p)
  BY <1>1 DEF Bore, TimesAround, Meant, CreatedBy, EndedBy, NotAfter
<1>6. \A p, link, conf : WindowAt(p, link, conf)' <=> WindowAt(p, link, conf)
  BY <1>1, <1>5 DEF WindowAt, ToldInOrder
<1>7. PICK rows : rows = evs'
  OBVIOUS
<1>8. \A p \in 1 .. n' - 1 : WindowAt(p, rows[p].link, rows[p].conf)'
  BY <1>4, <1>6, <1>7
<1>. QED  BY <1>7, <1>8 DEF WindowHolds, WindowAt

LEMMA ConnectionsStep ==
  ASSUME EInv, ConnectionsTied, NEW b, VisitBy(b)
  PROVE  ConnectionsTied'
<1>1. given' = given /\ n \in DOMAIN given /\ n' = n + 1 /\ n \in Nat
      /\ DOMAIN given = 1 .. Len(given)
  BY DEF VisitBy, EInv, TypeOK
<1>2. ConnectionTied(evs'[n], n)
  <2>1. PICK r : r = evs'[n]
    OBVIOUS
  <2>2. ConnectionTied(b, n) /\ r.flow = b.flow /\ r.certified = b.certified
    BY <2>1 DEF VisitBy, Keyed, Left
  <2>3. b.col["dest_fqdn"] # Blank => r.col["dest_fqdn"] # Blank
    <3>1. "dest_fqdn" \in Cols
      BY EnrichAssumption
    <3>. QED  BY <2>1, <3>1 DEF VisitBy, Left, Accounted
  <2>4. ConnectionTied(r, n)
    BY <2>2, <2>3 DEF ConnectionTied
  <2>. QED  BY <2>1, <2>4
<1>3. \A p \in 1 .. n - 1 : ConnectionTied(evs'[p], p)
  <2>. TAKE p \in 1 .. n - 1
  <2>1. p \in DOMAIN given \ {n}
    BY <1>1
  <2>2. PICK r : r = evs'[p]
    OBVIOUS
  <2>3. r.flow = evs[p].flow /\ r.certified = evs[p].certified /\ r.col = evs[p].col
    BY <2>1, <2>2 DEF VisitBy, SameTies
  <2>4. ConnectionTied(r, p)
    BY <2>3 DEF ConnectionsTied, ConnectionTied
  <2>. QED  BY <2>2, <2>4
<1>4. \A r, p : ConnectionTied(r, p)' <=> ConnectionTied(r, p)
  BY <1>1 DEF ConnectionTied, Connected, Answering, Handshake
<1>5. PICK rows : rows = evs'
  OBVIOUS
<1>6. \A p \in 1 .. n' - 1 : ConnectionTied(rows[p], p)
  BY <1>1, <1>2, <1>3, <1>5
<1>7. \A p \in 1 .. n' - 1 : ConnectionTied(rows[p], p)'
  BY <1>4, <1>6
<1>. QED  BY <1>5, <1>7 DEF ConnectionsTied

-----------------------------------------------------------------------------
(* The theorems.                                                             *)

\* What the links need on top of EInv: that the rows still to come are tied as
\* the fold left them, and that the fold did leave them so.
TiesInv ==
  /\ EInv /\ given \in Inputs /\ Waiting
  /\ NothingMadeUp /\ SessionsAgree
  /\ NamedWins /\ WindowHolds /\ ConnectionsTied

LEMMA TiesInvInit == Init => TiesInv
<1>. SUFFICES ASSUME Init PROVE TiesInv
  OBVIOUS
<1>1. given \in Inputs /\ given \in Seq(Row) /\ evs = given /\ n = 1
  BY EnrichAssumption DEF Init
<1>2. \A p \in DOMAIN given :
        given[p].openedIn = Blank /\ given[p].askedFrom = Blank /\ given[p].logout = Blank
  BY <1>1, FoldedRows
<1>3. Waiting /\ NothingMadeUp
  BY <1>1, <1>2 DEF Waiting, NothingMadeUp
<1>4. SessionsAgree
  BY <1>1, <1>2 DEF SessionsAgree, SessionsNamed, Paired, TiedTo
<1>5. 1 .. n - 1 = {}
  BY <1>1
<1>6. NamedWins /\ WindowHolds /\ ConnectionsTied
  BY <1>5 DEF NamedWins, WindowHolds, ConnectionsTied
<1>. QED  BY <1>1, <1>3, <1>4, <1>6, EInvInit DEF TiesInv

LEMMA TiesInvStep == TiesInv /\ [Next]_vars => TiesInv'
<1>. SUFFICES ASSUME TiesInv, [Next]_vars PROVE TiesInv'
  OBVIOUS
<1>1. EInv' /\ EInv
  BY EInvStep DEF TiesInv
<1>2. CASE Next
  <2>1. PICK b : VisitBy(b)
    BY <1>2, StepVisits DEF TiesInv
  <2>2. given' \in Inputs
    BY <2>1 DEF TiesInv, VisitBy
  <2>3. Waiting'
    BY <2>1, WaitingStep DEF TiesInv
  <2>4. NothingMadeUp' /\ SessionsAgree'
    BY <2>1, MadeUpStep, SessionsStep DEF TiesInv
  <2>5. NamedWins' /\ WindowHolds' /\ ConnectionsTied'
    BY <2>1, NamedStep, WindowStep, ConnectionsStep DEF TiesInv
  <2>. QED  BY <1>1, <2>2, <2>3, <2>4, <2>5 DEF TiesInv
<1>3. CASE UNCHANGED vars
  <2>1. given' = given /\ evs' = evs /\ n' = n
    BY <1>3 DEF vars
  <2>2. given' \in Inputs /\ Waiting'
    BY <2>1 DEF TiesInv, Waiting
  <2>3. NothingMadeUp'
    <3>1. \A p, c, v : Heard(p, c, v)' <=> Heard(p, c, v)
      BY <2>1 DEF Heard, Answering, Connected, Handshake
    <3>2. NothingMadeUp
      BY DEF TiesInv
    <3>. QED  BY <2>1, <3>1, <3>2 DEF NothingMadeUp, Inherits
  <2>4. SessionsAgree'
    BY <2>1 DEF TiesInv, SessionsAgree, SessionsNamed, Paired, TiedTo
  <2>5. NamedWins'
    BY <2>1 DEF TiesInv, NamedWins
  <2>6. WindowHolds'
    <3>1. WindowHolds
      BY DEF TiesInv
    <3>. QED  BY <2>1, <3>1 DEF WindowHolds, Bore, TimesAround, ToldInOrder, Meant,
                                CreatedBy, EndedBy, NotAfter
  <2>7. ConnectionsTied'
    <3>1. \A r, p : ConnectionTied(r, p)' <=> ConnectionTied(r, p)
      BY <2>1 DEF ConnectionTied, Connected, Answering, Handshake
    <3>2. PICK rows : rows = evs'
      OBVIOUS
    <3>3. \A p \in 1 .. n' - 1 : ConnectionTied(rows[p], p)
      BY <2>1, <3>2 DEF TiesInv, ConnectionsTied
    <3>4. \A p \in 1 .. n' - 1 : ConnectionTied(rows[p], p)'
      BY <3>1, <3>3
    <3>. QED  BY <3>2, <3>4 DEF ConnectionsTied
  <2>. QED  BY <1>1, <2>2, <2>3, <2>4, <2>5, <2>6, <2>7 DEF TiesInv
<1>. QED  BY <1>2, <1>3

LEMMA TiesInvAlways == Spec => []TiesInv
BY TiesInvInit, TiesInvStep, PTL DEF Spec

\* Whatever fills a blank column came from the process the row is tied to, from
\* the row's own capture, or names the account of its own SID (enrich._inherit,
\* the spoke, DNS and SNI stamps, and the canonical names of enrich).
THEOREM NothingIsMadeUp == Spec => []NothingMadeUp
<1>1. TiesInv => NothingMadeUp
  BY DEF TiesInv
<1>. QED  BY <1>1, TiesInvAlways, PTL

\* A guid wins over a pid; a pid means a process of its host that had it, and as
\* far as texts sort as the instants they tell, the youngest that was running
\* then; and a connection's uid ties its rows together, in whatever order the
\* rows come (enrich._resolve_owner, _match, _flow_by_uid, _stamp_flow_cert).
THEOREM LinksAreRight == Spec => []LinkIsRight
<1>1. TiesInv => LinkIsRight
  BY DEF TiesInv, LinkIsRight
<1>. QED  BY <1>1, TiesInvAlways, PTL

\* Authentications and sessions, logins and logouts, agree on who opened and who
\* closed what (enrich._link_auth_sessions, _pair_session_lifecycle).
THEOREM SessionsDoAgree == Spec => []SessionsAgree
<1>1. TiesInv => SessionsAgree
  BY DEF TiesInv
<1>. QED  BY <1>1, TiesInvAlways, PTL
=============================================================================
