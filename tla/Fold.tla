-------------------------------- MODULE Fold --------------------------------
(***************************************************************************)
(* enrich.fold: rows that are the same event become one row.  The first    *)
(* pass groups the rows by their same-event key (a dict in insertion order *)
(* and the list of its keys), the second folds each group into its first   *)
(* row -- in place, one _merge_into per further row -- and then writes the *)
(* contributor count and list.  derive.coalesce is the same fold.          *)
(*                                                                         *)
(* Data abstraction.  Fields holds the columns and the native keys alike:  *)
(* _merge_into treats both the same way, except for the keys the fold      *)
(* itself writes, which are the components srcs, conflicts, count and by   *)
(* of a row.  A row that no fold has written yet has them empty.  Text is  *)
(* str(): 443 and "443" are two values with one text.                      *)
(***************************************************************************)
EXTENDS Naturals, Sequences, SequencesExt, FiniteSets

CONSTANTS
  Keys,         \* (source_host, car_object, guid, car_action, target_guid,
                \*   access_level) of a row that has a guid
  NoIdentity,   \* the key of a row without guid
  Artefacts,    \* source_artefact
  Refs,         \* spindle_ref: container and record a minted row came from
  Fields,       \* columns and native keys
  Columns,      \* the columns among them
  Values, Missing,   \* Missing: None and ""
  Text,         \* [Values -> what str() makes of it]
  Cap,          \* _CONTRIBUTORS_CAP
  Inputs        \* the sequences of rows the fold is given

Claim == Artefacts \X Values                \* an entry of coalesced_conflicts
Contributor == Artefacts \X (Refs \cup {Missing})

Row ==
  [ key       : Keys \cup {NoIdentity},
    src       : Artefacts,
    ref       : Refs \cup {Missing},
    vals      : [Fields -> Values \cup {Missing}],
    srcs      : Seq(Artefacts),             \* coalesced_sources
    conflicts : [Fields -> Seq(Claim)],     \* coalesced_conflicts
    count     : Nat,                        \* contributions; 0: not there
    by        : Seq(Contributor) ]          \* contributed_by

ASSUME FoldAssumption ==
  /\ Missing \notin Values /\ NoIdentity \notin Keys /\ Columns \subseteq Fields
  /\ IsFiniteSet(Columns)
  /\ Cap \in Nat /\ Inputs \subseteq Seq(Row)

\* Only the fold counts contributors: it names as many as it counts, up to the
\* cap, and counts none on a row that cannot have been folded.
ASSUME FoldedBefore ==
  \A rows \in Inputs : \A n \in DOMAIN rows :
    /\ Len(rows[n].by) = IF rows[n].count < Cap THEN rows[n].count ELSE Cap
    /\ rows[n].key = NoIdentity => rows[n].count = 0

VARIABLES
  events,   \* the rows, as given
  mode,     \* relationships.yml dedupe.fold
  pc,       \* "group", "open", "merge", "done"
  i,        \* the next row to group, then the next row of a group to merge
  groups,   \* [identity -> sequence of indices into events]
  order,    \* identities, first seen first
  base,     \* the row a group is being folded into
  out       \* the folded rows

vars == << events, mode, pc, i, groups, order, base, out >>

-----------------------------------------------------------------------------
\* _same_event_key: a row without guid gets its object identity.
IdentityShared(rows, n) == << rows[n].key, 0 >>      \* mutant: id(ev) left out
Identity(rows, n) == << rows[n].key, IF rows[n].key = NoIdentity THEN n ELSE 0 >>
Identities == (Keys \cup {NoIdentity}) \X Nat

Has(r, f) == r.vals[f] # Missing
Populated(r) == Cardinality({ f \in Columns : Has(r, f) })

Disagree(r, other, f) ==
  Has(r, f) /\ Has(other, f) /\ Text[r.vals[f]] # Text[other.vals[f]]

SourcesOf(r) == IF r.srcs = << >> THEN << r.src >> ELSE r.srcs

MergeOverwriting(r, other) ==             \* mutant: the later value wins
  [ r EXCEPT
      !.srcs = IF other.src \in ToSet(SourcesOf(r)) THEN SourcesOf(r)
               ELSE Append(SourcesOf(r), other.src),
      !.vals = [ f \in Fields |-> IF Has(other, f) THEN other.vals[f] ELSE r.vals[f] ],
      !.conflicts = [ f \in Fields |-> r.conflicts[f] ] ]

MergeCountsToo(r, other) ==     \* mutant: contributions filled like evidence
  [ r EXCEPT
      !.srcs = IF other.src \in ToSet(SourcesOf(r)) THEN SourcesOf(r)
               ELSE Append(SourcesOf(r), other.src),
      !.vals = [ f \in Fields |-> IF Has(r, f) THEN r.vals[f] ELSE other.vals[f] ],
      !.count = IF @ = 0 THEN other.count ELSE @,
      !.conflicts = [ f \in Fields |->
          IF Disagree(r, other, f) THEN Append(r.conflicts[f], << other.src, other.vals[f] >>)
          ELSE r.conflicts[f] ] ]

MergeMistagged(r, other) ==    \* mutant: the conflict is tagged with the base
  [ r EXCEPT
      !.srcs = IF other.src \in ToSet(SourcesOf(r)) THEN SourcesOf(r)
               ELSE Append(SourcesOf(r), other.src),
      !.vals = [ f \in Fields |-> IF Has(r, f) THEN r.vals[f] ELSE other.vals[f] ],
      !.conflicts = [ f \in Fields |->
          IF Disagree(r, other, f) THEN Append(r.conflicts[f], << r.src, other.vals[f] >>)
          ELSE r.conflicts[f] ] ]

\* _merge_into(base, other)
MergeInto(r, other) ==
  [ r EXCEPT
      !.srcs = IF other.src \in ToSet(SourcesOf(r)) THEN SourcesOf(r)
               ELSE Append(SourcesOf(r), other.src),
      !.vals = [ f \in Fields |-> IF Has(r, f) THEN r.vals[f] ELSE other.vals[f] ],
      !.conflicts = [ f \in Fields |->
          IF Disagree(r, other, f) THEN Append(r.conflicts[f], << other.src, other.vals[f] >>)
          ELSE r.conflicts[f] ] ]

\* How many rows a row stands for, and who they were.
Weight(r) == IF r.count = 0 THEN 1 ELSE r.count
ContributorsOf(r) == IF r.by = << >> THEN << << r.src, r.ref >> >> ELSE r.by

Total(numbers) ==
  LET upTo[n \in 0 .. Len(numbers)] == IF n = 0 THEN 0 ELSE upTo[n - 1] + numbers[n]
  IN  upTo[Len(numbers)]

WeightOf(rows) == Total([ n \in DOMAIN rows |-> Weight(rows[n]) ])
Named(rows) == FlattenSeq([ n \in DOMAIN rows |-> ContributorsOf(rows[n]) ])
Capped(by) == SubSeq(by, 1, IF Len(by) < Cap THEN Len(by) ELSE Cap)

SealRecounting(r, rows) ==       \* mutant: a prior fold counts as one row
  [ r EXCEPT !.count = Len(rows), !.by = Capped(Named(rows)) ]

\* The counters, written once the group is folded; rows still holds the base,
\* whose count and contributors are those it came with.
Seal(r, rows) == [ r EXCEPT !.count = WeightOf(rows), !.by = Capped(Named(rows)) ]

\* max(rows, key=_populated): the first of the most populated rows.
Fullest(rows) ==
  rows[CHOOSE n \in DOMAIN rows :
         /\ \A m \in DOMAIN rows : Populated(rows[m]) <= Populated(rows[n])
         /\ \A m \in 1 .. n - 1 : Populated(rows[m]) < Populated(rows[n])]

-----------------------------------------------------------------------------
Init ==
  /\ events \in Inputs
  /\ mode \in {"additive", "most_populated"}
  /\ pc = "group" /\ i = 1
  /\ groups = << >> /\ order = << >> /\ base = << >> /\ out = << >>

\* for ev in events: groups.setdefault(key, []).append(ev), and the key's order
Group ==
  /\ pc = "group" /\ i <= Len(events)
  /\ LET q == Identity(events, i) IN
       /\ groups' = [ p \in DOMAIN groups \cup {q} |->
                        IF p # q THEN groups[p]
                        ELSE IF q \in DOMAIN groups THEN Append(groups[q], i) ELSE << i >> ]
       /\ order' = IF q \in DOMAIN groups THEN order ELSE Append(order, q)
  /\ i' = i + 1
  /\ UNCHANGED << events, mode, pc, base, out >>

Grouped ==
  /\ pc = "group" /\ i > Len(events)
  /\ pc' = "open"
  /\ UNCHANGED << events, mode, i, groups, order, base, out >>

\* The group whose turn it is: one row of out per finished group.
Current == groups[order[Len(out) + 1]]
RowsOf(group) == [ n \in DOMAIN group |-> events[group[n]] ]

\* A lone row is left untouched.
KeepLone ==
  /\ pc = "open" /\ Len(out) < Len(order) /\ Len(Current) = 1
  /\ out' = Append(out, events[Current[1]])
  /\ UNCHANGED << events, mode, pc, i, groups, order, base >>

KeepFullest ==
  /\ pc = "open" /\ Len(out) < Len(order) /\ Len(Current) > 1
  /\ mode = "most_populated"
  /\ out' = Append(out, Fullest(RowsOf(Current)))
  /\ UNCHANGED << events, mode, pc, i, groups, order, base >>

OpenGroup ==
  /\ pc = "open" /\ Len(out) < Len(order) /\ Len(Current) > 1
  /\ mode = "additive"
  /\ base' = events[Current[1]] /\ i' = 2 /\ pc' = "merge"
  /\ UNCHANGED << events, mode, groups, order, out >>

MergeRow ==
  /\ pc = "merge" /\ i <= Len(Current)
  /\ base' = MergeInto(base, events[Current[i]])
  /\ i' = i + 1
  /\ UNCHANGED << events, mode, pc, groups, order, out >>

\* The base row is rows[0]: it is merged in place, so it is the merged row that
\* the counters are read from.
CloseGroup ==
  /\ pc = "merge" /\ i > Len(Current)
  /\ out' = Append(out, Seal(base, [RowsOf(Current) EXCEPT ![1] = base]))
  /\ pc' = "open"
  /\ UNCHANGED << events, mode, i, groups, order, base >>

Finish ==
  /\ pc = "open" /\ Len(out) = Len(order)
  /\ pc' = "done"
  /\ UNCHANGED << events, mode, i, groups, order, base, out >>

Next ==
  \/ Group \/ Grouped
  \/ KeepLone \/ KeepFullest \/ OpenGroup \/ MergeRow \/ CloseGroup
  \/ Finish

Spec == Init /\ [][Next]_vars

-----------------------------------------------------------------------------
(* The additive fold as one expression: what a caller gets back.           *)

\* The members of S up to n, in their order.
Upward(S, n) ==
  LET upTo[m \in 0 .. n] ==
        IF m = 0 THEN << >>
        ELSE IF m \in S THEN Append(upTo[m - 1], m) ELSE upTo[m - 1]
  IN  upTo[n]

OfIdentity(rows, q) == { m \in DOMAIN rows : Identity(rows, m) = q }
NewIdentity(rows) ==
  { m \in DOMAIN rows : \A earlier \in 1 .. m - 1 : Identity(rows, earlier) # Identity(rows, m) }

SameEvent(rows, n) == Upward(OfIdentity(rows, Identity(rows, n)), Len(rows))
FirstSeen(rows) == Upward(NewIdentity(rows), Len(rows))

\* The first row, with the others merged into it one by one.
Merged(rows) ==
  LET upTo[n \in 1 .. Len(rows)] ==
        IF n = 1 THEN rows[1] ELSE MergeInto(upTo[n - 1], rows[n])
  IN  upTo[Len(rows)]

FoldedRow(rows, n) ==
  LET same == [ m \in DOMAIN SameEvent(rows, n) |-> rows[SameEvent(rows, n)[m]] ]
  IN  IF Len(same) = 1 THEN same[1] ELSE Seal(Merged(same), same)

Folded(rows) == [ m \in DOMAIN FirstSeen(rows) |-> FoldedRow(rows, FirstSeen(rows)[m]) ]

-----------------------------------------------------------------------------
(* Properties.                                                             *)

\* r holds the evidence e has for f: as its own value, or as a conflict that
\* names the artefact it came from.
Carried(r, e, f) ==
  Has(e, f) =>
    /\ Has(r, f)
    /\ \/ Text[r.vals[f]] = Text[e.vals[f]]
       \/ << e.src, e.vals[f] >> \in ToSet(r.conflicts[f])

\* fold: "nothing a contributor carried is lost" -- every value of every row is
\* in the one row its event became, whatever the rows' order and number.
NothingLost ==
  pc = "done" /\ mode = "additive" =>
    \A n \in DOMAIN events : \E m \in DOMAIN out :
      /\ out[m].key = events[n].key
      /\ \A f \in Fields : Carried(out[m], events[n], f)

\* The other half: a folded row says nothing its contributors did not say, and
\* blames a disagreeing value on an artefact that reported it.
NothingInvented ==
  pc = "done" /\ mode = "additive" =>
    \A m \in DOMAIN out, f \in Fields :
      LET mine == { n \in DOMAIN events : events[n].key = out[m].key } IN
      /\ Has(out[m], f) => \E n \in mine : events[n].vals[f] = out[m].vals[f]
      /\ \A c \in ToSet(out[m].conflicts[f]) : \E n \in mine :
           \/ c = << events[n].src, events[n].vals[f] >>
           \/ c \in ToSet(events[n].conflicts[f])

\* An event with an identity comes out as one row, where it was first seen; and
\* a row without identity never folds: it comes out as it went in, in its place.
OneEvent(m, n) == m = n \/ (events[m].key = events[n].key /\ events[n].key # NoIdentity)
Firsts(n) == { m \in 1 .. n : \A k \in 1 .. m - 1 : ~OneEvent(k, m) }

OneRowPerEvent ==
  pc = "done" =>
    /\ Len(out) = Cardinality(Firsts(Len(events)))
    /\ \A n \in Firsts(Len(events)) :
         LET row == out[Cardinality(Firsts(n))] IN
         /\ row.key = events[n].key
         /\ row.key = NoIdentity => row = events[n]

\* contributions is "the number of rows, summing any prior fold": folding never
\* changes how many source rows the result stands for.  And contributed_by names
\* rows of the event only, as many as were counted, and all of them when they fit
\* under the cap, also when folded rows are folded again.
NamedFor(key) ==
  UNION { ToSet(ContributorsOf(events[n])) :
            n \in { m \in DOMAIN events : events[m].key = key } }

ContributorsCounted ==
  pc = "done" /\ mode = "additive" =>
    /\ WeightOf(out) = WeightOf(events)
    /\ \A m \in DOMAIN out : out[m].count # 0 =>
         /\ Len(out[m].by) = IF out[m].count < Cap THEN out[m].count ELSE Cap
         /\ ToSet(out[m].by) \subseteq NamedFor(out[m].key)
         /\ out[m].count <= Cap => NamedFor(out[m].key) \subseteq ToSet(out[m].by)

\* Folding in instalments gives the same rows as folding at once: a result may
\* be folded again with rows that come later (derive.coalesce over a store).
FoldContinues ==
  pc = "done" /\ mode = "additive" =>
    \A n \in 0 .. Len(events) :
      Folded(Folded(SubSeq(events, 1, n)) \o SubSeq(events, n + 1, Len(events))) = out

=============================================================================
