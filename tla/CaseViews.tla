----------------------------- MODULE CaseViews -----------------------------
(***************************************************************************)
(* The two readers of a whole case, that is of every source's store at     *)
(* once: the convergence of rows that describe one entity across sources   *)
(* (crosssource.py) and the time-ordered stream of objects and             *)
(* relationships (timeline.py).  Both only read; each works through the    *)
(* stores one at a time.                                                   *)
(*                                                                         *)
(* A store is [name, rows, edges].  A row is                               *)
(*   id        the key of the row in its store's table                     *)
(*   obj, host, guid, ts   of the event header                             *)
(*   identity  "external", "intrinsic" or "positional"; version its _v     *)
(*   said      the canonical columns it fills, hashes and image included   *)
(*   columns   the native-identity columns it fills: class -> value        *)
(*   mined     what its native text holds: class -> sequence of values     *)
(* A timestamp is NoTime or [text, instant]: texts sort as strings, and    *)
(* the instant is NoInstant when the text is not ISO-8601.                 *)
(* A bucket is a set of places in the list of all rows, whose order it has.*)
(***************************************************************************)
EXTENDS Integers, Sequences, FiniteSets, SequencesExt, Functions

CONSTANTS
  Cases,     \* the cases of a run: sequences of stores, by directory
  Windows,   \* the --after/--before bounds: [lo, hi], NoBound where absent
  NoId, NoTime, NoInstant, NoBound, Junk

VARIABLES
  case, window,
  next,      \* the store to read next
  loaded,    \* store name -> its rows
  rows,      \* all of them, each with its source
  buckets,   \* <<tier, key>> -> the places of the rows that take part
  waiting,   \* the keys whose bucket is still to be looked at
  groups,    \* the convergences emitted
  entries,   \* the timeline
  pc

viewVars == <<case, window, next, loaded, rows, buckets, waiting, groups, entries, pc>>

\* a time as a row has it
Times == [text : Int, instant : Int \union {NoInstant}]

\* A store lists its rows and edges, each with a time or none, and the rows of
\* a table have a key; bounds are instants.
ASSUME CaseAssumption ==
  /\ NoInstant \notin Int
  /\ \A w \in Windows : {w.lo, w.hi} \subseteq Int \union {NoBound}
  /\ \A c \in Cases :
       /\ c \in Seq(ToSet(c))
       /\ \A s \in ToSet(c) :
            /\ s.rows \in Seq(ToSet(s.rows)) /\ s.edges \in Seq(ToSet(s.edges))
            /\ \A e \in ToSet(s.rows) \union ToSet(s.edges) :
                 e.ts = NoTime \/ e.ts \in Times
            /\ \A i, j \in DOMAIN s.rows :
                 /\ s.rows[i].id = s.rows[j].id
                 /\ s.rows[i].obj = s.rows[j].obj
                 => i = j

(***************************************************************************)
(* The keys of a row.                                                      *)
(***************************************************************************)
TierRank == [record |-> 0, content |-> 1, native_id |-> 2, image |-> 3]
Hashed == {"file", "process", "module", "driver"}
Imaged == {"process", "service", "module", "driver"}
HashFields == <<"sha256_hash", "sha1_hash", "md5_hash">>
NativeClasses == {"volume", "mac", "serial"}

Said(row, f) == f \in DOMAIN row.said
Least(S) == CHOOSE i \in S : \A j \in S : i <= j

\* an external form or an intrinsic spindle; never a positional one
Equatable(row) == row.guid # NoId /\ row.identity # "positional"

\* a column is trusted only when it has the form of its class; the text of
\* native is searched otherwise
NativeIds(row, class) ==
  IF class \in DOMAIN row.columns /\ row.columns[class] # Junk
  THEN {row.columns[class]}
  ELSE IF class \in DOMAIN row.mined THEN ToSet(row.mined[class]) ELSE {}

RecordKeys(row) ==
  IF Equatable(row)
  THEN {<<"record", <<row.host, row.obj, row.guid, row.version>>>>} ELSE {}

\* the strongest hash only; a hash is of bytes, whatever object they are in
ContentKeys(row) ==
  LET held == {i \in DOMAIN HashFields : Said(row, HashFields[i])}
      best == HashFields[Least(held)]
  IN IF row.obj \in Hashed /\ held # {}
     THEN {<<"content", <<"file", best, row.said[best]>>>>} ELSE {}

NativeKeys(row) ==
  UNION {{<<"native_id", <<c, v>>>> : v \in NativeIds(row, c)} :
           c \in NativeClasses}

ImageKeys(row) ==
  IF row.obj \in Imaged /\ Said(row, "image")
  THEN {<<"image", <<row.host, row.obj, row.said["image"]>>>>} ELSE {}

Keys(row) ==
  RecordKeys(row) \union ContentKeys(row) \union NativeKeys(row)
    \union ImageKeys(row)

(***************************************************************************)
(* Convergence.                                                            *)
(***************************************************************************)
\* a source is known by the name of its directory
LoadStore ==
  /\ pc = "load" /\ next <= Len(case)
  /\ loaded' = [n \in DOMAIN loaded \union {case[next].name} |->
                  IF n = case[next].name THEN case[next].rows ELSE loaded[n]]
  /\ next' = next + 1
  /\ UNCHANGED <<case, window, rows, buckets, waiting, groups, entries, pc>>

\* a store's rows under its name; a name has the place it first came in
Sourced(store) ==
  LET held == loaded[store.name]
  IN [i \in DOMAIN held |-> [row |-> held[i], source |-> store.name]]

FirstOfName(n) == \A m \in 1 .. n - 1 : case[m].name # case[n].name

\* every row under every key it has, the stores in the order they were read
Bucket ==
  /\ pc = "load" /\ next > Len(case)
  /\ rows' = FlattenSeq([n \in DOMAIN case |->
                 IF FirstOfName(n) THEN Sourced(case[n]) ELSE <<>>])
  /\ waiting' = UNION {Keys(m.row) : m \in ToSet(rows')}
  /\ buckets' = [k \in waiting' |-> {i \in DOMAIN rows' : k \in Keys(rows'[i].row)}]
  /\ pc' = "emit"
  /\ UNCHANGED <<case, window, next, loaded, groups, entries>>

MemberOf(m) == <<m.source, m.row.id, m.row.obj>>
Members(bucket) == {MemberOf(rows[i]) : i \in bucket}
SourcesOf(bucket) == {rows[i].source : i \in bucket}
Properties(bucket) == UNION {DOMAIN rows[i].row.said : i \in bucket}

\* the first value of a property stands; one that differs is kept beside it
\* with the row's source, and one that agrees only adds its source
MergeProperty(bucket, p) ==
  LET says == {i \in bucket : Said(rows[i].row, p)}
      word(i) == rows[i].row.said[p]
      first == word(Least(says))
  IN [value |-> first,
      from |-> SourcesOf({i \in says : word(i) = first}),
      conflicts |-> {[value |-> word(i), from |-> rows[i].source] :
                       i \in {i \in says : word(i) # first}}]

\* mutant: a value that differs is dropped
MergeTheFirst(bucket, p) ==
  [MergeProperty(bucket, p) EXCEPT !.conflicts = {}]

Merged(bucket, p) == MergeProperty(bucket, p)

\* mutant: a set of rows emitted again at every weaker tier that joins it
NewMembers(bucket) == TRUE

FirstSeen(bucket) == \A g \in ToSet(groups) : g.members # Members(bucket)

\* the strongest tier first; within a tier the order is left open
Converge ==
  /\ pc = "emit"
  /\ \E k \in waiting :
       LET bucket == buckets[k]
       IN /\ \A l \in waiting : TierRank[k[1]] <= TierRank[l[1]]
          /\ waiting' = waiting \ {k}
          /\ groups' =
               IF Cardinality(SourcesOf(bucket)) >= 2 /\ FirstSeen(bucket)
               THEN Append(groups,
                      [tier |-> k[1], key |-> k[2], members |-> Members(bucket),
                       view |-> [p \in Properties(bucket) |-> Merged(bucket, p)]])
               ELSE groups
  /\ UNCHANGED <<case, window, next, loaded, rows, buckets, entries, pc>>

StartTimeline ==
  /\ pc = "emit" /\ waiting = {}
  /\ pc' = "objects" /\ next' = 1
  /\ UNCHANGED <<case, window, loaded, rows, buckets, waiting, groups, entries>>

(***************************************************************************)
(* The timeline.                                                           *)
(***************************************************************************)
\* the entry of the i-th row or edge e of the n-th store
Entry(kind, n, i, e) == [kind |-> kind, store |-> n, at |-> i, ts |-> e.ts]
Timed(kind, n, es) ==
  FlattenSeq([i \in DOMAIN es |->
                IF es[i].ts = NoTime THEN <<>> ELSE <<Entry(kind, n, i, es[i])>>])

ReadObjects ==
  /\ pc = "objects" /\ next <= Len(case)
  /\ entries' = entries \o Timed("object", next, case[next].rows)
  /\ pc' = "edges"
  /\ UNCHANGED <<case, window, next, loaded, rows, buckets, waiting, groups>>

ReadEdges ==
  /\ pc = "edges"
  /\ entries' = entries \o Timed("relationship", next, case[next].edges)
  /\ pc' = "objects" /\ next' = next + 1
  /\ UNCHANGED <<case, window, loaded, rows, buckets, waiting, groups>>

Placed(ts) == ts.instant # NoInstant

\* mutant: an event that is not inside a window because it has no place
InsideUnbounded(ts) ==
  /\ Placed(ts)
  /\ window.lo # NoBound => ts.instant >= window.lo
  /\ window.hi # NoBound => ts.instant <= window.hi

Inside(ts) ==
  \/ window.lo = NoBound /\ window.hi = NoBound
  \/ /\ Placed(ts)
     /\ window.lo # NoBound => ts.instant >= window.lo
     /\ window.hi # NoBound => ts.instant <= window.hi

Rank(e) == IF e.kind = "relationship" THEN 1 ELSE 0

\* mutant: the text of a timestamp taken for its time
BeforeByText(a, b) ==
  a.ts.text < b.ts.text \/ (a.ts.text = b.ts.text /\ Rank(a) < Rank(b))

\* by the true instant; then those that have none, by their text; at one
\* instant or text an object comes first
Before(a, b) ==
  LET x == a.ts
      y == b.ts
  IN IF Placed(x) # Placed(y) THEN Placed(x)
     ELSE LET s == IF Placed(x) THEN x.instant ELSE x.text
              t == IF Placed(y) THEN y.instant ELSE y.text
          IN s < t \/ (s = t /\ Rank(a) < Rank(b))

\* the sort is stable: entries that come level keep their order
Sooner(i, j) ==
  \/ Before(entries[i], entries[j])
  \/ ~Before(entries[j], entries[i]) /\ i < j

InWindow == {i \in DOMAIN entries : Inside(entries[i].ts)}
PlaceOf(i) == Cardinality({j \in InWindow : Sooner(j, i)}) + 1

Order ==
  /\ pc = "objects" /\ next > Len(case)
  /\ entries' = [n \in 1 .. Cardinality(InWindow) |->
                   entries[CHOOSE i \in InWindow : PlaceOf(i) = n]]
  /\ pc' = "done"
  /\ UNCHANGED <<case, window, next, loaded, rows, buckets, waiting, groups>>

ViewsInit ==
  /\ case \in Cases /\ window \in Windows
  /\ next = 1 /\ loaded = <<>> /\ rows = <<>> /\ buckets = <<>> /\ waiting = {}
  /\ groups = <<>> /\ entries = <<>> /\ pc = "load"

ViewsNext ==
  \/ LoadStore \/ Bucket \/ Converge \/ StartTimeline
  \/ ReadObjects \/ ReadEdges \/ Order

ViewsSpec == ViewsInit /\ [][ViewsNext]_viewVars

(***************************************************************************)
(* What the two views promise.                                             *)
(***************************************************************************)
AllRows == UNION {{[row |-> r, source |-> s.name] : r \in ToSet(s.rows)} :
                    s \in ToSet(case)}
Sharing(k) == {m \in AllRows : k \in Keys(m.row)}
CrossSource(ms) == Cardinality({m.source : m \in ms}) >= 2
SharedKeys == {k \in UNION {Keys(m.row) : m \in AllRows} : CrossSource(Sharing(k))}
Joined(k) == {MemberOf(m) : m \in Sharing(k)}

\* Rows of two sources that share a key are converged, once for each set of
\* rows and at the strongest tier that joins it, and nothing else is
\* converged (crosssource.py:224-278).
ConvergedOnceAtTheStrongest ==
  pc = "done" =>
    /\ \A k \in SharedKeys : \E g \in ToSet(groups) : g.members = Joined(k)
    /\ \A i \in DOMAIN groups :
         LET g == groups[i]
         IN /\ <<g.tier, g.key>> \in SharedKeys
            /\ g.members = Joined(<<g.tier, g.key>>)
            /\ \A k \in SharedKeys :
                 Joined(k) = g.members => TierRank[g.tier] <= TierRank[k[1]]
            /\ \A j \in DOMAIN groups : groups[j].members = g.members => i = j

\* What two tools made of one thing is never passed off as agreement: a group
\* shows every value any of its rows gave, each with the source that gave it,
\* and names no source for a value it did not give (crosssource.py:200-221).
EveryWordIsKept ==
  \A g \in ToSet(groups) :
    LET members == {m \in AllRows : MemberOf(m) \in g.members}
        Gave(s, p, v) == \E m \in members :
                           m.source = s /\ Said(m.row, p) /\ m.row.said[p] = v
    IN /\ \A m \in members : \A p \in DOMAIN m.row.said :
            \/ /\ g.view[p].value = m.row.said[p]
               /\ m.source \in g.view[p].from
            \/ [value |-> m.row.said[p], from |-> m.source] \in g.view[p].conflicts
       /\ \A p \in DOMAIN g.view :
            /\ g.view[p].from # {}
            /\ \A s \in g.view[p].from : Gave(s, p, g.view[p].value)
            /\ \A c \in g.view[p].conflicts :
                 c.value # g.view[p].value /\ Gave(c.from, p, c.value)

\* The timeline runs forward in true time whatever the timestamps look like,
\* with an event before what is said about it and the unplaceable at its end,
\* by their text (timeline.py:122-133).
TimeRunsForward ==
  pc = "done" =>
    \A i, j \in DOMAIN entries : i < j =>
      LET a == entries[i]
          b == entries[j]
          level == \/ Placed(a.ts) /\ Placed(b.ts) /\ a.ts.instant = b.ts.instant
                   \/ ~Placed(a.ts) /\ ~Placed(b.ts) /\ a.ts.text = b.ts.text
      IN /\ Placed(b.ts) => Placed(a.ts) /\ a.ts.instant <= b.ts.instant
         /\ ~Placed(a.ts) => ~Placed(b.ts) /\ a.ts.text <= b.ts.text
         /\ level => ~(a.kind = "relationship" /\ b.kind = "object")

\* Every timed row and edge of the case that belongs in the window is in the
\* timeline, exactly once (timeline.py:95-123).
NothingLostInTime ==
  pc = "done" =>
    LET wanted(kind, n, es) ==
          {[kind |-> kind, store |-> n, at |-> i, ts |-> es[i].ts] :
             i \in {i \in DOMAIN es : es[i].ts # NoTime}}
        all == UNION {wanted("object", n, case[n].rows)
                        \union wanted("relationship", n, case[n].edges) :
                        n \in DOMAIN case}
        bounded == window.lo # NoBound \/ window.hi # NoBound
        out(e) == /\ bounded
                  /\ \/ e.ts.instant = NoInstant
                     \/ window.lo # NoBound /\ e.ts.instant < window.lo
                     \/ window.hi # NoBound /\ e.ts.instant > window.hi
    IN /\ ToSet(entries) = {e \in all : ~out(e)}
       /\ IsInjective(entries)
=============================================================================
