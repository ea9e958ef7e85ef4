---------------------------- MODULE IngestProofs ----------------------------
(***************************************************************************)
(* What reading a source does for every source, routing table and size of  *)
(* buffer and pipe: it leaves nothing behind, and it implements the        *)
(* promise of IngestSpec.                                                  *)
(***************************************************************************)
EXTENDS Ingest, ListLemmas

-----------------------------------------------------------------------------
(* The inductive invariants.                                               *)

Collecting == pc \in {"collect", "reap"}
Working == Collecting \/ pc = "communicate"
Ended(code) == job.status = "exited" /\ job.code = code
AtWork == job.status = "running" \/ Ended(0)

\* Who is running while the pipeline is where.
JobFields ==
  DOMAIN job = {"verb", "file", "maps", "status", "pos", "out", "words", "code", "open"}
Places ==
  /\ JobFields
  /\ pc \in {"choose", "collect", "reap", "communicate", "done", "failed"}
  /\ Collecting => job.verb = "parse"
  /\ pc = "communicate" => job.verb = "split" /\ dir.exists
  /\ ~Working <=> job.status \in {"none", "reaped"}
  /\ job.status \in {"none", "running", "dying", "exited", "reaped"}
  /\ ~dir.exists /\ pc # "failed" => tables = <<>>
  /\ pc = "communicate" => tables = <<>>
  /\ pc \in {"done", "failed"} => ~dir.exists
  /\ cursor \in Nat \ {0} /\ faults \in Nat /\ job.pos \in Nat \ {0}
  /\ DOMAIN dir = {"exists", "files"}
  /\ IsList(events) /\ IsList(tables) /\ IsList(got)
  /\ half = <<>> \/ half = <<half[1]>>
  /\ IsList(job.out) /\ IsList(stdout) /\ IsList(dir.files)

\* What is read is what the source has.
Pending == ToSet(tables) \cup IF Collecting THEN {job.file} ELSE {}
Taken == IF dir.exists /\ pc # "communicate" THEN cursor ELSE cursor - 1
SourceParts == UNION {ToSet(Units(source[i])) : i \in DOMAIN source}
Parts ==
  /\ source \in Sources
  /\ Taken <= Len(source)
  /\ Pending \subseteq SourceParts
  /\ Collecting => job.maps = Route(job.file.name) /\ job.maps # <<>>
  /\ dir.exists => cursor <= Len(source) /\ IsRawL2t(source[cursor])
  /\ pc = "communicate" => job.file = source[cursor]

\* An error has a cause.
Wrong == faults > 0 \/ ~Sound(source)
Blamed ==
  /\ Working /\ (job.status = "dying" \/ job.code # 0 \/ ~job.open \/ raised) => Wrong
  /\ pc = "failed" => Wrong

\* The stream: what was read, is in the pipe or in the buffer is what the
\* lines so far say.
Lines(file, maps) ==
  [n \in DOMAIN file.lines |->
    IF IsRecord(file.lines[n], n) THEN EventsOf(maps, file.lines[n].rec) ELSE <<>>]
Said == FlattenSeq(Prefix(Lines(job.file, job.maps), job.pos - 1))
HalfRead == IF half = <<>> THEN <<>> ELSE <<[event |-> half[1], part |-> 1]>>
InOrder == (Tokens(got) \o HalfRead) \o (stdout \o job.out) = Tokens(Said)
Finished == job.pos = Len(job.file.lines) + 1 /\ job.out = <<>>
Stream ==
  /\ Working => job.pos <= Len(job.file.lines) + 1
  /\ pc = "collect" => job.open
  /\ pc = "reap" /\ ~raised => job.status = "exited"
  /\ pc = "collect" /\ AtWork => InOrder
  /\ pc = "reap" /\ Ended(0) /\ ~raised => got = UnitEvents(job.file)
  /\ Collecting /\ Ended(0) => Finished
  /\ Collecting /\ AtWork =>
       \A n \in 1 .. job.pos - 1 : ~BadLine(job.maps, job.file.lines[n], n)

\* The split: the tables are what the lines so far say.
Cut(file, n) == [name |-> file.name, jsonl |-> file.jsonl, lines |-> Prefix(file.lines, n)]
Splitting ==
  /\ pc = "communicate" /\ AtWork =>
       /\ dir.files = Tables(Cut(job.file, job.pos - 1))
       /\ Len(dir.files) <= FdLimit
       /\ \A n \in 1 .. job.pos - 1 : ~Raises(job.file.lines[n])
  /\ pc = "communicate" /\ Ended(0) =>
       job.pos = Len(job.file.lines) + 1 /\ stdout = <<dir.files>>

\* Nothing lost, nothing twice, nothing out of order.
Meanings == [i \in DOMAIN source |-> AllEvents(Units(source[i]))]
UnderWay == IF Collecting THEN UnitEvents(job.file) ELSE <<>>
Conserved ==
  pc # "failed" =>
    (events \o UnderWay) \o AllEvents(tables) = FlattenSeq(Prefix(Meanings, Taken))

\* What was refused was not passed over.
NoneSkipped ==
  pc # "failed" /\ (\E i \in DOMAIN source : i <= Taken /\ Refused(source[i])) =>
    \E unit \in Pending : UnitRefused(unit)

Delivered == pc = "done" => cursor = Len(source) + 1

IInv ==
  /\ Places /\ Parts /\ Blamed /\ Stream /\ Splitting
  /\ Conserved /\ NoneSkipped /\ Delivered

-----------------------------------------------------------------------------
(* What a file says is a list.                                             *)

LEMMA ListedIsList == ASSUME NEW s PROVE Listed(s) <=> IsList(s)
  BY DEF Listed, IsList

\* The maps of a file, whatever its name.
LEMMA RouteList ==
  ASSUME NEW name
  PROVE  IsList(Route(name)) /\ IsList(FanOut(Route(name)))
<1>. DEFINE hits == {i \in DOMAIN Routes : Routes[i][1] \in name}
<1>1. /\ IsList(EvtxMaps) /\ IsList(Routes)
      /\ \A i \in DOMAIN Routes : IsList(Routes[i][2])
  BY RoutesAreListed, ListedIsList
<1>2. IsList(Route(name))
  <2>1. CASE hits = {}
    BY <2>1, ListEmpty DEF Route
  <2>2. CASE hits # {}
    <3>1. hits \in SUBSET Nat
      BY <1>1, ListLen
    <3>2. \E x \in hits : \A y \in hits : x <= y
      BY <2>2, <3>1, LeastNatural
    <3>3. Min(hits) \in hits
      BY <3>2 DEF Min
    <3>4. Route(name) = Routes[Min(hits)][2]
      BY <2>2 DEF Route
    <3>. HIDE DEF hits
    <3>5. Min(hits) \in DOMAIN Routes
      BY <3>3 DEF hits
    <3>. QED  BY <1>1, <3>4, <3>5
  <2>. QED  BY <2>1, <2>2
<1>. QED  BY <1>1, <1>2 DEF FanOut

\* The events of a record.
LEMMA ClaimedList ==
  ASSUME NEW fed, IsList(fed), NEW rec
  PROVE  IsList(Claimed(fed, rec))
<1>. DEFINE f == [i \in DOMAIN fed |->
                   IF fed[i] \in rec.claims THEN <<Event(rec, fed[i])>> ELSE << >>]
<1>1. IsList(f) /\ DOMAIN f = DOMAIN fed
  BY ListMapped
<1>2. AllLists(f)
  BY ListEmpty, ListSingle DEF AllLists
<1>. HIDE DEF f
<1>3. IsList(FlattenSeq(f))
  BY <1>1, <1>2, FlattenList
<1>. QED  BY <1>3 DEF Claimed, f

LEMMA ReshapedList ==
  ASSUME NEW maps, NEW rec, IsList(rec.entries)
  PROVE  IsList(Reshaped(maps, rec))
<1>. DEFINE f == [i \in DOMAIN rec.entries |->
                   IF rec.entries[i] = "scalar" THEN << >>
                   ELSE <<[rec EXCEPT !.id = <<@, rec.entries[i]>>]>>]
<1>1. IsList(f)
  BY ListMapped
<1>2. AllLists(f)
  BY ListEmpty, ListSingle DEF AllLists
<1>. HIDE DEF f
<1>3. IsList(FlattenSeq(f))
  BY <1>1, <1>2, FlattenList
<1>4. IsList(Entries(rec))
  BY <1>3 DEF Entries, f
<1>5. IsList(<<rec>>) /\ IsList(<< >>)
  BY ListSingle, ListEmpty
<1>. QED  BY <1>4, <1>5 DEF Reshaped

LEMMA EventsList ==
  ASSUME NEW name, NEW rec, IsList(rec.entries)
  PROVE  IsList(EventsOf(Route(name), rec))
<1>. DEFINE shapes == Reshaped(Route(name), rec)
            f == [i \in DOMAIN shapes |-> Claimed(FanOut(Route(name)), shapes[i])]
<1>1. IsList(shapes)
  BY ReshapedList
<1>. HIDE DEF shapes
<1>2. IsList(f)
  BY <1>1, ListMapped
<1>3. AllLists(f)
  BY RouteList, ClaimedList DEF AllLists
<1>. HIDE DEF f
<1>4. IsList(FlattenSeq(f))
  BY <1>2, <1>3, FlattenList
<1>. QED  BY <1>4 DEF EventsOf, f, shapes

\* A file that is not routed says nothing.
LEMMA NoMapsNoEvents ==
  ASSUME NEW rec, IsList(rec.entries)
  PROVE  EventsOf(<< >>, rec) = << >>
<1>. DEFINE shapes == Reshaped(<< >>, rec)
            f == [i \in DOMAIN shapes |-> Claimed(FanOut(<< >>), shapes[i])]
<1>1. IsList(shapes)
  BY ReshapedList
<1>. HIDE DEF shapes
<1>2. IsList(f) /\ DOMAIN f = DOMAIN shapes
  BY <1>1, ListMapped
<1>3. FanOut(<< >>) = << >>
  BY DEF FanOut, Winevt
<1>4. ASSUME NEW x
      PROVE  Claimed(<< >>, x) = << >>
  <2>1. DOMAIN << >> = {}
    OBVIOUS
  <2>2. [i \in DOMAIN << >> |-> IF << >>[i] \in x.claims THEN <<Event(x, << >>[i])>> ELSE << >>]
          = << >>
    BY <2>1
  <2>. QED  BY <2>2, FlattenEmpty DEF Claimed
<1>5. \A i \in DOMAIN f : f[i] = << >>
  BY <1>3, <1>4
<1>. HIDE DEF f
<1>6. FlattenSeq(f) = << >>
  BY <1>2, <1>5, FlattenNothing
<1>. QED  BY <1>6 DEF EventsOf, f, shapes

\* The lines of a readable file.
LEMMA ReadableLines ==
  ASSUME NEW file, IsReadable(file)
  PROVE  /\ IsList(file.lines) /\ Len(file.lines) \in Nat
         /\ DOMAIN file.lines = 1 .. Len(file.lines)
         /\ \A n \in DOMAIN file.lines :
              /\ IsList(file.lines[n].rec.entries)
              /\ {"parser", "entries"} \subseteq DOMAIN file.lines[n].rec
<1>1. IsList(file.lines)
  BY ListedIsList DEF IsReadable
<1>2. \A n \in DOMAIN file.lines :
        /\ IsList(file.lines[n].rec.entries)
        /\ {"parser", "entries"} \subseteq DOMAIN file.lines[n].rec
  BY ListedIsList DEF IsReadable
<1>. QED  BY <1>1, <1>2, ListLen

LEMMA LinesList ==
  ASSUME NEW file, IsReadable(file), NEW name
  PROVE  /\ IsList(Lines(file, Route(name))) /\ AllLists(Lines(file, Route(name)))
         /\ Len(Lines(file, Route(name))) = Len(file.lines)
         /\ FileEvents(Route(name), file) = FlattenSeq(Lines(file, Route(name)))
         /\ IsList(FileEvents(Route(name), file))
<1>. DEFINE f == Lines(file, Route(name))
<1>1. IsList(f) /\ Len(f) = Len(file.lines) /\ DOMAIN f = DOMAIN file.lines
  BY ReadableLines, ListMapped DEF Lines
<1>2. AllLists(f)
  <2>1. ASSUME NEW n \in DOMAIN file.lines
        PROVE  IsList(f[n])
    <3>1. f[n] = IF IsRecord(file.lines[n], n)
                 THEN EventsOf(Route(name), file.lines[n].rec) ELSE << >>
      BY DEF Lines
    <3>2. IsList(EventsOf(Route(name), file.lines[n].rec))
      BY ReadableLines, EventsList
    <3>. QED  BY <3>1, <3>2, ListEmpty
  <2>. QED  BY <1>1, <2>1 DEF AllLists
<1>3. FileEvents(Route(name), file) = FlattenSeq(f)
  BY DEF FileEvents, Lines
<1>. HIDE DEF f
<1>4. IsList(FlattenSeq(f))
  BY <1>1, <1>2, FlattenList
<1>. QED  BY <1>1, <1>2, <1>3, <1>4 DEF f

LEMMA UnroutedSaysNothing ==
  ASSUME NEW file, IsReadable(file), Route(file.name) = << >>
  PROVE  UnitEvents(file) = << >> /\ ~UnitRefused(file)
<1>. DEFINE f == Lines(file, Route(file.name))
<1>1. IsList(f) /\ DOMAIN f = DOMAIN file.lines
  BY LinesList DEF Lines
<1>2. ASSUME NEW n \in DOMAIN f
      PROVE  f[n] = << >>
  <2>1. EventsOf(<< >>, file.lines[n].rec) = << >>
    BY <1>1, ReadableLines, NoMapsNoEvents
  <2>2. f[n] = IF IsRecord(file.lines[n], n)
               THEN EventsOf(Route(file.name), file.lines[n].rec) ELSE << >>
    BY <1>1 DEF Lines
  <2>. QED  BY <2>1, <2>2
<1>3. FileEvents(Route(file.name), file) = FlattenSeq(f)
  BY LinesList
<1>. HIDE DEF f
<1>4. FlattenSeq(f) = << >>
  BY <1>1, <1>2, FlattenNothing
<1>. QED  BY <1>3, <1>4 DEF UnitEvents, UnitRefused

-----------------------------------------------------------------------------
(* The tables of a container.                                              *)

RowParts(file, table) ==
  [n \in DOMAIN file.lines |->
    IF IsRow(file.lines[n]) /\ TableAt(file, n) = table
    THEN <<Wrapped(file.lines[n].rec, n)>> ELSE <<>>]
TableParts(file) ==
  [n \in DOMAIN file.lines |->
    IF NamesFirst(file, n) THEN <<TableOf(file, TableAt(file, n))>> ELSE <<>>]

\* Wrapping a record keeps its parser and its entries.
LEMMA WrappedKeeps ==
  ASSUME NEW rec, {"parser", "entries"} \subseteq DOMAIN rec, NEW n
  PROVE  /\ Wrapped(rec, n).rec.parser = rec.parser
         /\ Wrapped(rec, n).rec.entries = rec.entries
         /\ {"parser", "entries"} \subseteq DOMAIN Wrapped(rec, n).rec
         /\ TableName(Wrapped(rec, n).rec) = TableName(rec)
<1>. DEFINE w == [rec EXCEPT !.line = n, !.plaso = FALSE]
<1>1. Wrapped(rec, n).rec = w
  BY DEF Wrapped
<1>2. /\ DOMAIN w = DOMAIN rec
      /\ w.parser = rec.parser /\ w.entries = rec.entries
  OBVIOUS
<1>. HIDE DEF w
<1>. QED  BY <1>1, <1>2 DEF TableName

LEMMA RowPartsList ==
  ASSUME NEW file, IsReadable(file), NEW table
  PROVE  /\ IsList(RowParts(file, table)) /\ AllLists(RowParts(file, table))
         /\ Len(RowParts(file, table)) = Len(file.lines)
         /\ RowsOf(file, table) = FlattenSeq(RowParts(file, table))
         /\ IsList(RowsOf(file, table))
<1>. DEFINE f == RowParts(file, table)
<1>1. IsList(f) /\ Len(f) = Len(file.lines) /\ DOMAIN f = DOMAIN file.lines
  BY ReadableLines, ListMapped DEF RowParts
<1>2. AllLists(f)
  BY <1>1, ListSingle, ListEmpty DEF AllLists, RowParts
<1>3. RowsOf(file, table) = FlattenSeq(f)
  BY DEF RowsOf, RowParts
<1>. HIDE DEF f
<1>4. IsList(FlattenSeq(f))
  BY <1>1, <1>2, FlattenList
<1>. QED  BY <1>1, <1>2, <1>3, <1>4 DEF f

LEMMA TablePartsList ==
  ASSUME NEW file, IsReadable(file)
  PROVE  /\ IsList(TableParts(file)) /\ AllLists(TableParts(file))
         /\ Len(TableParts(file)) = Len(file.lines)
         /\ Tables(file) = FlattenSeq(TableParts(file))
         /\ IsList(Tables(file))
<1>. DEFINE f == TableParts(file)
<1>1. IsList(f) /\ Len(f) = Len(file.lines) /\ DOMAIN f = DOMAIN file.lines
  BY ReadableLines, ListMapped DEF TableParts
<1>2. AllLists(f)
  BY <1>1, ListSingle, ListEmpty DEF AllLists, TableParts
<1>3. Tables(file) = FlattenSeq(f)
  BY DEF Tables, TableParts
<1>. HIDE DEF f
<1>4. IsList(FlattenSeq(f))
  BY <1>1, <1>2, FlattenList
<1>. QED  BY <1>1, <1>2, <1>3, <1>4 DEF f

\* A row of a table is a row of the container with the table's name.
LEMMA RowsAre ==
  ASSUME NEW file, IsReadable(file), NEW table, NEW row \in ToSet(RowsOf(file, table))
  PROVE  \E n \in DOMAIN file.lines :
           /\ IsRow(file.lines[n]) /\ TableAt(file, n) = table
           /\ row = Wrapped(file.lines[n].rec, n)
<1>. DEFINE f == RowParts(file, table)
<1>1. PICK n \in DOMAIN f : row \in ToSet(f[n])
  BY RowPartsList, FlattenMembers
<1>2. n \in DOMAIN file.lines
  BY DEF RowParts
<1>3. f[n] = IF IsRow(file.lines[n]) /\ TableAt(file, n) = table
             THEN <<Wrapped(file.lines[n].rec, n)>> ELSE << >>
  BY <1>2 DEF RowParts
<1>. HIDE DEF f
<1>4. CASE IsRow(file.lines[n]) /\ TableAt(file, n) = table
  <2>1. f[n] = <<Wrapped(file.lines[n].rec, n)>>
    BY <1>3, <1>4
  <2>2. row = Wrapped(file.lines[n].rec, n)
    BY <1>1, <2>1 DEF ToSet
  <2>. QED  BY <1>2, <1>4, <2>2
<1>5. CASE ~(IsRow(file.lines[n]) /\ TableAt(file, n) = table)
  BY <1>1, <1>3, <1>5 DEF ToSet
<1>. QED  BY <1>4, <1>5

LEMMA TableReadable ==
  ASSUME NEW file, IsReadable(file), NEW table
  PROVE  IsReadable(TableOf(file, table))
<1>. DEFINE rows == RowsOf(file, table)
<1>1. IsList(rows)
  BY RowPartsList
<1>2. ASSUME NEW i \in DOMAIN rows
      PROVE  {"parser", "entries"} \subseteq DOMAIN rows[i].rec /\ IsList(rows[i].rec.entries)
  <2>1. rows[i] \in ToSet(rows)
    BY DEF ToSet
  <2>2. PICK n \in DOMAIN file.lines : rows[i] = Wrapped(file.lines[n].rec, n)
    BY <2>1, RowsAre
  <2>3. /\ {"parser", "entries"} \subseteq DOMAIN file.lines[n].rec
        /\ IsList(file.lines[n].rec.entries)
    BY ReadableLines
  <2>. QED  BY <2>2, <2>3, WrappedKeeps
<1>3. TableOf(file, table).lines = rows
  BY DEF TableOf, TableFile
<1>. HIDE DEF rows
<1>. QED  BY <1>1, <1>2, <1>3, ListedIsList DEF IsReadable

LEMMA TablesAre ==
  ASSUME NEW file, IsReadable(file), NEW unit \in ToSet(Tables(file))
  PROVE  \E n \in DOMAIN file.lines :
           NamesFirst(file, n) /\ unit = TableOf(file, TableAt(file, n))
<1>. DEFINE f == TableParts(file)
<1>1. PICK n \in DOMAIN f : unit \in ToSet(f[n])
  BY TablePartsList, FlattenMembers
<1>2. n \in DOMAIN file.lines
  BY DEF TableParts
<1>3. f[n] = IF NamesFirst(file, n) THEN <<TableOf(file, TableAt(file, n))>> ELSE << >>
  BY <1>2 DEF TableParts
<1>. HIDE DEF f
<1>4. CASE NamesFirst(file, n)
  <2>1. f[n] = <<TableOf(file, TableAt(file, n))>>
    BY <1>3, <1>4
  <2>2. unit = TableOf(file, TableAt(file, n))
    BY <1>1, <2>1 DEF ToSet
  <2>. QED  BY <1>2, <1>4, <2>2
<1>5. CASE ~NamesFirst(file, n)
  BY <1>1, <1>3, <1>5 DEF ToSet
<1>. QED  BY <1>4, <1>5

\* What is parsed is readable.
LEMMA UnitsReadable ==
  ASSUME NEW file, IsReadable(file)
  PROVE  IsList(Units(file)) /\ \A unit \in ToSet(Units(file)) : IsReadable(unit)
<1>1. CASE IsRawL2t(file)
  <2>1. Units(file) = Tables(file)
    BY <1>1 DEF Units
  <2>2. ASSUME NEW unit \in ToSet(Tables(file))
        PROVE  IsReadable(unit)
    BY TablesAre, TableReadable
  <2>. QED  BY <2>1, <2>2, TablePartsList
<1>2. CASE ~IsRawL2t(file)
  <2>1. Units(file) = <<file>>
    BY <1>2 DEF Units
  <2>2. ToSet(<<file>>) = {file}
    BY DEF ToSet
  <2>. QED  BY <2>1, <2>2, ListSingle
<1>. QED  BY <1>1, <1>2

\* The events of several units.
LEMMA AllEventsList ==
  ASSUME NEW units, IsList(units), \A unit \in ToSet(units) : IsReadable(unit)
  PROVE  /\ IsList(AllEvents(units))
         /\ \A unit : IsReadable(unit) =>
              /\ IsList(UnitEvents(unit))
              /\ AllEvents(<<unit>> \o units) = UnitEvents(unit) \o AllEvents(units)
<1>. DEFINE f == [i \in DOMAIN units |-> UnitEvents(units[i])]
<1>1. \A unit : IsReadable(unit) => IsList(UnitEvents(unit))
  BY LinesList DEF UnitEvents
<1>2. IsList(f) /\ DOMAIN f = DOMAIN units /\ Len(f) = Len(units)
  BY ListMapped
<1>3. AllLists(f)
  BY <1>1, <1>2 DEF AllLists, ToSet
<1>4. AllEvents(units) = FlattenSeq(f)
  BY DEF AllEvents
<1>5. IsList(FlattenSeq(f))
  <2>. HIDE DEF f
  <2>. QED  BY <1>2, <1>3, FlattenList
<1>6. ASSUME NEW unit, IsReadable(unit)
      PROVE  AllEvents(<<unit>> \o units) = UnitEvents(unit) \o AllEvents(units)
  <2>. DEFINE one == <<unit>>
              all == one \o units
              g == [i \in DOMAIN all |-> UnitEvents(all[i])]
              x == UnitEvents(unit)
  <2>1. IsList(one) /\ Len(one) = 1 /\ one[1] = unit
    BY ListSingle
  <2>2. /\ Len(units) \in Nat /\ IsList(all) /\ Len(all) = 1 + Len(units)
        /\ \A i \in 1 .. 1 + Len(units) : all[i] = IF i <= 1 THEN one[i] ELSE units[i - 1]
    <3>. HIDE DEF one
    <3>1. /\ IsList(one \o units) /\ Len(one \o units) = Len(one) + Len(units)
          /\ \A i \in 1 .. Len(one) + Len(units) :
               (one \o units)[i] = IF i <= Len(one) THEN one[i] ELSE units[i - Len(one)]
      BY ONLY <2>1, IsList(units), ListConcat
    <3>. QED  BY <2>1, <3>1, ListLen
  <2>. HIDE DEF one, all
  <2>3. IsList(g) /\ Len(g) = Len(all) /\ DOMAIN g = DOMAIN all
    BY <2>2, ListMapped
  <2>4. IsList(<<x>>) /\ Len(<<x>>) = 1 /\ <<x>>[1] = x
    BY ListSingle
  <2>5. /\ IsList(<<x>> \o f) /\ Len(<<x>> \o f) = 1 + Len(f)
        /\ \A i \in 1 .. 1 + Len(f) : (<<x>> \o f)[i] = IF i <= 1 THEN x ELSE f[i - 1]
    <3>. DEFINE y == <<x>>
    <3>. HIDE DEF y, f, x
    <3>0. IsList(y) /\ Len(y) = 1 /\ y[1] = x
      BY <2>4 DEF y
    <3>1. /\ IsList(y \o f) /\ Len(y \o f) = Len(y) + Len(f)
          /\ \A i \in 1 .. Len(y) + Len(f) :
               (y \o f)[i] = IF i <= Len(y) THEN y[i] ELSE f[i - Len(y)]
      BY ONLY <3>0, <1>2, ListConcat
    <3>2. Len(f) \in Nat
      BY <1>2, ListLen
    <3>3. \A i \in 1 .. 1 + Len(f) : i <= 1 => i = 1
      BY <3>2
    <3>. QED  BY <3>0, <3>1, <3>3 DEF y
  <2>6. ASSUME NEW i \in 1 .. 1 + Len(units)
        PROVE  g[i] = (<<x>> \o f)[i]
    <3>0. i \in DOMAIN all
      BY <2>2, ListLen
    <3>1. CASE i = 1
      BY <1>2, <2>1, <2>2, <2>5, <3>0, <3>1
    <3>2. CASE i # 1
      <4>1. i - 1 \in DOMAIN units /\ ~(i <= 1)
        BY <2>2, <3>2, ListLen
      <4>2. g[i] = UnitEvents(units[i - 1])
        BY <2>2, <3>0, <4>1
      <4>3. (<<x>> \o f)[i] = f[i - 1]
        BY <1>2, <2>5, <4>1
      <4>. QED  BY <4>1, <4>2, <4>3
    <3>. QED  BY <3>1, <3>2
  <2>. HIDE DEF g, f, x
  <2>7. g = <<x>> \o f
    <3>1. Len(g) = Len(<<x>> \o f) /\ Len(g) = 1 + Len(units)
      BY <1>2, <2>2, <2>3, <2>5
    <3>. QED  BY <2>3, <2>5, <2>6, <3>1, ListEqual
  <2>8. IsList(x)
    BY <1>1, <1>6 DEF x
  <2>9. FlattenSeq(<<x>> \o f) = x \o FlattenSeq(f)
    BY <1>2, <1>3, <2>8, FlattenCons
  <2>10. AllEvents(all) = FlattenSeq(g)
    BY DEF AllEvents, g
  <2>. QED  BY <1>4, <2>7, <2>9, <2>10 DEF all, one, x
<1>. QED  BY <1>1, <1>4, <1>5, <1>6

LEMMA AllEventsFew ==
  /\ AllEvents(<< >>) = << >>
  /\ \A unit : IsReadable(unit) => AllEvents(<<unit>>) = UnitEvents(unit)
<1>1. AllEvents(<< >>) = << >>
  <2>1. [i \in DOMAIN << >> |-> UnitEvents(<< >>[i])] = << >>
    OBVIOUS
  <2>. QED  BY <2>1, FlattenEmpty DEF AllEvents
<1>2. ASSUME NEW unit, IsReadable(unit)
      PROVE  AllEvents(<<unit>>) = UnitEvents(unit)
  <2>1. \A u \in ToSet(<< >>) : IsReadable(u)
    BY DEF ToSet
  <2>2. /\ AllEvents(<<unit>> \o << >>) = UnitEvents(unit) \o AllEvents(<< >>)
        /\ IsList(UnitEvents(unit))
    BY <1>2, <2>1, ListEmpty, AllEventsList
  <2>3. <<unit>> \o << >> = <<unit>> /\ UnitEvents(unit) \o << >> = UnitEvents(unit)
    BY <2>2, ListSingle, ListConcat, Zenon
  <2>. QED  BY <1>1, <2>2, <2>3
<1>. QED  BY <1>1, <1>2

-----------------------------------------------------------------------------
(* Events cut in two, and read back.                                       *)

Half(event, part) == [event |-> event, part |-> part]
Halves(event) == <<Half(event, 1), Half(event, 2)>>
Halved(g, h, rest, all) == (Tokens(g) \o h) \o rest = Tokens(all)
OneHalf(h) == h = << >> \/ \E e : h = <<Half(e, 1)>>
TokenParts(made) == [i \in DOMAIN made |-> Halves(made[i])]

LEMMA HalvesList ==
  ASSUME NEW event
  PROVE  /\ IsList(Halves(event)) /\ Len(Halves(event)) = 2
         /\ Halves(event)[1] = Half(event, 1) /\ Halves(event)[2] = Half(event, 2)
  BY DEF IsList, ToSet, Halves

LEMMA TokensParts ==
  ASSUME NEW made, IsList(made)
  PROVE  /\ IsList(TokenParts(made)) /\ AllLists(TokenParts(made))
         /\ Len(TokenParts(made)) = Len(made)
         /\ Tokens(made) = FlattenSeq(TokenParts(made)) /\ IsList(Tokens(made))
<1>. DEFINE f == TokenParts(made)
<1>1. IsList(f) /\ Len(f) = Len(made)
  BY ListMapped DEF TokenParts
<1>2. AllLists(f)
  BY HalvesList DEF AllLists, TokenParts
<1>3. Tokens(made) = FlattenSeq(f)
  BY DEF Tokens, TokenParts, Halves, Half
<1>. HIDE DEF f
<1>4. IsList(FlattenSeq(f))
  BY <1>1, <1>2, FlattenList
<1>. QED  BY <1>1, <1>2, <1>3, <1>4 DEF f

LEMMA TokensEmpty == Tokens(<< >>) = << >>
<1>1. TokenParts(<< >>) = << >>
  <2>1. [i \in DOMAIN << >> |-> Halves(<< >>[i])] = << >>
    OBVIOUS
  <2>. QED  BY <2>1 DEF TokenParts
<1>2. Tokens(<< >>) = FlattenSeq(TokenParts(<< >>))
  BY DEF Tokens, TokenParts, Halves, Half
<1>. QED  BY <1>1, <1>2, FlattenEmpty

LEMMA TokensAppend ==
  ASSUME NEW made, IsList(made), NEW event
  PROVE  Tokens(Append(made, event)) = Tokens(made) \o Halves(event)
<1>. DEFINE more == Append(made, event)
            p == TokenParts(made)
            q == Append(p, Halves(event))
<1>1. IsList(more) /\ IsList(p) /\ Len(p) = Len(made) /\ Len(made) \in Nat
  BY ListAppend, TokensParts, ListLen, Zenon
<1>2. Len(more) = Len(made) + 1 /\ more[Len(made) + 1] = event
  BY ListAppend, Zenon
<1>3. \A i \in 1 .. Len(made) : more[i] = made[i]
  BY ListAppend, Zenon
<1>4. IsList(q) /\ Len(q) = Len(p) + 1 /\ q[Len(p) + 1] = Halves(event)
  BY <1>1, ListAppend, Zenon
<1>5. \A i \in 1 .. Len(p) : q[i] = p[i]
  BY <1>1, ListAppend, Zenon
<1>6. Len(TokenParts(more)) = Len(more) /\ IsList(TokenParts(more))
  BY <1>1, TokensParts, Zenon
<1>7. ASSUME NEW i \in 1 .. Len(made) + 1
      PROVE  TokenParts(more)[i] = q[i]
  <2>. HIDE DEF more, q
  <2>1. TokenParts(more)[i] = Halves(more[i])
    BY <1>1, <1>2, ListLen DEF TokenParts
  <2>2. CASE i = Len(made) + 1
    BY <1>1, <1>2, <1>4, <2>1, <2>2
  <2>3. CASE i # Len(made) + 1
    <3>1. i \in 1 .. Len(made) /\ i \in DOMAIN made
      BY <1>1, <2>3, ListLen
    <3>2. p[i] = Halves(made[i])
      BY <3>1 DEF TokenParts
    <3>. QED  BY <1>1, <1>3, <1>5, <2>1, <3>1, <3>2
  <2>. QED  BY <2>2, <2>3
<1>. HIDE DEF more, p, q
<1>8. TokenParts(more) = q
  BY <1>1, <1>2, <1>4, <1>6, <1>7, ListEqual
<1>9. FlattenSeq(q) = FlattenSeq(p) \o Halves(event)
  <2>1. IsList(Halves(event))
    BY HalvesList
  <2>. QED  BY <1>1, <2>1, FlattenAppend DEF q
<1>10. Tokens(more) = FlattenSeq(TokenParts(more)) /\ Tokens(made) = FlattenSeq(p)
  BY <1>1, TokensParts DEF p
<1>. QED  BY <1>8, <1>9, <1>10 DEF more

\* The two halves of an event lie side by side.
LEMMA TokensIndex ==
  ASSUME NEW made, IsList(made)
  PROVE  /\ Len(Tokens(made)) = 2 * Len(made)
         /\ \A k \in 1 .. Len(made) :
              /\ Tokens(made)[2 * k - 1] = Half(made[k], 1)
              /\ Tokens(made)[2 * k] = Half(made[k], 2)
<1>. DEFINE P(m) == Tokens(Prefix(made, m))
            Good(m) == /\ Len(P(m)) = 2 * m
                       /\ \A k \in 1 .. m : /\ P(m)[2 * k - 1] = Half(made[k], 1)
                                            /\ P(m)[2 * k] = Half(made[k], 2)
            T == {m \in Nat : m <= Len(made) => Good(m)}
<1>0. Len(made) \in Nat
  BY ListLen
<1>1. 0 \in T
  <2>1. P(0) = << >>
    BY PrefixNext, TokensEmpty
  <2>2. Len(<< >>) = 0
    OBVIOUS
  <2>. HIDE DEF P
  <2>. QED  BY <2>1, <2>2
<1>2. ASSUME NEW m \in T
      PROVE  m + 1 \in T
  <2>. SUFFICES ASSUME m + 1 <= Len(made)
                PROVE  Good(m + 1)
    OBVIOUS
  <2>. DEFINE a == P(m)
              x == made[m + 1]
              b == Halves(x)
  <2>1. m \in Nat /\ m < Len(made) /\ m \in 0 .. Len(made)
    BY <1>0
  <2>2. Good(m)
    BY <1>0, <2>1
  <2>3. IsList(Prefix(made, m)) /\ IsList(a)
    BY <2>1, PrefixList, TokensParts
  <2>4. P(m + 1) = a \o b
    BY <2>1, <2>3, PrefixNext, TokensAppend
  <2>5. IsList(b) /\ Len(b) = 2 /\ b[1] = Half(x, 1) /\ b[2] = Half(x, 2)
    BY HalvesList
  <2>6. Len(a) = 2 * m
    BY <2>2
  <2>7. \A k \in 1 .. m : a[2 * k - 1] = Half(made[k], 1) /\ a[2 * k] = Half(made[k], 2)
    BY <2>2
  <2>. HIDE DEF a, b, x, P
  <2>8. /\ Len(a \o b) = Len(a) + Len(b)
        /\ \A i \in 1 .. Len(a) + Len(b) :
             (a \o b)[i] = IF i <= Len(a) THEN a[i] ELSE b[i - Len(a)]
    BY ONLY <2>3, <2>5, ListConcat
  <2>9. ASSUME NEW k \in 1 .. m + 1
        PROVE  /\ (a \o b)[2 * k - 1] = Half(made[k], 1)
               /\ (a \o b)[2 * k] = Half(made[k], 2)
    <3>0. 2 * k - 1 \in 1 .. Len(a) + Len(b) /\ 2 * k \in 1 .. Len(a) + Len(b)
      BY <2>1, <2>5, <2>6
    <3>1. CASE k \in 1 .. m
      <4>1. 2 * k - 1 <= Len(a) /\ 2 * k <= Len(a)
        BY <2>1, <2>6, <3>1
      <4>. QED  BY <2>7, <2>8, <3>0, <3>1, <4>1
    <3>2. CASE k = m + 1
      <4>1. /\ ~(2 * k - 1 <= Len(a)) /\ ~(2 * k <= Len(a))
            /\ (2 * k - 1) - Len(a) = 1 /\ 2 * k - Len(a) = 2
        BY <2>1, <2>6, <3>2
      <4>2. (a \o b)[2 * k - 1] = b[1] /\ (a \o b)[2 * k] = b[2]
        BY <2>8, <3>0, <4>1
      <4>3. made[k] = x
        BY <3>2 DEF x
      <4>. QED  BY ONLY <2>5, <4>2, <4>3
    <3>3. k \in 1 .. m \/ k = m + 1
      BY <2>1
    <3>. QED  BY ONLY <3>1, <3>2, <3>3
  <2>10. Len(P(m + 1)) = 2 * (m + 1)
    BY <2>1, <2>4, <2>5, <2>6, <2>8
  <2>11. \A k \in 1 .. m + 1 : /\ P(m + 1)[2 * k - 1] = Half(made[k], 1)
                               /\ P(m + 1)[2 * k] = Half(made[k], 2)
    BY ONLY <2>4, <2>9
  <2>. QED  BY ONLY <2>10, <2>11
<1>. HIDE DEF T
<1>3. T = Nat
  <2>1. T \in SUBSET Nat
    BY DEF T
  <2>. QED  BY <1>1, <1>2, <2>1, NaturalsByInduction
<1>4. Good(Len(made))
  BY <1>0, <1>3 DEF T
<1>5. P(Len(made)) = Tokens(made)
  BY PrefixNext
<1>. QED  BY <1>4, <1>5

LEMMA TokensConcat ==
  ASSUME NEW a, IsList(a), NEW b, IsList(b)
  PROVE  Tokens(a \o b) = Tokens(a) \o Tokens(b)
<1>. DEFINE T == {m \in Nat : m <= Len(b) =>
                    Tokens(a \o Prefix(b, m)) = Tokens(a) \o Tokens(Prefix(b, m))}
<1>0. IsList(Tokens(a)) /\ Len(b) \in Nat
  BY TokensParts, ListLen
<1>1. 0 \in T
  <2>1. a \o << >> = a /\ Tokens(a) \o << >> = Tokens(a)
    BY <1>0, ListConcat, Zenon
  <2>2. Prefix(b, 0) = << >>
    BY PrefixNext
  <2>3. Tokens(a \o Prefix(b, 0)) = Tokens(a) \o Tokens(Prefix(b, 0))
    BY <2>1, <2>2, TokensEmpty, Zenon
  <2>. QED  BY <2>3
<1>2. ASSUME NEW m \in T
      PROVE  m + 1 \in T
  <2>. SUFFICES ASSUME m + 1 <= Len(b)
                PROVE  Tokens(a \o Prefix(b, m + 1)) = Tokens(a) \o Tokens(Prefix(b, m + 1))
    OBVIOUS
  <2>. DEFINE p == Prefix(b, m)
              x == b[m + 1]
  <2>1. m \in Nat /\ m < Len(b) /\ m \in 0 .. Len(b)
    BY <1>0
  <2>2. Tokens(a \o p) = Tokens(a) \o Tokens(p) /\ IsList(p)
    BY <1>0, <2>1, PrefixList
  <2>3. Prefix(b, m + 1) = Append(p, x)
    BY <2>1, PrefixNext
  <2>. HIDE DEF p, x
  <2>4. IsList(a \o p) /\ IsList(Tokens(p)) /\ IsList(Halves(x))
    BY <2>2, ListConcat, TokensParts, HalvesList, Zenon
  <2>5. Tokens(Append(p, x)) = Tokens(p) \o Halves(x)
    BY <2>2, TokensAppend
  <2>6. Tokens(Append(a \o p, x)) = Tokens(a \o p) \o Halves(x)
    BY <2>4, TokensAppend
  <2>7. a \o Append(p, x) = Append(a \o p, x)
    <3>. DEFINE one == <<x>>
    <3>1. Append(p, x) = p \o one /\ IsList(one) /\ Append(a \o p, x) = (a \o p) \o one
      BY <2>2, <2>4, ListAppend, ListSingle, Zenon
    <3>. HIDE DEF one
    <3>2. IsList(a) /\ IsList(p) /\ IsList(one)
      BY <2>2, <3>1
    <3>3. (a \o p) \o one = a \o (p \o one)
      BY ONLY <3>2, ListAssociative, SMT
    <3>. QED  BY <3>1, <3>3
  <2>8. (Tokens(a) \o Tokens(p)) \o Halves(x) = Tokens(a) \o (Tokens(p) \o Halves(x))
    <3>. DEFINE u == Tokens(a)
                v == Tokens(p)
                w == Halves(x)
    <3>1. IsList(u) /\ IsList(v) /\ IsList(w)
      BY <1>0, <2>4
    <3>. HIDE DEF u, v, w
    <3>2. (u \o v) \o w = u \o (v \o w)
      BY ONLY <3>1, ListAssociative, SMT
    <3>. QED  BY <3>2 DEF u, v, w
  <2>. QED  BY <2>2, <2>3, <2>5, <2>6, <2>7, <2>8
<1>. HIDE DEF T
<1>3. T = Nat
  <2>1. T \in SUBSET Nat
    BY DEF T
  <2>. QED  BY <1>1, <1>2, <2>1, NaturalsByInduction
<1>4. Len(b) \in T
  BY <1>0, <1>3
<1>. QED  BY <1>0, <1>4, PrefixNext DEF T

\* What is read next: the other half of the event under way, or the first
\* half of the next.
LEMMA NextToken ==
  ASSUME NEW g, IsList(g), NEW all, IsList(all), NEW h, NEW rest,
         OneHalf(h), IsList(rest), rest # << >>, Halved(g, h, rest, all)
  PROVE  /\ h = << >> => Head(rest) = Half(Head(rest).event, 1)
         /\ \A e : h = <<Half(e, 1)>> => Head(rest) = Half(e, 2)
<1>. DEFINE m == Len(g)
            n == Len(all)
            t == Tokens(all)
            u == Tokens(g)
<1>0. IsList(t) /\ IsList(u) /\ IsList(h)
  BY TokensParts, ListEmpty, ListSingle DEF OneHalf
<1>1. m \in Nat /\ n \in Nat /\ Len(u) = 2 * m /\ Len(t) = 2 * n
  BY ListLen, TokensIndex
<1>2. \A k \in 1 .. n : t[2 * k - 1] = Half(all[k], 1) /\ t[2 * k] = Half(all[k], 2)
  BY TokensIndex
<1>3. Len(rest) \in Nat /\ Len(rest) >= 1 /\ Head(rest) = rest[1]
  BY ListHeadTail, ListLen
<1>. HIDE DEF m, n, t, u
<1>. DEFINE v == u \o h
<1>4. /\ IsList(v) /\ Len(v) = Len(u) + Len(h) /\ Len(h) \in Nat
      /\ \A i \in 1 .. Len(u) + Len(h) : v[i] = IF i <= Len(u) THEN u[i] ELSE h[i - Len(u)]
  BY ONLY <1>0, ListConcat, ListLen
<1>. HIDE DEF v
<1>5. /\ Len(t) = Len(v) + Len(rest)
      /\ \A i \in 1 .. Len(v) + Len(rest) : t[i] = IF i <= Len(v) THEN v[i] ELSE rest[i - Len(v)]
  <2>1. t = v \o rest
    BY DEF t, u, v, Halved
  <2>2. /\ Len(v \o rest) = Len(v) + Len(rest)
        /\ \A i \in 1 .. Len(v) + Len(rest) :
             (v \o rest)[i] = IF i <= Len(v) THEN v[i] ELSE rest[i - Len(v)]
    BY ONLY <1>4, IsList(rest), ListConcat
  <2>. QED  BY <2>1, <2>2
<1>6. t[Len(v) + 1] = Head(rest) /\ Len(v) + 1 <= Len(t)
  <2>1. Len(v) \in Nat
    BY <1>4, ListLen
  <2>2. Len(v) + 1 \in 1 .. Len(v) + Len(rest) /\ ~(Len(v) + 1 <= Len(v))
        /\ (Len(v) + 1) - Len(v) = 1
    BY <1>3, <2>1
  <2>. QED  BY <1>3, <1>5, <2>1, <2>2
<1>7. ASSUME h = << >>
      PROVE  Head(rest) = Half(Head(rest).event, 1)
  <2>1. Len(h) = 0
    BY <1>7
  <2>2. Len(v) = 2 * m
    BY <1>1, <1>4, <2>1
  <2>3. m + 1 \in 1 .. n /\ 2 * (m + 1) - 1 = Len(v) + 1
    BY <1>1, <1>6, <2>2
  <2>4. Head(rest) = Half(all[m + 1], 1)
    BY <1>2, <1>6, <2>3
  <2>. QED  BY <2>4 DEF Half
<1>8. ASSUME NEW e, h = <<Half(e, 1)>>
      PROVE  Head(rest) = Half(e, 2)
  <2>1. Len(h) = 1 /\ h[1] = Half(e, 1)
    BY <1>8
  <2>2. Len(v) = 2 * m + 1
    BY <1>1, <1>4, <2>1
  <2>3. m + 1 \in 1 .. n /\ 2 * (m + 1) = Len(v) + 1 /\ 2 * (m + 1) - 1 = Len(v)
    BY <1>1, <1>6, <2>2
  <2>4. Head(rest) = Half(all[m + 1], 2)
    BY <1>2, <1>6, <2>3
  <2>5. t[Len(v)] = Half(e, 1)
    <3>1. Len(v) \in 1 .. Len(v) + Len(rest) /\ Len(v) <= Len(v)
          /\ ~(Len(v) <= Len(u)) /\ Len(v) - Len(u) = 1 /\ Len(v) \in 1 .. Len(u) + Len(h)
      BY <1>1, <1>3, <2>1, <2>2
    <3>2. t[Len(v)] = v[Len(v)]
      BY <1>5, <3>1
    <3>3. v[Len(v)] = h[1]
      BY <1>4, <3>1
    <3>. QED  BY <2>1, <3>2, <3>3
  <2>6. all[m + 1] = e
    <3>1. Half(all[m + 1], 1) = Half(e, 1)
      BY <1>2, <2>3, <2>5
    <3>2. Half(all[m + 1], 1).event = Half(e, 1).event
      BY <3>1
    <3>. QED  BY <3>2 DEF Half
  <2>. QED  BY <2>4, <2>6
<1>. QED  BY <1>7, <1>8

\* When everything was read, nothing is left in half and nothing is missing.
LEMMA AllTokens ==
  ASSUME NEW g, IsList(g), NEW all, IsList(all), NEW h,
         OneHalf(h),
         Tokens(g) \o h = Tokens(all)
  PROVE  h = << >> /\ g = all
<1>. DEFINE m == Len(g)
            n == Len(all)
            t == Tokens(all)
            u == Tokens(g)
<1>0. IsList(t) /\ IsList(u) /\ IsList(h)
  BY TokensParts, ListEmpty, ListSingle DEF OneHalf
<1>1. m \in Nat /\ n \in Nat /\ Len(u) = 2 * m /\ Len(t) = 2 * n
  BY ListLen, TokensIndex
<1>2. Len(t) = Len(u) + Len(h) /\ u \o << >> = u
  BY ONLY <1>0, ListConcat, Tokens(g) \o h = Tokens(all)
<1>3. h = << >>
  <2>1. ASSUME NEW e, h = <<Half(e, 1)>>
        PROVE  FALSE
    <3>1. Len(h) = 1
      BY <2>1
    <3>. HIDE DEF m, n, t, u
    <3>2. 2 * n = 2 * m + 1
      BY <1>1, <1>2, <3>1
    <3>. QED  BY <1>1, <3>2
  <2>. QED  BY <2>1 DEF OneHalf
<1>4. t = u
  BY <1>2, <1>3
<1>5. m = n
  <2>. HIDE DEF m, n, t, u
  <2>. QED  BY <1>1, <1>4
<1>6. ASSUME NEW k \in 1 .. m
      PROVE  g[k] = all[k]
  <2>1. u[2 * k] = Half(g[k], 2)
    BY TokensIndex
  <2>2. t[2 * k] = Half(all[k], 2)
    BY <1>5, TokensIndex
  <2>3. Half(g[k], 2).event = Half(all[k], 2).event
    <3>. HIDE DEF t, u
    <3>. QED  BY <1>4, <2>1, <2>2
  <2>. QED  BY <2>3 DEF Half
<1>. QED  BY <1>3, <1>5, <1>6, ListEqual

-----------------------------------------------------------------------------
(* The tables of one line more.                                            *)

LEMMA CutReadable ==
  ASSUME NEW file, IsReadable(file), NEW n \in 0 .. Len(file.lines)
  PROVE  /\ IsReadable(Cut(file, n)) /\ Len(Cut(file, n).lines) = n
         /\ DOMAIN Cut(file, n).lines = 1 .. n
         /\ \A k \in 1 .. n : Cut(file, n).lines[k] = file.lines[k] /\ k \in DOMAIN file.lines
         /\ Cut(file, n).name = file.name
<1>1. IsList(file.lines) /\ Len(file.lines) \in Nat /\ DOMAIN file.lines = 1 .. Len(file.lines)
  BY ReadableLines
<1>2. Cut(file, n).lines = Prefix(file.lines, n) /\ Cut(file, n).name = file.name
  BY DEF Cut
<1>3. /\ IsList(Prefix(file.lines, n)) /\ Len(Prefix(file.lines, n)) = n
      /\ \A k \in 1 .. n : Prefix(file.lines, n)[k] = file.lines[k]
  BY <1>1, PrefixList
<1>4. DOMAIN Prefix(file.lines, n) = 1 .. n
  BY <1>3, ListLen
<1>5. \A k \in 1 .. n : k \in DOMAIN file.lines
  BY <1>1
<1>6. \A k \in DOMAIN file.lines :
        {"parser", "entries"} \subseteq DOMAIN file.lines[k].rec /\ IsList(file.lines[k].rec.entries)
  BY ReadableLines
<1>7. IsReadable(Cut(file, n))
  BY <1>2, <1>3, <1>4, <1>5, <1>6, ListedIsList DEF IsReadable
<1>. QED  BY <1>2, <1>3, <1>4, <1>5, <1>7

LEMMA CutAll ==
  ASSUME NEW file, IsReadable(file)
  PROVE  Tables(Cut(file, Len(file.lines))) = Tables(file) /\ Tables(Cut(file, 0)) = << >>
<1>1. IsList(file.lines) /\ Len(file.lines) \in Nat
  BY ReadableLines
<1>2. /\ Cut(file, Len(file.lines)).lines = file.lines
      /\ Cut(file, Len(file.lines)).name = file.name
  BY <1>1, PrefixNext DEF Cut
<1>3. Tables(Cut(file, Len(file.lines))) = Tables(file)
  BY <1>2 DEF Tables, NamesFirst, TableOf, TableFile, RowsOf, TableAt
<1>. DEFINE none == Cut(file, 0)
<1>4. IsReadable(none) /\ Len(none.lines) = 0
  BY <1>1, CutReadable
<1>. HIDE DEF none
<1>5. Tables(none) = << >>
  <2>1. /\ IsList(TableParts(none)) /\ Len(TableParts(none)) = 0
        /\ Tables(none) = FlattenSeq(TableParts(none))
    BY <1>4, TablePartsList
  <2>2. TableParts(none) = << >>
    BY <2>1, ListLen
  <2>. QED  BY <2>1, <2>2, FlattenEmpty
<1>. QED  BY <1>3, <1>5 DEF none

\* The rows of a table grow by the line, when the line is one of them.
LEMMA RowsNext ==
  ASSUME NEW file, IsReadable(file), NEW n \in Nat, n < Len(file.lines), NEW table
  PROVE  RowsOf(Cut(file, n + 1), table) =
           IF IsRow(file.lines[n + 1]) /\ TableAt(file, n + 1) = table
           THEN Append(RowsOf(Cut(file, n), table), Wrapped(file.lines[n + 1].rec, n + 1))
           ELSE RowsOf(Cut(file, n), table)
<1>. DEFINE f == Cut(file, n)
            g == Cut(file, n + 1)
            p == RowParts(f, table)
            q == RowParts(g, table)
            row == Wrapped(file.lines[n + 1].rec, n + 1)
            last == IF IsRow(file.lines[n + 1]) /\ TableAt(file, n + 1) = table
                    THEN <<row>> ELSE << >>
<1>0. Len(file.lines) \in Nat /\ n \in 0 .. Len(file.lines) /\ n + 1 \in 0 .. Len(file.lines)
  BY ReadableLines
<1>1. /\ IsReadable(f) /\ Len(f.lines) = n /\ DOMAIN f.lines = 1 .. n
      /\ \A k \in 1 .. n : f.lines[k] = file.lines[k]
  BY <1>0, CutReadable
<1>2. /\ IsReadable(g) /\ Len(g.lines) = n + 1 /\ DOMAIN g.lines = 1 .. n + 1
      /\ \A k \in 1 .. n + 1 : g.lines[k] = file.lines[k]
  BY <1>0, CutReadable
<1>. HIDE DEF f, g
<1>3. IsList(p) /\ Len(p) = n /\ AllLists(p) /\ RowsOf(f, table) = FlattenSeq(p)
  BY <1>1, RowPartsList
<1>4. IsList(q) /\ Len(q) = n + 1 /\ AllLists(q) /\ RowsOf(g, table) = FlattenSeq(q)
  BY <1>2, RowPartsList
<1>5. Prefix(q, n) = p
  <2>0. n \in 0 .. Len(q)
    BY <1>4
  <2>1. IsList(Prefix(q, n)) /\ Len(Prefix(q, n)) = n /\ \A k \in 1 .. n : Prefix(q, n)[k] = q[k]
    BY <1>4, <2>0, PrefixList
  <2>2. ASSUME NEW k \in 1 .. n
        PROVE  q[k] = p[k]
    <3>1. k \in 1 .. n + 1 /\ f.lines[k] = g.lines[k]
      BY <1>1, <1>2
    <3>. QED  BY <1>1, <1>2, <3>1 DEF RowParts, TableAt
  <2>. QED  BY <1>3, <2>1, <2>2, ListEqual
<1>6. q[n + 1] = last
  <2>1. n + 1 \in DOMAIN g.lines /\ g.lines[n + 1] = file.lines[n + 1]
    BY <1>2
  <2>. QED  BY <2>1 DEF RowParts, TableAt
<1>7. FlattenSeq(q) = FlattenSeq(p) \o last
  <2>1. FlattenSeq(Prefix(q, n + 1)) = FlattenSeq(Prefix(q, n)) \o q[n + 1]
    BY <1>4, FlattenNext
  <2>2. Prefix(q, n + 1) = q
    BY <1>4, PrefixNext
  <2>. QED  BY <1>5, <1>6, <2>1, <2>2
<1>8. IsList(RowsOf(f, table))
  BY <1>1, RowPartsList
<1>. HIDE DEF p, q, row
<1>9. CASE IsRow(file.lines[n + 1]) /\ TableAt(file, n + 1) = table
  <2>1. Append(RowsOf(f, table), row) = RowsOf(f, table) \o <<row>>
    BY <1>8, ListAppend, Zenon
  <2>. QED  BY <1>3, <1>4, <1>7, <1>9, <2>1 DEF f, g, row
<1>10. CASE ~(IsRow(file.lines[n + 1]) /\ TableAt(file, n + 1) = table)
  <2>1. RowsOf(f, table) \o << >> = RowsOf(f, table)
    BY <1>8, ListConcat, Zenon
  <2>. QED  BY <1>3, <1>4, <1>7, <1>10, <2>1 DEF f, g
<1>. QED  BY <1>9, <1>10

\* A table that a line has named has its name in every row.
LEMMA TableNamed ==
  ASSUME NEW file, IsReadable(file), NEW n \in DOMAIN file.lines, IsRow(file.lines[n])
  PROVE  LET unit == TableOf(file, TableAt(file, n))
         IN /\ unit.lines = RowsOf(file, TableAt(file, n))
            /\ unit.lines # << >>
            /\ TableName(Head(unit.lines).rec) = TableAt(file, n)
<1>. DEFINE table == TableAt(file, n)
            rows == RowsOf(file, table)
            unit == TableOf(file, table)
            w == Wrapped(file.lines[n].rec, n)
<1>1. unit.lines = rows
  BY DEF TableOf, TableFile
<1>2. IsList(rows) /\ rows = FlattenSeq(RowParts(file, table))
  BY RowPartsList
<1>3. w \in ToSet(rows)
  <2>1. RowParts(file, table)[n] = <<w>> /\ n \in DOMAIN RowParts(file, table)
    BY DEF RowParts
  <2>2. w \in ToSet(RowParts(file, table)[n])
    BY <2>1 DEF ToSet
  <2>. QED  BY <1>2, <2>1, <2>2, RowPartsList, FlattenHas
<1>4. rows # << >>
  BY <1>3 DEF ToSet
<1>5. Head(rows) \in ToSet(rows)
  <2>. HIDE DEF rows
  <2>1. Head(rows) = rows[1] /\ 1 \in DOMAIN rows
    BY <1>2, <1>4, ListHeadTail
  <2>. QED  BY <2>1 DEF ToSet
<1>6. PICK k \in DOMAIN file.lines :
        TableAt(file, k) = table /\ Head(rows) = Wrapped(file.lines[k].rec, k)
  BY <1>5, RowsAre
<1>7. TableName(Head(rows).rec) = table
  <2>1. {"parser", "entries"} \subseteq DOMAIN file.lines[k].rec
    BY ReadableLines
  <2>2. TableName(Wrapped(file.lines[k].rec, k).rec) = TableName(file.lines[k].rec)
    BY <2>1, WrappedKeeps
  <2>. QED  BY <1>6, <2>2 DEF TableAt
<1>. QED  BY <1>1, <1>4, <1>7

WithLine(files, file, line, row) ==
  IF ~IsRow(line) THEN files
  ELSE IF Known(files, TableName(line.rec)) # {}
  THEN WithRow(files, TableName(line.rec), row)
  ELSE Append(files, TableFile(file, TableName(line.rec), <<row>>))

LEMMA GrownFile ==
  ASSUME NEW a, NEW b, NEW c, NEW row, NEW unit,
         unit = [name |-> a, jsonl |-> b, lines |-> c]
  PROVE  Grown(unit, row) = [name |-> a, jsonl |-> b, lines |-> Append(c, row)]
  BY DEF Grown

\* What the splitter does with a line is what the line adds to the tables.
LEMMA TablesNext ==
  ASSUME NEW file, IsReadable(file), NEW n \in Nat, n < Len(file.lines)
  PROVE  Tables(Cut(file, n + 1)) =
           WithLine(Tables(Cut(file, n)), file, file.lines[n + 1],
                    Wrapped(file.lines[n + 1].rec, n + 1))
<1>. DEFINE f == Cut(file, n)
            g == Cut(file, n + 1)
            p == TableParts(f)
            q == TableParts(g)
            before == Prefix(q, n)
            line == file.lines[n + 1]
            row == Wrapped(line.rec, n + 1)
            table == TableName(line.rec)
            old == Tables(f)
<1>0. Len(file.lines) \in Nat /\ n \in 0 .. Len(file.lines) /\ n + 1 \in 0 .. Len(file.lines)
  BY ReadableLines
<1>1. /\ IsReadable(f) /\ Len(f.lines) = n /\ DOMAIN f.lines = 1 .. n /\ f.name = file.name
      /\ \A k \in 1 .. n : f.lines[k] = file.lines[k]
  BY <1>0, CutReadable
<1>2. /\ IsReadable(g) /\ Len(g.lines) = n + 1 /\ DOMAIN g.lines = 1 .. n + 1 /\ g.name = file.name
      /\ \A k \in 1 .. n + 1 : g.lines[k] = file.lines[k]
  BY <1>0, CutReadable
<1>3. \A s : RowsOf(g, s) = IF IsRow(line) /\ table = s THEN Append(RowsOf(f, s), row)
                                                      ELSE RowsOf(f, s)
  BY RowsNext DEF TableAt
<1>. HIDE DEF f, g
<1>4. IsList(p) /\ Len(p) = n /\ AllLists(p) /\ old = FlattenSeq(p) /\ IsList(old)
  BY <1>1, TablePartsList
<1>5. IsList(q) /\ Len(q) = n + 1 /\ AllLists(q) /\ Tables(g) = FlattenSeq(q)
  BY <1>2, TablePartsList
<1>6. /\ IsList(before) /\ Len(before) = n /\ AllLists(before)
      /\ \A k \in 1 .. n : before[k] = q[k]
  <2>0. n \in 0 .. Len(q) /\ DOMAIN q = 1 .. n + 1
    BY <1>5, ListLen
  <2>1. IsList(before) /\ Len(before) = n /\ \A k \in 1 .. n : before[k] = q[k]
    BY <1>5, <2>0, PrefixList
  <2>2. DOMAIN before = 1 .. n
    BY <2>1, ListLen
  <2>. QED  BY <1>5, <2>0, <2>1, <2>2 DEF AllLists
<1>7. Tables(g) = FlattenSeq(before) \o q[n + 1] /\ IsList(FlattenSeq(before))
  <2>. HIDE DEF q
  <2>0. n < Len(q)
    BY <1>5
  <2>1. FlattenSeq(Prefix(q, n + 1)) = FlattenSeq(before) \o q[n + 1]
    BY <1>5, <2>0, FlattenNext
  <2>2. Prefix(q, n + 1) = q
    BY <1>5, PrefixNext
  <2>. QED  BY <1>5, <1>6, <2>1, <2>2, FlattenList
<1>8. ASSUME NEW k \in 1 .. n
      PROVE  /\ k \in DOMAIN f.lines /\ k \in DOMAIN g.lines
             /\ TableAt(f, k) = TableAt(g, k) /\ IsRow(f.lines[k]) = IsRow(file.lines[k])
             /\ TableAt(f, k) = TableName(file.lines[k].rec)
             /\ NamesFirst(f, k) = NamesFirst(g, k)
  <2>1. k \in 1 .. n + 1 /\ \A j \in 1 .. k - 1 : j \in 1 .. n /\ j \in 1 .. n + 1
    OBVIOUS
  <2>2. f.lines[k] = g.lines[k] /\ \A j \in 1 .. k - 1 : f.lines[j] = g.lines[j]
    BY <1>1, <1>2, <2>1
  <2>. QED  BY <1>1, <1>2, <2>1, <2>2 DEF TableAt, NamesFirst
<1>9. q[n + 1] = IF NamesFirst(g, n + 1) THEN <<TableOf(g, table)>> ELSE << >>
  <2>1. n + 1 \in DOMAIN g.lines /\ g.lines[n + 1] = line
    BY <1>2
  <2>. QED  BY <2>1 DEF TableParts, TableAt
<1>. DEFINE grows(x) == IsRow(line) /\ TableName(Head(x.lines).rec) = table
            h == [x \in ToSet(old) |-> IF grows(x) THEN Grown(x, row) ELSE x]
<1>10. ASSUME NEW k \in 1 .. n
       PROVE  Len(p[k]) = Len(before[k]) /\ \A j \in 1 .. Len(p[k]) : before[k][j] = h[p[k][j]]
  <2>. DEFINE s == TableAt(f, k)
              u == TableOf(f, s)
  <2>0. /\ p[k] = IF NamesFirst(f, k) THEN <<u>> ELSE << >>
        /\ before[k] = IF NamesFirst(f, k) THEN <<TableOf(g, s)>> ELSE << >>
    <3>1. p[k] = IF NamesFirst(f, k) THEN <<u>> ELSE << >>
      BY <1>8 DEF TableParts
    <3>2. q[k] = IF NamesFirst(g, k) THEN <<TableOf(g, TableAt(g, k))>> ELSE << >>
      BY <1>8 DEF TableParts
    <3>. QED  BY <1>6, <1>8, <3>1, <3>2
  <2>1. CASE NamesFirst(f, k)
    <3>1. p[k] = <<u>> /\ before[k] = <<TableOf(g, s)>>
      BY <2>0, <2>1
    <3>2. IsRow(f.lines[k])
      BY <2>1 DEF NamesFirst
    <3>3. u.lines = RowsOf(f, s) /\ TableName(Head(u.lines).rec) = s
      BY <1>1, <1>8, <3>2, TableNamed
    <3>4. u \in ToSet(old)
      <4>1. u \in ToSet(p[k]) /\ k \in DOMAIN p
        BY <1>4, <3>1, ListLen DEF ToSet
      <4>. QED  BY <1>4, <4>1, FlattenHas
    <3>. DEFINE both == file.name \union {s}
                no == FALSE
    <3>5. u = [name |-> both, jsonl |-> no, lines |-> RowsOf(f, s)]
      BY <1>1 DEF TableOf, TableFile
    <3>6. TableOf(g, s) = [name |-> both, jsonl |-> no, lines |-> RowsOf(g, s)]
      BY <1>2 DEF TableOf, TableFile
    <3>. HIDE DEF both, no
    <3>7. TableOf(g, s) = h[u]
      <4>1. h[u] = IF grows(u) THEN Grown(u, row) ELSE u
        BY <3>4
      <4>. HIDE DEF h, s, u, row, table, line
      <4>2. CASE IsRow(line) /\ table = s
        <5>1. h[u] = Grown(u, row)
          BY <3>3, <4>1, <4>2
        <5>2. RowsOf(g, s) = Append(RowsOf(f, s), row)
          BY <1>3, <4>2
        <5>3. Grown(u, row) = [name |-> both, jsonl |-> no, lines |-> Append(RowsOf(f, s), row)]
          BY <3>5, GrownFile
        <5>. QED  BY <3>6, <5>1, <5>2, <5>3
      <4>3. CASE ~(IsRow(line) /\ table = s)
        BY <1>3, <3>3, <3>5, <3>6, <4>1, <4>3
      <4>. QED  BY <4>2, <4>3
    <3>. HIDE DEF h, u, s
    <3>8. Len(p[k]) = 1 /\ Len(before[k]) = 1 /\ p[k][1] = u /\ before[k][1] = TableOf(g, s)
      BY <3>1
    <3>9. \A j \in 1 .. Len(p[k]) : j = 1
      BY <3>8
    <3>. QED  BY <3>7, <3>8, <3>9
  <2>2. CASE ~NamesFirst(f, k)
    BY <2>0, <2>2
  <2>. QED  BY <2>1, <2>2
<1>. HIDE DEF h
<1>11. /\ Len(FlattenSeq(before)) = Len(old)
       /\ \A i \in 1 .. Len(old) : FlattenSeq(before)[i] = h[old[i]]
  <2>. HIDE DEF p, before, old
  <2>0. PartsMapped(p, before, h)
    BY <1>4, <1>10 DEF PartsMapped
  <2>1. /\ Len(FlattenSeq(before)) = Len(FlattenSeq(p))
        /\ \A i \in 1 .. Len(FlattenSeq(p)) : FlattenSeq(before)[i] = h[FlattenSeq(p)[i]]
    <3>1. IsList(p) /\ AllLists(p) /\ IsList(before) /\ AllLists(before) /\ Len(p) = Len(before)
      BY <1>4, <1>6
    <3>. QED  BY ONLY <2>0, <3>1, FlattenMapped
  <2>. QED  BY <1>4, <2>1
<1>12. \A i \in 1 .. Len(old) :
         i \in DOMAIN old /\ h[old[i]] = IF grows(old[i]) THEN Grown(old[i], row) ELSE old[i]
  <2>1. \A i \in 1 .. Len(old) : i \in DOMAIN old /\ old[i] \in ToSet(old)
    BY <1>4, ListLen DEF ToSet
  <2>. QED  BY <2>1 DEF h
<1>. HIDE DEF p, q, before, old, row, table, line
<1>13. CASE ~IsRow(line)
  <2>1. FlattenSeq(before) = old
    BY <1>4, <1>7, <1>11, <1>12, <1>13, ListEqual
  <2>2. ~NamesFirst(g, n + 1)
    BY <1>2, <1>13 DEF NamesFirst, line
  <2>3. old \o << >> = old
    BY <1>4, ListConcat, Zenon
  <2>4. Tables(g) = old
    BY <1>7, <1>9, <2>1, <2>2, <2>3
  <2>. QED  BY <1>13, <2>4 DEF WithLine, g, f, old, line
<1>14. CASE IsRow(line) /\ Known(old, table) # {}
  <2>1. PICK i \in DOMAIN old : TableName(Head(old[i].lines).rec) = table
    BY <1>14 DEF Known
  <2>2. PICK k \in DOMAIN f.lines : NamesFirst(f, k) /\ old[i] = TableOf(f, TableAt(f, k))
    <3>1. old[i] \in ToSet(old)
      BY DEF ToSet
    <3>. QED  BY <1>1, <3>1, TablesAre DEF old
  <2>3. k \in 1 .. n /\ IsRow(f.lines[k])
    BY <1>1, <2>2 DEF NamesFirst
  <2>4. TableAt(f, k) = table
    BY <1>1, <2>1, <2>2, <2>3, TableNamed
  <2>5. TableAt(g, k) = TableAt(g, n + 1) /\ IsRow(g.lines[k]) /\ k \in 1 .. (n + 1) - 1
    <3>1. k \in 1 .. n + 1 /\ n + 1 \in 1 .. n + 1
      BY <2>3
    <3>2. g.lines[k] = file.lines[k] /\ g.lines[n + 1] = line
      BY <1>2, <3>1 DEF line
    <3>. QED  BY <1>8, <2>3, <2>4, <3>2 DEF TableAt, table
  <2>6. ~NamesFirst(g, n + 1)
    BY <2>5 DEF NamesFirst
  <2>7. Tables(g) = FlattenSeq(before)
    <3>1. FlattenSeq(before) \o << >> = FlattenSeq(before)
      BY <1>7, ListConcat, Zenon
    <3>. QED  BY <1>7, <1>9, <2>6, <3>1
  <2>8. IsList(WithRow(old, table, row)) /\ Len(WithRow(old, table, row)) = Len(old)
    BY <1>4, ListMapped DEF WithRow
  <2>9. \A j \in 1 .. Len(old) : FlattenSeq(before)[j] = WithRow(old, table, row)[j]
    BY <1>11, <1>12, <1>14 DEF WithRow, Known
  <2>10. FlattenSeq(before) = WithRow(old, table, row)
    BY <1>7, <1>11, <2>8, <2>9, ListEqual
  <2>11. WithLine(old, file, line, row) = WithRow(old, table, row)
    BY <1>14 DEF WithLine, table
  <2>. QED  BY <2>7, <2>10, <2>11 DEF g, f, old, line, row
<1>15. CASE IsRow(line) /\ Known(old, table) = {}
  <2>1. FlattenSeq(before) = old
    <3>1. \A i \in 1 .. Len(old) : ~grows(old[i])
      BY <1>12, <1>15 DEF Known
    <3>. QED  BY <1>4, <1>7, <1>11, <1>12, <3>1, ListEqual
  <2>2. ASSUME NEW k \in 1 .. n, IsRow(file.lines[k]), TableName(file.lines[k].rec) = table
        PROVE  FALSE
    <3>. DEFINE T == {j \in 1 .. n : IsRow(file.lines[j]) /\ TableName(file.lines[j].rec) = table}
    <3>1. PICK j \in T : \A i \in T : j <= i
      <4>1. T \in SUBSET Nat /\ T # {}
        BY <2>2
      <4>. QED  BY <4>1, LeastNatural
    <3>2. j \in 1 .. n /\ IsRow(file.lines[j]) /\ TableName(file.lines[j].rec) = table
      OBVIOUS
    <3>3. \A i \in 1 .. j - 1 : i \in 1 .. n /\ i \notin T
      BY <3>1, <3>2
    <3>. HIDE DEF T
    <3>4. NamesFirst(f, j) /\ TableAt(f, j) = table
      <4>1. IsRow(f.lines[j]) /\ TableAt(f, j) = table
        BY <1>8, <3>2
      <4>2. ASSUME NEW i \in 1 .. j - 1, IsRow(f.lines[i])
            PROVE  TableAt(f, i) # TableAt(f, j)
        BY <1>8, <3>3, <4>1, <4>2 DEF T
      <4>. QED  BY <4>1, <4>2 DEF NamesFirst
    <3>5. TableOf(f, table) \in ToSet(p[j]) /\ j \in DOMAIN p
      <4>1. p[j] = <<TableOf(f, table)>>
        BY <1>8, <3>2, <3>4 DEF p, TableParts
      <4>. QED  BY <1>4, <3>2, <4>1, ListLen DEF ToSet
    <3>6. TableOf(f, table) \in ToSet(old)
      BY <1>4, <3>5, FlattenHas
    <3>7. TableName(Head(TableOf(f, table).lines).rec) = table
      BY <1>1, <1>8, <3>2, <3>4, TableNamed
    <3>8. PICK i \in DOMAIN old : old[i] = TableOf(f, table)
      BY <3>6 DEF ToSet
    <3>. QED  BY <1>15, <3>7, <3>8 DEF Known
  <2>3. NamesFirst(g, n + 1)
    <3>1. n + 1 \in 1 .. n + 1 /\ (n + 1) - 1 = n
      OBVIOUS
    <3>2. IsRow(g.lines[n + 1]) /\ TableAt(g, n + 1) = table
      BY <1>2, <1>15, <3>1 DEF TableAt, table, line
    <3>3. ASSUME NEW k \in 1 .. n, IsRow(g.lines[k])
          PROVE  TableAt(g, k) # table
      <4>1. g.lines[k] = file.lines[k]
        BY <1>2
      <4>. QED  BY <2>2, <3>3, <4>1 DEF TableAt
    <3>. QED  BY <3>1, <3>2, <3>3 DEF NamesFirst
  <2>4. RowsOf(f, table) = << >>
    <3>1. IsList(RowsOf(f, table))
      BY <1>1, RowPartsList
    <3>2. ASSUME RowsOf(f, table) # << >>
          PROVE  FALSE
      <4>1. RowsOf(f, table)[1] \in ToSet(RowsOf(f, table))
        BY <3>1, <3>2, ListHeadTail DEF ToSet
      <4>2. PICK k \in DOMAIN f.lines : IsRow(f.lines[k]) /\ TableAt(f, k) = table
        BY <1>1, <4>1, RowsAre
      <4>. QED  BY <1>1, <1>8, <2>2, <4>2
    <3>. QED  BY <3>2
  <2>5. RowsOf(g, table) = <<row>>
    <3>1. RowsOf(g, table) = Append(RowsOf(f, table), row)
      BY <1>3, <1>15
    <3>. QED  BY <2>4, <3>1
  <2>6. TableOf(g, table) = TableFile(file, table, <<row>>)
    BY <1>2, <2>5 DEF TableOf, TableFile
  <2>7. Tables(g) = Append(old, TableFile(file, table, <<row>>))
    <3>. DEFINE x == TableFile(file, table, <<row>>)
    <3>1. Append(old, x) = old \o <<x>>
      BY <1>4, ListAppend, Zenon
    <3>. QED  BY <1>7, <1>9, <2>1, <2>3, <2>6, <3>1
  <2>8. WithLine(old, file, line, row) = Append(old, TableFile(file, table, <<row>>))
    BY <1>15 DEF WithLine, table
  <2>. QED  BY <2>7, <2>8 DEF g, f, old, line, row
<1>. QED  BY <1>13, <1>14, <1>15

\* A line never takes a table away.
LEMMA WithLineGrows ==
  ASSUME NEW files, IsList(files), NEW file, NEW line, NEW row
  PROVE  /\ Len(files) \in Nat /\ Len(WithLine(files, file, line, row)) \in Nat
         /\ Len(files) <= Len(WithLine(files, file, line, row))
         /\ IsList(WithLine(files, file, line, row))
         /\ IsRow(line) /\ Known(files, TableName(line.rec)) = {} =>
              Len(WithLine(files, file, line, row)) = Len(files) + 1
<1>. DEFINE table == TableName(line.rec)
            x == TableFile(file, table, <<row>>)
<1>1. Len(files) \in Nat
  BY ListLen
<1>2. Len(WithRow(files, table, row)) = Len(files) /\ IsList(WithRow(files, table, row))
  <2>. DEFINE f == WithRow(files, table, row)
  <2>1. f = [i \in DOMAIN files |-> f[i]]
    BY DEF WithRow
  <2>. HIDE DEF f
  <2>. QED  BY <2>1, ListMapped DEF f
<1>3. Len(Append(files, x)) = Len(files) + 1 /\ IsList(Append(files, x))
  <2>. HIDE DEF x
  <2>. QED  BY ListAppend
<1>. HIDE DEF x
<1>4. WithLine(files, file, line, row) =
        IF ~IsRow(line) THEN files
        ELSE IF Known(files, table) # {} THEN WithRow(files, table, row)
        ELSE Append(files, x)
  BY DEF WithLine, x
<1>. QED  BY <1>1, <1>2, <1>3, <1>4

LEMMA TablesGrow ==
  ASSUME NEW file, IsReadable(file), NEW n \in 0 .. Len(file.lines)
  PROVE  /\ Len(Tables(Cut(file, n))) \in Nat /\ Len(Tables(file)) \in Nat
         /\ Len(Tables(Cut(file, n))) <= Len(Tables(file))
<1>. DEFINE last == Len(file.lines)
            size(k) == Len(Tables(Cut(file, k)))
            S == {d \in Nat : d <= last => size(last - d) <= Len(Tables(file))}
<1>0. last \in Nat
  BY ReadableLines
<1>1. Len(Tables(file)) \in Nat /\ size(last) = Len(Tables(file))
  BY TablePartsList, CutAll, ListLen
<1>2. \A k \in 0 .. last : IsList(Tables(Cut(file, k))) /\ size(k) \in Nat
  BY CutReadable, TablePartsList, ListLen
<1>3. ASSUME NEW k \in Nat, k < last
      PROVE  size(k) <= size(k + 1)
  <2>1. IsList(Tables(Cut(file, k)))
    BY <1>0, <1>2, <1>3
  <2>2. Tables(Cut(file, k + 1)) =
          WithLine(Tables(Cut(file, k)), file, file.lines[k + 1],
                   Wrapped(file.lines[k + 1].rec, k + 1))
    BY <1>3, TablesNext
  <2>. QED  BY <2>1, <2>2, WithLineGrows
<1>. HIDE DEF last, size
<1>4. 0 \in S
  BY <1>0, <1>1
<1>5. ASSUME NEW d \in S
      PROVE  d + 1 \in S
  <2>1. CASE d + 1 <= last
    <3>1. last - (d + 1) \in Nat /\ last - (d + 1) < last /\ (last - (d + 1)) + 1 = last - d
      BY <1>0, <2>1
    <3>2. size(last - (d + 1)) <= size(last - d)
      BY <1>3, <3>1
    <3>3. size(last - d) \in Nat /\ size(last - (d + 1)) \in Nat
      BY <1>0, <1>2, <2>1
    <3>4. size(last - d) <= Len(Tables(file))
      BY <1>0, <2>1
    <3>. QED  BY <1>1, <3>2, <3>3, <3>4
  <2>. QED  BY <2>1
<1>6. S = Nat
  <2>. HIDE DEF S
  <2>1. S \in SUBSET Nat
    BY DEF S
  <2>. QED  BY <1>4, <1>5, <2>1, NaturalsByInduction
<1>7. n \in 0 .. last
  BY DEF last
<1>8. last - n \in Nat /\ last - n <= last /\ last - (last - n) = n
  BY <1>0, <1>7
<1>9. size(n) <= Len(Tables(file))
  BY <1>6, <1>8
<1>. QED  BY <1>1, <1>2, <1>7, <1>9 DEF size

-----------------------------------------------------------------------------
(* What the steps do, read off them once.                                  *)

LEMMA Readables ==
  ASSUME Places, Parts
  PROVE  /\ IsList(source) /\ Len(source) \in Nat /\ DOMAIN source = 1 .. Len(source)
         /\ \A i \in DOMAIN source : IsReadable(source[i])
         /\ \A unit \in SourceParts : IsReadable(unit)
         /\ Working => IsReadable(job.file)
         /\ \A unit \in ToSet(tables) : IsReadable(unit)
<1>1. /\ IsList(source) /\ Len(source) \in Nat /\ DOMAIN source = 1 .. Len(source)
      /\ \A i \in DOMAIN source : IsReadable(source[i])
  BY SourcesAreReadable, ListedIsList, ListLen DEF Parts
<1>2. ASSUME NEW unit \in SourceParts
      PROVE  IsReadable(unit)
  <2>1. PICK i \in DOMAIN source : unit \in ToSet(Units(source[i]))
    BY DEF SourceParts
  <2>. QED  BY <1>1, <2>1, UnitsReadable
<1>3. \A unit \in Pending : IsReadable(unit)
  BY <1>2 DEF Parts
<1>4. Collecting => IsReadable(job.file)
  BY <1>3 DEF Pending
<1>5. ASSUME pc = "communicate"
      PROVE  IsReadable(job.file)
  <2>1. cursor \in 1 .. Len(source) /\ job.file = source[cursor]
    BY <1>1, <1>5 DEF Parts, Places
  <2>. QED  BY <1>1, <2>1
<1>6. \A unit \in ToSet(tables) : IsReadable(unit)
  BY <1>3 DEF Pending
<1>. QED  BY <1>1, <1>2, <1>4, <1>5, <1>6 DEF Working

Kept ==
  /\ DOMAIN job' = DOMAIN job
  /\ job'.verb = job.verb /\ job'.file = job.file /\ job'.maps = job.maps

LEMMA DieDoes ==
  ASSUME JobFields, job' = Die
  PROVE  /\ Kept /\ job'.status = "dying" /\ job'.pos = job.pos /\ job'.out = job.out
         /\ job'.code = job.code /\ job'.open = job.open
  BY DEF JobFields, Die, Kept

LEMMA ParseLineDoes ==
  ASSUME JobFields, ParseLine
  PROVE  /\ job.verb = "parse" /\ job.status = "running" /\ job.pos <= Len(job.file.lines)
         /\ UNCHANGED <<pipeline, dir, pipes, faults>>
         /\ \/ job' = Die /\ BadLine(job.maps, Line, job.pos)
            \/ /\ Kept /\ job'.status = "running" /\ job'.pos = job.pos + 1
               /\ job'.code = job.code /\ job'.open = job.open
               /\ ~BadLine(job.maps, Line, job.pos)
               /\ job'.out = IF IsRecord(Line, job.pos)
                             THEN job.out \o Tokens(EventsOf(job.maps, Line.rec)) ELSE job.out
<1>1. /\ job.verb = "parse" /\ job.status = "running" /\ job.pos <= Len(job.file.lines)
      /\ UNCHANGED <<pipeline, dir, pipes, faults>>
  BY DEF ParseLine, MoreInput
<1>2. CASE Raises(Line)
  BY <1>1, <1>2 DEF ParseLine, BadLine
<1>3. CASE ~Raises(Line) /\ ~IsRecord(Line, job.pos)
  <2>1. job' = [job EXCEPT !.pos = @ + 1]
    BY <1>3 DEF ParseLine
  <2>2. /\ Kept /\ job'.status = job.status /\ job'.pos = job.pos + 1
        /\ job'.code = job.code /\ job'.open = job.open /\ job'.out = job.out
    BY <2>1 DEF JobFields, Kept
  <2>. QED  BY <1>1, <1>3, <2>2 DEF BadLine
<1>4. CASE ~Raises(Line) /\ IsRecord(Line, job.pos) /\ Unusable(job.maps, Line.rec)
  BY <1>1, <1>4 DEF ParseLine, BadLine
<1>5. CASE ~Raises(Line) /\ IsRecord(Line, job.pos) /\ ~Unusable(job.maps, Line.rec)
  <2>1. job' = [job EXCEPT !.pos = @ + 1,
                           !.out = @ \o Tokens(EventsOf(job.maps, Line.rec))]
    BY <1>5 DEF ParseLine
  <2>2. /\ Kept /\ job'.status = job.status /\ job'.pos = job.pos + 1
        /\ job'.code = job.code /\ job'.open = job.open
        /\ job'.out = job.out \o Tokens(EventsOf(job.maps, Line.rec))
    BY <2>1 DEF JobFields, Kept
  <2>. QED  BY <1>1, <1>5, <2>2 DEF BadLine
<1>. QED  BY <1>2, <1>3, <1>4, <1>5

LEMMA SplitLineDoes ==
  ASSUME JobFields, DOMAIN dir = {"exists", "files"}, SplitLine
  PROVE  /\ job.verb = "split" /\ job.status = "running" /\ job.pos <= Len(job.file.lines)
         /\ UNCHANGED <<pipeline, pipes, faults>>
         /\ \/ /\ job' = Die /\ UNCHANGED dir
               /\ \/ Raises(Line)
                  \/ /\ IsRow(Line) /\ Known(dir.files, TableName(Line.rec)) = {}
                     /\ Len(dir.files) = FdLimit
            \/ /\ Kept /\ job'.status = "running" /\ job'.pos = job.pos + 1
               /\ job'.code = job.code /\ job'.open = job.open /\ job'.out = job.out
               /\ ~Raises(Line)
               /\ DOMAIN dir' = DOMAIN dir /\ dir'.exists = dir.exists
               /\ dir'.files = WithLine(dir.files, job.file, Line, Wrapped(Line.rec, job.pos))
               /\ \/ ~IsRow(Line)
                  \/ Known(dir.files, TableName(Line.rec)) # {}
                  \/ Len(dir.files) # FdLimit
<1>. DEFINE table == TableName(Line.rec)
            row == Wrapped(Line.rec, job.pos)
            known == Known(dir.files, table)
            next == [job EXCEPT !.pos = @ + 1]
<1>1. /\ job.verb = "split" /\ job.status = "running" /\ job.pos <= Len(job.file.lines)
      /\ UNCHANGED <<pipeline, pipes, faults>>
  BY DEF SplitLine, MoreInput
<1>2. IF Raises(Line) THEN job' = Die /\ UNCHANGED dir
      ELSE IF ~IsRow(Line) THEN job' = next /\ UNCHANGED dir
      ELSE IF known # {}
      THEN job' = next /\ dir' = [dir EXCEPT !.files = WithRow(dir.files, table, row)]
      ELSE IF Len(dir.files) = FdLimit THEN job' = Die /\ UNCHANGED dir
      ELSE job' = next /\ dir' = [dir EXCEPT !.files =
                                    Append(dir.files, TableFile(job.file, table, <<row>>))]
  BY DEF SplitLine
<1>. HIDE DEF table, row, known
<1>3. ASSUME job' = next
      PROVE  /\ Kept /\ job'.status = job.status /\ job'.pos = job.pos + 1
             /\ job'.code = job.code /\ job'.open = job.open /\ job'.out = job.out
  BY <1>3 DEF JobFields, Kept
<1>. HIDE DEF next
<1>4. CASE Raises(Line)
  BY <1>1, <1>2, <1>4
<1>5. CASE ~Raises(Line) /\ ~IsRow(Line)
  BY <1>1, <1>2, <1>3, <1>5 DEF WithLine
<1>6. CASE ~Raises(Line) /\ IsRow(Line) /\ known # {}
  <2>1. /\ DOMAIN dir' = DOMAIN dir /\ dir'.exists = dir.exists
        /\ dir'.files = WithRow(dir.files, table, row)
    BY <1>2, <1>6
  <2>2. dir'.files = WithLine(dir.files, job.file, Line, row)
    BY <1>6, <2>1 DEF WithLine, known, table
  <2>. QED  BY <1>1, <1>2, <1>3, <1>6, <2>1, <2>2 DEF row, known, table
<1>7. CASE ~Raises(Line) /\ IsRow(Line) /\ known = {} /\ Len(dir.files) = FdLimit
  BY <1>1, <1>2, <1>7 DEF known, table
<1>8. CASE ~Raises(Line) /\ IsRow(Line) /\ known = {} /\ Len(dir.files) # FdLimit
  <2>1. /\ DOMAIN dir' = DOMAIN dir /\ dir'.exists = dir.exists
        /\ dir'.files = Append(dir.files, TableFile(job.file, table, <<row>>))
    BY <1>2, <1>8
  <2>2. dir'.files = WithLine(dir.files, job.file, Line, row)
    BY <1>8, <2>1 DEF WithLine, known, table
  <2>. QED  BY <1>1, <1>2, <1>3, <1>8, <2>1, <2>2 DEF row
<1>. QED  BY <1>4, <1>5, <1>6, <1>7, <1>8

LEMMA RunningDoes ==
  ASSUME NEW v, NEW f, NEW m, job' = Running(v, f, m)
  PROVE  /\ DOMAIN job' = {"verb", "file", "maps", "status", "pos", "out", "words", "code", "open"}
         /\ job'.verb = v /\ job'.file = f /\ job'.maps = m
         /\ job'.status = "running" /\ job'.pos = 1 /\ job'.out = << >>
         /\ job'.code = 0 /\ job'.open
  BY DEF Running, NoJob

LEMMA StatusDoes ==
  ASSUME JobFields, NEW s, job' = [job EXCEPT !.status = s]
  PROVE  /\ Kept /\ job'.status = s /\ job'.pos = job.pos /\ job'.out = job.out
         /\ job'.code = job.code /\ job'.open = job.open
  BY DEF JobFields, Kept

LEMMA ExitDoes ==
  ASSUME JobFields, NEW c, job' = [job EXCEPT !.status = "exited", !.code = c]
  PROVE  /\ Kept /\ job'.status = "exited" /\ job'.pos = job.pos /\ job'.out = job.out
         /\ job'.code = c /\ job'.open = job.open
  BY DEF JobFields, Kept

LEMMA CloseDoes ==
  ASSUME JobFields, job' = [job EXCEPT !.open = FALSE]
  PROVE  /\ Kept /\ job'.status = job.status /\ job'.pos = job.pos /\ job'.out = job.out
         /\ job'.code = job.code /\ ~job'.open
  BY DEF JobFields, Kept

LEMMA WriteOutDoes ==
  ASSUME JobFields, WriteOut
  PROVE  /\ job.verb = "parse" /\ job.status = "running" /\ job.out # << >>
         /\ UNCHANGED <<pipeline, dir, stderr, faults>>
         /\ Kept /\ job'.pos = job.pos /\ job'.open = job.open
         /\ \/ /\ job.open /\ job'.status = "running" /\ job'.code = job.code
               /\ stdout' = Append(stdout, Head(job.out)) /\ job'.out = Tail(job.out)
            \/ /\ ~job.open /\ job'.status = "exited" /\ job'.code = -13
               /\ stdout' = stdout /\ job'.out = job.out
<1>1. /\ job.verb = "parse" /\ job.status = "running" /\ job.out # << >>
      /\ UNCHANGED <<pipeline, dir, stderr, faults>>
  BY DEF WriteOut
<1>2. CASE job.open
  <2>1. stdout' = Append(stdout, Head(job.out)) /\ job' = [job EXCEPT !.out = Tail(@)]
    BY <1>2 DEF WriteOut
  <2>2. /\ Kept /\ job'.pos = job.pos /\ job'.open = job.open
        /\ job'.status = job.status /\ job'.code = job.code /\ job'.out = Tail(job.out)
    BY <2>1 DEF JobFields, Kept
  <2>. QED  BY <1>1, <1>2, <2>1, <2>2
<1>3. CASE ~job.open
  <2>1. stdout' = stdout /\ job' = [job EXCEPT !.status = "exited", !.code = -13]
    BY <1>3 DEF WriteOut
  <2>. QED  BY <1>1, <1>3, <2>1, ExitDoes
<1>. QED  BY <1>2, <1>3

LEMMA LastWordsDoes ==
  ASSUME JobFields, LastWords
  PROVE  /\ job.status = "dying" /\ UNCHANGED <<pipeline, dir, stdout, faults>>
         /\ Kept /\ job'.pos = job.pos /\ job'.open = job.open /\ job'.out = job.out
         /\ \/ job'.status = "dying" /\ job'.code = job.code
            \/ job'.status = "exited" /\ job'.code = 1
<1>1. job.status = "dying" /\ UNCHANGED <<pipeline, dir, stdout, faults>>
  BY DEF LastWords
<1>2. CASE job.words > 0
  <2>1. job' = [job EXCEPT !.words = @ - 1]
    BY <1>2 DEF LastWords
  <2>2. /\ Kept /\ job'.pos = job.pos /\ job'.open = job.open /\ job'.out = job.out
        /\ job'.status = job.status /\ job'.code = job.code
    BY <2>1 DEF JobFields, Kept
  <2>. QED  BY <1>1, <2>2
<1>3. CASE ~(job.words > 0)
  <2>1. job' = [job EXCEPT !.status = "exited", !.code = 1]
    BY <1>3 DEF LastWords
  <2>. QED  BY <1>1, <2>1, ExitDoes
<1>. QED  BY <1>2, <1>3

\* What is routed is parsed by an engine of its own; what is not, is not.
LEMMA ConsumeDoes ==
  ASSUME NEW file, Consume(file)
  PROVE  \/ /\ Route(file.name) = << >> /\ pc' = "choose"
            /\ UNCHANGED <<job, pipes, got, half, raised>>
         \/ /\ Route(file.name) # << >> /\ pc' = "collect"
            /\ job' = Running("parse", file, Route(file.name))
            /\ stdout' = << >> /\ stderr' = 0 /\ got' = << >> /\ half' = << >> /\ raised' = FALSE
  BY DEF Consume, Spawn

\* A call that did not end well ends the source.
LEMMA ReapParseDoes ==
  ASSUME JobFields, ReapParse
  PROVE  /\ pc = "reap" /\ job.status = "exited"
         /\ Kept /\ job'.status = "reaped" /\ job'.pos = job.pos /\ job'.out = job.out
         /\ job'.code = job.code /\ job'.open = job.open
         /\ UNCHANGED <<source, cursor, tables, got, half, raised, pipes, faults>>
         /\ \/ /\ raised \/ job.code # 0
               /\ pc' = "failed" /\ dir' = NoDir /\ events' = events
            \/ /\ ~raised /\ job.code = 0
               /\ pc' = "choose" /\ events' = events \o got /\ dir' = dir
<1>1. /\ pc = "reap" /\ job.status = "exited" /\ UNCHANGED <<pipes, faults>>
      /\ job' = [job EXCEPT !.status = "reaped"]
  BY DEF ReapParse
<1>2. \/ /\ raised \/ job.code # 0
         /\ pc' = "failed" /\ dir' = NoDir /\ events' = events
         /\ UNCHANGED <<source, cursor, tables, got, half, raised>>
      \/ /\ ~raised /\ job.code = 0
         /\ pc' = "choose" /\ events' = events \o got /\ dir' = dir
         /\ UNCHANGED <<source, cursor, tables, got, half, raised>>
  BY DEF ReapParse, Judge, Unwind
<1>. QED  BY <1>1, <1>2, StatusDoes

LEMMA ReapSplitDoes ==
  ASSUME JobFields, ReapSplit
  PROVE  /\ pc = "communicate" /\ job.status = "exited"
         /\ Kept /\ job'.status = "reaped" /\ job'.pos = job.pos /\ job'.out = job.out
         /\ job'.code = job.code /\ job'.open = job.open
         /\ stdout' = << >>
         /\ UNCHANGED <<source, cursor, events, got, half, raised, stderr, faults>>
         /\ \/ job.code # 0 /\ pc' = "failed" /\ dir' = NoDir /\ tables' = tables
            \/ job.code = 0 /\ pc' = "choose" /\ dir' = dir /\ tables' = Head(stdout)
<1>1. /\ pc = "communicate" /\ job.status = "exited" /\ UNCHANGED <<stderr, faults>>
      /\ job' = [job EXCEPT !.status = "reaped"] /\ stdout' = << >>
  BY DEF ReapSplit
<1>2. \/ /\ job.code # 0 /\ pc' = "failed" /\ dir' = NoDir
         /\ UNCHANGED <<source, cursor, tables, events, got, half, raised>>
      \/ /\ job.code = 0 /\ pc' = "choose" /\ tables' = Head(stdout)
         /\ UNCHANGED <<source, cursor, events, got, half, raised, dir>>
  BY DEF ReapSplit, Unwind
<1>. QED  BY <1>1, <1>2, StatusDoes

LEMMA ReadLineDoes ==
  ASSUME ReadLine
  PROVE  /\ pc = "collect" /\ stdout # << >> /\ stdout' = Tail(stdout)
         /\ UNCHANGED <<source, pc, cursor, tables, events, raised, dir, job, stderr, faults>>
         /\ \/ Head(stdout).part = 1 /\ half' = <<Head(stdout).event>> /\ got' = got
            \/ /\ Head(stdout).part # 1 /\ half' = << >>
               /\ got' = Append(got, Head(stdout).event)
  BY DEF ReadLine

-----------------------------------------------------------------------------
(* The invariant.                                                          *)

\* What the invariant counts with.
LEMMA MeaningsList ==
  ASSUME Places, Parts
  PROVE  /\ IsList(Meanings) /\ AllLists(Meanings) /\ Len(Meanings) = Len(source)
         /\ \A i \in 1 .. Len(source) : Meanings[i] = AllEvents(Units(source[i]))
<1>1. IsList(source) /\ DOMAIN source = 1 .. Len(source) /\ \A i \in DOMAIN source : IsReadable(source[i])
  BY Readables
<1>2. IsList(Meanings) /\ Len(Meanings) = Len(source) /\ DOMAIN Meanings = DOMAIN source
  BY <1>1, ListMapped DEF Meanings
<1>3. \A i \in DOMAIN source : Meanings[i] = AllEvents(Units(source[i]))
  BY DEF Meanings
<1>4. \A i \in DOMAIN source : IsList(AllEvents(Units(source[i])))
  BY <1>1, UnitsReadable, AllEventsList
<1>. QED  BY <1>1, <1>2, <1>3, <1>4 DEF AllLists

LEMMA UnderWayList ==
  ASSUME Places, Parts
  PROVE  /\ IsList(UnderWay) /\ IsList(AllEvents(tables)) /\ IsList(events)
         /\ \A unit : IsReadable(unit) => IsList(UnitEvents(unit))
<1>1. \A unit : IsReadable(unit) => IsList(UnitEvents(unit))
  BY LinesList DEF UnitEvents
<1>2. IsList(UnderWay)
  BY <1>1, Readables, ListEmpty DEF UnderWay, Working
<1>3. IsList(tables) /\ \A unit \in ToSet(tables) : IsReadable(unit)
  BY Readables DEF Places
<1>4. IsList(AllEvents(tables))
  BY <1>3, AllEventsList
<1>. QED  BY <1>1, <1>2, <1>4 DEF Places

LEMMA InitHolds ==
  ASSUME Init
  PROVE  IInv
<1>0. /\ DOMAIN job = {"verb", "file", "maps", "status", "pos", "out", "words", "code", "open"}
      /\ job.status = "none" /\ job.pos = 1 /\ job.out = << >>
  BY DEF Init, NoJob
<1>1. DOMAIN dir = {"exists", "files"} /\ ~dir.exists /\ dir.files = << >>
  BY DEF Init, NoDir
<1>2. /\ source \in Sources /\ pc = "choose" /\ cursor = 1 /\ faults = 0
      /\ tables = << >> /\ events = << >> /\ got = << >> /\ half = << >> /\ stdout = << >>
  BY DEF Init
<1>3. Places
  BY <1>0, <1>1, <1>2, ListEmpty DEF Places, JobFields, Collecting, Working
<1>4. Parts
  <2>1. Len(source) \in Nat
    BY <1>2, SourcesAreReadable, ListedIsList, ListLen
  <2>2. Pending = {}
    BY <1>2 DEF Pending, Collecting, ToSet
  <2>. QED  BY <1>1, <1>2, <2>1, <2>2 DEF Parts, Taken, Collecting
<1>5. Blamed /\ Stream /\ Splitting /\ Delivered
  BY <1>2 DEF Blamed, Stream, Splitting, Delivered, Collecting, Working
<1>6. Taken = 0
  BY <1>1, <1>2 DEF Taken
<1>7. Conserved
  <2>1. IsList(Meanings)
    BY <1>3, <1>4, MeaningsList
  <2>2. FlattenSeq(Prefix(Meanings, Taken)) = << >>
    BY <1>6, <2>1, PrefixNext, FlattenEmpty
  <2>3. UnderWay = << >> /\ AllEvents(tables) = << >>
    BY <1>2, AllEventsFew DEF UnderWay, Collecting
  <2>4. (<< >> \o << >>) \o << >> = << >>
    OBVIOUS
  <2>. QED  BY <1>2, <2>2, <2>3, <2>4 DEF Conserved
<1>8. NoneSkipped
  <2>1. Len(source) \in Nat /\ DOMAIN source = 1 .. Len(source)
    BY <1>3, <1>4, Readables
  <2>. QED  BY <1>6, <2>1 DEF NoneSkipped
<1>. QED  BY <1>3, <1>4, <1>5, <1>7, <1>8 DEF IInv

\* Most steps move neither the pipeline on nor a file.
Quiet ==
  /\ UNCHANGED <<source, cursor, tables, events>>
  /\ job'.file = job.file /\ job'.maps = job.maps
  /\ dir'.exists = dir.exists
  /\ pc' = pc \/ (pc = "collect" /\ pc' = "reap")

LEMMA QuietKeeps ==
  ASSUME Parts, Conserved, NoneSkipped, Delivered, Quiet
  PROVE  Parts' /\ Conserved' /\ NoneSkipped' /\ Delivered'
<1>1. /\ Collecting' <=> Collecting
      /\ pc' = "communicate" <=> pc = "communicate"
      /\ pc' = "failed" <=> pc = "failed"
      /\ pc' = "done" <=> pc = "done"
  BY DEF Quiet, Collecting
<1>2. Taken' = Taken
  BY <1>1 DEF Quiet, Taken
<1>3. Pending' = Pending
  BY <1>1 DEF Quiet, Pending
<1>4. SourceParts' = SourceParts
  BY DEF Quiet, SourceParts
<1>5. Meanings' = Meanings
  BY DEF Quiet, Meanings
<1>6. UnderWay' = UnderWay
  BY <1>1 DEF Quiet, UnderWay
<1>7. Parts'
  BY <1>1, <1>2, <1>3, <1>4 DEF Parts, Quiet
<1>8. Conserved'
  BY <1>1, <1>2, <1>5, <1>6 DEF Conserved, Quiet
<1>9. NoneSkipped'
  BY <1>1, <1>2, <1>3 DEF NoneSkipped, Quiet
<1>10. Delivered'
  BY <1>1 DEF Delivered, Quiet
<1>. QED  BY <1>7, <1>8, <1>9, <1>10

\* The events of the next line are a list.
LEMMA LineEvents ==
  ASSUME Places, Parts, Collecting, job.pos <= Len(job.file.lines)
  PROVE  /\ IsReadable(job.file) /\ job.maps = Route(job.file.name)
         /\ job.pos \in DOMAIN job.file.lines
         /\ IsList(EventsOf(job.maps, Line.rec)) /\ IsList(Tokens(EventsOf(job.maps, Line.rec)))
<1>1. IsReadable(job.file) /\ job.maps = Route(job.file.name)
  BY Readables DEF Parts, Working
<1>2. job.pos \in DOMAIN job.file.lines
  BY <1>1, ReadableLines DEF Places
<1>3. IsList(Line.rec.entries)
  BY <1>1, <1>2, ReadableLines DEF Line
<1>4. IsList(EventsOf(job.maps, Line.rec))
  BY <1>1, <1>3, EventsList
<1>. QED  BY <1>1, <1>2, <1>4, TokensParts

LEMMA PlacesStep ==
  ASSUME IInv, [Next]_vars
  PROVE  Places'
<1>0. Places /\ JobFields /\ Parts
  BY DEF IInv, Places
<1>n. IsList(<< >>)
  BY ListEmpty
<1>1. CASE OpenFile
  <2>1. /\ pc = "choose" /\ ~dir.exists /\ cursor' = cursor + 1
        /\ UNCHANGED <<source, tables, events, dir, faults>> /\ Consume(source[cursor])
    BY <1>1 DEF OpenFile
  <2>2. CASE pc' = "choose" /\ UNCHANGED <<job, pipes, got, half, raised>>
    BY <1>0, <2>1, <2>2 DEF Places, JobFields, Collecting, Working, pipes
  <2>3. CASE /\ pc' = "collect" /\ stdout' = << >> /\ got' = << >> /\ half' = << >>
             /\ job' = Running("parse", source[cursor], Route(source[cursor].name))
    <3>. DEFINE file == source[cursor]
                maps == Route(file.name)
    <3>. HIDE DEF file, maps
    <3>1. job' = Running("parse", file, maps)
      BY <2>3 DEF file, maps
    <3>2. /\ DOMAIN job' = {"verb", "file", "maps", "status", "pos", "out", "words", "code", "open"}
          /\ job'.verb = "parse" /\ job'.status = "running" /\ job'.pos = 1 /\ job'.out = << >>
      BY <3>1, RunningDoes
    <3>. QED  BY <1>0, <1>n, <2>1, <2>3, <3>2 DEF Places, JobFields, Collecting, Working
  <2>. QED  BY <2>1, <2>2, <2>3, ConsumeDoes
<1>2. CASE OpenContainer
  <2>1. /\ pc = "choose" /\ ~dir.exists /\ dir' = [exists |-> TRUE, files |-> << >>]
        /\ Spawn("split", source[cursor], << >>) /\ pc' = "communicate"
        /\ UNCHANGED <<source, cursor, tables, events, faults>>
    BY <1>2 DEF OpenContainer
  <2>2. /\ job' = Running("split", source[cursor], << >>)
        /\ stdout' = << >> /\ got' = << >> /\ half' = << >>
    BY <2>1 DEF Spawn
  <2>3. /\ DOMAIN job' = {"verb", "file", "maps", "status", "pos", "out", "words", "code", "open"}
        /\ job'.verb = "split" /\ job'.status = "running" /\ job'.pos = 1 /\ job'.out = << >>
    BY <2>2, RunningDoes
  <2>4. dir'.exists /\ DOMAIN dir' = {"exists", "files"} /\ dir'.files = << >>
    BY <2>1
  <2>5. tables' = << >>
    BY <1>0, <2>1 DEF Places
  <2>6. cursor' \in Nat \ {0} /\ faults' \in Nat /\ IsList(events')
    BY <1>0, <2>1 DEF Places
  <2>. QED  BY <1>n, <2>1, <2>2, <2>3, <2>4, <2>5, <2>6 DEF Places, JobFields, Collecting, Working
<1>3. CASE NextTable
  <2>1. /\ pc = "choose" /\ tables # << >> /\ tables' = Tail(tables)
        /\ UNCHANGED <<source, cursor, events, dir, faults>> /\ Consume(Head(tables))
    BY <1>3 DEF NextTable
  <2>2. IsList(tables') /\ dir.exists
    BY <1>0, <2>1, ListHeadTail DEF Places
  <2>3. CASE pc' = "choose" /\ UNCHANGED <<job, pipes, got, half, raised>>
    BY <1>0, <2>1, <2>2, <2>3 DEF Places, JobFields, Collecting, Working, pipes
  <2>4. CASE /\ pc' = "collect" /\ stdout' = << >> /\ got' = << >> /\ half' = << >>
             /\ job' = Running("parse", Head(tables), Route(Head(tables).name))
    <3>. DEFINE file == Head(tables)
                maps == Route(file.name)
    <3>. HIDE DEF file, maps
    <3>1. job' = Running("parse", file, maps)
      BY <2>4 DEF file, maps
    <3>2. /\ DOMAIN job' = {"verb", "file", "maps", "status", "pos", "out", "words", "code", "open"}
          /\ job'.verb = "parse" /\ job'.status = "running" /\ job'.pos = 1 /\ job'.out = << >>
      BY <3>1, RunningDoes
    <3>. QED  BY <1>0, <1>n, <2>1, <2>2, <2>4, <3>2 DEF Places, JobFields, Collecting, Working
  <2>. QED  BY <2>1, <2>3, <2>4, ConsumeDoes
<1>4. CASE LeaveContainer
  <2>1. /\ pc = "choose" /\ dir' = NoDir /\ tables = << >> /\ cursor' = cursor + 1
        /\ UNCHANGED <<pc, tables, events, got, half, job, pipes, faults>>
    BY <1>4 DEF LeaveContainer
  <2>2. ~dir'.exists /\ DOMAIN dir' = {"exists", "files"} /\ dir'.files = << >>
    BY <2>1 DEF NoDir
  <2>. QED  BY <1>0, <1>n, <2>1, <2>2 DEF Places, JobFields, Collecting, Working, pipes
<1>5. CASE Return
  BY <1>0, <1>5 DEF Return, Places, JobFields, Collecting, Working, pipes
<1>6. CASE ReadLine
  <2>1. /\ pc = "collect" /\ stdout # << >> /\ stdout' = Tail(stdout)
        /\ UNCHANGED <<pc, cursor, tables, events, dir, job, faults>>
    BY <1>6, ReadLineDoes
  <2>2. IsList(stdout')
    BY <1>0, <2>1, ListHeadTail DEF Places
  <2>3. IsList(got') /\ (half' = << >> \/ half' = <<half'[1]>>)
    <3>1. IsList(got)
      BY <1>0 DEF Places
    <3>2. IsList(Append(got, Head(stdout).event))
      BY <3>1, ListAppend
    <3>3. half' = << >> \/ half' = <<Head(stdout).event>>
      BY <1>6, ReadLineDoes
    <3>4. half' = << >> \/ half' = <<half'[1]>>
      BY <3>3
    <3>5. got' = got \/ got' = Append(got, Head(stdout).event)
      BY <1>6, ReadLineDoes
    <3>. QED  BY <3>1, <3>2, <3>4, <3>5
  <2>. QED  BY <1>0, <2>1, <2>2, <2>3 DEF Places, JobFields, Collecting, Working
<1>7. CASE EndOfStream
  <2>1. /\ pc = "collect" /\ pc' = "reap"
        /\ UNCHANGED <<cursor, tables, events, got, half, dir, job, pipes, faults>>
    BY <1>7 DEF EndOfStream
  <2>. QED  BY <1>0, <2>1 DEF Places, JobFields, Collecting, Working, pipes
<1>8. CASE ReadStderr
  BY <1>0, <1>8 DEF ReadStderr, pipeline, Places, JobFields, Collecting, Working
<1>9. CASE ReapParse
  <2>1. /\ pc = "reap" /\ Kept /\ job'.status = "reaped" /\ job'.pos = job.pos /\ job'.out = job.out
        /\ UNCHANGED <<cursor, tables, got, half, pipes, faults>>
    BY <1>0, <1>9, ReapParseDoes
  <2>2. IsList(got) /\ IsList(events)
    BY <1>0 DEF Places
  <2>3. IsList(events \o got)
    BY <2>2, ListConcat, Zenon
  <2>4. CASE pc' = "failed" /\ dir' = NoDir /\ events' = events
    <3>1. ~dir'.exists /\ DOMAIN dir' = {"exists", "files"} /\ dir'.files = << >>
      BY <2>4 DEF NoDir
    <3>. QED  BY <1>0, <1>n, <2>1, <2>4, <3>1 DEF Places, JobFields, Collecting, Working, pipes, Kept
  <2>5. CASE pc' = "choose" /\ events' = events \o got /\ dir' = dir
    BY <1>0, <2>1, <2>3, <2>5 DEF Places, JobFields, Collecting, Working, pipes, Kept
  <2>. QED  BY <1>0, <1>9, <2>4, <2>5, ReapParseDoes
<1>10. CASE ReapSplit
  <2>1. /\ pc = "communicate" /\ job.status = "exited"
        /\ Kept /\ job'.status = "reaped" /\ job'.pos = job.pos /\ job'.out = job.out
        /\ stdout' = << >> /\ UNCHANGED <<cursor, events, got, half, faults>>
    BY <1>0, <1>10, ReapSplitDoes
  <2>2. CASE pc' = "failed" /\ dir' = NoDir /\ tables' = tables
    <3>1. ~dir'.exists /\ DOMAIN dir' = {"exists", "files"} /\ dir'.files = << >>
      BY <2>2 DEF NoDir
    <3>. QED  BY <1>0, <1>n, <2>1, <2>2, <3>1 DEF Places, JobFields, Collecting, Working, Kept
  <2>3. CASE job.code = 0 /\ pc' = "choose" /\ dir' = dir /\ tables' = Head(stdout)
    <3>1. stdout = <<dir.files>>
      BY <2>1, <2>3 DEF IInv, Splitting, Ended
    <3>2. IsList(tables')
      BY <1>0, <2>3, <3>1 DEF Places
    <3>. QED  BY <1>0, <1>n, <2>1, <2>3, <3>2 DEF Places, JobFields, Collecting, Working, Kept
  <2>. QED  BY <1>0, <1>10, <2>2, <2>3, ReapSplitDoes
<1>11. CASE ParseLine
  <2>1. /\ job.verb = "parse" /\ job.status = "running" /\ job.pos <= Len(job.file.lines)
        /\ UNCHANGED <<pipeline, dir, pipes, faults>>
    BY <1>0, <1>11, ParseLineDoes
  <2>2. Collecting
    BY <1>0, <2>1 DEF Places, Working
  <2>3. IsList(Tokens(EventsOf(job.maps, Line.rec))) /\ IsList(job.out)
    BY <1>0, <2>1, <2>2, LineEvents DEF Places
  <2>4. IsList(job.out \o Tokens(EventsOf(job.maps, Line.rec)))
    BY <2>3, ListConcat, Zenon
  <2>5. CASE job' = Die
    <3>1. Kept /\ job'.status = "dying" /\ job'.pos = job.pos /\ job'.out = job.out
      BY <1>0, <2>5, DieDoes
    <3>. QED  BY <1>0, <2>1, <3>1 DEF Places, JobFields, Collecting, Working, Kept, pipeline, pipes
  <2>6. CASE /\ Kept /\ job'.status = "running" /\ job'.pos = job.pos + 1
             /\ job'.out = IF IsRecord(Line, job.pos)
                           THEN job.out \o Tokens(EventsOf(job.maps, Line.rec)) ELSE job.out
    BY <1>0, <2>1, <2>3, <2>4, <2>6 DEF Places, JobFields, Collecting, Working, Kept, pipeline, pipes
  <2>. QED  BY <1>0, <1>11, <2>5, <2>6, ParseLineDoes
<1>12. CASE WriteOut
  <2>1. /\ job.status = "running" /\ job.out # << >> /\ UNCHANGED <<pipeline, dir, faults>>
        /\ Kept /\ job'.pos = job.pos /\ job'.status \in {"running", "exited"}
    BY <1>0, <1>12, WriteOutDoes
  <2>2. IsList(stdout') /\ IsList(job'.out)
    <3>1. IsList(stdout) /\ IsList(job.out)
      BY <1>0 DEF Places
    <3>2. IsList(Append(stdout, Head(job.out))) /\ IsList(Tail(job.out))
      BY <2>1, <3>1, ListAppend, ListHeadTail
    <3>. QED  BY <1>0, <1>12, <3>1, <3>2, WriteOutDoes
  <2>. QED  BY <1>0, <2>1, <2>2 DEF Places, JobFields, Collecting, Working, Kept, pipeline
<1>13. CASE EndParse
  <2>1. /\ job.status = "running" /\ job' = [job EXCEPT !.status = "exited"]
        /\ UNCHANGED <<pipeline, dir, pipes, faults>>
    BY <1>13 DEF EndParse
  <2>2. Kept /\ job'.status = "exited" /\ job'.pos = job.pos /\ job'.out = job.out
    BY <1>0, <2>1, StatusDoes
  <2>. QED  BY <1>0, <2>1, <2>2 DEF Places, JobFields, Collecting, Working, Kept, pipeline, pipes
<1>14. CASE SplitLine
  <2>0. DOMAIN dir = {"exists", "files"} /\ IsList(dir.files)
    BY <1>0 DEF Places
  <2>1. job.status = "running" /\ UNCHANGED <<pipeline, pipes, faults>>
    BY <1>0, <1>14, <2>0, SplitLineDoes
  <2>2. CASE job' = Die /\ UNCHANGED dir
    <3>1. Kept /\ job'.status = "dying" /\ job'.pos = job.pos /\ job'.out = job.out
      BY <1>0, <2>2, DieDoes
    <3>. QED  BY <1>0, <2>1, <2>2, <3>1 DEF Places, JobFields, Collecting, Working, Kept, pipeline, pipes
  <2>3. CASE /\ Kept /\ job'.status = "running" /\ job'.pos = job.pos + 1 /\ job'.out = job.out
             /\ DOMAIN dir' = DOMAIN dir /\ dir'.exists = dir.exists
             /\ dir'.files = WithLine(dir.files, job.file, Line, Wrapped(Line.rec, job.pos))
    <3>1. IsList(dir'.files)
      BY <2>0, <2>3, WithLineGrows
    <3>. QED  BY <1>0, <2>1, <2>3, <3>1 DEF Places, JobFields, Collecting, Working, Kept, pipeline, pipes
  <2>. QED  BY <1>0, <1>14, <2>0, <2>2, <2>3, SplitLineDoes
<1>15. CASE EndSplit
  <2>1. /\ job.status = "running" /\ job' = [job EXCEPT !.status = "exited"]
        /\ stdout' = <<dir.files>> /\ UNCHANGED <<pipeline, dir, stderr, faults>>
    BY <1>15 DEF EndSplit
  <2>2. Kept /\ job'.status = "exited" /\ job'.pos = job.pos /\ job'.out = job.out
    BY <1>0, <2>1, StatusDoes
  <2>3. IsList(stdout')
    BY <2>1, ListSingle
  <2>. QED  BY <1>0, <2>1, <2>2, <2>3 DEF Places, JobFields, Collecting, Working, Kept, pipeline
<1>16. CASE LastWords
  <2>1. /\ job.status = "dying" /\ UNCHANGED <<pipeline, dir, stdout, faults>>
        /\ Kept /\ job'.pos = job.pos /\ job'.out = job.out /\ job'.status \in {"dying", "exited"}
    BY <1>0, <1>16, LastWordsDoes
  <2>. QED  BY <1>0, <2>1 DEF Places, JobFields, Collecting, Working, Kept, pipeline
<1>17. CASE Interrupt
  <2>1. /\ pc = "collect" /\ pc' = "reap" /\ job' = [job EXCEPT !.open = FALSE]
        /\ stdout' = << >> /\ faults' = faults + 1
        /\ UNCHANGED <<cursor, tables, events, got, half, dir>>
    BY <1>17 DEF Interrupt
  <2>2. Kept /\ job'.status = job.status /\ job'.pos = job.pos /\ job'.out = job.out
    BY <1>0, <2>1, CloseDoes
  <2>. QED  BY <1>0, <1>n, <2>1, <2>2 DEF Places, JobFields, Collecting, Working, Kept
<1>18. CASE IoError
  <2>1. /\ job.status = "running" /\ job' = Die /\ faults' = faults + 1
        /\ UNCHANGED <<pipeline, dir, pipes>>
    BY <1>18 DEF IoError
  <2>2. Kept /\ job'.status = "dying" /\ job'.pos = job.pos /\ job'.out = job.out
    BY <1>0, <2>1, DieDoes
  <2>. QED  BY <1>0, <2>1, <2>2 DEF Places, JobFields, Collecting, Working, Kept, pipeline, pipes
<1>19. CASE Killed
  <2>1. /\ job.status \in {"running", "dying"} /\ faults' = faults + 1
        /\ job' = [job EXCEPT !.status = "exited", !.code = -9]
        /\ UNCHANGED <<pipeline, dir, pipes>>
    BY <1>19 DEF Killed
  <2>2. Kept /\ job'.status = "exited" /\ job'.pos = job.pos /\ job'.out = job.out
    BY <1>0, <2>1, ExitDoes
  <2>. QED  BY <1>0, <2>1, <2>2 DEF Places, JobFields, Collecting, Working, Kept, pipeline, pipes
<1>20. CASE UNCHANGED vars
  BY <1>0, <1>20 DEF vars, pipeline, pipes, Places, JobFields, Collecting, Working
<1>. QED
  BY <1>1, <1>2, <1>3, <1>4, <1>5, <1>6, <1>7, <1>8, <1>9, <1>10, <1>11, <1>12, <1>13, <1>14,
     <1>15, <1>16, <1>17, <1>18, <1>19, <1>20 DEF Next, Pipeline, Engine, Fault

LEMMA QuietSteps ==
  ASSUME Places, [Next]_vars
  PROVE  \/ Quiet \/ OpenFile \/ OpenContainer \/ NextTable \/ LeaveContainer
         \/ Return \/ ReapParse \/ ReapSplit
<1>0. JobFields /\ DOMAIN dir = {"exists", "files"}
  BY DEF Places
<1>1. CASE ReadLine
  BY <1>1, ReadLineDoes DEF Quiet
<1>2. CASE EndOfStream
  BY <1>2 DEF EndOfStream, Quiet
<1>3. CASE ReadStderr
  BY <1>3 DEF ReadStderr, pipeline, Quiet
<1>4. CASE ParseLine
  <2>1. UNCHANGED <<pipeline, dir>> /\ Kept
    BY <1>0, <1>4, ParseLineDoes, DieDoes
  <2>. QED  BY <2>1 DEF pipeline, Kept, Quiet
<1>5. CASE WriteOut
  <2>1. UNCHANGED <<pipeline, dir>> /\ Kept
    BY <1>0, <1>5, WriteOutDoes
  <2>. QED  BY <2>1 DEF pipeline, Kept, Quiet
<1>6. CASE EndParse
  <2>1. UNCHANGED <<pipeline, dir>> /\ job' = [job EXCEPT !.status = "exited"]
    BY <1>6 DEF EndParse
  <2>2. Kept
    BY <1>0, <2>1, StatusDoes
  <2>. QED  BY <2>1, <2>2 DEF pipeline, Kept, Quiet
<1>7. CASE SplitLine
  <2>1. UNCHANGED pipeline /\ Kept /\ dir'.exists = dir.exists
    BY <1>0, <1>7, SplitLineDoes, DieDoes
  <2>. QED  BY <2>1 DEF pipeline, Kept, Quiet
<1>8. CASE EndSplit
  <2>1. UNCHANGED <<pipeline, dir>> /\ job' = [job EXCEPT !.status = "exited"]
    BY <1>8 DEF EndSplit
  <2>2. Kept
    BY <1>0, <2>1, StatusDoes
  <2>. QED  BY <2>1, <2>2 DEF pipeline, Kept, Quiet
<1>9. CASE LastWords
  <2>1. UNCHANGED <<pipeline, dir>> /\ Kept
    BY <1>0, <1>9, LastWordsDoes
  <2>. QED  BY <2>1 DEF pipeline, Kept, Quiet
<1>10. CASE Interrupt
  <2>1. /\ UNCHANGED <<source, cursor, tables, events, dir>> /\ pc = "collect" /\ pc' = "reap"
        /\ job' = [job EXCEPT !.open = FALSE]
    BY <1>10 DEF Interrupt
  <2>2. Kept
    BY <1>0, <2>1, CloseDoes
  <2>. QED  BY <2>1, <2>2 DEF Kept, Quiet
<1>11. CASE IoError
  <2>1. UNCHANGED <<pipeline, dir>> /\ job' = Die
    BY <1>11 DEF IoError
  <2>2. Kept
    BY <1>0, <2>1, DieDoes
  <2>. QED  BY <2>1, <2>2 DEF pipeline, Kept, Quiet
<1>12. CASE Killed
  <2>1. UNCHANGED <<pipeline, dir>> /\ job' = [job EXCEPT !.status = "exited", !.code = -9]
    BY <1>12 DEF Killed
  <2>2. Kept
    BY <1>0, <2>1, ExitDoes
  <2>. QED  BY <2>1, <2>2 DEF pipeline, Kept, Quiet
<1>13. CASE UNCHANGED vars
  BY <1>13 DEF vars, pipeline, Quiet
<1>. QED
  BY <1>1, <1>2, <1>3, <1>4, <1>5, <1>6, <1>7, <1>8, <1>9, <1>10, <1>11, <1>12, <1>13
     DEF Next, Pipeline, Engine, Fault

\* What the file at the cursor adds.
LEMMA NextMeaning ==
  ASSUME Places, Parts, cursor <= Len(source)
  PROVE  /\ IsList(FlattenSeq(Prefix(Meanings, cursor - 1)))
         /\ IsList(AllEvents(Units(source[cursor])))
         /\ FlattenSeq(Prefix(Meanings, cursor)) =
              FlattenSeq(Prefix(Meanings, cursor - 1)) \o AllEvents(Units(source[cursor]))
<1>1. Len(source) \in Nat /\ cursor \in Nat \ {0}
  BY Readables DEF Places
<1>2. /\ IsList(Meanings) /\ AllLists(Meanings) /\ Len(Meanings) = Len(source)
      /\ Meanings[cursor] = AllEvents(Units(source[cursor]))
  BY <1>1, MeaningsList
<1>. DEFINE n == cursor - 1
<1>3. n \in Nat /\ n < Len(Meanings) /\ n + 1 = cursor
  BY <1>1, <1>2
<1>. HIDE DEF n
<1>4. /\ FlattenSeq(Prefix(Meanings, n + 1)) = FlattenSeq(Prefix(Meanings, n)) \o Meanings[n + 1]
      /\ IsList(FlattenSeq(Prefix(Meanings, n))) /\ IsList(Meanings[n + 1])
  BY <1>2, <1>3, FlattenNext
<1>. QED  BY <1>2, <1>3, <1>4 DEF n

LEMMA OpenFileKeeps ==
  ASSUME IInv, OpenFile
  PROVE  Parts' /\ Conserved' /\ NoneSkipped' /\ Delivered'
<1>. DEFINE file == source[cursor]
<1>0. Places /\ Parts /\ Conserved /\ NoneSkipped
  BY DEF IInv
<1>1. /\ pc = "choose" /\ ~dir.exists /\ cursor <= Len(source) /\ ~IsRawL2t(file)
      /\ cursor' = cursor + 1 /\ UNCHANGED <<source, tables, events, dir, faults>>
      /\ Consume(file)
  BY DEF OpenFile
<1>2. /\ cursor \in Nat \ {0} /\ Len(source) \in Nat /\ cursor \in DOMAIN source
      /\ tables = << >> /\ IsReadable(file) /\ IsList(events)
  BY <1>0, <1>1, Readables DEF Places
<1>3. /\ ~Collecting /\ Taken = cursor - 1 /\ Taken' = cursor /\ Pending = {}
      /\ UnderWay = << >> /\ AllEvents(tables) = << >>
  BY <1>1, <1>2, AllEventsFew DEF Collecting, Taken, Pending, ToSet, UnderWay
<1>4. /\ Units(file) = <<file>> /\ AllEvents(Units(file)) = UnitEvents(file)
      /\ ToSet(Units(file)) = {file} /\ IsList(UnitEvents(file))
  BY <1>1, <1>2, AllEventsFew, LinesList DEF Units, ToSet, UnitEvents
<1>5. SourceParts' = SourceParts /\ Meanings' = Meanings /\ file \in SourceParts
  BY <1>1, <1>2, <1>4 DEF SourceParts, Meanings
<1>6. \/ Route(file.name) = << >> /\ pc' = "choose"
      \/ /\ Route(file.name) # << >> /\ pc' = "collect"
         /\ job'.file = file /\ job'.maps = Route(file.name)
  <2>. DEFINE maps == Route(file.name)
  <2>1. \/ maps = << >> /\ pc' = "choose"
        \/ maps # << >> /\ pc' = "collect" /\ job' = Running("parse", file, maps)
    BY <1>1, ConsumeDoes
  <2>. HIDE DEF maps, file
  <2>2. job' = Running("parse", file, maps) => job'.file = file /\ job'.maps = maps
    BY RunningDoes
  <2>. QED  BY <2>1, <2>2 DEF maps
<1>. HIDE DEF file
<1>7. \/ Pending' = {} /\ UnderWay' = << >> /\ ~Collecting' /\ Route(file.name) = << >>
      \/ /\ Pending' = {file} /\ UnderWay' = UnitEvents(file) /\ Collecting'
         /\ job'.file = file /\ job'.maps = Route(file.name) /\ Route(file.name) # << >>
  BY <1>1, <1>2, <1>6 DEF Pending, UnderWay, Collecting, ToSet
<1>8. Parts'
  BY <1>0, <1>1, <1>2, <1>3, <1>5, <1>6, <1>7 DEF Parts
<1>9. Conserved'
  <2>0. AllEvents(tables') = << >>
    BY <1>1, <1>3
  <2>1. events \o << >> = events
    BY <1>2, ListConcat, Zenon
  <2>2. events = FlattenSeq(Prefix(Meanings, cursor - 1))
    BY <1>0, <1>1, <1>3, <2>1 DEF Conserved
  <2>3. FlattenSeq(Prefix(Meanings, cursor)) = events \o UnitEvents(file)
    BY <1>0, <1>1, <1>4, <2>2, NextMeaning DEF file
  <2>4. UnderWay' = UnitEvents(file)
    BY <1>2, <1>7, UnroutedSaysNothing
  <2>5. IsList(events \o UnitEvents(file))
    BY <1>2, <1>4, ListConcat, Zenon
  <2>6. (events \o UnitEvents(file)) \o << >> = events \o UnitEvents(file)
    BY <2>5, ListConcat, Zenon
  <2>. QED  BY <1>1, <1>3, <1>5, <2>0, <2>3, <2>4, <2>6 DEF Conserved
<1>10. NoneSkipped'
  <2>1. SUFFICES ASSUME NEW i \in DOMAIN source, i <= cursor, Refused(source[i])
                 PROVE  \E unit \in Pending' : UnitRefused(unit)
    BY <1>1, <1>3 DEF NoneSkipped
  <2>2. i = cursor
    <3>1. i \in Nat
      BY <1>0, Readables
    <3>2. ~(i <= Taken)
      BY <1>0, <1>1, <1>3, <2>1 DEF NoneSkipped
    <3>. QED  BY <1>2, <1>3, <2>1, <3>1, <3>2
  <2>3. UnitRefused(file)
    BY <1>1, <1>4, <2>1, <2>2 DEF Refused, file
  <2>. QED  BY <1>2, <1>7, <2>3, UnroutedSaysNothing
<1>11. Delivered'
  BY <1>6 DEF Delivered
<1>. QED  BY <1>8, <1>9, <1>10, <1>11

LEMMA OpenContainerKeeps ==
  ASSUME IInv, OpenContainer
  PROVE  Parts' /\ Conserved' /\ NoneSkipped' /\ Delivered'
<1>0. Places /\ Parts /\ Conserved /\ NoneSkipped
  BY DEF IInv
<1>1. /\ pc = "choose" /\ ~dir.exists /\ cursor <= Len(source) /\ IsRawL2t(source[cursor])
      /\ dir' = [exists |-> TRUE, files |-> << >>] /\ pc' = "communicate"
      /\ UNCHANGED <<source, cursor, tables, events, faults>>
      /\ job' = Running("split", source[cursor], << >>)
  BY DEF OpenContainer, Spawn
<1>2. job'.file = source[cursor]
  BY <1>1, RunningDoes
<1>3. dir'.exists
  BY <1>1
<1>4. /\ ~Collecting /\ ~Collecting' /\ Taken' = Taken /\ Pending' = Pending
      /\ UnderWay' = UnderWay /\ SourceParts' = SourceParts /\ Meanings' = Meanings
  BY <1>1, <1>3 DEF Collecting, Taken, Pending, UnderWay, SourceParts, Meanings
<1>5. Parts'
  BY <1>0, <1>1, <1>2, <1>4 DEF Parts
<1>6. Conserved' /\ NoneSkipped' /\ Delivered'
  BY <1>0, <1>1, <1>4 DEF Conserved, NoneSkipped, Delivered
<1>. QED  BY <1>5, <1>6

LEMMA NextTableKeeps ==
  ASSUME IInv, NextTable
  PROVE  Parts' /\ Conserved' /\ NoneSkipped' /\ Delivered'
<1>. DEFINE file == Head(tables)
<1>0. Places /\ Parts /\ Conserved /\ NoneSkipped
  BY DEF IInv
<1>1. /\ pc = "choose" /\ tables # << >> /\ tables' = Tail(tables)
      /\ UNCHANGED <<source, cursor, events, dir, faults>> /\ Consume(file)
  BY DEF NextTable
<1>2. /\ IsList(tables) /\ dir.exists /\ IsList(events)
      /\ \A unit \in ToSet(tables) : IsReadable(unit)
  BY <1>0, <1>1, Readables DEF Places
<1>3. /\ IsList(tables') /\ tables = <<file>> \o tables' /\ IsList(<<file>>)
  BY <1>1, <1>2, ListHeadTail, ListSingle
<1>4. ToSet(tables) = {file} \cup ToSet(tables')
  <2>1. ToSet(<<file>> \o tables') = ToSet(<<file>>) \cup ToSet(tables')
    BY <1>3, ConcatMembers, Zenon
  <2>2. ToSet(<<file>>) = {file}
    BY DEF ToSet
  <2>. QED  BY <1>3, <2>1, <2>2
<1>5. /\ ~Collecting /\ Taken = cursor /\ Taken' = cursor /\ Pending = ToSet(tables)
      /\ UnderWay = << >>
  <2>1. pc' # "communicate"
    BY <1>1, ConsumeDoes
  <2>. QED  BY <1>1, <1>2, <2>1 DEF Collecting, Taken, Pending, UnderWay
<1>6. SourceParts' = SourceParts /\ Meanings' = Meanings /\ file \in SourceParts
  BY <1>0, <1>1, <1>4, <1>5 DEF SourceParts, Meanings, Parts
<1>7. \/ Route(file.name) = << >> /\ pc' = "choose"
      \/ /\ Route(file.name) # << >> /\ pc' = "collect"
         /\ job'.file = file /\ job'.maps = Route(file.name)
  <2>. DEFINE maps == Route(file.name)
  <2>1. \/ maps = << >> /\ pc' = "choose"
        \/ maps # << >> /\ pc' = "collect" /\ job' = Running("parse", file, maps)
    BY <1>1, ConsumeDoes
  <2>. HIDE DEF maps, file
  <2>2. job' = Running("parse", file, maps) => job'.file = file /\ job'.maps = maps
    BY RunningDoes
  <2>. QED  BY <2>1, <2>2 DEF maps
<1>8. IsReadable(file)
  BY <1>2, <1>4
<1>. HIDE DEF file
<1>9. \/ /\ Pending' = ToSet(tables') /\ UnderWay' = << >> /\ ~Collecting'
         /\ Route(file.name) = << >>
      \/ /\ Pending' = ToSet(tables') \cup {file} /\ UnderWay' = UnitEvents(file) /\ Collecting'
         /\ job'.file = file /\ job'.maps = Route(file.name) /\ Route(file.name) # << >>
  BY <1>7 DEF Pending, UnderWay, Collecting
<1>10. Parts'
  <2>1. Pending' \subseteq SourceParts
    BY <1>0, <1>4, <1>5, <1>9 DEF Parts
  <2>. QED  BY <1>0, <1>1, <1>5, <1>6, <1>7, <1>9, <2>1 DEF Parts
<1>11. Conserved'
  <2>1. /\ AllEvents(tables) = UnitEvents(file) \o AllEvents(tables')
        /\ IsList(UnitEvents(file)) /\ IsList(AllEvents(tables'))
    <3>1. \A unit \in ToSet(tables') : IsReadable(unit)
      BY <1>2, <1>4
    <3>. QED  BY <1>3, <1>8, <3>1, AllEventsList
  <2>2. UnderWay' = UnitEvents(file)
    BY <1>8, <1>9, UnroutedSaysNothing
  <2>3. events \o << >> = events
    BY <1>2, ListConcat, Zenon
  <2>4. events \o (UnitEvents(file) \o AllEvents(tables'))
          = (events \o UnitEvents(file)) \o AllEvents(tables')
    BY <1>2, <2>1, ListAssociative
  <2>5. events \o AllEvents(tables) = FlattenSeq(Prefix(Meanings, cursor))
    BY <1>0, <1>1, <1>5, <2>3 DEF Conserved
  <2>. QED  BY <1>1, <1>5, <1>6, <2>1, <2>2, <2>4, <2>5 DEF Conserved
<1>12. NoneSkipped'
  <2>1. SUFFICES ASSUME NEW i \in DOMAIN source, i <= cursor, Refused(source[i])
                 PROVE  \E unit \in Pending' : UnitRefused(unit)
    BY <1>1, <1>5 DEF NoneSkipped
  <2>2. PICK unit \in Pending : UnitRefused(unit)
    BY <1>0, <1>1, <1>5, <2>1 DEF NoneSkipped
  <2>. QED  BY <1>4, <1>5, <1>8, <1>9, <2>2, UnroutedSaysNothing
<1>13. Delivered'
  BY <1>7 DEF Delivered
<1>. QED  BY <1>10, <1>11, <1>12, <1>13

LEMMA LeaveContainerKeeps ==
  ASSUME IInv, LeaveContainer
  PROVE  Parts' /\ Conserved' /\ NoneSkipped' /\ Delivered'
<1>0. Places /\ Parts /\ Conserved /\ NoneSkipped
  BY DEF IInv
<1>1. /\ pc = "choose" /\ pc' = "choose" /\ dir.exists /\ tables = << >> /\ dir' = NoDir
      /\ cursor' = cursor + 1
      /\ UNCHANGED <<source, tables, events, job, faults>>
  BY DEF LeaveContainer
<1>2. ~dir'.exists /\ cursor \in Nat \ {0} /\ Len(source) \in Nat
  BY <1>0, <1>1, Readables DEF NoDir, Places
<1>3. /\ ~Collecting /\ ~Collecting' /\ Taken' = Taken /\ Taken = cursor /\ Pending' = Pending
      /\ UnderWay' = UnderWay /\ SourceParts' = SourceParts /\ Meanings' = Meanings
  BY <1>1, <1>2 DEF Collecting, Taken, Pending, UnderWay, SourceParts, Meanings
<1>4. Parts'
  BY <1>0, <1>1, <1>2, <1>3 DEF Parts
<1>5. Conserved' /\ NoneSkipped' /\ Delivered'
  BY <1>0, <1>1, <1>3 DEF Conserved, NoneSkipped, Delivered
<1>. QED  BY <1>4, <1>5

LEMMA ReturnKeeps ==
  ASSUME IInv, Return
  PROVE  Parts' /\ Conserved' /\ NoneSkipped' /\ Delivered'
<1>0. Places /\ Parts /\ Conserved /\ NoneSkipped
  BY DEF IInv
<1>1. /\ pc = "choose" /\ pc' = "done" /\ ~dir.exists /\ cursor > Len(source)
      /\ UNCHANGED <<source, cursor, tables, events, dir, job, faults>>
  BY DEF Return
<1>2. cursor \in Nat \ {0} /\ Len(source) \in Nat
  BY <1>0, Readables DEF Places
<1>3. /\ ~Collecting /\ ~Collecting' /\ Taken' = Taken /\ Taken = cursor - 1 /\ Pending' = Pending
      /\ UnderWay' = UnderWay /\ SourceParts' = SourceParts /\ Meanings' = Meanings
  BY <1>1, <1>2 DEF Collecting, Taken, Pending, UnderWay, SourceParts, Meanings
<1>4. Parts'
  BY <1>0, <1>1, <1>2, <1>3 DEF Parts
<1>5. Delivered'
  BY <1>0, <1>1, <1>2, <1>3 DEF Parts, Delivered
<1>6. Conserved' /\ NoneSkipped'
  BY <1>0, <1>1, <1>3 DEF Conserved, NoneSkipped
<1>. QED  BY <1>4, <1>5, <1>6

\* A file whose engine ended well has been read, and is not refused.
LEMMA EndedWell ==
  ASSUME IInv, pc = "reap", Ended(0), ~raised
  PROVE  got = UnitEvents(job.file) /\ ~UnitRefused(job.file)
<1>0. Places /\ Parts /\ Stream /\ Collecting
  BY DEF IInv, Collecting
<1>1. got = UnitEvents(job.file)
  BY <1>0 DEF Stream
<1>2. /\ job.pos = Len(job.file.lines) + 1 /\ job.maps = Route(job.file.name)
      /\ \A n \in 1 .. job.pos - 1 : ~BadLine(job.maps, job.file.lines[n], n)
  BY <1>0 DEF Stream, Parts, Finished, AtWork
<1>3. IsReadable(job.file)
  BY <1>0, Readables DEF Working
<1>4. Len(job.file.lines) \in Nat /\ DOMAIN job.file.lines = 1 .. Len(job.file.lines)
  BY <1>3, ReadableLines
<1>5. \A n \in DOMAIN job.file.lines : ~BadLine(Route(job.file.name), job.file.lines[n], n)
  BY <1>2, <1>4
<1>. QED  BY <1>1, <1>5 DEF UnitRefused

LEMMA ReapParseKeeps ==
  ASSUME IInv, ReapParse
  PROVE  Parts' /\ Conserved' /\ NoneSkipped' /\ Delivered'
<1>0. Places /\ Parts /\ Conserved /\ NoneSkipped /\ JobFields
  BY DEF IInv, Places
<1>1. /\ pc = "reap" /\ job.status = "exited" /\ job'.file = job.file /\ job'.maps = job.maps
      /\ UNCHANGED <<source, cursor, tables, got, faults>>
  BY <1>0, ReapParseDoes DEF Kept
<1>2. /\ Collecting /\ Pending = ToSet(tables) \cup {job.file} /\ UnderWay = UnitEvents(job.file)
      /\ SourceParts' = SourceParts /\ Meanings' = Meanings
      /\ cursor \in Nat \ {0} /\ Len(source) \in Nat
  BY <1>0, <1>1, Readables DEF Collecting, Pending, UnderWay, SourceParts, Meanings, Places
<1>3. CASE pc' = "failed" /\ dir' = NoDir /\ events' = events
  <2>1. ~dir'.exists /\ ~Collecting' /\ Pending' = ToSet(tables) /\ Taken' = cursor - 1
    BY <1>1, <1>3 DEF NoDir, Collecting, Pending, Taken
  <2>2. cursor - 1 <= Len(source)
    BY <1>0, <1>2 DEF Parts, Taken
  <2>3. Parts'
    BY <1>0, <1>1, <1>2, <1>3, <2>1, <2>2 DEF Parts
  <2>. QED  BY <1>3, <2>3 DEF Conserved, NoneSkipped, Delivered
<1>4. CASE ~raised /\ job.code = 0 /\ pc' = "choose" /\ events' = events \o got /\ dir' = dir
  <2>1. /\ ~Collecting' /\ Pending' = ToSet(tables) /\ Taken' = Taken /\ UnderWay' = << >>
    BY <1>1, <1>4 DEF Collecting, Pending, Taken, UnderWay
  <2>2. got = UnitEvents(job.file) /\ ~UnitRefused(job.file)
    BY <1>1, <1>4, EndedWell DEF Ended
  <2>3. Parts'
    BY <1>0, <1>1, <1>2, <1>4, <2>1 DEF Parts
  <2>4. Conserved'
    <3>1. IsList(events) /\ IsList(got)
      BY <1>0 DEF Places
    <3>2. IsList(events \o got)
      BY <3>1, ListConcat, Zenon
    <3>3. (events \o got) \o << >> = events \o got
      BY <3>2, ListConcat, Zenon
    <3>4. (events \o got) \o AllEvents(tables) = FlattenSeq(Prefix(Meanings, Taken))
      BY <1>0, <1>1, <1>2, <2>2 DEF Conserved
    <3>5. AllEvents(tables') = AllEvents(tables)
      BY <1>1
    <3>. QED  BY <1>2, <1>4, <2>1, <3>3, <3>4, <3>5 DEF Conserved
  <2>5. NoneSkipped'
    BY <1>0, <1>1, <1>2, <1>4, <2>1, <2>2 DEF NoneSkipped
  <2>6. Delivered'
    BY <1>4 DEF Delivered
  <2>. QED  BY <2>3, <2>4, <2>5, <2>6
<1>. QED  BY <1>0, <1>3, <1>4, ReapParseDoes

LEMMA ReapSplitKeeps ==
  ASSUME IInv, ReapSplit
  PROVE  Parts' /\ Conserved' /\ NoneSkipped' /\ Delivered'
<1>. DEFINE file == source[cursor]
<1>0. Places /\ Parts /\ Conserved /\ NoneSkipped /\ Splitting /\ JobFields
  BY DEF IInv, Places
<1>1. /\ pc = "communicate" /\ job.status = "exited" /\ job.file = file
      /\ dir.exists /\ cursor <= Len(source) /\ IsRawL2t(file)
      /\ UNCHANGED <<source, cursor, events, faults>>
  BY <1>0, ReapSplitDoes DEF Places, Parts
<1>2. /\ cursor \in Nat \ {0} /\ Len(source) \in Nat /\ cursor \in DOMAIN source
      /\ tables = << >> /\ IsReadable(file) /\ IsList(events)
  BY <1>0, <1>1, Readables DEF Places
<1>3. /\ ~Collecting /\ Taken = cursor - 1 /\ Pending = {} /\ UnderWay = << >>
      /\ AllEvents(tables) = << >> /\ SourceParts' = SourceParts /\ Meanings' = Meanings
  BY <1>1, <1>2, AllEventsFew
     DEF Collecting, Taken, Pending, ToSet, UnderWay, SourceParts, Meanings
<1>4. CASE pc' = "failed" /\ dir' = NoDir /\ tables' = tables
  <2>1. ~dir'.exists /\ ~Collecting' /\ Pending' = {} /\ Taken' = cursor - 1
    BY <1>1, <1>2, <1>4 DEF NoDir, Collecting, Pending, Taken, ToSet
  <2>2. Parts'
    BY <1>0, <1>1, <1>2, <1>3, <1>4, <2>1 DEF Parts
  <2>. QED  BY <1>4, <2>2 DEF Conserved, NoneSkipped, Delivered
<1>5. CASE job.code = 0 /\ pc' = "choose" /\ dir' = dir /\ tables' = Head(stdout)
  <2>1. /\ dir.files = Tables(Cut(job.file, job.pos - 1)) /\ Len(dir.files) <= FdLimit
        /\ \A n \in 1 .. job.pos - 1 : ~Raises(job.file.lines[n])
        /\ job.pos = Len(job.file.lines) + 1 /\ stdout = <<dir.files>>
    BY <1>0, <1>1, <1>5 DEF Splitting, AtWork, Ended
  <2>. HIDE DEF file
  <2>2. /\ Len(file.lines) \in Nat /\ DOMAIN file.lines = 1 .. Len(file.lines)
        /\ (Len(file.lines) + 1) - 1 = Len(file.lines)
    BY <1>2, ReadableLines
  <2>3. /\ dir.files = Tables(file)
        /\ \A n \in DOMAIN file.lines : ~Raises(file.lines[n])
    <3>1. dir.files = Tables(Cut(file, Len(file.lines)))
      BY <1>1, <2>1, <2>2
    <3>2. \A n \in 1 .. Len(file.lines) : ~Raises(file.lines[n])
      BY <1>1, <2>1, <2>2
    <3>. QED  BY <1>2, <2>2, <3>1, <3>2, CutAll
  <2>4. tables' = Units(file)
    BY <1>1, <1>5, <2>1, <2>3 DEF Units
  <2>5. ~SplitRefused(file)
    <3>1. Len(Tables(file)) \in Nat
      BY <1>2, TablePartsList, ListLen
    <3>. QED  BY <2>1, <2>3, <3>1, CapsArePositive DEF SplitRefused
  <2>6. /\ ~Collecting' /\ Pending' = ToSet(Units(file)) /\ Taken' = cursor /\ UnderWay' = << >>
        /\ ToSet(Units(file)) \subseteq SourceParts
    BY <1>1, <1>2, <1>5, <2>4 DEF Collecting, Pending, Taken, UnderWay, SourceParts, file
  <2>7. Parts'
    BY <1>0, <1>1, <1>2, <1>3, <1>5, <2>6 DEF Parts, file
  <2>8. Conserved'
    <3>1. events \o << >> = events
      BY <1>2, ListConcat, Zenon
    <3>2. events = FlattenSeq(Prefix(Meanings, cursor - 1))
      BY <1>0, <1>1, <1>3, <3>1 DEF Conserved
    <3>3. FlattenSeq(Prefix(Meanings, cursor)) = events \o AllEvents(Units(file))
      BY <1>0, <1>1, <3>2, NextMeaning DEF file
    <3>. QED  BY <1>1, <1>3, <2>4, <2>6, <3>1, <3>3 DEF Conserved
  <2>9. NoneSkipped'
    <3>1. SUFFICES ASSUME NEW i \in DOMAIN source, i <= cursor, Refused(source[i])
                   PROVE  \E unit \in ToSet(Units(file)) : UnitRefused(unit)
      BY <1>1, <2>6 DEF NoneSkipped
    <3>2. i = cursor
      <4>1. i \in Nat
        BY <1>0, Readables
      <4>2. ~(i <= Taken)
        BY <1>0, <1>1, <1>3, <3>1 DEF NoneSkipped
      <4>. QED  BY <1>2, <1>3, <3>1, <4>1, <4>2
    <3>3. \E j \in DOMAIN Units(file) : UnitRefused(Units(file)[j])
      BY <2>5, <3>1, <3>2 DEF Refused, file
    <3>. QED  BY <3>3 DEF ToSet
  <2>10. Delivered'
    BY <1>5 DEF Delivered
  <2>. QED  BY <2>7, <2>8, <2>9, <2>10
<1>. QED  BY <1>0, <1>4, <1>5, ReapSplitDoes

\* The source is consumed in order, and what is refused waits to fail.
LEMMA OrderStep ==
  ASSUME IInv, [Next]_vars
  PROVE  Parts' /\ Conserved' /\ NoneSkipped' /\ Delivered'
<1>1. Places /\ Parts /\ Conserved /\ NoneSkipped /\ Delivered
  BY DEF IInv
<1>. QED  BY <1>1, QuietSteps, QuietKeeps, OpenFileKeeps, OpenContainerKeeps, NextTableKeeps,
             LeaveContainerKeeps, ReturnKeeps, ReapParseKeeps, ReapSplitKeeps

-----------------------------------------------------------------------------
(* The stream of one engine.                                               *)

\* What the lines so far say, and one line more.
LEMMA SaidList ==
  ASSUME Places, Parts, Collecting, job.pos <= Len(job.file.lines) + 1
  PROVE  /\ IsList(Said) /\ IsList(Tokens(Said))
         /\ job.pos = Len(job.file.lines) + 1 => Said = UnitEvents(job.file)
         /\ job.pos <= Len(job.file.lines) =>
              FlattenSeq(Prefix(Lines(job.file, job.maps), job.pos)) =
                Said \o IF IsRecord(Line, job.pos) THEN EventsOf(job.maps, Line.rec) ELSE << >>
<1>. DEFINE n == job.pos - 1
            f == Lines(job.file, job.maps)
<1>0. IsReadable(job.file) /\ job.maps = Route(job.file.name)
  BY Readables DEF Parts, Working
<1>1. Len(job.file.lines) \in Nat /\ DOMAIN job.file.lines = 1 .. Len(job.file.lines)
  BY <1>0, ReadableLines
<1>2. /\ IsList(f) /\ AllLists(f) /\ Len(f) = Len(job.file.lines)
      /\ UnitEvents(job.file) = FlattenSeq(f)
  BY <1>0, LinesList DEF UnitEvents
<1>3. n \in Nat /\ n <= Len(f) /\ n + 1 = job.pos
  BY <1>1, <1>2 DEF Places
<1>4. Said = FlattenSeq(Prefix(f, n))
  BY DEF Said
<1>5. job.pos <= Len(job.file.lines) =>
        f[job.pos] = IF IsRecord(Line, job.pos) THEN EventsOf(job.maps, Line.rec) ELSE << >>
  <2>1. job.pos <= Len(job.file.lines) => job.pos \in DOMAIN job.file.lines
    BY <1>1 DEF Places
  <2>. QED  BY <2>1 DEF Lines, Line
<1>. HIDE DEF f, n
<1>6. IsList(Said)
  <2>1. IsList(Prefix(f, n)) /\ AllLists(Prefix(f, n))
    <3>1. Len(f) \in Nat /\ n \in 0 .. Len(f)
      BY <1>2, <1>3, ListLen
    <3>2. /\ IsList(Prefix(f, n)) /\ Len(Prefix(f, n)) = n
          /\ \A i \in 1 .. n : Prefix(f, n)[i] = f[i]
      BY <1>2, <3>1, PrefixList
    <3>3. DOMAIN Prefix(f, n) = 1 .. n
      BY <3>2, ListLen
    <3>4. \A i \in 1 .. n : i \in DOMAIN f
      BY <1>2, <3>1, ListLen
    <3>. QED  BY <1>2, <3>2, <3>3, <3>4 DEF AllLists
  <2>. QED  BY <1>4, <2>1, FlattenList
<1>7. job.pos = Len(job.file.lines) + 1 => Said = UnitEvents(job.file)
  <2>1. job.pos = Len(job.file.lines) + 1 => n = Len(f)
    BY <1>1, <1>2, <1>3
  <2>. QED  BY <1>2, <1>4, <2>1, PrefixNext
<1>8. job.pos <= Len(job.file.lines) => FlattenSeq(Prefix(f, job.pos)) = Said \o f[job.pos]
  <2>1. job.pos <= Len(job.file.lines) => n < Len(f)
    BY <1>1, <1>2, <1>3
  <2>2. n < Len(f) => FlattenSeq(Prefix(f, n + 1)) = FlattenSeq(Prefix(f, n)) \o f[n + 1]
    BY <1>2, <1>3, FlattenNext
  <2>. QED  BY <1>3, <1>4, <2>1, <2>2
<1>9. IsList(Tokens(Said))
  BY <1>6, TokensParts
<1>. QED  BY <1>5, <1>6, <1>7, <1>8, <1>9 DEF f

\* What has been read of it.
LEMMA ReadSoFar ==
  ASSUME Places
  PROVE  /\ IsList(got) /\ IsList(Tokens(got)) /\ IsList(HalfRead)
         /\ IsList(Tokens(got) \o HalfRead)
         /\ OneHalf(HalfRead)
         /\ half # << >> => HalfRead # << >>
         /\ IsList(stdout) /\ IsList(job.out) /\ IsList(stdout \o job.out)
<1>1. IsList(got) /\ IsList(stdout) /\ IsList(job.out) /\ (half = << >> \/ half = <<half[1]>>)
  BY DEF Places
<1>2. IsList(Tokens(got))
  BY <1>1, TokensParts
<1>3. HalfRead = IF half = << >> THEN << >> ELSE <<Half(half[1], 1)>>
  BY DEF HalfRead, Half
<1>4. IsList(HalfRead)
  BY <1>3, ListEmpty, ListSingle
<1>5. IsList(Tokens(got) \o HalfRead)
  BY <1>2, <1>4, ListConcat, Zenon
<1>6. IsList(stdout \o job.out)
  BY <1>1, ListConcat, Zenon
<1>7. half # << >> => HalfRead # << >>
  BY <1>3
<1>8. OneHalf(HalfRead)
  BY <1>3 DEF OneHalf
<1>. QED  BY <1>1, <1>2, <1>4, <1>5, <1>6, <1>7, <1>8

\* At the end of the stream of an engine that ended well, all has been read.
LEMMA EndReached ==
  ASSUME IInv, EndOfStream, job.code = 0
  PROVE  half = << >> /\ got = UnitEvents(job.file)
<1>0. Places /\ Parts /\ Stream
  BY DEF IInv
<1>1. pc = "collect" /\ stdout = << >> /\ job.status = "exited" /\ Collecting
  BY DEF EndOfStream, Collecting
<1>2. InOrder /\ job.pos = Len(job.file.lines) + 1 /\ job.out = << >>
  BY <1>0, <1>1 DEF Stream, AtWork, Ended, Finished
<1>3. IsList(Said) /\ Said = UnitEvents(job.file)
  <2>1. job.pos <= Len(job.file.lines) + 1
    BY <1>0, <1>1 DEF Stream, Working
  <2>. QED  BY <1>0, <1>1, <1>2, <2>1, SaidList
<1>. DEFINE h == HalfRead
<1>4. IsList(Tokens(got) \o h) /\ IsList(got) /\ OneHalf(h)
  BY <1>0, ReadSoFar
<1>5. Tokens(got) \o h = Tokens(Said)
  <2>1. << >> \o << >> = << >>
    OBVIOUS
  <2>2. (Tokens(got) \o h) \o << >> = Tokens(got) \o h
    BY <1>4, ListConcat, Zenon
  <2>. QED  BY <1>1, <1>2, <2>1, <2>2 DEF InOrder
<1>. HIDE DEF h
<1>6. h = << >> /\ got = Said
  BY <1>3, <1>4, <1>5, AllTokens
<1>. QED  BY <1>0, <1>3, <1>6, ReadSoFar DEF h

\* A read moves one token from the pipe to what has been read.
LEMMA ReadInOrder ==
  ASSUME IInv, ReadLine, InOrder
  PROVE  InOrder'
<1>. DEFINE x == Head(stdout)
            past == Tokens(got)
            h == HalfRead
            rest == stdout \o job.out
            out == job.out
            left == Tail(stdout)
<1>0. Places /\ Parts /\ Stream
  BY DEF IInv
<1>1. /\ pc = "collect" /\ Collecting /\ stdout # << >> /\ stdout' = left
      /\ job' = job
      /\ \/ x.part = 1 /\ half' = <<x.event>> /\ got' = got
         \/ x.part # 1 /\ half' = << >> /\ got' = Append(got, x.event)
  BY ReadLineDoes DEF Collecting
<1>2. /\ IsList(got) /\ IsList(past) /\ IsList(h) /\ IsList(stdout) /\ IsList(out) /\ IsList(rest)
      /\ OneHalf(h)
  BY <1>0, ReadSoFar
<1>3. IsList(Said)
  <2>1. job.pos <= Len(job.file.lines) + 1
    BY <1>0, <1>1 DEF Stream, Working
  <2>. QED  BY <1>0, <1>1, <2>1, SaidList
<1>4. (past \o h) \o rest = Tokens(Said) /\ Said' = Said
  BY <1>1 DEF InOrder, Said
<1>. DEFINE one == <<x>>
<1>5. stdout = one \o left /\ IsList(left) /\ IsList(one)
  BY <1>1, <1>2, ListHeadTail, ListSingle
<1>. HIDE DEF x, past, h, rest, out, left, one
<1>a. IsList(past) /\ IsList(h) /\ IsList(one) /\ IsList(left) /\ IsList(out)
  BY <1>2, <1>5
<1>6. rest = one \o (left \o out) /\ IsList(left \o out)
  <2>1. IsList(one) /\ IsList(left) /\ IsList(out)
    BY <1>a
  <2>2. (one \o left) \o out = one \o (left \o out)
    BY ONLY <2>1, ListAssociative
  <2>3. IsList(left \o out)
    BY <1>2, <1>5, ListConcat, Zenon
  <2>. QED  BY <1>5, <2>2, <2>3 DEF rest, out
<1>7. rest # << >> /\ Head(rest) = x
  <2>. DEFINE more == left \o out
  <2>. HIDE DEF more
  <2>1. /\ IsList(one \o more) /\ Len(one \o more) = Len(one) + Len(more)
        /\ \A i \in 1 .. Len(one) : (one \o more)[i] = one[i]
    BY ONLY <1>5, <1>6, ListConcat DEF more
  <2>2. Len(one) = 1 /\ one[1] = x /\ Len(more) \in Nat
    BY <1>6, ListSingle, ListLen DEF one, more
  <2>3. rest[1] = x /\ Len(rest) # 0
    BY <1>6, <2>1, <2>2 DEF more
  <2>4. rest # << >>
    BY <2>3, ListEmpty
  <2>5. Head(rest) = rest[1]
    BY <1>2, <2>4, ListHeadTail
  <2>. QED  BY <2>3, <2>4, <2>5
<1>8. /\ h = << >> => x = Half(x.event, 1)
      /\ \A e : h = <<Half(e, 1)>> => x = Half(e, 2)
  <2>1. IsList(got) /\ IsList(rest) /\ OneHalf(h)
    BY <1>2
  <2>2. Halved(got, h, rest, Said)
    BY <1>4 DEF past, Halved
  <2>3. rest # << >>
    BY <1>7
  <2>4. h = << >> => Head(rest) = Half(Head(rest).event, 1)
    BY ONLY <1>3, <2>1, <2>2, <2>3, NextToken
  <2>5. \A e : h = <<Half(e, 1)>> => Head(rest) = Half(e, 2)
    BY ONLY <1>3, <2>1, <2>2, <2>3, NextToken
  <2>. QED  BY <1>7, <2>4, <2>5
<1>. DEFINE more == left \o out
<1>b. IsList(more)
  BY <1>6
<1>. HIDE DEF more
<1>9. SUFFICES (Tokens(got') \o HalfRead') \o (left \o out) = (past \o h) \o rest
  BY <1>1, <1>4 DEF InOrder, out
<1>10. CASE h = << >>
  <2>1. x = Half(x.event, 1)
    BY <1>8, <1>10
  <2>2. half' = <<x.event>> /\ got' = got
    BY <1>1, <2>1 DEF Half
  <2>3. HalfRead' = one
    <3>1. half' # << >> /\ half'[1] = x.event
      BY <2>2
    <3>2. HalfRead' = <<Half(x.event, 1)>>
      BY <3>1 DEF HalfRead, Half
    <3>. QED  BY <2>1, <3>2 DEF one
  <2>4. past \o h = past
    BY <1>2, <1>10, ListConcat, Zenon
  <2>a. IsList(past) /\ IsList(one) /\ IsList(more)
    BY <1>a, <1>b
  <2>5. (past \o one) \o more = past \o (one \o more)
    BY ONLY <2>a, ListAssociative
  <2>. QED  BY <1>6, <2>2, <2>3, <2>4, <2>5 DEF past, more
<1>11. CASE \E e : h = <<Half(e, 1)>>
  <2>1. PICK e : h = <<Half(e, 1)>>
    BY <1>11
  <2>2. x = Half(e, 2)
    BY <1>8, <2>1
  <2>3. half' = << >> /\ got' = Append(got, e)
    BY <1>1, <2>2 DEF Half
  <2>4. HalfRead' = << >>
    BY <2>3 DEF HalfRead
  <2>5. Tokens(got') = past \o (h \o one)
    <3>1. Tokens(got') = Tokens(got) \o Halves(e)
      BY <1>2, <2>3, TokensAppend
    <3>2. Halves(e) = <<Half(e, 1)>> \o <<Half(e, 2)>>
      <4>. DEFINE a == Half(e, 1)
                  b == Half(e, 2)
      <4>1. Halves(e) = <<a, b>>
        BY DEF Halves
      <4>. HIDE DEF a, b
      <4>2. <<a, b>> = Append(<<a>>, b)
        OBVIOUS
      <4>3. Append(<<a>>, b) = <<a>> \o <<b>>
        BY ListSingle, ListAppend, Zenon
      <4>. QED  BY <4>1, <4>2, <4>3 DEF a, b
    <3>. QED  BY <2>1, <2>2, <3>1, <3>2 DEF past, one
  <2>6. IsList(h \o one) /\ IsList(past \o h)
    <3>1. IsList(h \o one)
      BY <1>2, <1>5, ListConcat, Zenon
    <3>2. IsList(past \o h)
      BY <1>2, ListConcat, Zenon
    <3>. QED  BY <3>1, <3>2
  <2>a. IsList(past) /\ IsList(h) /\ IsList(one)
    BY <1>a
  <2>7. (past \o h) \o one = past \o (h \o one)
    BY ONLY <2>a, ListAssociative
  <2>8. IsList(past \o (h \o one))
    BY <1>2, <2>6, ListConcat, Zenon
  <2>9. Tokens(got') \o HalfRead' = (past \o h) \o one
    <3>1. (past \o (h \o one)) \o << >> = past \o (h \o one)
      BY <2>8, ListConcat, Zenon
    <3>. QED  BY <2>4, <2>5, <2>7, <3>1
  <2>10. ((past \o h) \o one) \o more = (past \o h) \o (one \o more)
    <3>. DEFINE begun == past \o h
    <3>1. IsList(begun)
      BY <2>6
    <3>. HIDE DEF begun
    <3>2. IsList(one)
      BY <1>a
    <3>3. (begun \o one) \o more = begun \o (one \o more)
      BY ONLY <1>b, <3>1, <3>2, ListAssociative
    <3>. QED  BY <3>3 DEF begun
  <2>. QED  BY <1>6, <2>9, <2>10 DEF more
<1>. QED  BY <1>2, <1>10, <1>11 DEF OneHalf

\* A line parsed adds what it says to the buffer.
LEMMA ParseInOrder ==
  ASSUME IInv, ParseLine, job'.status = "running", InOrder
  PROVE  InOrder'
<1>. DEFINE says == IF IsRecord(Line, job.pos) THEN EventsOf(job.maps, Line.rec) ELSE << >>
            read == Tokens(got) \o HalfRead
            kept == stdout \o job.out
            new == Tokens(says)
            done == Said
            out == job.out
<1>0. Places /\ Parts /\ JobFields
  BY DEF IInv, Places
<1>1. /\ job.verb = "parse" /\ job.status = "running" /\ job.pos <= Len(job.file.lines)
      /\ UNCHANGED <<pipeline, dir, pipes, faults>>
  BY <1>0, ParseLineDoes
<1>2. /\ Kept /\ job'.pos = job.pos + 1
      /\ job'.out = IF IsRecord(Line, job.pos)
                    THEN job.out \o Tokens(EventsOf(job.maps, Line.rec)) ELSE job.out
  <2>1. job' # Die
    BY <1>0, DieDoes
  <2>. QED  BY <1>0, <2>1, ParseLineDoes
<1>3. Collecting
  BY <1>0, <1>1 DEF Places, Working
<1>4. /\ IsReadable(job.file) /\ IsList(EventsOf(job.maps, Line.rec))
      /\ IsList(says) /\ IsList(new)
  <2>1. IsReadable(job.file) /\ IsList(EventsOf(job.maps, Line.rec))
    BY <1>0, <1>1, <1>3, LineEvents
  <2>2. IsList(says)
    BY <2>1, ListEmpty
  <2>. QED  BY <2>1, <2>2, TokensParts
<1>5. /\ IsList(done) /\ IsList(Tokens(done))
      /\ FlattenSeq(Prefix(Lines(job.file, job.maps), job.pos)) = done \o says
  <2>1. job.pos <= Len(job.file.lines) + 1
    BY <1>0, <1>1, <1>4, ReadableLines DEF Places
  <2>. QED  BY <1>0, <1>1, <1>3, <2>1, SaidList
<1>6. IsList(read) /\ IsList(kept) /\ IsList(stdout) /\ IsList(out)
  BY <1>0, ReadSoFar
<1>7. Said' = done \o says
  <2>1. job.pos \in Nat
    BY <1>0 DEF Places
  <2>2. (job.pos + 1) - 1 = job.pos
    BY <2>1
  <2>. QED  BY <1>2, <1>5, <2>2 DEF Said, Kept
<1>8. job'.out = out \o new
  <2>1. CASE IsRecord(Line, job.pos)
    BY <1>2, <2>1
  <2>2. CASE ~IsRecord(Line, job.pos)
    <3>1. new = << >>
      BY <2>2, TokensEmpty
    <3>2. out \o << >> = out
      BY <1>6, ListConcat, Zenon
    <3>. QED  BY <1>2, <2>2, <3>1, <3>2
  <2>. QED  BY <2>1, <2>2
<1>9. /\ (Tokens(got) \o HalfRead)' = read /\ stdout' = stdout
  BY <1>1 DEF pipeline, pipes, HalfRead
<1>10. read \o kept = Tokens(done)
  BY DEF InOrder
<1>. HIDE DEF says, read, kept, new, done, out
<1>11. Tokens(done \o says) = Tokens(done) \o new
  BY <1>4, <1>5, TokensConcat DEF new
<1>12. kept \o new = stdout \o (out \o new)
  <2>1. IsList(stdout) /\ IsList(out) /\ IsList(new)
    BY <1>4, <1>6
  <2>2. (stdout \o out) \o new = stdout \o (out \o new)
    BY ONLY <2>1, ListAssociative
  <2>. QED  BY <2>2 DEF kept, out
<1>13. (read \o kept) \o new = read \o (kept \o new)
  <2>1. IsList(read) /\ IsList(kept) /\ IsList(new)
    BY <1>4, <1>6
  <2>. QED  BY ONLY <2>1, ListAssociative
<1>. QED  BY <1>7, <1>8, <1>9, <1>10, <1>11, <1>12, <1>13 DEF InOrder

\* A token written out moves from the buffer to the pipe.
LEMMA WriteInOrder ==
  ASSUME IInv, WriteOut, job.open, InOrder
  PROVE  InOrder'
<1>. DEFINE x == Head(job.out)
            one == <<x>>
            left == Tail(job.out)
<1>0. Places /\ JobFields
  BY DEF IInv, Places
<1>1. /\ job.out # << >> /\ UNCHANGED pipeline /\ Kept /\ job'.pos = job.pos
      /\ stdout' = Append(stdout, x) /\ job'.out = left
  BY <1>0, WriteOutDoes
<1>2. IsList(stdout) /\ IsList(job.out)
  BY <1>0 DEF Places
<1>3. IsList(left) /\ IsList(one) /\ job.out = one \o left
  BY <1>1, <1>2, ListHeadTail, ListSingle
<1>4. Append(stdout, x) = stdout \o one
  BY <1>2, ListAppend, Zenon
<1>5. Said' = Said
  BY <1>1 DEF Said, Kept
<1>6. (Tokens(got) \o HalfRead)' = Tokens(got) \o HalfRead
  BY <1>1 DEF pipeline, HalfRead
<1>. HIDE DEF x, one, left
<1>7. (stdout \o one) \o left = stdout \o (one \o left)
  <2>1. IsList(stdout) /\ IsList(one) /\ IsList(left)
    BY <1>2, <1>3
  <2>. QED  BY ONLY <2>1, ListAssociative
<1>8. stdout' \o job'.out = stdout \o job.out
  BY <1>1, <1>3, <1>4, <1>7
<1>. QED  BY <1>5, <1>6, <1>8 DEF InOrder

\* An engine that starts has said nothing.
LEMMA SpawnInOrder ==
  ASSUME NEW file, IsReadable(file), job' = Running("parse", file, Route(file.name)),
         stdout' = << >>, got' = << >>, half' = << >>
  PROVE  InOrder' /\ job'.pos <= Len(job'.file.lines) + 1
<1>. DEFINE maps == Route(file.name)
<1>1. IsList(Lines(file, maps))
  BY LinesList
<1>2. FlattenSeq(Prefix(Lines(file, maps), 0)) = << >>
  BY <1>1, PrefixNext, FlattenEmpty
<1>. HIDE DEF maps
<1>3. job' = Running("parse", file, maps)
  BY DEF maps
<1>4. job'.file = file /\ job'.maps = maps /\ job'.pos = 1 /\ job'.out = << >>
  BY <1>3, RunningDoes
<1>5. Said' = << >>
  <2>1. 1 - 1 = 0
    OBVIOUS
  <2>. QED  BY <1>2, <1>4, <2>1 DEF Said
<1>6. HalfRead' = << >>
  BY DEF HalfRead
<1>7. << >> \o << >> = << >>
  OBVIOUS
<1>8. InOrder'
  BY <1>4, <1>5, <1>6, <1>7, TokensEmpty DEF InOrder
<1>9. Len(file.lines) \in Nat
  BY ReadableLines
<1>. QED  BY <1>4, <1>8, <1>9

LEMMA StreamSame ==
  ASSUME Stream, Kept, job'.status = job.status, job'.pos = job.pos, job'.out = job.out,
         job'.code = job.code, job'.open = job.open,
         UNCHANGED <<pc, got, half, raised, stdout>>
  PROVE  Stream'
<1>1. Said' = Said
  BY DEF Said, Kept
<1>2. HalfRead' = HalfRead
  BY DEF HalfRead
<1>3. InOrder' <=> InOrder
  BY <1>1, <1>2 DEF InOrder
<1>. QED  BY <1>3 DEF Stream, Kept, Collecting, Working, AtWork, Ended, Finished

\* A step after which the engine is neither at work nor has ended well.
LEMMA StreamBroken ==
  ASSUME Places, Stream, Kept, job'.pos = job.pos, job'.open = job.open,
         UNCHANGED <<pc, raised>>,
         job.status \in {"running", "dying"}, job'.status \in {"dying", "exited"},
         job'.status = "exited" => job'.code # 0
  PROVE  Stream'
<1>1. ~(pc = "reap" /\ ~raised)
  BY DEF Stream
<1>2. ~AtWork' /\ ~Ended(0)'
  BY DEF AtWork, Ended
<1>. QED  BY <1>1, <1>2 DEF Stream, Kept, Collecting, Working

LEMMA StreamSpawned ==
  ASSUME NEW file, IsReadable(file), job' = Running("parse", file, Route(file.name)),
         pc' = "collect", stdout' = << >>, got' = << >>, half' = << >>
  PROVE  Stream'
<1>1. InOrder' /\ job'.pos <= Len(job'.file.lines) + 1
  BY SpawnInOrder
<1>. DEFINE maps == Route(file.name)
<1>. HIDE DEF maps
<1>2. job' = Running("parse", file, maps)
  BY DEF maps
<1>3. job'.pos = 1 /\ job'.status = "running" /\ job'.open
  BY <1>2, RunningDoes
<1>. QED  BY <1>1, <1>3 DEF Stream, Ended

LEMMA StreamIdle ==
  ASSUME ~Working'
  PROVE  Stream'
  BY DEF Stream, Working, Collecting

LEMMA StreamStep ==
  ASSUME IInv, [Next]_vars
  PROVE  Stream'
<1>0. Places /\ Parts /\ Stream /\ JobFields
  BY DEF IInv, Places
<1>1. CASE OpenFile
  <2>. DEFINE file == source[cursor]
  <2>1. pc = "choose" /\ cursor <= Len(source) /\ Consume(file)
    BY <1>1 DEF OpenFile
  <2>2. IsReadable(file)
    <3>1. cursor \in DOMAIN source
      BY <1>0, <2>1, Readables DEF Places
    <3>. QED  BY <1>0, <3>1, Readables
  <2>. HIDE DEF file
  <2>3. CASE pc' = "choose"
    BY <2>3, StreamIdle DEF Working, Collecting
  <2>4. CASE pc' # "choose"
    BY <2>1, <2>2, <2>4, ConsumeDoes, StreamSpawned
  <2>. QED  BY <2>3, <2>4
<1>2. CASE OpenContainer
  <2>1. /\ cursor <= Len(source) /\ pc' = "communicate"
        /\ job' = Running("split", source[cursor], << >>)
    BY <1>2 DEF OpenContainer, Spawn
  <2>2. job'.pos = 1 /\ job'.file = source[cursor]
    BY <2>1, RunningDoes
  <2>3. cursor \in DOMAIN source
    BY <1>0, <2>1, Readables DEF Places
  <2>4. Len(source[cursor].lines) \in Nat
    BY <1>0, <2>3, Readables, ReadableLines
  <2>. QED  BY <2>1, <2>2, <2>4 DEF Stream, Collecting
<1>3. CASE NextTable
  <2>. DEFINE file == Head(tables)
  <2>1. tables # << >> /\ Consume(file)
    BY <1>3 DEF NextTable
  <2>2. IsReadable(file)
    <3>1. IsList(tables)
      BY <1>0 DEF Places
    <3>2. Head(tables) \in ToSet(tables)
      BY <2>1, <3>1, ListHeadTail DEF ToSet
    <3>. QED  BY <1>0, <3>2, Readables
  <2>. HIDE DEF file
  <2>3. CASE pc' = "choose"
    BY <2>3, StreamIdle DEF Working, Collecting
  <2>4. CASE pc' # "choose"
    BY <2>1, <2>2, <2>4, ConsumeDoes, StreamSpawned
  <2>. QED  BY <2>3, <2>4
<1>4. CASE LeaveContainer \/ Return
  BY <1>4, StreamIdle DEF LeaveContainer, Return, Working, Collecting
<1>5. CASE ReadLine
  <2>1. pc = "collect" /\ UNCHANGED <<pc, raised, job>>
    BY <1>5, ReadLineDoes
  <2>2. pc = "collect" /\ AtWork => InOrder'
    BY <1>0, <1>5, ReadInOrder DEF Stream
  <2>. QED  BY <1>0, <2>1, <2>2 DEF Stream, Collecting, Working, AtWork, Ended, Finished
<1>6. CASE EndOfStream
  <2>1. /\ pc = "collect" /\ pc' = "reap" /\ job.status = "exited" /\ UNCHANGED <<got, job>>
    BY <1>6 DEF EndOfStream
  <2>2. job.code = 0 => got = UnitEvents(job.file)
    BY <1>6, EndReached
  <2>. QED  BY <1>0, <2>1, <2>2 DEF Stream, Collecting, Working, AtWork, Ended, Finished
<1>7. CASE ReadStderr \/ UNCHANGED vars
  <2>1. UNCHANGED <<pc, got, half, raised, stdout, job>>
    BY <1>7 DEF ReadStderr, pipeline, vars, pipes
  <2>. QED  BY <1>0, <2>1, StreamSame DEF Kept
<1>8. CASE ReapParse
  <2>1. pc' \in {"failed", "choose"}
    BY <1>0, <1>8, ReapParseDoes
  <2>. QED  BY <2>1, StreamIdle DEF Working, Collecting
<1>9. CASE ReapSplit
  <2>1. pc' \in {"failed", "choose"}
    BY <1>0, <1>9, ReapSplitDoes
  <2>. QED  BY <2>1, StreamIdle DEF Working, Collecting
<1>10. CASE ParseLine
  <2>1. /\ job.verb = "parse" /\ job.status = "running" /\ job.pos <= Len(job.file.lines)
        /\ UNCHANGED <<pipeline, dir, pipes, faults>>
    BY <1>0, <1>10, ParseLineDoes
  <2>2. UNCHANGED <<pc, raised, got>> /\ Collecting /\ ~(pc = "reap" /\ ~raised)
    BY <1>0, <2>1 DEF pipeline, Places, Working, Stream
  <2>3. CASE job' = Die
    <3>1. Kept /\ job'.status = "dying" /\ job'.pos = job.pos /\ job'.open = job.open
      BY <1>0, <2>3, DieDoes
    <3>. QED  BY <1>0, <2>1, <2>2, <3>1, StreamBroken
  <2>4. CASE /\ Kept /\ job'.status = "running" /\ job'.pos = job.pos + 1
             /\ job'.code = job.code /\ job'.open = job.open
             /\ ~BadLine(job.maps, Line, job.pos)
    <3>1. IsReadable(job.file)
      BY <1>0, <2>2, Readables DEF Working
    <3>2. Len(job.file.lines) \in Nat /\ job.pos \in Nat \ {0}
      BY <1>0, <3>1, ReadableLines DEF Places
    <3>3. pc = "collect" => InOrder'
      BY <1>0, <1>10, <2>1, <2>4, ParseInOrder DEF Stream, AtWork
    <3>4. \A n \in 1 .. job.pos - 1 : ~BadLine(job.maps, job.file.lines[n], n)
      BY <1>0, <2>1, <2>2 DEF Stream, AtWork
    <3>5. ~BadLine(job.maps, job.file.lines[job.pos], job.pos)
      BY <2>4 DEF Line
    <3>6. \A n \in 1 .. job'.pos - 1 : ~BadLine(job'.maps, job'.file.lines[n], n)
      <4>1. \A n \in 1 .. job'.pos - 1 : n \in 1 .. job.pos - 1 \/ n = job.pos
        BY <2>4, <3>2
      <4>. QED  BY <2>4, <3>4, <3>5, <4>1 DEF Kept
    <3>7. ~Ended(0)'
      BY <2>4 DEF Ended
    <3>8. job'.pos <= Len(job'.file.lines) + 1
      BY <2>1, <2>4, <3>2 DEF Kept
    <3>. QED  BY <1>0, <2>2, <2>4, <3>3, <3>6, <3>7, <3>8 DEF Stream, Collecting
  <2>. QED  BY <1>0, <1>10, <2>3, <2>4, ParseLineDoes
<1>11. CASE WriteOut
  <2>1. /\ job.verb = "parse" /\ job.status = "running" /\ UNCHANGED <<pc, raised, got, half>>
        /\ Kept /\ job'.pos = job.pos /\ job'.open = job.open
    BY <1>0, <1>11, WriteOutDoes DEF pipeline
  <2>2. Collecting /\ ~(pc = "reap" /\ ~raised)
    BY <1>0, <2>1 DEF Places, Working, Stream
  <2>3. CASE job.open /\ job'.status = "running" /\ job'.code = job.code
    <3>1. pc = "collect" => InOrder'
      BY <1>0, <1>11, <2>1, <2>3, WriteInOrder DEF Stream, AtWork
    <3>2. ~Ended(0)'
      BY <2>3 DEF Ended
    <3>. QED  BY <1>0, <2>1, <2>2, <2>3, <3>1, <3>2 DEF Stream, Collecting, Working, AtWork, Kept
  <2>4. CASE ~job.open /\ job'.status = "exited" /\ job'.code = -13
    <3>1. job'.code # 0
      BY <2>4
    <3>. QED  BY <1>0, <2>1, <2>4, <3>1, StreamBroken
  <2>. QED  BY <1>0, <1>11, <2>3, <2>4, WriteOutDoes
<1>12. CASE EndParse
  <2>1. /\ job.verb = "parse" /\ job.status = "running" /\ ~MoreInput /\ job.out = << >>
        /\ job' = [job EXCEPT !.status = "exited"] /\ UNCHANGED <<pipeline, dir, pipes, faults>>
    BY <1>12 DEF EndParse
  <2>2. /\ Kept /\ job'.status = "exited" /\ job'.pos = job.pos /\ job'.out = job.out
        /\ job'.code = job.code /\ job'.open = job.open
    BY <1>0, <2>1, StatusDoes
  <2>3. UNCHANGED <<pc, raised, got, half, stdout>> /\ Collecting /\ ~(pc = "reap" /\ ~raised)
    BY <1>0, <2>1 DEF pipeline, pipes, Places, Working, Stream
  <2>4. job.pos = Len(job.file.lines) + 1
    <3>1. Len(job.file.lines) \in Nat /\ job.pos \in Nat /\ job.pos <= Len(job.file.lines) + 1
      BY <1>0, <2>3, Readables, ReadableLines DEF Working, Places, Stream
    <3>. QED  BY <2>1, <3>1 DEF MoreInput
  <2>5. Said' = Said /\ HalfRead' = HalfRead
    BY <2>2, <2>3 DEF Said, Kept, HalfRead
  <2>6. InOrder' <=> InOrder
    BY <2>2, <2>3, <2>5 DEF InOrder
  <2>. QED  BY <1>0, <2>1, <2>2, <2>3, <2>4, <2>6
            DEF Stream, Collecting, Working, AtWork, Kept, Finished
<1>13. CASE SplitLine
  <2>1. /\ job.verb = "split" /\ job.status = "running" /\ job.pos <= Len(job.file.lines)
        /\ UNCHANGED pc
        /\ Kept /\ job'.pos \in {job.pos, job.pos + 1}
    BY <1>0, <1>13, SplitLineDoes, DieDoes DEF pipeline, Places
  <2>2. pc = "communicate" /\ Len(job.file.lines) \in Nat /\ job.pos \in Nat
    BY <1>0, <2>1, Readables, ReadableLines DEF Places, Working, Collecting
  <2>. QED  BY <2>1, <2>2 DEF Stream, Collecting, Kept
<1>14. CASE EndSplit
  <2>1. /\ job.verb = "split" /\ job.status = "running" /\ UNCHANGED pc
        /\ job' = [job EXCEPT !.status = "exited"]
    BY <1>14 DEF EndSplit, pipeline
  <2>2. Kept /\ job'.pos = job.pos
    BY <1>0, <2>1, StatusDoes
  <2>3. pc = "communicate"
    BY <1>0, <2>1 DEF Places, Working, Collecting
  <2>. QED  BY <1>0, <2>1, <2>2, <2>3 DEF Stream, Collecting, Working, Kept
<1>15. CASE LastWords
  <2>1. /\ job.status = "dying" /\ UNCHANGED <<pc, raised>>
        /\ Kept /\ job'.pos = job.pos /\ job'.open = job.open
        /\ job'.status \in {"dying", "exited"} /\ (job'.status = "exited" => job'.code = 1)
    BY <1>0, <1>15, LastWordsDoes DEF pipeline
  <2>. QED  BY <1>0, <2>1, StreamBroken
<1>16. CASE Interrupt
  <2>1. /\ pc = "collect" /\ pc' = "reap" /\ raised' /\ job' = [job EXCEPT !.open = FALSE]
    BY <1>16 DEF Interrupt
  <2>2. Kept /\ job'.status = job.status /\ job'.pos = job.pos /\ job'.out = job.out
        /\ job'.code = job.code
    BY <1>0, <2>1, CloseDoes
  <2>. QED  BY <1>0, <2>1, <2>2 DEF Stream, Collecting, Working, AtWork, Ended, Finished, Kept
<1>17. CASE IoError
  <2>1. job.status = "running" /\ job' = Die /\ UNCHANGED <<pc, raised>>
    BY <1>17 DEF IoError, pipeline
  <2>2. Kept /\ job'.status = "dying" /\ job'.pos = job.pos /\ job'.open = job.open
    BY <1>0, <2>1, DieDoes
  <2>. QED  BY <1>0, <2>1, <2>2, StreamBroken
<1>18. CASE Killed
  <2>1. /\ job.status \in {"running", "dying"} /\ UNCHANGED <<pc, raised>>
        /\ job' = [job EXCEPT !.status = "exited", !.code = -9]
    BY <1>18 DEF Killed, pipeline
  <2>2. /\ Kept /\ job'.status = "exited" /\ job'.pos = job.pos /\ job'.open = job.open
        /\ job'.code = -9
    BY <1>0, <2>1, ExitDoes
  <2>. QED  BY <1>0, <2>1, <2>2, StreamBroken
<1>. QED
  BY <1>1, <1>2, <1>3, <1>4, <1>5, <1>6, <1>7, <1>8, <1>9, <1>10, <1>11, <1>12, <1>13, <1>14,
     <1>15, <1>16, <1>17, <1>18 DEF Next, Pipeline, Engine, Fault

-----------------------------------------------------------------------------
(* The split of a container.                                               *)

LEMMA SplittingSame ==
  ASSUME Splitting, Kept, job'.status = job.status, job'.pos = job.pos, job'.code = job.code,
         UNCHANGED <<pc, dir, stdout>>
  PROVE  Splitting'
  BY DEF Splitting, Kept, AtWork, Ended

LEMMA SplittingOver ==
  ASSUME pc' # "communicate" \/ (~AtWork' /\ ~Ended(0)')
  PROVE  Splitting'
  BY DEF Splitting

\* A line split adds what it names to the tables.
LEMMA SplitLineKeeps ==
  ASSUME IInv, SplitLine, job'.status = "running"
  PROVE  Splitting'
<1>. DEFINE n == job.pos - 1
            file == job.file
<1>0. /\ Places /\ Parts /\ Stream /\ Splitting /\ JobFields
      /\ DOMAIN dir = {"exists", "files"} /\ IsList(dir.files)
  BY DEF IInv, Places
<1>1. /\ job.verb = "split" /\ job.status = "running" /\ job.pos <= Len(file.lines)
      /\ UNCHANGED <<pipeline, pipes, faults>>
  BY <1>0, SplitLineDoes
<1>2. job' # Die
  BY <1>0, DieDoes
<1>3. /\ Kept /\ job'.pos = job.pos + 1 /\ job'.code = job.code
      /\ ~Raises(Line)
      /\ dir'.files = WithLine(dir.files, file, Line, Wrapped(Line.rec, job.pos))
      /\ \/ ~IsRow(Line)
         \/ Known(dir.files, TableName(Line.rec)) # {}
         \/ Len(dir.files) # FdLimit
  BY <1>0, <1>2, SplitLineDoes
<1>4. pc = "communicate" /\ pc' = pc
  BY <1>0, <1>1 DEF Places, Working, Collecting, pipeline
<1>5. /\ dir.files = Tables(Cut(file, n)) /\ Len(dir.files) <= FdLimit
      /\ \A k \in 1 .. n : ~Raises(file.lines[k])
  BY <1>0, <1>1, <1>4 DEF Splitting, AtWork
<1>6. /\ IsReadable(file) /\ Len(file.lines) \in Nat /\ n \in Nat /\ n < Len(file.lines)
      /\ n + 1 = job.pos /\ (job.pos + 1) - 1 = job.pos
  <2>1. IsReadable(file) /\ job.pos \in Nat \ {0}
    BY <1>0, <1>4, Readables DEF Working, Places
  <2>2. Len(file.lines) \in Nat
    BY <2>1, ReadableLines
  <2>. QED  BY <1>1, <2>1, <2>2
<1>. HIDE DEF n, file
<1>7. Tables(Cut(file, n + 1)) =
        WithLine(Tables(Cut(file, n)), file, file.lines[n + 1],
                 Wrapped(file.lines[n + 1].rec, n + 1))
  BY <1>6, TablesNext
<1>8. Line = file.lines[job.pos]
  BY DEF Line, file
<1>9. dir'.files = Tables(Cut(file, job.pos))
  BY <1>3, <1>5, <1>6, <1>7, <1>8
<1>10. Len(dir'.files) <= FdLimit
  <2>1. /\ Len(dir.files) \in Nat /\ FdLimit \in Nat
    BY <1>0, ListLen, CapsArePositive
  <2>2. CASE IsRow(Line) /\ Known(dir.files, TableName(Line.rec)) = {}
    <3>1. Len(dir'.files) = Len(dir.files) + 1
      BY <1>0, <1>3, <2>2, WithLineGrows
    <3>2. Len(dir.files) # FdLimit
      BY <1>3, <2>2
    <3>. QED  BY <1>5, <2>1, <3>1, <3>2
  <2>3. CASE ~IsRow(Line)
    BY <1>3, <1>5, <2>3 DEF WithLine
  <2>4. CASE IsRow(Line) /\ Known(dir.files, TableName(Line.rec)) # {}
    <3>. DEFINE row == Wrapped(Line.rec, job.pos)
                table == TableName(Line.rec)
                f == WithRow(dir.files, table, row)
    <3>1. dir'.files = f
      BY <1>3, <2>4 DEF WithLine
    <3>2. f = [i \in DOMAIN dir.files |-> f[i]]
      BY DEF WithRow
    <3>. HIDE DEF f
    <3>3. Len(f) = Len(dir.files)
      BY <1>0, <3>2, ListMapped
    <3>. QED  BY <1>5, <3>1, <3>3
  <2>. QED  BY <2>2, <2>3, <2>4
<1>11. \A k \in 1 .. job'.pos - 1 : ~Raises(job'.file.lines[k])
  <2>1. \A k \in 1 .. job'.pos - 1 : k \in 1 .. n \/ k = job.pos
    BY <1>3, <1>6
  <2>. QED  BY <1>3, <1>5, <1>8, <2>1 DEF Kept, file
<1>12. ~Ended(0)'
  BY DEF Ended
<1>. QED  BY <1>3, <1>6, <1>9, <1>10, <1>11, <1>12 DEF Splitting, Kept, file

LEMMA SplittingStep ==
  ASSUME IInv, [Next]_vars
  PROVE  Splitting'
<1>0. Places /\ Parts /\ Stream /\ Splitting /\ JobFields
  BY DEF IInv, Places
<1>1. CASE OpenFile
  BY <1>1, ConsumeDoes, SplittingOver DEF OpenFile
<1>2. CASE OpenContainer
  <2>. DEFINE file == source[cursor]
  <2>1. /\ cursor <= Len(source) /\ dir' = [exists |-> TRUE, files |-> << >>]
        /\ job' = Running("split", file, << >>)
    BY <1>2 DEF OpenContainer, Spawn
  <2>2. job'.pos = 1 /\ job'.file = file /\ job'.status = "running" /\ 1 - 1 = 0
    BY <2>1, RunningDoes
  <2>3. IsReadable(file)
    <3>1. cursor \in DOMAIN source
      BY <1>0, <2>1, Readables DEF Places
    <3>. QED  BY <1>0, <3>1, Readables
  <2>4. dir'.files = << >>
    BY <2>1
  <2>. HIDE DEF file
  <2>5. Tables(Cut(file, 0)) = << >>
    BY <2>3, CutAll
  <2>6. dir'.files = Tables(Cut(job'.file, job'.pos - 1))
    BY <2>2, <2>4, <2>5
  <2>7. Len(dir'.files) <= FdLimit
    BY <2>4, ListEmpty, CapsArePositive
  <2>8. ~Ended(0)'
    BY <2>2 DEF Ended
  <2>9. \A k \in 1 .. job'.pos - 1 : ~Raises(job'.file.lines[k])
    BY <2>2
  <2>. QED  BY <2>6, <2>7, <2>8, <2>9 DEF Splitting
<1>3. CASE NextTable
  BY <1>3, ConsumeDoes, SplittingOver DEF NextTable
<1>4. CASE LeaveContainer \/ Return
  BY <1>4, SplittingOver DEF LeaveContainer, Return
<1>5. CASE ReadLine
  BY <1>5, ReadLineDoes, SplittingOver
<1>6. CASE EndOfStream \/ Interrupt
  BY <1>6, SplittingOver DEF EndOfStream, Interrupt
<1>7. CASE ReadStderr \/ UNCHANGED vars
  <2>1. UNCHANGED <<pc, dir, stdout, job>>
    BY <1>7 DEF ReadStderr, pipeline, vars, pipes
  <2>. QED  BY <1>0, <2>1, SplittingSame DEF Kept
<1>8. CASE ReapParse
  BY <1>0, <1>8, ReapParseDoes, SplittingOver
<1>9. CASE ReapSplit
  BY <1>0, <1>9, ReapSplitDoes, SplittingOver
<1>10. CASE ParseLine \/ WriteOut \/ EndParse
  <2>1. job.verb = "parse" /\ job.status = "running" /\ UNCHANGED pipeline
    BY <1>0, <1>10, ParseLineDoes, WriteOutDoes DEF EndParse
  <2>2. pc # "communicate" /\ pc' = pc
    BY <1>0, <2>1 DEF Places, pipeline
  <2>. QED  BY <2>2, SplittingOver
<1>11. CASE SplitLine
  <2>1. CASE job' = Die
    <3>1. job'.status = "dying"
      BY <1>0, <2>1, DieDoes
    <3>. QED  BY <3>1, SplittingOver DEF AtWork, Ended
  <2>2. CASE job' # Die
    <3>1. job'.status = "running"
      BY <1>0, <1>11, <2>2, SplitLineDoes DEF Places
    <3>. QED  BY <1>11, <3>1, SplitLineKeeps
  <2>. QED  BY <2>1, <2>2
<1>12. CASE EndSplit
  <2>1. /\ job.verb = "split" /\ job.status = "running" /\ ~MoreInput
        /\ job' = [job EXCEPT !.status = "exited"] /\ UNCHANGED <<pc, dir>>
        /\ stdout' = <<dir.files>>
    BY <1>12 DEF EndSplit, pipeline
  <2>2. Kept /\ job'.pos = job.pos /\ job'.code = job.code /\ job'.status = "exited"
    BY <1>0, <2>1, StatusDoes
  <2>3. pc = "communicate"
    BY <1>0, <2>1 DEF Places, Working, Collecting
  <2>4. job.pos = Len(job.file.lines) + 1
    <3>1. Len(job.file.lines) \in Nat /\ job.pos \in Nat /\ job.pos <= Len(job.file.lines) + 1
      BY <1>0, <2>3, Readables, ReadableLines DEF Working, Places, Stream
    <3>. QED  BY <2>1, <3>1 DEF MoreInput
  <2>5. AtWork
    BY <2>1 DEF AtWork
  <2>. QED  BY <1>0, <2>1, <2>2, <2>3, <2>4, <2>5 DEF Splitting, Kept
<1>13. CASE LastWords
  <2>1. job'.status = "dying" \/ (job'.status = "exited" /\ job'.code = 1)
    BY <1>0, <1>13, LastWordsDoes
  <2>. QED  BY <2>1, SplittingOver DEF AtWork, Ended
<1>14. CASE IoError
  <2>1. job'.status = "dying"
    BY <1>0, <1>14, DieDoes DEF IoError
  <2>. QED  BY <2>1, SplittingOver DEF AtWork, Ended
<1>15. CASE Killed
  <2>1. job' = [job EXCEPT !.status = "exited", !.code = -9]
    BY <1>15 DEF Killed
  <2>2. job'.status = "exited" /\ job'.code = -9
    BY <1>0, <2>1, ExitDoes
  <2>. QED  BY <2>2, SplittingOver DEF AtWork, Ended
<1>. QED
  BY <1>1, <1>2, <1>3, <1>4, <1>5, <1>6, <1>7, <1>8, <1>9, <1>10, <1>11, <1>12, <1>13, <1>14,
     <1>15 DEF Next, Pipeline, Engine, Fault

-----------------------------------------------------------------------------
(* Who is to blame.                                                        *)

\* A refused part makes its source unsound, and so does a container that
\* cannot be split.
LEMMA RefusedIsUnsound ==
  ASSUME Places, Parts
  PROVE  /\ \A unit \in SourceParts : UnitRefused(unit) => ~Sound(source)
         /\ pc = "communicate" /\ SplitRefused(job.file) => ~Sound(source)
<1>1. ASSUME NEW unit \in SourceParts, UnitRefused(unit)
      PROVE  ~Sound(source)
  <2>1. PICK i \in DOMAIN source : unit \in ToSet(Units(source[i]))
    BY DEF SourceParts
  <2>2. Refused(source[i])
    BY <1>1, <2>1 DEF ToSet, Refused
  <2>. QED  BY <2>2 DEF Sound
<1>2. ASSUME pc = "communicate", SplitRefused(job.file)
      PROVE  ~Sound(source)
  <2>1. dir.exists /\ cursor <= Len(source) /\ IsRawL2t(source[cursor]) /\ job.file = source[cursor]
    BY <1>2 DEF Places, Parts
  <2>2. cursor \in DOMAIN source
    BY <2>1, Readables DEF Places
  <2>3. Refused(source[cursor])
    BY <1>2, <2>1 DEF Refused
  <2>. QED  BY <2>2, <2>3 DEF Sound
<1>. QED  BY <1>1, <1>2

\* The line the parser dies of is the file's fault.
LEMMA ParserDies ==
  ASSUME IInv, ParseLine, job' = Die
  PROVE  Wrong
<1>0. Places /\ Parts /\ JobFields
  BY DEF IInv, Places
<1>1. job.verb = "parse" /\ job.status = "running" /\ job.pos <= Len(job.file.lines)
  BY <1>0, ParseLineDoes
<1>2. BadLine(job.maps, Line, job.pos)
  <2>1. job'.status # "running"
    BY <1>0, DieDoes
  <2>. QED  BY <1>0, <2>1, ParseLineDoes
<1>3. Collecting
  BY <1>0, <1>1 DEF Places, Working
<1>4. job.pos \in DOMAIN job.file.lines
  BY <1>0, <1>1, <1>3, LineEvents
<1>5. job.maps = Route(job.file.name) /\ job.maps # << >> /\ job.file \in SourceParts
  BY <1>0, <1>3 DEF Parts, Pending
<1>6. UnitRefused(job.file)
  BY <1>2, <1>4, <1>5 DEF UnitRefused, Line
<1>. QED  BY <1>0, <1>5, <1>6, RefusedIsUnsound DEF Wrong

\* And so is the one the splitter dies of.
LEMMA SplitterDies ==
  ASSUME IInv, SplitLine, job' = Die
  PROVE  Wrong
<1>. DEFINE n == job.pos - 1
            file == job.file
<1>0. /\ Places /\ Parts /\ Splitting /\ JobFields
      /\ DOMAIN dir = {"exists", "files"} /\ IsList(dir.files)
  BY DEF IInv, Places
<1>1. /\ job.verb = "split" /\ job.status = "running" /\ job.pos <= Len(file.lines)
  BY <1>0, SplitLineDoes
<1>2. job'.status # "running"
  BY <1>0, DieDoes
<1>3. \/ Raises(Line)
      \/ /\ IsRow(Line) /\ Known(dir.files, TableName(Line.rec)) = {}
         /\ Len(dir.files) = FdLimit
  BY <1>0, <1>2, SplitLineDoes
<1>4. pc = "communicate"
  BY <1>0, <1>1 DEF Places, Working, Collecting
<1>5. dir.files = Tables(Cut(file, n))
  BY <1>0, <1>1, <1>4 DEF Splitting, AtWork
<1>6. /\ IsReadable(file) /\ Len(file.lines) \in Nat /\ n \in Nat /\ n < Len(file.lines)
      /\ n + 1 = job.pos /\ job.pos \in DOMAIN file.lines
  <2>1. IsReadable(file) /\ job.pos \in Nat \ {0}
    BY <1>0, <1>4, Readables DEF Working, Places
  <2>2. Len(file.lines) \in Nat /\ DOMAIN file.lines = 1 .. Len(file.lines)
    BY <2>1, ReadableLines
  <2>. QED  BY <1>1, <2>1, <2>2
<1>7. Line = file.lines[job.pos]
  BY DEF Line
<1>8. SplitRefused(file)
  <2>1. CASE Raises(Line)
    BY <1>6, <1>7, <2>1 DEF SplitRefused
  <2>2. CASE /\ IsRow(Line) /\ Known(dir.files, TableName(Line.rec)) = {}
             /\ Len(dir.files) = FdLimit
    <3>. DEFINE row == Wrapped(file.lines[n + 1].rec, n + 1)
                line == file.lines[n + 1]
    <3>. HIDE DEF n, file
    <3>1. Tables(Cut(file, n + 1)) = WithLine(Tables(Cut(file, n)), file, line, row)
      BY <1>6, TablesNext
    <3>. HIDE DEF row, line
    <3>2. Tables(Cut(file, n + 1)) = WithLine(dir.files, file, Line, row)
      BY <1>5, <1>6, <1>7, <3>1 DEF line
    <3>3. Len(Tables(Cut(file, n + 1))) = FdLimit + 1
      BY <1>0, <2>2, <3>2, WithLineGrows
    <3>4. n + 1 \in 0 .. Len(file.lines)
      BY <1>6
    <3>5. Len(Tables(file)) \in Nat /\ FdLimit + 1 <= Len(Tables(file))
      BY <1>6, <3>3, <3>4, TablesGrow
    <3>. QED  BY <3>5, CapsArePositive DEF SplitRefused
  <2>. QED  BY <1>3, <2>1, <2>2
<1>. QED  BY <1>0, <1>4, <1>8, RefusedIsUnsound DEF Wrong

LEMMA BlamedStep ==
  ASSUME IInv, [Next]_vars
  PROVE  Blamed'
<1>0. Places /\ Parts /\ Stream /\ Blamed /\ JobFields /\ faults \in Nat
  BY DEF IInv, Places
<1>b. UNCHANGED <<source, faults>> => (Wrong' <=> Wrong)
  BY DEF Wrong
<1>1. CASE OpenFile
  <2>. DEFINE file == source[cursor]
              maps == Route(file.name)
  <2>1. \/ pc' = "choose"
        \/ pc' = "collect" /\ job' = Running("parse", file, maps) /\ raised' = FALSE
    BY <1>1, ConsumeDoes DEF OpenFile
  <2>. HIDE DEF file, maps
  <2>2. job' = Running("parse", file, maps) => job'.status = "running" /\ job'.code = 0 /\ job'.open
    BY RunningDoes
  <2>. QED  BY <2>1, <2>2 DEF Blamed, Working, Collecting
<1>2. CASE OpenContainer
  <2>1. /\ pc' = "communicate" /\ job' = Running("split", source[cursor], << >>)
        /\ raised' = FALSE
    BY <1>2 DEF OpenContainer, Spawn
  <2>2. job'.status = "running" /\ job'.code = 0 /\ job'.open
    BY <2>1, RunningDoes
  <2>. QED  BY <2>1, <2>2 DEF Blamed
<1>3. CASE NextTable
  <2>. DEFINE file == Head(tables)
              maps == Route(file.name)
  <2>1. \/ pc' = "choose"
        \/ pc' = "collect" /\ job' = Running("parse", file, maps) /\ raised' = FALSE
    BY <1>3, ConsumeDoes DEF NextTable
  <2>. HIDE DEF file, maps
  <2>2. job' = Running("parse", file, maps) => job'.status = "running" /\ job'.code = 0 /\ job'.open
    BY RunningDoes
  <2>. QED  BY <2>1, <2>2 DEF Blamed, Working, Collecting
<1>4. CASE LeaveContainer \/ Return
  BY <1>4 DEF LeaveContainer, Return, Blamed, Working, Collecting
<1>5. CASE ReadLine
  BY <1>0, <1>5, <1>b, ReadLineDoes DEF Blamed, Working, Collecting
<1>6. CASE EndOfStream
  <2>1. /\ pc = "collect" /\ pc' = "reap" /\ raised' = (half # << >>)
        /\ UNCHANGED <<source, job, faults>>
    BY <1>6 DEF EndOfStream
  <2>2. Working /\ Working'
    BY <2>1 DEF Working, Collecting
  <2>3. job.code = 0 => ~raised'
    BY <1>6, <2>1, EndReached
  <2>. QED  BY <1>0, <1>b, <2>1, <2>2, <2>3 DEF Blamed
<1>7. CASE ReadStderr \/ UNCHANGED vars
  <2>1. UNCHANGED <<source, pc, raised, job, faults>>
    BY <1>7 DEF ReadStderr, pipeline, vars, pipes
  <2>. QED  BY <1>0, <1>b, <2>1 DEF Blamed, Working, Collecting
<1>8. CASE ReapParse
  <2>1. /\ pc = "reap" /\ UNCHANGED <<source, faults>>
        /\ \/ (raised \/ job.code # 0) /\ pc' = "failed"
           \/ pc' = "choose"
    BY <1>0, <1>8, ReapParseDoes
  <2>. QED  BY <1>0, <1>b, <2>1 DEF Blamed, Working, Collecting
<1>9. CASE ReapSplit
  <2>1. /\ pc = "communicate" /\ UNCHANGED <<source, faults>>
        /\ \/ job.code # 0 /\ pc' = "failed"
           \/ pc' = "choose"
    BY <1>0, <1>9, ReapSplitDoes
  <2>. QED  BY <1>0, <1>b, <2>1 DEF Blamed, Working, Collecting
<1>10. CASE ParseLine
  <2>1. job.status = "running" /\ UNCHANGED <<source, pc, raised, faults>>
    BY <1>0, <1>10, ParseLineDoes DEF pipeline
  <2>2. CASE job' = Die
    BY <1>10, <1>b, <2>1, <2>2, ParserDies DEF Blamed
  <2>3. CASE job'.status = "running" /\ job'.code = job.code /\ job'.open = job.open
    BY <1>0, <1>b, <2>1, <2>3 DEF Blamed, Working, Collecting
  <2>. QED  BY <1>0, <1>10, <2>2, <2>3, ParseLineDoes
<1>11. CASE WriteOut
  <2>1. job.status = "running" /\ UNCHANGED <<source, pc, raised, faults>> /\ job'.open = job.open
    BY <1>0, <1>11, WriteOutDoes DEF pipeline
  <2>2. ~job.open \/ (job'.status = "running" /\ job'.code = job.code)
    BY <1>0, <1>11, WriteOutDoes
  <2>. QED  BY <1>0, <1>b, <2>1, <2>2 DEF Blamed, Working, Collecting
<1>12. CASE EndParse \/ EndSplit
  <2>1. /\ UNCHANGED <<source, pc, raised, faults>> /\ job' = [job EXCEPT !.status = "exited"]
    BY <1>12 DEF EndParse, EndSplit, pipeline
  <2>2. job'.status = "exited" /\ job'.code = job.code /\ job'.open = job.open
    BY <1>0, <2>1, StatusDoes
  <2>. QED  BY <1>0, <1>b, <2>1, <2>2 DEF Blamed, Working, Collecting
<1>13. CASE SplitLine
  <2>0. DOMAIN dir = {"exists", "files"}
    BY <1>0 DEF Places
  <2>1. job.status = "running" /\ UNCHANGED <<source, pc, raised, faults>>
    BY <1>0, <1>13, <2>0, SplitLineDoes DEF pipeline
  <2>2. CASE job' = Die
    BY <1>13, <1>b, <2>1, <2>2, SplitterDies DEF Blamed
  <2>3. CASE job'.status = "running" /\ job'.code = job.code /\ job'.open = job.open
    BY <1>0, <1>b, <2>1, <2>3 DEF Blamed, Working, Collecting
  <2>. QED  BY <1>0, <1>13, <2>0, <2>2, <2>3, SplitLineDoes
<1>14. CASE LastWords
  <2>1. job.status = "dying" /\ UNCHANGED <<source, pc, raised, faults>>
    BY <1>0, <1>14, LastWordsDoes DEF pipeline
  <2>. QED  BY <1>0, <1>b, <2>1 DEF Blamed, Working, Collecting
<1>15. CASE Interrupt \/ IoError \/ Killed
  <2>1. faults' = faults + 1
    BY <1>15 DEF Interrupt, IoError, Killed
  <2>2. Wrong'
    BY <1>0, <2>1 DEF Wrong
  <2>. QED  BY <2>2 DEF Blamed
<1>. QED
  BY <1>1, <1>2, <1>3, <1>4, <1>5, <1>6, <1>7, <1>8, <1>9, <1>10, <1>11, <1>12, <1>13, <1>14,
     <1>15 DEF Next, Pipeline, Engine, Fault

LEMMA IInvStep ==
  ASSUME IInv, [Next]_vars
  PROVE  IInv'
  BY PlacesStep, OrderStep, BlamedStep, StreamStep, SplittingStep DEF IInv

LEMMA IInvHolds == Spec => []IInv
<1>1. Init => IInv
  BY InitHolds
<1>2. IInv /\ [Next]_vars => IInv'
  BY IInvStep
<1>. QED  BY <1>1, <1>2, PTL DEF Spec

-----------------------------------------------------------------------------
(* The theorems.                                                           *)

\* However a source ends, whatever was killed or interrupted on the way, its
\* temporary directory is gone and its engine has been waited for
\* (pipeline.py:205-209, 294-300).
THEOREM LeavesNothing == Spec => []NothingLeftBehind
<1>1. IInv => NothingLeftBehind
  BY DEF IInv, Places, NothingLeftBehind, Working, Collecting
<1>. QED  BY <1>1, IInvHolds, PTL

\* A step that neither ends the source nor is a fault is none of the promise's.
Silent ==
  /\ pc \notin {"done", "failed"} /\ pc' \notin {"done", "failed"}
  /\ UNCHANGED <<source, faults>>

LEMMA SilentStutters ==
  ASSUME Silent \/ UNCHANGED vars
  PROVE  UNCHANGED Promise!vars
<1>1. CASE Silent
  <2>1. /\ pc # "done" /\ pc # "failed" /\ pc' # "done" /\ pc' # "failed"
        /\ source' = source /\ faults' = faults
    BY <1>1 DEF Silent
  <2>. QED  BY <2>1 DEF Promise!vars
<1>2. CASE UNCHANGED vars
  BY <1>2 DEF vars, pipeline, Promise!vars
<1>. QED  BY <1>1, <1>2

\* A fault is one the promise allows for.
LEMMA FaultDisturbs ==
  ASSUME IInv, Fault
  PROVE  Promise!Disturb
<1>1. Places /\ JobFields /\ faults \in Nat
  BY DEF IInv, Places
<1>2. /\ Working /\ faults' = faults + 1 /\ source' = source
      /\ pc' = pc \/ pc' = "reap"
  BY <1>1 DEF Fault, Interrupt, IoError, Killed, pipeline, Places, Working, Collecting
<1>3. pc # "done" /\ pc # "failed" /\ pc' # "done" /\ pc' # "failed"
  BY <1>2 DEF Working, Collecting
<1>4. faults' > 0
  BY <1>1, <1>2
<1>. QED  BY <1>2, <1>3, <1>4 DEF Promise!Disturb

\* What is returned is the meaning of a source nothing is wrong with.
LEMMA ReturnDelivers ==
  ASSUME IInv, Return
  PROVE  Promise!Deliver
<1>0. Places /\ Parts /\ Conserved /\ NoneSkipped
  BY DEF IInv
<1>1. /\ pc = "choose" /\ pc' = "done" /\ ~dir.exists /\ cursor > Len(source)
      /\ UNCHANGED <<source, events, faults>>
  BY DEF Return
<1>2. /\ tables = << >> /\ IsList(events) /\ Len(source) \in Nat /\ cursor \in Nat
      /\ DOMAIN source = 1 .. Len(source)
  BY <1>0, <1>1, Readables DEF Places
<1>3. Taken = Len(source)
  <2>1. Taken = cursor - 1 /\ Taken <= Len(source)
    BY <1>0, <1>1 DEF Taken, Parts
  <2>. QED  BY <1>1, <1>2, <2>1
<1>4. ~Collecting /\ Pending = {} /\ UnderWay = << >> /\ AllEvents(tables) = << >>
  BY <1>1, <1>2, AllEventsFew DEF Collecting, Pending, ToSet, UnderWay
<1>5. Sound(source)
  BY <1>0, <1>1, <1>2, <1>3, <1>4 DEF NoneSkipped, Sound
<1>6. events = Meaning(source)
  <2>1. Prefix(Meanings, Taken) = Meanings
    BY <1>0, <1>3, MeaningsList, PrefixNext
  <2>2. events \o << >> = events
    BY <1>2, ListConcat, Zenon
  <2>3. events = FlattenSeq(Meanings)
    BY <1>0, <1>1, <1>4, <2>1, <2>2 DEF Conserved
  <2>. QED  BY <2>3 DEF Meaning, Meanings
<1>. QED  BY <1>1, <1>5, <1>6 DEF Promise!Deliver

\* An error is the files' fault or somebody's who was in the way.
LEMMA FailureFails ==
  ASSUME IInv, ReapParse \/ ReapSplit, pc' = "failed"
  PROVE  Promise!Fail
<1>0. Places /\ Blamed /\ JobFields
  BY DEF IInv, Places
<1>1. /\ pc \in {"reap", "communicate"} /\ UNCHANGED <<source, faults>>
      /\ raised \/ job.code # 0
      /\ pc = "communicate" => job.code # 0
  BY <1>0, ReapParseDoes, ReapSplitDoes
<1>2. Wrong
  BY <1>0, <1>1 DEF Blamed, Working, Collecting
<1>3. pc # "done" /\ pc # "failed" /\ pc' # "done"
  BY <1>1
<1>. QED  BY <1>1, <1>2, <1>3 DEF Promise!Fail, Wrong

LEMMA StepRefines ==
  ASSUME IInv, [Next]_vars
  PROVE  [Promise!Next]_(Promise!vars)
<1>0. Places /\ JobFields
  BY DEF IInv, Places
<1>1. CASE Fault
  BY <1>1, FaultDisturbs DEF Promise!Next
<1>2. CASE Return
  BY <1>2, ReturnDelivers DEF Promise!Next
<1>3. CASE ReapParse \/ ReapSplit
  <2>1. CASE pc' = "failed"
    BY <1>3, <2>1, FailureFails DEF Promise!Next
  <2>2. CASE pc' # "failed"
    <3>1. Silent
      BY <1>0, <1>3, <2>2, ReapParseDoes, ReapSplitDoes DEF Silent
    <3>. QED  BY <3>1, SilentStutters
  <2>. QED  BY <2>1, <2>2
<1>4. CASE OpenFile \/ NextTable
  <2>1. Silent
    BY <1>4, ConsumeDoes DEF OpenFile, NextTable, Silent
  <2>. QED  BY <2>1, SilentStutters
<1>5. CASE OpenContainer \/ LeaveContainer \/ EndOfStream
  <2>1. Silent
    BY <1>5 DEF OpenContainer, LeaveContainer, EndOfStream, Silent
  <2>. QED  BY <2>1, SilentStutters
<1>6. CASE ReadLine \/ ReadStderr
  <2>1. Silent
    BY <1>6, ReadLineDoes DEF ReadStderr, pipeline, Silent
  <2>. QED  BY <2>1, SilentStutters
<1>7. CASE Engine
  <2>1. UNCHANGED <<pipeline, faults>> /\ job.status \in {"running", "dying"}
    <3>0. DOMAIN dir = {"exists", "files"}
      BY <1>0 DEF Places
    <3>. QED  BY <1>0, <1>7, <3>0, ParseLineDoes, WriteOutDoes, SplitLineDoes, LastWordsDoes
              DEF Engine, EndParse, EndSplit
  <2>2. Silent
    BY <1>0, <2>1 DEF Places, pipeline, Silent, Working, Collecting
  <2>. QED  BY <2>2, SilentStutters
<1>8. CASE UNCHANGED vars
  BY <1>8, SilentStutters
<1>. QED
  BY <1>1, <1>2, <1>3, <1>4, <1>5, <1>6, <1>7, <1>8 DEF Next, Pipeline

\* The pipeline and its engines implement the promise of IngestSpec: a source
\* is delivered whole and in order, or fails for a reason, whatever was
\* buffered, half read or still in a pipe (pipeline.py:183-224,
\* main.go:104-175).
THEOREM KeepsThePromise == Spec => Implements
<1>1. Init => Promise!Init
  <2>. SUFFICES ASSUME Init PROVE Promise!Init
    OBVIOUS
  <2>1. pc = "choose" /\ faults = 0
    BY DEF Init
  <2>2. pc # "done" /\ pc # "failed" /\ ~(faults > 0)
    BY <2>1
  <2>. QED  BY <2>2 DEF Promise!Init
<1>2. IInv /\ [Next]_vars => [Promise!Next]_(Promise!vars)
  BY StepRefines
<1>. QED  BY <1>1, <1>2, IInvHolds, PTL DEF Spec, Implements, Promise!Spec

=============================================================================
