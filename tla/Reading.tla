------------------------------ MODULE Reading ------------------------------
(***************************************************************************)
(* What a source file says: the two line readers of the parse engine, the  *)
(* adapters that reshape a record, the wrapping of a container's records   *)
(* and the routing of a file to its maps; and, of those, what a whole      *)
(* source means and which sources are refused.  Pure operators, shared by  *)
(* the two processes that read a source and the promise they keep.         *)
(*                                                                         *)
(* A line is [form, rec]; its form is                                      *)
(*   "plain"    one JSON object                                            *)
(*   "comma"    an object and trailing commas, as in a JSON array          *)
(*   "bom"      an object behind a UTF-8 byte-order mark                   *)
(*   "blank", "bracket"   nothing, or a lone "[" or "]"                    *)
(*   "bad"      text that is not JSON                                      *)
(*   "scalar"   JSON that is not an object                                 *)
(* A file is [name, jsonl, lines]: of its name only the set of the route   *)
(* patterns that occur in it is kept.                                      *)
(***************************************************************************)
EXTENDS Integers, Sequences, SequencesExt

CONSTANTS
  Routes,       \* the routing table: <<pattern, maps>> pairs, in order
  EvtxMaps,     \* the maps an event-log record is shown to
  WinevtRules,  \* <<channel keyword, event id>> pairs, in order
  FdLimit,      \* how many files the engine may hold open
  DefaultHost,  \* the --host of the run, or NoHost
  NoHost

Jumplist == <<"jlecmd_dest">>
Winevt == <<"l2t_winevt">>

(***************************************************************************)
(* Lines.                                                                  *)
(***************************************************************************)
Skipped == {"blank", "bracket"}
Raises(line) == line.form = "scalar"

\* the artefact reader: utf-8-sig, trailing commas and array brackets allowed
IsRecord(line, n) ==
  line.form \in {"plain", "comma"} \/ (line.form = "bom" /\ n = 1)

\* the container reader: nothing but the object on its line
IsRow(line) == line.form = "plain"

\* the first line that says anything, after the sniffer's own stripping
IsRawL2t(file) ==
  LET telling == SelectSeq(file.lines, LAMBDA line: line.form \notin Skipped)
  IN /\ file.jsonl
     /\ telling # <<>>
     /\ Head(telling).form \in {"plain", "comma"}
     /\ Head(telling).rec.plaso

(***************************************************************************)
(* Routing: the first pattern that occurs in the name.                     *)
(***************************************************************************)
Route(name) ==
  LET hits == {i \in DOMAIN Routes : Routes[i][1] \in name}
  IN IF hits = {} THEN <<>> ELSE Routes[Min(hits)][2]

Adapter(maps) ==
  CASE maps = Jumplist -> "jlecmd"
    [] maps = Winevt -> "winevt"
    [] OTHER -> "none"

\* an adapter's route key stands for the maps it feeds
FanOut(maps) == IF maps = Winevt THEN EvtxMaps ELSE maps

(***************************************************************************)
(* Records to events.  A record is [id, line, host, claims, plaso, parser, *)
(* eid, channel, entries, broken]: the maps that claim it stand for all    *)
(* their predicates read in it, and an event for the fields they fill.     *)
(***************************************************************************)
\* a rule with the record's event id whose keyword its channel has
HasWinevtRule(rec) ==
  \E i \in DOMAIN WinevtRules :
    WinevtRules[i][2] = rec.eid /\ WinevtRules[i][1] \in rec.channel

\* a record whose shape the adapter cannot take apart
Unusable(maps, rec) == Adapter(maps) = "jlecmd" /\ rec.broken

\* one record for each entry of a jump list that is an object
Entries(rec) ==
  FlattenSeq([i \in DOMAIN rec.entries |->
    IF rec.entries[i] = "scalar" THEN <<>>
                                 ELSE <<[rec EXCEPT !.id = <<@, rec.entries[i]>>]>>])

Reshaped(maps, rec) ==
  CASE Adapter(maps) = "winevt" -> IF HasWinevtRule(rec) THEN <<rec>> ELSE <<>>
    [] Adapter(maps) = "jlecmd" -> Entries(rec)
    [] OTHER -> <<rec>>

Event(rec, map) ==
  [rec |-> rec.id, line |-> rec.line, map |-> map,
   host |-> IF rec.host = NoHost THEN DefaultHost ELSE rec.host]

\* every map is shown the record; one that claims it makes one event
Claimed(fed, rec) ==
  FlattenSeq([i \in DOMAIN fed |->
    IF fed[i] \in rec.claims THEN <<Event(rec, fed[i])>> ELSE <<>>])

EventsOf(maps, rec) ==
  LET shapes == Reshaped(maps, rec)
  IN FlattenSeq([i \in DOMAIN shapes |-> Claimed(FanOut(maps), shapes[i])])

(***************************************************************************)
(* Containers: a record is wrapped with the number of its physical line    *)
(* and written to the table of its parser.                                 *)
(***************************************************************************)
\* the top segment of "winreg/appcompatcache"; the CamelCase is left out
TableName(rec) == IF rec.parser = <<>> THEN "Unknown" ELSE Head(rec.parser)

Wrapped(rec, n) ==
  [form |-> "plain", rec |-> [rec EXCEPT !.line = n, !.plaso = FALSE]]

\* a table's file is named after the container and the table
TableFile(file, table, rows) ==
  [name |-> file.name \union {table}, jsonl |-> FALSE, lines |-> rows]

(***************************************************************************)
(* The meaning of a file, a table and a source, and what is wrong with it. *)
(***************************************************************************)
FileEvents(maps, file) ==
  FlattenSeq([n \in DOMAIN file.lines |->
    IF IsRecord(file.lines[n], n) THEN EventsOf(maps, file.lines[n].rec)
                                  ELSE <<>>])

\* the rows a table is made of: the container's, under their physical lines
TableAt(file, n) == TableName(file.lines[n].rec)
RowsOf(file, table) ==
  FlattenSeq([n \in DOMAIN file.lines |->
    IF IsRow(file.lines[n]) /\ TableAt(file, n) = table
    THEN <<Wrapped(file.lines[n].rec, n)>> ELSE <<>>])
TableOf(file, table) == TableFile(file, table, RowsOf(file, table))

\* the tables of a container, by the line that names each first
NamesFirst(file, n) ==
  /\ IsRow(file.lines[n])
  /\ \A k \in 1 .. n - 1 :
       IsRow(file.lines[k]) => TableAt(file, k) # TableAt(file, n)
Tables(file) ==
  FlattenSeq([n \in DOMAIN file.lines |->
    IF NamesFirst(file, n) THEN <<TableOf(file, TableAt(file, n))>> ELSE <<>>])

\* what is parsed for a file: itself, or the tables it is split into
Units(file) == IF IsRawL2t(file) THEN Tables(file) ELSE <<file>>
UnitEvents(unit) == FileEvents(Route(unit.name), unit)
AllEvents(units) == FlattenSeq([i \in DOMAIN units |-> UnitEvents(units[i])])

Meaning(files) ==
  FlattenSeq([i \in DOMAIN files |-> AllEvents(Units(files[i]))])

\* what the engine refuses: a line that is no object, a record its adapter
\* cannot take apart, more tables than files it may hold open
BadLine(maps, line, n) ==
  Raises(line) \/ (IsRecord(line, n) /\ Unusable(maps, line.rec))
UnitRefused(unit) ==
  LET maps == Route(unit.name)
  IN maps # <<>> /\ \E n \in DOMAIN unit.lines : BadLine(maps, unit.lines[n], n)
SplitRefused(file) ==
  (\E n \in DOMAIN file.lines : Raises(file.lines[n])) \/ Len(Tables(file)) > FdLimit
Refused(file) ==
  \/ IsRawL2t(file) /\ SplitRefused(file)
  \/ \E i \in DOMAIN Units(file) : UnitRefused(Units(file)[i])

Sound(files) == \A i \in DOMAIN files : ~Refused(files[i])
=============================================================================
