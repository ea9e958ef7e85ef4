------------------------ MODULE SpindleRegistryProofs ------------------------
(***************************************************************************)
(* The identity registry, for any maps, records, edits and vectors.        *)
(*                                                                         *)
(* VerifiedMints is a fact of one state: a leaf of a verified registry     *)
(* names exactly one entry (LeafNamesItsEntry), the key the engine mints   *)
(* has that entry's fields or the positional ones and no others            *)
(* (MintedKey), and so it finds its entry again (SpindleIsValid).          *)
(*                                                                         *)
(* GoldenMoves needs the history.  The snapshots that ever lay on disk are *)
(* the rows of `past`, the last one is what lies there now (OnDisk); what  *)
(* any of them pins was rendered whole, a guid beside the version and the  *)
(* fields it was made of (PinsVouched), also when the write was cut short; *)
(* each followed its predecessor through the gate (GateHeld); and a        *)
(* registry that was merged was pinned (MergedIsPinned).                   *)
(***************************************************************************)
EXTENDS SpindleRegistry, ListLemmas, TLAPS

-----------------------------------------------------------------------------
(* A verified registry mints valid spindles.                                 *)

LEMMA MintedKey ==
  ASSUME NEW obj, NEW values, NEW version, NEW modes
  PROVE  LET id == Mint(obj, values, version, modes) IN
         /\ id[1] = GuidOf(id[2]) /\ id[2] # << >>
         /\ DOMAIN id[2] = Reserved \cup DOMAIN values
         /\ id[2]["_obj"] = obj /\ id[2]["_v"] = version
<1> DEFINE id == Mint(obj, values, version, modes)
<1>1. /\ id[1] = GuidOf(id[2])
      /\ DOMAIN id[2] = Reserved \cup DOMAIN values
      /\ id[2]["_obj"] = obj /\ id[2]["_v"] = version
  BY DEF Mint, Reserved
<1>. HIDE DEF id
<1>2. "_obj" \in DOMAIN id[2]
  BY <1>1 DEF Reserved
<1>3. DOMAIN << >> = {}
  OBVIOUS
<1>4. id[2] # << >>
  BY <1>2, <1>3
<1>. QED  BY <1>1, <1>4 DEF id

\* What verify_registry says of a leaf that mints, and of the entry it names.
LEMMA LeafNamesItsEntry ==
  ASSUME RegistryHolds, NEW leaf \in DOMAIN maps, maps[leaf].guid[1] = "spindle"
  PROVE  LET name == maps[leaf].guid[2]  e == reg.entries[maps[leaf].guid[2]] IN
         /\ name \in Entries /\ MapOf[leaf] \in MapNames[name]
         /\ e.object = maps[leaf].object /\ e.kind \in Kinds
         /\ NamesOf(e) \cap Reserved = {}
<1>1. SpindleLeafHolds(leaf)
  BY DEF RegistryHolds, LeafHolds
<1>2. EntryHolds(maps[leaf].guid[2])
  BY <1>1 DEF RegistryHolds, SpindleLeafHolds
<1>. QED  BY <1>1, <1>2 DEF SpindleLeafHolds, EntryHolds

LEMMA RowIs ==
  ASSUME NEW leaf, NEW rec, NEW id, NEW scope
  PROVE  LET row == Row(leaf, rec, id, scope) IN
         /\ row.object = maps[leaf].object /\ row.artefact = MapOf[leaf]
         /\ row.guid = id[1] /\ row.key = id[2] /\ row.scope = scope
         /\ DOMAIN row.ref = PositionalFields
BY DEF Row

LEMMA SpindleIsValid ==
  ASSUME RegistryHolds, NEW leaf \in DOMAIN maps, maps[leaf].guid[1] = "spindle",
         NEW rec, Spindle(leaf, rec).guid # Blank
  PROVE  LET row == Spindle(leaf, rec) IN
         Valid(row) /\ (Equatable(row) <=> row.scope = "intrinsic")
<1> DEFINE row == Spindle(leaf, rec)
           name == maps[leaf].guid[2]
           e == reg.entries[name]
           values == [ n \in NamesOf(e) |-> rec.event[e.identity[n].source] ]
           index  == [ f \in PositionalFields |-> rec.raw[f] ]
           own == Mint(maps[leaf].object, values, e.version, Modes(e))
           place == Mint(maps[leaf].object, index, reg.positional.version, AsText(PositionalFields))
<1>1. /\ name \in Entries /\ MapOf[leaf] \in MapNames[name]
      /\ e.object = maps[leaf].object /\ e.kind \in Kinds
      /\ NamesOf(e) \cap Reserved = {}
  BY LeafNamesItsEntry
<1>2. \/ row = Row(leaf, rec, own, "intrinsic")
      \/ row = Row(leaf, rec, NoId, Blank)
      \/ row = Row(leaf, rec, place, "positional")
  BY DEF Spindle
<1>3. DOMAIN values = NamesOf(e) /\ DOMAIN index = PositionalFields
  OBVIOUS
<1>4. /\ own[1] = GuidOf(own[2]) /\ own[2] # << >>
      /\ DOMAIN own[2] = Reserved \cup NamesOf(e)
      /\ own[2]["_obj"] = maps[leaf].object /\ own[2]["_v"] = e.version
  <2>. HIDE DEF values, e
  <2>1. /\ own[1] = GuidOf(own[2]) /\ own[2] # << >>
        /\ DOMAIN own[2] = Reserved \cup DOMAIN values
        /\ own[2]["_obj"] = maps[leaf].object /\ own[2]["_v"] = e.version
    BY MintedKey
  <2>. QED  BY <1>3, <2>1
<1>5. /\ place[1] = GuidOf(place[2]) /\ place[2] # << >>
      /\ DOMAIN place[2] = Reserved \cup PositionalFields
      /\ place[2]["_obj"] = maps[leaf].object /\ place[2]["_v"] = reg.positional.version
  BY <1>3, MintedKey
<1>. HIDE DEF own, place, values, index, row
<1>6. CASE row = Row(leaf, rec, own, "intrinsic")
  <2>1. /\ row.object = maps[leaf].object /\ row.artefact = MapOf[leaf]
        /\ row.guid = own[1] /\ row.key = own[2] /\ row.scope = "intrinsic"
        /\ DOMAIN row.ref = PositionalFields
    BY <1>6, RowIs
  <2>2. DOMAIN row.key \ Reserved = NamesOf(e)
    BY <1>1, <1>4, <2>1
  <2>3. name \in EntriesOf(row)
    BY <1>1, <1>4, <2>1, <2>2 DEF EntriesOf
  <2>4. Valid(row)
    BY <1>4, <2>1, <2>3 DEF Valid
  <2>5. row.guid # Blank
    BY DEF row
  <2>6. Equatable(row)
    BY <1>1, <2>1, <2>3, <2>5 DEF Equatable
  <2>. QED  BY <2>1, <2>4, <2>6 DEF row
<1>7. CASE row = Row(leaf, rec, NoId, Blank)
  <2>1. row.guid = Blank
    BY <1>7, RowIs DEF NoId
  <2>. QED  BY <2>1 DEF row
<1>8. CASE row = Row(leaf, rec, place, "positional")
  <2>1. /\ row.object = maps[leaf].object /\ row.artefact = MapOf[leaf]
        /\ row.guid = place[1] /\ row.key = place[2] /\ row.scope = "positional"
        /\ DOMAIN row.ref = PositionalFields
    BY <1>8, RowIs
  <2>2. DOMAIN row.key \ Reserved = PositionalFields
    BY <1>5, <2>1, SpindleAssumption
  <2>3. Valid(row)
    BY <1>5, <2>1, <2>2 DEF Valid
  <2>4. ~Equatable(row)
    BY <1>5, <2>1 DEF Equatable
  <2>. QED  BY <2>1, <2>3, <2>4 DEF row
<1>. QED  BY <1>2, <1>6, <1>7, <1>8

\* Whatever registry and maps stand, if they pass their verification then every
\* row the engine mints from them is a valid spindle by them, and may be equated
\* across sources exactly when its identity is its own.
THEOREM VerifiedMints == Spec => []VerifiedMeansMintable
<1>1. VerifiedMeansMintable
  <2>. SUFFICES ASSUME RegistryHolds
                PROVE  /\ \A leaf \in DOMAIN maps : Mintable(leaf)
                       /\ \A p \in Minted :
                            RowOf(p[1], p[2]).guid # Blank =>
                              /\ Valid(RowOf(p[1], p[2]))
                              /\ Equatable(RowOf(p[1], p[2])) <=> RowOf(p[1], p[2]).scope = "intrinsic"
    BY DEF VerifiedMeansMintable
  <2>1. \A leaf \in DOMAIN maps : Mintable(leaf)
    BY LeafNamesItsEntry DEF Mintable
  <2>2. ASSUME NEW p \in Minted, RowOf(p[1], p[2]).guid # Blank
        PROVE  /\ Valid(RowOf(p[1], p[2]))
               /\ Equatable(RowOf(p[1], p[2])) <=> RowOf(p[1], p[2]).scope = "intrinsic"
    <3>1. p[1] \in DOMAIN maps /\ maps[p[1]].guid[1] = "spindle"
      BY DEF Minted
    <3>2. RowOf(p[1], p[2]) = Spindle(p[1], p[2])
      BY <3>1 DEF RowOf
    <3>. QED  BY <2>2, <3>1, <3>2, SpindleIsValid
  <2>. QED  BY <2>1, <2>2
<1>. QED  BY <1>1, PTL

-----------------------------------------------------------------------------
(* Golden guids move with their versions.                                    *)

\* A pinned vector is one that mint made: its guid hashes its version.
Vouched(v) == v.version \in Nat /\ v.guid[3]["_v"] = v.version

OnDisk ==
  /\ DOMAIN disk = ToSet(Files) /\ IsList(past) /\ IsList(merged)
  /\ disk["golden"] = IF past = << >> THEN Blank ELSE past[Len(past)]

PinsVouched == \A i \in DOMAIN past : \A n : Pinned(i, n) => Vouched(At(i, n))

\* What the gate compares is one write and the next.
GateHeld ==
  \A i \in DOMAIN past : \A n :
    i + 1 \in DOMAIN past /\ Pinned(i, n) /\ Pinned(i + 1, n)
      => MovesTogether(At(i, n), At(i + 1, n))

GInv == OnDisk /\ PinsVouched /\ GateHeld /\ MergedIsPinned

\* The vectors of g are those of a fresh rendering, as far as they are there.
Rendered(g) ==
  \A n \in DOMAIN g.entries :
    n \in Entries /\ (g.entries[n].guid = Blank \/ g.entries[n] = GoldenDoc.entries[n])

LEMMA FreshVouched ==
  ASSUME RegistryHolds, NEW n \in Entries
  PROVE  Vouched(GoldenDoc.entries[n])
<1> DEFINE e == reg.entries[n]
           id == Mint(e.object, e.sample, e.version, Modes(e))
<1>1. e.version \in Nat
  BY DEF RegistryHolds, EntryHolds
<1>2. GoldenDoc.entries[n] = [ version |-> e.version, guid |-> id[1] ]
  BY DEF GoldenDoc, Vector
<1>3. id[1] = GuidOf(id[2]) /\ id[2]["_v"] = e.version
  BY MintedKey
<1>. HIDE DEF id, e
<1>4. id[1][3] = id[2]
  BY <1>3 DEF GuidOf
<1>. QED  BY <1>1, <1>2, <1>3, <1>4 DEF Vouched

LEMMA TornRendered ==
  ASSUME NEW g \in TornGolden \cup {GoldenDoc}
  PROVE  Rendered(g)
<1> DEFINE whole == GoldenDoc
           kept(k) == Entries \cap { EntryNames[i] : i \in 1..k }
<1>0. DOMAIN whole.entries = Entries /\ DOMAIN << >> = {}
  BY DEF GoldenDoc
<1>1. CASE g = whole
  BY <1>0, <1>1 DEF Rendered
<1>2. CASE g = [ recipe |-> Blank, positional |-> Blank, entries |-> << >> ]
  BY <1>0, <1>2 DEF Rendered
<1>3. ASSUME NEW k, g = [ whole EXCEPT !.entries = [ n \in kept(k) |-> whole.entries[n] ] ]
      PROVE  Rendered(g)
  <2>1. g.entries = [ n \in kept(k) |-> whole.entries[n] ]
    BY <1>3 DEF GoldenDoc
  <2>. QED  BY <2>1 DEF Rendered
<1>4. ASSUME NEW k, g = [ whole EXCEPT !.entries = [ n \in kept(k) |->
                IF n = EntryNames[k] THEN [ whole.entries[n] EXCEPT !.guid = Blank ] ELSE whole.entries[n] ] ]
      PROVE  Rendered(g)
  <2>1. g.entries = [ n \in kept(k) |->
                IF n = EntryNames[k] THEN [ whole.entries[n] EXCEPT !.guid = Blank ] ELSE whole.entries[n] ]
    BY <1>4 DEF GoldenDoc
  <2>2. \A n \in Entries : [ whole.entries[n] EXCEPT !.guid = Blank ].guid = Blank
    BY DEF GoldenDoc, Vector
  <2>. QED  BY <2>1, <2>2 DEF Rendered
<1>. QED  BY <1>1, <1>2, <1>3, <1>4 DEF TornGolden

\* Whatever a command leaves, the next golden.yml follows the last one.
LEMMA LeaveKeeps ==
  ASSUME GInv, RegistryHolds, GoldenAllows, NEW files, Leave(files),
         DOMAIN files = ToSet(Files),
         files["golden"] = disk["golden"] \/ Rendered(files["golden"])
  PROVE  GInv'
<1> DEFINE g == files["golden"]
<1>0. PICK m : m = Len(past)
  OBVIOUS
<1>1. /\ past' = Append(past, g) /\ disk' = files
      /\ UNCHANGED << reg, maps, engine, merged >>
  BY DEF Leave
<1>2. /\ IsList(past') /\ Len(past') = m + 1 /\ m \in Nat
      /\ DOMAIN past = 1 .. m /\ DOMAIN past' = 1 .. m + 1
      /\ \A i \in 1 .. m : past'[i] = past[i]
      /\ past'[m + 1] = g
      /\ m = 0 <=> past = << >>
  <2>1. IsList(past)
    BY DEF GInv, OnDisk
  <2>2. m \in Nat /\ DOMAIN past = 1 .. m /\ (m = 0 <=> past = << >>)
    BY <1>0, <2>1, ListLen
  <2>3. /\ IsList(past') /\ Len(past') = m + 1
        /\ \A i \in 1 .. m : past'[i] = past[i]
        /\ past'[m + 1] = g
    BY <1>0, <1>1, <2>1, ListAppend
  <2>4. DOMAIN past' = 1 .. m + 1
    BY <2>3, ListLen
  <2>. QED  BY <2>1, <2>2, <2>3, <2>4
<1>. HIDE DEF g
<1>3. OnDisk'
  <2>1. past' # << >>
    BY <1>2, ListEmpty
  <2>. QED  BY <1>1, <1>2, <2>1 DEF GInv, OnDisk, g
<1>4. \A i \in 1 .. m : \A n : (Pinned(i, n)' <=> Pinned(i, n)) /\ At(i, n)' = At(i, n)
  BY <1>2 DEF Pinned, At
<1>5. \A n : /\ At(m + 1, n)' = g.entries[n]
             /\ Pinned(m + 1, n)' => g # Blank /\ n \in DOMAIN g.entries /\ g.entries[n].guid # Blank
  BY <1>2 DEF Pinned, At
<1>6. ASSUME NEW n, Pinned(m + 1, n)'
      PROVE  \/ Rendered(g) /\ n \in Entries /\ g.entries[n] = GoldenDoc.entries[n]
             \/ m # 0 /\ Pinned(m, n) /\ At(m, n) = g.entries[n]
  <2>1. CASE Rendered(g)
    BY <1>5, <1>6, <2>1 DEF Rendered
  <2>2. CASE g = disk["golden"]
    <3>1. past # << >> /\ g = past[m]
      BY <1>0, <1>5, <1>6, <2>2 DEF GInv, OnDisk
    <3>. QED  BY <1>2, <1>5, <1>6, <3>1 DEF Pinned, At
  <2>. QED  BY <2>1, <2>2 DEF g
<1>7. PinsVouched'
  <2>. SUFFICES ASSUME NEW i \in 1 .. m + 1, NEW n, Pinned(i, n)' PROVE Vouched(At(i, n)')
    BY <1>2 DEF PinsVouched, Vouched
  <2>1. CASE i # m + 1
    <3>1. i \in 1 .. m
      BY <1>2, <2>1
    <3>. QED  BY <1>2, <1>4, <3>1 DEF GInv, PinsVouched
  <2>2. CASE i = m + 1
    <3>1. CASE n \in Entries /\ g.entries[n] = GoldenDoc.entries[n]
      BY <1>5, <2>2, <3>1, FreshVouched
    <3>2. CASE m # 0 /\ Pinned(m, n) /\ At(m, n) = g.entries[n]
      <4>1. m \in DOMAIN past
        BY <1>2, <3>2
      <4>. QED  BY <1>5, <2>2, <3>2, <4>1 DEF GInv, PinsVouched
    <3>. QED  BY <1>6, <2>2, <3>1, <3>2
  <2>. QED  BY <2>1, <2>2
<1>8. GateHeld'
  <2>. SUFFICES ASSUME NEW i \in 1 .. m, NEW n, Pinned(i, n)', Pinned(i + 1, n)'
                PROVE  MovesTogether(At(i, n)', At(i + 1, n)')
    <3>1. \A i : i \in 1 .. m + 1 /\ i + 1 \in 1 .. m + 1 => i \in 1 .. m
      BY <1>2
    <3>. QED  BY <1>2, <3>1 DEF GateHeld, MovesTogether
  <2>1. CASE i # m
    <3>1. i + 1 \in 1 .. m
      BY <1>2, <2>1
    <3>. QED  BY <1>2, <1>4, <3>1 DEF GInv, GateHeld
  <2>2. CASE i = m
    <3>1. Pinned(m, n) /\ m # 0
      BY <1>2, <1>4, <2>2
    <3>2. At(i, n)' = At(m, n) /\ At(i + 1, n)' = g.entries[n]
      BY <1>4, <1>5, <2>2
    <3>3. CASE n \in Entries /\ g.entries[n] = GoldenDoc.entries[n]
      <4>1. disk["golden"] = past[m] /\ past[m] # Blank /\ n \in DOMAIN past[m].entries
        BY <1>0, <1>2, <3>1 DEF GInv, OnDisk, Pinned
      <4>2. n \in DOMAIN GoldenDoc.entries
        BY <3>3 DEF GoldenDoc
      <4>3. MovesTogether(past[m].entries[n], GoldenDoc.entries[n])
        BY <4>1, <4>2 DEF GoldenAllows
      <4>. QED  BY <3>2, <3>3, <4>3 DEF At
    <3>4. CASE At(m, n) = g.entries[n]
      BY <3>2, <3>4 DEF MovesTogether
    <3>. QED  BY <1>6, <2>2, <3>3, <3>4
  <2>. QED  BY <2>1, <2>2
<1>9. MergedIsPinned'
  BY <1>1 DEF GInv, MergedIsPinned
<1>. QED  BY <1>3, <1>7, <1>8, <1>9 DEF GInv

\* Only a command that writes moves what the invariant is about.
LEMMA EditKeeps ==
  ASSUME GInv, UNCHANGED << disk, past, merged >>
  PROVE  GInv'
<1>1. OnDisk' /\ MergedIsPinned'
  BY DEF GInv, OnDisk, MergedIsPinned
<1>2. PinsVouched' /\ GateHeld'
  BY DEF GInv, PinsVouched, GateHeld, Pinned, At, Vouched, MovesTogether
<1>. QED  BY <1>1, <1>2 DEF GInv

LEMMA RegenerateKeeps ==
  ASSUME GInv, Regenerate
  PROVE  GInv'
<1>1. DOMAIN Rendering = ToSet(Files) /\ Rendering["golden"] = GoldenDoc
  BY DEF Rendering, ToSet, Files
<1>2. Rendered(Rendering["golden"])
  BY <1>1, TornRendered
<1>. QED  BY <1>1, <1>2, LeaveKeeps DEF Regenerate

LEMMA KilledKeeps ==
  ASSUME GInv, KilledRegenerate
  PROVE  GInv'
<1>1. PICK i \in DOMAIN Files : \E torn \in {disk[Files[i]]} \cup (IF Files[i] = "golden" THEN TornGolden ELSE {Blank}) :
        Leave([ f \in DOMAIN disk |->
                  IF \E j \in 1..i - 1 : Files[j] = f THEN Rendering[f]
                  ELSE IF f = Files[i] THEN torn ELSE disk[f] ])
  BY DEF KilledRegenerate
<1>2. PICK torn \in {disk[Files[i]]} \cup (IF Files[i] = "golden" THEN TornGolden ELSE {Blank}) :
        Leave([ f \in DOMAIN disk |->
                  IF \E j \in 1..i - 1 : Files[j] = f THEN Rendering[f]
                  ELSE IF f = Files[i] THEN torn ELSE disk[f] ])
  BY <1>1
<1> DEFINE files == [ f \in DOMAIN disk |->
                       IF \E j \in 1..i - 1 : Files[j] = f THEN Rendering[f]
                       ELSE IF f = Files[i] THEN torn ELSE disk[f] ]
<1>3. DOMAIN files = ToSet(Files) /\ "golden" \in ToSet(Files)
  BY DEF GInv, OnDisk, ToSet, Files
<1>4. \A j \in DOMAIN Files : Files[j] = "golden" => j = 3
  BY DEF Files
<1>5. files["golden"] = disk["golden"] \/ Rendered(files["golden"])
  <2>1. ~ \E j \in 1..i - 1 : Files[j] = "golden"
    <3>1. i \in 1 .. 3 /\ DOMAIN Files = 1 .. 3
      BY DEF Files
    <3>2. \A j \in 1..i - 1 : j \in DOMAIN Files /\ j # 3
      BY <3>1
    <3>. QED  BY <1>4, <3>2
  <2>2. files["golden"] = IF "golden" = Files[i] THEN torn ELSE disk["golden"]
    BY <1>3, <2>1
  <2>3. Files[i] = "golden" => torn = disk["golden"] \/ Rendered(torn)
    BY <1>2, TornRendered
  <2>. QED  BY <2>2, <2>3
<1>. HIDE DEF files
<1>6. Leave(files)
  BY <1>2 DEF files
<1>. QED  BY <1>3, <1>5, <1>6, LeaveKeeps DEF KilledRegenerate

\* The check lets a snapshot pass that is the rendering of one registry.
LEMMA RenderingPinned ==
  /\ Rendering["golden"].recipe = Rendering["identity"].recipe
  /\ Rendering["golden"].positional.version = Rendering["identity"].positional
  /\ DOMAIN Rendering["golden"].entries = DOMAIN Rendering["identity"].entries
  /\ \A n \in DOMAIN Rendering["golden"].entries :
       /\ Rendering["golden"].entries[n].version = Rendering["identity"].entries[n].version
       /\ DOMAIN Rendering["identity"].entries[n].identity \subseteq Rendering["record"].names
<1>1. /\ Rendering["golden"] = GoldenDoc /\ Rendering["identity"] = RegistryDoc
      /\ Rendering["record"] = RecordDoc
  BY DEF Rendering, ToSet, Files
<1>2. /\ GoldenDoc.recipe = RegistryDoc.recipe
      /\ GoldenDoc.positional.version = RegistryDoc.positional
      /\ DOMAIN GoldenDoc.entries = Entries /\ DOMAIN RegistryDoc.entries = Entries
  BY DEF GoldenDoc, RegistryDoc, Vector
<1>3. ASSUME NEW n \in Entries
      PROVE  /\ GoldenDoc.entries[n].version = RegistryDoc.entries[n].version
             /\ DOMAIN RegistryDoc.entries[n].identity \subseteq RecordDoc.names
  <2>1. /\ GoldenDoc.entries[n].version = reg.entries[n].version
        /\ RegistryDoc.entries[n].version = reg.entries[n].version
        /\ RegistryDoc.entries[n].identity = reg.entries[n].identity
    BY DEF GoldenDoc, RegistryDoc, Vector
  <2>2. NamesOf(reg.entries[n]) \subseteq RecordDoc.names
    BY DEF RecordDoc
  <2>. QED  BY <2>1, <2>2 DEF NamesOf
<1>. QED  BY <1>1, <1>2, <1>3

LEMMA MergeKeeps ==
  ASSUME GInv, Merge
  PROVE  GInv'
<1>1. /\ merged' = Append(merged, disk) /\ \A f \in DOMAIN disk : disk[f] = Rendering[f]
      /\ UNCHANGED << disk, past >>
  BY DEF Merge, CheckPasses, SnapshotInSync
<1>2. disk["golden"] = Rendering["golden"] /\ disk["identity"] = Rendering["identity"]
      /\ disk["record"] = Rendering["record"]
  BY <1>1 DEF GInv, OnDisk, ToSet, Files
<1>3. PICK m : m = Len(merged)
  OBVIOUS
<1>4. IsList(merged)
  BY DEF GInv, OnDisk
<1>5. /\ IsList(merged') /\ Len(merged') = m + 1
      /\ \A i \in 1 .. m : merged'[i] = merged[i]
      /\ merged'[m + 1] = disk
  BY <1>1, <1>3, <1>4, ListAppend
<1>6. m \in Nat /\ DOMAIN merged = 1 .. m /\ DOMAIN merged' = 1 .. m + 1
  BY <1>3, <1>4, <1>5, ListLen
<1>7. OnDisk'
  BY <1>1, <1>5 DEF GInv, OnDisk
<1>8. PinsVouched' /\ GateHeld'
  BY <1>1 DEF GInv, PinsVouched, GateHeld, Pinned, At, Vouched, MovesTogether
<1>9. MergedIsPinned'
  <2> DEFINE OneGeneration(snapshot) ==
        /\ snapshot["golden"].recipe = snapshot["identity"].recipe
        /\ snapshot["golden"].positional.version = snapshot["identity"].positional
        /\ DOMAIN snapshot["golden"].entries = DOMAIN snapshot["identity"].entries
        /\ \A n \in DOMAIN snapshot["golden"].entries :
             /\ snapshot["golden"].entries[n].version = snapshot["identity"].entries[n].version
             /\ DOMAIN snapshot["identity"].entries[n].identity \subseteq snapshot["record"].names
  <2>1. \A i \in 1 .. m : OneGeneration(merged[i])
    BY <1>6 DEF GInv, MergedIsPinned
  <2>2. OneGeneration(disk)
    BY <1>2, RenderingPinned
  <2>3. ASSUME NEW i \in 1 .. m + 1 PROVE OneGeneration(merged'[i])
    <3>. HIDE DEF OneGeneration
    <3>1. i \in 1 .. m \/ i = m + 1
      BY <1>6
    <3>. QED  BY <1>5, <2>1, <2>2, <3>1
  <2>. QED  BY <1>6, <2>3 DEF MergedIsPinned
<1>. QED  BY <1>7, <1>8, <1>9 DEF GInv

LEMMA GInvInvariant == Spec => []GInv
<1>1. Init => GInv
  <2>. SUFFICES ASSUME Init PROVE GInv
    OBVIOUS
  <2>1. past = << >> /\ merged = << >> /\ DOMAIN past = {} /\ DOMAIN merged = {}
    BY DEF Init
  <2>2. OnDisk
    BY <2>1, ListEmpty DEF Init, OnDisk, ToSet, Files
  <2>. QED  BY <2>1, <2>2 DEF GInv, PinsVouched, GateHeld, MergedIsPinned
<1>2. GInv /\ [Next]_vars => GInv'
  <2>. SUFFICES ASSUME GInv, [Next]_vars PROVE GInv'
    OBVIOUS
  <2>1. CASE UNCHANGED vars
    BY <2>1, EditKeeps DEF vars
  <2>2. ASSUME NEW n, EditEntry(n) \/ DropEntry(n) PROVE GInv'
    BY <2>2, EditKeeps DEF EditEntry, DropEntry, Edit
  <2>3. ASSUME NEW leaf, EditLeaf(leaf) PROVE GInv'
    BY <2>3, EditKeeps DEF EditLeaf, Edit
  <2>4. CASE EditRecipe \/ EditPositional
    BY <2>4, EditKeeps DEF EditRecipe, EditPositional, Edit
  <2>. QED
    BY <2>1, <2>2, <2>3, <2>4, RegenerateKeeps, KilledKeeps, MergeKeeps DEF Next
<1>. QED  BY <1>1, <1>2, PTL DEF Spec

\* From one write to a later one: every gate on the way held.
LEMMA PinsMove ==
  ASSUME GInv, NEW i \in DOMAIN past, NEW j \in DOMAIN past, NEW n, i < j,
         \A k \in i .. j : Pinned(k, n),
         \A k \in i .. j - 1 : At(k, n).version <= At(k + 1, n).version
  PROVE  At(i, n).guid = At(j, n).guid <=> At(i, n).version = At(j, n).version
<1> DEFINE v(k) == At(k, n).version
           g(k) == At(k, n).guid
           T == { m \in Nat : i + m <= j =>
                    /\ v(i) <= v(i + m)
                    /\ v(i) = v(i + m) => g(i) = g(i + m) }
<1>1. /\ i \in Nat /\ j \in Nat
      /\ \A k \in i .. j : k \in DOMAIN past
  <2>1. Len(past) \in Nat /\ DOMAIN past = 1 .. Len(past)
    BY ListLen DEF GInv, OnDisk
  <2>. QED  BY <2>1
<1>2. \A k \in i .. j : v(k) \in Nat /\ g(k)[3]["_v"] = v(k)
  BY <1>1 DEF GInv, PinsVouched, Vouched
<1>3. \A k \in i .. j - 1 : v(k) = v(k + 1) => g(k) = g(k + 1)
  <2>. SUFFICES ASSUME NEW k \in i .. j - 1 PROVE MovesTogether(At(k, n), At(k + 1, n))
    BY DEF MovesTogether
  <2>1. k \in i .. j /\ k + 1 \in i .. j
    BY <1>1
  <2>. QED  BY <1>1, <2>1 DEF GInv, GateHeld
<1>4. \A k \in i .. j - 1 : v(k) <= v(k + 1)
  OBVIOUS
<1>. HIDE DEF v, g
<1>5. 0 \in T
  <2>1. i + 0 = i /\ i \in i .. j
    BY <1>1
  <2>2. v(i) <= v(i)
    BY <1>2, <2>1
  <2>. QED  BY <2>1, <2>2
<1>6. ASSUME NEW m \in T PROVE m + 1 \in T
  <2>. SUFFICES ASSUME i + (m + 1) <= j
                PROVE  /\ v(i) <= v(i + (m + 1))
                       /\ v(i) = v(i + (m + 1)) => g(i) = g(i + (m + 1))
    OBVIOUS
  <2>1. /\ m \in Nat /\ i + m \in i .. j - 1 /\ i + (m + 1) = (i + m) + 1 /\ i + m <= j
        /\ i + m \in i .. j /\ (i + m) + 1 \in i .. j /\ i \in i .. j
    BY <1>1
  <2>2. v(i) <= v(i + m) /\ (v(i) = v(i + m) => g(i) = g(i + m))
    BY <2>1
  <2>3. v(i) \in Nat /\ v(i + m) \in Nat /\ v((i + m) + 1) \in Nat
    BY <1>2, <2>1
  <2>4. v(i + m) <= v((i + m) + 1) /\ (v(i + m) = v((i + m) + 1) => g(i + m) = g((i + m) + 1))
    BY <1>3, <1>4, <2>1
  <2>. QED  BY <2>1, <2>2, <2>3, <2>4
<1>. HIDE DEF T
<1>7. T = Nat
  <2>1. T \in SUBSET Nat
    BY DEF T
  <2>. QED  BY <1>5, <1>6, <2>1, NaturalsByInduction
<1>8. v(i) = v(j) => g(i) = g(j)
  <2>1. j - i \in Nat /\ i + (j - i) = j /\ i + (j - i) <= j
    BY <1>1
  <2>2. j - i \in T
    BY <1>7, <2>1
  <2>. QED  BY <2>1, <2>2 DEF T
<1>9. g(i) = g(j) => v(i) = v(j)
  <2>1. i \in i .. j /\ j \in i .. j
    BY <1>1
  <2>. QED  BY <1>2, <2>1
<1>. QED  BY <1>8, <1>9 DEF v, g

\* Over any sequence of edits, regenerates and killed regenerates: of an entry that
\* stays pinned and whose version does not fall, the golden guid moves when the
\* version does and only then; and what is merged is a registry that is pinned.
THEOREM GoldenMoves == Spec => []GoldenMovesWithVersion
<1>1. GInv => GoldenMovesWithVersion
  BY PinsMove DEF GInv, GoldenMovesWithVersion, PinsMoveWithVersions
<1>. QED  BY <1>1, GInvInvariant, PTL
=============================================================================
