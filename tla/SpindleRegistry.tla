--------------------------- MODULE SpindleRegistry ---------------------------
(* The registry of row identities (byakugan/spindle.py, spindle.yml) and the     *)
(* change protocol around it: a developer edits the registry, the maps and the   *)
(* recipe, regenerates the snapshot model/spindle/ and merges what               *)
(* `python -m byakugan.spindle --check` lets pass; the engine mints the guids of *)
(* rows from whatever registry stands (normalize._spindle, ids.mint).            *)
(*                                                                              *)
(* uuid5 is taken to be injective: a guid is its recipe and its key.  A record   *)
(* is what its event holds under the paths the registry names; texts (stable     *)
(* across, descriptions, headers) and the kinds of YAML value are left out.      *)
EXTENDS Integers, Sequences, FiniteSets, SequencesExt

CONSTANTS
  Blank,         \* None and "": no value, no version, no file
  Text,          \* value -> its string rendering
  PositionalFields, ExternalFields,   \* columns of the wrapped row
  EntryNames,    \* what entries may be called, in the order of their names
  EntryForms,    \* the entries a developer may write down
  MapOf, VariantOf,                   \* leaf of a map -> its map; its variant
  LeafForms,     \* leaf -> what a developer may let it declare
  PlasoMaps, EvtxMaps,
  MapNames,      \* entry name -> the maps it may be named for
  Emits,         \* leaf -> the identity sources it emits
  OffsetForm,    \* relationships.yml derived.identities.offset.guid_form
  Recipes,       \* canonical JSON and namespaces: the engine's, and another
  Records,       \* leaf -> the records it may meet
  InitialRegistry, InitialMaps,
  MaxEdits, MaxWrites, MaxMerges

Kinds == { "record", "entity" }
Objects == { "file", "registry" }
Reserved == { "_obj", "_v" }
Renderings == { "str", "json" }

ASSUME SpindleAssumption ==
  /\ { MaxEdits, MaxWrites, MaxMerges } \subseteq Nat
  /\ Blank \notin DOMAIN Text
  /\ PositionalFields \cap Reserved = {}

VARIABLES
  reg,       \* spindle.yml: the recipe it documents, positional, entries, external
  maps,      \* leaf -> the object and guid it declares
  engine,    \* the recipe ids.py implements
  disk,      \* model/spindle: file -> what it holds
  past,      \* every golden.yml a command left
  merged,    \* the snapshot of every merge
  edits      \* bound
vars == << reg, maps, engine, disk, past, merged, edits >>

Files == << "identity", "record", "golden" >>

-----------------------------------------------------------------------------
\* Minting: ids.render, ids.mint, normalize._spindle.

Render(v, mode) == IF mode = "json" THEN << v >> ELSE Text[v]
GuidOf(key) == << "guid", engine, key >>
Mint(obj, values, version, modes) ==
  LET key == [ n \in Reserved \cup DOMAIN values |->
                 CASE n = "_obj" -> obj [] n = "_v" -> version [] OTHER -> Render(values[n], modes[n]) ]
  IN << GuidOf(key), key >>

Entries == DOMAIN reg.entries
NamesOf(e) == DOMAIN e.identity
Modes(e) == [ n \in NamesOf(e) |-> e.identity[n].mode ]
AsText(fields) == [ f \in fields |-> "str" ]

Row(leaf, rec, id, scope) ==
  [ object |-> maps[leaf].object, artefact |-> MapOf[leaf], guid |-> id[1], key |-> id[2], scope |-> scope,
    ref |-> [ f \in PositionalFields |-> rec.raw[f] ] ]
NoId == << Blank, << >> >>
\* A blank component voids the intrinsic identity, a blank index the positional.
Spindle(leaf, rec) ==
  LET e == reg.entries[maps[leaf].guid[2]]
      values == [ n \in NamesOf(e) |-> rec.event[e.identity[n].source] ]
      index  == [ f \in PositionalFields |-> rec.raw[f] ]
  IN IF NamesOf(e) # {} /\ \A n \in NamesOf(e) : values[n] # Blank
     THEN Row(leaf, rec, Mint(maps[leaf].object, values, e.version, Modes(e)), "intrinsic")
     ELSE IF \E f \in PositionalFields : index[f] = Blank THEN Row(leaf, rec, NoId, Blank)
     ELSE Row(leaf, rec, Mint(maps[leaf].object, index, reg.positional.version, AsText(PositionalFields)), "positional")
\* The map form of an external id: a field, or the object and some fields.
External(leaf, rec) ==
  LET fields == maps[leaf].guid[2]
  IN Row(leaf, rec, IF \E f \in fields : rec.raw[f] = Blank THEN NoId
                    ELSE << << maps[leaf].object, [ f \in fields |-> rec.raw[f] ] >>, << >> >>, Blank)
RowOf(leaf, rec) ==
  CASE maps[leaf].guid[1] = "spindle" -> Spindle(leaf, rec)
    [] maps[leaf].guid[1] = "fields"  -> External(leaf, rec)
    [] OTHER -> Row(leaf, rec, NoId, Blank)
\* The errors _spindle raises.
Mintable(leaf) ==
  maps[leaf].guid[1] = "spindle" =>
    /\ maps[leaf].guid[2] \in Entries
    /\ reg.entries[maps[leaf].guid[2]].object = maps[leaf].object
    /\ NamesOf(reg.entries[maps[leaf].guid[2]]) \cap Reserved = {}

-----------------------------------------------------------------------------
\* verify_registry: the registry, the maps and the engine are in step.

RecipeAgrees == reg.recipe = engine
SampleHolds(sample, names) == DOMAIN sample = names /\ \A n \in names : sample[n] # Blank
PositionalHolds ==
  reg.positional.version >= 1 /\ SampleHolds(reg.positional.sample, PositionalFields)

FormOf(guid) == IF guid[1] = "fields" THEN guid ELSE Blank
Declaring(guid) == { x \in DOMAIN reg.external : reg.external[x].form = FormOf(guid) }
SpindleLeafHoldsForAnyName(leaf) ==     \* mutant: an entry may be named for any map
  LET name == maps[leaf].guid[2]
  IN /\ MapOf[leaf] \notin EvtxMaps
     /\ name \in Entries
     /\ reg.entries[name].object = maps[leaf].object
     /\ \A n \in NamesOf(reg.entries[name]) : reg.entries[name].identity[n].source \in Emits[leaf]
SpindleLeafHolds(leaf) ==
  LET name == maps[leaf].guid[2]
  IN /\ MapOf[leaf] \notin EvtxMaps
     /\ name \in Entries /\ MapOf[leaf] \in MapNames[name]
     /\ reg.entries[name].object = maps[leaf].object
     /\ \A n \in NamesOf(reg.entries[name]) : reg.entries[name].identity[n].source \in Emits[leaf]
RawLeafHolds(leaf) ==
  MapOf[leaf] \notin PlasoMaps /\ Cardinality(Declaring(maps[leaf].guid)) = 1
LeafHolds(leaf) ==
  IF maps[leaf].guid[1] = "spindle" THEN SpindleLeafHolds(leaf) ELSE RawLeafHolds(leaf)

Referring(name) == { leaf \in DOMAIN maps : maps[leaf].guid = << "spindle", name >> }
EntryHolds(name) ==
  LET e == reg.entries[name]
  IN /\ e.object \in Objects /\ e.kind \in Kinds /\ e.version \in Nat \ {0}
     /\ e.scope \in {"intrinsic", "positional"} /\ (e.scope = "intrinsic") = (NamesOf(e) # {})
     /\ NamesOf(e) \cap (Reserved \cup PositionalFields) = {}
     /\ \A n \in NamesOf(e) : e.identity[n].mode \in Renderings
     /\ SampleHolds(e.sample, NamesOf(e))
     /\ Referring(name) # {}
ExternalHolds(x) ==
  LET e == reg.external[x]
  IN /\ e.kind \in Kinds /\ e.object \in Objects
     /\ CASE e.form[1] = "fields" ->
               /\ SampleHolds(e.sample, e.form[2])
               /\ \E leaf \in DOMAIN maps : maps[leaf].guid = e.form
          [] OTHER -> e.form = OffsetForm
RegistryHolds ==
  /\ RecipeAgrees /\ PositionalHolds
  /\ \A leaf \in DOMAIN maps : LeafHolds(leaf)
  /\ \A name \in Entries : EntryHolds(name)
  /\ \A x \in DOMAIN reg.external : ExternalHolds(x)

-----------------------------------------------------------------------------
\* The snapshot: identity.yml, record.yml, golden.yml.

RegistryDoc ==
  [ recipe |-> engine, positional |-> reg.positional.version,
    entries |-> [ n \in Entries |->
       [ object |-> reg.entries[n].object, kind |-> reg.entries[n].kind, version |-> reg.entries[n].version,
         identity |-> reg.entries[n].identity, variants |-> { VariantOf[leaf] : leaf \in Referring(n) } ] ],
    external |-> [ x \in DOMAIN reg.external |->
       [ form |-> reg.external[x].form, maps |-> { MapOf[leaf] : leaf \in { l \in DOMAIN maps : maps[l].guid = reg.external[x].form } } ] ] ]
RecordDoc ==
  [ names |-> UNION { NamesOf(reg.entries[n]) : n \in Entries }, positional |-> PositionalFields ]

\* What golden.yml pins of an entry: the version and the guid of its sample.
Vector(obj, sample, version, modes) ==
  [ version |-> version, guid |-> Mint(obj, sample, version, modes)[1] ]
GoldenDoc ==
  [ recipe |-> engine,
    positional |-> Vector("file", reg.positional.sample, reg.positional.version, AsText(PositionalFields)),
    entries |-> [ n \in Entries |->
       Vector(reg.entries[n].object, reg.entries[n].sample, reg.entries[n].version, Modes(reg.entries[n])) ] ]
Rendering ==
  [ f \in ToSet(Files) |->
      CASE f = "identity" -> RegistryDoc [] f = "record" -> RecordDoc [] f = "golden" -> GoldenDoc ]

\* verify_golden: a guid and its version move together, the recipe never moves;
\* a file, a positional vector or an entry that is not there says nothing.
MovesTogetherOrDown(old, new) ==     \* mutant: only a version that moved alone is refused
  old.version = new.version \/ old.guid # new.guid
MovesTogether(old, new) == (old.guid = new.guid) <=> (old.version = new.version)
GoldenAllows ==
  LET old == disk["golden"]  new == GoldenDoc
  IN old # Blank =>
     /\ old.recipe = new.recipe
     /\ old.positional # Blank => MovesTogether(old.positional, new.positional)
     /\ \A n \in DOMAIN old.entries \cap DOMAIN new.entries : MovesTogether(old.entries[n], new.entries[n])

SnapshotInSync == \A f \in DOMAIN disk : disk[f] = Rendering[f]
CheckPasses == RegistryHolds /\ GoldenAllows /\ SnapshotInSync

\* golden.yml when its writing is cut short: nothing, or the entries it began
\* with, the last one perhaps without its guid.
TornGolden ==
  LET whole == GoldenDoc
      kept(k) == Entries \cap { EntryNames[i] : i \in 1..k }
  IN { [ recipe |-> Blank, positional |-> Blank, entries |-> << >> ] }
     \cup { [ whole EXCEPT !.entries = [ n \in kept(k) |-> whole.entries[n] ] ] : k \in 0..Len(EntryNames) }
     \cup { [ whole EXCEPT !.entries = [ n \in kept(k) |->
                IF n = EntryNames[k] THEN [ whole.entries[n] EXCEPT !.guid = Blank ] ELSE whole.entries[n] ] ] :
              k \in 1..Len(EntryNames) }

-----------------------------------------------------------------------------
\* Actions.

Init ==
  /\ reg = InitialRegistry /\ maps = InitialMaps
  /\ engine = InitialRegistry.recipe
  /\ disk = [ f \in ToSet(Files) |-> Blank ]
  /\ past = << >> /\ merged = << >> /\ edits = 0

Edit == edits < MaxEdits /\ edits' = edits + 1 /\ UNCHANGED << disk, past, merged >>
EditEntry(n) ==
  /\ Edit
  /\ \E e \in EntryForms[n] :
       reg' = [ reg EXCEPT !.entries = [ m \in Entries \cup {n} |-> IF m = n THEN e ELSE reg.entries[m] ] ]
  /\ reg' # reg
  /\ UNCHANGED << maps, engine >>
DropEntry(n) ==
  /\ Edit /\ n \in Entries
  /\ reg' = [ reg EXCEPT !.entries = [ m \in Entries \ {n} |-> reg.entries[m] ] ]
  /\ UNCHANGED << maps, engine >>
EditLeaf(leaf) ==
  /\ Edit
  /\ \E l \in LeafForms[leaf] : maps' = [ maps EXCEPT ![leaf] = l ]
  /\ maps' # maps
  /\ UNCHANGED << reg, engine >>
EditRecipe ==
  /\ Edit
  /\ \E r \in Recipes : engine' = r /\ reg' = [ reg EXCEPT !.recipe = r ]
  /\ engine' # engine
  /\ UNCHANGED maps
EditPositional ==
  /\ Edit
  /\ reg' = [ reg EXCEPT !.positional.version = @ + 1 ]
  /\ UNCHANGED << maps, engine >>

Leave(files) == disk' = files /\ past' = Append(past, files["golden"]) /\ Len(past) < MaxWrites
               /\ UNCHANGED << reg, maps, engine, merged, edits >>
\* write_snapshot behind its two gates; it may be killed in any of the files, or
\* before it opens one.
Regenerate == RegistryHolds /\ GoldenAllows /\ Leave(Rendering)
KilledRegenerate ==
  /\ RegistryHolds /\ GoldenAllows
  /\ \E i \in DOMAIN Files :
       \E torn \in {disk[Files[i]]} \cup (IF Files[i] = "golden" THEN TornGolden ELSE {Blank}) :
         Leave([ f \in DOMAIN disk |->
                   IF \E j \in 1..i - 1 : Files[j] = f THEN Rendering[f]
                   ELSE IF f = Files[i] THEN torn ELSE disk[f] ])
\* CI merges what the check lets pass.
Merge ==
  /\ CheckPasses /\ Len(merged) < MaxMerges
  /\ merged # << >> => Last(merged) # disk
  /\ merged' = Append(merged, disk)
  /\ UNCHANGED << reg, maps, engine, disk, past, edits >>

Next ==
  \/ \E n \in ToSet(EntryNames) : EditEntry(n) \/ DropEntry(n)
  \/ \E leaf \in DOMAIN maps : EditLeaf(leaf)
  \/ EditRecipe \/ EditPositional
  \/ Regenerate \/ KilledRegenerate \/ Merge
Spec == Init /\ [][Next]_vars

-----------------------------------------------------------------------------
\* A row against the registry: entry_of, validate_record, the equality rule.

EntriesOf(row) ==
  { n \in Entries :
      /\ row.artefact \in MapNames[n] /\ reg.entries[n].object = row.object
      /\ NamesOf(reg.entries[n]) = DOMAIN row.key \ Reserved
      /\ reg.entries[n].version = row.key["_v"] }
Valid(row) ==
  /\ row.key # << >> /\ row.key["_obj"] = row.object
  /\ row.guid = GuidOf(row.key)
  /\ DOMAIN row.ref = PositionalFields
  /\ row.scope = "positional" => /\ DOMAIN row.key \ Reserved = PositionalFields
                                 /\ row.key["_v"] = reg.positional.version
  /\ row.scope = "intrinsic" => EntriesOf(row) # {}
  /\ row.scope \in {"intrinsic", "positional"}
Equatable(row) ==
  /\ row.guid # Blank
  /\ \/ row.key = << >> /\ row.scope = Blank
     \/ row.scope = "intrinsic" /\ \E n \in EntriesOf(row) : reg.entries[n].kind \in Kinds

-----------------------------------------------------------------------------
\* Properties.

Minted == { p \in { << leaf, rec >> : leaf \in DOMAIN maps, rec \in UNION { Records[l] : l \in DOMAIN maps } } :
              p[2] \in Records[p[1]] /\ maps[p[1]].guid[1] = "spindle" }

\* Under a registry that passes its verification, whatever edits led to it, the
\* engine mints without an error, and what it mints is a valid spindle by the
\* same registry: it re-mints from its own key, finds its entry through its
\* artefact, and may be equated across sources exactly when its identity is its
\* own and not its position (verify_registry, _spindle, validate_record,
\* entry_of and equatable_across_sources agree).
VerifiedMeansMintable ==
  RegistryHolds =>
    /\ \A leaf \in DOMAIN maps : Mintable(leaf)
    /\ \A p \in Minted :
         LET row == RowOf(p[1], p[2])
         IN row.guid # Blank => Valid(row) /\ (Equatable(row) <=> row.scope = "intrinsic")

At(i, n) == past[i].entries[n]
Pinned(i, n) == past[i] # Blank /\ n \in DOMAIN past[i].entries /\ At(i, n).guid # Blank

\* As long as an entry stays pinned and its version only rises, its golden guid
\* moves exactly when its version does.
PinsMoveWithVersions ==
  \A i, j \in DOMAIN past : \A n \in ToSet(EntryNames) :
    ( /\ i < j
      /\ \A k \in i..j : Pinned(k, n)
      /\ \A k \in i..j - 1 : At(k, n).version <= At(k + 1, n).version )
    => (At(i, n).guid = At(j, n).guid <=> At(i, n).version = At(j, n).version)

\* What is merged is of one generation: its golden vectors pin the entries of its
\* registry at their versions, minted by its recipe over its record shape.
MergedIsPinned ==
  \A i \in DOMAIN merged :
    LET identity == merged[i]["identity"]  golden == merged[i]["golden"]
    IN /\ golden.recipe = identity.recipe /\ golden.positional.version = identity.positional
       /\ DOMAIN golden.entries = DOMAIN identity.entries
       /\ \A n \in DOMAIN golden.entries :
            /\ golden.entries[n].version = identity.entries[n].version
            /\ DOMAIN identity.entries[n].identity \subseteq merged[i]["record"].names

\* Over any sequence of edits, regenerates and regenerates that were killed: of an
\* entry that stays pinned and whose version does not fall, the golden guid moves
\* when the version does and only then; and what is merged is a registry that its
\* golden vectors pin (verify_golden, write_snapshot, verify_snapshot).  An entry
\* that was dropped, or whose vector was lost, or whose version fell, starts anew.
GoldenMovesWithVersion == PinsMoveWithVersions /\ MergedIsPinned
============================================================================
