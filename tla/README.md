# A verification project for byakugan (PIIAT-MitreCar)

byakugan turns processed forensic evidence (event logs, Zeek captures, Plaso
timelines, RECmd/JLECmd exports, finished memory CARs) into MITRE CAR stores:
for every *source* one output directory with `car.db`, `superset.db`, their
JSONL exports and, on request, a STIX bundle; further commands read the stores
of a whole case.  This directory holds TLA+ models of the parts where order,
repetition, interruption, accumulation and identity decide what ends up in those
stores and what is said about them, the TLC runs that check them, and TLAPS
proofs.

## 1. The system

| component | source | state | operations | modelled in |
|---|---|---|---|---|
| batch pipeline | `pipeline.py` | result list, position in the list of sources | `run_batch`, `process_file`, `discover_sources`, `main` | `CarBatch`; its file loop in `Ingest` |
| parse engine, container split | `go/cmd/byakugan-parse`, `go/internal/{jsonread,adapters,split,...}`, `pipeline.parse_events`, `split_l2t` | a child process, two pipes, a temporary directory | parse a file, split a container | `Reading` (pure part), `IngestSpec` (promise), `Ingest` (processes) |
| fold | `enrich.fold`, `_merge_into` (`derive.coalesce`) | groups of rows by same-event key; the base row that is being merged | group, merge, seal | `Fold` |
| enrichment pass | `enrich.enrich`, `relationships.yml` | the rows themselves, mutated in place; indexes | one visit per row | `Enrich` |
| car.db store | `store.py` | one table per CAR object; `car_<object>.jsonl` | create, insert all, export | `CarBatch` |
| superset.db store | `superset.py` | model, edge types, edges (declared/derived), inferred and content nodes, refs | unlink, create, seed, insert, clear derived, export | `CarBatch` (life of the file), `Derive` (what is in it) |
| derive pass | `derive.py` | the derived layer of superset.db | links, reconstruction, content entities | `Derive` (what it makes of the rows), `CarBatch` (its commits) |
| STIX projection | `stix.py` | the registry of objects and its indexes | `load`, `project`, `export` | `Stix`; the file steps in `CarBatch` |
| spindle ids | `spindle.py`, `ids.py`, `normalize._spindle` | the registry, the committed snapshot and its golden vectors | `verify_registry`, `verify_golden`, `write_snapshot`, `validate_record` | `SpindleRegistry` |
| cross-source convergence, timeline | `crosssource.py`, `timeline.py`, `native_ids.py` | none (they read many stores) | `converge`, `build_timeline` | `CaseViews` |
| analytics and sigma | `analytics.py`, `sigma.py` | the compiled corpus | compile, defer, run | `Conditions` (the grammars), `Detect` |
| maps, normalizers, markers | `mappings/`, `normalize.py`, `go/internal/{normalize,predicates,markers}` | none | one record to one event | inputs of `Ingest` and `SpindleRegistry` |
| model builders, projections | `build_data_model.py`, `carmodel.py`, `sources_model.py`, `gen_sources.py`, `model/` | generated files | build | not modelled |

**Interactions.**  A command is one sequential Python process.  `run_batch`
visits the sources in discovery order; for each it calls `process_file`, which
walks the files of the source.  A log2timeline container is first split by a Go
process into tables in a temporary directory; each file or table with a route is
parsed by another Go process, whose event lines are read from its stdout while it
runs and whose exit code is known only after the last line.  All events are kept
in memory; then comes `enrich` (fold first, then the loop), `car.db` in one
transaction, its exports, `superset.db`, optionally the derived layer, optionally
the STIX bundle.  Commands communicate with later commands only through the files
they leave.  `python -m byakugan.derive` and `.stix` work on one directory that a
batch left; `crosssource` and `timeline` read all stores of a case; `analytics`
and `sigma` read one store; `spindle` works on the repository itself, for the
developers who change the registry.

**What is hard.**  Two commands over one tree at the same time are not supported
and not modelled.  What is hard is
- *two processes*: the pipeline and the engine run side by side over two bounded
  pipes; an engine dies with half a line in a pipe, or the reader is interrupted
  and leaves the engine writing;
- *interruption*: a directory has a dozen files and tables, each committed or
  written by itself; an exception, a `SystemExit` or a kill can come between any
  two, and the next command decides from one file what was done;
- *repetition*: batches skip, forced batches and derive commands replace; rows
  that were folded are folded again; a registry is edited and regenerated again
  and again;
- *order*: the fold's base is whichever row came first; the enrichment pass
  mutates records that other rows read (inheritance) and write (a logout); the
  objects of a bundle are filled by whichever row comes;
- *identity under reuse*: pids, LUIDs and terminal-session ids are used again;
  hashes are shared by files that are not the same; an id recipe changes.

**What must hold**, per component.  A source is read whole and in order or not at
all, and leaves nothing behind (ingest).  Stores hold their own source's evidence
only, never twice, and a build that was reported is whole (batch, stores).  The
fold loses no value, invents none, counts right and can be continued (fold).
Enrichment overwrites no evidence, links a row to the process, session or
connection its evidence names, and every inherited value has an owner (enrich).
The derived layer links two records only beyond doubt, infers nothing that was
observed, drops no reference to what was not, and counts right (derive).  A bundle
is closed under reference, holds every column of every row and every disagreement
(STIX).  A verified registry mints valid ids, and an id never moves unless its
version does (spindle).  Rows of several sources converge exactly when they share
a key, with every word kept, and the timeline is complete and in order (case
views).  A rule or analytic that runs flags exactly the rows it describes
(detect).

## 2. Modules

`Reading`, `IngestSpec`, `Ingest` -- how a source is read.  `Reading` is the pure
part: the two line readers, which differ in what they forgive, the container
sniffer, the routes, the adapters, the fan-out of a record to its maps.
`IngestSpec` states the promise in three steps: *Disturb*, *Deliver* (all events
of all files, each once, in input order: `Meaning`, defined over the source
without buffers, calls or tables on the way) and *Fail* (no event, and only for a
file the engine refuses or after a disturbance).  `Ingest` is the two processes.
The pipeline's steps are those of `process_file`'s loop (`OpenFile`,
`OpenContainer`, `NextTable`, `LeaveContainer`), of `parse_events` (`ReadLine`,
`EndOfStream`, `ReadStderr`, `ReapParse`) and of `split_l2t` (`ReapSplit`); the
engine's are those of `cmdParse` and `cmdSplitL2t`.  An event line is two tokens,
so that a buffer or pipe can end in the middle of one.  `Killed`, `IoError` and
`Interrupt` may come at any moment.  That `Ingest` implements `IngestSpec` is a
checked refinement: `outcome` is *pending* until the pipeline is done or failed,
`delivered` is `events` once it is done, `disturbed` is that a fault happened.

`CarBatch` -- the life of the output directories.  `disk` maps each directory to
what its files hold; `pc` is the next step of the running command.  Every
database commit, removal and text file is one action, named for the call it
stands for (`RemoveCar`, `CreateCar`, `InsertEvents`, `ExportObject`,
`WriteManifests`, `RemoveSuperset`, `CreateSuperset`, `SeedModel`,
`InsertDeclared`, `ExportRelationships`, `ClearDerived`, ..., `StixExport`).
`Raise`, `Abort` and `Kill` may come at any of them; `CutShort` says what each
leaves behind (a text file torn, a transaction rolled back, a schema already
there).  `Reprocess` is the upstream lane changing a source's evidence, which can
happen at any moment.  A row `<<s, v>>` stands for all events of version `v` of
source `s`; inserted tables are sequences of such batches, so that doubled rows
show.

`Fold` -- `enrich.fold` row by row: `Group`, then `OpenGroup`, `MergeRow`,
`CloseGroup` (or `KeepLone`, `KeepFullest`).  Columns and native keys are both
`Fields`, which `_merge_into` treats alike; values have a `Text`, because `443`
and `"443"` do not disagree.  The fold works in place on the group's first row,
so the row whose contributions are summed is the merged one; that is in
`CloseGroup`.

`Enrich` -- the loop of `enrich.enrich`, one action per kind of row.  `given` is
what the fold returned, `evs` the same rows as the pass has changed them so far,
`n` the row it is at.  The indexes are built before the loop from fields the
loop never writes; they are operators.  What is inherited is read from the
owner's record in `evs` at that moment.  `image_path` stands for
`image_path or exe` in the executed-file index.  A time is the *text* of a
timestamp, numbered in the order of its bytes, because that is what the pass sorts
and compares (`enrich.py:215`, `229`, `240`, `251`); `Instant` is what a text
tells, and texts of different shapes need not sort as their instants.  What the
links promise is stated over instants.  Rows with `link` and `conf`
set on arrival are those of a finished memory CAR.  The Zeek steps (connection by
uid, DNS names, SNI, certificate chains) read the logs of a capture in the order
they were given, where the first of each key wins.

`Derive` -- `derive.derive` over one source: `ClearDerived`, then one action per
rule and event, in the code's order (`LinkSource`, `Reconstruct`, `Refer`), then
`StoreLayer`.  The first pass runs over the rows in memory; `Rederive` and
`LoadRow` read them back as `load_events` does, object by object and without the
transient references (`Stored`).  `edges`, `nodes`, `content` and `refs` are the
pass's own lists, `db` the tables; the two differ where the table's key is
weaker (`inferred_node.node_id` has no host: `latest`).  The declared edges of
`superset.edges_from_events` are there from the start, because what the pass
promises is about both classes.  The context of a content node and the statements
about an inferred one are one property each, and times are left out.

`Stix` -- `stix.project` over the stores of one source: the content pass, then
one step per row, inferred node, edge and behaviour hit (`phase`, `at`).  `objs`
is the registry, an object being its properties and the values that disagreed
with them; an id is a tuple, led by the host when it is case-scoped.  Each
builder of the code (`_Row` methods) is an operator that yields what it puts,
what the observation refers to and which columns it has consumed; what no
builder consumed is kept on the observation verbatim.  What the readers make of
a value (hex numbers, addresses, SIDs, base names, times) is a constant table.

`SpindleRegistry` -- the registry of row identities and its change protocol.
Developers edit entries, leaves of the maps, the positional rule and the recipe
(`EditEntry`, `DropEntry`, `EditLeaf`, ...), regenerate the snapshot
(`Regenerate`, or `KilledRegenerate`, which may end before it opens a file or in
any of them) and
merge what the check lets pass (`Merge`).  The checks (`verify_registry`, the coverage of the
maps, `verify_golden`) are operators over what they read.  A guid is its recipe
and its key: uuid5 is taken to be injective.

`CaseViews` -- `crosssource.converge` and `timeline.build_timeline`, one store
after the other: the keys of a row by tier, the buckets, the groups from the
strongest tier on, those of one tier in any order; the entries, their window and
their sort.  A time stamp has a text and an instant, since texts do not sort as
times do.

`Conditions`, `Detect` -- the behaviour layer.  `Conditions` holds the
recursive-descent parsers of `sigma.py` and `analytics.py` and an independent
meaning of a condition by its loosest connective (`Senses`).  A condition is a
stretch of a text of tokens; what a parser builds of it is a predicate, the set of
the sets of names (selections, comparisons) that satisfy it, which is what
`_eval_cond` and the closures of `_Parser` compute of a row.  The mutual recursion
of `_or`, `_and`, `_not` and `_atom` is a recursive function of the number of tokens
still to be read, and the loops of `_or` and `_and` are right recursions.  The two
parsers differ in their atoms only (`AtomAt`).  Names stand as they are written;
the target of a quantifier is put in lower case (`Lowered`, `sigma.py:320`) before
it is matched, which the meaning does not do.  `Detect` compiles a corpus document
by document into analytics that run or are deferred, then shows the rows of a store
to those that run; a clause is known by the place of its `filter`.

The `MC` modules give the constants values; `CarBatchProofs`, `FoldProofs`,
`EnrichProofs`, `DeriveProofs`, `IngestProofs`, `SpindleRegistryProofs` and
`ExportProofs` (what is made of finished stores: the case views, the STIX bundle
and the hits) hold the theorems, `ListLemmas` what they need about lists.  Definitions whose comment says
`mutant` are plausible wrong versions of the one after them; each property is
known to fail when its mutant takes the original's place.

## 3. Runs

| run | cfg | shows |
|---|---|---|
| batch | `MCCarBatch.cfg` | all properties of `CarBatch`, liveness among them |
| ingest | `MCIngest.cfg` | `Ingest` implements `IngestSpec`, cleans up and ends |
| fold | `MCFold.cfg` | all properties of `Fold` |
| enrich | `MCEnrich.cfg` | all properties of `Enrich` |
| derive | `MCDerive.cfg` | all properties of `Derive` |
| stix | `MCStix.cfg` | the bundle is closed, complete and keeps disagreements |
| spindle | `MCSpindleRegistry.cfg` | verification means mintable; ids move with versions |
| views | `MCCaseViews.cfg` | convergence and timeline of a case |
| detect | `MCDetect.cfg` | rules and analytics mean what is written |
| two_stores | `MCCarBatchTwoStores.cfg` | a documented promise a batch does not keep |
| instants | `MCEnrichInstants.cfg` | a pid that is given to the wrong process |
| sightings | `MCStixSightings.cfg` | a sighting of another row than the one that matched |

`CHECK_DEADLOCK FALSE` stands where the system ends: the operator or developer
has nothing left to do, the pass is over.  In `Ingest`, where two processes could
really wait for each other, `EverySourceEnds` says that they do not: a state in
which both wait refutes it.

**Fairness.**  `CarBatch!FairSpec` adds `WF_vars(Step)`: a command that has begun
goes on until it ends, because it is a sequential program that waits for nobody
but its own child process.  `Ingest!Spec` has `WF_vars(Pipeline)` and
`WF_vars(Engine)`: two processes the operating system keeps running.  Nothing is
assumed of the operator, who may never start a command, nor of faults.

**`CarBatch`.**  `OwnEvidenceOnly` (isolation), `NoDoubleRows` (rebuilding
replaces), `BuiltIsCoherent` (a result without error means that every output is
there and all describe one parse), `DeriveLeavesOneLayer` (re-deriving is
idempotent over any layer, whole or partial), `OnlyForceReplacesRows` (a step
property), `BatchServesEverySource` (a source that raises does not keep the next
from its turn).  *Bounds*: two sources are enough for anything between sources,
since a batch carries no state from one to the next but its result list.  Two
commands (`MaxCommands`) give every pair of what a first command leaves and what
a second does about it; one fault (`MaxFaults`) can hit either of them at any
step; two versions of the evidence (`MaxVersion`), one of which fills fewer
tables, let it change before, during and after a build.  Two object tables make
the exports an order of their own.

**`Ingest`.**  `Implements` (the refinement), `NothingLeftBehind` (directory and
child), `EverySourceEnds` (liveness, and with it the absence of deadlock).
*Bounds*: every event log of three lines over a plain, a comma, a byte-order-mark
and a scalar line; every container of three lines over three tables, a comma, a
broken and a scalar line; directories that mix logs, containers, jump lists
(whole and broken) and files without a route.  A buffer of three tokens and a
pipe of two make every line cross a boundary; three open files let a container
have one table too many; one fault can hit either process at any step.
`DiagnosticFits` is an assumption on the code: an engine's last words are one
line, which the stderr pipe holds.  Without it the pipeline, which reads stdout
to its end first, and an engine that fills stderr would wait for each other
(`pipeline.py:207`).

**`Fold`.**  `NothingLost`, `NothingInvented` (values and who reported them),
`OneRowPerEvent`, `ContributorsCounted` (also over folded rows), `FoldContinues`
(folding in instalments gives the same rows).  *Bounds*: all sequences of four
rows of one event from two artefacts, with three values of which two have one
text; all sequences of three rows of two events and of no identity; and a row
folded before (from two or three rows) with a fresh one, in both orders.  `Cap`
is 3 instead of 64, so that groups of four and refolds of four pass it.

**`Enrich`.**  `EvidenceKept`, `NothingMadeUp` (every value that was added is one
its owner, session, connection or capture has), `LinkIsRight` (a named guid
wins; a pid means the process that lived at that instant, wherever the texts of the
timestamps that decide it sort as their instants, `ToldInOrder`; a row of a capture
belongs to the connection of its uid), `SessionsAgree` (authentications name sessions of
their host and LUID; a login and its logout point at each other).  *Bounds*: four
families of rows.  *Reused pids*: two creates (same or other pid, host, guid; times
that are blank, equal and reversed), the end of the first (blank, early or late) or
its terminate and its exit (one of each survives the fold; either may be blank), and
a row that refers by pid, by guid or by both, visited first or last.  There are four
texts of times, of which the last sorts after the third and tells what the second
tells.
*Accounts*: an owner with and without image, user and SID, a file, registry or
terminate row of it with all combinations of its own user and SID, and a child,
in the rotations that let each be visited first.  *Sessions*: logon, logoff,
reconnect, disconnect with LUIDs that are missing, ordinary or well known, and
authentications that succeeded, failed or come from another host, in all orders.
*Captures*: connections, DNS answers, SNI and certificates that agree or
compete, in the orders of their logs.

**`Derive`.**  `LinkedOnceIffClear` states the 1:1 rule without reference to
indexes, field order or the set of pairs seen; `ContentCounted` states counts,
references and capped context as set comprehensions over the rows.
`NothingObservedInferred`, `NoReferenceDangles`, `OneOwnerEach` and `NoSelfLoops`
relate the cascade's links, the declared edges, the inferred nodes and the
tables.  `RederiveKeepsTheStored` compares a pass with the pass before.
*Bounds*: *images*: a process and two files, each with or without each of two
hashes, in two cases, at two paths or none, one of the files on another host,
without guid, or a second record of the first; a second record of the process;
both orders.  *Transfers*: a request with two file ids.  *References*: every pair
and triple of a spoke (by guid, by offset, by an offset that is no number; linked
or not; saying something or not), a child and a record of the process they name
or an injected thread, on one host or two.  *Accounts*: two rows with two account
fields each.  `PropCap` is 1 instead of 64, so that two paths pass it.
`MaxPasses` is 3: memory, store, and the store again, after which nothing
changes.

**`Stix`.**  `RefsResolve` (at every moment of the pass), `NothingHomeless` (every
column of every observed row is somewhere in the bundle; the exceptions are
`KnownLost`, section 4), `NothingOverwritten` (objects that several rows share
hold what each offered), `EdgesFindTheirEnds` (an edge is drawn between objects of
the records it names or counted as unresolved).  *Bounds*: *singles*: a row of
each of thirteen objects with all its columns, with all but one, with one alone,
with values that are no address, number or type, and without identity, owner or
time; *pairs*: two rows of one entity that agree in what identifies it only, in
both orders; *contents*: rows that share one hash and differ in another;
*graphs*: edges, inferred nodes and hits over rows that have or lack what they
name.

**`SpindleRegistry`.**  `VerifiedMeansMintable` joins four pieces of code that
must agree about an entry: the verification, the mint, the validation of a row
and the rule that says which rows may be equated.  `GoldenMovesWithVersion` is
about all histories of regenerates: as long as an entry stays and its version
only rises, its golden guid moves exactly when its version does, and what is
merged is pinned by its golden vectors, although a kill leaves files of two
generations.  *Bounds*: three
entries, one of them the variant of another's map, each with the forms a
developer may give it, right and wrong (another source, rendering, name, object,
sample, version); three leaves; three edits, three regenerates, whole or killed,
and one merge, in any order.

**`CaseViews`.**  `ConvergedOnceAtTheStrongest`, `EveryWordIsKept`,
`TimeRunsForward`, `NothingLostInTime`.  *Bounds*: all cases of three one-row
stores, or of a two-row and a one-row store, over eight rows that share a record,
a recipe's older form, a strong or weak hash, a volume (by column, by mining, or
behind a spoilt column) or an image name, with times that sort otherwise as text,
are equal, broken or missing; three windows.

**`Detect`.**  `RulesMeanWhatTheySay`, `AnalyticsRunWhole`: what compiles flags
exactly the rows that the independent meaning of the text (`Means`) is true of, of
Sigma rules those whose quantifiers have targets in lower case (`LowerTargets`).
*Bounds*:
every token sequence of up to five over two selections, connectives and
parentheses, of up to four over quantifiers and their targets, four longer
conditions, rules with a selection in mixed case; every CAR filter text of up to four tokens; every reason to defer;
two-filter analytics; rows for every way to fill the two columns that are read.

## 4. Where the documentation promises more than the code does

Three are violation runs, with the shortest trace TLC finds.

1. *two_stores*: `car.db` exists from its first `CREATE TABLE` on; a build that
   dies after that is skipped by every later batch, without a superset.db
   (`README.md:51` promises two stores of every source).
2. *sightings*: `Projection.obs` keeps one observation per host, object and guid.
   When the create and the terminate of a process share its guid, a hit on the
   create is sighted in the observation of the terminate (`stix.py:836`).
3. *instants*: timestamps arrive and stay in several shapes (`normalize.py:189-193`,
   `219-223`), and the pid window compares their texts (`enrich.py:215`, `229`, `240`,
   `251`).  Of two creates of one pid the one whose text sorts last wins, although the
   other one's instant is later or its own is not yet: "latest create <= ts"
   (`enrich.py:244`) holds where all texts are of one shape.

The others show in the models, whose properties are stated around them.

*Batch.*  `windows_logs/a/b` and `windows_logs/a_b` share one directory
(`pipeline.py:380`, `docs/CAR-Pipeline.md:32`): the runs use distinct names.  A
rebuild removes no `car_<object>.jsonl` of a table that is empty now
(`store.py:127`).  A `SystemExit` ends the whole batch (`Abort`;
`pipeline.py:412` says one failing source never stops the rest).  `--stix` over
finished stores projects nothing, because they are skipped first (`Skip`;
`pipeline.py:424`).

*Ingest.*  A container whose lines end in commas is recognised as one and then
loses these lines, because the splitter forgives less than the sniffer.  One that
starts with a byte-order mark is not recognised and routed by its name.  A
container whose own name holds an earlier route pattern routes all its tables by
that.

*Fold.*  `coalesced_conflicts` of a folded row are dropped when that row is
folded into another (`enrich.py:128`, `152-153`), so `NothingLost` speaks of
the values of the rows that arrive, not of the conflicts they bring.

*Enrich.*  A process may have a terminate and an exit row, which the fold keeps apart
by their action.  The earlier of them bounds its life, but if the first one met has no
timestamp, a later one that has does not count (`enrich.py:229`): the process is
taken for alive.  The login index keeps the first login of a LUID or SessionID, so a
session's later disconnects all close its first login (`enrich.py:507`, `512`).
Canonical user names are given as the loop goes, so rows visited before their
owner miss them (`enrich.py:643`, `32-33`).  The pid window replaces links that a
finished memory CAR carried (`enrich.py:641`, `docs/Architecture.md:65`).

*Derive.*  The hash fields are tried one by one, and what a strong hash leaves
ambiguous a weaker one may decide (`derive.py:214`, `relationships.yml:150-152`):
two files share the process's sha256, one of them has its md5 as well, and is
linked.

*STIX.*  Three values find no home (`KnownLost`, against `stix.py:353-356`): the
signer of a process row without image and hash, an http scheme other than http
and https, and texts that are blank.  An access row's target can be both a process
and an inferred node.

*Spindle.*  A version may fall (A at 1, B at 2, C at 1 passes); an entry that is
dropped and added again, or missing from a golden.yml that was cut short, is new;
an empty golden.yml refuses every regenerate; changing which field an identity
reads passes without a new version when the sample stays, although `spindle.yml`
says that identity fields change only with one.  `GoldenMovesWithVersion` states
what is left: entries that stay pinned, versions that do not fall.

*Case views.*  Two store directories with one base name replace each other
(`crosssource.py:151`).  Rows whose strongest hashes differ never converge by a
weaker one that is equal, since a row has one content key.  Opening a car.db that
vanished creates an empty one (`crosssource.py:134`).

*Detect.*  A leaf with a modifier that is not supported answers false, and under a
`not` it makes the rule fire on rows it cannot judge (`sigma.py:208`, against "never a
loose match" in `sigma.py:138-139`).  The target of a quantifier is put in lower case
(`sigma.py:320`) and matched, case-sensitively, against the names of the selections as
they are written (`sigma.py:326-332`): `1 of Sel_b` or `all of Sel*` matches no
selection with a capital (against `sigma.py:259`); a name that stands by itself is
not changed and is found.  `RulesMeanWhatTheySay` is about rules without either.  A
digest is compared with the first filled hash column only, although
`sigma.py:116-118` says it should be with all three.  Conditions that are not well
formed are not refused: a stray word becomes the name of a selection, and a name
without a selection is false.  Of a CAR filter only the first parentheses count
(`where a and (b)` runs `b`, `not (x)` runs `x`) although a partial that changes
the meaning should never run; a clause that cannot be parsed is skipped.  The
parentheses are counted in the text of the filter, those inside a quoted literal
too (`analytics.py:380-392`): a literal with an unmatched one moves the end of the
filter.  The model cannot show that, since a comparison is one token (section 7).

## 5. Proofs

All theorems hold for every value of the constants that satisfies the named
assumptions of the modules, which TLC evaluates in every run.  A theorem is the
state formula's `[]` from `Spec` without fairness; each strengthened invariant
below was first checked by TLC on the module's own run.  Where a theorem needs
more than its module assumes, it says so in an `ASSUME` of its own.

**`CarBatchProofs`.**
* `TypeCorrect`: `[](TypeOK /\ StoreIsOpen)`.  Type correctness alone is not
  inductive: that `InsertEvents` appends to a sequence needs `car.db` to be open
  at that step.  `StoreIsOpen` says what each step of the running command may
  rely on in the current directory.
* `NoDoubling`: `[]NoDoubleRows`.  The invariant adds that the table about to be
  filled is empty (`car` at *insert*, declared edges from *schema* on, derived
  edges at *edges*) and that the memory holds at most one batch.  Each fault
  leads to a state where the removal comes before the insert again.
* `RowsKept`: `OnlyForceReplacesRows`.  Needs that an unforced batch is in the
  steps before the insert only where it found no car.db, and that only a batch
  goes through them.
* `NoStrangers` and `OwnEvidence`.  `RowsStayHome`: every row of either store of
  a directory is of a source with the directory's name, and so is what the memory
  holds while a step may still write it.  That gives isolation up to the name
  without any assumption; that a name means one source is `NamesApart`, the
  hypothesis of `OwnEvidence` -- `discover_sources` does not ensure it (section 4).
* `OneLayer`: `[]DeriveLeavesOneLayer`.  `LInv` says of every step between what a
  directory holds by then: `LayerSoFar` for derive (a layer that grows table by
  table over the rows in memory, whatever was there before the clearing),
  `BuildSoFar` for a build (one parse everywhere it has got to).
* `BuiltWhole`: `[]BuiltIsCoherent`, under `NamesApart` and `ListedOnce` (the
  sources a batch walks are distinct, as a listing of a directory is).  `CInv`
  adds `OnceEach`: the source being built has no result yet and does not come
  again, so that a later step of the batch cannot take back what was reported.

**`FoldProofs`.**  `FoldedBefore` is the assumption on rows that were folded
before: their counter and their list of contributors fit each other, as `Seal`
leaves them, and a row without identity was never counted.
* `FoldLosesNothing`, `FoldInventsNothing`.  `FInv` says of the base that every
  row merged so far is carried by it (or: that all it says came from rows of its
  key), of finished rows that they carry their whole group, and of groups that
  they partition the indexes read so far by identity.
* `OneRowEach`: the rows come out in the order their events were first seen, in
  both modes.  `TallyInv` adds that a group lists its rows in their order
  (`Listing`) and that what is out answers to the first groups of the order
  (`Emitted`).
* `EveryoneCounted`.  Weights and names are sums and concatenations over lists;
  `Weighing` says that the weights of groups and finished rows add up to those of
  the rows read, `Counting` that the base keeps its own count and names until the
  group is closed.
* `FoldsInInstalments`: `[]FoldContinues`, two complete folds compared.  The loop
  computes the expression `Folded` (`SoFar`, `LoopIsFolded`).  A row that comes
  last starts an event of its own or joins what its event has become, and that is
  what it would have become in the group (`FoldedNext`): merging does not read the
  counters (`MergeAfterSeal`), and totals and capped names continue from the sealed
  ones (`CountersContinue`).  Folded rows fold into themselves (`FoldedOnce`); the
  rest is induction over the rows that come later (`FoldedAgain`).  `Folded` is
  written with recursive functions (`Upward`, `Merged`): of `SelectSeq` and
  `FoldLeft`, which take an operator, the provers know nothing.

**`EnrichProofs`.**  `FoldedRows` is what `Enrich` assumes of what `Fold` gives
it: no links of its own but the owner's, and one create per guid and host (the key
of the fold has host, guid and action, so of ends there may be two).
* `EnrichTypes`, `EvidenceIsKept`.  `EInv` adds to type correctness and
  `EvidenceKept` that rows the pass has not visited still have all columns they
  came with, although a logout may have written native keys to them: without it
  `Canonical` could be applied to a user that was inherited.  For the Zeek steps
  this uses that what a connection hands down is none of the account columns, an
  assumption on `relationships.yml`.
* `NothingIsMadeUp`, `LinksAreRight`, `SessionsDoAgree`.  A visit ties its own row
  only, except that a logout writes to its login; `Waiting` says that a row still
  to be visited is tied as the fold left it, so that a visit never meets half of
  another's work.  With it the conjuncts of `TiesInv` are one per kind of tie:
  a named guid (`NamedWins`), the pid window (`WindowHolds`), flows and
  certificates (`ConnectionsTied`).  The pid window says, of any texts, that the row
  is given a process of its host and pid; that it is the one that was meant at that
  instant needs that the texts which decide it sort as what they tell
  (`ToldInOrder`, used in `TextsTell`), without which *instants* refutes it.  The
  first attempt at `LinksAreRight` failed
  on guids with two creates, where the later replaces the earlier in the index and
  the exit is looked up under the guid of both; the uniqueness of creates that the
  fold establishes is now stated (`FoldedRows`).

**`DeriveProofs`.**
* `DeriveTypes`, `NeverInfersObserved`, `NoLoopsEver`.  A table row of one pass is
  read after the next one has replaced the events, so the invariant `DInv` speaks
  of car.db: an inferred node, collected or stored, has no record there
  (`NodesLost`, `TableLost`).  For that the events of a pass must show exactly what
  car.db shows as observed (`ObservedSame`): each is a row of it, perhaps without
  its transient references (`FromCar`), and once the loading is over every row is
  among them (`Covered`, with `Loaded` for the object and row `load_events` is
  at).  That an inferred injection does not return to its owner rests on the same
  fact and on the assumption that the cascade names only processes it has a record
  of (`Enriched`).
* `ReferencesLead`, `OneOwner`.  The walk is at a rule and an event: every pair it
  is past is met (`Met`: observed, or corroborated with an edge), every edge drawn
  by the walk has a pair it was drawn for (`Drawn`) and a node that counts its
  observed end (`Rooted`), and the tables hold what was collected (`Tabled`).
* `OneLinkIfClear`.  Every pair of hash and source that was passed has made its
  links (`LinkMade`), every link has a pair that made it (`LinkMeant`), and no two
  join the same records (`LinkedOnce`).
* `EveryContentCounted`.  `Counted` is the count and context over the pairs passed,
  `Traced` the references, `ContentTabled` what the tables have.  It needs that a
  hash column is not called `sid` (`DeriveAssumption`), since a node's id is that
  name and the value.
* `KeepsTheStored`: `[]RederiveKeepsTheStored`, two complete passes compared.  A
  pass over the store reads the rows of car.db shuffled, those of one object in
  their order (`Filed`).  What a pass leaves of links, references, counts and
  missing processes is a function of car.db alone (`LinkExact`, `RefsExact`,
  `Settled`, `History`), whatever the order of its events: that gives what the
  second pass keeps of the first.  From then on the rows come in the same order,
  and a pass is a function of its events (`StepOf`, `Course`, `Determined`, by
  `NaturalsByInduction`), so the third repeats the second.  It uses that the
  objects of the model are distinct (`DeriveAssumption`: `st.model` is a dict,
  `derive.py:378`).

**`IngestProofs`.**
* `LeavesNothing`.  `Places`: outside a call the engine is none or has been waited
  for, and the directory exists only while a container is open.
* `KeepsThePromise`: `Spec => Implements`, the refinement of `IngestSpec` with its
  fairness-free part, for any lists of files, routes, buffer and pipe sizes and
  number of faults.  The heart of `IInv` is `InOrder`: what the pipeline has read,
  half a line, what is in the pipe and what is in the buffer are, concatenated,
  what the lines the engine has read so far say, at every moment of a call.
  `Conserved` says of the files that the events stored, those under way and those
  of the tables still waiting are what the files taken so far mean, and
  `NoneSkipped` that a file that is refused is not passed over: as long as the
  source has not failed, what is refused of it is still pending.
  `Blamed` says that a call that goes wrong has a fault or a refused file behind
  it, and `Splitting` what the splitter has written.  It rests on `RoutesAreListed`
  and `SourcesAreReadable` (routes and files are finite lists).  The attempt found
  that tables of a container had to be told apart by the line that first names
  them and not by their position in a set; the model now keys them as the splitter
  does.

**`SpindleRegistryProofs`.**  `VerifiedMints` is a fact of every state in which
the checks pass.  `GoldenMoves` is about histories: `GInv` says that what lies on
disk is the last of the snapshots written (`OnDisk`), that a pinned guid is the
hash of its version (`PinsVouched`), that each regenerate
that was let through kept the pins of the one before (`GateHeld`) and that what is
merged was pinned (`MergedIsPinned`).

**`ExportProofs`, the case views.**  `RunsForwardInTime` and `HoldsEveryMoment` rest on
`TInv`: the entries gathered so far are those of the stores read, each once
(`Gathered`), and on the sort being a strict order whose ranks number them
(`RankRises`, `RankIsOnes` in `ListLemmas`).  `ConvergesOnce` and
`KeepsEveryWord` rest on `VInv`: a bucket is the places of the rows that hold its key (`Bucketed`), a group made so
far is that of the first key for its members, and no key that waits is stronger
than one that is done (`Emitted`).  Both have the hypothesis `DirectoriesApart`
(one name per store, `crosssource.py:300`): two stores with one name replace each
other (section 4).  The order of keys within a tier is left open in the model.

**`ExportProofs`, the STIX bundle.**  Everything a step does to the registry is a
list of puts, and a put only adds (`Grows`): it makes an object, or gives one
properties it lacked, adds to its lists and notes what disagrees.  The four
invariants follow from what the builders put.
* `ReferencesResolve`: `[]RefsResolve`.  Every builder yields a piece whose
  references are to what it puts itself, to the content nodes and to the processes
  its row names (`Sound`, one lemma per builder, composed as the builders are).
  The content pass runs first, so a content that a file names is there
  (`Place`, `PassKeepsItsPlace`); a primary entity or an observation that a later
  edge or hit picks from an index is an object of the registry.
* `NothingIsOverwritten`: once a row is behind, the registry has all its puts
  (`KeptIInv`), which later puts preserve, whoever makes them.
* `NothingIsHomeless`: a column that a builder has consumed is in what the row
  puts (`Homes`, `PartsHomes`, again by builder), and one it has not is among the
  leftovers on the row's observation.  The proof attempt found what a run on few
  columns had not: an `http` row consumes its `url_scheme` whether or not the URL
  uses it, and the exceptions in `KnownLost` had to be exactly the code's.
* `EdgesAreDrawnOrCounted`: `FoundIInv` says of both indexes that they answer with
  one of the objects `EndsOf` allows, for exactly the rows behind; `EdgesIInv` that
  each edge behind is drawn or counted, once.

It assumes that a reader yields a value or nothing and a hash is among those of the
store (`ReadsAssumption`); that every object which is not an event has a STIX type
(`ShapeAssumption`, which is `OBJECTS`, `stix.py:121`); and that what `load`
(`stix.py:1156`) reads are finite lists of rows of the objects there are, of which no
column is called like a property the observation has by itself: those are
`x_car_...` and `object_refs`, columns are CAR fields and native keys
(`StoresAssumption`).

**`ExportProofs`, the hits.**  `RulesSayWhatTheyMean` (`[]RulesMeanWhatTheySay`) and
`AnalyticsAreWhole` (`[]AnalyticsRunWhole`), for conditions of any length; of Sigma
rules those whose quantifiers' targets are in lower case (`LowerTargets`, section 4).
The meaning of a stretch is composed of the meanings of its parts, split at the first
connective of the loosest kind; the parser goes from left to right and cannot see
where its stretch ends.  `Found` is what relates them: at each level of the grammar
the parser has read the whole stretch, and it as this sense, unless the next token
is a connective that level goes on with.  By induction on the levels of the meaning
every sense of every stretch is found (`SensesFound`, with a lemma per form:
`OrFound`, `AndFound`, `UnaryFound`), so that a condition that means something is
parsed, and as that (`ParserReadsMeaning`).  For a CAR analytic, a filter that is one
condition in parentheses is exactly what `_balanced_paren` cuts out of the code
(`FilterIsWhole`), and its meaning is that of what is between them (`FilterMeans`).
`FlagIInv`, the inductive invariant of the pass, says that each analytic was compiled
from its own document and that the hits are those of the analytics behind.  Assumed is
that corpora, conditions and pseudocode are finite texts (`CorporaAssumption`).
Nothing is proved of conditions that are not well formed (section 4).

**`ListLemmas`.**  Induction over data.  The library's induction theorems take an
operator, which the provers cannot instantiate; but well-foundedness of `<` on
`Nat` can be applied to a *set*, and a statement about all `n` is a set of `n`
(`NaturalsByInduction`).  From it come the lemmas about ranks in a strict order,
by which `CaseViews` sorts and the rows of an object are ordered in `Derive`, and
those about flattening, concatenating and mapping sequences that the refinement
of `Ingest` and the counts of `Fold` need; recursion is by recursive functions, whose existence is proved the same way
(`FoldProofs!SumsExist`).

**Only model-checked.**
* `BatchServesEverySource`, `EverySourceEnds`: liveness, which is out of the
  prover's reach.
* What the violation runs refute, of course: `TwoStores`, `SightingOfMatchedRow`,
  `MeantByItsPid`.

## 6. Plan

What is modelled covers the path from a source's files to the stores, the bundle,
the case views and the hits, and every safety property the passing runs check is
proved.  What is left:

1. An abstract `Store` (a source is absent, partial or whole) that `CarBatch`
   refines.
2. The composition of fold, enrich and derive over the same rows: what `Enrich`
   assumes (`FoldedRows`) is what `Fold` leaves, and what `Derive` assumes
   (`Enriched`) is what `Enrich` leaves.
3. What the parsers make of a condition that is not well formed, which the code
   does not refuse (section 4): a meaning for stray words, to hold them against.

## 7. Not modelled, and why

Record-to-event mapping (maps, predicates, normalizers, markers, the JSON codec):
pure functions of one record, held to the former Python engine byte for byte by
the repository's parity tests; which maps claim a record is an input of `Ingest`.
The model builders and generators: pure functions of pinned submodules; what
matters to the pipeline is that they raise `SystemExit`, which `CarBatch!Abort`
has.  The column translation of a finished memory CAR: one row to one event.  The
lifts of volume GUID, MAC and device serial in `enrich`: functions of the row's
own native values that nothing in the pass reads.  The list of used maps in a
batch's result, and the single-source mode, which runs the same `process_file`.
An interrupt while `communicate()` waits for the splitter.  Names, labels,
patterns and times of STIX objects; the matching of one text against one
pattern in `Detect`, and what stands inside a quoted literal of a CAR filter.  SQLite is taken at its word: a commit is atomic.
