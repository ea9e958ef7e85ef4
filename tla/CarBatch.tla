------------------------------ MODULE CarBatch ------------------------------
(***************************************************************************)
(* The life of one source's output directory under `python -m byakugan`:   *)
(* byakugan/pipeline.py (run_batch, process_file), byakugan/store.py,      *)
(* byakugan/superset.py, byakugan/derive.py (derive, run) and the file     *)
(* steps of byakugan/stix.py (export).                                     *)
(*                                                                         *)
(* A command runs alone and sequentially, so the state is one program      *)
(* counter and the files it leaves on disk.  Every step that commits a     *)
(* SQLite transaction, removes a database, or writes a text file is an     *)
(* action.  Between any two of them the step may raise (batch isolation    *)
(* catches an Exception), raise SystemExit (nothing catches it) or the     *)
(* process may be killed; what is on disk then is what a later command     *)
(* finds.                                                                  *)
(*                                                                         *)
(* Data abstraction.  A Row <<s, n>> stands for every event that parsing   *)
(* version n of source s yields.  A table that is INSERTed into is the     *)
(* sequence of the batches of rows committed to it, so that rows entered   *)
(* twice are seen; a table written by INSERT OR REPLACE / OR IGNORE on a   *)
(* unique key is a set.  A JSONL export is what the tables held when it    *)
(* was written.                                                            *)
(***************************************************************************)
EXTENDS Naturals, Sequences, FiniteSets

CONSTANTS
  Sources,      \* the sources discover_sources finds, in every order below
  Order,        \* a sequence: the order discover_sources lists them in
  Kind,         \* [Sources -> word]: windows_logs, zeek, l2t, zimmerman, memory
  Path,         \* [Sources -> Seq(Seq(word))]: the directory below the kind's
                \*   root: a sequence of names, a name being a sequence of the
                \*   words that "_" separates in it
  Objects,      \* CAR object tables
  PopulatedBy,  \* [Sources -> [1..MaxVersion -> SUBSET Objects]]: tables that
                \*   version n of source s fills
  MaxVersion,   \* bound: how often the upstream evidence of a source changes
  MaxCommands,  \* bound: commands an operator runs
  MaxFaults,    \* bound: exceptions, SystemExits and kills, in total
  Absent,       \* no such file
  Torn          \* a text file whose writer died half way

Versions == 1 .. MaxVersion
Row == Sources \X Versions

ASSUME BatchAssumption ==
  /\ MaxVersion \in Nat \ {0} /\ MaxCommands \in Nat /\ MaxFaults \in Nat
  /\ Order \in Seq(Sources)
  /\ \A s \in Sources : \E i \in DOMAIN Order : Order[i] = s
  /\ PopulatedBy \in [Sources -> [Versions -> SUBSET Objects]]
  /\ Absent \notin Seq(Row)

VARIABLES
  input,    \* [Sources -> Versions]: what the processed tree holds now
  disk,     \* [Dirs -> OutDir]: the output directories
  pc,       \* the next step of the running command, or how the last one ended
  job,      \* "batch", "derive" or "stix": the command
  opts,     \* the batch's flags
  todo,     \* sources run_batch has still to visit
  cur,      \* the source being built (or re-derived)
  mem,      \* the events in memory: rows, in order
  left,     \* tables export_jsonl has still to write
  result,   \* [Sources -> Outcome]: run_batch's result list
  commands, faults

vars == << input, disk, pc, job, opts, todo, cur, mem, left, result,
           commands, faults >>

-----------------------------------------------------------------------------
(* Names.  discover_sources names a source "<kind>_<directory>"; only      *)
(* windows_logs directories are nested, and there the separator of the     *)
(* relative path is replaced by "_" (rel.replace(os.sep, "_")).            *)

JoinNames(path) ==          \* rel.replace(os.sep, "_"), as its words
  LET upto[i \in 0 .. Len(path)] ==
        IF i = 0 THEN << >> ELSE upto[i - 1] \o path[i]
  IN  upto[Len(path)]

DirOfUnprefixed(s) == JoinNames(Path[s])    \* mutant: the kind is left out
DirOf(s) == << Kind[s] >> \o JoinNames(Path[s])
Dirs == { DirOf(s) : s \in Sources }

Words(rows) == { rows[i] : i \in DOMAIN rows }       \* the rows of a sequence
Populated(rows) == UNION { PopulatedBy[r[1]][r[2]] : r \in Words(rows) }

-----------------------------------------------------------------------------
(* What an output directory holds.                                         *)

NoDerived == [ edges |-> << >>, nodes |-> {}, content |-> {}, refs |-> {} ]
DerivedLayer == [ edges : Seq(Row), nodes : SUBSET Row,
                  content : SUBSET Row, refs : SUBSET Row ]

Relationships == [ declared : Seq(Row), derived : Seq(Row) ]
Bundle == [ events : Seq(Row), declared : Seq(Row), derived : Seq(Row),
            nodes : SUBSET Row ]

OutDir ==
  [ car      : Seq(Row) \cup {Absent},                       \* car.db
    jsonl    : [Objects -> Seq(Row) \cup {Absent, Torn}],    \* car_<object>.jsonl
    sources  : Seq(Row) \cup {Absent, Torn},                 \* sources.yaml
    superset : BOOLEAN,                                      \* superset.db exists
    model    : BOOLEAN,                                      \* ... and is seeded
    declared : Seq(Row),                                     \* ... class declared
    derived  : DerivedLayer,                                 \* ... class derived
    rels     : Relationships \cup {Absent, Torn},            \* car_relationships.jsonl
    inferred : (SUBSET Row) \cup {Absent, Torn},             \* car_inferred.jsonl
    bundle   : Bundle \cup {Absent, Torn} ]                  \* stix_bundle.json

EmptyDir ==
  [ car |-> Absent, jsonl |-> [o \in Objects |-> Absent], sources |-> Absent,
    superset |-> FALSE, model |-> FALSE, declared |-> << >>,
    derived |-> NoDerived, rels |-> Absent, inferred |-> Absent,
    bundle |-> Absent ]

AtRest == { "idle", "returned", "aborted", "killed" }
ParseSteps == { "parse", "remove", "create", "insert", "jsonl" }
SupersetSteps == { "unlink", "schema", "seed", "declare", "rels" }
DeriveSteps == { "clear", "edges", "nodes", "content", "refs", "rels2", "inferred" }
BuildSteps == ParseSteps \cup SupersetSteps \cup DeriveSteps \cup {"stix"}
Outcome == { "none", "skipped", "error", "built" }

TypeOK ==
  /\ input \in [Sources -> Versions]
  /\ disk \in [Dirs -> OutDir]
  /\ pc \in AtRest \cup {"next"} \cup BuildSteps
  /\ job \in {"batch", "derive", "stix"}
  /\ opts \in [force : BOOLEAN, derive : BOOLEAN, stix : BOOLEAN]
  /\ todo \in Seq(Sources)
  /\ cur \in Sources
  /\ mem \in Seq(Row)
  /\ left \in SUBSET Objects
  /\ result \in [Sources -> Outcome]
  /\ commands \in Nat /\ faults \in Nat

Init ==
  /\ input = [s \in Sources |-> 1]
  /\ disk = [d \in Dirs |-> EmptyDir]
  /\ pc = "idle" /\ job = "batch"
  /\ opts = [force |-> FALSE, derive |-> FALSE, stix |-> FALSE]
  /\ todo = << >> /\ cur \in Sources /\ mem = << >> /\ left = {}
  /\ result = [s \in Sources |-> "none"]
  /\ commands = 0 /\ faults = 0

Dst == DirOf(cur)
Here == disk[Dst]

Goto(step) == pc' = step
Keep == UNCHANGED << input, commands, faults >>
Write(dir) == disk' = [disk EXCEPT ![Dst] = dir]

-----------------------------------------------------------------------------
(* The operator's commands, and the tree they read.                        *)

\* Evidence is re-processed upstream: the source's files change.
Reprocess(s) ==
  /\ input[s] < MaxVersion
  /\ input' = [input EXCEPT ![s] = @ + 1]
  /\ UNCHANGED << disk, pc, job, opts, todo, cur, mem, left, result, commands, faults >>

Start(command) ==
  /\ pc \in AtRest /\ commands < MaxCommands
  /\ commands' = commands + 1
  /\ job' = command
  /\ result' = [s \in Sources |-> "none"]
  /\ left' = {}
  /\ UNCHANGED << input, faults >>

\* --batch DIR [--force] [--derive] [--stix]
StartBatch(o) ==
  /\ Start("batch")
  /\ opts' = o /\ todo' = Order /\ Goto("next")
  /\ UNCHANGED << disk, cur, mem >>

\* python -m byakugan.derive DIR: load car.db, open (or create) superset.db.
StartDerive(s) ==
  /\ Start("derive")
  /\ disk[DirOf(s)].car # Absent
  /\ cur' = s /\ mem' = disk[DirOf(s)].car
  /\ disk' = [disk EXCEPT ![DirOf(s)].superset = TRUE]
  /\ Goto("clear")
  /\ UNCHANGED << opts, todo >>

\* python -m byakugan.stix export DIR
StartStix(s) ==
  /\ Start("stix")
  /\ disk[DirOf(s)].car # Absent
  /\ cur' = s /\ Goto("stix")
  /\ UNCHANGED << disk, opts, todo, mem >>

-----------------------------------------------------------------------------
(* run_batch: the loop over the sources.                                   *)

Upcoming == Head(todo)

MustBuildUnseeded(s) ==       \* mutant: the wrong file is looked for
  opts.force \/ ~disk[DirOf(s)].superset

MustBuild(s) == opts.force \/ disk[DirOf(s)].car = Absent

SkipUnlisted ==                \* mutant: an outcome no reader of the results knows
  /\ pc = "next" /\ todo # << >> /\ ~MustBuild(Upcoming)
  /\ result' = [result EXCEPT ![Upcoming] = "exists"]
  /\ todo' = Tail(todo)
  /\ Keep /\ UNCHANGED << disk, pc, job, opts, cur, mem, left >>

Skip ==
  /\ pc = "next" /\ todo # << >> /\ ~MustBuild(Upcoming)
  /\ result' = [result EXCEPT ![Upcoming] = "skipped"]
  /\ todo' = Tail(todo)
  /\ Keep /\ UNCHANGED << disk, pc, job, opts, cur, mem, left >>

BeginBuild ==
  /\ pc = "next" /\ todo # << >> /\ MustBuild(Upcoming)
  /\ cur' = Upcoming /\ todo' = Tail(todo) /\ mem' = << >>
  /\ Goto("parse")
  /\ Keep /\ UNCHANGED << disk, job, opts, left, result >>

ReturnBatch ==
  /\ pc = "next" /\ todo = << >>
  /\ Goto("returned")
  /\ Keep /\ UNCHANGED << disk, job, opts, todo, cur, mem, left, result >>

-----------------------------------------------------------------------------
(* process_file, one action per step.                                      *)

LoopVars == << job, opts, todo, cur, result >>

\* Every file of the source is parsed and the events enriched, in memory.
Parse ==
  /\ pc = "parse" /\ Goto("remove")
  /\ mem' = << << cur, input[cur] >> >>
  /\ Keep /\ UNCHANGED << disk, left, LoopVars >>

RemoveCarDropped ==                        \* mutant: the old car.db is kept
  /\ pc = "remove" /\ Goto("create")
  /\ Keep /\ UNCHANGED << disk, mem, left, LoopVars >>

RemoveCar ==
  /\ pc = "remove" /\ Goto("create")
  /\ Write([Here EXCEPT !.car = Absent])
  /\ Keep /\ UNCHANGED << mem, left, LoopVars >>

\* CarStore(): CREATE TABLE IF NOT EXISTS, so rows already there would stay.
CreateCar ==
  /\ pc = "create" /\ Goto("insert")
  /\ Write([Here EXCEPT !.car = IF @ = Absent THEN << >> ELSE @])
  /\ Keep /\ UNCHANGED << mem, left, LoopVars >>

InsertEvents ==                            \* one transaction for all events
  /\ pc = "insert" /\ Goto("jsonl")
  /\ Write([Here EXCEPT !.car = @ \o mem])
  /\ left' = Populated(Here.car \o mem)
  /\ Keep /\ UNCHANGED << mem, LoopVars >>

\* export_jsonl writes one file per populated table; other files stay.
ExportObject(o) ==
  /\ pc = "jsonl" /\ o \in left
  /\ Write([Here EXCEPT !.jsonl[o] = Here.car])
  /\ left' = left \ {o}
  /\ Keep /\ UNCHANGED << pc, mem, LoopVars >>

WriteManifests ==
  /\ pc = "jsonl" /\ left = {} /\ Goto("unlink")
  /\ Write([Here EXCEPT !.sources = mem])
  /\ Keep /\ UNCHANGED << mem, left, LoopVars >>

-----------------------------------------------------------------------------
(* build_superset_db                                                       *)

RemoveSupersetKeepsDerived ==    \* mutant: the old derived layer survives
  /\ pc = "unlink" /\ Goto("schema")
  /\ Write([Here EXCEPT !.superset = FALSE, !.model = FALSE, !.declared = << >>])
  /\ Keep /\ UNCHANGED << mem, left, LoopVars >>

RemoveSuperset ==
  /\ pc = "unlink" /\ Goto("schema")
  /\ Write([Here EXCEPT !.superset = FALSE, !.model = FALSE,
                        !.declared = << >>, !.derived = NoDerived])
  /\ Keep /\ UNCHANGED << mem, left, LoopVars >>

CreateSuperset ==
  /\ pc = "schema" /\ Goto("seed")
  /\ Write([Here EXCEPT !.superset = TRUE])
  /\ Keep /\ UNCHANGED << mem, left, LoopVars >>

SeedModel ==
  /\ pc = "seed" /\ Goto("declare")
  /\ Write([Here EXCEPT !.model = TRUE])
  /\ Keep /\ UNCHANGED << mem, left, LoopVars >>

InsertDeclared ==
  /\ pc = "declare" /\ Goto("rels")
  /\ Write([Here EXCEPT !.declared = @ \o mem])
  /\ Keep /\ UNCHANGED << mem, left, LoopVars >>

\* What follows once a source's store is built: the next optional stage, the
\* next source of the batch, or the end of a single-store command.
Continue(step) ==
  IF job = "batch" /\ step = "derive" /\ opts.derive
  THEN Goto("clear") /\ UNCHANGED result
  ELSE IF job = "batch" /\ opts.stix /\ step # "done"
  THEN Goto("stix") /\ UNCHANGED result
  ELSE IF job = "batch"
  THEN Goto("next") /\ result' = [result EXCEPT ![cur] = "built"]
  ELSE Goto("returned") /\ UNCHANGED result

RelationshipRows == [ declared |-> Here.declared, derived |-> Here.derived.edges ]

ExportRelationships ==
  /\ pc = "rels" /\ Continue("derive")
  /\ Write([Here EXCEPT !.rels = RelationshipRows])
  /\ Keep /\ UNCHANGED << job, opts, todo, cur, mem, left >>

-----------------------------------------------------------------------------
(* derive: one commit per step, so the layer is replaced table by table.   *)

ClearDerivedDropped ==                    \* mutant: the old layer is not cleared
  /\ pc = "clear" /\ Goto("edges")
  /\ Keep /\ UNCHANGED << disk, mem, left, LoopVars >>

ClearDerived ==
  /\ pc = "clear" /\ Goto("edges")
  /\ Write([Here EXCEPT !.derived = NoDerived])
  /\ Keep /\ UNCHANGED << mem, left, LoopVars >>

InsertDerivedEdges ==
  /\ pc = "edges" /\ Goto("nodes")
  /\ Write([Here EXCEPT !.derived.edges = @ \o mem])
  /\ Keep /\ UNCHANGED << mem, left, LoopVars >>

InsertInferredNodes ==
  /\ pc = "nodes" /\ Goto("content")
  /\ Write([Here EXCEPT !.derived.nodes = @ \cup Words(mem)])
  /\ Keep /\ UNCHANGED << mem, left, LoopVars >>

InsertContentNodes ==
  /\ pc = "content" /\ Goto("refs")
  /\ Write([Here EXCEPT !.derived.content = @ \cup Words(mem)])
  /\ Keep /\ UNCHANGED << mem, left, LoopVars >>

InsertEntityRefs ==
  /\ pc = "refs" /\ Goto("rels2")
  /\ Write([Here EXCEPT !.derived.refs = @ \cup Words(mem)])
  /\ Keep /\ UNCHANGED << mem, left, LoopVars >>

Reexport ==
  /\ pc = "rels2" /\ Goto("inferred")
  /\ Write([Here EXCEPT !.rels = RelationshipRows])
  /\ Keep /\ UNCHANGED << mem, left, LoopVars >>

ExportInferred ==
  /\ pc = "inferred" /\ Continue("stix")
  /\ Write([Here EXCEPT !.inferred = Here.derived.nodes])
  /\ Keep /\ UNCHANGED << job, opts, todo, cur, mem, left >>

\* stix.export reads both stores back; without a superset.db it projects none.
StixExport ==
  /\ pc = "stix" /\ Continue("done")
  /\ Write([Here EXCEPT !.bundle =
             [ events |-> Here.car, declared |-> Here.declared,
               derived |-> Here.derived.edges, nodes |-> Here.derived.nodes ]])
  /\ Keep /\ UNCHANGED << job, opts, todo, cur, mem, left >>

-----------------------------------------------------------------------------
(* Faults.  A step that is cut short leaves the directory as it was (the   *)
(* transaction rolls back) or its text file torn.  CREATE TABLE commits on *)
(* its own: a store whose schema is cut short is already a file.           *)

CutShort ==
  {Here} \cup
  ( IF pc = "jsonl" /\ left # {}
       THEN { [Here EXCEPT !.jsonl[o] = Torn] : o \in left }
    ELSE IF pc = "create"            THEN { [Here EXCEPT !.car      = << >>] }
    ELSE IF pc = "schema"            THEN { [Here EXCEPT !.superset = TRUE] }
    ELSE IF pc = "jsonl"             THEN { [Here EXCEPT !.sources  = Torn] }
    ELSE IF pc \in {"rels", "rels2"} THEN { [Here EXCEPT !.rels     = Torn] }
    ELSE IF pc = "inferred"          THEN { [Here EXCEPT !.inferred = Torn] }
    ELSE IF pc = "stix"              THEN { [Here EXCEPT !.bundle   = Torn] }
    ELSE {} )

Fault == faults < MaxFaults /\ faults' = faults + 1
          /\ UNCHANGED << input, commands, job, opts, cur, mem >>

RaiseStops ==                      \* mutant: an Exception ends the batch
  /\ pc \in BuildSteps /\ Fault
  /\ \E dir \in CutShort : Write(dir)
  /\ IF job = "batch"
     THEN Goto("next") /\ result' = [result EXCEPT ![cur] = "error"] /\ todo' = << >>
     ELSE Goto("aborted") /\ UNCHANGED << result, todo >>
  /\ left' = {}

\* An Exception: the batch notes it and goes on; a single command ends.
Raise ==
  /\ pc \in BuildSteps /\ Fault
  /\ \E dir \in CutShort : Write(dir)
  /\ IF job = "batch"
     THEN Goto("next") /\ result' = [result EXCEPT ![cur] = "error"]
     ELSE Goto("aborted") /\ UNCHANGED result
  /\ left' = {} /\ UNCHANGED todo

\* SystemExit, which `except Exception` does not catch: no parse engine for a
\* source that is not a finished memory CAR; no car submodule when CarStore
\* loads the model; no attack-datasources submodule when the model is seeded.
Abort ==
  /\ \/ pc = "parse" /\ Kind[cur] # "memory"
     \/ pc \in {"create", "seed"}
  /\ Fault /\ Goto("aborted")
  /\ left' = {} /\ UNCHANGED << disk, todo, result >>

Kill ==
  /\ pc \notin AtRest /\ Fault /\ Goto("killed")
  /\ IF pc = "next" THEN UNCHANGED disk ELSE \E dir \in CutShort : Write(dir)
  /\ left' = {} /\ UNCHANGED << todo, result >>

-----------------------------------------------------------------------------
BuildStep ==
  \/ Parse \/ RemoveCar \/ CreateCar \/ InsertEvents
  \/ \E o \in Objects : ExportObject(o)
  \/ WriteManifests
  \/ RemoveSuperset \/ CreateSuperset \/ SeedModel \/ InsertDeclared
  \/ ExportRelationships
  \/ ClearDerived \/ InsertDerivedEdges \/ InsertInferredNodes
  \/ InsertContentNodes \/ InsertEntityRefs \/ Reexport \/ ExportInferred
  \/ StixExport

Step == Skip \/ BeginBuild \/ ReturnBatch \/ BuildStep

Command ==
  \/ \E o \in [force : BOOLEAN, derive : BOOLEAN, stix : BOOLEAN] : StartBatch(o)
  \/ \E s \in Sources : StartDerive(s) \/ StartStix(s)

Next ==
  \/ Step
  \/ Command
  \/ \E s \in Sources : Reprocess(s)
  \/ Raise \/ Abort \/ Kill

Spec == Init /\ [][Next]_vars

\* A command that has started runs on by itself; nobody has to start one.
FairSpec == Spec /\ WF_vars(Step)

-----------------------------------------------------------------------------
(* Properties.                                                             *)

HasRows(d) == disk[d].car \notin {Absent, << >>}
CarRows(d) == IF HasRows(d) THEN Words(disk[d].car) ELSE {}

\* The isolation rule (docs/CAR-Pipeline.md, section 2: "nothing is mixed"):
\* whatever was killed, retried or forced, both stores in the directory of a
\* source hold that source's evidence and no other's.
OwnEvidenceOnly ==
  \A s \in Sources : LET dir == disk[DirOf(s)] IN
    \A r \in CarRows(DirOf(s)) \cup Words(dir.declared) \cup Words(dir.derived.edges)
             \cup dir.derived.nodes \cup dir.derived.content \cup dir.derived.refs :
      r[1] = s

\* Rebuilding and re-deriving replace, they never add to what a cut-short
\* command left behind: no table holds the same evidence twice.
NoDoubleRows ==
  \A d \in Dirs :
    /\ disk[d].car # Absent => Len(disk[d].car) <= 1
    /\ Len(disk[d].declared) <= 1
    /\ Len(disk[d].derived.edges) <= 1

\* A source the batch reports as built has every output the flags asked for,
\* and all of them describe the one parse of it -- even if the evidence changed
\* during the batch and earlier commands died in this directory.
Coherent(dir, s, v) ==
  LET one == << << s, v >> >> IN
  /\ dir.car = one /\ dir.sources = one /\ dir.model /\ dir.declared = one
  /\ \A o \in PopulatedBy[s][v] : dir.jsonl[o] = one
  /\ dir.rels = [ declared |-> one, derived |-> dir.derived.edges ]
  /\ dir.derived = IF opts.derive
                   THEN [ edges |-> one, nodes |-> Words(one),
                          content |-> Words(one), refs |-> Words(one) ]
                   ELSE NoDerived
  /\ opts.derive => dir.inferred = dir.derived.nodes
  /\ opts.stix => dir.bundle = [ events |-> one, declared |-> one,
                       derived |-> dir.derived.edges, nodes |-> dir.derived.nodes ]

BuiltIsCoherent ==
  \A s \in Sources : result[s] = "built" => \E v \in Versions : Coherent(disk[DirOf(s)], s, v)

\* derive(): "Idempotent: a previous derived layer is cleared first".  A derive
\* command that returns leaves exactly one layer, over the rows of car.db, and
\* exports that layer, whatever layer (complete or cut short) was there before.
DeriveLeavesOneLayer ==
  job = "derive" /\ pc = "returned" =>
    LET dir == Here IN
    /\ dir.derived = [ edges |-> dir.car, nodes |-> Words(dir.car),
                       content |-> Words(dir.car), refs |-> Words(dir.car) ]
    /\ dir.rels = RelationshipRows
    /\ dir.inferred = dir.derived.nodes

\* Only a forced batch ever takes rows out of a car.db, or changes them.
OnlyForceReplacesRows ==
  [][\A d \in Dirs :
       HasRows(d) /\ ~(job = "batch" /\ opts.force) => disk'[d].car = disk[d].car]_vars

\* run_batch: "one failing source never stops the rest" -- a batch that is neither
\* killed nor ended by SystemExit gets to every source, however many raise.
BatchServesEverySource ==
  \A s \in Sources :
    (job = "batch" /\ pc = "next" /\ result[s] = "none")
      ~> (result[s] # "none" \/ pc \in {"aborted", "killed"})

(* The strengthening the proofs need (CarBatchProofs): what each step of    *)
(* the running command may rely on.                                        *)

StoreSteps == BuildSteps \ { "parse", "remove", "create" }

\* car.db is there from the insert on, and it is the insert that fills it.
StoreIsOpen ==
  /\ pc \in StoreSteps => Here.car # Absent
  /\ pc = "create" => Here.car = Absent
  /\ pc = "insert" => Here.car = << >>
  /\ pc \in {"schema", "seed", "declare"} => Here.declared = << >>
  /\ pc = "edges" => Here.derived.edges = << >>
  /\ Len(mem) <= 1

\* An unforced batch builds only where it found no car.db.
UnforcedBuildsAbsent ==
  pc \in {"parse", "remove", "create"} /\ ~opts.force => Here.car = Absent

\* Only a batch goes through the build's own steps.
OnlyBatchBuilds ==
  pc \in ParseSteps \cup SupersetSteps \cup {"next"} => job = "batch"

(* What the documentation says of a batch, and the code does not keep.     *)

Answered(s) == job = "batch" /\ pc = "returned" /\ result[s] \in {"built", "skipped"}

\* README.md: "Each evidence source becomes two self-contained SQLite stores".
TwoStores ==
  \A s \in Sources : Answered(s) =>
    LET dir == disk[DirOf(s)] IN
      HasRows(DirOf(s)) /\ dir.superset /\ dir.model /\ dir.declared = dir.car

=============================================================================
