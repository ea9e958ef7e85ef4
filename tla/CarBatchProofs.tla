--------------------------- MODULE CarBatchProofs ---------------------------
(***************************************************************************)
(* Proofs about CarBatch for every set of sources, every number of         *)
(* versions, commands and faults.                                          *)
(*                                                                         *)
(* The inductive invariant is TypeOK with StoreIsOpen and NoDoubleRows:    *)
(* types alone are not inductive, because what a step appends to or        *)
(* exports has the right type only when the table it reads is there, and   *)
(* the program counter is the only witness of that; and a table stays free *)
(* of doubled rows because the pc tells that it was emptied since.         *)
(***************************************************************************)
EXTENDS CarBatch, SequenceTheorems, TLAPS

IInv == TypeOK /\ StoreIsOpen /\ NoDoubleRows

LEMMA HereType ==
  ASSUME TypeOK
  PROVE  Dst \in Dirs /\ Here \in OutDir
  BY DEF TypeOK, Here, Dst, Dirs

\* The cleared derived layer, and the empty table.
LEMMA NoDerivedType ==
  /\ NoDerived \in DerivedLayer /\ NoDerived.edges = << >>
  /\ << >> \in Seq(Row) /\ Len(<< >>) = 0
  BY DEF NoDerived, DerivedLayer

\* What a step must show of the directory it writes.
Sound(dir) ==
  /\ dir \in OutDir
  /\ dir.car # Absent => Len(dir.car) <= 1
  /\ Len(dir.declared) <= 1
  /\ Len(dir.derived.edges) <= 1

LEMMA HereSound ==
  ASSUME IInv
  PROVE  Dst \in Dirs /\ Sound(Here)
  BY HereType DEF IInv, NoDoubleRows, Sound, Here

\* A step writes one directory and leaves every other one alone.
LEMMA WriteInv ==
  ASSUME IInv, NEW dir, Sound(dir), Write(dir), UNCHANGED cur
  PROVE  /\ disk' \in [Dirs -> OutDir]
         /\ NoDoubleRows'
         /\ Here' = dir
<1>1. Dst \in Dirs /\ disk \in [Dirs -> OutDir]
  BY HereType DEF IInv, TypeOK
<1>2. disk' = [disk EXCEPT ![Dst] = dir]
  BY DEF Write
<1>3. Dst' = Dst
  BY DEF Dst
<1>. QED  BY <1>1, <1>2, <1>3 DEF Sound, IInv, NoDoubleRows, Here

\* The rows of a sequence of rows are rows.
LEMMA WordsType ==
  ASSUME NEW rows \in Seq(Row)
  PROVE  Words(rows) \in SUBSET Row
  BY DEF Words

LEMMA PopulatedType ==
  ASSUME NEW rows \in Seq(Row)
  PROVE  Populated(rows) \in SUBSET Objects
<1>1. \A r \in Words(rows) : r[1] \in Sources /\ r[2] \in Versions
  BY WordsType DEF Row
<1>2. \A r \in Words(rows) : PopulatedBy[r[1]][r[2]] \in SUBSET Objects
  BY <1>1, BatchAssumption
<1>. QED  BY <1>2 DEF Populated

-----------------------------------------------------------------------------
(* The inductive invariant, action by action.                              *)

LEMMA InitInv == Init => IInv
<1>. SUFFICES ASSUME Init PROVE IInv
  OBVIOUS
<1>1. EmptyDir \in OutDir
  BY DEF EmptyDir, OutDir, NoDerived, DerivedLayer
<1>2. TypeOK
  BY <1>1, BatchAssumption DEF Init, TypeOK, Versions, AtRest, Outcome
<1>3. StoreIsOpen
  BY DEF Init, StoreIsOpen, StoreSteps, BuildSteps, ParseSteps, SupersetSteps, DeriveSteps
<1>4. NoDoubleRows
  BY DEF Init, NoDoubleRows, EmptyDir, NoDerived
<1>. QED  BY <1>2, <1>3, <1>4 DEF IInv

LEMMA ReprocessInv ==
  ASSUME IInv, NEW s \in Sources, Reprocess(s)
  PROVE  IInv'
<1>1. input' \in [Sources -> Versions]
  BY BatchAssumption DEF IInv, TypeOK, Reprocess, Versions
<1>. QED  BY <1>1 DEF IInv, TypeOK, StoreIsOpen, NoDoubleRows, Reprocess, Here, Dst

LEMMA StartBatchInv ==
  ASSUME IInv, NEW o \in [force : BOOLEAN, derive : BOOLEAN, stix : BOOLEAN],
         StartBatch(o)
  PROVE  IInv'
<1>1. TypeOK'
  BY BatchAssumption DEF IInv, TypeOK, StartBatch, Start, Goto, Outcome
<1>2. StoreIsOpen'
  BY DEF IInv, StoreIsOpen, StartBatch, Start, Goto,
         StoreSteps, BuildSteps, ParseSteps, SupersetSteps, DeriveSteps
<1>3. NoDoubleRows'
  BY DEF IInv, NoDoubleRows, StartBatch
<1>. QED  BY <1>1, <1>2, <1>3 DEF IInv
LEMMA StartDeriveInv ==
  ASSUME IInv, NEW s \in Sources, StartDerive(s)
  PROVE  IInv'
<1>. DEFINE d == DirOf(s)
<1>1. d \in Dirs /\ disk[d] \in OutDir
  BY DEF IInv, TypeOK, Dirs
<1>2. disk'[d] = [disk[d] EXCEPT !.superset = TRUE]
  BY <1>1 DEF IInv, TypeOK, StartDerive
<1>3. disk'[d] \in OutDir /\ disk'[d].car = disk[d].car
      /\ disk'[d].declared = disk[d].declared /\ disk'[d].derived = disk[d].derived
  BY <1>1, <1>2 DEF OutDir
<1>4. disk' \in [Dirs -> OutDir]
  BY <1>1, <1>2, <1>3 DEF IInv, TypeOK, StartDerive
<1>5. mem' \in Seq(Row) /\ Len(mem') <= 1
  BY <1>1 DEF StartDerive, OutDir, IInv, NoDoubleRows
<1>6. TypeOK'
  BY <1>4, <1>5 DEF IInv, TypeOK, StartDerive, Start, Goto, BuildSteps, DeriveSteps, Outcome
<1>7. StoreIsOpen'
  BY <1>3, <1>5 DEF StartDerive, Goto, StoreIsOpen, Here, Dst
<1>8. NoDoubleRows'
  BY <1>1, <1>3 DEF StartDerive, IInv, TypeOK, NoDoubleRows
<1>. QED  BY <1>6, <1>7, <1>8 DEF IInv

LEMMA StartStixInv ==
  ASSUME IInv, NEW s \in Sources, StartStix(s)
  PROVE  IInv'
<1>1. TypeOK'
  BY DEF IInv, TypeOK, StartStix, Start, Goto, BuildSteps, Outcome
<1>2. StoreIsOpen'
  BY DEF IInv, StartStix, Goto, StoreIsOpen, Here, Dst
<1>3. NoDoubleRows'
  BY DEF IInv, NoDoubleRows, StartStix
<1>. QED  BY <1>1, <1>2, <1>3 DEF IInv

LEMMA LoopInv ==
  ASSUME IInv, Skip \/ BeginBuild \/ ReturnBatch
  PROVE  IInv'
<1>1. pc = "next" /\ disk' = disk
  BY DEF Skip, BeginBuild, ReturnBatch
<1>2. todo # << >> => Upcoming \in Sources /\ Tail(todo) \in Seq(Sources)
  BY DEF IInv, TypeOK, Upcoming
<1>3. TypeOK'
  <2>1. CASE Skip
    BY <1>2, <2>1 DEF IInv, TypeOK, Skip, Keep, Outcome
  <2>2. CASE BeginBuild
    BY <1>2, <2>2 DEF IInv, TypeOK, BeginBuild, Goto, Keep, BuildSteps, ParseSteps
  <2>3. CASE ReturnBatch
    BY <2>3 DEF IInv, TypeOK, ReturnBatch, Goto, Keep, AtRest
  <2>. QED  BY <2>1, <2>2, <2>3
<1>4. pc' \in {"next", "parse", "returned"} /\ Len(mem') <= 1
  BY <1>1 DEF IInv, StoreIsOpen, Skip, BeginBuild, ReturnBatch, Goto
<1>5. StoreIsOpen'
  BY <1>4 DEF StoreIsOpen, StoreSteps, BuildSteps, ParseSteps, SupersetSteps, DeriveSteps
<1>6. NoDoubleRows'
  BY <1>1 DEF IInv, NoDoubleRows
<1>. QED  BY <1>3, <1>5, <1>6 DEF IInv

LEMMA ParseInv ==
  ASSUME IInv, Parse
  PROVE  IInv'
<1>1. mem' \in Seq(Row) /\ Len(mem') = 1
  BY DEF IInv, TypeOK, Parse, Row
<1>2. TypeOK'
  BY <1>1 DEF IInv, TypeOK, Parse, Goto, Keep, LoopVars, BuildSteps, ParseSteps
<1>3. StoreIsOpen'
  BY <1>1 DEF Parse, Goto, StoreIsOpen, StoreSteps
<1>4. NoDoubleRows'
  BY DEF IInv, NoDoubleRows, Parse
<1>. QED  BY <1>2, <1>3, <1>4 DEF IInv

LEMMA RemoveCarInv ==
  ASSUME IInv, RemoveCar
  PROVE  IInv'
<1>. DEFINE dir == [Here EXCEPT !.car = Absent]
<1>1. Sound(Here) /\ mem \in Seq(Row) /\ Len(mem) <= 1
  BY HereSound DEF IInv, TypeOK, StoreIsOpen
<1>2. Sound(dir)
  BY <1>1 DEF Sound, OutDir, IInv, StoreIsOpen, StoreSteps, BuildSteps, ParseSteps, SupersetSteps, DeriveSteps, RemoveCar
<1>3. disk' \in [Dirs -> OutDir] /\ NoDoubleRows' /\ Here' = dir
  BY <1>2, WriteInv DEF RemoveCar, LoopVars
<1>4. TypeOK'
  BY <1>3 DEF IInv, TypeOK, RemoveCar, Goto, Keep, LoopVars, BuildSteps, ParseSteps, SupersetSteps, DeriveSteps
<1>5. StoreIsOpen'
  BY <1>1, <1>3 DEF Sound, OutDir, RemoveCar, Goto, IInv, StoreIsOpen, StoreSteps, BuildSteps, ParseSteps, SupersetSteps, DeriveSteps
<1>. QED  BY <1>3, <1>4, <1>5 DEF IInv

LEMMA CreateCarInv ==
  ASSUME IInv, CreateCar
  PROVE  IInv'
<1>. DEFINE dir == [Here EXCEPT !.car = IF @ = Absent THEN << >> ELSE @]
<1>1. Sound(Here) /\ mem \in Seq(Row) /\ Len(mem) <= 1
  BY HereSound DEF IInv, TypeOK, StoreIsOpen
<1>2. dir = [Here EXCEPT !.car = << >>] /\ << >> \in Seq(Row) /\ Len(<< >>) <= 1
  BY DEF IInv, StoreIsOpen, CreateCar
<1>3. Sound(dir)
  BY <1>1, <1>2 DEF Sound, OutDir, IInv, StoreIsOpen, StoreSteps, BuildSteps, ParseSteps, SupersetSteps, DeriveSteps, CreateCar
<1>4. disk' \in [Dirs -> OutDir] /\ NoDoubleRows' /\ Here' = dir
  BY <1>3, WriteInv DEF CreateCar, LoopVars
<1>5. TypeOK'
  BY <1>4 DEF IInv, TypeOK, CreateCar, Goto, Keep, LoopVars, BuildSteps, ParseSteps, SupersetSteps, DeriveSteps
<1>6. StoreIsOpen'
  BY <1>1, <1>2, <1>4, BatchAssumption DEF Sound, OutDir, CreateCar, Goto, IInv, StoreIsOpen, StoreSteps, BuildSteps, ParseSteps, SupersetSteps, DeriveSteps
<1>. QED  BY <1>4, <1>5, <1>6 DEF IInv

LEMMA InsertEventsInv ==
  ASSUME IInv, InsertEvents
  PROVE  IInv'
<1>. DEFINE dir == [Here EXCEPT !.car = @ \o mem]
<1>1. Sound(Here) /\ mem \in Seq(Row) /\ Len(mem) <= 1
  BY HereSound DEF IInv, TypeOK, StoreIsOpen
<1>2. Sound(dir)
  BY <1>1 DEF Sound, OutDir, IInv, StoreIsOpen, StoreSteps, BuildSteps, ParseSteps, SupersetSteps, DeriveSteps, InsertEvents
<1>3. disk' \in [Dirs -> OutDir] /\ NoDoubleRows' /\ Here' = dir
  BY <1>2, WriteInv DEF InsertEvents, LoopVars
<1>4. Here.car \o mem \in Seq(Row)
  BY <1>1 DEF IInv, StoreIsOpen, StoreSteps, Sound, OutDir, InsertEvents, BuildSteps, ParseSteps, SupersetSteps, DeriveSteps
<1>5. TypeOK'
  BY <1>3, <1>4, PopulatedType DEF IInv, TypeOK, InsertEvents, Goto, Keep, LoopVars, BuildSteps, ParseSteps, SupersetSteps, DeriveSteps
<1>6. StoreIsOpen'
  BY <1>1, <1>3, <1>4, BatchAssumption DEF Sound, OutDir, InsertEvents, Goto, IInv, StoreIsOpen, StoreSteps, BuildSteps, ParseSteps, SupersetSteps, DeriveSteps
<1>. QED  BY <1>3, <1>5, <1>6 DEF IInv

LEMMA ExportObjectInv ==
  ASSUME IInv, NEW o \in Objects, ExportObject(o)
  PROVE  IInv'
<1>. DEFINE dir == [Here EXCEPT !.jsonl[o] = Here.car]
<1>1. Sound(Here) /\ mem \in Seq(Row) /\ Len(mem) <= 1
  BY HereSound DEF IInv, TypeOK, StoreIsOpen
<1>2. Sound(dir)
  BY <1>1 DEF Sound, OutDir, IInv, StoreIsOpen, StoreSteps, BuildSteps, ParseSteps, SupersetSteps, DeriveSteps, ExportObject
<1>3. disk' \in [Dirs -> OutDir] /\ NoDoubleRows' /\ Here' = dir
  BY <1>2, WriteInv DEF ExportObject, LoopVars
<1>4. TypeOK'
  BY <1>3 DEF IInv, TypeOK, ExportObject, Goto, Keep, LoopVars, BuildSteps, ParseSteps, SupersetSteps, DeriveSteps
<1>5. StoreIsOpen'
  BY <1>1, <1>3 DEF Sound, OutDir, ExportObject, Goto, IInv, StoreIsOpen, StoreSteps, BuildSteps, ParseSteps, SupersetSteps, DeriveSteps
<1>. QED  BY <1>3, <1>4, <1>5 DEF IInv

LEMMA WriteManifestsInv ==
  ASSUME IInv, WriteManifests
  PROVE  IInv'
<1>. DEFINE dir == [Here EXCEPT !.sources = mem]
<1>1. Sound(Here) /\ mem \in Seq(Row) /\ Len(mem) <= 1
  BY HereSound DEF IInv, TypeOK, StoreIsOpen
<1>2. Sound(dir)
  BY <1>1 DEF Sound, OutDir, IInv, StoreIsOpen, StoreSteps, BuildSteps, ParseSteps, SupersetSteps, DeriveSteps, WriteManifests
<1>3. disk' \in [Dirs -> OutDir] /\ NoDoubleRows' /\ Here' = dir
  BY <1>2, WriteInv DEF WriteManifests, LoopVars
<1>4. TypeOK'
  BY <1>3 DEF IInv, TypeOK, WriteManifests, Goto, Keep, LoopVars, BuildSteps, ParseSteps, SupersetSteps, DeriveSteps
<1>5. StoreIsOpen'
  BY <1>1, <1>3 DEF Sound, OutDir, WriteManifests, Goto, IInv, StoreIsOpen, StoreSteps, BuildSteps, ParseSteps, SupersetSteps, DeriveSteps
<1>. QED  BY <1>3, <1>4, <1>5 DEF IInv

LEMMA RemoveSupersetInv ==
  ASSUME IInv, RemoveSuperset
  PROVE  IInv'
<1>. DEFINE dir == [Here EXCEPT !.superset = FALSE, !.model = FALSE,
                              !.declared = << >>, !.derived = NoDerived]
<1>1. Sound(Here) /\ mem \in Seq(Row) /\ Len(mem) <= 1
  BY HereSound DEF IInv, TypeOK, StoreIsOpen
<1>2. Sound(dir)
  <2>1. /\ dir.car = Here.car /\ dir.jsonl = Here.jsonl /\ dir.sources = Here.sources
        /\ dir.superset = FALSE /\ dir.model = FALSE
        /\ dir.declared = << >> /\ dir.derived = NoDerived
        /\ dir.rels = Here.rels /\ dir.inferred = Here.inferred /\ dir.bundle = Here.bundle
    BY <1>1 DEF Sound, OutDir
  <2>2. dir \in OutDir
    BY <1>1, NoDerivedType DEF Sound, OutDir
  <2>. QED  BY <1>1, <2>1, <2>2, NoDerivedType DEF Sound
<1>3. disk' \in [Dirs -> OutDir] /\ NoDoubleRows' /\ Here' = dir
  BY <1>2, WriteInv DEF RemoveSuperset, LoopVars
<1>4. TypeOK'
  BY <1>3 DEF IInv, TypeOK, RemoveSuperset, Goto, Keep, LoopVars, BuildSteps, ParseSteps, SupersetSteps, DeriveSteps
<1>5. StoreIsOpen'
  BY <1>1, <1>3, NoDerivedType DEF Sound, OutDir, RemoveSuperset, Goto, IInv, StoreIsOpen, StoreSteps, BuildSteps, ParseSteps, SupersetSteps, DeriveSteps
<1>. QED  BY <1>3, <1>4, <1>5 DEF IInv

LEMMA CreateSupersetInv ==
  ASSUME IInv, CreateSuperset
  PROVE  IInv'
<1>. DEFINE dir == [Here EXCEPT !.superset = TRUE]
<1>1. Sound(Here) /\ mem \in Seq(Row) /\ Len(mem) <= 1
  BY HereSound DEF IInv, TypeOK, StoreIsOpen
<1>2. Sound(dir)
  BY <1>1 DEF Sound, OutDir, IInv, StoreIsOpen, StoreSteps, BuildSteps, ParseSteps, SupersetSteps, DeriveSteps, CreateSuperset
<1>3. disk' \in [Dirs -> OutDir] /\ NoDoubleRows' /\ Here' = dir
  BY <1>2, WriteInv DEF CreateSuperset, LoopVars
<1>4. TypeOK'
  BY <1>3 DEF IInv, TypeOK, CreateSuperset, Goto, Keep, LoopVars, BuildSteps, ParseSteps, SupersetSteps, DeriveSteps
<1>5. StoreIsOpen'
  BY <1>1, <1>3 DEF Sound, OutDir, CreateSuperset, Goto, IInv, StoreIsOpen, StoreSteps, BuildSteps, ParseSteps, SupersetSteps, DeriveSteps
<1>. QED  BY <1>3, <1>4, <1>5 DEF IInv

LEMMA SeedModelInv ==
  ASSUME IInv, SeedModel
  PROVE  IInv'
<1>. DEFINE dir == [Here EXCEPT !.model = TRUE]
<1>1. Sound(Here) /\ mem \in Seq(Row) /\ Len(mem) <= 1
  BY HereSound DEF IInv, TypeOK, StoreIsOpen
<1>2. Sound(dir)
  BY <1>1 DEF Sound, OutDir, IInv, StoreIsOpen, StoreSteps, BuildSteps, ParseSteps, SupersetSteps, DeriveSteps, SeedModel
<1>3. disk' \in [Dirs -> OutDir] /\ NoDoubleRows' /\ Here' = dir
  BY <1>2, WriteInv DEF SeedModel, LoopVars
<1>4. TypeOK'
  BY <1>3 DEF IInv, TypeOK, SeedModel, Goto, Keep, LoopVars, BuildSteps, ParseSteps, SupersetSteps, DeriveSteps
<1>5. StoreIsOpen'
  BY <1>1, <1>3 DEF Sound, OutDir, SeedModel, Goto, IInv, StoreIsOpen, StoreSteps, BuildSteps, ParseSteps, SupersetSteps, DeriveSteps
<1>. QED  BY <1>3, <1>4, <1>5 DEF IInv

LEMMA InsertDeclaredInv ==
  ASSUME IInv, InsertDeclared
  PROVE  IInv'
<1>. DEFINE dir == [Here EXCEPT !.declared = @ \o mem]
<1>1. Sound(Here) /\ mem \in Seq(Row) /\ Len(mem) <= 1
  BY HereSound DEF IInv, TypeOK, StoreIsOpen
<1>2. Sound(dir)
  BY <1>1 DEF Sound, OutDir, IInv, StoreIsOpen, StoreSteps, BuildSteps, ParseSteps, SupersetSteps, DeriveSteps, InsertDeclared
<1>3. disk' \in [Dirs -> OutDir] /\ NoDoubleRows' /\ Here' = dir
  BY <1>2, WriteInv DEF InsertDeclared, LoopVars
<1>4. TypeOK'
  BY <1>3 DEF IInv, TypeOK, InsertDeclared, Goto, Keep, LoopVars, BuildSteps, ParseSteps, SupersetSteps, DeriveSteps
<1>5. StoreIsOpen'
  BY <1>1, <1>3 DEF Sound, OutDir, InsertDeclared, Goto, IInv, StoreIsOpen, StoreSteps, BuildSteps, ParseSteps, SupersetSteps, DeriveSteps
<1>. QED  BY <1>3, <1>4, <1>5 DEF IInv

LEMMA ExportRelationshipsInv ==
  ASSUME IInv, ExportRelationships
  PROVE  IInv'
<1>. DEFINE dir == [Here EXCEPT !.rels = RelationshipRows]
<1>1. Sound(Here) /\ mem \in Seq(Row) /\ Len(mem) <= 1
  BY HereSound DEF IInv, TypeOK, StoreIsOpen
<1>2. Sound(dir)
  BY <1>1 DEF Sound, OutDir, RelationshipRows, Relationships, DerivedLayer, IInv, StoreIsOpen, StoreSteps, BuildSteps, ParseSteps, SupersetSteps, DeriveSteps, ExportRelationships
<1>3. disk' \in [Dirs -> OutDir] /\ NoDoubleRows' /\ Here' = dir
  BY <1>2, WriteInv DEF ExportRelationships
<1>4. /\ pc' \in {"clear", "stix", "next", "returned"}
      /\ result' \in [Sources -> Outcome]
  BY DEF ExportRelationships, Continue, Goto, IInv, TypeOK, Outcome
<1>5. TypeOK'
  BY <1>3, <1>4 DEF IInv, TypeOK, ExportRelationships, Keep, AtRest, BuildSteps, ParseSteps, SupersetSteps, DeriveSteps
<1>6. StoreIsOpen'
  BY <1>1, <1>3, <1>4 DEF Sound, OutDir, ExportRelationships, IInv, StoreIsOpen, StoreSteps, BuildSteps, ParseSteps, SupersetSteps, DeriveSteps
<1>. QED  BY <1>3, <1>5, <1>6 DEF IInv

LEMMA ClearDerivedInv ==
  ASSUME IInv, ClearDerived
  PROVE  IInv'
<1>. DEFINE dir == [Here EXCEPT !.derived = NoDerived]
<1>1. Sound(Here) /\ mem \in Seq(Row) /\ Len(mem) <= 1
  BY HereSound DEF IInv, TypeOK, StoreIsOpen
<1>2. Sound(dir)
  BY <1>1, NoDerivedType DEF Sound, OutDir
<1>3. disk' \in [Dirs -> OutDir] /\ NoDoubleRows' /\ Here' = dir
  BY <1>2, WriteInv DEF ClearDerived, LoopVars
<1>4. TypeOK'
  BY <1>3 DEF IInv, TypeOK, ClearDerived, Goto, Keep, LoopVars, BuildSteps, ParseSteps, SupersetSteps, DeriveSteps
<1>5. StoreIsOpen'
  BY <1>1, <1>3, NoDerivedType DEF Sound, OutDir, ClearDerived, Goto, IInv, StoreIsOpen, StoreSteps, BuildSteps, ParseSteps, SupersetSteps, DeriveSteps
<1>. QED  BY <1>3, <1>4, <1>5 DEF IInv

LEMMA InsertDerivedEdgesInv ==
  ASSUME IInv, InsertDerivedEdges
  PROVE  IInv'
<1>. DEFINE dir == [Here EXCEPT !.derived.edges = @ \o mem]
<1>1. Sound(Here) /\ mem \in Seq(Row) /\ Len(mem) <= 1
  BY HereSound DEF IInv, TypeOK, StoreIsOpen
<1>2. Sound(dir)
  <2>1. Here.derived.edges = << >> /\ Here.derived \in DerivedLayer
    BY <1>1 DEF Sound, OutDir, IInv, StoreIsOpen, InsertDerivedEdges
  <2>2. << >> \o mem = mem
    BY <1>1
  <2>3. dir.derived = [Here.derived EXCEPT !.edges = mem]
    BY <1>1, <2>1, <2>2 DEF Sound, OutDir
  <2>4. dir.derived \in DerivedLayer /\ dir.derived.edges = mem
    BY <1>1, <2>1, <2>3 DEF DerivedLayer
  <2>. QED  BY <1>1, <2>4 DEF Sound, OutDir
<1>3. disk' \in [Dirs -> OutDir] /\ NoDoubleRows' /\ Here' = dir
  BY <1>2, WriteInv DEF InsertDerivedEdges, LoopVars
<1>4. TypeOK'
  BY <1>3 DEF IInv, TypeOK, InsertDerivedEdges, Goto, Keep, LoopVars, BuildSteps, ParseSteps, SupersetSteps, DeriveSteps
<1>5. StoreIsOpen'
  BY <1>1, <1>3 DEF Sound, OutDir, InsertDerivedEdges, Goto, IInv, StoreIsOpen, StoreSteps, BuildSteps, ParseSteps, SupersetSteps, DeriveSteps
<1>. QED  BY <1>3, <1>4, <1>5 DEF IInv

LEMMA InsertInferredNodesInv ==
  ASSUME IInv, InsertInferredNodes
  PROVE  IInv'
<1>. DEFINE dir == [Here EXCEPT !.derived.nodes = @ \cup Words(mem)]
<1>1. Sound(Here) /\ mem \in Seq(Row) /\ Len(mem) <= 1
  BY HereSound DEF IInv, TypeOK, StoreIsOpen
<1>2. Sound(dir)
  BY <1>1, WordsType DEF Sound, OutDir, DerivedLayer, IInv, StoreIsOpen, StoreSteps, BuildSteps, ParseSteps, SupersetSteps, DeriveSteps, InsertInferredNodes
<1>3. disk' \in [Dirs -> OutDir] /\ NoDoubleRows' /\ Here' = dir
  BY <1>2, WriteInv DEF InsertInferredNodes, LoopVars
<1>4. TypeOK'
  BY <1>3 DEF IInv, TypeOK, InsertInferredNodes, Goto, Keep, LoopVars, BuildSteps, ParseSteps, SupersetSteps, DeriveSteps
<1>5. StoreIsOpen'
  BY <1>1, <1>3 DEF Sound, OutDir, InsertInferredNodes, Goto, IInv, StoreIsOpen, StoreSteps, BuildSteps, ParseSteps, SupersetSteps, DeriveSteps
<1>. QED  BY <1>3, <1>4, <1>5 DEF IInv

LEMMA InsertContentNodesInv ==
  ASSUME IInv, InsertContentNodes
  PROVE  IInv'
<1>. DEFINE dir == [Here EXCEPT !.derived.content = @ \cup Words(mem)]
<1>1. Sound(Here) /\ mem \in Seq(Row) /\ Len(mem) <= 1
  BY HereSound DEF IInv, TypeOK, StoreIsOpen
<1>2. Sound(dir)
  BY <1>1, WordsType DEF Sound, OutDir, DerivedLayer, IInv, StoreIsOpen, StoreSteps, BuildSteps, ParseSteps, SupersetSteps, DeriveSteps, InsertContentNodes
<1>3. disk' \in [Dirs -> OutDir] /\ NoDoubleRows' /\ Here' = dir
  BY <1>2, WriteInv DEF InsertContentNodes, LoopVars
<1>4. TypeOK'
  BY <1>3 DEF IInv, TypeOK, InsertContentNodes, Goto, Keep, LoopVars, BuildSteps, ParseSteps, SupersetSteps, DeriveSteps
<1>5. StoreIsOpen'
  BY <1>1, <1>3 DEF Sound, OutDir, InsertContentNodes, Goto, IInv, StoreIsOpen, StoreSteps, BuildSteps, ParseSteps, SupersetSteps, DeriveSteps
<1>. QED  BY <1>3, <1>4, <1>5 DEF IInv

LEMMA InsertEntityRefsInv ==
  ASSUME IInv, InsertEntityRefs
  PROVE  IInv'
<1>. DEFINE dir == [Here EXCEPT !.derived.refs = @ \cup Words(mem)]
<1>1. Sound(Here) /\ mem \in Seq(Row) /\ Len(mem) <= 1
  BY HereSound DEF IInv, TypeOK, StoreIsOpen
<1>2. Sound(dir)
  BY <1>1, WordsType DEF Sound, OutDir, DerivedLayer, IInv, StoreIsOpen, StoreSteps, BuildSteps, ParseSteps, SupersetSteps, DeriveSteps, InsertEntityRefs
<1>3. disk' \in [Dirs -> OutDir] /\ NoDoubleRows' /\ Here' = dir
  BY <1>2, WriteInv DEF InsertEntityRefs, LoopVars
<1>4. TypeOK'
  BY <1>3 DEF IInv, TypeOK, InsertEntityRefs, Goto, Keep, LoopVars, BuildSteps, ParseSteps, SupersetSteps, DeriveSteps
<1>5. StoreIsOpen'
  BY <1>1, <1>3 DEF Sound, OutDir, InsertEntityRefs, Goto, IInv, StoreIsOpen, StoreSteps, BuildSteps, ParseSteps, SupersetSteps, DeriveSteps
<1>. QED  BY <1>3, <1>4, <1>5 DEF IInv

LEMMA ReexportInv ==
  ASSUME IInv, Reexport
  PROVE  IInv'
<1>. DEFINE dir == [Here EXCEPT !.rels = RelationshipRows]
<1>1. Sound(Here) /\ mem \in Seq(Row) /\ Len(mem) <= 1
  BY HereSound DEF IInv, TypeOK, StoreIsOpen
<1>2. Sound(dir)
  BY <1>1 DEF Sound, OutDir, RelationshipRows, Relationships, DerivedLayer, IInv, StoreIsOpen, StoreSteps, BuildSteps, ParseSteps, SupersetSteps, DeriveSteps, Reexport
<1>3. disk' \in [Dirs -> OutDir] /\ NoDoubleRows' /\ Here' = dir
  BY <1>2, WriteInv DEF Reexport, LoopVars
<1>4. TypeOK'
  BY <1>3 DEF IInv, TypeOK, Reexport, Goto, Keep, LoopVars, BuildSteps, ParseSteps, SupersetSteps, DeriveSteps
<1>5. StoreIsOpen'
  BY <1>1, <1>3 DEF Sound, OutDir, Reexport, Goto, IInv, StoreIsOpen, StoreSteps, BuildSteps, ParseSteps, SupersetSteps, DeriveSteps
<1>. QED  BY <1>3, <1>4, <1>5 DEF IInv

LEMMA ExportInferredInv ==
  ASSUME IInv, ExportInferred
  PROVE  IInv'
<1>. DEFINE dir == [Here EXCEPT !.inferred = Here.derived.nodes]
<1>1. Sound(Here) /\ mem \in Seq(Row) /\ Len(mem) <= 1
  BY HereSound DEF IInv, TypeOK, StoreIsOpen
<1>2. Sound(dir)
  BY <1>1 DEF Sound, OutDir, DerivedLayer, IInv, StoreIsOpen, StoreSteps, BuildSteps, ParseSteps, SupersetSteps, DeriveSteps, ExportInferred
<1>3. disk' \in [Dirs -> OutDir] /\ NoDoubleRows' /\ Here' = dir
  BY <1>2, WriteInv DEF ExportInferred
<1>4. /\ pc' \in {"stix", "next", "returned"}
      /\ result' \in [Sources -> Outcome]
  BY DEF ExportInferred, Continue, Goto, IInv, TypeOK, Outcome
<1>5. TypeOK'
  BY <1>3, <1>4 DEF IInv, TypeOK, ExportInferred, Keep, AtRest, BuildSteps, ParseSteps, SupersetSteps, DeriveSteps
<1>6. StoreIsOpen'
  BY <1>1, <1>3, <1>4 DEF Sound, OutDir, ExportInferred, IInv, StoreIsOpen, StoreSteps, BuildSteps, ParseSteps, SupersetSteps, DeriveSteps
<1>. QED  BY <1>3, <1>5, <1>6 DEF IInv

LEMMA StixExportInv ==
  ASSUME IInv, StixExport
  PROVE  IInv'
<1>. DEFINE dir == [Here EXCEPT !.bundle =
             [ events |-> Here.car, declared |-> Here.declared,
               derived |-> Here.derived.edges, nodes |-> Here.derived.nodes ]]
<1>1. Sound(Here) /\ mem \in Seq(Row) /\ Len(mem) <= 1
  BY HereSound DEF IInv, TypeOK, StoreIsOpen
<1>2. Sound(dir)
  BY <1>1 DEF Sound, OutDir, DerivedLayer, Bundle, IInv, StoreIsOpen, StoreSteps, BuildSteps, ParseSteps, SupersetSteps, DeriveSteps, StixExport
<1>3. disk' \in [Dirs -> OutDir] /\ NoDoubleRows' /\ Here' = dir
  BY <1>2, WriteInv DEF StixExport
<1>4. /\ pc' \in {"next", "returned"}
      /\ result' \in [Sources -> Outcome]
  BY DEF StixExport, Continue, Goto, IInv, TypeOK, Outcome
<1>5. TypeOK'
  BY <1>3, <1>4 DEF IInv, TypeOK, StixExport, Keep, AtRest, BuildSteps, ParseSteps, SupersetSteps, DeriveSteps
<1>6. StoreIsOpen'
  BY <1>1, <1>3, <1>4 DEF Sound, OutDir, StixExport, IInv, StoreIsOpen, StoreSteps, BuildSteps, ParseSteps, SupersetSteps, DeriveSteps
<1>. QED  BY <1>3, <1>5, <1>6 DEF IInv

-----------------------------------------------------------------------------
(* Faults.                                                                 *)

LEMMA CutShortSound ==
  ASSUME IInv, NEW dir \in CutShort
  PROVE  Sound(dir)
<1>1. Sound(Here)
  BY HereSound
<1>2. CASE dir = Here
  BY <1>1, <1>2
<1>3. CASE \E o \in left : dir = [Here EXCEPT !.jsonl[o] = Torn]
  <2>1. PICK o \in left : dir = [Here EXCEPT !.jsonl[o] = Torn]
    BY <1>3
  <2>2. Here.jsonl \in [Objects -> Seq(Row) \cup {Absent, Torn}]
    BY <1>1 DEF Sound, OutDir
  <2>3. [Here.jsonl EXCEPT ![o] = Torn] \in [Objects -> Seq(Row) \cup {Absent, Torn}]
    BY <2>2
  <2>4. dir = [Here EXCEPT !.jsonl = [Here.jsonl EXCEPT ![o] = Torn]]
    BY <2>1
  <2>. QED  BY <1>1, <2>3, <2>4 DEF Sound, OutDir
<1>4. CASE dir \in { [Here EXCEPT !.sources = Torn], [Here EXCEPT !.rels = Torn],
                     [Here EXCEPT !.inferred = Torn], [Here EXCEPT !.bundle = Torn] }
  BY <1>1, <1>4 DEF Sound, OutDir
<1>5. CASE dir \in { [Here EXCEPT !.car = << >>], [Here EXCEPT !.superset = TRUE] }
  <2>1. << >> \in Seq(Row) /\ Len(<< >>) = 0
    OBVIOUS
  <2>2. CASE dir = [Here EXCEPT !.car = << >>]
    <3>1. dir \in OutDir
      BY <1>1, <2>1, <2>2 DEF Sound, OutDir
    <3>2. dir.car = << >> /\ dir.declared = Here.declared /\ dir.derived = Here.derived
      BY <1>1, <2>2 DEF Sound, OutDir
    <3>. QED  BY <1>1, <2>1, <3>1, <3>2 DEF Sound
  <2>3. CASE dir = [Here EXCEPT !.superset = TRUE]
    BY <1>1, <2>3 DEF Sound, OutDir
  <2>. QED  BY <1>5, <2>2, <2>3
<1>6. CASE pc \in {"jsonl", "rels", "rels2", "inferred", "stix"}
  BY <1>2, <1>3, <1>4, <1>6 DEF CutShort
<1>7. CASE pc \in {"create", "schema"}
  <2>1. pc = "create" => CutShort = { Here, [Here EXCEPT !.car = << >>] }
    BY DEF CutShort
  <2>2. pc = "schema" => CutShort = { Here, [Here EXCEPT !.superset = TRUE] }
    BY DEF CutShort
  <2>. QED  BY <1>2, <1>5, <1>7, <2>1, <2>2
<1>. QED  BY <1>2, <1>6, <1>7 DEF CutShort

LEMMA RaiseInv ==
  ASSUME IInv, Raise
  PROVE  IInv'
<1>1. PICK dir \in CutShort : Write(dir)
  BY DEF Raise
<1>2. disk' \in [Dirs -> OutDir] /\ NoDoubleRows'
  BY <1>1, CutShortSound, WriteInv DEF Raise, Fault
<1>3. pc' \in {"next", "aborted"} /\ result' \in [Sources -> Outcome]
  BY DEF Raise, Goto, IInv, TypeOK, Outcome
<1>4. TypeOK'
  BY <1>2, <1>3, BatchAssumption DEF IInv, TypeOK, Raise, Fault, AtRest
<1>5. StoreIsOpen'
  BY <1>3 DEF IInv, StoreIsOpen, Raise, Fault, StoreSteps, BuildSteps,
              ParseSteps, SupersetSteps, DeriveSteps
<1>. QED  BY <1>2, <1>4, <1>5 DEF IInv

LEMMA AbortInv ==
  ASSUME IInv, Abort
  PROVE  IInv'
<1>1. TypeOK'
  BY BatchAssumption DEF IInv, TypeOK, Abort, Fault, Goto, AtRest
<1>2. StoreIsOpen'
  BY DEF IInv, StoreIsOpen, Abort, Fault, Goto, StoreSteps, BuildSteps,
         ParseSteps, SupersetSteps, DeriveSteps
<1>3. NoDoubleRows'
  BY DEF IInv, NoDoubleRows, Abort
<1>. QED  BY <1>1, <1>2, <1>3 DEF IInv

LEMMA KillInv ==
  ASSUME IInv, Kill
  PROVE  IInv'
<1>1. disk' \in [Dirs -> OutDir] /\ NoDoubleRows'
  <2>1. CASE UNCHANGED disk
    BY <2>1 DEF IInv, TypeOK, NoDoubleRows
  <2>2. CASE \E dir \in CutShort : Write(dir)
    BY <2>2, CutShortSound, WriteInv DEF Kill, Fault
  <2>. QED  BY <2>1, <2>2 DEF Kill
<1>2. TypeOK'
  BY <1>1, BatchAssumption DEF IInv, TypeOK, Kill, Fault, Goto, AtRest
<1>3. StoreIsOpen'
  BY DEF IInv, StoreIsOpen, Kill, Fault, Goto, StoreSteps, BuildSteps,
         ParseSteps, SupersetSteps, DeriveSteps
<1>. QED  BY <1>1, <1>2, <1>3 DEF IInv

-----------------------------------------------------------------------------
LEMMA NextInv == IInv /\ [Next]_vars => IInv'
<1>. SUFFICES ASSUME IInv, [Next]_vars PROVE IInv'
  OBVIOUS
<1>1. CASE UNCHANGED vars
  BY <1>1 DEF vars, IInv, TypeOK, StoreIsOpen, NoDoubleRows, Here, Dst
<1>2. CASE Command
  BY <1>2, StartBatchInv, StartDeriveInv, StartStixInv DEF Command
<1>3. CASE Step
  <2>1. CASE Skip \/ BeginBuild \/ ReturnBatch
    BY <2>1, LoopInv
  <2>2. CASE Parse \/ RemoveCar \/ CreateCar \/ InsertEvents
    BY <2>2, ParseInv, RemoveCarInv, CreateCarInv, InsertEventsInv
  <2>3. CASE (\E o \in Objects : ExportObject(o)) \/ WriteManifests
    BY <2>3, ExportObjectInv, WriteManifestsInv
  <2>4. CASE RemoveSuperset \/ CreateSuperset \/ SeedModel \/ InsertDeclared
    BY <2>4, RemoveSupersetInv, CreateSupersetInv, SeedModelInv, InsertDeclaredInv
  <2>5. CASE ClearDerived \/ InsertDerivedEdges \/ InsertInferredNodes
    BY <2>5, ClearDerivedInv, InsertDerivedEdgesInv, InsertInferredNodesInv
  <2>6. CASE InsertContentNodes \/ InsertEntityRefs \/ Reexport
    BY <2>6, InsertContentNodesInv, InsertEntityRefsInv, ReexportInv
  <2>7. CASE ExportRelationships \/ ExportInferred \/ StixExport
    BY <2>7, ExportRelationshipsInv, ExportInferredInv, StixExportInv
  <2>. QED  BY <1>3, <2>1, <2>2, <2>3, <2>4, <2>5, <2>6, <2>7 DEF Step, BuildStep
<1>4. CASE \E s \in Sources : Reprocess(s)
  BY <1>4, ReprocessInv
<1>5. CASE Raise \/ Abort \/ Kill
  BY <1>5, RaiseInv, AbortInv, KillInv
<1>. QED  BY <1>1, <1>2, <1>3, <1>4, <1>5 DEF Next

\* Every reachable state is well typed, and each step of a build finds the
\* tables it works on the way the steps before it left them.
THEOREM TypeCorrect == Spec => [](TypeOK /\ StoreIsOpen)
<1>1. IInv => TypeOK /\ StoreIsOpen
  BY DEF IInv
<1>. QED  BY <1>1, InitInv, NextInv, PTL DEF Spec

\* However many builds and derive passes were cut short and run again, no
\* table of either store holds the same evidence twice.
THEOREM NoDoubling == Spec => []NoDoubleRows
<1>1. IInv => NoDoubleRows
  BY DEF IInv
<1>. QED  BY <1>1, InitInv, NextInv, PTL DEF Spec
-----------------------------------------------------------------------------
(* Rows leave a car.db only in a forced batch.                             *)

\* The step that removes car.db, or fills it, runs only in a batch, and in an
\* unforced batch only over a directory that had none.
UInv == IInv /\ UnforcedBuildsAbsent /\ OnlyBatchBuilds

\* Every action but the three that begin a build leads away from its first
\* steps, or stays in them without bringing a car.db back.
LEMMA StepUInv ==
  ASSUME UInv, BuildStep
  PROVE  UnforcedBuildsAbsent' /\ OnlyBatchBuilds'
<1>. USE DEF UInv, UnforcedBuildsAbsent, OnlyBatchBuilds, ParseSteps, SupersetSteps
<1>1. CASE Parse
  BY <1>1 DEF Parse, Goto, Here, Dst, LoopVars
<1>2. CASE RemoveCar
  <2>1. Here'.car = Absent
    BY <1>2, HereSound, WriteInv DEF Sound, OutDir, RemoveCar, Write, Here, Dst, LoopVars, IInv, TypeOK
  <2>. QED  BY <1>2, <2>1 DEF RemoveCar, Goto, LoopVars
<1>3. CASE CreateCar \/ InsertEvents \/ (\E o \in Objects : ExportObject(o)) \/ WriteManifests
  BY <1>3 DEF CreateCar, InsertEvents, ExportObject, WriteManifests, Goto, LoopVars
<1>4. CASE RemoveSuperset \/ CreateSuperset \/ SeedModel \/ InsertDeclared
  BY <1>4 DEF RemoveSuperset, CreateSuperset, SeedModel, InsertDeclared, Goto, LoopVars
<1>5. CASE ExportRelationships \/ ExportInferred \/ StixExport
  BY <1>5 DEF ExportRelationships, ExportInferred, StixExport, Continue, Goto
<1>6. CASE ClearDerived \/ InsertDerivedEdges \/ InsertInferredNodes
  BY <1>6 DEF ClearDerived, InsertDerivedEdges, InsertInferredNodes, Goto, LoopVars
<1>7. CASE InsertContentNodes \/ InsertEntityRefs \/ Reexport
  BY <1>7 DEF InsertContentNodes, InsertEntityRefs, Reexport, Goto, LoopVars
<1>. QED  BY <1>1, <1>2, <1>3, <1>4, <1>5, <1>6, <1>7 DEF BuildStep

LEMMA NextUInv == UInv /\ [Next]_vars => UInv'
<1>. SUFFICES ASSUME UInv, [Next]_vars PROVE UnforcedBuildsAbsent' /\ OnlyBatchBuilds'
  BY NextInv DEF UInv
<1>. USE DEF UnforcedBuildsAbsent, OnlyBatchBuilds, ParseSteps, SupersetSteps
<1>1. CASE UNCHANGED vars
  BY <1>1 DEF UInv, vars, Here, Dst
<1>2. CASE Command
  BY <1>2 DEF Command, StartBatch, StartDerive, StartStix, Start, Goto
<1>3. CASE Skip \/ ReturnBatch
  BY <1>3 DEF UInv, Skip, ReturnBatch, Goto
<1>4. CASE BeginBuild
  BY <1>4 DEF UInv, BeginBuild, MustBuild, Goto, Here, Dst
<1>5. CASE BuildStep
  BY <1>5, StepUInv
<1>6. CASE \E s \in Sources : Reprocess(s)
  BY <1>6 DEF UInv, Reprocess, Here, Dst
<1>7. CASE Raise \/ Abort \/ Kill
  BY <1>7 DEF UInv, Raise, Abort, Kill, Fault, Goto, AtRest
<1>. QED  BY <1>1, <1>2, <1>3, <1>4, <1>5, <1>6, <1>7 DEF Next, Step

\* A directory other than the one a step works in keeps its car.db, and so does
\* that one unless the step is one of the three that replace it.
LEMMA CarKept ==
  ASSUME UInv, Next, NEW d \in Dirs, HasRows(d), ~(job = "batch" /\ opts.force)
  PROVE  disk'[d].car = disk[d].car
<1>1. disk \in [Dirs -> OutDir] /\ Dst \in Dirs
  BY HereType DEF UInv, IInv, TypeOK
<1>2. ASSUME NEW dir, Write(dir), dir.car = Here.car PROVE disk'[d].car = disk[d].car
  BY <1>1, <1>2 DEF Write, Here
<1>3. ASSUME NEW dir, Write(dir), d # Dst PROVE disk'[d].car = disk[d].car
  BY <1>1, <1>3 DEF Write
<1>4. CASE RemoveCar \/ CreateCar \/ InsertEvents
  <2>1. Here.car \in {Absent, << >>}
    BY <1>4 DEF UInv, UnforcedBuildsAbsent, OnlyBatchBuilds, ParseSteps, IInv, StoreIsOpen,
                RemoveCar, CreateCar, InsertEvents
  <2>2. d # Dst
    BY <2>1 DEF HasRows, Here
  <2>. QED  BY <1>3, <1>4, <2>2 DEF RemoveCar, CreateCar, InsertEvents
<1>5. CASE Parse \/ Skip \/ BeginBuild \/ ReturnBatch \/ Abort
  BY <1>5 DEF Parse, Skip, BeginBuild, ReturnBatch, Abort
<1>6. CASE Raise \/ Kill
  <2>1. CASE pc # "create"
    <3>1. ASSUME NEW dir \in CutShort PROVE dir.car = Here.car
      BY <1>1, <2>1, <3>1 DEF CutShort, Here, OutDir
    <3>. QED  BY <1>2, <1>6, <3>1 DEF Raise, Kill
  <2>2. CASE pc = "create"
    <3>1. Here.car = Absent
      BY <2>2 DEF UInv, IInv, StoreIsOpen
    <3>2. d # Dst
      BY <3>1 DEF HasRows, Here
    <3>. QED  BY <1>3, <1>6, <3>2 DEF Raise, Kill
  <2>. QED  BY <2>1, <2>2
<1>7. CASE Command
  <2>1. CASE \E s \in Sources : StartDerive(s)
    BY <1>1, <2>1 DEF StartDerive, Dirs
  <2>. QED  BY <1>7, <2>1 DEF Command, StartBatch, StartStix
<1>8. CASE \E s \in Sources : Reprocess(s)
  BY <1>8 DEF Reprocess
<1>9. Here \in OutDir
  BY HereType DEF UInv, IInv
<1>10. CASE (\E o \in Objects : ExportObject(o)) \/ WriteManifests
  BY <1>2, <1>9, <1>10 DEF ExportObject, WriteManifests, OutDir
<1>11. CASE RemoveSuperset \/ CreateSuperset \/ SeedModel \/ InsertDeclared
  BY <1>2, <1>9, <1>11 DEF RemoveSuperset, CreateSuperset, SeedModel, InsertDeclared, OutDir
<1>12. CASE ExportRelationships \/ ExportInferred \/ StixExport \/ Reexport
  BY <1>2, <1>9, <1>12 DEF ExportRelationships, ExportInferred, StixExport, Reexport, OutDir
<1>13. CASE ClearDerived \/ InsertDerivedEdges \/ InsertInferredNodes
            \/ InsertContentNodes \/ InsertEntityRefs
  BY <1>2, <1>9, <1>13 DEF ClearDerived, InsertDerivedEdges, InsertInferredNodes,
     InsertContentNodes, InsertEntityRefs, OutDir
<1>. QED
  BY <1>4, <1>5, <1>6, <1>7, <1>8, <1>10, <1>11, <1>12, <1>13
  DEF Next, Step, BuildStep

\* Rows of a car.db disappear or change only while a forced batch runs: an
\* unforced batch, a derive or a STIX export never touches evidence that is
\* there, in any order and after any crash.
THEOREM RowsKept == Spec => OnlyForceReplacesRows
<1>1. Init => UInv
  BY InitInv DEF Init, UInv, UnforcedBuildsAbsent, OnlyBatchBuilds, ParseSteps, SupersetSteps
<1>2. UInv /\ [Next]_vars =>
        [\A d \in Dirs :
           HasRows(d) /\ ~(job = "batch" /\ opts.force) => disk'[d].car = disk[d].car]_vars
  BY CarKept
<1>. QED  BY <1>1, <1>2, NextUInv, PTL DEF Spec, OnlyForceReplacesRows

-----------------------------------------------------------------------------
(* Evidence stays in the directory of its source.                          *)

\* Every row an output directory holds, in whatever table of either store.
RowsIn(dir) ==
  (IF dir.car = Absent THEN {} ELSE Words(dir.car))
  \cup Words(dir.declared) \cup Words(dir.derived.edges)
  \cup dir.derived.nodes \cup dir.derived.content \cup dir.derived.refs

\* A row lies below its own source's name, and so do the rows in memory while a
\* step may still write them.
RowsStayHome ==
  /\ \A d \in Dirs : \A r \in RowsIn(disk[d]) : DirOf(r[1]) = d
  /\ pc \in BuildSteps \ {"parse", "stix"} => \A r \in Words(mem) : DirOf(r[1]) = Dst

HInv == IInv /\ RowsStayHome

\* Two tables in a row hold the rows of the one and the rows of the other.
LEMMA WordsConcat ==
  ASSUME NEW a \in Seq(Row), NEW b \in Seq(Row)
  PROVE  Words(a \o b) = Words(a) \cup Words(b)
<1>1. a \o b \in Seq(Row) /\ Len(a \o b) = Len(a) + Len(b)
  BY ConcatProperties
<1>2. \A i \in 1 .. Len(a) : (a \o b)[i] = a[i]
  BY ConcatProperties
<1>3. \A i \in 1 .. Len(b) : (a \o b)[Len(a) + i] = b[i] /\ Len(a) + i \in 1 .. Len(a) + Len(b)
  BY ConcatProperties
<1>4. Words(a \o b) \subseteq Words(a) \cup Words(b)
  BY <1>1, ConcatProperties DEF Words
<1>5. DOMAIN a = 1 .. Len(a) /\ DOMAIN b = 1 .. Len(b)
      /\ DOMAIN (a \o b) = 1 .. Len(a) + Len(b) /\ Len(a) \in Nat /\ Len(b) \in Nat
  BY <1>1
<1>6. Words(a) \subseteq Words(a \o b)
  BY <1>2, <1>5 DEF Words
<1>7. Words(b) \subseteq Words(a \o b)
  BY <1>3, <1>5 DEF Words
<1>. QED  BY <1>4, <1>6, <1>7

LEMMA NoWords == Words(<< >>) = {}
  BY DEF Words

\* A directory written with rows it held already, or with rows in memory,
\* holds no row of another name.
LEMMA WriteHome ==
  ASSUME HInv, NEW dir, Write(dir), UNCHANGED cur,
         RowsIn(dir) \subseteq RowsIn(Here)
           \/ /\ pc \in BuildSteps \ {"parse", "stix"}
              /\ RowsIn(dir) \subseteq RowsIn(Here) \cup Words(mem)
  PROVE  \A d \in Dirs : \A r \in RowsIn(disk'[d]) : DirOf(r[1]) = d
<1>1. Dst \in Dirs /\ disk \in [Dirs -> OutDir]
  BY HereType DEF HInv, IInv, TypeOK
<1>2. \A d \in Dirs : disk'[d] = IF d = Dst THEN dir ELSE disk[d]
  BY <1>1 DEF Write
<1>3. \A r \in RowsIn(dir) : DirOf(r[1]) = Dst
  BY <1>1 DEF HInv, RowsStayHome, Here
<1>. QED  BY <1>2, <1>3 DEF HInv, RowsStayHome

\* The rows of the tables a step leaves as they are.
LEMMA SameRows ==
  ASSUME NEW a, NEW b, a.car = b.car, a.declared = b.declared, a.derived = b.derived
  PROVE  RowsIn(a) = RowsIn(b)
  BY DEF RowsIn

LEMMA CutShortHome ==
  ASSUME IInv, NEW dir \in CutShort
  PROVE  RowsIn(dir) = RowsIn(Here)
<1>1. Here \in OutDir
  BY HereType DEF IInv
<1>2. CASE pc # "create"
  <2>1. dir.car = Here.car /\ dir.declared = Here.declared /\ dir.derived = Here.derived
    BY <1>1, <1>2 DEF CutShort, OutDir
  <2>. QED  BY <2>1, SameRows
<1>3. CASE pc = "create"
  <2>1. Here.car = Absent /\ CutShort = {Here, [Here EXCEPT !.car = << >>]}
    BY <1>3 DEF IInv, StoreIsOpen, CutShort
  <2>2. CASE dir = Here
    BY <2>2
  <2>3. CASE dir = [Here EXCEPT !.car = << >>]
    <3>1. dir.car = << >> /\ dir.declared = Here.declared /\ dir.derived = Here.derived
      BY <1>1, <2>3 DEF OutDir
    <3>. QED  BY <2>1, <3>1, NoWords DEF RowsIn
  <2>. QED  BY <2>1, <2>2, <2>3
<1>. QED  BY <1>2, <1>3

\* The steps of a build write rows they found or rows in memory, and keep to
\* one directory.
LEMMA BuildHome ==
  ASSUME HInv, BuildStep
  PROVE  RowsStayHome'
<1>1. Here \in OutDir /\ mem \in Seq(Row) /\ pc \in BuildSteps
  BY HereType DEF HInv, IInv, TypeOK, BuildStep, Parse, RemoveCar, CreateCar, InsertEvents,
     ExportObject, WriteManifests, RemoveSuperset, CreateSuperset, SeedModel, InsertDeclared,
     ExportRelationships, ClearDerived, InsertDerivedEdges, InsertInferredNodes,
     InsertContentNodes, InsertEntityRefs, Reexport, ExportInferred, StixExport,
     BuildSteps, ParseSteps, SupersetSteps, DeriveSteps
<1>2. UNCHANGED cur
  BY DEF BuildStep, Parse, RemoveCar, CreateCar, InsertEvents,
     ExportObject, WriteManifests, RemoveSuperset, CreateSuperset, SeedModel, InsertDeclared,
     ExportRelationships, ClearDerived, InsertDerivedEdges, InsertInferredNodes,
     InsertContentNodes, InsertEntityRefs, Reexport, ExportInferred, StixExport, LoopVars
<1>3. CASE Parse
  <2>1. mem' = << <<cur, input[cur]>> >> /\ disk' = disk /\ Dst' = Dst
    BY <1>2, <1>3 DEF Parse, Dst
  <2>2. \A r \in Words(mem') : DirOf(r[1]) = Dst'
    BY <2>1 DEF Words, Dst
  <2>. QED  BY <2>1, <2>2 DEF HInv, RowsStayHome
<1>4. ASSUME ~Parse
      PROVE  pc \in BuildSteps \ {"parse"} /\ mem' = mem
  BY <1>1, <1>4 DEF BuildStep, RemoveCar, CreateCar, InsertEvents,
     ExportObject, WriteManifests, RemoveSuperset, CreateSuperset, SeedModel, InsertDeclared,
     ExportRelationships, ClearDerived, InsertDerivedEdges, InsertInferredNodes,
     InsertContentNodes, InsertEntityRefs, Reexport, ExportInferred, StixExport
<1>5. ASSUME NEW dir, Write(dir), ~Parse,
             \/ RowsIn(dir) \subseteq RowsIn(Here)
             \/ pc # "stix" /\ RowsIn(dir) \subseteq RowsIn(Here) \cup Words(mem)
      PROVE  RowsStayHome'
  <2>1. \A d \in Dirs : \A r \in RowsIn(disk'[d]) : DirOf(r[1]) = d
    BY <1>2, <1>4, <1>5, WriteHome
  <2>2. mem' = mem /\ Dst' = Dst /\ pc \in BuildSteps \ {"parse"}
    BY <1>2, <1>4, <1>5 DEF Dst
  <2>3. pc = "stix" => pc' \notin BuildSteps
    BY <1>5, <1>1 DEF BuildStep, Parse, RemoveCar, CreateCar, InsertEvents,
     ExportObject, WriteManifests, RemoveSuperset, CreateSuperset, SeedModel, InsertDeclared,
     ExportRelationships, ClearDerived, InsertDerivedEdges, InsertInferredNodes,
     InsertContentNodes, InsertEntityRefs, Reexport, ExportInferred, StixExport, Continue, Goto,
     BuildSteps, ParseSteps, SupersetSteps, DeriveSteps
  <2>. QED  BY <2>1, <2>2, <2>3 DEF HInv, RowsStayHome
<1>6. CASE RemoveCar \/ CreateCar \/ InsertEvents
  <2>1. CASE RemoveCar
    <3>. DEFINE dir == [Here EXCEPT !.car = Absent]
    <3>1. dir.car = Absent /\ dir.declared = Here.declared /\ dir.derived = Here.derived
      BY <1>1 DEF OutDir
    <3>2. RowsIn(dir) \subseteq RowsIn(Here)
      BY <3>1 DEF RowsIn
    <3>. QED  BY <1>5, <2>1, <3>2 DEF RemoveCar, Parse
  <2>2. CASE CreateCar
    <3>. DEFINE dir == [Here EXCEPT !.car = IF @ = Absent THEN << >> ELSE @]
    <3>1. Here.car = Absent /\ dir.car = << >>
          /\ dir.declared = Here.declared /\ dir.derived = Here.derived
      BY <1>1, <2>2 DEF OutDir, CreateCar, HInv, IInv, StoreIsOpen
    <3>2. RowsIn(dir) \subseteq RowsIn(Here)
      BY <3>1, NoWords DEF RowsIn
    <3>. QED  BY <1>5, <2>2, <3>2 DEF CreateCar, Parse
  <2>3. CASE InsertEvents
    <3>. DEFINE dir == [Here EXCEPT !.car = @ \o mem]
    <3>1. Here.car = << >> /\ << >> \o mem = mem
      BY <1>1, <2>3 DEF InsertEvents, HInv, IInv, StoreIsOpen
    <3>2. dir.car = mem /\ dir.declared = Here.declared /\ dir.derived = Here.derived
      BY <1>1, <3>1 DEF OutDir
    <3>3. RowsIn(dir) \subseteq RowsIn(Here) \cup Words(mem)
      BY <3>2 DEF RowsIn
    <3>. QED  BY <1>5, <2>3, <3>3 DEF InsertEvents, Parse
  <2>. QED  BY <1>6, <2>1, <2>2, <2>3
<1>7. CASE (\E o \in Objects : ExportObject(o)) \/ WriteManifests \/ CreateSuperset \/ SeedModel
           \/ ExportRelationships \/ Reexport \/ ExportInferred \/ StixExport
  <2>. DEFINE Keeps(dir) == /\ dir.car = Here.car /\ dir.declared = Here.declared
                            /\ dir.derived = Here.derived
  <2>1. PICK dir : Write(dir) /\ Keeps(dir)
    <3>1. CASE \E o \in Objects : ExportObject(o)
      <4>1. PICK o \in Objects : ExportObject(o)
        BY <3>1
      <4>2. Write([Here EXCEPT !.jsonl[o] = Here.car]) /\ Keeps([Here EXCEPT !.jsonl[o] = Here.car])
        BY <1>1, <4>1 DEF ExportObject, OutDir
      <4>. QED  BY <4>2
    <3>2. CASE WriteManifests
      <4>. DEFINE dir == [Here EXCEPT !.sources = mem]
      <4>1. Write(dir) /\ Keeps(dir)
        BY <1>1, <3>2 DEF WriteManifests, OutDir
      <4>. QED  BY <4>1
    <3>3. CASE CreateSuperset
      <4>. DEFINE dir == [Here EXCEPT !.superset = TRUE]
      <4>1. Write(dir) /\ Keeps(dir)
        BY <1>1, <3>3 DEF CreateSuperset, OutDir
      <4>. QED  BY <4>1
    <3>4. CASE SeedModel
      <4>. DEFINE dir == [Here EXCEPT !.model = TRUE]
      <4>1. Write(dir) /\ Keeps(dir)
        BY <1>1, <3>4 DEF SeedModel, OutDir
      <4>. QED  BY <4>1
    <3>5. CASE ExportRelationships \/ Reexport
      <4>. DEFINE dir == [Here EXCEPT !.rels = RelationshipRows]
      <4>1. Write(dir) /\ Keeps(dir)
        BY <1>1, <3>5 DEF ExportRelationships, Reexport, OutDir
      <4>. QED  BY <4>1
    <3>6. CASE ExportInferred
      <4>. DEFINE dir == [Here EXCEPT !.inferred = Here.derived.nodes]
      <4>1. Write(dir) /\ Keeps(dir)
        BY <1>1, <3>6 DEF ExportInferred, OutDir
      <4>. QED  BY <4>1
    <3>7. CASE StixExport
      <4>. DEFINE dir == [Here EXCEPT !.bundle =
                   [ events |-> Here.car, declared |-> Here.declared,
                     derived |-> Here.derived.edges, nodes |-> Here.derived.nodes ]]
      <4>1. Write(dir) /\ Keeps(dir)
        BY <1>1, <3>7 DEF StixExport, OutDir
      <4>. QED  BY <4>1
    <3>. QED  BY <1>7, <3>1, <3>2, <3>3, <3>4, <3>5, <3>6, <3>7
  <2>2. RowsIn(dir) = RowsIn(Here)
    BY <2>1, SameRows
  <2>3. ~Parse
    BY <1>7 DEF ExportObject, WriteManifests, CreateSuperset, SeedModel, ExportRelationships,
                Reexport, ExportInferred, StixExport, Parse
  <2>. QED  BY <1>5, <2>1, <2>2, <2>3
<1>8. CASE RemoveSuperset \/ ClearDerived \/ InsertDeclared
  <2>1. CASE RemoveSuperset
    <3>. DEFINE dir == [Here EXCEPT !.superset = FALSE, !.model = FALSE,
                                    !.declared = << >>, !.derived = NoDerived]
    <3>1. dir.car = Here.car /\ dir.declared = << >> /\ dir.derived = NoDerived
      BY <1>1 DEF OutDir
    <3>2. RowsIn(dir) \subseteq RowsIn(Here)
      BY <3>1, NoWords DEF RowsIn, NoDerived
    <3>. QED  BY <1>5, <2>1, <3>2 DEF RemoveSuperset, Parse
  <2>2. CASE ClearDerived
    <3>. DEFINE dir == [Here EXCEPT !.derived = NoDerived]
    <3>1. dir.car = Here.car /\ dir.declared = Here.declared /\ dir.derived = NoDerived
      BY <1>1 DEF OutDir
    <3>2. RowsIn(dir) \subseteq RowsIn(Here)
      BY <3>1, NoWords DEF RowsIn, NoDerived
    <3>. QED  BY <1>5, <2>2, <3>2 DEF ClearDerived, Parse
  <2>3. CASE InsertDeclared
    <3>. DEFINE dir == [Here EXCEPT !.declared = @ \o mem]
    <3>1. Here.declared = << >> /\ << >> \o mem = mem
      BY <1>1, <2>3 DEF InsertDeclared, HInv, IInv, StoreIsOpen
    <3>2. dir.car = Here.car /\ dir.declared = mem /\ dir.derived = Here.derived
      BY <1>1, <3>1 DEF OutDir
    <3>3. RowsIn(dir) \subseteq RowsIn(Here) \cup Words(mem)
      BY <3>2 DEF RowsIn
    <3>. QED  BY <1>5, <2>3, <3>3 DEF InsertDeclared, Parse
  <2>. QED  BY <1>8, <2>1, <2>2, <2>3
<1>9. CASE InsertDerivedEdges \/ InsertInferredNodes \/ InsertContentNodes \/ InsertEntityRefs
  <2>1. Here.derived \in DerivedLayer
    BY <1>1 DEF OutDir
  <2>2. PICK layer : /\ Write([Here EXCEPT !.derived = layer])
                     /\ Words(layer.edges) \cup layer.nodes \cup layer.content \cup layer.refs
                        \subseteq Words(Here.derived.edges) \cup Here.derived.nodes
                          \cup Here.derived.content \cup Here.derived.refs \cup Words(mem)
    <3>1. CASE InsertDerivedEdges
      <4>1. Here.derived.edges \o mem = mem
        BY <1>1, <3>1 DEF InsertDerivedEdges, HInv, IInv, StoreIsOpen
      <4>2. Write([Here EXCEPT !.derived = [Here.derived EXCEPT !.edges = mem]])
        BY <1>1, <3>1, <4>1 DEF InsertDerivedEdges, OutDir
      <4>. DEFINE new == [Here.derived EXCEPT !.edges = mem]
      <4>3. Words(new.edges) \cup new.nodes \cup new.content \cup new.refs
              \subseteq Words(Here.derived.edges) \cup Here.derived.nodes
                \cup Here.derived.content \cup Here.derived.refs \cup Words(mem)
        BY <2>1 DEF DerivedLayer
      <4>. QED  BY <4>2, <4>3
    <3>2. CASE InsertInferredNodes
      <4>1. Write([Here EXCEPT !.derived = [Here.derived EXCEPT !.nodes = @ \cup Words(mem)]])
        BY <1>1, <3>2 DEF InsertInferredNodes, OutDir
      <4>. DEFINE new == [Here.derived EXCEPT !.nodes = @ \cup Words(mem)]
      <4>3. Words(new.edges) \cup new.nodes \cup new.content \cup new.refs
              \subseteq Words(Here.derived.edges) \cup Here.derived.nodes
                \cup Here.derived.content \cup Here.derived.refs \cup Words(mem)
        BY <2>1 DEF DerivedLayer
      <4>. QED  BY <4>1, <4>3
    <3>3. CASE InsertContentNodes
      <4>1. Write([Here EXCEPT !.derived = [Here.derived EXCEPT !.content = @ \cup Words(mem)]])
        BY <1>1, <3>3 DEF InsertContentNodes, OutDir
      <4>. DEFINE new == [Here.derived EXCEPT !.content = @ \cup Words(mem)]
      <4>3. Words(new.edges) \cup new.nodes \cup new.content \cup new.refs
              \subseteq Words(Here.derived.edges) \cup Here.derived.nodes
                \cup Here.derived.content \cup Here.derived.refs \cup Words(mem)
        BY <2>1 DEF DerivedLayer
      <4>. QED  BY <4>1, <4>3
    <3>4. CASE InsertEntityRefs
      <4>1. Write([Here EXCEPT !.derived = [Here.derived EXCEPT !.refs = @ \cup Words(mem)]])
        BY <1>1, <3>4 DEF InsertEntityRefs, OutDir
      <4>. DEFINE new == [Here.derived EXCEPT !.refs = @ \cup Words(mem)]
      <4>3. Words(new.edges) \cup new.nodes \cup new.content \cup new.refs
              \subseteq Words(Here.derived.edges) \cup Here.derived.nodes
                \cup Here.derived.content \cup Here.derived.refs \cup Words(mem)
        BY <2>1 DEF DerivedLayer
      <4>. QED  BY <4>1, <4>3
    <3>. QED  BY <1>9, <3>1, <3>2, <3>3, <3>4
  <2>. DEFINE dir == [Here EXCEPT !.derived = layer]
  <2>3. dir.car = Here.car /\ dir.declared = Here.declared /\ dir.derived = layer
    BY <1>1 DEF OutDir
  <2>4. RowsIn(dir) \subseteq RowsIn(Here) \cup Words(mem)
    BY <2>2, <2>3 DEF RowsIn
  <2>5. ~Parse /\ pc # "stix"
    BY <1>9 DEF InsertDerivedEdges, InsertInferredNodes, InsertContentNodes, InsertEntityRefs, Parse
  <2>. QED  BY <1>5, <2>2, <2>4, <2>5
<1>. QED  BY <1>3, <1>6, <1>7, <1>8, <1>9 DEF BuildStep

LEMMA NextHome == HInv /\ [Next]_vars => HInv'
<1>. SUFFICES ASSUME HInv, [Next]_vars PROVE RowsStayHome'
  BY NextInv DEF HInv
<1>. USE DEF HInv, RowsStayHome
<1>1. CASE UNCHANGED vars
  BY <1>1 DEF vars, Dst
<1>2. CASE BuildStep
  BY <1>2, BuildHome
<1>3. CASE Skip \/ BeginBuild \/ ReturnBatch
  <2>1. disk' = disk /\ pc' \in {"next", "parse", "returned"}
    BY <1>3 DEF Skip, BeginBuild, ReturnBatch, Goto
  <2>. QED  BY <2>1 DEF BuildSteps, ParseSteps, SupersetSteps, DeriveSteps
<1>4. CASE \E o \in [force : BOOLEAN, derive : BOOLEAN, stix : BOOLEAN] : StartBatch(o)
  BY <1>4 DEF StartBatch, Goto, BuildSteps, ParseSteps, SupersetSteps, DeriveSteps
<1>5. CASE \E s \in Sources : StartStix(s)
  BY <1>5 DEF StartStix, Goto
<1>6. CASE \E s \in Sources : StartDerive(s)
  <2>1. PICK s \in Sources : StartDerive(s)
    BY <1>6
  <2>. DEFINE d == DirOf(s)
  <2>2. d \in Dirs /\ disk \in [Dirs -> OutDir] /\ disk[d] \in OutDir
    BY DEF IInv, TypeOK, Dirs
  <2>3. disk' = [disk EXCEPT ![d].superset = TRUE] /\ mem' = disk[d].car /\ Dst' = d
        /\ disk[d].car # Absent
    BY <2>1 DEF StartDerive, Dst
  <2>4. disk'[d].car = disk[d].car /\ disk'[d].declared = disk[d].declared
        /\ disk'[d].derived = disk[d].derived
    BY <2>2, <2>3 DEF OutDir
  <2>5. RowsIn(disk'[d]) = RowsIn(disk[d])
    BY <2>4, SameRows
  <2>6. \A e \in Dirs : RowsIn(disk'[e]) = RowsIn(disk[e])
    BY <2>2, <2>3, <2>5
  <2>7. Words(mem') \subseteq RowsIn(disk[d])
    BY <2>3 DEF RowsIn
  <2>. QED  BY <2>2, <2>3, <2>6, <2>7
<1>7. CASE \E s \in Sources : Reprocess(s)
  BY <1>7 DEF Reprocess, Dst
<1>8. CASE Raise \/ Abort \/ Kill
  <2>1. pc' \notin BuildSteps
    BY <1>8 DEF Raise, Abort, Kill, Goto, BuildSteps, ParseSteps, SupersetSteps, DeriveSteps
  <2>2. CASE UNCHANGED disk
    BY <2>1, <2>2
  <2>3. CASE \E dir \in CutShort : Write(dir)
    BY <1>8, <2>1, <2>3, CutShortHome, WriteHome DEF Raise, Kill, Abort, Fault
  <2>. QED  BY <1>8, <2>2, <2>3 DEF Raise, Abort, Kill
<1>. QED  BY <1>1, <1>2, <1>3, <1>4, <1>5, <1>6, <1>7, <1>8 DEF Next, Step, Command

LEMMA InitHome == Init => HInv
<1>. SUFFICES ASSUME Init PROVE RowsStayHome
  BY InitInv DEF HInv
<1>1. \A d \in Dirs : RowsIn(disk[d]) = {}
  BY NoWords DEF Init, EmptyDir, NoDerived, RowsIn
<1>. QED  BY <1>1 DEF Init, RowsStayHome, BuildSteps, ParseSteps, SupersetSteps, DeriveSteps

\* Whatever is killed, retried or forced, a directory never holds a row of a
\* source with another name -- also where the names of two sources clash, which
\* discover_sources does not rule out.
THEOREM NoStrangers ==
  Spec => [](\A d \in Dirs : \A r \in RowsIn(disk[d]) : DirOf(r[1]) = d)
<1>1. HInv => \A d \in Dirs : \A r \in RowsIn(disk[d]) : DirOf(r[1]) = d
  BY DEF HInv, RowsStayHome
<1>. QED  BY <1>1, InitHome, NextHome, PTL DEF Spec

\* No two sources are named alike: what run_batch relies on when it gives each
\* its own directory.
NamesApart == \A s, t \in Sources : DirOf(s) = DirOf(t) => s = t

\* The isolation rule, for every number of sources whose names differ: both
\* stores below a source's name hold that source's evidence and no other's.
THEOREM OwnEvidence ==
  ASSUME NamesApart
  PROVE  Spec => []OwnEvidenceOnly
<1>1. HInv => OwnEvidenceOnly
  <2>. SUFFICES ASSUME HInv, NEW s \in Sources,
                       NEW r \in CarRows(DirOf(s)) \cup Words(disk[DirOf(s)].declared)
                                 \cup Words(disk[DirOf(s)].derived.edges)
                                 \cup disk[DirOf(s)].derived.nodes
                                 \cup disk[DirOf(s)].derived.content
                                 \cup disk[DirOf(s)].derived.refs
                PROVE  r[1] = s
    BY DEF OwnEvidenceOnly
  <2>. DEFINE dir == disk[DirOf(s)]
  <2>1. DirOf(s) \in Dirs /\ dir \in OutDir
    BY DEF HInv, IInv, TypeOK, Dirs
  <2>2. r \in RowsIn(dir)
    BY DEF CarRows, HasRows, RowsIn
  <2>3. r \in Row
    BY <2>1, <2>2, WordsType DEF RowsIn, OutDir, DerivedLayer
  <2>4. r[1] \in Sources /\ DirOf(r[1]) = DirOf(s)
    BY <2>1, <2>2, <2>3 DEF HInv, RowsStayHome, Row
  <2>. QED  BY <2>4 DEF NamesApart
<1>. QED  BY <1>1, InitHome, NextHome, PTL DEF Spec

-----------------------------------------------------------------------------
(* One parse, one layer.                                                   *)

\* The derived layer over some rows, before the given step of derive().
LayerBefore(step, rows) ==
  [ edges   |-> IF step = "edges" THEN << >> ELSE rows,
    nodes   |-> IF step \in {"edges", "nodes"} THEN {} ELSE Words(rows),
    content |-> IF step \in {"edges", "nodes", "content"} THEN {} ELSE Words(rows),
    refs    |-> IF step \in {"edges", "nodes", "content", "refs"} THEN {} ELSE Words(rows) ]

\* derive() works on the rows of car.db, in a batch as on its own, and has
\* replaced the tables it has come past.
LayerSoFar ==
  /\ pc \in DeriveSteps => mem = Here.car
  /\ pc \in DeriveSteps \ {"clear"} => Here.derived = LayerBefore(pc, mem)
  /\ pc = "inferred" => Here.rels = RelationshipRows

\* A single-store command goes through the steps of its own tool.
OneTool ==
  /\ job = "derive" => pc \in DeriveSteps \cup AtRest
  /\ job = "stix" => pc \in {"stix"} \cup AtRest

\* What the build of a source has on disk, step by step: all of it the one
\* parse that is in memory.
BuildSoFar ==
  job = "batch" /\ pc \in BuildSteps \ {"parse"} =>
    \E v \in Versions :
      /\ mem = << <<cur, v>> >>
      /\ pc \in StoreSteps \ {"insert"} => Here.car = mem
      /\ pc = "jsonl" => \A o \in PopulatedBy[cur][v] \ left : Here.jsonl[o] = mem
      /\ pc \in SupersetSteps \cup DeriveSteps \cup {"stix"} =>
           /\ Here.sources = mem
           /\ \A o \in PopulatedBy[cur][v] : Here.jsonl[o] = mem
      /\ pc \in SupersetSteps \ {"unlink"} => Here.derived = NoDerived
      /\ pc \in {"declare", "rels", "stix"} \cup DeriveSteps => Here.model
      /\ pc \in {"rels", "stix"} \cup DeriveSteps => Here.declared = mem
      /\ pc \in DeriveSteps => opts.derive
      /\ pc = "stix" =>
           /\ opts.stix
           /\ Here.rels = RelationshipRows
           /\ Here.derived = IF opts.derive THEN LayerBefore("stix", mem) ELSE NoDerived
           /\ opts.derive => Here.inferred = Here.derived.nodes

LInv ==
  /\ IInv /\ OnlyBatchBuilds /\ OneTool
  /\ LayerSoFar /\ BuildSoFar /\ DeriveLeavesOneLayer

\* A batch comes to each source once: the one being built is not behind or
\* ahead of it in the loop.
OnceEach ==
  /\ job # "batch" => \A s \in Sources : result[s] = "none"
  /\ job = "batch" /\ pc \in BuildSteps \cup {"next"} =>
       \A i, j \in DOMAIN todo :
         /\ todo[i] = todo[j] => i = j
         /\ result[todo[i]] = "none"
  /\ job = "batch" /\ pc \in BuildSteps =>
       /\ result[cur] = "none"
       /\ \A i \in DOMAIN todo : todo[i] # cur

CInv == LInv /\ OnceEach /\ BuiltIsCoherent

\* What a step that writes one directory leaves behind.
LEMMA HereAfter ==
  ASSUME IInv, NEW dir, Write(dir), UNCHANGED cur
  PROVE  /\ Here' = dir /\ Dst' = Dst
         /\ \A d \in Dirs : d # Dst => disk'[d] = disk[d]
<1>1. Dst \in Dirs /\ disk \in [Dirs -> OutDir] /\ Dst' = Dst
  BY HereType DEF IInv, TypeOK, Dst
<1>. QED  BY <1>1 DEF Write, Here

\* The rows of one parse fill the tables of that version.
LEMMA PopulatedByOne ==
  ASSUME NEW s \in Sources, NEW v \in Versions
  PROVE  Populated(<< <<s, v>> >>) = PopulatedBy[s][v] /\ Words(<< <<s, v>> >>) = { <<s, v>> }
<1>1. Words(<< <<s, v>> >>) = { <<s, v>> }
  BY DEF Words
<1>. QED  BY <1>1 DEF Populated

LEMMA RemoveCarBuilt ==
  ASSUME LInv, RemoveCar
  PROVE  LayerSoFar' /\ BuildSoFar'
<1>. DEFINE dir == [Here EXCEPT !.car = Absent]
<1>1. Here \in OutDir /\ job = "batch" /\ mem \in Seq(Row)
  BY HereType DEF LInv, IInv, TypeOK, OnlyBatchBuilds, RemoveCar, ParseSteps, SupersetSteps
<1>2. Here' = dir /\ UNCHANGED <<mem, cur, job, opts>>
  BY HereAfter DEF LInv, RemoveCar, LoopVars
<1>3. PICK v \in Versions :
                      /\ mem = << <<cur, v>> >>
                      /\ pc \in StoreSteps \ {"insert"} => Here.car = mem
                      /\ pc = "jsonl" => \A o \in PopulatedBy[cur][v] \ left : Here.jsonl[o] = mem
                      /\ pc \in SupersetSteps =>
                           /\ Here.sources = mem
                           /\ \A o \in PopulatedBy[cur][v] : Here.jsonl[o] = mem
                      /\ pc \in SupersetSteps \ {"unlink"} => Here.derived = NoDerived
                      /\ pc = "declare" => Here.model
  BY <1>1 DEF LInv, BuildSoFar, RemoveCar, BuildSteps, ParseSteps, SupersetSteps, DeriveSteps
<1>4. pc' \in (ParseSteps \ {"parse"}) \cup SupersetSteps
  BY DEF RemoveCar, Goto, ParseSteps, SupersetSteps
<1>5. LayerSoFar'
  BY <1>4 DEF LayerSoFar, ParseSteps, SupersetSteps, DeriveSteps
<1>6. BuildSoFar'
  BY <1>1, <1>2, <1>3 DEF BuildSoFar, LInv, IInv, StoreIsOpen, OutDir, RemoveCar, Goto, StoreSteps,
     BuildSteps, ParseSteps, SupersetSteps, DeriveSteps
<1>. QED  BY <1>5, <1>6

LEMMA CreateCarBuilt ==
  ASSUME LInv, CreateCar
  PROVE  LayerSoFar' /\ BuildSoFar'
<1>. DEFINE dir == [Here EXCEPT !.car = IF @ = Absent THEN << >> ELSE @]
<1>1. Here \in OutDir /\ job = "batch" /\ mem \in Seq(Row)
  BY HereType DEF LInv, IInv, TypeOK, OnlyBatchBuilds, CreateCar, ParseSteps, SupersetSteps
<1>2. Here' = dir /\ UNCHANGED <<mem, cur, job, opts>>
  BY HereAfter DEF LInv, CreateCar, LoopVars
<1>3. PICK v \in Versions :
                      /\ mem = << <<cur, v>> >>
                      /\ pc \in StoreSteps \ {"insert"} => Here.car = mem
                      /\ pc = "jsonl" => \A o \in PopulatedBy[cur][v] \ left : Here.jsonl[o] = mem
                      /\ pc \in SupersetSteps =>
                           /\ Here.sources = mem
                           /\ \A o \in PopulatedBy[cur][v] : Here.jsonl[o] = mem
                      /\ pc \in SupersetSteps \ {"unlink"} => Here.derived = NoDerived
                      /\ pc = "declare" => Here.model
  BY <1>1 DEF LInv, BuildSoFar, CreateCar, BuildSteps, ParseSteps, SupersetSteps, DeriveSteps
<1>4. pc' \in (ParseSteps \ {"parse"}) \cup SupersetSteps
  BY DEF CreateCar, Goto, ParseSteps, SupersetSteps
<1>5. LayerSoFar'
  BY <1>4 DEF LayerSoFar, ParseSteps, SupersetSteps, DeriveSteps
<1>6. BuildSoFar'
  BY <1>1, <1>2, <1>3 DEF BuildSoFar, LInv, IInv, StoreIsOpen, OutDir, CreateCar, Goto, StoreSteps,
     BuildSteps, ParseSteps, SupersetSteps, DeriveSteps
<1>. QED  BY <1>5, <1>6

LEMMA WriteManifestsBuilt ==
  ASSUME LInv, WriteManifests
  PROVE  LayerSoFar' /\ BuildSoFar'
<1>. DEFINE dir == [Here EXCEPT !.sources = mem]
<1>1. Here \in OutDir /\ job = "batch" /\ mem \in Seq(Row)
  BY HereType DEF LInv, IInv, TypeOK, OnlyBatchBuilds, WriteManifests, ParseSteps, SupersetSteps
<1>2. Here' = dir /\ UNCHANGED <<mem, cur, job, opts>>
  BY HereAfter DEF LInv, WriteManifests, LoopVars
<1>3. PICK v \in Versions :
                      /\ mem = << <<cur, v>> >>
                      /\ pc \in StoreSteps \ {"insert"} => Here.car = mem
                      /\ pc = "jsonl" => \A o \in PopulatedBy[cur][v] \ left : Here.jsonl[o] = mem
                      /\ pc \in SupersetSteps =>
                           /\ Here.sources = mem
                           /\ \A o \in PopulatedBy[cur][v] : Here.jsonl[o] = mem
                      /\ pc \in SupersetSteps \ {"unlink"} => Here.derived = NoDerived
                      /\ pc = "declare" => Here.model
  BY <1>1 DEF LInv, BuildSoFar, WriteManifests, BuildSteps, ParseSteps, SupersetSteps, DeriveSteps
<1>4. pc' \in (ParseSteps \ {"parse"}) \cup SupersetSteps
  BY DEF WriteManifests, Goto, ParseSteps, SupersetSteps
<1>5. LayerSoFar'
  BY <1>4 DEF LayerSoFar, ParseSteps, SupersetSteps, DeriveSteps
<1>6. BuildSoFar'
  BY <1>1, <1>2, <1>3 DEF BuildSoFar, LInv, IInv, StoreIsOpen, OutDir, WriteManifests, Goto, StoreSteps,
     BuildSteps, ParseSteps, SupersetSteps, DeriveSteps
<1>. QED  BY <1>5, <1>6

LEMMA RemoveSupersetBuilt ==
  ASSUME LInv, RemoveSuperset
  PROVE  LayerSoFar' /\ BuildSoFar'
<1>. DEFINE dir == [Here EXCEPT !.superset = FALSE, !.model = FALSE,
                              !.declared = << >>, !.derived = NoDerived]
<1>1. Here \in OutDir /\ job = "batch" /\ mem \in Seq(Row)
  BY HereType DEF LInv, IInv, TypeOK, OnlyBatchBuilds, RemoveSuperset, ParseSteps, SupersetSteps
<1>2. Here' = dir /\ UNCHANGED <<mem, cur, job, opts>>
  BY HereAfter DEF LInv, RemoveSuperset, LoopVars
<1>3. PICK v \in Versions :
                      /\ mem = << <<cur, v>> >>
                      /\ pc \in StoreSteps \ {"insert"} => Here.car = mem
                      /\ pc = "jsonl" => \A o \in PopulatedBy[cur][v] \ left : Here.jsonl[o] = mem
                      /\ pc \in SupersetSteps =>
                           /\ Here.sources = mem
                           /\ \A o \in PopulatedBy[cur][v] : Here.jsonl[o] = mem
                      /\ pc \in SupersetSteps \ {"unlink"} => Here.derived = NoDerived
                      /\ pc = "declare" => Here.model
  BY <1>1 DEF LInv, BuildSoFar, RemoveSuperset, BuildSteps, ParseSteps, SupersetSteps, DeriveSteps
<1>4. pc' \in (ParseSteps \ {"parse"}) \cup SupersetSteps
  BY DEF RemoveSuperset, Goto, ParseSteps, SupersetSteps
<1>5. LayerSoFar'
  BY <1>4 DEF LayerSoFar, ParseSteps, SupersetSteps, DeriveSteps
<1>6. BuildSoFar'
  BY <1>1, <1>2, <1>3 DEF BuildSoFar, LInv, IInv, StoreIsOpen, OutDir, RemoveSuperset, Goto, StoreSteps,
     BuildSteps, ParseSteps, SupersetSteps, DeriveSteps
<1>. QED  BY <1>5, <1>6

LEMMA CreateSupersetBuilt ==
  ASSUME LInv, CreateSuperset
  PROVE  LayerSoFar' /\ BuildSoFar'
<1>. DEFINE dir == [Here EXCEPT !.superset = TRUE]
<1>1. Here \in OutDir /\ job = "batch" /\ mem \in Seq(Row)
  BY HereType DEF LInv, IInv, TypeOK, OnlyBatchBuilds, CreateSuperset, ParseSteps, SupersetSteps
<1>2. Here' = dir /\ UNCHANGED <<mem, cur, job, opts>>
  BY HereAfter DEF LInv, CreateSuperset, LoopVars
<1>3. PICK v \in Versions :
                      /\ mem = << <<cur, v>> >>
                      /\ pc \in StoreSteps \ {"insert"} => Here.car = mem
                      /\ pc = "jsonl" => \A o \in PopulatedBy[cur][v] \ left : Here.jsonl[o] = mem
                      /\ pc \in SupersetSteps =>
                           /\ Here.sources = mem
                           /\ \A o \in PopulatedBy[cur][v] : Here.jsonl[o] = mem
                      /\ pc \in SupersetSteps \ {"unlink"} => Here.derived = NoDerived
                      /\ pc = "declare" => Here.model
  BY <1>1 DEF LInv, BuildSoFar, CreateSuperset, BuildSteps, ParseSteps, SupersetSteps, DeriveSteps
<1>4. pc' \in (ParseSteps \ {"parse"}) \cup SupersetSteps
  BY DEF CreateSuperset, Goto, ParseSteps, SupersetSteps
<1>5. LayerSoFar'
  BY <1>4 DEF LayerSoFar, ParseSteps, SupersetSteps, DeriveSteps
<1>6. BuildSoFar'
  BY <1>1, <1>2, <1>3 DEF BuildSoFar, LInv, IInv, StoreIsOpen, OutDir, CreateSuperset, Goto, StoreSteps,
     BuildSteps, ParseSteps, SupersetSteps, DeriveSteps
<1>. QED  BY <1>5, <1>6

LEMMA SeedModelBuilt ==
  ASSUME LInv, SeedModel
  PROVE  LayerSoFar' /\ BuildSoFar'
<1>. DEFINE dir == [Here EXCEPT !.model = TRUE]
<1>1. Here \in OutDir /\ job = "batch" /\ mem \in Seq(Row)
  BY HereType DEF LInv, IInv, TypeOK, OnlyBatchBuilds, SeedModel, ParseSteps, SupersetSteps
<1>2. Here' = dir /\ UNCHANGED <<mem, cur, job, opts>>
  BY HereAfter DEF LInv, SeedModel, LoopVars
<1>3. PICK v \in Versions :
                      /\ mem = << <<cur, v>> >>
                      /\ pc \in StoreSteps \ {"insert"} => Here.car = mem
                      /\ pc = "jsonl" => \A o \in PopulatedBy[cur][v] \ left : Here.jsonl[o] = mem
                      /\ pc \in SupersetSteps =>
                           /\ Here.sources = mem
                           /\ \A o \in PopulatedBy[cur][v] : Here.jsonl[o] = mem
                      /\ pc \in SupersetSteps \ {"unlink"} => Here.derived = NoDerived
                      /\ pc = "declare" => Here.model
  BY <1>1 DEF LInv, BuildSoFar, SeedModel, BuildSteps, ParseSteps, SupersetSteps, DeriveSteps
<1>4. pc' \in (ParseSteps \ {"parse"}) \cup SupersetSteps
  BY DEF SeedModel, Goto, ParseSteps, SupersetSteps
<1>5. LayerSoFar'
  BY <1>4 DEF LayerSoFar, ParseSteps, SupersetSteps, DeriveSteps
<1>6. BuildSoFar'
  BY <1>1, <1>2, <1>3 DEF BuildSoFar, LInv, IInv, StoreIsOpen, OutDir, SeedModel, Goto, StoreSteps,
     BuildSteps, ParseSteps, SupersetSteps, DeriveSteps
<1>. QED  BY <1>5, <1>6

LEMMA InsertDeclaredBuilt ==
  ASSUME LInv, InsertDeclared
  PROVE  LayerSoFar' /\ BuildSoFar'
<1>. DEFINE dir == [Here EXCEPT !.declared = @ \o mem]
<1>1. Here \in OutDir /\ job = "batch" /\ mem \in Seq(Row)
  BY HereType DEF LInv, IInv, TypeOK, OnlyBatchBuilds, InsertDeclared, ParseSteps, SupersetSteps
<1>2. Here' = dir /\ UNCHANGED <<mem, cur, job, opts>>
  BY HereAfter DEF LInv, InsertDeclared, LoopVars
<1>3. PICK v \in Versions :
                      /\ mem = << <<cur, v>> >>
                      /\ pc \in StoreSteps \ {"insert"} => Here.car = mem
                      /\ pc = "jsonl" => \A o \in PopulatedBy[cur][v] \ left : Here.jsonl[o] = mem
                      /\ pc \in SupersetSteps =>
                           /\ Here.sources = mem
                           /\ \A o \in PopulatedBy[cur][v] : Here.jsonl[o] = mem
                      /\ pc \in SupersetSteps \ {"unlink"} => Here.derived = NoDerived
                      /\ pc = "declare" => Here.model
  BY <1>1 DEF LInv, BuildSoFar, InsertDeclared, BuildSteps, ParseSteps, SupersetSteps, DeriveSteps
<1>4. pc' \in (ParseSteps \ {"parse"}) \cup SupersetSteps
  BY DEF InsertDeclared, Goto, ParseSteps, SupersetSteps
<1>5. LayerSoFar'
  BY <1>4 DEF LayerSoFar, ParseSteps, SupersetSteps, DeriveSteps
<1>6. dir = [Here EXCEPT !.declared = mem]
  <2>1. Here.declared = << >>
    BY DEF LInv, IInv, StoreIsOpen, InsertDeclared
  <2>2. << >> \o mem = mem
    BY <1>1
  <2>. QED  BY <2>1, <2>2
<1>7. /\ Here'.car = Here.car /\ Here'.sources = Here.sources
      /\ Here'.jsonl = Here.jsonl /\ Here'.model = Here.model
      /\ Here'.declared = mem /\ Here'.derived = Here.derived
  BY <1>1, <1>2, <1>6 DEF OutDir
<1>8. pc = "declare" /\ pc' = "rels"
  BY DEF InsertDeclared, Goto
<1>9. BuildSoFar'
  BY <1>2, <1>3, <1>7, <1>8 DEF BuildSoFar, StoreSteps, BuildSteps, SupersetSteps, DeriveSteps
<1>. QED  BY <1>5, <1>9

LEMMA ParseBuilt ==
  ASSUME LInv, Parse
  PROVE  LayerSoFar' /\ BuildSoFar'
<1>1. pc' = "remove" /\ cur' = cur /\ mem' = << <<cur, input[cur]>> >> /\ input[cur] \in Versions
  BY DEF LInv, IInv, TypeOK, Parse, Goto, LoopVars
<1>2. LayerSoFar'
  BY <1>1 DEF LayerSoFar, DeriveSteps
<1>3. BuildSoFar'
  BY <1>1 DEF BuildSoFar, StoreSteps, SupersetSteps, DeriveSteps
<1>. QED  BY <1>2, <1>3

LEMMA InsertEventsBuilt ==
  ASSUME LInv, InsertEvents
  PROVE  LayerSoFar' /\ BuildSoFar'
<1>. DEFINE dir == [Here EXCEPT !.car = mem]
<1>1. Here \in OutDir /\ job = "batch" /\ mem \in Seq(Row) /\ Here.car = << >>
  BY HereType DEF LInv, IInv, TypeOK, StoreIsOpen, OnlyBatchBuilds, InsertEvents, ParseSteps
<1>2. << >> \o mem = mem
  BY <1>1
<1>3. Here' = dir /\ UNCHANGED <<mem, cur, job, opts>> /\ pc' = "jsonl" /\ left' = Populated(mem)
  BY <1>1, <1>2, HereAfter DEF LInv, InsertEvents, LoopVars, Goto
<1>4. PICK v \in Versions : mem = << <<cur, v>> >>
  BY <1>1 DEF LInv, BuildSoFar, InsertEvents, BuildSteps, ParseSteps
<1>5. left' = PopulatedBy[cur][v] /\ Here'.car = mem
  BY <1>1, <1>3, <1>4, PopulatedByOne DEF OutDir, LInv, IInv, TypeOK
<1>6. LayerSoFar'
  BY <1>3 DEF LayerSoFar, DeriveSteps
<1>7. BuildSoFar'
  BY <1>3, <1>4, <1>5 DEF BuildSoFar, SupersetSteps, DeriveSteps
<1>. QED  BY <1>6, <1>7

LEMMA ExportObjectBuilt ==
  ASSUME LInv, NEW o \in Objects, ExportObject(o)
  PROVE  LayerSoFar' /\ BuildSoFar'
<1>. DEFINE dir == [Here EXCEPT !.jsonl[o] = Here.car]
<1>1. Here \in OutDir /\ job = "batch"
  BY HereType DEF LInv, IInv, OnlyBatchBuilds, ExportObject, ParseSteps
<1>2. Here' = dir /\ UNCHANGED <<mem, cur, job, opts>> /\ pc = "jsonl" /\ pc' = "jsonl"
      /\ left' = left \ {o}
  BY HereAfter DEF LInv, ExportObject, LoopVars
<1>3. PICK v \in Versions :
        /\ mem = << <<cur, v>> >> /\ Here.car = mem
        /\ \A x \in PopulatedBy[cur][v] \ left : Here.jsonl[x] = mem
  BY <1>1, <1>2 DEF LInv, BuildSoFar, BuildSteps, ParseSteps, StoreSteps
<1>4. PopulatedBy[cur][v] \subseteq Objects
  BY BatchAssumption DEF LInv, IInv, TypeOK
<1>5. Here'.car = mem /\ \A x \in Objects : Here'.jsonl[x] = IF x = o THEN mem ELSE Here.jsonl[x]
  BY <1>1, <1>2, <1>3 DEF OutDir
<1>6. LayerSoFar'
  BY <1>2 DEF LayerSoFar, DeriveSteps
<1>7. BuildSoFar'
  BY <1>2, <1>3, <1>4, <1>5 DEF BuildSoFar, SupersetSteps, DeriveSteps
<1>. QED  BY <1>6, <1>7

\* After the build's own steps: the optional derive pass, the projection, the
\* next source.
LEMMA ExportRelationshipsBuilt ==
  ASSUME LInv, ExportRelationships
  PROVE  LayerSoFar' /\ BuildSoFar'
<1>. DEFINE dir == [Here EXCEPT !.rels = RelationshipRows]
<1>1. Here \in OutDir /\ job = "batch" /\ pc = "rels"
  BY HereType DEF LInv, IInv, OnlyBatchBuilds, ExportRelationships, SupersetSteps
<1>2. Here' = dir /\ UNCHANGED <<mem, cur, job, opts>>
  BY HereAfter DEF LInv, ExportRelationships
<1>3. /\ Here'.rels = RelationshipRows /\ Here'.car = Here.car /\ Here'.sources = Here.sources
      /\ Here'.jsonl = Here.jsonl /\ Here'.model = Here.model
      /\ Here'.declared = Here.declared /\ Here'.derived = Here.derived
  BY <1>1, <1>2 DEF OutDir
<1>4. RelationshipRows' = RelationshipRows
  BY <1>3 DEF RelationshipRows
<1>5. \/ opts.derive /\ pc' = "clear"
      \/ ~opts.derive /\ opts.stix /\ pc' = "stix"
      \/ pc' = "next"
  BY <1>1 DEF ExportRelationships, Continue, Goto
<1>6. PICK v \in Versions :
        /\ mem = << <<cur, v>> >> /\ Here.car = mem /\ Here.sources = mem
        /\ \A o \in PopulatedBy[cur][v] : Here.jsonl[o] = mem
        /\ Here.derived = NoDerived /\ Here.model /\ Here.declared = mem
  BY <1>1 DEF LInv, BuildSoFar, BuildSteps, SupersetSteps, StoreSteps, ParseSteps
<1>7. LayerSoFar'
  BY <1>2, <1>3, <1>5, <1>6 DEF LayerSoFar, DeriveSteps
<1>8. BuildSoFar'
  BY <1>2, <1>3, <1>4, <1>5, <1>6 DEF BuildSoFar, SupersetSteps, DeriveSteps, BuildSteps
<1>. QED  BY <1>7, <1>8

LEMMA ClearDerivedBuilt ==
  ASSUME LInv, ClearDerived
  PROVE  LayerSoFar' /\ BuildSoFar'
<1>. DEFINE dir == [Here EXCEPT !.derived = NoDerived]
<1>1. Here \in OutDir /\ Here.derived \in DerivedLayer /\ mem \in Seq(Row) /\ pc = "clear"
  BY HereType DEF LInv, IInv, TypeOK, OutDir, ClearDerived
<1>2. Here' = dir /\ UNCHANGED <<mem, cur, job, opts>> /\ pc' = "edges"
  BY HereAfter DEF LInv, ClearDerived, LoopVars, Goto
<1>3. /\ Here'.car = Here.car /\ Here'.sources = Here.sources
      /\ Here'.jsonl = Here.jsonl /\ Here'.model = Here.model
      /\ Here'.declared = Here.declared
  BY <1>1, <1>2 DEF OutDir
<1>4. mem = Here.car
  BY <1>1 DEF LInv, LayerSoFar, DeriveSteps
<1>5. Here'.derived = LayerBefore("edges", mem)
  BY <1>1, <1>2, <1>3, <1>4 DEF OutDir, LayerBefore, NoDerived
<1>6. LayerSoFar'
  BY <1>2, <1>3, <1>4, <1>5 DEF LayerSoFar, DeriveSteps
<1>7. BuildSoFar'
  BY <1>1, <1>2, <1>3 DEF LInv, BuildSoFar, SupersetSteps, DeriveSteps, BuildSteps, StoreSteps, ParseSteps
<1>. QED  BY <1>6, <1>7

LEMMA InsertDerivedEdgesBuilt ==
  ASSUME LInv, InsertDerivedEdges
  PROVE  LayerSoFar' /\ BuildSoFar'
<1>. DEFINE dir == [Here EXCEPT !.derived.edges = @ \o mem]
<1>1. Here \in OutDir /\ Here.derived \in DerivedLayer /\ mem \in Seq(Row) /\ pc = "edges"
  BY HereType DEF LInv, IInv, TypeOK, OutDir, InsertDerivedEdges
<1>2. Here' = dir /\ UNCHANGED <<mem, cur, job, opts>> /\ pc' = "nodes"
  BY HereAfter DEF LInv, InsertDerivedEdges, LoopVars, Goto
<1>3. /\ Here'.car = Here.car /\ Here'.sources = Here.sources
      /\ Here'.jsonl = Here.jsonl /\ Here'.model = Here.model
      /\ Here'.declared = Here.declared
  BY <1>1, <1>2 DEF OutDir
<1>4. mem = Here.car /\ Here.derived = LayerBefore("edges", mem)
  BY <1>1 DEF LInv, LayerSoFar, DeriveSteps
<1>5. Here'.derived = LayerBefore("nodes", mem)
  <2>1. Here.derived.edges = << >>
    BY <1>4 DEF LayerBefore
  <2>2. << >> \o mem = mem
    BY <1>1
  <2>3. Here'.derived = [Here.derived EXCEPT !.edges = mem]
    BY <1>1, <1>2, <2>1, <2>2 DEF OutDir
  <2>4. Here'.derived = [ edges |-> mem, nodes |-> Here.derived.nodes,
                          content |-> Here.derived.content, refs |-> Here.derived.refs ]
    BY <1>1, <2>3 DEF DerivedLayer
  <2>. QED  BY <1>4, <2>4 DEF LayerBefore
<1>6. LayerSoFar'
  BY <1>2, <1>3, <1>4, <1>5 DEF LayerSoFar, DeriveSteps
<1>7. BuildSoFar'
  BY <1>1, <1>2, <1>3 DEF LInv, BuildSoFar, SupersetSteps, DeriveSteps, BuildSteps, StoreSteps, ParseSteps
<1>. QED  BY <1>6, <1>7

LEMMA InsertInferredNodesBuilt ==
  ASSUME LInv, InsertInferredNodes
  PROVE  LayerSoFar' /\ BuildSoFar'
<1>. DEFINE dir == [Here EXCEPT !.derived.nodes = @ \cup Words(mem)]
<1>1. Here \in OutDir /\ Here.derived \in DerivedLayer /\ mem \in Seq(Row) /\ pc = "nodes"
  BY HereType DEF LInv, IInv, TypeOK, OutDir, InsertInferredNodes
<1>2. Here' = dir /\ UNCHANGED <<mem, cur, job, opts>> /\ pc' = "content"
  BY HereAfter DEF LInv, InsertInferredNodes, LoopVars, Goto
<1>3. /\ Here'.car = Here.car /\ Here'.sources = Here.sources
      /\ Here'.jsonl = Here.jsonl /\ Here'.model = Here.model
      /\ Here'.declared = Here.declared
  BY <1>1, <1>2 DEF OutDir
<1>4. mem = Here.car /\ Here.derived = LayerBefore("nodes", mem)
  BY <1>1 DEF LInv, LayerSoFar, DeriveSteps
<1>5. Here'.derived = LayerBefore("content", mem)
  <2>1. Here.derived.nodes = {} /\ {} \cup Words(mem) = Words(mem)
    BY <1>4 DEF LayerBefore
  <2>2. Here'.derived = [Here.derived EXCEPT !.nodes = Words(mem)]
    BY <1>1, <1>2, <2>1 DEF OutDir
  <2>3. Here'.derived = [ edges |-> Here.derived.edges, nodes |-> Words(mem),
                          content |-> Here.derived.content, refs |-> Here.derived.refs ]
    BY <1>1, <2>2 DEF DerivedLayer
  <2>. QED  BY <1>4, <2>3 DEF LayerBefore
<1>6. LayerSoFar'
  BY <1>2, <1>3, <1>4, <1>5 DEF LayerSoFar, DeriveSteps
<1>7. BuildSoFar'
  BY <1>1, <1>2, <1>3 DEF LInv, BuildSoFar, SupersetSteps, DeriveSteps, BuildSteps, StoreSteps, ParseSteps
<1>. QED  BY <1>6, <1>7

LEMMA InsertContentNodesBuilt ==
  ASSUME LInv, InsertContentNodes
  PROVE  LayerSoFar' /\ BuildSoFar'
<1>. DEFINE dir == [Here EXCEPT !.derived.content = @ \cup Words(mem)]
<1>1. Here \in OutDir /\ Here.derived \in DerivedLayer /\ mem \in Seq(Row) /\ pc = "content"
  BY HereType DEF LInv, IInv, TypeOK, OutDir, InsertContentNodes
<1>2. Here' = dir /\ UNCHANGED <<mem, cur, job, opts>> /\ pc' = "refs"
  BY HereAfter DEF LInv, InsertContentNodes, LoopVars, Goto
<1>3. /\ Here'.car = Here.car /\ Here'.sources = Here.sources
      /\ Here'.jsonl = Here.jsonl /\ Here'.model = Here.model
      /\ Here'.declared = Here.declared
  BY <1>1, <1>2 DEF OutDir
<1>4. mem = Here.car /\ Here.derived = LayerBefore("content", mem)
  BY <1>1 DEF LInv, LayerSoFar, DeriveSteps
<1>5. Here'.derived = LayerBefore("refs", mem)
  <2>1. Here.derived.content = {} /\ {} \cup Words(mem) = Words(mem)
    BY <1>4 DEF LayerBefore
  <2>2. Here'.derived = [Here.derived EXCEPT !.content = Words(mem)]
    BY <1>1, <1>2, <2>1 DEF OutDir
  <2>3. Here'.derived = [ edges |-> Here.derived.edges, nodes |-> Here.derived.nodes,
                          content |-> Words(mem), refs |-> Here.derived.refs ]
    BY <1>1, <2>2 DEF DerivedLayer
  <2>. QED  BY <1>4, <2>3 DEF LayerBefore
<1>6. LayerSoFar'
  BY <1>2, <1>3, <1>4, <1>5 DEF LayerSoFar, DeriveSteps
<1>7. BuildSoFar'
  BY <1>1, <1>2, <1>3 DEF LInv, BuildSoFar, SupersetSteps, DeriveSteps, BuildSteps, StoreSteps, ParseSteps
<1>. QED  BY <1>6, <1>7

LEMMA InsertEntityRefsBuilt ==
  ASSUME LInv, InsertEntityRefs
  PROVE  LayerSoFar' /\ BuildSoFar'
<1>. DEFINE dir == [Here EXCEPT !.derived.refs = @ \cup Words(mem)]
<1>1. Here \in OutDir /\ Here.derived \in DerivedLayer /\ mem \in Seq(Row) /\ pc = "refs"
  BY HereType DEF LInv, IInv, TypeOK, OutDir, InsertEntityRefs
<1>2. Here' = dir /\ UNCHANGED <<mem, cur, job, opts>> /\ pc' = "rels2"
  BY HereAfter DEF LInv, InsertEntityRefs, LoopVars, Goto
<1>3. /\ Here'.car = Here.car /\ Here'.sources = Here.sources
      /\ Here'.jsonl = Here.jsonl /\ Here'.model = Here.model
      /\ Here'.declared = Here.declared
  BY <1>1, <1>2 DEF OutDir
<1>4. mem = Here.car /\ Here.derived = LayerBefore("refs", mem)
  BY <1>1 DEF LInv, LayerSoFar, DeriveSteps
<1>5. Here'.derived = LayerBefore("rels2", mem)
  <2>1. Here.derived.refs = {} /\ {} \cup Words(mem) = Words(mem)
    BY <1>4 DEF LayerBefore
  <2>2. Here'.derived = [Here.derived EXCEPT !.refs = Words(mem)]
    BY <1>1, <1>2, <2>1 DEF OutDir
  <2>3. Here'.derived = [ edges |-> Here.derived.edges, nodes |-> Here.derived.nodes,
                          content |-> Here.derived.content, refs |-> Words(mem) ]
    BY <1>1, <2>2 DEF DerivedLayer
  <2>. QED  BY <1>4, <2>3 DEF LayerBefore
<1>6. LayerSoFar'
  BY <1>2, <1>3, <1>4, <1>5 DEF LayerSoFar, DeriveSteps
<1>7. BuildSoFar'
  BY <1>1, <1>2, <1>3 DEF LInv, BuildSoFar, SupersetSteps, DeriveSteps, BuildSteps, StoreSteps, ParseSteps
<1>. QED  BY <1>6, <1>7

LEMMA ReexportBuilt ==
  ASSUME LInv, Reexport
  PROVE  LayerSoFar' /\ BuildSoFar'
<1>. DEFINE dir == [Here EXCEPT !.rels = RelationshipRows]
<1>1. Here \in OutDir /\ Here.derived \in DerivedLayer /\ mem \in Seq(Row) /\ pc = "rels2"
  BY HereType DEF LInv, IInv, TypeOK, OutDir, Reexport
<1>2. Here' = dir /\ UNCHANGED <<mem, cur, job, opts>> /\ pc' = "inferred"
  BY HereAfter DEF LInv, Reexport, LoopVars, Goto
<1>3. /\ Here'.car = Here.car /\ Here'.sources = Here.sources
      /\ Here'.jsonl = Here.jsonl /\ Here'.model = Here.model
      /\ Here'.declared = Here.declared
  BY <1>1, <1>2 DEF OutDir
<1>4. mem = Here.car /\ Here.derived = LayerBefore("rels2", mem)
  BY <1>1 DEF LInv, LayerSoFar, DeriveSteps
<1>5. Here'.derived = LayerBefore("inferred", mem) /\ Here'.rels = RelationshipRows'
  BY <1>1, <1>2, <1>3, <1>4 DEF OutDir, LayerBefore, RelationshipRows
<1>6. LayerSoFar'
  BY <1>2, <1>3, <1>4, <1>5 DEF LayerSoFar, DeriveSteps
<1>7. BuildSoFar'
  BY <1>1, <1>2, <1>3 DEF LInv, BuildSoFar, SupersetSteps, DeriveSteps, BuildSteps, StoreSteps, ParseSteps
<1>. QED  BY <1>6, <1>7

LEMMA ExportInferredBuilt ==
  ASSUME LInv, ExportInferred
  PROVE  LayerSoFar' /\ BuildSoFar' /\ DeriveLeavesOneLayer'
<1>. DEFINE dir == [Here EXCEPT !.inferred = Here.derived.nodes]
<1>1. Here \in OutDir /\ pc = "inferred"
  BY HereType DEF LInv, IInv, ExportInferred
<1>2. Here' = dir /\ UNCHANGED <<mem, cur, job, opts>>
  BY HereAfter DEF LInv, ExportInferred
<1>3. /\ Here'.car = Here.car /\ Here'.sources = Here.sources
      /\ Here'.jsonl = Here.jsonl /\ Here'.model = Here.model
      /\ Here'.declared = Here.declared /\ Here'.derived = Here.derived
      /\ Here'.rels = Here.rels /\ Here'.inferred = Here.derived.nodes
  BY <1>1, <1>2 DEF OutDir
<1>4. /\ mem = Here.car /\ Here.derived = LayerBefore("stix", mem)
      /\ Here.rels = RelationshipRows /\ RelationshipRows' = RelationshipRows
  BY <1>1, <1>3 DEF LInv, LayerSoFar, DeriveSteps, LayerBefore, RelationshipRows
<1>5. \/ job = "batch" /\ opts.stix /\ pc' = "stix"
      \/ job = "batch" /\ pc' = "next"
      \/ job # "batch" /\ pc' = "returned"
  BY DEF ExportInferred, Continue, Goto
<1>6. LayerSoFar'
  BY <1>5 DEF LayerSoFar, DeriveSteps
<1>7. BuildSoFar'
  <2>. SUFFICES ASSUME job = "batch", pc' = "stix", opts.stix PROVE BuildSoFar'
    BY <1>2, <1>5 DEF BuildSoFar, BuildSteps, ParseSteps, SupersetSteps, DeriveSteps
  <2>1. PICK v \in Versions :
          /\ mem = << <<cur, v>> >> /\ Here.car = mem /\ Here.sources = mem
          /\ \A o \in PopulatedBy[cur][v] : Here.jsonl[o] = mem
          /\ Here.model /\ Here.declared = mem /\ opts.derive
    BY <1>1 DEF LInv, BuildSoFar, BuildSteps, DeriveSteps, StoreSteps
  <2>. QED  BY <1>2, <1>3, <1>4, <2>1 DEF BuildSoFar, SupersetSteps, DeriveSteps
<1>8. DeriveLeavesOneLayer'
  BY <1>3, <1>4 DEF DeriveLeavesOneLayer, LayerBefore
<1>. QED  BY <1>6, <1>7, <1>8

LEMMA StixExportBuilt ==
  ASSUME LInv, StixExport
  PROVE  LayerSoFar' /\ BuildSoFar'
<1>1. pc' \in {"next", "returned"}
  BY DEF StixExport, Continue, Goto
<1>. QED  BY <1>1 DEF LayerSoFar, BuildSoFar, BuildSteps, ParseSteps, SupersetSteps, DeriveSteps

LEMMA NextLInv == LInv /\ [Next]_vars => LInv'
<1>. SUFFICES ASSUME LInv, [Next]_vars
              PROVE  OnlyBatchBuilds' /\ OneTool' /\ LayerSoFar' /\ BuildSoFar' /\ DeriveLeavesOneLayer'
  BY NextInv DEF LInv
<1>1. OnlyBatchBuilds' /\ OneTool'
  <2>. USE DEF LInv, OnlyBatchBuilds, OneTool, ParseSteps, SupersetSteps, DeriveSteps, AtRest
  <2>1. CASE UNCHANGED vars
    BY <2>1 DEF vars
  <2>2. CASE Command
    BY <2>2 DEF Command, StartBatch, StartDerive, StartStix, Start, Goto
  <2>3. CASE Skip \/ BeginBuild \/ ReturnBatch
    BY <2>3 DEF Skip, BeginBuild, ReturnBatch, Goto
  <2>4. CASE Parse \/ RemoveCar \/ CreateCar \/ InsertEvents \/ WriteManifests
    BY <2>4 DEF Parse, RemoveCar, CreateCar, InsertEvents, WriteManifests, Goto, LoopVars
  <2>5. CASE \E o \in Objects : ExportObject(o)
    BY <2>5 DEF ExportObject, LoopVars
  <2>6. CASE RemoveSuperset \/ CreateSuperset \/ SeedModel \/ InsertDeclared
    BY <2>6 DEF RemoveSuperset, CreateSuperset, SeedModel, InsertDeclared, Goto, LoopVars
  <2>7. CASE ExportRelationships \/ ExportInferred \/ StixExport
    BY <2>7 DEF ExportRelationships, ExportInferred, StixExport, Continue, Goto
  <2>8. CASE ClearDerived \/ InsertDerivedEdges \/ InsertInferredNodes
             \/ InsertContentNodes \/ InsertEntityRefs \/ Reexport
    BY <2>8 DEF ClearDerived, InsertDerivedEdges, InsertInferredNodes,
                InsertContentNodes, InsertEntityRefs, Reexport, Goto, LoopVars
  <2>9. CASE \E s \in Sources : Reprocess(s)
    BY <2>9 DEF Reprocess
  <2>10. CASE Raise \/ Abort \/ Kill
    BY <2>10 DEF Raise, Abort, Kill, Fault, Goto
  <2>. QED
    BY <2>1, <2>2, <2>3, <2>4, <2>5, <2>6, <2>7, <2>8, <2>9, <2>10 DEF Next, Step, BuildStep
<1>2. LayerSoFar' /\ BuildSoFar'
  <2>1. CASE UNCHANGED vars \/ \E s \in Sources : Reprocess(s)
    BY <2>1 DEF vars, Reprocess, LInv, LayerSoFar, BuildSoFar, Here, Dst, RelationshipRows
  <2>2. CASE pc' \notin BuildSteps \ {"parse"}
    BY <2>2 DEF LayerSoFar, BuildSoFar, BuildSteps, DeriveSteps
  <2>3. CASE (\E o \in [force : BOOLEAN, derive : BOOLEAN, stix : BOOLEAN] : StartBatch(o))
             \/ Skip \/ BeginBuild \/ ReturnBatch \/ Raise \/ Abort \/ Kill
    <3>1. pc' \notin BuildSteps \ {"parse"}
      BY <2>3 DEF StartBatch, Skip, BeginBuild, ReturnBatch, Raise, Abort, Kill, Goto,
                  BuildSteps, ParseSteps, SupersetSteps, DeriveSteps
    <3>. QED  BY <3>1, <2>2
  <2>4. CASE \E s \in Sources : StartStix(s)
    BY <2>4 DEF StartStix, Start, Goto, LayerSoFar, BuildSoFar, DeriveSteps
  <2>5. CASE \E s \in Sources : StartDerive(s)
    <3>1. PICK s \in Sources : StartDerive(s)
      BY <2>5
    <3>. DEFINE d == DirOf(s)
    <3>2. d \in Dirs /\ disk \in [Dirs -> OutDir] /\ disk[d] \in OutDir
      BY DEF LInv, IInv, TypeOK, Dirs
    <3>3. /\ disk' = [disk EXCEPT ![d].superset = TRUE] /\ mem' = disk[d].car
          /\ Dst' = d /\ pc' = "clear" /\ job' = "derive"
      BY <3>1 DEF StartDerive, Start, Goto, Dst
    <3>4. Here'.car = mem'
      BY <3>2, <3>3 DEF Here, OutDir
    <3>. QED  BY <3>3, <3>4 DEF LayerSoFar, BuildSoFar, DeriveSteps
  <2>6. CASE Parse \/ RemoveCar \/ CreateCar \/ InsertEvents
    BY <2>6, ParseBuilt, RemoveCarBuilt, CreateCarBuilt, InsertEventsBuilt
  <2>7. CASE (\E o \in Objects : ExportObject(o)) \/ WriteManifests
    BY <2>7, ExportObjectBuilt, WriteManifestsBuilt
  <2>8. CASE RemoveSuperset \/ CreateSuperset \/ SeedModel \/ InsertDeclared
    BY <2>8, RemoveSupersetBuilt, CreateSupersetBuilt, SeedModelBuilt, InsertDeclaredBuilt
  <2>9. CASE ClearDerived \/ InsertDerivedEdges \/ InsertInferredNodes
    BY <2>9, ClearDerivedBuilt, InsertDerivedEdgesBuilt, InsertInferredNodesBuilt
  <2>10. CASE InsertContentNodes \/ InsertEntityRefs \/ Reexport
    BY <2>10, InsertContentNodesBuilt, InsertEntityRefsBuilt, ReexportBuilt
  <2>11. CASE ExportRelationships \/ ExportInferred \/ StixExport
    BY <2>11, ExportRelationshipsBuilt, ExportInferredBuilt, StixExportBuilt
  <2>. QED
    BY <2>1, <2>3, <2>4, <2>5, <2>6, <2>7, <2>8, <2>9, <2>10, <2>11
    DEF Next, Step, BuildStep, Command
<1>3. DeriveLeavesOneLayer'
  <2>1. CASE UNCHANGED vars \/ \E s \in Sources : Reprocess(s)
    BY <2>1 DEF vars, Reprocess, LInv, DeriveLeavesOneLayer, Here, Dst, RelationshipRows
  <2>2. CASE ExportInferred
    BY <2>2, ExportInferredBuilt
  <2>3. CASE ExportRelationships \/ StixExport \/ ReturnBatch
    <3>1. job' # "derive"
      BY <2>3 DEF ExportRelationships, StixExport, ReturnBatch, LInv, OnlyBatchBuilds, OneTool,
                  SupersetSteps, DeriveSteps, AtRest
    <3>. QED  BY <3>1 DEF DeriveLeavesOneLayer
  <2>4. ASSUME ~ExportInferred, ~ExportRelationships, ~StixExport, ~ReturnBatch, Next,
               ~\E s \in Sources : Reprocess(s)
        PROVE  pc' # "returned"
    <3>1. CASE Command \/ Skip \/ BeginBuild \/ Raise \/ Abort \/ Kill
      BY <3>1 DEF Command, StartBatch, StartDerive, StartStix, Skip, BeginBuild, Raise, Abort, Kill, Goto
    <3>2. CASE BuildStep
      BY <2>4, <3>2 DEF BuildStep, Parse, RemoveCar, CreateCar, InsertEvents, ExportObject,
         WriteManifests, RemoveSuperset, CreateSuperset, SeedModel, InsertDeclared,
         ClearDerived, InsertDerivedEdges, InsertInferredNodes, InsertContentNodes,
         InsertEntityRefs, Reexport, Goto
    <3>. QED  BY <2>4, <3>1, <3>2 DEF Next, Step
  <2>. QED  BY <2>1, <2>2, <2>3, <2>4 DEF DeriveLeavesOneLayer
<1>. QED  BY <1>1, <1>2, <1>3

LEMMA InitLInv == Init => LInv
  BY InitInv DEF Init, LInv, OnlyBatchBuilds, OneTool, LayerSoFar, BuildSoFar, DeriveLeavesOneLayer,
     AtRest, BuildSteps, ParseSteps, SupersetSteps, DeriveSteps

\* A derive command that returns leaves exactly one derived layer over the rows
\* of car.db and has exported that one, whatever layer -- whole, cut short, of
\* an older parse -- it found.
THEOREM OneLayer == Spec => []DeriveLeavesOneLayer
<1>1. LInv => DeriveLeavesOneLayer
  BY DEF LInv
<1>. QED  BY <1>1, InitLInv, NextLInv, PTL DEF Spec

-----------------------------------------------------------------------------
(* What a batch reports as built.                                          *)

\* discover_sources lists each source once: it walks a set of directories and
\* sorted directory listings.
ListedOnce == \A i, j \in DOMAIN Order : Order[i] = Order[j] => i = j

\* The rest of the loop's sources, without the one it comes to next.
LEMMA TailOnce ==
  ASSUME NEW sources \in Seq(Sources), sources # << >>,
         \A i, j \in DOMAIN sources : sources[i] = sources[j] => i = j
  PROVE  /\ Head(sources) = sources[1] /\ 1 \in DOMAIN sources
         /\ \A i \in DOMAIN Tail(sources) :
              /\ i + 1 \in DOMAIN sources /\ Tail(sources)[i] = sources[i + 1]
              /\ Tail(sources)[i] # Head(sources)
         /\ \A i, j \in DOMAIN Tail(sources) : Tail(sources)[i] = Tail(sources)[j] => i = j
<1>1. Len(sources) \in Nat /\ Len(sources) # 0 /\ DOMAIN sources = 1 .. Len(sources)
  BY EmptySeq, LenProperties
<1>2. DOMAIN Tail(sources) = 1 .. Len(sources) - 1
      /\ \A i \in 1 .. Len(sources) - 1 : Tail(sources)[i] = sources[i + 1]
  BY <1>1, HeadTailProperties
<1>3. Head(sources) = sources[1]
  OBVIOUS
<1>4. \A i \in 1 .. Len(sources) - 1 : i + 1 \in 1 .. Len(sources) /\ i + 1 # 1
  BY <1>1
<1>5. \A i, j \in 1 .. Len(sources) - 1 : i + 1 = j + 1 => i = j
  BY <1>1
<1>. QED  BY <1>1, <1>2, <1>3, <1>4, <1>5

\* The directory of a source is what a report "built" says.
Good(s) == \E v \in Versions : Coherent(disk[DirOf(s)], s, v)

\* A step in one source's directory leaves the verdict on the others as it was.
LEMMA OthersStayCoherent ==
  ASSUME CInv, NamesApart, UNCHANGED <<cur, opts>>,
         UNCHANGED disk \/ \E dir : Write(dir),
         NEW s \in Sources, s # cur, result[s] = "built"
  PROVE  Good(s)'
<1>1. cur \in Sources /\ DirOf(s) \in Dirs /\ Dst \in Dirs /\ DirOf(s) # Dst
  BY DEF CInv, LInv, IInv, TypeOK, Dirs, Dst, NamesApart
<1>2. disk'[DirOf(s)] = disk[DirOf(s)]
  BY <1>1, HereAfter DEF CInv, LInv
<1>3. PICK v \in Versions : Coherent(disk[DirOf(s)], s, v)
  BY DEF CInv, BuiltIsCoherent
<1>4. Coherent(disk'[DirOf(s)], s, v)
  BY <1>2, <1>3
<1>5. Coherent(disk[DirOf(s)], s, v)'
  BY <1>4 DEF Coherent
<1>. QED  BY <1>5 DEF Good

\* Verdicts stand while no directory changes.
LEMMA VerdictsStand ==
  ASSUME BuiltIsCoherent, UNCHANGED <<disk, opts>>,
         \A s \in Sources : result'[s] = "built" => result[s] = "built"
  PROVE  BuiltIsCoherent'
<1>. SUFFICES ASSUME NEW s \in Sources, result'[s] = "built"
              PROVE  Good(s)'
  BY DEF BuiltIsCoherent, Good
<1>1. PICK v \in Versions : Coherent(disk[DirOf(s)], s, v)
  BY DEF BuiltIsCoherent
<1>2. Coherent(disk'[DirOf(s)], s, v)
  BY <1>1
<1>3. Coherent(disk[DirOf(s)], s, v)'
  BY <1>2 DEF Coherent
<1>. QED  BY <1>3 DEF Good

\* The three places where a build ends: the directory is what was asked for.
LEMMA BuiltHere ==
  ASSUME CInv, job = "batch", pc' = "next",
         ExportRelationships \/ ExportInferred \/ StixExport
  PROVE  Good(cur)'
<1>1. Here \in OutDir /\ UNCHANGED <<mem, cur, job, opts>> /\ disk'[DirOf(cur)] = Here'
      /\ DirOf(cur)' = DirOf(cur)
  BY HereType DEF CInv, LInv, IInv, ExportRelationships, ExportInferred, StixExport, Here, Dst, DirOf
<1>2. CASE ExportRelationships
  <2>1. ~opts.derive /\ ~opts.stix
    BY <1>2 DEF ExportRelationships, Continue, Goto
  <2>2. Here' = [Here EXCEPT !.rels = RelationshipRows]
    BY <1>2, HereAfter DEF ExportRelationships, CInv, LInv
  <2>3. /\ Here'.rels = RelationshipRows /\ Here'.car = Here.car /\ Here'.sources = Here.sources
        /\ Here'.jsonl = Here.jsonl /\ Here'.model = Here.model
        /\ Here'.declared = Here.declared /\ Here'.derived = Here.derived
    BY <1>1, <2>2 DEF OutDir
  <2>4. PICK v \in Versions :
          /\ mem = << <<cur, v>> >> /\ Here.car = mem /\ Here.sources = mem
          /\ \A o \in PopulatedBy[cur][v] : Here.jsonl[o] = mem
          /\ Here.derived = NoDerived /\ Here.model /\ Here.declared = mem
    BY <1>2 DEF ExportRelationships, CInv, LInv, BuildSoFar, BuildSteps, SupersetSteps,
                StoreSteps, ParseSteps
  <2>5. Coherent(Here', cur, v)
    BY <1>1, <2>1, <2>3, <2>4 DEF Coherent, RelationshipRows
  <2>. QED  BY <1>1, <2>5 DEF Good, Coherent
<1>3. CASE ExportInferred
  <2>1. ~opts.stix
    BY <1>3 DEF ExportInferred, Continue, Goto
  <2>2. Here' = [Here EXCEPT !.inferred = Here.derived.nodes]
    BY <1>3, HereAfter DEF ExportInferred, CInv, LInv
  <2>3. /\ Here'.rels = Here.rels /\ Here'.car = Here.car /\ Here'.sources = Here.sources
        /\ Here'.jsonl = Here.jsonl /\ Here'.model = Here.model
        /\ Here'.declared = Here.declared /\ Here'.derived = Here.derived
        /\ Here'.inferred = Here.derived.nodes
    BY <1>1, <2>2 DEF OutDir
  <2>4. PICK v \in Versions :
          /\ mem = << <<cur, v>> >> /\ Here.car = mem /\ Here.sources = mem
          /\ \A o \in PopulatedBy[cur][v] : Here.jsonl[o] = mem
          /\ Here.model /\ Here.declared = mem /\ opts.derive
    BY <1>3 DEF ExportInferred, CInv, LInv, BuildSoFar, BuildSteps, DeriveSteps, StoreSteps
  <2>5. Here.derived = LayerBefore("inferred", mem) /\ Here.rels = RelationshipRows
    BY <1>3 DEF ExportInferred, CInv, LInv, LayerSoFar, DeriveSteps
  <2>6. Coherent(Here', cur, v)
    BY <1>1, <2>1, <2>3, <2>4, <2>5 DEF Coherent, RelationshipRows, LayerBefore
  <2>. QED  BY <1>1, <2>6 DEF Good, Coherent
<1>4. CASE StixExport
  <2>. DEFINE bundle == [ events |-> Here.car, declared |-> Here.declared,
                          derived |-> Here.derived.edges, nodes |-> Here.derived.nodes ]
  <2>1. Here' = [Here EXCEPT !.bundle = bundle]
    BY <1>4, HereAfter DEF StixExport, CInv, LInv
  <2>2. /\ Here'.rels = Here.rels /\ Here'.car = Here.car /\ Here'.sources = Here.sources
        /\ Here'.jsonl = Here.jsonl /\ Here'.model = Here.model
        /\ Here'.declared = Here.declared /\ Here'.derived = Here.derived
        /\ Here'.inferred = Here.inferred /\ Here'.bundle = bundle
    BY <1>1, <2>1 DEF OutDir
  <2>3. PICK v \in Versions :
          /\ mem = << <<cur, v>> >> /\ Here.car = mem /\ Here.sources = mem
          /\ \A o \in PopulatedBy[cur][v] : Here.jsonl[o] = mem
          /\ Here.model /\ Here.declared = mem
          /\ Here.rels = RelationshipRows
          /\ Here.derived = IF opts.derive THEN LayerBefore("stix", mem) ELSE NoDerived
          /\ opts.derive => Here.inferred = Here.derived.nodes
    BY <1>4 DEF StixExport, CInv, LInv, BuildSoFar, BuildSteps, StoreSteps
  <2>4. Coherent(Here', cur, v)
    BY <1>1, <2>2, <2>3 DEF Coherent, RelationshipRows, LayerBefore
  <2>. QED  BY <1>1, <2>4 DEF Good, Coherent
<1>. QED  BY <1>2, <1>3, <1>4

\* A step of a build, its end apart, decides nothing.
LEMMA StepUndecided ==
  ASSUME BuildStep, ~ExportRelationships, ~ExportInferred, ~StixExport
  PROVE  UNCHANGED <<job, opts, todo, cur, result>>
  BY DEF BuildStep, Parse, RemoveCar, CreateCar, InsertEvents, ExportObject, WriteManifests,
     RemoveSuperset, CreateSuperset, SeedModel, InsertDeclared, ClearDerived,
     InsertDerivedEdges, InsertInferredNodes, InsertContentNodes, InsertEntityRefs,
     Reexport, LoopVars

LEMMA StepWrites ==
  ASSUME BuildStep
  PROVE  (UNCHANGED disk \/ \E dir : Write(dir)) /\ pc \in BuildSteps
  BY DEF BuildStep, Parse, RemoveCar, CreateCar, InsertEvents, ExportObject, WriteManifests,
     RemoveSuperset, CreateSuperset, SeedModel, InsertDeclared, ClearDerived,
     InsertDerivedEdges, InsertInferredNodes, InsertContentNodes, InsertEntityRefs,
     Reexport, ExportRelationships, ExportInferred, StixExport,
     BuildSteps, ParseSteps, SupersetSteps, DeriveSteps

LEMMA NextCInv ==
  ASSUME NamesApart, ListedOnce, CInv, [Next]_vars
  PROVE  CInv'
<1>. SUFFICES OnceEach' /\ BuiltIsCoherent'
  BY NextLInv DEF CInv
<1>. USE DEF CInv
<1>1. CASE UNCHANGED vars
  BY <1>1, VerdictsStand DEF vars, OnceEach
<1>2. CASE \E s \in Sources : Reprocess(s)
  BY <1>2, VerdictsStand DEF Reprocess, OnceEach
<1>3. CASE Command
  <2>1. \A s \in Sources : result'[s] = "none"
    BY <1>3 DEF Command, StartBatch, StartDerive, StartStix, Start
  <2>2. BuiltIsCoherent'
    BY <2>1 DEF BuiltIsCoherent
  <2>3. job' = "batch" => todo' = Order /\ pc' = "next"
    BY <1>3 DEF Command, StartBatch, StartDerive, StartStix, Start, Goto
  <2>4. \A i \in DOMAIN Order : Order[i] \in Sources
    BY BatchAssumption
  <2>5. OnceEach'
    BY <2>1, <2>3, <2>4 DEF OnceEach, ListedOnce, BuildSteps, ParseSteps, SupersetSteps, DeriveSteps
  <2>. QED  BY <2>2, <2>5
<1>4. CASE Skip \/ BeginBuild \/ ReturnBatch
  <2>1. disk' = disk /\ opts' = opts /\ job' = job /\ job = "batch" /\ pc = "next"
    BY <1>4 DEF Skip, BeginBuild, ReturnBatch, LInv, OnlyBatchBuilds
  <2>2. BuiltIsCoherent'
    BY <1>4, <2>1, VerdictsStand DEF Skip, BeginBuild, ReturnBatch, LInv, IInv, TypeOK
  <2>3. CASE ReturnBatch
    BY <2>1, <2>2, <2>3 DEF ReturnBatch, Goto, OnceEach, BuildSteps, ParseSteps, SupersetSteps, DeriveSteps
  <2>4. CASE Skip \/ BeginBuild
    <3>1. todo \in Seq(Sources) /\ todo # << >> /\ todo' = Tail(todo)
          /\ result \in [Sources -> Outcome]
      BY <2>4 DEF LInv, IInv, TypeOK, Skip, BeginBuild
    <3>2. \A i, j \in DOMAIN todo : (todo[i] = todo[j] => i = j) /\ result[todo[i]] = "none"
      BY <2>1 DEF OnceEach
    <3>3. /\ Upcoming = todo[1] /\ 1 \in DOMAIN todo /\ result[Upcoming] = "none"
          /\ \A i \in DOMAIN todo' : todo'[i] # Upcoming /\ result[todo'[i]] = "none"
                                     /\ todo'[i] \in Sources
          /\ \A i, j \in DOMAIN todo' : todo'[i] = todo'[j] => i = j
      BY <3>1, <3>2, TailOnce DEF Upcoming
    <3>4. CASE Skip
      <4>1. pc' = "next" /\ \A i \in DOMAIN todo' : result'[todo'[i]] = "none"
        BY <2>1, <3>1, <3>3, <3>4 DEF Skip
      <4>. QED  BY <2>1, <2>2, <3>3, <4>1 DEF OnceEach, BuildSteps, ParseSteps, SupersetSteps, DeriveSteps
    <3>5. CASE BeginBuild
      BY <2>1, <2>2, <3>3, <3>5 DEF BeginBuild, OnceEach
    <3>. QED  BY <2>4, <3>4, <3>5
  <2>. QED  BY <1>4, <2>3, <2>4
<1>5. CASE BuildStep /\ ~ExportRelationships /\ ~ExportInferred /\ ~StixExport
  <2>1. UNCHANGED <<job, opts, todo, cur, result>> /\ pc \in BuildSteps
        /\ (UNCHANGED disk \/ \E dir : Write(dir))
    BY <1>5, StepUndecided, StepWrites
  <2>2. OnceEach'
    BY <2>1 DEF OnceEach
  <2>3. \A s \in Sources : result'[s] = "built" => s # cur /\ result[s] = "built"
    BY <2>1 DEF OnceEach
  <2>4. BuiltIsCoherent'
    BY <2>1, <2>3, OthersStayCoherent DEF BuiltIsCoherent, Good
  <2>. QED  BY <2>2, <2>4
<1>6. CASE ExportRelationships \/ ExportInferred \/ StixExport
  <2>1. /\ UNCHANGED <<job, opts, todo, cur>> /\ pc \in BuildSteps
        /\ (UNCHANGED disk \/ \E dir : Write(dir))
    BY <1>6, StepWrites DEF BuildStep, ExportRelationships, ExportInferred, StixExport
  <2>2. /\ \/ job = "batch" /\ pc' = "next" /\ result' = [result EXCEPT ![cur] = "built"]
           \/ UNCHANGED result /\ pc' \in BuildSteps \cup {"returned"}
    BY <1>6 DEF ExportRelationships, ExportInferred, StixExport, Continue, Goto, BuildSteps, DeriveSteps
  <2>3. result \in [Sources -> Outcome] /\ cur \in Sources /\ todo \in Seq(Sources)
        /\ \A i \in DOMAIN todo : todo[i] \in Sources
    BY DEF LInv, IInv, TypeOK
  <2>4. OnceEach'
    <3>1. CASE UNCHANGED result /\ pc' \in BuildSteps \cup {"returned"}
      BY <2>1, <3>1 DEF OnceEach
    <3>2. CASE job = "batch" /\ pc' = "next" /\ result' = [result EXCEPT ![cur] = "built"]
      BY <2>1, <2>3, <3>2 DEF OnceEach, BuildSteps, ParseSteps, SupersetSteps, DeriveSteps
    <3>. QED  BY <2>2, <3>1, <3>2
  <2>5. \A s \in Sources : result'[s] = "built" /\ s # cur => result[s] = "built"
    BY <2>2, <2>3
  <2>6. result'[cur] = "built" => job = "batch" /\ pc' = "next"
    BY <2>1, <2>2, <2>3 DEF OnceEach
  <2>7. BuiltIsCoherent'
    <3>. SUFFICES ASSUME NEW s \in Sources, result'[s] = "built"
                  PROVE  Good(s)'
      BY DEF BuiltIsCoherent, Good
    <3>1. CASE s = cur
      BY <1>6, <2>1, <2>6, <3>1, BuiltHere DEF Good
    <3>2. CASE s # cur
      BY <2>1, <2>5, <3>2, OthersStayCoherent
    <3>. QED  BY <3>1, <3>2
  <2>. QED  BY <2>4, <2>7
<1>7. CASE Raise \/ Abort \/ Kill
  <2>1. UNCHANGED <<job, opts, todo, cur>> /\ pc' \notin BuildSteps
        /\ (UNCHANGED disk \/ \E dir : Write(dir))
    BY <1>7 DEF Raise, Abort, Kill, Fault, Goto, BuildSteps, ParseSteps, SupersetSteps, DeriveSteps
  <2>2. result \in [Sources -> Outcome] /\ cur \in Sources
        /\ \A i \in DOMAIN todo : todo[i] \in Sources
    BY DEF LInv, IInv, TypeOK
  <2>3. \/ UNCHANGED result /\ pc' \in AtRest /\ pc \in BuildSteps
        \/ UNCHANGED <<result, disk>> /\ pc' \in AtRest
        \/ /\ pc \in BuildSteps /\ job = "batch" /\ result' = [result EXCEPT ![cur] = "error"]
    BY <1>7 DEF Raise, Abort, Kill, Goto, AtRest, BuildSteps, ParseSteps, SupersetSteps, DeriveSteps,
                LInv, IInv, TypeOK
  <2>4. OnceEach'
    BY <2>1, <2>2, <2>3 DEF OnceEach, AtRest
  <2>5. CASE UNCHANGED <<result, disk>>
    BY <2>1, <2>4, <2>5, VerdictsStand
  <2>6. CASE pc \in BuildSteps
    <3>1. \A s \in Sources : result'[s] = "built" => s # cur /\ result[s] = "built"
      BY <2>1, <2>2, <2>3, <2>6 DEF OnceEach
    <3>2. BuiltIsCoherent'
      BY <2>1, <3>1, OthersStayCoherent DEF BuiltIsCoherent, Good
    <3>. QED  BY <2>4, <3>2
  <2>. QED  BY <2>3, <2>4, <2>5, <2>6
<1>. QED  BY <1>1, <1>2, <1>3, <1>4, <1>5, <1>6, <1>7 DEF Next, Step

\* A source a batch reports as built has every output the flags asked for, all
\* of one parse: whatever died in its directory before, and although its
\* evidence may change at any moment.
THEOREM BuiltWhole ==
  ASSUME NamesApart, ListedOnce
  PROVE  Spec => []BuiltIsCoherent
<1>1. Init => CInv
  BY InitLInv DEF Init, CInv, OnceEach, BuiltIsCoherent
<1>2. CInv /\ [Next]_vars => CInv'
  BY NextCInv
<1>3. CInv => BuiltIsCoherent
  BY DEF CInv
<1>. QED  BY <1>1, <1>2, <1>3, PTL DEF Spec

=============================================================================
