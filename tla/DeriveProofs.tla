---------------------------- MODULE DeriveProofs ----------------------------
(***************************************************************************)
(* What a pass over a source finds, infers and counts, proved of any rows, *)
(* in memory or read back from the store.                                  *)
(*                                                                         *)
(* The rows.  The events of a pass are the rows of car.db, whole or        *)
(* without their transient references, all of them once the loading is     *)
(* over (FromCar, Covered); so what they show as observed is what car.db   *)
(* shows (ObservedSame), and a node that was not observed among the events *)
(* of one pass is not observed at all, whichever pass reads the table      *)
(* later (NodesLost, TableLost).                                           *)
(*                                                                         *)
(* The walks.  Each phase walks its rules and, for each, the events; what  *)
(* it must have drawn is said of the pairs its cursors are past, and that  *)
(* it has drawn nothing else of every edge:                                *)
(*   references  Met, Drawn, and Rooted for the nodes between them;        *)
(*   links       LinkMade, LinkMeant, and LinkedOnce for the first hash    *)
(*               that joins two records;                                   *)
(*   contents    Counted, Traced over the fields that were read.           *)
(* Tabled and ContentTabled carry what a phase collected to superset.db.   *)
(*                                                                         *)
(* One pass and the next.  The events of a later pass are the rows of      *)
(* car.db shuffled (Filed), those of one object in their order; what a     *)
(* pass leaves of links, references, counts and missing processes does not *)
(* depend on more (Shuffled..., Settled), and so two passes over one       *)
(* car.db can be compared though their intermediate states cannot.  That a *)
(* third pass leaves the very tables of the second needs no description of *)
(* them: a pass is a function of its events (Course, Determined).          *)
(***************************************************************************)
EXTENDS Derive, ListLemmas

Version(i, j) == events[i] = car[j] \/ events[i] = Stored(car[j])
FromCar == \A i \in DOMAIN events : \E j \in DOMAIN car : Version(i, j)

\* The rows load_events has read when it is at object k, row n.
Loaded(j) ==
  \/ \E o \in DOMAIN ObjectOrder : o < k /\ ObjectOrder[o] = car[j].obj
  \/ ObjectOrder[k] = car[j].obj /\ j < n
Covered == \A j \in DOMAIN car :
             pc # "load" \/ Loaded(j) => \E i \in DOMAIN events : Version(i, j)

Cursors ==
  /\ k \in Nat \ {0} /\ n \in Nat \ {0}
  /\ pc = "load" => k <= Len(ObjectOrder) /\ n <= Len(car)
  /\ pc = "clear" => k = 1 /\ n = 1
  /\ pc \in {"links", "reconstruct", "content"} => n <= Len(events)
  /\ pc = "links" => k <= Len(LinkSteps)
  /\ pc = "reconstruct" => k <= Len(Rules)
  /\ pc = "content" => k <= Len(Identities)

Lost(h, g) == << h, "process", g >> \notin Observed(car)
NodesLost == \A h \in Hosts, g \in Guids : nodes[<< h, g >>].by # {} => Lost(h, g)
LatestMade == \A g \in Guids : latest[g] # Blank => nodes[<< latest[g], g >>].by # {}
TableLost == \A g \in Guids : db.nodes[g].host # Blank => Lost(db.nodes[g].host, g)
NoLoops == \A e \in edges \cup db.edges \cup db.declared : e.src # e.tgt

DInv ==
  /\ TypeOK /\ car \in Inputs /\ Cursors /\ FromCar /\ Covered
  /\ NodesLost /\ LatestMade /\ TableLost /\ NoLoops

-----------------------------------------------------------------------------
(* The rows of a pass.                                                     *)

LEMMA InputRows ==
  ASSUME car \in Inputs
  PROVE  car \in Seq(Row) /\ car # << >> /\ Enriched(car) /\ Len(car) \in Nat \ {0}
<1>1. car \in Seq(Row) /\ car # << >> /\ Enriched(car)
  BY DeriveAssumption
<1>. QED  BY <1>1, EmptySeq

LEMMA StoredType ==
  ASSUME NEW r \in Row
  PROVE  /\ Stored(r) \in Row
         /\ Stored(r).host = r.host /\ Stored(r).obj = r.obj /\ Stored(r).guid = r.guid
         /\ Stored(r).owning = r.owning /\ Stored(r).injectRef = r.injectRef
<1>1. Blank \in Link(Guids) /\ Blank \in Link(Offsets)
  BY DEF Link
<1>. DEFINE s == [ r EXCEPT !.owningRef = Blank, !.owningAt = Blank ]
<1>2. s \in Row
  BY <1>1 DEF Row
<1>3. /\ s.host = r.host /\ s.obj = r.obj /\ s.guid = r.guid
      /\ s.owning = r.owning /\ s.injectRef = r.injectRef
  BY DEF Row
<1>. QED  BY <1>2, <1>3 DEF Stored

LEMMA VersionRow ==
  ASSUME car \in Seq(Row), events \in Seq(Row),
         NEW i \in DOMAIN events, NEW j \in DOMAIN car, Version(i, j)
  PROVE  /\ events[i] \in Row /\ car[j] \in Row
         /\ events[i].host = car[j].host /\ events[i].obj = car[j].obj
         /\ events[i].guid = car[j].guid /\ events[i].owning = car[j].owning
         /\ events[i].injectRef = car[j].injectRef
<1>1. events[i] \in Row /\ car[j] \in Row
  BY ElementOfSeq
<1>. QED  BY <1>1, StoredType DEF Version

LEMMA ObservedSame ==
  ASSUME DInv, pc # "load"
  PROVE  Observed(events) = Observed(car)
<1>0. car \in Seq(Row) /\ events \in Seq(Row)
  BY DEF DInv, TypeOK
<1>1. ASSUME NEW i \in DOMAIN events, events[i].guid # Blank
      PROVE  << events[i].host, events[i].obj, events[i].guid >> \in Observed(car)
  <2>1. PICK j \in DOMAIN car : Version(i, j)
    BY DEF DInv, FromCar
  <2>. QED  BY <1>0, <1>1, <2>1, VersionRow DEF Observed, RangeOf
<1>2. ASSUME NEW j \in DOMAIN car, car[j].guid # Blank
      PROVE  << car[j].host, car[j].obj, car[j].guid >> \in Observed(events)
  <2>1. PICK i \in DOMAIN events : Version(i, j)
    BY DEF DInv, Covered
  <2>. QED  BY <1>0, <1>2, <2>1, VersionRow DEF Observed, RangeOf
<1>. QED  BY <1>1, <1>2 DEF Observed, RangeOf

LEMMA EventsThere ==
  ASSUME DInv, pc # "load"
  PROVE  Len(events) \in Nat \ {0}
<1>1. Len(car) \in Nat \ {0} /\ car \in Seq(Row) /\ events \in Seq(Row)
  BY InputRows DEF DInv, TypeOK
<1>2. 1 \in DOMAIN car
  BY <1>1
<1>3. PICK i \in DOMAIN events : Version(i, 1)
  BY <1>2 DEF DInv, Covered
<1>. QED  BY <1>1, <1>3

-----------------------------------------------------------------------------
(* The types of what the pass collects.                                    *)

LinkRules == {"process_image_content", "http_file_transfer"}

LEMMA LinkStepsType ==
  /\ LinkSteps \in Seq(LinkRules \X Keys) /\ Len(LinkSteps) \in Nat \ {0}
  /\ \A i \in 1 .. Len(LinkSteps) : LinkSteps[i][1] \in LinkRules /\ LinkSteps[i][2] \in Keys
<1>1. /\ HashFields \in Seq(ContentFields)
      /\ DOMAIN HashFields = 1 .. Len(HashFields) /\ Len(HashFields) \in Nat
  BY DeriveAssumption
<1>2. [ i \in DOMAIN HashFields |-> << "process_image_content", HashFields[i] >> ] \in Seq(LinkRules \X Keys)
  <2>1. \A i \in 1 .. Len(HashFields) : HashFields[i] \in Keys
    BY <1>1 DEF Keys, RangeOf
  <2>2. [ i \in DOMAIN HashFields |-> << "process_image_content", HashFields[i] >> ]
          \in [1 .. Len(HashFields) -> LinkRules \X Keys]
    BY <2>1, <1>1 DEF LinkRules
  <2>. QED  BY <1>1, <2>2, SeqDef
<1>3. << << "http_file_transfer", "native.resp_fuids" >> >> \in Seq(LinkRules \X Keys)
  <2>1. << "http_file_transfer", "native.resp_fuids" >> \in LinkRules \X Keys
    BY DEF LinkRules, Keys
  <2>. QED  BY <2>1
<1>4. LinkSteps \in Seq(LinkRules \X Keys) /\ Len(LinkSteps) \in Nat \ {0}
  BY <1>2, <1>3, ConcatProperties DEF LinkSteps
<1>5. \A i \in 1 .. Len(LinkSteps) : LinkSteps[i] \in LinkRules \X Keys
  BY <1>4, ElementOfSeq
<1>. QED  BY <1>4, <1>5

LEMMA RulesType ==
  /\ Len(Rules) = 4 /\ \A i \in 1 .. 4 : Rules[i] \in RuleNames
  /\ Len(Identities) = 2 /\ \A i \in 1 .. 2 : Identities[i] \in {"hash", "sid"}
  BY DEF Rules, RuleNames, Identities

LEMMA RolesFinite ==
  ASSUME NEW ident \in {"hash", "sid"}, NEW id, NEW r
  PROVE  Cardinality(Roles(ident, id, r)) \in Nat
<1>. DEFINE fields == IF ident = "hash" THEN HashFields ELSE AccountFields
<1>1. fields \in Seq(ContentFields)
  BY DeriveAssumption
<1>2. Len(fields) \in Nat /\ DOMAIN fields = 1 .. Len(fields)
  BY <1>1
<1>3. IsFiniteSet(1 .. Len(fields))
  BY <1>2, FS_Interval
<1>4. fields \in Surjection(1 .. Len(fields), RangeOf(fields))
  BY <1>1, <1>2 DEF Surjection, RangeOf
<1>5. IsFiniteSet(FieldsOf(ident))
  BY <1>3, <1>4, FS_Surjection DEF FieldsOf
<1>6. Roles(ident, id, r) \in SUBSET FieldsOf(ident)
  BY DEF Roles
<1>. QED  BY <1>5, <1>6, FS_Subset, FS_CardinalityType

LEMMA EdgeType ==
  ASSUME NEW r \in Row, NEW rel \in Relations, NEW so \in EndObjects, NEW src \in Link(Guids),
         NEW to \in EndObjects, NEW tgt \in Link(Guids)
  PROVE  LET e == Edge(rel, r, so, src, to, tgt)
         IN  /\ e.src = src /\ e.tgt = tgt
             /\ src # Blank => e \in EdgeSet
<1>1. r.host \in Hosts /\ "" \in Keys /\ (src # Blank => src \in Guids)
  BY DEF Row, Keys, Link
<1>. QED  BY <1>1 DEF Edge, EdgeSet

LEMMA DeclaredType ==
  ASSUME NEW r \in Row
  PROVE  /\ DeclaredOf(r) \subseteq EdgeSet
         /\ \A e \in DeclaredOf(r) : e.src # e.tgt
<1>. SUFFICES ASSUME NEW e \in DeclaredOf(r) PROVE e \in EdgeSet /\ e.src # e.tgt
  OBVIOUS
<1>1. e \in Resolved(r) /\ e.src \notin {Blank, e.tgt}
  BY DEF DeclaredOf
<1>2. PICK rel \in Relations, so \in EndObjects, src \in Link(Guids), to \in EndObjects, tgt \in Link(Guids) :
        e = Edge(rel, r, so, src, to, tgt)
  <2>1. /\ r.obj \in Objects /\ r.guid \in Link(Guids) /\ r.owning \in Link(Guids)
        /\ r.parent \in Link(Guids) /\ r.accessed \in Link(Guids) /\ r.executedAs \in Link(Guids)
        /\ r.injected \in Link(Guids) /\ r.sessions \subseteq Guids
    BY DEF Row
  <2>2. /\ r.obj \in EndObjects /\ {"process", "file", "user_session"} \subseteq EndObjects
        /\ r.sessions \subseteq Link(Guids)
        /\ { "spoke_owner", "parent_process", "process_access", "file_executed",
             "thread_injection", "auth_session" } \subseteq Relations
    BY <2>1 DEF EndObjects, Relations, Link
  <2>3. \/ e = Edge("spoke_owner", r, "process", r.owning, r.obj, r.guid)
        \/ e = Edge("parent_process", r, "process", r.parent, "process", r.guid)
        \/ e = Edge("process_access", r, "process", r.owning, "process", r.accessed)
        \/ e = Edge("file_executed", r, "process", r.executedAs, "file", r.guid)
        \/ e = Edge("thread_injection", r, "process", r.owning, "process", r.injected)
        \/ \E s \in r.sessions : e = Edge("auth_session", r, r.obj, r.guid, "user_session", s)
    BY <1>1 DEF Resolved
  <2>4. CASE e = Edge("spoke_owner", r, "process", r.owning, r.obj, r.guid)
    BY <2>1, <2>2, <2>4
  <2>5. CASE e = Edge("parent_process", r, "process", r.parent, "process", r.guid)
    BY <2>1, <2>2, <2>5
  <2>6. CASE e = Edge("process_access", r, "process", r.owning, "process", r.accessed)
    BY <2>1, <2>2, <2>6
  <2>7. CASE e = Edge("file_executed", r, "process", r.executedAs, "file", r.guid)
    BY <2>1, <2>2, <2>7
  <2>8. CASE e = Edge("thread_injection", r, "process", r.owning, "process", r.injected)
    BY <2>1, <2>2, <2>8
  <2>9. CASE \E s \in r.sessions : e = Edge("auth_session", r, r.obj, r.guid, "user_session", s)
    BY <2>1, <2>2, <2>9
  <2>. QED  BY <2>3, <2>4, <2>5, <2>6, <2>7, <2>8, <2>9
<1>3. e.src = src
  BY <1>2, EdgeType
<1>. QED  BY <1>1, <1>2, <1>3, EdgeType

\* An edge of a link joins two records with different guids.
LEMMA LinkedType ==
  ASSUME TypeOK, NEW step \in LinkRules \X Keys, NEW s \in Row, NEW t \in Linked(step, s)
  PROVE  /\ LinkEdge(step, s, events[t]) \in EdgeSet
         /\ LinkEdge(step, s, events[t]).src # LinkEdge(step, s, events[t]).tgt
<1>1. /\ s.guid # Blank /\ t \in DOMAIN events /\ events[t].guid \notin {Blank, s.guid}
  BY DEF Linked, Disambiguate, Candidates
<1>2. events[t] \in Row
  BY <1>1, ElementOfSeq DEF TypeOK
<1>3. /\ s.guid \in Guids /\ events[t].guid \in Guids /\ s.host \in Hosts
      /\ s.obj \in EndObjects /\ events[t].obj \in EndObjects
  BY <1>1, <1>2 DEF Row, Link, EndObjects
<1>4. step[1] \in Relations /\ step[2] \in Keys
  BY DEF LinkRules, Relations
<1>. QED  BY <1>1, <1>3, <1>4 DEF LinkEdge, EdgeSet, Link

-----------------------------------------------------------------------------
(* The invariant and the steps.                                            *)

LEMMA Advanced ==
  ASSUME NEW rows, NEW rules, NEW phase, Advance(rows, rules, phase),
         Len(rows) \in Nat \ {0}, Len(rules) \in Nat \ {0},
         n \in Nat \ {0}, k \in Nat \ {0}, n <= Len(rows), k <= Len(rules)
  PROVE  /\ n' \in Nat \ {0} /\ k' \in Nat \ {0}
         /\ \/ pc' = pc /\ n' <= Len(rows) /\ k' <= Len(rules)
            \/ pc' = phase /\ n' = 1 /\ k' = 1
BY DEF Advance

\* What a step that leaves the events alone leaves true of them.
LEMMA RowsStay ==
  ASSUME DInv, pc # "load", pc' # "load", UNCHANGED << events, car >>
  PROVE  FromCar' /\ Covered' /\ (car \in Inputs)' /\ Observed(car') = Observed(car)
BY DEF DInv, FromCar, Covered, Version

LEMMA InitInv == Init => DInv
<1>. SUFFICES ASSUME Init PROVE DInv
  OBVIOUS
<1>1. car \in Inputs /\ events = car /\ car \in Seq(Row) /\ Len(car) \in Nat \ {0}
  BY InputRows DEF Init
<1>2. \A e \in Declared(car) : e \in EdgeSet /\ e.src # e.tgt
  <2>1. \A r \in RangeOf(car) : r \in Row
    BY <1>1, ElementOfSeq DEF RangeOf
  <2>. QED  BY <2>1, DeclaredType DEF Declared
<1>3. /\ NoNodes \in [Hosts \X Guids -> Node] /\ NoNodeRows \in [Guids -> NodeRow]
      /\ NoEntities \in [ContentIds -> Entity]
      /\ [ g \in Guids |-> Blank ] \in [Guids -> Link(Hosts)]
  <2>1. NoNode \in Node /\ Blank \in Link(Hosts) /\ Blank \in Link(Sayings)
    BY DEF NoNode, Node, Link
  <2>. QED  BY <2>1 DEF NoNodes, NoNodeRows, NodeRow, NoEntities, Entity
<1>4. db \in Tables
  BY <1>2, <1>3 DEF Init, Tables
<1>5. 1 \in 1 .. MaxPasses
  BY DeriveAssumption
<1>6. TypeOK
  BY <1>1, <1>3, <1>4, <1>5 DEF TypeOK, Init, Phases
<1>7. Cursors
  BY DEF Init, Cursors
<1>8. FromCar /\ Covered
  BY <1>1 DEF FromCar, Covered, Version
<1>9. NodesLost /\ LatestMade /\ TableLost /\ NoLoops
  BY <1>2 DEF NodesLost, LatestMade, TableLost, NoLoops, Init, NoNodes, NoNode, NoNodeRows
<1>. QED  BY <1>1, <1>6, <1>7, <1>8, <1>9 DEF DInv

LEMMA EmptyTypes ==
  /\ NoNodes \in [Hosts \X Guids -> Node] /\ NoNodeRows \in [Guids -> NodeRow]
  /\ NoEntities \in [ContentIds -> Entity]
  /\ [ g \in Guids |-> Blank ] \in [Guids -> Link(Hosts)]
<1>1. NoNode \in Node /\ Blank \in Link(Hosts) /\ Blank \in Link(Sayings)
  BY DEF NoNode, Node, Link
<1>. QED  BY <1>1 DEF NoNodes, NoNodeRows, NodeRow, NoEntities, Entity

LEMMA ClearInv == DInv /\ ClearDerived => DInv'
<1>. SUFFICES ASSUME DInv, ClearDerived PROVE DInv'
  OBVIOUS
<1>1. UNCHANGED << car, before, passes, events, k, n >> /\ pc = "clear" /\ pc' = "links"
  BY DEF ClearDerived, Stay
<1>2. /\ db' = [ db EXCEPT !.edges = {}, !.nodes = NoNodeRows, !.content = NoEntities, !.refs = {} ]
      /\ edges' = {} /\ nodes' = NoNodes /\ content' = NoEntities /\ refs' = {}
      /\ latest' = [ g \in Guids |-> Blank ]
  BY DEF ClearDerived
<1>3. db \in Tables /\ db.declared \in SUBSET EdgeSet
  BY DEF DInv, TypeOK, Tables
<1>4. db' \in Tables /\ db'.edges = {} /\ db'.nodes = NoNodeRows /\ db'.declared = db.declared
  BY <1>2, <1>3, EmptyTypes DEF Tables
<1>5. TypeOK'
  BY <1>1, <1>2, <1>4, EmptyTypes DEF DInv, TypeOK, Phases
<1>6. FromCar' /\ Covered' /\ (car \in Inputs)'
  BY <1>1, RowsStay
<1>7. Cursors'
  BY <1>1, EventsThere, LinkStepsType DEF DInv, Cursors
<1>8. NodesLost' /\ LatestMade'
  BY <1>2 DEF NodesLost, LatestMade, NoNodes, NoNode
<1>9. TableLost'
  BY <1>4 DEF TableLost, NoNodeRows
<1>10. NoLoops'
  BY <1>2, <1>4 DEF DInv, NoLoops
<1>. QED  BY <1>5, <1>6, <1>7, <1>8, <1>9, <1>10 DEF DInv

LEMMA LinkSourceInv == DInv /\ LinkSource => DInv'
<1>. SUFFICES ASSUME DInv, LinkSource PROVE DInv'
  OBVIOUS
<1>1. /\ UNCHANGED << car, before, passes, events, nodes, content, refs, latest, db >>
      /\ pc = "links" /\ Advance(events, LinkSteps, "reconstruct")
  BY DEF LinkSource, Stay
<1>2. /\ k \in Nat \ {0} /\ n \in Nat \ {0} /\ n <= Len(events) /\ k <= Len(LinkSteps)
      /\ Len(events) \in Nat \ {0} /\ Len(LinkSteps) \in Nat \ {0}
  BY <1>1, EventsThere, LinkStepsType DEF DInv, Cursors
<1>3. /\ n' \in Nat \ {0} /\ k' \in Nat \ {0}
      /\ \/ pc' = "links" /\ n' <= Len(events) /\ k' <= Len(LinkSteps)
         \/ pc' = "reconstruct" /\ n' = 1 /\ k' = 1
  BY <1>1, <1>2, Advanced
<1>4. Cursors'
  BY <1>1, <1>2, <1>3, RulesType DEF Cursors
<1>5. FromCar' /\ Covered' /\ (car \in Inputs)'
  BY <1>1, <1>3, RowsStay
<1>6. \A e \in edges' \ edges : e \in EdgeSet /\ e.src # e.tgt
  <2>1. events[n] \in Row /\ LinkSteps[k] \in LinkRules \X Keys
    BY <1>2, LinkStepsType, ElementOfSeq DEF DInv, TypeOK
  <2>. SUFFICES ASSUME NEW e \in edges' \ edges PROVE e \in EdgeSet /\ e.src # e.tgt
    OBVIOUS
  <2>2. PICK t \in Linked(LinkSteps[k], events[n]) : e = LinkEdge(LinkSteps[k], events[n], events[t])
    BY DEF LinkSource
  <2>. QED  BY <2>1, <2>2, LinkedType DEF DInv
<1>7. TypeOK'
  BY <1>1, <1>3, <1>6 DEF DInv, TypeOK, Phases
<1>8. NodesLost' /\ LatestMade' /\ TableLost'
  BY <1>1 DEF DInv, NodesLost, LatestMade, TableLost, Lost
<1>9. NoLoops'
  BY <1>1, <1>6 DEF DInv, NoLoops
<1>. QED  BY <1>4, <1>5, <1>7, <1>8, <1>9 DEF DInv

\* What a lost process is, and what the pass makes of it.
LEMMA LostType ==
  ASSUME DInv, pc = "reconstruct", NEW rule \in RuleNames, n <= Len(events),
         IsLost(rule, events[n])
  PROVE  /\ events[n].host \in Hosts /\ Referred(rule, events[n]) \in Guids
         /\ ObservedEnd(rule, events[n])[1] \in EndObjects
         /\ ObservedEnd(rule, events[n])[2] \in Guids
         /\ events[n].said \in Link(Sayings)
         /\ Lost(events[n].host, Referred(rule, events[n]))
         /\ ObservedEnd(rule, events[n])[2] # Referred(rule, events[n])
<1>. DEFINE r == events[n]
<1>1. n \in DOMAIN events /\ r \in Row /\ events \in Seq(Row)
  BY ElementOfSeq DEF DInv, TypeOK, Cursors
<1>2. /\ r.host \in Hosts /\ r.obj \in EndObjects /\ r.said \in Link(Sayings)
      /\ r.guid \in Link(Guids) /\ r.owning \in Link(Guids) /\ r.owningRef \in Link(Guids)
      /\ r.owningAt \in Link(Offsets) /\ r.parentRef \in Link(Guids) /\ r.injectRef \in Link(Guids)
  BY <1>1 DEF Row, EndObjects
<1>3. /\ r.guid # Blank /\ Referred(rule, r) \notin {Blank, r.guid}
      /\ ObservedEnd(rule, r)[2] # Blank /\ ~IsObserved(<< r.host, Referred(rule, r) >>)
  BY DEF IsLost
<1>4. r.owningAt # Blank => Mint[r.owningAt] \in Link(Guids)
  BY <1>2, DeriveAssumption DEF Link
<1>5. Referred(rule, r) \in Link(Guids)
  BY <1>2, <1>4 DEF Referred, RuleNames, Link
<1>6. ObservedEnd(rule, r)[1] \in EndObjects /\ ObservedEnd(rule, r)[2] \in Link(Guids)
  BY <1>2 DEF ObservedEnd, EndObjects
<1>7. Lost(r.host, Referred(rule, r))
  BY <1>3, ObservedSame DEF IsObserved, Lost
<1>8. ObservedEnd(rule, r)[2] # Referred(rule, r)
  <2>1. CASE rule # "injection_target"
    BY <2>1, <1>3 DEF ObservedEnd
  <2>2. CASE rule = "injection_target"
    <3>1. r.owning # Blank /\ Referred(rule, r) = r.injectRef /\ ObservedEnd(rule, r)[2] = r.owning
      BY <2>2, <1>3 DEF ObservedEnd, Referred
    <3>2. PICK j \in DOMAIN car : Version(n, j)
      BY <1>1 DEF DInv, FromCar
    <3>3. /\ car \in Seq(Row) /\ Enriched(car)
      BY InputRows DEF DInv
    <3>4. car[j].owning = r.owning /\ car[j].injectRef = r.injectRef /\ car[j].host = r.host
      BY <1>1, <3>2, <3>3, VersionRow
    <3>5. << car[j].host, "process", car[j].owning >> \in Observed(car)
      BY <3>1, <3>3, <3>4, <1>3 DEF Enriched, RangeOf
    <3>. QED  BY <1>7, <3>1, <3>4, <3>5 DEF Lost
  <2>. QED  BY <2>1, <2>2
<1>. QED  BY <1>2, <1>3, <1>5, <1>6, <1>7, <1>8 DEF Link

LEMMA CorroboratedType ==
  ASSUME NEW node \in Node, NEW rule \in RuleNames, NEW r,
         ObservedEnd(rule, r)[2] \in Guids, r.said \in Link(Sayings)
  PROVE  Corroborated(node, rule, r) \in Node /\ Corroborated(node, rule, r).by # {}
<1>1. /\ node.by \in SUBSET Guids /\ node.rules \in SUBSET RuleNames
      /\ node.said \in Link(Sayings) /\ node.others \in SUBSET Sayings
  BY DEF Node
<1>2. (IF node.said = Blank THEN r.said ELSE node.said) \in Link(Sayings)
  BY <1>1
<1>3. node.others \cup (IF node.said = Blank THEN {} ELSE {r.said} \ {Blank, node.said}) \in SUBSET Sayings
  BY <1>1 DEF Link
<1>. QED  BY <1>1, <1>2, <1>3 DEF Corroborated, Node

LEMMA InferredEdgeType ==
  ASSUME NEW rule \in RuleNames, NEW r, r.host \in Hosts, Referred(rule, r) \in Guids,
         ObservedEnd(rule, r)[1] \in EndObjects, ObservedEnd(rule, r)[2] \in Guids,
         ObservedEnd(rule, r)[2] # Referred(rule, r)
  PROVE  InferredEdge(rule, r) \in EdgeSet /\ InferredEdge(rule, r).src # InferredEdge(rule, r).tgt
<1>. DEFINE seen == ObservedEnd(rule, r)
            rel == CASE rule = "parent_process"   -> "parent_process"
                     [] rule = "injection_target" -> "thread_injection"
                     [] OTHER                     -> "spoke_owner"
            edge == [ rel |-> rel, host |-> r.host, srcObj |-> "process", src |-> Referred(rule, r),
                      tgtObj |-> seen[1], tgt |-> seen[2],
                      key |-> IF rule = "owning_process_memory" THEN "offset" ELSE "guid",
                      inferred |-> "source", by |-> {seen[2]} ]
            turned == [ edge EXCEPT !.srcObj = seen[1], !.src = seen[2], !.tgtObj = "process",
                                    !.tgt = Referred(rule, r), !.inferred = "target" ]
<1>1. rel \in Relations /\ "process" \in EndObjects /\ {"offset", "guid"} \subseteq Keys
  BY DEF Relations, EndObjects, Keys
<1>2. edge \in EdgeSet /\ edge.src # edge.tgt
  <2>. HIDE DEF seen, rel
  <2>1. seen[1] \in EndObjects /\ seen[2] \in Guids /\ seen[2] # Referred(rule, r)
    BY DEF seen
  <2>. QED  BY <1>1, <2>1 DEF EdgeSet, Link
<1>3. turned \in EdgeSet /\ turned.src # turned.tgt
  <2>1. seen[1] \in EndObjects /\ seen[2] \in Guids /\ seen[2] # Referred(rule, r)
    OBVIOUS
  <2>2. turned.src = seen[2] /\ turned.tgt = Referred(rule, r)
    BY <1>2 DEF EdgeSet
  <2>. HIDE DEF edge, seen
  <2>. QED  BY <1>1, <1>2, <2>1, <2>2 DEF EdgeSet, Link
<1>4. InferredEdge(rule, r) = IF rule # "injection_target" THEN edge ELSE turned
  BY DEF InferredEdge
<1>. QED  BY <1>2, <1>3, <1>4

LEMMA ReconstructInv == DInv /\ Reconstruct => DInv'
<1>. SUFFICES ASSUME DInv, Reconstruct PROVE DInv'
  OBVIOUS
<1>. DEFINE r == events[n]
            rule == Rules[k]
            lost == << r.host, Referred(rule, r) >>
<1>1. /\ UNCHANGED << car, before, passes, events, content, refs, db >>
      /\ pc = "reconstruct" /\ Advance(events, Rules, "content")
  BY DEF Reconstruct, Stay
<1>2. /\ k \in Nat \ {0} /\ n \in Nat \ {0} /\ n <= Len(events) /\ k <= Len(Rules)
      /\ Len(events) \in Nat \ {0} /\ Len(Rules) \in Nat \ {0}
  BY <1>1, EventsThere, RulesType DEF DInv, Cursors
<1>3. /\ n' \in Nat \ {0} /\ k' \in Nat \ {0}
      /\ \/ pc' = "reconstruct" /\ n' <= Len(events) /\ k' <= Len(Rules)
         \/ pc' = "content" /\ n' = 1 /\ k' = 1
  BY <1>1, <1>2, Advanced
<1>4. Cursors'
  BY <1>1, <1>2, <1>3, RulesType DEF Cursors
<1>5. FromCar' /\ Covered' /\ (car \in Inputs)'
  BY <1>1, <1>3, RowsStay
<1>6. /\ rule \in RuleNames
      /\ edges \in SUBSET EdgeSet /\ nodes \in [Hosts \X Guids -> Node] /\ latest \in [Guids -> Link(Hosts)]
      /\ NodesLost /\ LatestMade /\ NoLoops
  BY <1>2, RulesType DEF DInv, TypeOK
<1>7. /\ edges' \in SUBSET EdgeSet /\ nodes' \in [Hosts \X Guids -> Node]
      /\ latest' \in [Guids -> Link(Hosts)]
      /\ NodesLost' /\ LatestMade' /\ \A e \in edges' : e.src # e.tgt
  <2>1. CASE ~IsLost(rule, r)
    <3>1. UNCHANGED << nodes, latest, edges, car >>
      BY <1>1, <2>1 DEF Reconstruct
    <3>. QED  BY <3>1, <1>6 DEF NodesLost, LatestMade, NoLoops, Lost
  <2>2. CASE IsLost(rule, r)
    <3>1. /\ nodes' = [ nodes EXCEPT ![lost] = Corroborated(@, rule, r) ]
          /\ latest' = IF nodes[lost].by # {} THEN latest
                       ELSE [ latest EXCEPT ![lost[2]] = r.host ]
          /\ edges' = edges \cup { InferredEdge(rule, r) }
      BY <2>2 DEF Reconstruct
    <3>2. /\ r.host \in Hosts /\ Referred(rule, r) \in Guids
          /\ ObservedEnd(rule, r)[1] \in EndObjects
          /\ ObservedEnd(rule, r)[2] \in Guids
          /\ r.said \in Link(Sayings)
          /\ Lost(r.host, Referred(rule, r))
          /\ ObservedEnd(rule, r)[2] # Referred(rule, r)
      BY <1>1, <1>2, <1>6, <2>2, LostType
    <3>3. lost \in Hosts \X Guids /\ lost = << r.host, lost[2] >> /\ lost[2] \in Guids
      BY <3>2
    <3>4. Corroborated(nodes[lost], rule, r) \in Node /\ Corroborated(nodes[lost], rule, r).by # {}
      BY <1>6, <3>2, <3>3, CorroboratedType
    <3>5. InferredEdge(rule, r) \in EdgeSet /\ InferredEdge(rule, r).src # InferredEdge(rule, r).tgt
      BY <1>6, <3>2, InferredEdgeType
    <3>6. Lost(lost[1], lost[2])
      BY <3>2
    <3>7. r.host \in Link(Hosts)
      BY <3>2 DEF Link
    <3>. HIDE DEF lost, r, rule
    <3>8. nodes'[lost].by # {} /\ \A x \in Hosts \X Guids : x # lost => nodes'[x] = nodes[x]
      BY <3>1, <3>3, <3>4, <1>6
    <3>9. nodes' \in [Hosts \X Guids -> Node] /\ latest' \in [Guids -> Link(Hosts)]
      BY <3>1, <3>3, <3>4, <3>7, <1>6
    <3>10. NodesLost'
      <4>. SUFFICES ASSUME NEW h \in Hosts, NEW g \in Guids, nodes'[<< h, g >>].by # {} PROVE Lost(h, g)'
        BY DEF NodesLost
      <4>1. Lost(h, g)
        BY <3>3, <3>6, <3>8, <1>6 DEF NodesLost
      <4>. QED  BY <4>1, <1>1 DEF Lost
    <3>11. LatestMade'
      <4>. SUFFICES ASSUME NEW g \in Guids, latest'[g] # Blank PROVE nodes'[<< latest'[g], g >>].by # {}
        BY DEF LatestMade
      <4>1. CASE << latest'[g], g >> = lost
        BY <4>1, <3>8
      <4>2. CASE << latest'[g], g >> # lost
        <5>1. latest'[g] = latest[g]
          BY <4>2, <3>1, <3>3, <1>6
        <5>2. latest[g] \in Hosts
          BY <5>1, <1>6 DEF Link
        <5>. QED  BY <4>2, <5>1, <5>2, <3>8, <1>6 DEF LatestMade
      <4>. QED  BY <4>1, <4>2
    <3>. QED  BY <3>1, <3>5, <3>9, <3>10, <3>11, <1>6 DEF NoLoops
  <2>. QED  BY <2>1, <2>2
<1>8. TypeOK'
  BY <1>1, <1>3, <1>7 DEF DInv, TypeOK, Phases
<1>9. TableLost' /\ NoLoops'
  BY <1>1, <1>7 DEF DInv, TableLost, Lost, NoLoops
<1>. QED  BY <1>4, <1>5, <1>7, <1>8, <1>9 DEF DInv

LEMMA ReferInv == DInv /\ Refer => DInv'
<1>. SUFFICES ASSUME DInv, Refer PROVE DInv'
  OBVIOUS
<1>. DEFINE r == events[n]
            ident == Identities[k]
<1>1. /\ UNCHANGED << car, before, passes, events, edges, nodes, latest, db >>
      /\ pc = "content" /\ Advance(events, Identities, "store")
  BY DEF Refer, Stay
<1>2. /\ k \in Nat \ {0} /\ n \in Nat \ {0} /\ n <= Len(events) /\ k <= Len(Identities)
      /\ Len(events) \in Nat \ {0} /\ Len(Identities) \in Nat \ {0}
  BY <1>1, EventsThere, RulesType DEF DInv, Cursors
<1>3. /\ n' \in Nat \ {0} /\ k' \in Nat \ {0}
      /\ \/ pc' = "content" /\ n' <= Len(events) /\ k' <= Len(Identities)
         \/ pc' = "store" /\ n' = 1 /\ k' = 1
  BY <1>1, <1>2, Advanced
<1>4. Cursors'
  BY <1>1, <1>2, <1>3 DEF Cursors
<1>5. FromCar' /\ Covered' /\ (car \in Inputs)'
  BY <1>1, <1>3, RowsStay
<1>6. ident \in {"hash", "sid"} /\ r \in Row
  BY <1>2, RulesType, ElementOfSeq DEF DInv, TypeOK
<1>7. /\ r.host \in Hosts /\ r.obj \in Objects /\ r.guid \in Link(Guids) /\ r.path \in Link(Paths)
      /\ r.content \in [ContentFields -> Link(Contents)]
  BY <1>6 DEF Row
<1>8. content' \in [ContentIds -> Entity]
  <2>. SUFFICES ASSUME NEW id \in ContentIds
               PROVE [ count |-> content[id].count + Cardinality(Roles(ident, id, r)),
                       context |-> WithContext(content[id].context, r.path) ] \in Entity
    <3>1. content \in [ContentIds -> Entity]
      BY DEF DInv, TypeOK
    <3>. QED  BY <3>1 DEF Refer
  <2>1. content[id].count \in Nat /\ content[id].context \in SUBSET Paths
    BY DEF DInv, TypeOK, Entity
  <2>2. Cardinality(Roles(ident, id, r)) \in Nat
    BY <1>6, RolesFinite
  <2>3. WithContext(content[id].context, r.path) \in SUBSET Paths
    BY <1>7, <2>1 DEF WithContext, Link
  <2>. HIDE DEF r, ident
  <2>. QED  BY <2>1, <2>2, <2>3 DEF Entity
<1>9. refs' \in SUBSET Ref
  <2>. SUFFICES ASSUME NEW f \in FieldsOf(ident), Carries(ident, f, r), r.guid # Blank
               PROVE [ host |-> r.host, obj |-> r.obj, guid |-> r.guid,
                       node |-> NodeOf(ident, f, r), key |-> f ] \in Ref
    BY DEF Refer, DInv, TypeOK
  <2>1. f \in ContentFields /\ (ident = "hash" => f \in RangeOf(HashFields))
    BY <1>6 DEF FieldsOf, ContentFields
  <2>2. r.content[f] \in Contents
    <3>1. Accepted[ident] \subseteq Contents
      BY <1>6, DeriveAssumption
    <3>. QED  BY <3>1 DEF Carries
  <2>3. Norm[r.content[f]] \in Contents
    BY <2>2, DeriveAssumption
  <2>4. NodeOf(ident, f, r) \in ContentIds
    BY <1>6, <2>1, <2>3 DEF NodeOf, ContentIds
  <2>. QED  BY <1>7, <2>1, <2>4 DEF Ref, Link
<1>10. TypeOK'
  BY <1>1, <1>3, <1>8, <1>9 DEF DInv, TypeOK, Phases
<1>11. NodesLost' /\ LatestMade' /\ TableLost' /\ NoLoops'
  BY <1>1 DEF DInv, NodesLost, LatestMade, TableLost, Lost, NoLoops
<1>. QED  BY <1>4, <1>5, <1>10, <1>11 DEF DInv

LEMMA StoreLayerInv == DInv /\ StoreLayer => DInv'
<1>. SUFFICES ASSUME DInv, StoreLayer PROVE DInv'
  OBVIOUS
<1>. DEFINE stored == [ g \in Guids |-> IF latest[g] = Blank THEN db.nodes[g]
                                        ELSE [ host |-> latest[g], node |-> nodes[<< latest[g], g >>] ] ]
            entities == [ id \in ContentIds |->
                            IF content[id].count = 0 THEN db.content[id] ELSE content[id] ]
<1>1. /\ UNCHANGED << car, before, passes, events, k, n, edges, nodes, content, refs, latest >>
      /\ pc = "store" /\ pc' = "done"
  BY DEF StoreLayer, Stay, Collected
<1>2. /\ db \in Tables /\ edges \in SUBSET EdgeSet /\ refs \in SUBSET Ref
      /\ latest \in [Guids -> Link(Hosts)] /\ nodes \in [Hosts \X Guids -> Node]
      /\ content \in [ContentIds -> Entity]
      /\ NodesLost /\ LatestMade /\ TableLost /\ NoLoops
  BY DEF DInv, TypeOK
<1>3. /\ db.declared \in SUBSET EdgeSet /\ db.edges \in SUBSET EdgeSet /\ db.refs \in SUBSET Ref
      /\ db.nodes \in [Guids -> NodeRow] /\ db.content \in [ContentIds -> Entity]
  BY <1>2 DEF Tables
<1>4. db' = [ db EXCEPT !.edges = db.edges \cup edges, !.nodes = stored,
                        !.content = entities, !.refs = db.refs \cup refs ]
  <2>1. db' = [ db EXCEPT
         !.edges = @ \cup edges,
         !.nodes = [ g \in Guids |-> IF latest[g] = Blank THEN @[g]
                                     ELSE [ host |-> latest[g], node |-> nodes[<< latest[g], g >>] ] ],
         !.content = [ id \in ContentIds |-> IF content[id].count = 0 THEN @[id] ELSE content[id] ],
         !.refs = @ \cup refs ]
    BY DEF StoreLayer
  <2>. QED  BY <2>1, <1>2 DEF Tables
<1>5. stored \in [Guids -> NodeRow]
  <2>. SUFFICES ASSUME NEW g \in Guids, latest[g] # Blank
               PROVE [ host |-> latest[g], node |-> nodes[<< latest[g], g >>] ] \in NodeRow
    BY <1>3
  <2>1. latest[g] \in Hosts /\ latest[g] \in Link(Hosts)
    BY <1>2 DEF Link
  <2>2. nodes[<< latest[g], g >>] \in Node
    BY <2>1, <1>2
  <2>. QED  BY <2>1, <2>2 DEF NodeRow
<1>6. entities \in [ContentIds -> Entity]
  BY <1>2, <1>3
<1>7. \A g \in Guids : stored[g].host # Blank => Lost(stored[g].host, g)
  <2>. SUFFICES ASSUME NEW g \in Guids, stored[g].host # Blank PROVE Lost(stored[g].host, g)
    OBVIOUS
  <2>1. CASE latest[g] = Blank
    BY <2>1, <1>2 DEF TableLost
  <2>2. CASE latest[g] # Blank
    <3>1. latest[g] \in Hosts /\ nodes[<< latest[g], g >>].by # {}
      BY <2>2, <1>2 DEF Link, LatestMade
    <3>. QED  BY <2>2, <3>1, <1>2 DEF NodesLost
  <2>. QED  BY <2>1, <2>2
<1>. HIDE DEF stored, entities
<1>8. /\ db' \in Tables /\ db'.nodes = stored /\ db'.edges = db.edges \cup edges
      /\ db'.declared = db.declared
  BY <1>2, <1>3, <1>4, <1>5, <1>6 DEF Tables
<1>9. FromCar' /\ Covered' /\ (car \in Inputs)'
  BY <1>1, RowsStay
<1>10. TypeOK'
  BY <1>1, <1>8 DEF DInv, TypeOK, Phases
<1>11. Cursors'
  BY <1>1 DEF DInv, Cursors
<1>12. NodesLost' /\ LatestMade' /\ TableLost' /\ NoLoops'
  BY <1>1, <1>2, <1>7, <1>8 DEF NodesLost, LatestMade, TableLost, NoLoops, Lost
<1>. QED  BY <1>9, <1>10, <1>11, <1>12 DEF DInv

LEMMA OrderType == ObjectOrder \in Seq(Objects) /\ Len(ObjectOrder) \in Nat \ {0}
<1>1. ObjectOrder \in Seq(Objects) /\ "process" \in RangeOf(ObjectOrder)
  BY DeriveAssumption DEF Objects
<1>. QED  BY <1>1 DEF RangeOf

LEMMA RederiveInv == DInv /\ Rederive => DInv'
<1>. SUFFICES ASSUME DInv, Rederive PROVE DInv'
  OBVIOUS
<1>1. /\ pc = "done" /\ passes < MaxPasses /\ passes' = passes + 1 /\ before' = db
      /\ events' = << >> /\ pc' = "load" /\ k' = 1 /\ n' = 1
      /\ UNCHANGED << car, db, edges, nodes, content, refs, latest >>
  BY DEF Rederive, Collected
<1>2. passes' \in 1 .. MaxPasses
  BY <1>1, DeriveAssumption DEF DInv, TypeOK
<1>3. << >> \in Seq(Row)
  OBVIOUS
<1>4. TypeOK'
  BY <1>1, <1>2, <1>3 DEF DInv, TypeOK, Phases
<1>5. Cursors'
  BY <1>1, OrderType, InputRows DEF DInv, Cursors
<1>6. FromCar'
  BY <1>1 DEF FromCar
<1>7. Covered'
  <2>1. DOMAIN ObjectOrder \subseteq Nat \ {0} /\ DOMAIN car \subseteq Nat \ {0}
    BY OrderType, InputRows DEF DInv
  <2>. QED  BY <1>1, <2>1 DEF Covered, Loaded
<1>8. NodesLost' /\ LatestMade' /\ TableLost' /\ NoLoops'
  BY <1>1 DEF DInv, NodesLost, LatestMade, TableLost, NoLoops, Lost
<1>. QED  BY <1>1, <1>4, <1>5, <1>6, <1>7, <1>8 DEF DInv

LEMMA LoadRowInv == DInv /\ LoadRow => DInv'
<1>. SUFFICES ASSUME DInv, LoadRow PROVE DInv'
  OBVIOUS
<1>. DEFINE due == car[n].obj = ObjectOrder[k]
<1>1. /\ UNCHANGED << car, before, passes, db, edges, nodes, content, refs, latest >>
      /\ pc = "load" /\ Advance(car, ObjectOrder, "clear")
      /\ events' = IF due THEN Append(events, Stored(car[n])) ELSE events
  BY DEF LoadRow, Stay, Collected
<1>2. /\ k \in Nat \ {0} /\ n \in Nat \ {0} /\ n <= Len(car) /\ k <= Len(ObjectOrder)
      /\ Len(car) \in Nat \ {0} /\ Len(ObjectOrder) \in Nat \ {0}
      /\ car \in Seq(Row) /\ ObjectOrder \in Seq(Objects) /\ events \in Seq(Row)
  BY <1>1, InputRows, OrderType DEF DInv, Cursors, TypeOK
<1>3. /\ n' \in Nat \ {0} /\ k' \in Nat \ {0}
      /\ \/ pc' = "load" /\ n' <= Len(car) /\ k' <= Len(ObjectOrder)
         \/ pc' = "clear" /\ n' = 1 /\ k' = 1
  BY <1>1, <1>2, Advanced
<1>4. Cursors'
  BY <1>1, <1>2, <1>3 DEF Cursors
<1>5. n \in DOMAIN car /\ Stored(car[n]) \in Row
  BY <1>2, ElementOfSeq, StoredType
<1>6. /\ events' \in Seq(Row)
      /\ \A i \in DOMAIN events : i \in DOMAIN events' /\ events'[i] = events[i]
      /\ due => \E i \in DOMAIN events' : events'[i] = Stored(car[n])
      /\ \A i \in DOMAIN events' : i \in DOMAIN events \/ (due /\ events'[i] = Stored(car[n]))
  <2>1. CASE ~due
    BY <2>1, <1>1, <1>2
  <2>2. CASE due
    <3>. DEFINE row == Stored(car[n])
    <3>1. events' = Append(events, row) /\ row \in Row
      BY <2>2, <1>1, <1>5
    <3>. HIDE DEF row
    <3>2. /\ events' \in Seq(Row) /\ Len(events') = Len(events) + 1
          /\ \A i \in 1 .. Len(events) : events'[i] = events[i]
          /\ events'[Len(events) + 1] = row
      BY <3>1, <1>2, AppendProperties
    <3>3. /\ DOMAIN events = 1 .. Len(events) /\ Len(events) \in Nat
          /\ DOMAIN events' = 1 .. (Len(events) + 1)
      BY <3>2, <1>2
    <3>4. /\ events' \in Seq(Row)
          /\ \A i \in DOMAIN events : i \in DOMAIN events' /\ events'[i] = events[i]
          /\ \E i \in DOMAIN events' : events'[i] = row
          /\ \A i \in DOMAIN events' : i \in DOMAIN events \/ events'[i] = row
      <4>1. Len(events) + 1 \in DOMAIN events'
        BY <3>3
      <4>2. \A i \in DOMAIN events' : i \in DOMAIN events \/ i = Len(events) + 1
        BY <3>3
      <4>3. \A i \in DOMAIN events : i \in DOMAIN events'
        BY <3>3
      <4>. QED  BY <3>2, <3>3, <4>1, <4>2, <4>3
    <3>. QED  BY <2>2, <3>4 DEF row
  <2>. QED  BY <2>1, <2>2
<1>7. FromCar'
  BY <1>1, <1>5, <1>6 DEF DInv, FromCar, Version
<1>8. Covered'
  <2>. SUFFICES ASSUME NEW j \in DOMAIN car, pc' # "load" \/ Loaded(j)'
               PROVE \E i \in DOMAIN events' : Version(i, j)'
    BY <1>1 DEF Covered
  <2>0. j \in 1 .. Len(car) /\ car[j].obj \in Objects
    <3>1. car[j] \in Row /\ j \in 1 .. Len(car)
      BY <1>2, ElementOfSeq
    <3>. QED  BY <3>1 DEF Row
  <2>1. Loaded(j) \/ (due /\ j = n)
    <3>1. CASE n < Len(car) /\ n' = n + 1 /\ k' = k /\ pc' = pc
      BY <1>1, <1>2, <2>0, <3>1 DEF Loaded
    <3>2. CASE n >= Len(car) /\ k < Len(ObjectOrder) /\ n' = 1 /\ k' = k + 1 /\ pc' = pc
      BY <1>1, <1>2, <2>0, <3>2 DEF Loaded
    <3>3. CASE n >= Len(car) /\ k >= Len(ObjectOrder)
      <4>1. PICK o \in DOMAIN ObjectOrder : ObjectOrder[o] = car[j].obj
        BY <2>0 DEF Objects, RangeOf
      <4>. QED  BY <1>2, <2>0, <3>3, <4>1 DEF Loaded
    <3>. QED  BY <1>1, <3>1, <3>2, <3>3 DEF Advance
  <2>2. CASE Loaded(j)
    <3>1. PICK i \in DOMAIN events : Version(i, j)
      BY <1>1, <2>2 DEF DInv, Covered
    <3>. QED  BY <1>1, <1>6, <3>1 DEF Version
  <2>3. CASE due /\ j = n
    BY <1>1, <1>6, <2>3 DEF Version
  <2>. QED  BY <2>1, <2>2, <2>3
<1>9. TypeOK'
  BY <1>1, <1>3, <1>6 DEF DInv, TypeOK, Phases
<1>10. NodesLost' /\ LatestMade' /\ TableLost' /\ NoLoops'
  BY <1>1 DEF DInv, NodesLost, LatestMade, TableLost, NoLoops, Lost
<1>. QED  BY <1>1, <1>4, <1>7, <1>8, <1>9, <1>10 DEF DInv

LEMMA StutterInv == DInv /\ UNCHANGED vars => DInv'
<1>. SUFFICES ASSUME DInv, UNCHANGED vars PROVE DInv'
  OBVIOUS
<1>1. UNCHANGED << car, events, pc, k, n, edges, nodes, content, refs, latest, db, before, passes >>
  BY DEF vars
<1>2. TypeOK' /\ (car \in Inputs)'
  BY <1>1 DEF DInv, TypeOK
<1>3. Cursors' /\ FromCar' /\ Covered'
  BY <1>1 DEF DInv, Cursors, FromCar, Covered, Version, Loaded
<1>4. NodesLost' /\ LatestMade' /\ TableLost' /\ NoLoops'
  BY <1>1 DEF DInv, NodesLost, LatestMade, TableLost, NoLoops, Lost
<1>. QED  BY <1>2, <1>3, <1>4 DEF DInv

LEMMA Inductive == Spec => []DInv
<1>1. Init => DInv
  BY InitInv
<1>2. DInv /\ [Next]_vars => DInv'
  BY ClearInv, LinkSourceInv, ReconstructInv, ReferInv, StoreLayerInv, RederiveInv,
     LoadRowInv, StutterInv DEF Next
<1>. QED  BY <1>1, <1>2, PTL DEF Spec

-----------------------------------------------------------------------------
(* The theorems.                                                           *)

\* derive and superset.db: whatever the rows, every edge, node, content node and
\* reference of the pass and of the tables is one of its table's schema; an
\* edge's source is never blank, a reference's content never None.
THEOREM DeriveTypes == Spec => []TypeOK
<1>1. DInv => TypeOK
  BY DEF DInv
<1>. QED  BY <1>1, Inductive, PTL

\* reconstruct: whatever was observed, in whichever order it is read, in memory
\* or over the store, and however often the pass is run, superset.db holds no
\* inferred node for a process that has a record on the node's host.
THEOREM NeverInfersObserved == Spec => []NothingObservedInferred
<1>1. DInv => NothingObservedInferred
  <2>. SUFFICES ASSUME DInv, NEW g \in Guids, NEW r \in RangeOf(car),
                       r.obj = "process", r.guid = g, db.nodes[g].host = r.host
               PROVE FALSE
    BY DEF NothingObservedInferred
  <2>1. PICK j \in DOMAIN car : r = car[j]
    BY DEF RangeOf
  <2>2. r.host \in Hosts
    <3>1. r \in Row
      BY <2>1, InputRows, ElementOfSeq DEF DInv
    <3>. QED  BY <3>1 DEF Row
  <2>3. g # Blank /\ r.host # Blank
    BY <2>2, DeriveAssumption
  <2>4. << r.host, "process", g >> \in Observed(car)
    BY <2>3 DEF Observed
  <2>. QED  BY <2>3, <2>4 DEF DInv, TableLost, Lost
<1>. QED  BY <1>1, Inductive, PTL

\* edges_from_events, link_edges, reconstruct: no edge of superset.db, declared
\* or derived, joins a record to itself.
THEOREM NoLoopsEver == Spec => []NoSelfLoops
<1>1. DInv => NoSelfLoops
  BY DEF DInv, NoLoops, NoSelfLoops
<1>. QED  BY <1>1, Inductive, PTL

-----------------------------------------------------------------------------
(* What a pass has drawn, rule by rule and event by event.                 *)

Running == pc \in {"links", "reconstruct", "content", "store"}
Active == Running \/ pc = "done"

\* The tables are empty while the pass collects, and hold what it collected.
Tabled ==
  /\ db.declared = Declared(car)
  /\ Running => db.edges = {}
  /\ pc = "done" =>
       /\ db.edges = edges
       /\ \A g \in Guids : latest[g] # Blank =>
            db.nodes[g] = [ host |-> latest[g], node |-> nodes[<< latest[g], g >>] ]

\* reconstruct is past rule o and event m.
Visited(o, m) ==
  \/ pc \in {"content", "store", "done"}
  \/ pc = "reconstruct" /\ (o < k \/ (o = k /\ m < n))

\* s is among what a node's references say.
Kept(s, node) == s = Blank \/ s = node.said \/ s \in node.others

\* What a lost reference leaves: an edge, and a node that it corroborates.
Spoken(rule, r) ==
  LET node == nodes[<< r.host, Referred(rule, r) >>] IN
  /\ InferredEdge(rule, r) \in edges
  /\ ObservedEnd(rule, r)[2] \in node.by /\ rule \in node.rules /\ Kept(r.said, node)

Met ==
  \A o \in DOMAIN Rules, m \in DOMAIN events :
    Visited(o, m) /\ IsLost(Rules[o], events[m]) => Spoken(Rules[o], events[m])

\* Every edge comes of a link rule or of a lost reference.
DrawnFor(e, rule, r) ==
  /\ IsLost(rule, r) /\ e = InferredEdge(rule, r)
  /\ ObservedEnd(rule, r)[2] \in nodes[<< r.host, Referred(rule, r) >>].by
Drawn ==
  Active => \A e \in edges :
    \/ e.inferred = "none" /\ e.rel \in LinkRules
    \/ \E rule \in RuleNames, m \in DOMAIN events : DrawnFor(e, rule, events[m])

\* Every node is an end of an edge, and the table will have a row for its guid.
Rooted ==
  Active => \A h \in Hosts, g \in Guids : nodes[<< h, g >>].by # {} =>
    /\ latest[g] # Blank
    /\ \E e \in edges : e.inferred # "none" /\ InferredEnd(e) = g /\ e.host = h

PInv == Tabled /\ Met /\ Drawn /\ Rooted

LEMMA InferredEdgeIs ==
  ASSUME NEW rule \in RuleNames, NEW r
  PROVE  LET e == InferredEdge(rule, r)  end == ObservedEnd(rule, r) IN
         /\ e.inferred # "none" /\ InferredEnd(e) = Referred(rule, r)
         /\ e.host = r.host /\ e.by = {end[2]}
         /\ \/ e.src = Referred(rule, r) /\ e.tgt = end[2]
            \/ e.tgt = Referred(rule, r) /\ e.src = end[2]
         /\ rule \in {"owning_process", "owning_process_memory"} =>
              /\ e.rel = "spoke_owner" /\ e.src = Referred(rule, r)
              /\ e.tgtObj = r.obj /\ e.tgt = r.guid
         /\ rule \notin {"owning_process", "owning_process_memory"} => e.rel # "spoke_owner"
<1> DEFINE seen == ObservedEnd(rule, r)
           x == Referred(rule, r)
           rel == CASE rule = "parent_process"   -> "parent_process"
                    [] rule = "injection_target" -> "thread_injection"
                    [] OTHER                     -> "spoke_owner"
           edge == [ rel |-> rel, host |-> r.host, srcObj |-> "process", src |-> x,
                     tgtObj |-> seen[1], tgt |-> seen[2],
                     key |-> IF rule = "owning_process_memory" THEN "offset" ELSE "guid",
                     inferred |-> "source", by |-> {seen[2]} ]
           turned == [ edge EXCEPT !.srcObj = seen[1], !.src = seen[2], !.tgtObj = "process",
                                   !.tgt = x, !.inferred = "target" ]
<1>1. InferredEdge(rule, r) = IF rule # "injection_target" THEN edge ELSE turned
  BY DEF InferredEdge
<1>2. /\ rule \in {"owning_process", "owning_process_memory"} =>
           rel = "spoke_owner" /\ seen = << r.obj, r.guid >> /\ rule # "injection_target"
      /\ rule \notin {"owning_process", "owning_process_memory"} => rel # "spoke_owner"
  BY DEF ObservedEnd, RuleNames
<1>. HIDE DEF rel, seen, x
<1>3. /\ edge.inferred = "source" /\ edge.src = x /\ edge.tgt = seen[2] /\ edge.host = r.host
      /\ edge.by = {seen[2]} /\ edge.rel = rel /\ edge.tgtObj = seen[1]
  OBVIOUS
<1>4. /\ turned.inferred = "target" /\ turned.src = seen[2] /\ turned.tgt = x /\ turned.host = r.host
      /\ turned.by = {seen[2]} /\ turned.rel = rel
  OBVIOUS
<1>. HIDE DEF edge, turned
<1>5. CASE rule = "injection_target"
  <2>1. InferredEdge(rule, r) = turned
    BY <1>1, <1>5
  <2>2. InferredEnd(turned) = x
    BY <1>4 DEF InferredEnd
  <2>. QED  BY <1>2, <1>4, <1>5, <2>1, <2>2 DEF seen, x
<1>6. CASE rule # "injection_target"
  <2>1. InferredEdge(rule, r) = edge
    BY <1>1, <1>6
  <2>2. InferredEnd(edge) = x
    BY <1>3 DEF InferredEnd
  <2>3. /\ rule \in {"owning_process", "owning_process_memory"} =>
             seen[1] = r.obj /\ seen[2] = r.guid
    BY <1>2
  <2>. QED  BY <1>2, <1>3, <2>1, <2>2, <2>3 DEF seen, x
<1>. QED  BY <1>5, <1>6

\* Corroboration takes what the row says and forgets nothing.
LEMMA CorroborationGrows ==
  ASSUME NEW node \in Node, NEW rule \in RuleNames, NEW r
  PROVE  LET c == Corroborated(node, rule, r) IN
         /\ node.by \subseteq c.by /\ node.rules \subseteq c.rules
         /\ \A s : Kept(s, node) => Kept(s, c)
         /\ ObservedEnd(rule, r)[2] \in c.by /\ rule \in c.rules /\ Kept(r.said, c)
<1> DEFINE c == Corroborated(node, rule, r)
<1>1. /\ c.by = node.by \cup {ObservedEnd(rule, r)[2]} /\ c.rules = node.rules \cup {rule}
      /\ c.said = (IF node.said = Blank THEN r.said ELSE node.said)
      /\ c.others = node.others \cup (IF node.said = Blank THEN {} ELSE {r.said} \ {Blank, node.said})
  BY DEF Corroborated
<1>. HIDE DEF c
<1>2. \A s : Kept(s, node) => Kept(s, c)
  BY <1>1 DEF Kept
<1>3. Kept(r.said, c)
  BY <1>1 DEF Kept
<1>. QED  BY <1>1, <1>2, <1>3 DEF c

LEMMA InitPass == Init => PInv
<1>. SUFFICES ASSUME Init PROVE PInv
  OBVIOUS
<1>1. pc = "clear" /\ db.declared = Declared(car)
  BY DEF Init
<1>. QED  BY <1>1 DEF PInv, Tabled, Met, Drawn, Rooted, Running, Active, Visited

LEMMA ClearPass == DInv /\ PInv /\ ClearDerived => PInv'
<1>. SUFFICES ASSUME DInv, PInv, ClearDerived PROVE PInv'
  OBVIOUS
<1>1. /\ UNCHANGED car /\ pc' = "links" /\ edges' = {} /\ nodes' = NoNodes
      /\ db' = [ db EXCEPT !.edges = {}, !.nodes = NoNodeRows, !.content = NoEntities, !.refs = {} ]
  BY DEF ClearDerived, Stay
<1>2. db'.edges = {} /\ db'.declared = db.declared
  BY <1>1 DEF DInv, TypeOK, Tables
<1>3. \A h \in Hosts, g \in Guids : nodes'[<< h, g >>].by = {}
  BY <1>1 DEF NoNodes, NoNode
<1>. QED  BY <1>1, <1>2, <1>3 DEF PInv, Tabled, Met, Drawn, Rooted, Running, Active, Visited

LEMMA LinkPass == DInv /\ PInv /\ LinkSource => PInv'
<1>. SUFFICES ASSUME DInv, PInv, LinkSource PROVE PInv'
  OBVIOUS
<1>1. /\ UNCHANGED << car, events, nodes, latest, db >> /\ pc = "links"
      /\ Advance(events, LinkSteps, "reconstruct")
  BY DEF LinkSource, Stay
<1>2. /\ k \in Nat \ {0} /\ n \in Nat \ {0} /\ n <= Len(events) /\ k <= Len(LinkSteps)
      /\ Len(events) \in Nat \ {0} /\ Len(LinkSteps) \in Nat \ {0} /\ events \in Seq(Row)
  BY <1>1, EventsThere, LinkStepsType DEF DInv, Cursors, TypeOK
<1>3. pc' = "links" \/ (pc' = "reconstruct" /\ n' = 1 /\ k' = 1)
  BY <1>1, <1>2, Advanced
<1>4. /\ edges \subseteq edges'
      /\ \A e \in edges' \ edges : e.inferred = "none" /\ e.rel \in LinkRules
  <2>1. LinkSteps[k][1] \in LinkRules
    BY <1>2, LinkStepsType
  <2>. QED  BY <2>1 DEF LinkSource, LinkEdge
<1>5. Tabled'
  BY <1>1, <1>3 DEF PInv, Tabled, Running
<1>6. Met'
  <2>1. DOMAIN Rules \subseteq Nat \ {0} /\ DOMAIN events \subseteq Nat \ {0}
    BY <1>2, RulesType DEF Rules
  <2>. QED  BY <1>1, <1>3, <2>1 DEF Met, Visited
<1>7. Drawn'
  <2>1. \A rule, m, e : DrawnFor(e, rule, events[m]) => DrawnFor(e, rule, events[m])'
    BY <1>1 DEF DrawnFor, IsLost, IsObserved
  <2>. QED  BY <1>1, <1>4, <2>1 DEF PInv, Drawn, Active, Running
<1>8. Rooted'
  BY <1>1, <1>4 DEF PInv, Rooted, Active, Running
<1>. QED  BY <1>5, <1>6, <1>7, <1>8 DEF PInv

\* The phases after the references leave what was drawn alone.
LEMMA RestPass == DInv /\ PInv /\ (Refer \/ Rederive \/ LoadRow) => PInv'
<1>. SUFFICES ASSUME DInv, PInv, Refer \/ Rederive \/ LoadRow PROVE PInv'
  OBVIOUS
<1>1. CASE Refer
  <2>1. /\ UNCHANGED << car, events, edges, nodes, latest, db >> /\ pc = "content"
        /\ Advance(events, Identities, "store")
    BY <1>1 DEF Refer, Stay
  <2>2. pc' \in {"content", "store"}
    BY <2>1 DEF Advance
  <2>3. \A rule, m, e : DrawnFor(e, rule, events[m]) => DrawnFor(e, rule, events[m])'
    BY <2>1 DEF DrawnFor, IsLost, IsObserved
  <2>4. \A rule, m : IsLost(rule, events[m])' => IsLost(rule, events[m])
    BY <2>1 DEF IsLost, IsObserved
  <2>5. Met'
    BY <2>1, <2>2, <2>4 DEF PInv, Met, Visited, Spoken
  <2>6. Tabled' /\ Drawn' /\ Rooted'
    BY <2>1, <2>2, <2>3 DEF PInv, Tabled, Drawn, Rooted, Active, Running
  <2>. QED  BY <2>5, <2>6 DEF PInv
<1>2. CASE Rederive
  <2>1. UNCHANGED << car, db >> /\ pc' = "load"
    BY <1>2 DEF Rederive
  <2>. QED  BY <2>1 DEF PInv, Tabled, Met, Drawn, Rooted, Running, Active, Visited
<1>3. CASE LoadRow
  <2>1. UNCHANGED << car, db >> /\ pc = "load" /\ Advance(car, ObjectOrder, "clear")
    BY <1>3 DEF LoadRow, Stay
  <2>2. pc' \in {"load", "clear"}
    BY <2>1 DEF Advance
  <2>. QED  BY <2>1, <2>2 DEF PInv, Tabled, Met, Drawn, Rooted, Running, Active, Visited
<1>. QED  BY <1>1, <1>2, <1>3

LEMMA StorePass == DInv /\ PInv /\ StoreLayer => PInv'
<1>. SUFFICES ASSUME DInv, PInv, StoreLayer PROVE PInv'
  OBVIOUS
<1> DEFINE stored == [ g \in Guids |-> IF latest[g] = Blank THEN db.nodes[g]
                                        ELSE [ host |-> latest[g], node |-> nodes[<< latest[g], g >>] ] ]
<1>1. /\ UNCHANGED << car, events, k, n, edges, nodes, latest >> /\ pc = "store" /\ pc' = "done"
  BY DEF StoreLayer, Stay, Collected
<1>2. db'.declared = db.declared /\ db'.edges = db.edges \cup edges /\ db'.nodes = stored
  <2>1. db \in Tables
    BY DEF DInv, TypeOK
  <2>. QED  BY <2>1 DEF StoreLayer, Tables
<1>3. Tabled'
  BY <1>1, <1>2 DEF PInv, Tabled, Running
<1>4. \A rule, m, e : DrawnFor(e, rule, events[m]) => DrawnFor(e, rule, events[m])'
  BY <1>1 DEF DrawnFor, IsLost, IsObserved
<1>5. \A rule, m : IsLost(rule, events[m])' => IsLost(rule, events[m])
  BY <1>1 DEF IsLost, IsObserved
<1>6. Met'
  BY <1>1, <1>5 DEF PInv, Met, Visited, Spoken
<1>7. Drawn' /\ Rooted'
  BY <1>1, <1>4 DEF PInv, Drawn, Rooted, Active, Running
<1>. QED  BY <1>3, <1>6, <1>7 DEF PInv

\* One reference further: what was drawn stays drawn, and if this one is lost
\* it leaves its edge and its node.
LEMMA ReconstructPass == DInv /\ PInv /\ Reconstruct => PInv'
<1>. SUFFICES ASSUME DInv, PInv, Reconstruct PROVE PInv'
  OBVIOUS
<1>0. PICK i, rule : i = n /\ rule = Rules[k]
  OBVIOUS
<1>1. /\ UNCHANGED << car, events, db >> /\ pc = "reconstruct"
      /\ Advance(events, Rules, "content")
  BY DEF Reconstruct, Stay
<1>2. /\ k \in Nat \ {0} /\ n \in Nat \ {0} /\ n <= Len(events) /\ k <= Len(Rules)
      /\ Len(events) \in Nat \ {0} /\ Len(Rules) \in Nat \ {0} /\ events \in Seq(Row)
      /\ nodes \in [Hosts \X Guids -> Node] /\ latest \in [Guids -> Link(Hosts)]
      /\ edges \in SUBSET EdgeSet
  BY <1>1, EventsThere, RulesType DEF DInv, Cursors, TypeOK
<1>3. pc' = "reconstruct" \/ (pc' = "content" /\ n' = 1 /\ k' = 1)
  BY <1>1, <1>2, Advanced
<1>4. rule \in RuleNames /\ i \in DOMAIN events
  BY <1>0, <1>2, RulesType
<1>5. IF IsLost(rule, events[i])
      THEN LET lost == << events[i].host, Referred(rule, events[i]) >> IN
           /\ nodes' = [ nodes EXCEPT ![lost] = Corroborated(nodes[lost], rule, events[i]) ]
           /\ latest' = IF nodes[lost].by # {} THEN latest
                        ELSE [ latest EXCEPT ![lost[2]] = events[i].host ]
           /\ edges' = edges \cup { InferredEdge(rule, events[i]) }
      ELSE UNCHANGED << nodes, latest, edges >>
  BY <1>0 DEF Reconstruct
<1>6. \A o, m : IsLost(o, events[m])' <=> IsLost(o, events[m])
  BY <1>1 DEF IsLost, IsObserved
<1>7. IsLost(rule, events[i]) => << events[i].host, Referred(rule, events[i]) >> \in Hosts \X Guids
  BY <1>0, <1>1, <1>2, <1>4, LostType
\* Monotonicity.
<1>8. \A x \in Hosts \X Guids :
        /\ nodes[x].by \subseteq nodes'[x].by /\ nodes[x].rules \subseteq nodes'[x].rules
        /\ \A s : Kept(s, nodes[x]) => Kept(s, nodes'[x])
  <2>. SUFFICES ASSUME NEW x \in Hosts \X Guids
                PROVE  /\ nodes[x].by \subseteq nodes'[x].by
                       /\ nodes[x].rules \subseteq nodes'[x].rules
                       /\ \A s : Kept(s, nodes[x]) => Kept(s, nodes'[x])
    OBVIOUS
  <2>1. nodes[x] \in Node
    BY <1>2
  <2>2. nodes'[x] = nodes[x] \/ nodes'[x] = Corroborated(nodes[x], rule, events[i])
    BY <1>2, <1>5
  <2>. QED  BY <1>4, <2>1, <2>2, CorroborationGrows
<1>9. edges \subseteq edges'
  BY <1>5
<1>10. ASSUME NEW o \in RuleNames, NEW m \in DOMAIN events, IsLost(o, events[m])
       PROVE  << events[m].host, Referred(o, events[m]) >> \in Hosts \X Guids
  <2>1. events[m] \in Row
    BY <1>2, <1>10, ElementOfSeq
  <2>2. /\ events[m].host \in Hosts /\ events[m].owningRef \in Link(Guids)
        /\ events[m].parentRef \in Link(Guids) /\ events[m].injectRef \in Link(Guids)
        /\ events[m].owningAt \in Link(Offsets)
    BY <2>1 DEF Row
  <2>3. Referred(o, events[m]) # Blank
    BY <1>10 DEF IsLost
  <2>4. Mint \in [Offsets -> Link(Guids)]
    BY DeriveAssumption
  <2>5. Referred(o, events[m]) \in Link(Guids)
    BY <2>2, <2>4 DEF Referred, Link
  <2>. QED  BY <2>2, <2>3, <2>5 DEF Link
<1>11. \A o, m : m \in DOMAIN events /\ o \in RuleNames /\ IsLost(o, events[m])
                 /\ Spoken(o, events[m]) => Spoken(o, events[m])'
  BY <1>1, <1>8, <1>9, <1>10 DEF Spoken
\* The step itself.
<1>12. IsLost(rule, events[i]) =>
         /\ InferredEdge(rule, events[i]) \in edges'
         /\ ObservedEnd(rule, events[i])[2] \in nodes'[<< events[i].host, Referred(rule, events[i]) >>].by
         /\ rule \in nodes'[<< events[i].host, Referred(rule, events[i]) >>].rules
         /\ Kept(events[i].said, nodes'[<< events[i].host, Referred(rule, events[i]) >>])
  <2>. SUFFICES ASSUME IsLost(rule, events[i])
                PROVE  /\ InferredEdge(rule, events[i]) \in edges'
                       /\ ObservedEnd(rule, events[i])[2] \in nodes'[<< events[i].host, Referred(rule, events[i]) >>].by
                       /\ rule \in nodes'[<< events[i].host, Referred(rule, events[i]) >>].rules
                       /\ Kept(events[i].said, nodes'[<< events[i].host, Referred(rule, events[i]) >>])
    OBVIOUS
  <2> DEFINE lost == << events[i].host, Referred(rule, events[i]) >>
  <2>1. lost \in Hosts \X Guids /\ nodes[lost] \in Node
    BY <1>2, <1>7
  <2>2. nodes'[lost] = Corroborated(nodes[lost], rule, events[i])
    BY <1>2, <1>5, <2>1
  <2>3. InferredEdge(rule, events[i]) \in edges'
    BY <1>5
  <2>. HIDE DEF lost
  <2>4. /\ ObservedEnd(rule, events[i])[2] \in nodes'[lost].by
        /\ rule \in nodes'[lost].rules /\ Kept(events[i].said, nodes'[lost])
    BY <1>4, <2>1, <2>2, CorroborationGrows
  <2>. QED  BY <2>3, <2>4 DEF lost
<1>13. Tabled'
  BY <1>1, <1>3 DEF PInv, Tabled, Running
<1>14. Met'
  <2>. SUFFICES ASSUME NEW o \in DOMAIN Rules, NEW m \in DOMAIN events,
                       Visited(o, m)', IsLost(Rules[o], events[m])
                PROVE  Spoken(Rules[o], events[m])'
    BY <1>1, <1>6 DEF Met
  <2>1. /\ o \in 1 .. 4 /\ Rules[o] \in RuleNames /\ m \in 1 .. Len(events)
    BY <1>2, RulesType DEF Rules
  <2>2. Visited(o, m) \/ (o = k /\ m = n)
    <3>1. CASE n < Len(events) /\ n' = n + 1 /\ k' = k /\ pc' = pc
      BY <1>1, <1>2, <2>1, <3>1 DEF Visited
    <3>2. CASE n >= Len(events) /\ k < Len(Rules) /\ n' = 1 /\ k' = k + 1 /\ pc' = pc
      BY <1>1, <1>2, <2>1, <3>2 DEF Visited
    <3>3. CASE n >= Len(events) /\ k >= Len(Rules)
      BY <1>1, <1>2, <2>1, <3>3, RulesType DEF Visited
    <3>. QED  BY <1>1, <3>1, <3>2, <3>3 DEF Advance
  <2>3. CASE Visited(o, m)
    <3>1. Spoken(Rules[o], events[m])
      BY <2>3 DEF PInv, Met
    <3>. QED  BY <1>11, <2>1, <3>1
  <2>4. CASE o = k /\ m = n
    <3>1. Rules[o] = rule /\ m = i
      BY <1>0, <2>4
    <3>2. Rules' = Rules
      BY DEF Rules
    <3>. QED  BY <1>1, <1>12, <3>1, <3>2 DEF Spoken
  <2>. QED  BY <2>2, <2>3, <2>4
<1>15. Drawn'
  <2>. SUFFICES ASSUME NEW e \in edges'
                PROVE  \/ e.inferred = "none" /\ e.rel \in LinkRules
                       \/ \E o \in RuleNames, m \in DOMAIN events : DrawnFor(e, o, events[m])'
    BY <1>1 DEF Drawn
  <2>1. CASE e \in edges
    <3>1. CASE e.inferred = "none" /\ e.rel \in LinkRules
      BY <3>1
    <3>2. ASSUME NEW o \in RuleNames, NEW m \in DOMAIN events, DrawnFor(e, o, events[m])
          PROVE  DrawnFor(e, o, events[m])'
      <4>1. << events[m].host, Referred(o, events[m]) >> \in Hosts \X Guids
        BY <1>10, <3>2 DEF DrawnFor
      <4>. QED  BY <1>1, <1>6, <1>8, <3>2, <4>1 DEF DrawnFor
    <3>. QED  BY <1>1, <2>1, <3>1, <3>2 DEF PInv, Drawn, Active, Running
  <2>2. CASE e \notin edges
    <3>1. IsLost(rule, events[i]) /\ e = InferredEdge(rule, events[i])
      BY <1>5, <2>2
    <3>2. DrawnFor(e, rule, events[i])'
      BY <1>1, <1>6, <1>12, <3>1 DEF DrawnFor
    <3>. QED  BY <1>4, <3>2
  <2>. QED  BY <2>1, <2>2
<1>16. Rooted'
  <2>. SUFFICES ASSUME NEW h \in Hosts, NEW g \in Guids, nodes'[<< h, g >>].by # {}
                PROVE  /\ latest'[g] # Blank
                       /\ \E e \in edges' : e.inferred # "none" /\ InferredEnd(e) = g /\ e.host = h
    BY <1>1 DEF Rooted
  <2>1. CASE nodes[<< h, g >>].by # {}
    <3>1. /\ latest[g] # Blank
          /\ \E e \in edges : e.inferred # "none" /\ InferredEnd(e) = g /\ e.host = h
      BY <1>1, <2>1 DEF PInv, Rooted, Active, Running
    <3>2. latest'[g] = latest[g] \/ latest'[g] = events[i].host
      BY <1>2, <1>5
    <3>3. events[i].host # Blank
      <4>1. events[i] \in Row
        BY <1>2, <1>4, ElementOfSeq
      <4>. QED  BY <4>1, DeriveAssumption DEF Row
    <3>. QED  BY <1>9, <3>1, <3>2, <3>3
  <2>2. CASE nodes[<< h, g >>].by = {}
    <3>1. IsLost(rule, events[i]) /\ << h, g >> = << events[i].host, Referred(rule, events[i]) >>
      BY <1>2, <1>5, <2>2
    <3>2. latest'[g] = h
      BY <1>2, <1>5, <2>2, <3>1
    <3>3. h # Blank
      BY DeriveAssumption
    <3>4. /\ InferredEdge(rule, events[i]) \in edges'
          /\ InferredEdge(rule, events[i]).inferred # "none"
          /\ InferredEnd(InferredEdge(rule, events[i])) = g
          /\ InferredEdge(rule, events[i]).host = h
      BY <1>4, <1>12, <3>1, InferredEdgeIs
    <3>. QED  BY <3>2, <3>3, <3>4
  <2>. QED  BY <2>1, <2>2
<1>. QED  BY <1>13, <1>14, <1>15, <1>16 DEF PInv

LEMMA PassInductive == Spec => [](DInv /\ PInv)
<1>1. Init => DInv /\ PInv
  BY InitInv, InitPass
<1>2. (DInv /\ PInv) /\ [Next]_vars => (DInv /\ PInv)'
  <2>. SUFFICES ASSUME DInv, PInv, [Next]_vars PROVE DInv' /\ PInv'
    OBVIOUS
  <2>1. DInv'
    BY ClearInv, LinkSourceInv, ReconstructInv, ReferInv, StoreLayerInv, RederiveInv,
       LoadRowInv, StutterInv DEF Next
  <2>2. CASE UNCHANGED vars
    <3>1. UNCHANGED << car, events, pc, k, n, edges, nodes, latest, db >>
      BY <2>2 DEF vars
    <3>2. \A rule, m : IsLost(rule, events[m])' <=> IsLost(rule, events[m])
      BY <3>1 DEF IsLost, IsObserved
    <3>3. Met'
      BY <3>1, <3>2 DEF PInv, Met, Visited, Spoken
    <3>4. Tabled'
      BY <3>1 DEF PInv, Tabled, Running
    <3>5. \A e, rule, m : DrawnFor(e, rule, events[m]) => DrawnFor(e, rule, events[m])'
      BY <3>1, <3>2 DEF DrawnFor
    <3>6. Drawn'
      BY <3>1, <3>5 DEF PInv, Drawn, Active, Running
    <3>7. Rooted'
      BY <3>1 DEF PInv, Rooted, Active, Running
    <3>. QED  BY <2>1, <3>3, <3>4, <3>6, <3>7 DEF PInv
  <2>. QED
    BY <2>1, <2>2, ClearPass, LinkPass, ReconstructPass, RestPass, StorePass DEF Next
<1>. QED  BY <1>1, <1>2, PTL DEF Spec


\* No reference of a record, and no inferred end of an edge, leads nowhere:
\* whatever a record refers to was observed or is a stored node.
THEOREM ReferencesLead == Spec => []NoReferenceDangles
<1>1. DInv /\ PInv => NoReferenceDangles
  <2>. SUFFICES ASSUME DInv, PInv, Done
                PROVE  /\ \A r \in RangeOf(events), rule \in RuleNames : ReferenceMet(rule, r)
                       /\ \A e \in db.edges : e.inferred # "none" => EndStored(e)
    BY DEF NoReferenceDangles
  <2>1. pc = "done" /\ db.edges = edges /\ events \in Seq(Row)
    BY DEF Done, PInv, Tabled, DInv, TypeOK
  <2>2. ASSUME NEW r \in RangeOf(events), NEW rule \in RuleNames PROVE ReferenceMet(rule, r)
    <3> DEFINE x == Referred(rule, r)
               end == IF rule = "injection_target" THEN r.owning ELSE r.guid
    <3>. SUFFICES ASSUME InScope(rule, r), r.guid # Blank, x \notin {Blank, r.guid},
                         UnlessLinked(rule, r) = Blank, rule = "injection_target" => r.owning # Blank
                  PROVE  \/ \E q \in RangeOf(events) : q.host = r.host /\ q.obj = "process" /\ q.guid = x
                         \/ /\ end \in nodes[<< r.host, x >>].by /\ rule \in nodes[<< r.host, x >>].rules
                            /\ Kept(r.said, nodes[<< r.host, x >>])
                            /\ \E e \in db.edges : /\ e.host = r.host /\ e.inferred # "none" /\ end \in e.by
                                                   /\ {e.src, e.tgt} = {x, end}
      BY DEF ReferenceMet, Kept
    <3>1. PICK m \in DOMAIN events : r = events[m]
      BY DEF RangeOf
    <3>2. PICK o \in DOMAIN Rules : Rules[o] = rule
      BY DEF Rules, RuleNames
    <3>3. ObservedEnd(rule, r)[2] = end /\ end # Blank
      BY DEF ObservedEnd
    <3>4. CASE IsObserved(<< r.host, x >>)
      <4>1. PICK q \in RangeOf(events) :
              q.guid # Blank /\ << r.host, "process", x >> = << q.host, q.obj, q.guid >>
        BY <3>4 DEF IsObserved, Observed
      <4>. QED  BY <4>1
    <3>5. CASE ~IsObserved(<< r.host, x >>)
      <4>1. IsLost(rule, r)
        BY <3>3, <3>5 DEF IsLost
      <4>2. Spoken(rule, r)
        BY <2>1, <3>1, <3>2, <4>1 DEF PInv, Met, Visited
      <4>3. LET e == InferredEdge(rule, r) IN
            /\ e \in db.edges /\ e.host = r.host /\ e.inferred # "none"
            /\ e.by = {end} /\ {e.src, e.tgt} = {x, end}
        <5>1. InferredEdge(rule, r) \in db.edges
          BY <2>1, <4>2 DEF Spoken
        <5>. HIDE DEF x, end
        <5>2. /\ InferredEdge(rule, r).inferred # "none" /\ InferredEdge(rule, r).host = r.host
              /\ InferredEdge(rule, r).by = {ObservedEnd(rule, r)[2]}
          BY InferredEdgeIs
        <5>3. LET e == InferredEdge(rule, r) IN
              \/ e.src = Referred(rule, r) /\ e.tgt = ObservedEnd(rule, r)[2]
              \/ e.tgt = Referred(rule, r) /\ e.src = ObservedEnd(rule, r)[2]
          BY InferredEdgeIs
        <5>. QED  BY <3>3, <5>1, <5>2, <5>3 DEF x
      <4>4. end \in InferredEdge(rule, r).by
        BY <4>3
      <4>. QED  BY <3>3, <4>2, <4>3, <4>4 DEF Spoken
    <3>. QED  BY <3>4, <3>5
  <2>3. ASSUME NEW e \in db.edges, e.inferred # "none" PROVE EndStored(e)
    <3>1. PICK rule \in RuleNames, m \in DOMAIN events : DrawnFor(e, rule, events[m])
      BY <2>1, <2>3 DEF PInv, Drawn, Active
    <3> DEFINE r == events[m]
               g == Referred(rule, r)
               end == ObservedEnd(rule, r)[2]
    <3>2. /\ IsLost(rule, r) /\ InferredEnd(e) = g /\ e.host = r.host /\ e.by = {end}
          /\ end \in nodes[<< r.host, g >>].by
      BY <3>1, InferredEdgeIs DEF DrawnFor
    <3>3. r.host \in Hosts /\ g \in Guids
      <4>1. r \in Row
        BY <2>1, <3>1, ElementOfSeq
      <4>2. /\ r.host \in Hosts /\ r.owningRef \in Link(Guids)
            /\ r.parentRef \in Link(Guids) /\ r.injectRef \in Link(Guids)
            /\ r.owningAt \in Link(Offsets)
        BY <4>1 DEF Row
      <4>3. Mint \in [Offsets -> Link(Guids)]
        BY DeriveAssumption
      <4>4. g \in Link(Guids) /\ g # Blank
        BY <3>2, <4>2, <4>3 DEF Referred, IsLost, Link
      <4>. QED  BY <4>2, <4>4 DEF Link
    <3>. HIDE DEF g, end
    <3>4. latest[g] # Blank
      BY <2>1, <3>2, <3>3 DEF PInv, Rooted, Active
    <3>5. db.nodes[g] = [ host |-> latest[g], node |-> nodes[<< latest[g], g >>] ]
      BY <2>1, <3>3, <3>4 DEF PInv, Tabled
    <3>6. CASE latest[g] = e.host
      <4>1. db.nodes[g].host = e.host /\ e.by \subseteq db.nodes[g].node.by
        BY <3>2, <3>5, <3>6
      <4>. QED  BY <3>2, <4>1 DEF EndStored
    <3>7. CASE latest[g] # e.host
      <4>1. latest[g] \in Hosts
        BY <3>3, <3>4 DEF DInv, TypeOK, Link
      <4>2. nodes[<< latest[g], g >>].by # {}
        BY <3>3, <3>4 DEF DInv, LatestMade
      <4>3. \E o \in edges : o.inferred # "none" /\ InferredEnd(o) = g /\ o.host = latest[g]
        BY <2>1, <3>3, <4>1, <4>2 DEF PInv, Rooted, Active
      <4>. QED  BY <2>1, <3>2, <3>5, <3>7, <4>3 DEF EndStored
    <3>. QED  BY <3>6, <3>7
  <2>. QED  BY <2>2, <2>3
<1>. QED  BY <1>1, PassInductive, PTL

-----------------------------------------------------------------------------
(* One owner for a record.                                                 *)

OwnRecord(i) ==
  /\ events[i].obj # "process" /\ events[i].guid # Blank
  /\ \A j \in DOMAIN events \ {i} :
       << events[j].obj, events[j].guid >> # << events[i].obj, events[i].guid >>

Owns(e, r) == e.rel = "spoke_owner" /\ e.host = r.host /\ e.tgtObj = r.obj /\ e.tgt = r.guid

LEMMA VersionMeans ==
  ASSUME car \in Inputs, events \in Seq(Row),
         NEW i \in DOMAIN events, NEW j \in DOMAIN car, Version(i, j)
  PROVE  \/ events[i].owningRef = Blank \/ events[i].owningAt = Blank
<1>1. car \in Seq(Row) /\ Enriched(car)
  BY InputRows
<1>2. car[j] \in Row /\ car[j] \in RangeOf(car)
  BY <1>1, ElementOfSeq DEF RangeOf
<1>3. car[j].owningRef = Blank \/ car[j].owningAt = Blank
  BY <1>1, <1>2 DEF Enriched
<1>4. Stored(car[j]).owningRef = Blank
  BY <1>2 DEF Stored, Row
<1>. QED  BY <1>3, <1>4 DEF Version

\* A declared owner is the one the cascade resolved.
LEMMA DeclaredOwner ==
  ASSUME DInv, PInv, pc = "done", NEW i \in DOMAIN events, OwnRecord(i),
         NEW e \in db.declared, Owns(e, events[i])
  PROVE  e.src = events[i].owning /\ e.src # Blank
<1>1. car \in Seq(Row) /\ events \in Seq(Row)
  BY DEF DInv, TypeOK
<1>2. PICK j \in DOMAIN car : e \in DeclaredOf(car[j])
  BY DEF PInv, Tabled, Declared, RangeOf
<1>3. /\ e.src = car[j].owning /\ e.src # Blank
      /\ e.tgtObj = car[j].obj /\ e.tgt = car[j].guid
  <2>1. e \in Resolved(car[j]) /\ e.src # Blank /\ e.rel = "spoke_owner"
    BY <1>2 DEF DeclaredOf, Owns
  <2>. DEFINE r == car[j]
              named == Edge("spoke_owner", r, "process", r.owning, r.obj, r.guid)
  <2>2. \A rel, so, s, to, t : /\ Edge(rel, r, so, s, to, t).rel = rel
                               /\ Edge(rel, r, so, s, to, t).src = s
                               /\ Edge(rel, r, so, s, to, t).tgtObj = to
                               /\ Edge(rel, r, so, s, to, t).tgt = t
    BY DEF Edge
  <2>3. e = named
    <3>1. \/ e = named
          \/ e = Edge("parent_process", r, "process", r.parent, "process", r.guid)
          \/ e = Edge("process_access", r, "process", r.owning, "process", r.accessed)
          \/ e = Edge("file_executed", r, "process", r.executedAs, "file", r.guid)
          \/ e = Edge("thread_injection", r, "process", r.owning, "process", r.injected)
          \/ \E s \in r.sessions : e = Edge("auth_session", r, r.obj, r.guid, "user_session", s)
      BY <2>1 DEF Resolved
    <3>. QED  BY <2>1, <2>2, <3>1
  <2>. QED  BY <2>1, <2>2, <2>3
<1>4. PICK m \in DOMAIN events : Version(m, j)
  BY DEF DInv, Covered
<1>5. events[m].obj = car[j].obj /\ events[m].guid = car[j].guid /\ events[m].owning = car[j].owning
  BY <1>1, <1>4, VersionRow
<1>6. m = i
  BY <1>3, <1>5 DEF OwnRecord, Owns
<1>. QED  BY <1>3, <1>5, <1>6

\* An inferred owner is what the record refers to, if nothing was resolved.
LEMMA InferredOwner ==
  ASSUME DInv, PInv, pc = "done", NEW i \in DOMAIN events, OwnRecord(i),
         NEW e \in db.edges, Owns(e, events[i])
  PROVE  \E rule \in {"owning_process", "owning_process_memory"} :
           e.src = Referred(rule, events[i]) /\ e.src # Blank /\ events[i].owning = Blank
<1>1. e \in edges /\ e.rel = "spoke_owner"
  BY DEF PInv, Tabled, Owns
<1>2. PICK rule \in RuleNames, m \in DOMAIN events : DrawnFor(e, rule, events[m])
  BY <1>1 DEF PInv, Drawn, Active, LinkRules
<1>3. IsLost(rule, events[m]) /\ e = InferredEdge(rule, events[m])
  BY <1>2 DEF DrawnFor
<1>4. rule \in {"owning_process", "owning_process_memory"}
  BY <1>1, <1>3, InferredEdgeIs
<1>5. e.src = Referred(rule, events[m]) /\ e.tgtObj = events[m].obj /\ e.tgt = events[m].guid
  BY <1>3, <1>4, InferredEdgeIs
<1>6. m = i
  BY <1>5 DEF OwnRecord, Owns
<1>7. events[i].owning = Blank /\ e.src # Blank
  BY <1>3, <1>4, <1>5, <1>6 DEF IsLost, UnlessLinked
<1>. QED  BY <1>4, <1>5, <1>6, <1>7

LEMMA OwnersAgree ==
  ASSUME DInv, PInv, pc = "done", NEW i \in DOMAIN events, OwnRecord(i),
         NEW a \in db.declared \cup db.edges, Owns(a, events[i]),
         NEW b \in db.declared \cup db.edges, Owns(b, events[i])
  PROVE  a.src = b.src
<1>1. events[i].owningRef = Blank \/ events[i].owningAt = Blank
  <2>1. PICK j \in DOMAIN car : Version(i, j)
    BY DEF DInv, FromCar
  <2>. QED  BY <2>1, VersionMeans DEF DInv, TypeOK
<1>2. CASE a \in db.declared /\ b \in db.declared
  BY <1>2, DeclaredOwner
<1>3. CASE a \in db.edges /\ b \in db.edges
  BY <1>1, <1>3, InferredOwner DEF Referred
<1>4. CASE a \in db.declared /\ b \in db.edges
  BY <1>4, DeclaredOwner, InferredOwner
<1>5. CASE a \in db.edges /\ b \in db.declared
  BY <1>5, DeclaredOwner, InferredOwner
<1>. QED  BY <1>2, <1>3, <1>4, <1>5

\* A record that names an owner there is no record of has one.
LEMMA OwnerThere ==
  ASSUME DInv, PInv, pc = "done", NEW i \in DOMAIN events, OwnRecord(i),
         events[i].owning # events[i].guid,
         NEW rule \in {"owning_process", "owning_process_memory"},
         Referred(rule, events[i]) \notin {Blank, events[i].guid},
         << events[i].host, "process", Referred(rule, events[i]) >> \notin Observed(car)
  PROVE  \E e \in db.declared \cup db.edges : Owns(e, events[i])
<1> DEFINE r == events[i]
<1>1. car \in Seq(Row) /\ events \in Seq(Row)
  BY DEF DInv, TypeOK
<1>2. CASE r.owning # Blank
  <2>1. PICK j \in DOMAIN car : Version(i, j)
    BY DEF DInv, FromCar
  <2>2. /\ car[j].host = r.host /\ car[j].obj = r.obj /\ car[j].guid = r.guid
        /\ car[j].owning = r.owning
    BY <1>1, <2>1, VersionRow
  <2> DEFINE e == Edge("spoke_owner", car[j], "process", car[j].owning, car[j].obj, car[j].guid)
  <2>3. e \in Resolved(car[j])
    BY <2>2 DEF Resolved, OwnRecord
  <2>4. e.src = r.owning /\ e.tgt = r.guid /\ Owns(e, r)
    BY <2>2 DEF Edge, Owns
  <2>. HIDE DEF e
  <2>5. e \in DeclaredOf(car[j])
    BY <1>2, <2>3, <2>4 DEF DeclaredOf, OwnRecord
  <2>6. e \in db.declared
    BY <2>5 DEF PInv, Tabled, Declared, RangeOf
  <2>. QED  BY <2>4, <2>6
<1>3. CASE r.owning = Blank
  <2>1. PICK o \in DOMAIN Rules : Rules[o] = rule
    BY DEF Rules
  <2>2. rule \in RuleNames
    BY DEF RuleNames
  <2>3. Observed(events) = Observed(car)
    BY ObservedSame
  <2>4. IsLost(rule, r)
    BY <1>3, <2>3 DEF IsLost, InScope, UnlessLinked, ObservedEnd, IsObserved, OwnRecord
  <2>5. InferredEdge(rule, r) \in edges
    BY <2>1, <2>4 DEF PInv, Met, Visited, Spoken
  <2>6. Owns(InferredEdge(rule, r), r)
    BY <2>2, InferredEdgeIs DEF Owns
  <2>. QED  BY <2>5, <2>6 DEF PInv, Tabled
<1>. QED  BY <1>2, <1>3

\* Declared or inferred, never both: a spoke that has its guid to itself has one
\* owner at most, and one exactly if it names a process there is no record of.
THEOREM OneOwner == Spec => []OneOwnerEach
<1>1. DInv /\ PInv => OneOwnerEach
  <2>. SUFFICES ASSUME DInv, PInv, Done, NEW i \in DOMAIN events, OwnRecord(i)
                PROVE  LET r == events[i]
                           owners == { e.src : e \in { o \in db.declared \cup db.edges : Owns(o, r) } }
                           named == { r.owningRef, IF r.owningAt = Blank THEN Blank ELSE Mint[r.owningAt] }
                                      \ {Blank, r.guid}
                       IN  /\ Cardinality(owners) <= 1
                           /\ r.owning # r.guid /\ (\E x \in named : << r.host, "process", x >> \notin Observed(car))
                                => owners # {}
    BY DEF OneOwnerEach, OwnRecord, Owns
  <2> DEFINE r == events[i]
             mine == { o \in db.declared \cup db.edges : Owns(o, r) }
             owners == { e.src : e \in mine }
             named == { r.owningRef, IF r.owningAt = Blank THEN Blank ELSE Mint[r.owningAt] } \ {Blank, r.guid}
  <2>0. pc = "done"
    BY DEF Done
  <2>1. Cardinality(owners) <= 1
    <3>1. CASE owners = {}
      BY <3>1, FS_EmptySet
    <3>2. CASE owners # {}
      <4>1. PICK a \in mine : TRUE
        BY <3>2
      <4>2. \A b \in mine : b.src = a.src
        BY <2>0, OwnersAgree
      <4>3. owners = {a.src}
        BY <4>1, <4>2
      <4>4. \A x : Cardinality({x}) = 1
        BY FS_Singleton
      <4>. HIDE DEF owners
      <4>5. Cardinality(owners) = 1
        BY <4>3, <4>4, Zenon
      <4>. QED  BY <4>5
    <3>. QED  BY <3>1, <3>2
  <2>2. ASSUME r.owning # r.guid, NEW x \in named, << r.host, "process", x >> \notin Observed(car)
        PROVE  owners # {}
    <3>1. \E rule \in {"owning_process", "owning_process_memory"} : x = Referred(rule, r)
      BY DEF Referred
    <3>2. x \notin {Blank, r.guid}
      OBVIOUS
    <3>3. mine # {}
      BY <2>0, <2>2, <3>1, <3>2, OwnerThere
    <3>. QED  BY <3>3
  <2>. QED  BY <2>1, <2>2
<1>. QED  BY <1>1, PassInductive, PTL

-----------------------------------------------------------------------------
(* One link for what is clear.                                             *)

Images == { e \in edges : e.rel = "process_image_content" }

\* Hash i makes the one file the image of the process, for some of its records.
Clear(a, b, i) ==
  \E m \in DOMAIN events, t \in DOMAIN events :
    events[m].guid = a /\ events[t].guid = b /\ ImageBy(HashFields[i], events[m], t)

Walked(i, m) ==
  \/ pc \in {"reconstruct", "content", "store", "done"}
  \/ pc = "links" /\ (i < k \/ (i = k /\ m < n))

LinkedOnce == Active => \A e, o \in Images : e.src = o.src /\ e.tgt = o.tgt => e = o

LinkMade ==
  Active => \A i \in DOMAIN HashFields, m \in DOMAIN events, t \in DOMAIN events :
              Walked(i, m) /\ ImageBy(HashFields[i], events[m], t)
              => \E e \in Images : e.src = events[m].guid /\ e.tgt = events[t].guid

\* A link is named for the first hash that makes it clear.
LinkMeant ==
  Active => \A e \in Images : \E i \in DOMAIN HashFields :
              /\ e.key = HashFields[i] /\ Clear(e.src, e.tgt, i)
              /\ \A j \in DOMAIN HashFields : Clear(e.src, e.tgt, j) => i <= j

LinksInv == LinkedOnce /\ LinkMade /\ LinkMeant

\* What the disambiguation lets through, against the definition of an image.
LEMMA LinkedIsImage ==
  ASSUME NEW field, NEW s, NEW step, step = << "process_image_content", field >>,
         NEW t \in DOMAIN events
  PROVE  t \in Linked(step, s) <=> ImageBy(field, s, t)
<1> DEFINE found(key) == Candidates(step, s, key)
<1>1. step[1] = "process_image_content" /\ step[2] = field
  OBVIOUS
<1>2. SourceObject[step[1]] = "process" /\ SourceKeys(step, s) = HashOf(field, s)
  BY <1>1 DEF SourceObject, SourceKeys
<1>3. \A q : TargetKeys(step, q) = HashOf(field, q)
  BY <1>1 DEF TargetKeys
<1>4. \A key \in HashOf(field, s) : HashOf(field, s) = {key}
  BY DEF HashOf
<1>5. \A key \in HashOf(field, s), q \in DOMAIN events :
        key \in HashOf(field, events[q]) <=> HashOf(field, events[q]) = HashOf(field, s)
  BY DEF HashOf
<1>6. \A key \in HashOf(field, s), q \in DOMAIN events :
        q \in found(key) <=> /\ events[q].obj = "file" /\ events[q].guid \notin {Blank, s.guid}
                             /\ events[q].host = s.host
                             /\ HashOf(field, events[q]) = HashOf(field, s)
  BY <1>3, <1>5 DEF Candidates
<1>7. \A key \in HashOf(field, s) : found(key) \subseteq DOMAIN events
  BY DEF Candidates
<1>. HIDE DEF found
<1>8. \A key \in HashOf(field, s), q \in DOMAIN events :
        Rivals(s, t, q, field) <=>
          q \in found(key) /\ (s.path = Blank \/ events[t].path # s.path \/ events[q].path = s.path)
  BY <1>6 DEF Rivals
<1>9. \A key \in HashOf(field, s) :
        t \in Disambiguate(step, s, found(key)) <=>
          /\ Rivals(s, t, t, field)
          /\ \A q \in DOMAIN events \ {t} : ~Rivals(s, t, q, field)
  <2>. SUFFICES ASSUME NEW key \in HashOf(field, s)
                PROVE  t \in Disambiguate(step, s, found(key)) <=>
                         /\ Rivals(s, t, t, field)
                         /\ \A q \in DOMAIN events \ {t} : ~Rivals(s, t, q, field)
    OBVIOUS
  <2> DEFINE there == { q \in found(key) : events[q].path = s.path }
  <2>1. t \in Disambiguate(step, s, found(key)) <=>
          t \in found(key) /\ (found(key) = {t} \/ (s.path # Blank /\ there = {t}))
    BY <1>1 DEF Disambiguate
  <2>2. t \in found(key) =>
          (found(key) = {t} <=> \A q \in DOMAIN events \ {t} : q \notin found(key))
    BY <1>7
  <2>3. t \in found(key) =>
          (there = {t} <=> /\ events[t].path = s.path
                           /\ \A q \in DOMAIN events \ {t} : q \in found(key) => events[q].path # s.path)
    BY <1>7
  <2>. HIDE DEF there
  <2>. QED  BY <1>8, <2>1, <2>2, <2>3
<1>10. t \in Linked(step, s) <=>
         /\ s.obj = "process" /\ s.guid # Blank
         /\ \E key \in HashOf(field, s) : t \in Disambiguate(step, s, found(key))
  BY <1>2 DEF Linked, found
<1>11. HashOf(field, s) # {} <=> \E key \in HashOf(field, s) : TRUE
  OBVIOUS
<1>. QED  BY <1>9, <1>10, <1>11 DEF ImageBy

LEMMA StepIs ==
  /\ Len(LinkSteps) = Len(HashFields) + 1
  /\ \A i \in 1 .. Len(LinkSteps) :
       \/ i \in DOMAIN HashFields /\ LinkSteps[i] = << "process_image_content", HashFields[i] >>
       \/ i = Len(HashFields) + 1 /\ LinkSteps[i][1] = "http_file_transfer"
<1>1. Len(HashFields) \in Nat /\ DOMAIN HashFields = 1 .. Len(HashFields)
  BY DeriveAssumption
<1> DEFINE hashes == [ j \in DOMAIN HashFields |-> << "process_image_content", HashFields[j] >> ]
           moved == << << "http_file_transfer", "native.resp_fuids" >> >>
<1>2. hashes \in Seq(LinkRules \X Keys) /\ Len(hashes) = Len(HashFields)
  <2>1. hashes \in [ 1 .. Len(HashFields) -> LinkRules \X Keys ]
    BY <1>1 DEF RangeOf, LinkRules, Keys
  <2>. QED  BY <1>1, <2>1
<1>3. moved \in Seq(LinkRules \X Keys) /\ Len(moved) = 1 /\ moved[1][1] = "http_file_transfer"
  <2>1. << "http_file_transfer", "native.resp_fuids" >> \in LinkRules \X Keys
    BY DEF LinkRules, Keys
  <2>. QED  BY <2>1
<1>4. LinkSteps = hashes \o moved
  BY DEF LinkSteps
<1>5. \A j \in DOMAIN HashFields : hashes[j] = << "process_image_content", HashFields[j] >>
  OBVIOUS
<1>. HIDE DEF hashes, moved
<1>6. /\ Len(LinkSteps) = Len(HashFields) + 1
      /\ \A j \in 1 .. Len(LinkSteps) :
           LinkSteps[j] = IF j <= Len(HashFields) THEN hashes[j] ELSE moved[j - Len(HashFields)]
  <2>1. /\ Len(hashes \o moved) = Len(hashes) + Len(moved)
        /\ \A j \in 1 .. Len(hashes) + Len(moved) :
             (hashes \o moved)[j] = IF j <= Len(hashes) THEN hashes[j] ELSE moved[j - Len(hashes)]
    BY <1>2, <1>3, ConcatProperties, Zenon
  <2>. QED  BY <1>1, <1>2, <1>3, <1>4, <2>1
<1>. QED  BY <1>1, <1>3, <1>5, <1>6

LEMMA InferredNoLink ==
  ASSUME NEW rule, NEW r
  PROVE  InferredEdge(rule, r).rel \notin LinkRules
<1> DEFINE seen == ObservedEnd(rule, r)
           x == Referred(rule, r)
           rel == CASE rule = "parent_process"   -> "parent_process"
                    [] rule = "injection_target" -> "thread_injection"
                    [] OTHER                     -> "spoke_owner"
           edge == [ rel |-> rel, host |-> r.host, srcObj |-> "process", src |-> x,
                     tgtObj |-> seen[1], tgt |-> seen[2],
                     key |-> IF rule = "owning_process_memory" THEN "offset" ELSE "guid",
                     inferred |-> "source", by |-> {seen[2]} ]
           turned == [ edge EXCEPT !.srcObj = seen[1], !.src = seen[2], !.tgtObj = "process",
                                   !.tgt = x, !.inferred = "target" ]
<1>1. InferredEdge(rule, r) = IF rule # "injection_target" THEN edge ELSE turned
  BY DEF InferredEdge
<1>2. rel \notin LinkRules
  BY DEF LinkRules
<1>. HIDE DEF rel, seen, x
<1>3. edge.rel = rel /\ turned.rel = rel
  OBVIOUS
<1>. QED  BY <1>1, <1>2, <1>3

LEMMA ImagesStay ==
  ASSUME LinksInv, Active, UNCHANGED events, pc # "links" \/ (k' = k /\ n' = n /\ pc' = pc),
         pc' = "links" => pc = "links", Images' = Images
  PROVE  LinksInv'
<1>1. \A i, m, t : ImageBy(HashFields[i], events[m], t)' <=> ImageBy(HashFields[i], events[m], t)
  BY DEF ImageBy, Rivals
<1>2. \A a, b, i : Clear(a, b, i)' <=> Clear(a, b, i)
  BY <1>1 DEF Clear
<1>3. \A i, m : Walked(i, m)' => Walked(i, m)
  BY DEF Walked, Active, Running
<1>4. LinkedOnce'
  BY DEF LinksInv, LinkedOnce
<1>5. LinkMade'
  <2>. SUFFICES ASSUME NEW i \in DOMAIN HashFields, NEW m \in DOMAIN events, NEW t \in DOMAIN events,
                       Walked(i, m)', ImageBy(HashFields[i], events[m], t)'
                PROVE  (\E e \in Images : e.src = events[m].guid /\ e.tgt = events[t].guid)'
    BY DEF LinkMade
  <2>1. Walked(i, m) /\ ImageBy(HashFields[i], events[m], t)
    BY <1>1, <1>3
  <2>2. \E e \in Images : e.src = events[m].guid /\ e.tgt = events[t].guid
    BY <2>1 DEF LinksInv, LinkMade
  <2>. QED  BY <2>2
<1>6. LinkMeant'
  BY <1>2 DEF LinksInv, LinkMeant
<1>. QED  BY <1>4, <1>5, <1>6 DEF LinksInv

LEMMA LinksPass == DInv /\ LinksInv /\ LinkSource => LinksInv'
<1>. SUFFICES ASSUME DInv, LinksInv, LinkSource PROVE LinksInv'
  OBVIOUS
<1>0. PICK i, s, step : i = k /\ s = n /\ step = LinkSteps[k]
  OBVIOUS
<1>1. /\ UNCHANGED events /\ pc = "links" /\ Advance(events, LinkSteps, "reconstruct")
      /\ edges' = edges \cup
           { e \in { LinkEdge(step, events[s], events[t]) : t \in Linked(step, events[s]) } : ~Seen(e) }
  BY <1>0 DEF LinkSource, Stay
<1>2. /\ k \in Nat \ {0} /\ n \in Nat \ {0} /\ n <= Len(events) /\ k <= Len(LinkSteps)
      /\ Len(events) \in Nat \ {0} /\ Len(LinkSteps) \in Nat \ {0} /\ events \in Seq(Row)
  BY <1>1, EventsThere, LinkStepsType DEF DInv, Cursors, TypeOK
<1>3. pc' = "links" \/ (pc' = "reconstruct" /\ n' = 1 /\ k' = 1)
  BY <1>1, <1>2, Advanced
<1>4. \/ i \in DOMAIN HashFields /\ step = << "process_image_content", HashFields[i] >>
      \/ i = Len(HashFields) + 1 /\ step[1] = "http_file_transfer"
  BY <1>0, <1>2, StepIs
<1>5. s \in DOMAIN events /\ Active /\ Active' /\ i \in Nat /\ Len(HashFields) \in Nat
      /\ DOMAIN HashFields = 1 .. Len(HashFields)
  BY <1>0, <1>1, <1>2, <1>3, DeriveAssumption DEF Active, Running
<1>6. \A j, m, t : ImageBy(HashFields[j], events[m], t)' <=> ImageBy(HashFields[j], events[m], t)
  BY <1>1 DEF ImageBy, Rivals
<1>7. \A a, b, j : Clear(a, b, j)' <=> Clear(a, b, j)
  BY <1>1, <1>6 DEF Clear
<1>8. \A j \in DOMAIN HashFields, m \in DOMAIN events : Walked(j, m)' => Walked(j, m) \/ (j = i /\ m = s)
  <2>. SUFFICES ASSUME NEW j \in DOMAIN HashFields, NEW m \in DOMAIN events, Walked(j, m)'
                PROVE  Walked(j, m) \/ (j = i /\ m = s)
    OBVIOUS
  <2>1. j \in 1 .. Len(HashFields) /\ m \in 1 .. Len(events)
    BY <1>2, <1>5
  <2>2. Len(LinkSteps) = Len(HashFields) + 1
    BY StepIs
  <2>3. CASE n < Len(events) /\ n' = n + 1 /\ k' = k /\ pc' = pc
    BY <1>0, <1>1, <1>2, <2>1, <2>3 DEF Walked
  <2>4. CASE n >= Len(events) /\ k < Len(LinkSteps) /\ n' = 1 /\ k' = k + 1 /\ pc' = pc
    BY <1>0, <1>1, <1>2, <2>1, <2>4 DEF Walked
  <2>5. CASE n >= Len(events) /\ k >= Len(LinkSteps)
    BY <1>0, <1>1, <1>2, <1>5, <2>1, <2>2, <2>5 DEF Walked
  <2>. QED  BY <1>1, <2>3, <2>4, <2>5 DEF Advance
\* What a new link is.
<1>9. ASSUME NEW e \in Images' \ Images
      PROVE  /\ i \in DOMAIN HashFields /\ e.key = HashFields[i]
             /\ \E t \in DOMAIN events : /\ ImageBy(HashFields[i], events[s], t)
                                         /\ e = LinkEdge(step, events[s], events[t])
             /\ ~Seen(e)
  <2>1. PICK t \in Linked(step, events[s]) : e = LinkEdge(step, events[s], events[t]) /\ ~Seen(e)
    BY <1>1, <1>9 DEF Images
  <2>2. e.rel = step[1] /\ e.key = step[2]
    BY <2>1 DEF LinkEdge
  <2>3. step = << "process_image_content", HashFields[i] >> /\ i \in DOMAIN HashFields
    BY <1>4, <1>9, <2>2 DEF Images
  <2>4. t \in DOMAIN events
    BY <2>1 DEF Linked, Disambiguate, Candidates
  <2>5. ImageBy(HashFields[i], events[s], t)
    BY <2>1, <2>3, <2>4, LinkedIsImage
  <2>. QED  BY <2>1, <2>2, <2>3, <2>4, <2>5
<1>10. Images \subseteq Images'
  BY <1>1 DEF Images
<1>11. \A t : /\ LinkEdge(step, events[s], events[t]).src = events[s].guid
              /\ LinkEdge(step, events[s], events[t]).tgt = events[t].guid
              /\ LinkEdge(step, events[s], events[t]).rel = step[1]
  BY DEF LinkEdge
\* Links of one walk that join the same records are one link.
<1>12. \A t, u : /\ t \in DOMAIN events /\ u \in DOMAIN events
                 /\ i \in DOMAIN HashFields
                 /\ ImageBy(HashFields[i], events[s], t) /\ ImageBy(HashFields[i], events[s], u)
                 /\ events[t].guid = events[u].guid
                => LinkEdge(step, events[s], events[t]) = LinkEdge(step, events[s], events[u])
  BY DEF LinkEdge, ImageBy, Rivals
<1>13. ASSUME NEW e \in Images', NEW o \in Images', e \notin Images, e.src = o.src, e.tgt = o.tgt
       PROVE  e = o
  <2>1. o \notin Images
    BY <1>9, <1>13 DEF Seen, Images
  <2>. QED  BY <1>9, <1>11, <1>12, <1>13, <2>1
<1>14. LinkedOnce'
  <2>. SUFFICES ASSUME NEW e \in Images', NEW o \in Images', e.src = o.src, e.tgt = o.tgt
                PROVE  e = o
    BY DEF LinkedOnce
  <2>1. CASE e \in Images /\ o \in Images
    BY <1>5, <2>1 DEF LinksInv, LinkedOnce
  <2>2. CASE e \notin Images
    BY <1>13, <2>2
  <2>3. CASE o \notin Images
    BY <1>13, <2>3
  <2>. QED  BY <2>1, <2>2, <2>3
<1>15. LinkMade'
  <2>. SUFFICES ASSUME NEW j \in DOMAIN HashFields, NEW m \in DOMAIN events, NEW t \in DOMAIN events,
                       Walked(j, m)', ImageBy(HashFields[j], events[m], t)
                PROVE  \E e \in Images' : e.src = events[m].guid /\ e.tgt = events[t].guid
    BY <1>1, <1>6 DEF LinkMade
  <2>1. CASE Walked(j, m)
    BY <1>5, <1>10, <2>1 DEF LinksInv, LinkMade
  <2>2. CASE j = i /\ m = s
    <3>1. step = << "process_image_content", HashFields[i] >> /\ i \in DOMAIN HashFields
      BY <1>4, <1>5, <2>2
    <3>2. t \in Linked(step, events[s])
      BY <2>2, <3>1, LinkedIsImage
    <3> DEFINE made == LinkEdge(step, events[s], events[t])
    <3>3. made.rel = "process_image_content" /\ made.src = events[m].guid /\ made.tgt = events[t].guid
      BY <1>11, <2>2, <3>1
    <3>4. CASE Seen(made)
      <4>1. PICK o \in edges : o.rel = made.rel /\ o.src = made.src /\ o.tgt = made.tgt
        BY <3>4 DEF Seen
      <4>. QED  BY <1>10, <3>3, <4>1 DEF Images
    <3>5. CASE ~Seen(made)
      <4>1. made \in edges'
        BY <1>1, <3>2, <3>5
      <4>2. made \in Images'
        BY <3>3, <4>1 DEF Images
      <4>. QED  BY <3>3, <4>2
    <3>. QED  BY <3>4, <3>5
  <2>. QED  BY <1>8, <2>1, <2>2
<1>16. LinkMeant'
  <2>. SUFFICES ASSUME NEW e \in Images'
                PROVE  \E j \in DOMAIN HashFields :
                         /\ e.key = HashFields[j] /\ Clear(e.src, e.tgt, j)
                         /\ \A l \in DOMAIN HashFields : Clear(e.src, e.tgt, l) => j <= l
    BY <1>7 DEF LinkMeant
  <2>1. CASE e \in Images
    BY <1>5, <2>1 DEF LinksInv, LinkMeant
  <2>2. CASE e \notin Images
    <3>1. /\ i \in DOMAIN HashFields /\ e.key = HashFields[i] /\ ~Seen(e)
          /\ e.rel = "process_image_content"
      BY <1>9, <2>2 DEF Images
    <3>2. Clear(e.src, e.tgt, i)
      BY <1>5, <1>9, <1>11, <2>2 DEF Clear
    <3>3. ASSUME NEW l \in DOMAIN HashFields, Clear(e.src, e.tgt, l), l < i PROVE FALSE
      <4>1. PICK m \in DOMAIN events, t \in DOMAIN events :
              events[m].guid = e.src /\ events[t].guid = e.tgt /\ ImageBy(HashFields[l], events[m], t)
        BY <3>3 DEF Clear
      <4>2. Walked(l, m)
        BY <1>0, <1>1, <3>3 DEF Walked
      <4>3. \E o \in Images : o.src = e.src /\ o.tgt = e.tgt
        BY <1>5, <4>1, <4>2 DEF LinksInv, LinkMade
      <4>. QED  BY <3>1, <4>3 DEF Seen, Images
    <3>4. \A l \in DOMAIN HashFields : Clear(e.src, e.tgt, l) => i <= l
      BY <1>5, <3>1, <3>3
    <3>. QED  BY <3>1, <3>2, <3>4
  <2>. QED  BY <2>1, <2>2
<1>. QED  BY <1>14, <1>15, <1>16 DEF LinksInv

LEMMA LinksInductive == Spec => [](DInv /\ PInv /\ LinksInv)
<1>1. Init => LinksInv
  BY DEF Init, LinksInv, LinkedOnce, LinkMade, LinkMeant, Active, Running
<1>2. DInv /\ LinksInv /\ [Next]_vars => LinksInv'
  <2>. SUFFICES ASSUME DInv, LinksInv, [Next]_vars PROVE LinksInv'
    OBVIOUS
  <2>1. CASE ClearDerived
    <3>1. pc' = "links" /\ k' = k /\ n' = n /\ UNCHANGED events /\ pc = "clear" /\ edges' = {}
      BY <2>1 DEF ClearDerived
    <3>2. k = 1 /\ n = 1 /\ events \in Seq(Row)
      BY <3>1 DEF DInv, Cursors, TypeOK
    <3>3. \A i \in DOMAIN HashFields, m \in DOMAIN events : ~Walked(i, m)'
      <4>1. DOMAIN HashFields \subseteq Nat \ {0} /\ DOMAIN events \subseteq Nat \ {0}
        BY <3>2, DeriveAssumption
      <4>. QED  BY <3>1, <3>2, <4>1 DEF Walked
    <3>4. Images' = {}
      BY <3>1 DEF Images
    <3>. QED  BY <3>1, <3>3, <3>4 DEF LinksInv, LinkedOnce, LinkMade, LinkMeant
  <2>2. CASE LinkSource
    BY <2>2, LinksPass
  <2>3. CASE Reconstruct
    <3>1. UNCHANGED events /\ pc = "reconstruct" /\ pc' \in {"reconstruct", "content"}
      BY <2>3 DEF Reconstruct, Advance
    <3>2. \A rule, r : InferredEdge(rule, r).rel # "process_image_content"
      BY InferredNoLink DEF LinkRules
    <3>3. edges' = edges \/ \E rule, r : edges' = edges \cup { InferredEdge(rule, r) }
      BY <2>3 DEF Reconstruct
    <3>4. Images' = Images
      BY <3>2, <3>3 DEF Images
    <3>. QED  BY <3>1, <3>4, ImagesStay DEF Active, Running
  <2>4. CASE Refer
    <3>1. UNCHANGED << events, edges >> /\ pc = "content" /\ pc' \in {"content", "store"}
      BY <2>4 DEF Refer, Advance
    <3>. QED  BY <3>1, ImagesStay DEF Active, Running, Images
  <2>5. CASE StoreLayer
    <3>1. UNCHANGED << events, edges >> /\ pc = "store" /\ pc' = "done"
      BY <2>5 DEF StoreLayer, Collected
    <3>. QED  BY <3>1, ImagesStay DEF Active, Running, Images
  <2>6. CASE Rederive \/ LoadRow
    <3>1. pc' \in {"load", "clear"}
      BY <2>6 DEF Rederive, LoadRow, Advance
    <3>. QED  BY <3>1 DEF LinksInv, LinkedOnce, LinkMade, LinkMeant, Active, Running
  <2>7. CASE UNCHANGED vars
    <3>1. UNCHANGED << events, edges, pc, k, n >>
      BY <2>7 DEF vars
    <3>2. CASE Active
      BY <3>1, <3>2, ImagesStay DEF Images
    <3>3. CASE ~Active
      BY <3>1, <3>3 DEF LinksInv, LinkedOnce, LinkMade, LinkMeant, Active, Running
    <3>. QED  BY <3>2, <3>3
  <2>. QED  BY <2>1, <2>2, <2>3, <2>4, <2>5, <2>6, <2>7 DEF Next
<1>. QED  BY <1>1, <1>2, PassInductive, PTL DEF Spec

\* The 1:1 rule: a process has one link to a file's record, named for the
\* strongest hash that makes the file its image beyond doubt, and none if no
\* hash does.
THEOREM OneLinkIfClear == Spec => []LinkedOnceIffClear
<1>1. DInv /\ PInv /\ LinksInv => LinkedOnceIffClear
  <2>. SUFFICES ASSUME DInv, PInv, LinksInv, Done PROVE LinkedOnceIffClear
    BY DEF LinkedOnceIffClear
  <2>1. Active /\ db.edges = edges /\ events \in Seq(Row) /\ pc = "done"
    BY DEF Done, Active, PInv, Tabled, DInv, TypeOK
  <2>. SUFFICES ASSUME NEW a \in Guids, NEW b \in Guids
                PROVE  LET made == { e \in db.edges : e.rel = "process_image_content" /\ e.src = a /\ e.tgt = b }
                           clear == { i \in DOMAIN HashFields :
                                        \E s \in RangeOf(events), t \in DOMAIN events :
                                          s.guid = a /\ events[t].guid = b /\ ImageBy(HashFields[i], s, t) }
                       IN  /\ Cardinality(made) = IF clear = {} THEN 0 ELSE 1
                           /\ \A e \in made : \A i \in clear : \E j \in clear : j <= i /\ e.key = HashFields[j]
    BY DEF LinkedOnceIffClear
  <2> DEFINE made == { e \in db.edges : e.rel = "process_image_content" /\ e.src = a /\ e.tgt = b }
             clear == { i \in DOMAIN HashFields :
                          \E s \in RangeOf(events), t \in DOMAIN events :
                            s.guid = a /\ events[t].guid = b /\ ImageBy(HashFields[i], s, t) }
  <2>2. clear = { i \in DOMAIN HashFields : Clear(a, b, i) }
    BY DEF Clear, RangeOf
  <2>3. made = { e \in Images : e.src = a /\ e.tgt = b }
    BY <2>1 DEF Images
  <2>. HIDE DEF made, clear
  <2>4. \A e \in made : \E j \in clear : e.key = HashFields[j] /\ \A i \in clear : j <= i
    BY <2>1, <2>2, <2>3 DEF LinksInv, LinkMeant
  <2>5. clear # {} => made # {}
    BY <2>1, <2>2, <2>3 DEF LinksInv, LinkMade, Clear, Walked
  <2>6. \A e, o \in made : e = o
    BY <2>1, <2>3 DEF LinksInv, LinkedOnce
  <2>7. Cardinality(made) = IF clear = {} THEN 0 ELSE 1
    <3>1. CASE clear = {}
      <4>1. made = {}
        BY <2>4, <3>1
      <4>. QED  BY <3>1, <4>1, FS_EmptySet
    <3>2. CASE clear # {}
      <4>1. PICK e : made = {e}
        BY <2>5, <2>6, <3>2
      <4>2. Cardinality({e}) = 1
        BY FS_Singleton
      <4>. QED  BY <3>2, <4>1, <4>2
    <3>. QED  BY <3>1, <3>2
  <2>. QED  BY <2>4, <2>7 DEF made, clear
<1>. QED  BY <1>1, LinksInductive, PTL

-----------------------------------------------------------------------------
(* Every content is counted.                                               *)

IdentOf(id) == IF id[1] = "sid" THEN 2 ELSE 1

\* content_entities is past identity o and event m.
Read(o, m) ==
  \/ pc \in {"store", "done"}
  \/ pc = "content" /\ (o < k \/ (o = k /\ m < n))

\* The fields read so far that carry a content.
Carriers(id) ==
  LET ident == Identities[IdentOf(id)] IN
  { c \in (DOMAIN events) \X FieldsOf(ident) :
      Read(IdentOf(id), c[1]) /\ c[2] \in Roles(ident, id, events[c[1]]) }
Around(id) == { events[c[1]].path : c \in Carriers(id) } \ {Blank}

\* Up to the cap, the context a content was found in.
Capped(context, paths) ==
  /\ IsFiniteSet(context) /\ context \subseteq paths /\ Cardinality(context) <= PropCap
  /\ context = paths \/ Cardinality(context) = PropCap

Counted ==
  Active => \A id \in ContentIds :
    content[id].count = Cardinality(Carriers(id)) /\ Capped(content[id].context, Around(id))

RefersAs(y, c) ==
  y.obj = events[c[1]].obj /\ y.guid = events[c[1]].guid /\ y.key = c[2]
Traced ==
  Active =>
    /\ \A y \in refs : \E c \in Carriers(y.node) : events[c[1]].guid # Blank /\ RefersAs(y, c)
    /\ \A id \in ContentIds : \A c \in Carriers(id) :
         events[c[1]].guid # Blank => \E y \in refs : y.node = id /\ RefersAs(y, c)

ContentTabled ==
  /\ Running => db.content = NoEntities /\ db.refs = {}
  /\ pc = "done" => /\ db.refs = refs
                    /\ \A id \in ContentIds : db.content[id] = content[id]

ContentInv == Counted /\ Traced /\ ContentTabled

LEMMA FieldsFinite ==
  ASSUME NEW ident \in {"hash", "sid"}
  PROVE  IsFiniteSet(FieldsOf(ident))
<1>. DEFINE fields == IF ident = "hash" THEN HashFields ELSE AccountFields
<1>1. fields \in Seq(ContentFields)
  BY DeriveAssumption
<1>2. Len(fields) \in Nat /\ DOMAIN fields = 1 .. Len(fields)
  BY <1>1
<1>3. IsFiniteSet(1 .. Len(fields))
  BY <1>2, FS_Interval
<1>4. fields \in Surjection(1 .. Len(fields), RangeOf(fields))
  BY <1>1, <1>2 DEF Surjection, RangeOf
<1>. QED  BY <1>3, <1>4, FS_Surjection DEF FieldsOf

LEMMA IdentityOf ==
  ASSUME NEW id \in ContentIds
  PROVE  /\ IdentOf(id) \in {1, 2} /\ Identities[IdentOf(id)] \in {"hash", "sid"}
         /\ id[1] = "sid" <=> Identities[IdentOf(id)] = "sid"
         /\ id = << id[1], id[2] >>
         /\ \A o \in {1, 2} : o # IdentOf(id) => \A r : Roles(Identities[o], id, r) = {}
<1>1. /\ Identities[1] = "hash" /\ Identities[2] = "sid"
      /\ id = << id[1], id[2] >> /\ id[1] \in RangeOf(HashFields) \cup {"sid"}
  BY DEF Identities, ContentIds
<1>2. "sid" \notin RangeOf(HashFields)
  BY DeriveAssumption
<1>3. \A r : id[1] = "sid" => Roles("hash", id, r) = {}
  BY <1>2 DEF Roles, NodeOf, FieldsOf
<1>4. \A r : id[1] # "sid" => Roles("sid", id, r) = {}
  BY DEF Roles, NodeOf
<1>. QED  BY <1>1, <1>3, <1>4 DEF IdentOf

LEMMA CarriersFinite ==
  ASSUME events \in Seq(Row), NEW id \in ContentIds
  PROVE  IsFiniteSet(Carriers(id))
<1> DEFINE ident == Identities[IdentOf(id)]
<1>1. IsFiniteSet(DOMAIN events)
  <2>1. Len(events) \in Nat /\ DOMAIN events = 1 .. Len(events)
    OBVIOUS
  <2>. QED  BY <2>1, FS_Interval
<1>2. IsFiniteSet(FieldsOf(ident))
  BY IdentityOf, FieldsFinite
<1>3. IsFiniteSet((DOMAIN events) \X FieldsOf(ident))
  BY <1>1, <1>2, FS_Product
<1>4. Carriers(id) \subseteq (DOMAIN events) \X FieldsOf(ident)
  BY DEF Carriers
<1>. QED  BY <1>3, <1>4, FS_Subset

\* One path more.
LEMMA CapGrows ==
  ASSUME NEW context, NEW paths, Capped(context, paths), NEW path, NEW more,
         more = paths \cup ({path} \ {Blank})
  PROVE  Capped(WithContext(context, path), more)
<1>1. PropCap \in Nat /\ Cardinality(context) \in Nat
  BY DeriveAssumption, FS_CardinalityType DEF Capped
<1>2. CASE path = Blank
  BY <1>2 DEF WithContext, Capped
<1>3. CASE path # Blank /\ Cardinality(context) < PropCap
  <2>1. WithContext(context, path) = context \cup {path}
    BY <1>3 DEF WithContext
  <2>2. /\ IsFiniteSet(context \cup {path})
        /\ \/ Cardinality(context \cup {path}) = Cardinality(context)
           \/ Cardinality(context \cup {path}) = Cardinality(context) + 1
    BY FS_AddElement DEF Capped
  <2>3. context = paths
    BY <1>1, <1>3 DEF Capped
  <2>4. context \cup {path} = more
    BY <1>3, <2>3
  <2>5. Cardinality(context \cup {path}) <= PropCap
    BY <1>1, <1>3, <2>2
  <2>. QED  BY <2>1, <2>2, <2>4, <2>5 DEF Capped
<1>4. CASE path # Blank /\ ~(Cardinality(context) < PropCap)
  <2>1. WithContext(context, path) = context /\ Cardinality(context) = PropCap
    BY <1>1, <1>4 DEF WithContext, Capped
  <2>. QED  BY <2>1 DEF Capped
<1>. QED  BY <1>2, <1>3, <1>4

\* What the step reads counts once, for the contents of its kind.
LEMMA ReferCarriers ==
  ASSUME DInv, Refer, NEW id \in ContentIds
  PROVE  LET new == { << n, f >> : f \in Roles(Identities[k], id, events[n]) } IN
         /\ Carriers(id)' = Carriers(id) \cup new /\ Carriers(id) \cap new = {}
         /\ IsFiniteSet(new)
         /\ Cardinality(new) = Cardinality(Roles(Identities[k], id, events[n]))
<1> DEFINE o == IdentOf(id)
           roles == Roles(Identities[k], id, events[n])
           new == { << n, f >> : f \in roles }
<1>0. /\ UNCHANGED events /\ pc = "content" /\ Advance(events, Identities, "store")
  BY DEF Refer, Stay
<1>1. /\ k \in {1, 2} /\ n \in Nat \ {0} /\ n <= Len(events) /\ Len(Identities) = 2
      /\ Len(events) \in Nat \ {0} /\ events \in Seq(Row) /\ n \in DOMAIN events
      /\ DOMAIN events = 1 .. Len(events)
  BY <1>0, EventsThere, RulesType DEF DInv, Cursors, TypeOK
<1>2. o \in {1, 2} /\ Identities[o] \in {"hash", "sid"} /\ (o # k => roles = {})
  BY <1>1, IdentityOf
<1>3. \A m \in DOMAIN events : Read(o, m)' <=> Read(o, m) \/ (o = k /\ m = n)
  <2>. SUFFICES ASSUME NEW m \in DOMAIN events
                PROVE  Read(o, m)' <=> Read(o, m) \/ (o = k /\ m = n)
    OBVIOUS
  <2>1. m \in 1 .. Len(events)
    BY <1>1
  <2>. HIDE DEF o
  <2>2. CASE n < Len(events) /\ n' = n + 1 /\ k' = k /\ pc' = pc
    BY <1>0, <1>1, <1>2, <2>1, <2>2 DEF Read
  <2>3. CASE n >= Len(events) /\ k < Len(Identities) /\ n' = 1 /\ k' = k + 1 /\ pc' = pc
    BY <1>0, <1>1, <1>2, <2>1, <2>3 DEF Read
  <2>4. CASE n >= Len(events) /\ k >= Len(Identities) /\ pc' = "store"
    BY <1>0, <1>1, <1>2, <2>1, <2>4 DEF Read
  <2>. QED  BY <1>0, <2>2, <2>3, <2>4 DEF Advance
<1>4. ~Read(o, n) \/ o # k
  BY <1>0, <1>1 DEF Read
<1>5. roles \subseteq FieldsOf(Identities[k])
  BY DEF Roles
<1>6. Carriers(id) = { c \in (DOMAIN events) \X FieldsOf(Identities[o]) :
                         Read(o, c[1]) /\ c[2] \in Roles(Identities[o], id, events[c[1]]) }
  BY DEF Carriers
<1>7. Carriers(id)' = { c \in (DOMAIN events) \X FieldsOf(Identities[o]) :
                          Read(o, c[1])' /\ c[2] \in Roles(Identities[o], id, events[c[1]]) }
  BY <1>0 DEF Carriers
<1>. HIDE DEF o, roles
<1>8. Carriers(id)' = Carriers(id) \cup new
  <2>1. CASE o = k
    <3>1. roles = Roles(Identities[o], id, events[n])
      BY <2>1 DEF roles
    <3>. QED  BY <1>1, <1>3, <1>5, <1>6, <1>7, <2>1, <3>1
  <2>2. CASE o # k
    <3>1. new = {}
      BY <1>2, <2>2
    <3>. QED  BY <1>3, <1>6, <1>7, <2>2, <3>1
  <2>. QED  BY <2>1, <2>2
<1>9. Carriers(id) \cap new = {}
  BY <1>2, <1>4, <1>6
<1>10. IsFiniteSet(roles)
  <2>1. Identities[k] \in {"hash", "sid"}
    BY <1>1, RulesType
  <2>. QED  BY <1>5, <2>1, FieldsFinite, FS_Subset
<1>11. IsFiniteSet(new) /\ Cardinality(new) = Cardinality(roles)
  <2> DEFINE f == [ x \in roles |-> << n, x >> ]
  <2>1. f \in Bijection(roles, new)
    BY DEF Bijection, Injection, Surjection, IsInjective
  <2>2. ExistsBijection(roles, new)
    BY <2>1 DEF ExistsBijection
  <2>. HIDE DEF new
  <2>. QED  BY <1>10, <2>2, FS_Bijection
<1>. QED  BY <1>8, <1>9, <1>11 DEF roles

LEMMA ContentStays ==
  ASSUME ContentInv, Active, UNCHANGED << events, content, refs >>,
         \A o, m : Read(o, m)' <=> Read(o, m), ContentTabled'
  PROVE  ContentInv'
<1>1. \A id : Carriers(id)' = Carriers(id)
  BY DEF Carriers
<1>2. \A id : Around(id)' = Around(id)
  BY <1>1 DEF Around
<1>3. Counted'
  BY <1>1, <1>2 DEF ContentInv, Counted
<1>4. Traced'
  BY <1>1 DEF ContentInv, Traced, RefersAs
<1>. QED  BY <1>3, <1>4 DEF ContentInv

LEMMA ReferPass == DInv /\ ContentInv /\ Refer => ContentInv'
<1>. SUFFICES ASSUME DInv, ContentInv, Refer PROVE ContentInv'
  OBVIOUS
<1>0. PICK i, o, r, ident : i = n /\ o = k /\ r = events[n] /\ ident = Identities[k]
  OBVIOUS
<1>1. /\ UNCHANGED << events, db >> /\ pc = "content" /\ Advance(events, Identities, "store")
  BY DEF Refer, Stay
<1>2. /\ k \in {1, 2} /\ n <= Len(events) /\ events \in Seq(Row) /\ n \in DOMAIN events
      /\ ident \in {"hash", "sid"} /\ content \in [ContentIds -> Entity] /\ refs \in SUBSET Ref
  BY <1>0, <1>1, EventsThere, RulesType DEF DInv, Cursors, TypeOK
<1>3. Active /\ Active' /\ pc' \in {"content", "store"}
  BY <1>1 DEF Advance, Active, Running
<1>4. ContentTabled'
  BY <1>1, <1>3 DEF ContentInv, ContentTabled, Running
<1>5. ASSUME NEW id \in ContentIds
      PROVE  LET new == { << i, f >> : f \in Roles(ident, id, r) } IN
             /\ Carriers(id)' = Carriers(id) \cup new /\ Carriers(id) \cap new = {}
             /\ IsFiniteSet(new) /\ Cardinality(new) = Cardinality(Roles(ident, id, r))
  BY <1>0, ReferCarriers
<1>6. content' = [ id \in ContentIds |->
                     IF Roles(ident, id, r) = {} THEN content[id]
                     ELSE [ count |-> content[id].count + Cardinality(Roles(ident, id, r)),
                            context |-> WithContext(content[id].context, r.path) ] ]
  BY <1>0 DEF Refer
<1>7. refs' = refs \cup { [ host |-> r.host, obj |-> r.obj, guid |-> r.guid,
                            node |-> NodeOf(ident, f, r), key |-> f ] :
                          f \in { g \in FieldsOf(ident) : Carries(ident, g, r) /\ r.guid # Blank } }
  BY <1>0 DEF Refer
<1>8. Counted'
  <2>. SUFFICES ASSUME NEW id \in ContentIds
                PROVE  /\ content'[id].count = Cardinality(Carriers(id)')
                       /\ Capped(content'[id].context, Around(id)')
    BY DEF Counted
  <2> DEFINE new == { << i, f >> : f \in Roles(ident, id, r) }
  <2>1. /\ content[id].count = Cardinality(Carriers(id))
        /\ Capped(content[id].context, Around(id))
    BY <1>3 DEF ContentInv, Counted
  <2>2. Around(id)' = { events[c[1]].path : c \in Carriers(id)' } \ {Blank}
    BY <1>1 DEF Around
  <2>3. CASE Roles(ident, id, r) = {}
    <3>1. content'[id] = content[id]
      BY <1>6, <2>3
    <3>2. Carriers(id)' = Carriers(id)
      BY <1>5, <2>3
    <3>3. Around(id)' = Around(id)
      BY <2>2, <3>2 DEF Around
    <3>. QED  BY <2>1, <3>1, <3>2, <3>3
  <2>4. CASE Roles(ident, id, r) # {}
    <3>1. /\ content'[id].count = content[id].count + Cardinality(Roles(ident, id, r))
          /\ content'[id].context = WithContext(content[id].context, r.path)
      BY <1>6, <2>4
    <3>2. /\ Carriers(id)' = Carriers(id) \cup new /\ Carriers(id) \cap new = {}
          /\ IsFiniteSet(new) /\ Cardinality(new) = Cardinality(Roles(ident, id, r))
      BY <1>5
    <3>3. IsFiniteSet(Carriers(id))
      BY <1>2, CarriersFinite
    <3>4. Cardinality(Carriers(id)') = Cardinality(Carriers(id)) + Cardinality(new)
      <4>. HIDE DEF new
      <4>1. /\ Cardinality(Carriers(id) \cup new)
                 = Cardinality(Carriers(id)) + Cardinality(new) - Cardinality(Carriers(id) \cap new)
            /\ Cardinality(Carriers(id)) \in Nat /\ Cardinality(new) \in Nat
        BY <3>2, <3>3, FS_Union, FS_CardinalityType
      <4>2. Cardinality(Carriers(id) \cap new) = 0
        BY <3>2, FS_EmptySet
      <4>. QED  BY <3>2, <4>1, <4>2
    <3>5. (\A c \in new : events[c[1]].path = r.path) /\ \E c \in new : TRUE
      <4>1. \A f : events[<< i, f >>[1]].path = r.path
        BY <1>0
      <4>. QED  BY <2>4, <4>1
    <3>6. Around(id)' = Around(id) \cup ({r.path} \ {Blank})
      <4>. HIDE DEF new
      <4>. QED  BY <2>2, <3>2, <3>5 DEF Around
    <3>7. Capped(WithContext(content[id].context, r.path), Around(id)')
      BY <2>1, <3>6, CapGrows
    <3>. QED  BY <2>1, <3>1, <3>2, <3>4, <3>7
  <2>. QED  BY <2>3, <2>4
<1>9. Traced'
  <2>1. ASSUME NEW y \in refs'
        PROVE  \E c \in Carriers(y.node)' : events[c[1]].guid # Blank /\ RefersAs(y, c)
    <3>1. CASE y \in refs
      <4>1. y.node \in ContentIds
        BY <1>2, <3>1 DEF Ref
      <4>2. \E c \in Carriers(y.node) : events[c[1]].guid # Blank /\ RefersAs(y, c)
        BY <1>3, <3>1 DEF ContentInv, Traced
      <4>. QED  BY <1>5, <4>1, <4>2
    <3>2. CASE y \notin refs
      <4>1. PICK f \in FieldsOf(ident) :
              /\ Carries(ident, f, r) /\ r.guid # Blank
              /\ y = [ host |-> r.host, obj |-> r.obj, guid |-> r.guid,
                       node |-> NodeOf(ident, f, r), key |-> f ]
        BY <1>7, <2>1, <3>2
      <4>2. y.node = NodeOf(ident, f, r) /\ y.node \in ContentIds
        <5>1. refs' \in SUBSET Ref
          BY ReferInv DEF DInv, TypeOK
        <5>. QED  BY <2>1, <4>1, <5>1 DEF Ref
      <4>3. f \in Roles(ident, y.node, r)
        BY <4>1, <4>2 DEF Roles
      <4>4. << i, f >> \in Carriers(y.node)'
        BY <1>5, <4>2, <4>3
      <4>5. RefersAs(y, << i, f >>)
        BY <1>0, <4>1 DEF RefersAs
      <4>. QED  BY <1>0, <4>1, <4>4, <4>5
    <3>. QED  BY <3>1, <3>2
  <2>2. ASSUME NEW id \in ContentIds, NEW c \in Carriers(id)', events[c[1]].guid # Blank
        PROVE  \E y \in refs' : y.node = id /\ RefersAs(y, c)
    <3>1. CASE c \in Carriers(id)
      <4>1. \E y \in refs : y.node = id /\ RefersAs(y, c)
        BY <1>3, <2>2, <3>1 DEF ContentInv, Traced
      <4>. QED  BY <1>7, <4>1
    <3>2. CASE c \notin Carriers(id)
      <4>1. PICK f \in Roles(ident, id, r) : c = << i, f >>
        <5>1. c \in { << i, f >> : f \in Roles(ident, id, r) }
          BY <1>5, <2>2, <3>2, Zenon
        <5>. QED  BY <5>1
      <4>2. f \in FieldsOf(ident) /\ Carries(ident, f, r) /\ NodeOf(ident, f, r) = id /\ r.guid # Blank
        BY <1>0, <2>2, <4>1 DEF Roles
      <4> DEFINE y == [ host |-> r.host, obj |-> r.obj, guid |-> r.guid,
                        node |-> NodeOf(ident, f, r), key |-> f ]
      <4>3. y \in refs'
        BY <1>7, <4>2
      <4>4. y.node = id /\ RefersAs(y, c)
        BY <1>0, <4>1, <4>2 DEF RefersAs
      <4>. QED  BY <4>3, <4>4
    <3>. QED  BY <3>1, <3>2
  <2>. QED  BY <1>1, <2>1, <2>2 DEF Traced, RefersAs
<1>. QED  BY <1>4, <1>8, <1>9 DEF ContentInv

LEMMA ContentInductive == Spec => [](DInv /\ ContentInv)
<1>1. Init => ContentInv
  BY DEF Init, ContentInv, Counted, Traced, ContentTabled, Active, Running
<1>2. DInv /\ ContentInv /\ [Next]_vars => ContentInv'
  <2>. SUFFICES ASSUME DInv, ContentInv, [Next]_vars PROVE ContentInv'
    OBVIOUS
  <2>1. CASE ClearDerived
    <3>1. /\ pc' = "links" /\ UNCHANGED events /\ content' = NoEntities /\ refs' = {}
          /\ db' = [ db EXCEPT !.edges = {}, !.nodes = NoNodeRows, !.content = NoEntities, !.refs = {} ]
      BY <2>1 DEF ClearDerived
    <3>2. db'.content = NoEntities /\ db'.refs = {}
      BY <3>1 DEF DInv, TypeOK, Tables
    <3>3. \A id : Carriers(id)' = {}
      BY <3>1 DEF Carriers, Read
    <3>4. PropCap \in Nat /\ IsFiniteSet({}) /\ Cardinality({}) = 0
      BY DeriveAssumption, FS_EmptySet
    <3>5. \A id \in ContentIds : content'[id].count = 0 /\ content'[id].context = {}
      BY <3>1 DEF NoEntities
    <3>6. Counted'
      BY <3>3, <3>4, <3>5 DEF Counted, Capped, Around
    <3>7. Traced'
      BY <3>1, <3>3 DEF Traced
    <3>8. ContentTabled'
      BY <3>1, <3>2 DEF ContentTabled
    <3>. QED  BY <3>6, <3>7, <3>8 DEF ContentInv
  <2>2. CASE LinkSource \/ Reconstruct
    <3>1. UNCHANGED << events, content, refs, db >> /\ pc \in {"links", "reconstruct"}
      BY <2>2 DEF LinkSource, Reconstruct
    <3>2. \/ pc' \in {"links", "reconstruct"}
          \/ pc' = "content" /\ k' = 1 /\ n' = 1
      BY <2>2 DEF LinkSource, Reconstruct, Advance
    <3>3. \A o, m : ~Read(o, m)
      BY <3>1 DEF Read
    <3>4. \A id \in ContentIds : Carriers(id)' = {}
      <4>1. \A id \in ContentIds : IdentOf(id) \in {1, 2}
        BY IdentityOf
      <4>2. \A o \in {1, 2}, m \in DOMAIN events : ~Read(o, m)'
        <5>1. DOMAIN events \subseteq Nat \ {0}
          BY DEF DInv, TypeOK
        <5>. QED  BY <3>2, <5>1 DEF Read
      <4>. QED  BY <3>1, <4>1, <4>2 DEF Carriers
    <3>5. \A id \in ContentIds : Carriers(id) = {}
      BY <3>3 DEF Carriers
    <3>6. \A id \in ContentIds : Around(id)' = Around(id)
      BY <3>4, <3>5 DEF Around
    <3>7. Active /\ Active' /\ Running /\ Running'
      BY <3>1, <3>2 DEF Active, Running
    <3>8. ContentTabled'
      BY <3>1, <3>2, <3>7 DEF ContentInv, ContentTabled
    <3>9. Counted'
      BY <3>1, <3>4, <3>5, <3>6, <3>7 DEF ContentInv, Counted
    <3>10. refs = {}
      <4>1. \A y \in refs : y.node \in ContentIds
        BY DEF DInv, TypeOK, Ref
      <4>. QED  BY <3>5, <3>7, <4>1 DEF ContentInv, Traced
    <3>11. Traced'
      BY <3>1, <3>4, <3>10 DEF Traced
    <3>. QED  BY <3>8, <3>9, <3>11 DEF ContentInv
  <2>3. CASE Refer
    BY <2>3, ReferPass
  <2>4. CASE StoreLayer
    <3> DEFINE stored == [ id \in ContentIds |-> IF content[id].count = 0 THEN db.content[id] ELSE content[id] ]
    <3>1. UNCHANGED << events, content, refs >> /\ pc = "store" /\ pc' = "done"
      BY <2>4 DEF StoreLayer, Collected
    <3>2. db'.content = stored /\ db'.refs = db.refs \cup refs
      <4>1. db \in Tables
        BY DEF DInv, TypeOK
      <4>. QED  BY <2>4, <4>1 DEF StoreLayer, Tables
    <3>3. Active /\ Running
      BY <3>1 DEF Active, Running
    <3>4. db.content = NoEntities /\ db.refs = {} /\ content \in [ContentIds -> Entity] /\ events \in Seq(Row)
      BY <3>3 DEF ContentInv, ContentTabled, DInv, TypeOK
    <3>5. ASSUME NEW id \in ContentIds, content[id].count = 0
          PROVE  db.content[id] = content[id]
      <4>1. Cardinality(Carriers(id)) = 0 /\ Capped(content[id].context, Around(id))
        BY <3>3, <3>5 DEF ContentInv, Counted
      <4>2. Carriers(id) = {}
        BY <3>4, <4>1, CarriersFinite, FS_EmptySet
      <4>3. content[id].context = {}
        BY <4>1, <4>2 DEF Around, Capped
      <4>4. content[id] = [ count |-> 0, context |-> {} ]
        BY <3>4, <3>5, <4>3 DEF Entity
      <4>. QED  BY <3>4, <4>4 DEF NoEntities
    <3>6. ContentTabled'
      BY <3>1, <3>2, <3>4, <3>5 DEF ContentTabled, Running
    <3>7. \A o, m : Read(o, m)' <=> Read(o, m)
      BY <3>1 DEF Read
    <3>. QED  BY <3>1, <3>3, <3>6, <3>7, ContentStays
  <2>5. CASE Rederive \/ LoadRow
    <3>1. pc' \in {"load", "clear"}
      BY <2>5 DEF Rederive, LoadRow, Advance
    <3>. QED  BY <3>1 DEF ContentInv, Counted, Traced, ContentTabled, Active, Running
  <2>6. CASE UNCHANGED vars
    <3>1. UNCHANGED << events, content, refs, db, pc, k, n >>
      BY <2>6 DEF vars
    <3>2. ContentTabled'
      BY <3>1 DEF ContentInv, ContentTabled, Running
    <3>3. CASE Active
      BY <3>1, <3>2, <3>3, ContentStays DEF Read
    <3>4. CASE ~Active
      BY <3>1, <3>2, <3>4 DEF ContentInv, Counted, Traced, Active, Running
    <3>. QED  BY <3>3, <3>4
  <2>. QED  BY <2>1, <2>2, <2>3, <2>4, <2>5, <2>6 DEF Next
<1>. QED  BY <1>1, <1>2, Inductive, PTL DEF Spec

\* A content node counts every field of every record that carries the content,
\* whatever its case; each of those records that has a guid refers to it, and
\* nothing else does; its context is theirs, all of it up to the cap.
THEOREM EveryContentCounted == Spec => []ContentCounted
<1>1. DInv /\ ContentInv => ContentCounted
  <2>. SUFFICES ASSUME DInv, ContentInv, Done,
                       NEW ident \in RangeOf(Identities), NEW id \in ContentIds,
                       id[1] \in (IF ident = "hash" THEN RangeOf(HashFields) ELSE {"sid"})
                PROVE  LET carriers == { c \in (DOMAIN events) \X FieldsOf(ident) :
                                           /\ events[c[1]].content[c[2]] \in Accepted[ident]
                                           /\ Norm[events[c[1]].content[c[2]]] = id[2]
                                           /\ ident = "hash" => c[2] = id[1] }
                           paths == { events[c[1]].path : c \in carriers } \ {Blank}
                           entity == db.content[id]
                       IN  /\ entity.count = Cardinality(carriers)
                           /\ entity.context \subseteq paths
                           /\ entity.context = paths \/ Cardinality(entity.context) = PropCap
                           /\ { << x.obj, x.guid, x.key >> : x \in { y \in db.refs : y.node = id } }
                                = { << events[c[1]].obj, events[c[1]].guid, c[2] >> :
                                      c \in { d \in carriers : events[d[1]].guid # Blank } }
    BY DEF ContentCounted
  <2> DEFINE carriers == { c \in (DOMAIN events) \X FieldsOf(ident) :
                             /\ events[c[1]].content[c[2]] \in Accepted[ident]
                             /\ Norm[events[c[1]].content[c[2]]] = id[2]
                             /\ ident = "hash" => c[2] = id[1] }
             paths == { events[c[1]].path : c \in carriers } \ {Blank}
  <2>1. pc = "done" /\ Active /\ refs \in SUBSET Ref
    BY DEF Done, Active, DInv, TypeOK
  <2>2. ident \in {"hash", "sid"} /\ "sid" \notin RangeOf(HashFields)
    BY DeriveAssumption DEF RangeOf, Identities
  <2>3. Identities[IdentOf(id)] = ident /\ id = << id[1], id[2] >>
    <3>1. id[1] = "sid" <=> ident = "sid"
      BY <2>2
    <3>. QED  BY <2>2, <3>1, IdentityOf
  <2>4. \A f \in FieldsOf(ident) : \A r :
          f \in Roles(ident, id, r) <=>
            ( /\ r.content[f] \in Accepted[ident]
              /\ Norm[r.content[f]] = id[2]
              /\ ident = "hash" => f = id[1] )
    <3>1. PICK p, q : id = << p, q >> /\ p = id[1] /\ q = id[2]
      BY <2>3
    <3>2. ASSUME NEW f \in FieldsOf(ident), NEW r
          PROVE  NodeOf(ident, f, r) = id <=>
                   Norm[r.content[f]] = q /\ (ident = "hash" => f = p)
      <4>1. CASE ident = "hash"
        BY <3>1, <4>1 DEF NodeOf
      <4>2. CASE ident = "sid"
        <5>1. p = "sid" /\ ident # "hash"
          BY <3>1, <4>2
        <5>. QED  BY <3>1, <5>1 DEF NodeOf
      <4>. QED  BY <2>2, <4>1, <4>2
    <3>3. id[1] = p /\ id[2] = q
      BY <3>1
    <3>. QED  BY <3>2, <3>3, Zenon DEF Roles, Carries
  <2>5. Carriers(id) = carriers
    <3> DEFINE both == (DOMAIN events) \X FieldsOf(ident)
    <3>1. Carriers(id) = { c \in both : c[2] \in Roles(ident, id, events[c[1]]) }
      BY <2>1, <2>3 DEF Carriers, Read
    <3>2. \A c \in both : c[2] \in FieldsOf(ident)
      OBVIOUS
    <3>. HIDE DEF both
    <3>3. \A c \in both :
            c[2] \in Roles(ident, id, events[c[1]]) <=>
              ( /\ events[c[1]].content[c[2]] \in Accepted[ident]
                /\ Norm[events[c[1]].content[c[2]]] = id[2]
                /\ ident = "hash" => c[2] = id[1] )
      BY <2>4, <3>2, Zenon
    <3>. QED  BY <3>1, <3>3, Zenon DEF both
  <2>6. Around(id) = paths
    BY <2>5 DEF Around
  <2>7. db.content[id] = content[id] /\ db.refs = refs
    BY <2>1 DEF ContentInv, ContentTabled
  <2>8. content[id].count = Cardinality(Carriers(id)) /\ Capped(content[id].context, Around(id))
    BY <2>1 DEF ContentInv, Counted
  <2>9. { << x.obj, x.guid, x.key >> : x \in { y \in refs : y.node = id } }
          = { << events[c[1]].obj, events[c[1]].guid, c[2] >> :
                c \in { d \in Carriers(id) : events[d[1]].guid # Blank } }
    <3>1. ASSUME NEW y \in refs, y.node = id
          PROVE  \E c \in Carriers(id) : /\ events[c[1]].guid # Blank
                                         /\ << y.obj, y.guid, y.key >>
                                              = << events[c[1]].obj, events[c[1]].guid, c[2] >>
      BY <2>1, <3>1 DEF ContentInv, Traced, RefersAs
    <3>2. ASSUME NEW c \in Carriers(id), events[c[1]].guid # Blank
          PROVE  \E y \in refs : /\ y.node = id
                                 /\ << y.obj, y.guid, y.key >>
                                      = << events[c[1]].obj, events[c[1]].guid, c[2] >>
      BY <2>1, <3>2 DEF ContentInv, Traced, RefersAs
    <3>. QED  BY <3>1, <3>2
  <2>. HIDE DEF carriers, paths
  <2>10. { << x.obj, x.guid, x.key >> : x \in { y \in refs : y.node = id } }
           = { << events[c[1]].obj, events[c[1]].guid, c[2] >> :
                 c \in { d \in carriers : events[d[1]].guid # Blank } }
    BY <2>5, <2>9
  <2>. QED  BY <2>5, <2>6, <2>7, <2>8, <2>10 DEF carriers, paths, Capped
<1>. QED  BY <1>1, ContentInductive, PTL

-----------------------------------------------------------------------------
(* The pass over the store: what it keeps of the pass before.              *)

\* load_events lists the rows object by object, and those of an object in the
\* order of car.db.
Ahead(x, y) ==
  \E o, q \in DOMAIN ObjectOrder : o < q /\ ObjectOrder[o] = x /\ ObjectOrder[q] = y
ReadOrder(rows) ==
  { c \in (DOMAIN rows) \X (DOMAIN rows) :
      \/ Ahead(rows[c[1]].obj, rows[c[2]].obj)
      \/ rows[c[1]].obj = rows[c[2]].obj /\ c[1] < c[2] }
Place(j) == Rank1(ReadOrder(car), DOMAIN car, j)

\* Where row j of car.db is among the events of the pass, and as what.
Home(j) == IF passes = 1 THEN j ELSE Place(j)
Shown(j) == IF passes = 1 THEN car[j] ELSE Stored(car[j])

LoadedRows == { j \in DOMAIN car : Loaded(j) }
Filed ==
  /\ pc = "load" => passes # 1 /\ Len(events) = Cardinality(LoadedRows)
  /\ pc # "load" => Len(events) = Len(car)
  /\ \A j \in DOMAIN car : pc # "load" \/ Loaded(j) =>
       Home(j) \in DOMAIN events /\ events[Home(j)] = Shown(j)

\* What a link step makes of a source among some rows.
CandidatesIn(rows, step, s, key) ==
  { t \in DOMAIN rows :
      /\ rows[t].obj = "file" /\ rows[t].guid \notin {Blank, s.guid}
      /\ rows[t].host = s.host /\ key \in TargetKeys(step, rows[t]) }
DisambiguatedIn(rows, step, s, found) ==
  LET there == { t \in found : rows[t].path = s.path } IN
  { t \in found : \/ found = {t}
                  \/ step[1] = "process_image_content" /\ s.path # Blank /\ there = {t} }
LinkedIn(rows, step, s) ==
  IF s.obj # SourceObject[step[1]] \/ s.guid = Blank THEN {}
  ELSE UNION { DisambiguatedIn(rows, step, s, CandidatesIn(rows, step, s, key)) :
                 key \in SourceKeys(step, s) }
MadeIn(rows, i, m) ==
  { LinkEdge(LinkSteps[i], rows[m], rows[t]) : t \in LinkedIn(rows, LinkSteps[i], rows[m]) }

\* Of the edges between two records, the first one made stays.
SamePair(e, o) == o.rel = e.rel /\ o.src = e.src /\ o.tgt = e.tgt
Earlier(j, l, i, m) == j < i \/ (j = i /\ l < m)
FirstMade(rows, i, m) ==
  { e \in MadeIn(rows, i, m) :
      \A j \in DOMAIN LinkSteps, l \in DOMAIN rows :
        Earlier(j, l, i, m) => \A o \in MadeIn(rows, j, l) : ~SamePair(e, o) }
LinkLayer(rows) ==
  UNION { UNION { FirstMade(rows, i, m) : m \in DOMAIN rows } : i \in DOMAIN LinkSteps }

Links(E) == { e \in E : e.rel \in LinkRules }
BothObserved(E) == { e \in E : e.inferred = "none" }
LinkExact ==
  Active =>
    /\ \A e \in Links(edges) : \E i \in DOMAIN LinkSteps, m \in DOMAIN events :
         Walked(i, m) /\ e \in FirstMade(events, i, m)
    /\ \A i \in DOMAIN LinkSteps, m \in DOMAIN events : Walked(i, m) =>
         /\ FirstMade(events, i, m) \subseteq edges
         /\ \A e \in MadeIn(events, i, m) : \E o \in edges : SamePair(e, o)

\* The references of a row, of one kind of content.
RefsOf(ident, r) ==
  { [ host |-> r.host, obj |-> r.obj, guid |-> r.guid, node |-> NodeOf(ident, f, r), key |-> f ] :
      f \in { g \in FieldsOf(ident) : Carries(ident, g, r) /\ r.guid # Blank } }
RefLayer(rows) ==
  UNION { UNION { RefsOf(Identities[o], rows[m]) : m \in DOMAIN rows } : o \in {1, 2} }
RefsExact ==
  Active => \A y : y \in refs <=>
    \E o \in {1, 2}, m \in DOMAIN events : Read(o, m) /\ y \in RefsOf(Identities[o], events[m])

CarriersIn(rows, id) ==
  LET ident == Identities[IdentOf(id)] IN
  { c \in (DOMAIN rows) \X FieldsOf(ident) : c[2] \in Roles(ident, id, rows[c[1]]) }

\* A reference that leads to no record of car.db.
LostIn(rows, rule, r) ==
  /\ InScope(rule, r) /\ r.guid # Blank
  /\ UnlessLinked(rule, r) = Blank
  /\ Referred(rule, r) \notin {Blank, r.guid}
  /\ << r.host, "process", Referred(rule, r) >> \notin Observed(rows)
  /\ ObservedEnd(rule, r)[2] # Blank
Misses(rows, first, rule, g) ==
  \E j \in DOMAIN rows : LET r == IF first THEN rows[j] ELSE Stored(rows[j]) IN
    LostIn(rows, rule, r) /\ Referred(rule, r) = g

RulesMeant ==
  Active => \A h \in Hosts, g \in Guids : \A rule \in nodes[<< h, g >>].rules :
    \E m \in DOMAIN events : IsLost(rule, events[m]) /\ Referred(rule, events[m]) = g

\* What a pass leaves, said of the rows of car.db alone; first: it was the pass
\* over memory.
Settled(rows, tables, first) ==
  /\ BothObserved(tables.edges) = LinkLayer(rows)
  /\ tables.refs = RefLayer(rows)
  /\ \A id \in ContentIds : tables.content[id].count = Cardinality(CarriersIn(rows, id))
  /\ \A g \in Guids :
       /\ tables.nodes[g].host # Blank <=> \E rule \in RuleNames : Misses(rows, first, rule, g)
       /\ \A rule \in tables.nodes[g].node.rules :
            rule \in RuleNames /\ Misses(rows, first, rule, g)

\* The tables a pass starts to fill.
Cleared ==
  Running => /\ db.declared = Declared(car) /\ db.edges = {} /\ db.nodes = NoNodeRows
             /\ db.content = NoEntities /\ db.refs = {}

\* A guid that no node was made for has no row.
NodeTabled ==
  pc = "done" => \A g \in Guids : latest[g] = Blank =>
    db.nodes[g].host = Blank /\ db.nodes[g].node.rules = {}

History == passes # 1 => Settled(car, before, passes = 2)

-----------------------------------------------------------------------------
(* Where a row of car.db is among the events.                              *)

LEMMA CarDomain ==
  ASSUME car \in Inputs
  PROVE  /\ car \in Seq(Row) /\ Len(car) \in Nat \ {0} /\ DOMAIN car = 1 .. Len(car)
         /\ IsFiniteSet(DOMAIN car) /\ Cardinality(DOMAIN car) = Len(car)
         /\ \A j \in DOMAIN car : car[j] \in Row /\ car[j].obj \in Objects
<1>1. car \in Seq(Row) /\ Len(car) \in Nat \ {0}
  BY InputRows
<1>2. DOMAIN car = 1 .. Len(car) /\ \A j \in DOMAIN car : car[j] \in Row
  BY <1>1
<1>3. IsFiniteSet(DOMAIN car) /\ Cardinality(DOMAIN car) = Len(car)
  BY <1>1, <1>2, FS_Interval
<1>. QED  BY <1>1, <1>2, <1>3 DEF Row

LEMMA ObjectOnce ==
  /\ DOMAIN ObjectOrder \subseteq Nat \ {0}
  /\ \A i, j \in DOMAIN ObjectOrder : ObjectOrder[i] = ObjectOrder[j] => i = j
  /\ \A x \in Objects : \E o \in DOMAIN ObjectOrder : ObjectOrder[o] = x
<1>1. /\ ObjectOrder \in Seq(Objects)
      /\ \A i, j \in DOMAIN ObjectOrder : ObjectOrder[i] = ObjectOrder[j] => i = j
  BY DeriveAssumption
<1>2. DOMAIN ObjectOrder \subseteq Nat \ {0}
  BY <1>1
<1>. QED  BY <1>1, <1>2 DEF Objects, RangeOf

\* The order in which rows are read is one.
LEMMA ReadOrders ==
  ASSUME car \in Inputs
  PROVE  Orders(ReadOrder(car), DOMAIN car)
<1>1. DOMAIN ObjectOrder \subseteq Nat
  BY ObjectOnce
<1>2. /\ DOMAIN car = 1 .. Len(car) /\ Len(car) \in Nat
      /\ \A j \in DOMAIN car : car[j].obj \in Objects
  BY CarDomain
<1>3. \A x : ~Ahead(x, x)
  BY <1>1, ObjectOnce DEF Ahead
<1>4. \A x, y \in Objects : x # y => Ahead(x, y) \/ Ahead(y, x)
  <2>. SUFFICES ASSUME NEW x \in Objects, NEW y \in Objects, x # y
                PROVE  Ahead(x, y) \/ Ahead(y, x)
    OBVIOUS
  <2>1. PICK o, q \in DOMAIN ObjectOrder : ObjectOrder[o] = x /\ ObjectOrder[q] = y
    BY ObjectOnce
  <2>2. o < q \/ q < o
    BY <1>1, <2>1
  <2>. QED  BY <2>1, <2>2 DEF Ahead
<1>5. \A x, y, z : Ahead(x, y) /\ Ahead(y, z) => Ahead(x, z)
  <2>. SUFFICES ASSUME NEW x, NEW y, NEW z, Ahead(x, y), Ahead(y, z)
                PROVE  Ahead(x, z)
    OBVIOUS
  <2>1. PICK o, q \in DOMAIN ObjectOrder : o < q /\ ObjectOrder[o] = x /\ ObjectOrder[q] = y
    BY DEF Ahead
  <2>2. PICK p, r \in DOMAIN ObjectOrder : p < r /\ ObjectOrder[p] = y /\ ObjectOrder[r] = z
    BY DEF Ahead
  <2>3. p = q
    BY <2>1, <2>2, ObjectOnce
  <2>4. o < r
    BY <1>1, <2>1, <2>2, <2>3
  <2>. QED  BY <2>1, <2>2, <2>4 DEF Ahead
<1>6. \A i, j \in DOMAIN car :
        << i, j >> \in ReadOrder(car) <=> \/ Ahead(car[i].obj, car[j].obj)
                                          \/ car[i].obj = car[j].obj /\ i < j
  BY DEF ReadOrder
<1>7. \A i \in DOMAIN car : << i, i >> \notin ReadOrder(car)
  BY <1>2, <1>3, <1>6
<1>8. \A i, j \in DOMAIN car : i # j => << i, j >> \in ReadOrder(car) \/ << j, i >> \in ReadOrder(car)
  BY <1>2, <1>4, <1>6
<1>9. \A i, j, l \in DOMAIN car :
        << i, j >> \in ReadOrder(car) /\ << j, l >> \in ReadOrder(car) => << i, l >> \in ReadOrder(car)
  BY <1>2, <1>5, <1>6
<1>. QED  BY <1>7, <1>8, <1>9 DEF Orders

LEMMA PlacesAre ==
  ASSUME car \in Inputs
  PROVE  /\ \A j \in DOMAIN car : Place(j) \in DOMAIN car
         /\ \A i \in DOMAIN car : \E j \in DOMAIN car : Place(j) = i
         /\ \A i, j \in DOMAIN car : Place(i) = Place(j) => i = j
         /\ \A i, j \in DOMAIN car : << i, j >> \in ReadOrder(car) => Place(i) < Place(j)
<1>1. IsFiniteSet(DOMAIN car) /\ Cardinality(DOMAIN car) = Len(car) /\ DOMAIN car = 1 .. Len(car)
      /\ 1 \in DOMAIN car
  BY CarDomain
<1>2. Orders(ReadOrder(car), DOMAIN car)
  BY ReadOrders
<1>3. /\ \A j \in DOMAIN car : Place(j) \in DOMAIN car
      /\ \A i, j \in DOMAIN car : << i, j >> \in ReadOrder(car) => Place(i) < Place(j)
  BY <1>1, <1>2, RankRises DEF Place
<1>4. \A i \in DOMAIN car :
        /\ \E j \in DOMAIN car : Place(j) = i
        /\ \A l, j \in DOMAIN car : Place(l) = Place(j) => l = j
  BY <1>1, <1>2, RankIsOnes DEF Place
<1>. QED  BY <1>1, <1>3, <1>4

\* The row read next comes after exactly those that are loaded.
LEMMA PlaceNext ==
  ASSUME DInv, pc = "load", car[n].obj = ObjectOrder[k], n \in DOMAIN car
  PROVE  Place(n) = Cardinality(LoadedRows) + 1 /\ n \notin LoadedRows
<1>1. k \in DOMAIN ObjectOrder
  <2>1. k \in Nat \ {0} /\ k <= Len(ObjectOrder) /\ Len(ObjectOrder) \in Nat /\ ObjectOrder \in Seq(Objects)
    BY OrderType DEF DInv, Cursors
  <2>. QED  BY <2>1
<1>2. /\ DOMAIN ObjectOrder \subseteq Nat
      /\ \A o, q \in DOMAIN ObjectOrder : ObjectOrder[o] = ObjectOrder[q] => o = q
  BY ObjectOnce
<1>3. DOMAIN car \subseteq Nat
  BY CarDomain DEF DInv
<1>4. \A j \in DOMAIN car : << j, n >> \in ReadOrder(car) <=> Loaded(j)
  <2>. SUFFICES ASSUME NEW j \in DOMAIN car
                PROVE  << j, n >> \in ReadOrder(car) <=> Loaded(j)
    OBVIOUS
  <2>1. << j, n >> \in ReadOrder(car) <=> \/ Ahead(car[j].obj, car[n].obj)
                                          \/ car[j].obj = car[n].obj /\ j < n
    BY DEF ReadOrder
  <2>2. Ahead(car[j].obj, car[n].obj) <=> \E o \in DOMAIN ObjectOrder : o < k /\ ObjectOrder[o] = car[j].obj
    BY <1>1, <1>2 DEF Ahead
  <2>. QED  BY <2>1, <2>2 DEF Loaded
<1>5. { j \in DOMAIN car : << j, n >> \in ReadOrder(car) } = LoadedRows
  BY <1>4 DEF LoadedRows
<1>6. ~Loaded(n)
  <2>1. ~(n < n)
    BY <1>3
  <2>2. ~\E o \in DOMAIN ObjectOrder : o < k /\ ObjectOrder[o] = car[n].obj
    BY <1>1, <1>2
  <2>. QED  BY <2>1, <2>2 DEF Loaded
<1>. QED  BY <1>5, <1>6 DEF Place, Rank1, LoadedRows

LEMMA LoadFiles == DInv /\ Filed /\ LoadRow => Filed'
<1>. SUFFICES ASSUME DInv, Filed, LoadRow PROVE Filed'
  OBVIOUS
<1>. DEFINE due == car[n].obj = ObjectOrder[k]
<1>1. /\ UNCHANGED << car, passes >> /\ pc = "load" /\ Advance(car, ObjectOrder, "clear")
      /\ events' = IF due THEN Append(events, Stored(car[n])) ELSE events
  BY DEF LoadRow, Stay
<1>2. /\ k \in Nat \ {0} /\ n \in Nat \ {0} /\ n <= Len(car) /\ k <= Len(ObjectOrder)
      /\ Len(car) \in Nat \ {0} /\ Len(ObjectOrder) \in Nat \ {0}
      /\ ObjectOrder \in Seq(Objects) /\ events \in Seq(Row)
      /\ DOMAIN car = 1 .. Len(car) /\ n \in DOMAIN car
      /\ passes # 1 /\ Len(events) = Cardinality(LoadedRows)
  BY <1>1, CarDomain, OrderType DEF DInv, Cursors, TypeOK, Filed
<1>3. \/ pc' = "load" /\ UNCHANGED pc
      \/ pc' = "clear"
  BY <1>1 DEF Advance
<1>4. \A j \in DOMAIN car : (pc' # "load" \/ Loaded(j)') <=> Loaded(j) \/ (due /\ j = n)
  <2>. SUFFICES ASSUME NEW j \in DOMAIN car
                PROVE  (pc' # "load" \/ Loaded(j)') <=> Loaded(j) \/ (due /\ j = n)
    OBVIOUS
  <2>1. j \in 1 .. Len(car) /\ DOMAIN ObjectOrder = 1 .. Len(ObjectOrder)
    BY <1>2
  <2>2. PICK o \in DOMAIN ObjectOrder : ObjectOrder[o] = car[j].obj
    BY <1>2, CarDomain, ObjectOnce DEF DInv
  <2>3. \A q \in DOMAIN ObjectOrder : ObjectOrder[q] = car[j].obj <=> q = o
    BY <2>2, ObjectOnce
  <2>4. Loaded(j) <=> o < k \/ (o = k /\ j < n)
    BY <1>2, <2>1, <2>3 DEF Loaded
  <2>5. due /\ j = n <=> o = k /\ j = n
    BY <1>2, <2>1, <2>3
  <2>6. CASE n < Len(car) /\ n' = n + 1 /\ k' = k /\ pc' = pc
    <3>1. Loaded(j)' <=> o < k \/ (o = k /\ j < n + 1)
      BY <1>1, <1>2, <2>1, <2>3, <2>6 DEF Loaded
    <3>. QED  BY <1>1, <1>2, <2>1, <2>4, <2>5, <2>6, <3>1
  <2>7. CASE n >= Len(car) /\ k < Len(ObjectOrder) /\ n' = 1 /\ k' = k + 1 /\ pc' = pc
    <3>1. Loaded(j)' <=> o < k + 1 \/ (o = k + 1 /\ j < 1)
      BY <1>1, <1>2, <2>1, <2>3, <2>7 DEF Loaded
    <3>. QED  BY <1>1, <1>2, <2>1, <2>4, <2>5, <2>7, <3>1
  <2>8. CASE n >= Len(car) /\ k >= Len(ObjectOrder) /\ pc' = "clear"
    BY <1>2, <2>1, <2>4, <2>5, <2>8
  <2>. QED  BY <1>1, <2>6, <2>7, <2>8 DEF Advance
<1>5. IsFiniteSet(LoadedRows) /\ Cardinality(LoadedRows) \in Nat
  <2>1. IsFiniteSet(LoadedRows)
    BY CarDomain, FS_Subset DEF LoadedRows, DInv
  <2>. QED  BY <2>1, FS_CardinalityType
<1> DEFINE now == { j \in DOMAIN car : pc' # "load" \/ Loaded(j)' }
<1>6. Len(events') = Cardinality(now)
  <2>1. CASE due
    <3>1. now = LoadedRows \cup {n}
      BY <1>2, <1>4, <2>1 DEF LoadedRows
    <3>2. Cardinality(LoadedRows \cup {n}) = Cardinality(LoadedRows) + 1
      BY <1>1, <1>2, <1>5, <2>1, PlaceNext, FS_AddElement
    <3>3. Len(events') = Len(events) + 1
      BY <1>1, <1>2, <2>1, CarDomain, StoredType DEF DInv
    <3>. QED  BY <1>2, <3>1, <3>2, <3>3
  <2>2. CASE ~due
    <3>1. now = LoadedRows
      BY <1>4, <2>2 DEF LoadedRows
    <3>. QED  BY <1>1, <1>2, <2>2, <3>1
  <2>. QED  BY <2>1, <2>2
<1>7. ASSUME NEW j \in DOMAIN car, pc' # "load" \/ Loaded(j)'
      PROVE  Home(j)' \in DOMAIN events' /\ events'[Home(j)'] = Shown(j)'
  <2>1. Home(j)' = Place(j) /\ Shown(j)' = Stored(car[j])
    BY <1>1, <1>2 DEF Home, Shown, Place, Rank1, ReadOrder
  <2>2. CASE Loaded(j)
    <3>1. Place(j) \in DOMAIN events /\ events[Place(j)] = Stored(car[j])
      BY <1>1, <1>2, <2>2 DEF Filed, Home, Shown
    <3>2. CASE ~due
      BY <1>1, <2>1, <3>1, <3>2
    <3>3. CASE due
      <4>1. Stored(car[n]) \in Row
        BY <1>2, CarDomain, StoredType DEF DInv
      <4>2. Place(j) \in DOMAIN events' /\ events'[Place(j)] = events[Place(j)]
        BY <1>1, <1>2, <3>1, <3>3, <4>1
      <4>. QED  BY <2>1, <3>1, <4>2
    <3>. QED  BY <3>2, <3>3
  <2>3. CASE due /\ j = n
    <3>1. Stored(car[n]) \in Row
      BY <1>2, CarDomain, StoredType DEF DInv
    <3>2. Place(n) = Len(events) + 1
      BY <1>1, <1>2, <2>3, PlaceNext
    <3>3. Place(n) \in DOMAIN events' /\ events'[Place(n)] = Stored(car[n])
      BY <1>1, <1>2, <2>3, <3>1, <3>2
    <3>. QED  BY <2>1, <2>3, <3>3
  <2>. QED  BY <1>4, <1>7, <2>2, <2>3
<1>8. pc' = "load" => Len(events') = Cardinality(LoadedRows') /\ passes' # 1
  <2>1. pc' = "load" => now = LoadedRows'
    BY <1>1 DEF LoadedRows
  <2>. QED  BY <1>1, <1>2, <1>6, <2>1
<1>9. pc' # "load" => Len(events') = Len(car)'
  <2>1. pc' # "load" => now = DOMAIN car
    OBVIOUS
  <2>. QED  BY <1>1, <1>6, <2>1, CarDomain DEF DInv
<1>. QED  BY <1>1, <1>7, <1>8, <1>9 DEF Filed

LEMMA FiledAlways == Spec => [](DInv /\ Filed)
<1>1. Init => Filed
  <2>. SUFFICES ASSUME Init PROVE Filed
    OBVIOUS
  <2>1. events = car /\ pc = "clear" /\ passes = 1
    BY DEF Init
  <2>. QED  BY <2>1 DEF Filed, Home, Shown
<1>2. DInv /\ Filed /\ [Next]_vars => Filed'
  <2>. SUFFICES ASSUME DInv, Filed, [Next]_vars PROVE Filed'
    OBVIOUS
  <2>1. CASE LoadRow
    BY <2>1, LoadFiles
  <2>2. CASE Rederive
    <3>1. UNCHANGED car /\ events' = << >> /\ pc' = "load" /\ k' = 1 /\ n' = 1 /\ passes' = passes + 1
      BY <2>2 DEF Rederive
    <3>2. \A j \in DOMAIN car : ~Loaded(j)'
      <4>1. DOMAIN ObjectOrder \subseteq Nat \ {0} /\ DOMAIN car \subseteq Nat \ {0}
        BY ObjectOnce, CarDomain DEF DInv
      <4>. QED  BY <3>1, <4>1 DEF Loaded
    <3>3. LoadedRows' = {}
      BY <3>1, <3>2 DEF LoadedRows
    <3>4. Len(<< >>) = 0 /\ Cardinality({}) = 0
      BY FS_EmptySet
    <3>5. passes + 1 # 1
      BY DEF DInv, TypeOK
    <3>. QED  BY <3>1, <3>2, <3>3, <3>4, <3>5 DEF Filed
  <2>3. CASE ClearDerived \/ LinkSource \/ Reconstruct \/ Refer \/ StoreLayer
    <3>1. UNCHANGED << car, events, passes >> /\ pc # "load" /\ pc' # "load"
      BY <2>3 DEF ClearDerived, LinkSource, Reconstruct, Refer, StoreLayer, Stay, Advance
    <3>. QED  BY <3>1 DEF Filed, Home, Shown, Place, Rank1, ReadOrder
  <2>4. CASE UNCHANGED vars
    BY <2>4 DEF vars, Filed, Home, Shown, Place, Rank1, ReadOrder, LoadedRows, Loaded
  <2>. QED  BY <2>1, <2>2, <2>3, <2>4 DEF Next
<1>. QED  BY <1>1, <1>2, Inductive, PTL DEF Spec


-----------------------------------------------------------------------------
(* The same rows in another order.                                         *)

\* What a rule for two observed ends reads of a row: all that the store keeps.
Alike(r, s) ==
  /\ r.host = s.host /\ r.obj = s.obj /\ r.guid = s.guid /\ r.path = s.path
  /\ r.content = s.content /\ r.fuids = s.fuids

\* b has the rows of a, row j at h[j]; those of one object in the order of a.
Shuffled(a, b, h) ==
  /\ DOMAIN a \subseteq Nat /\ DOMAIN b \subseteq Nat
  /\ h \in Bijection(DOMAIN a, DOMAIN b)
  /\ \A j \in DOMAIN a : Alike(b[h[j]], a[j])
  /\ \A i, j \in DOMAIN a : a[i].obj = a[j].obj => (i < j <=> h[i] < h[j])

LEMMA ShuffledOnto ==
  ASSUME NEW a, NEW b, NEW h, Shuffled(a, b, h)
  PROVE  /\ \A j \in DOMAIN a : h[j] \in DOMAIN b
         /\ \A i, j \in DOMAIN a : h[i] = h[j] => i = j
         /\ \A m \in DOMAIN b : \E j \in DOMAIN a : h[j] = m
BY DEF Shuffled, Bijection, Injection, IsInjective, Surjection

LEMMA AlikeReads ==
  ASSUME NEW r, NEW s, Alike(r, s)
  PROVE  /\ \A step : SourceKeys(step, r) = SourceKeys(step, s)
         /\ \A step : TargetKeys(step, r) = TargetKeys(step, s)
         /\ \A step, t, u : Alike(t, u) => LinkEdge(step, r, t) = LinkEdge(step, s, u)
         /\ \A ident, f : Carries(ident, f, r) <=> Carries(ident, f, s)
         /\ \A ident, f : NodeOf(ident, f, r) = NodeOf(ident, f, s)
<1>1. \A field : HashOf(field, r) = HashOf(field, s)
  BY DEF Alike, HashOf
<1>. QED  BY <1>1 DEF Alike, SourceKeys, TargetKeys, LinkEdge, Carries, NodeOf

\* A link step finds the same records.
LEMMA ShuffledLinks ==
  ASSUME NEW a, NEW b, NEW h, Shuffled(a, b, h), NEW step, NEW m \in DOMAIN a,
         NEW t \in DOMAIN a
  PROVE  h[t] \in LinkedIn(b, step, b[h[m]]) <=> t \in LinkedIn(a, step, a[m])
<1>. DEFINE s == a[m]
            q == b[h[m]]
            found(key) == CandidatesIn(a, step, s, key)
            again(key) == CandidatesIn(b, step, q, key)
<1>1. Alike(q, s) /\ \A j \in DOMAIN a : Alike(b[h[j]], a[j])
  BY DEF Shuffled
<1>2. SourceKeys(step, q) = SourceKeys(step, s) /\ \A j \in DOMAIN a : TargetKeys(step, b[h[j]]) = TargetKeys(step, a[j])
  BY <1>1, AlikeReads
<1>3. q.obj = s.obj /\ q.guid = s.guid /\ q.host = s.host /\ q.path = s.path
  BY <1>1 DEF Alike
<1>4. \A j \in DOMAIN a : b[h[j]].obj = a[j].obj /\ b[h[j]].guid = a[j].guid
                          /\ b[h[j]].host = a[j].host /\ b[h[j]].path = a[j].path
  BY <1>1 DEF Alike
<1>5. /\ \A j \in DOMAIN a : h[j] \in DOMAIN b
      /\ \A i, j \in DOMAIN a : h[i] = h[j] => i = j
      /\ \A l \in DOMAIN b : \E j \in DOMAIN a : h[j] = l
  BY ShuffledOnto
<1>. HIDE DEF s, q
<1>6. \A key : \A j \in DOMAIN a : h[j] \in again(key) <=> j \in found(key)
  BY <1>2, <1>3, <1>4, <1>5 DEF CandidatesIn
<1>7. \A key : again(key) \subseteq DOMAIN b /\ found(key) \subseteq DOMAIN a
  BY DEF CandidatesIn
<1>. HIDE DEF found, again
<1>8. \A key : h[t] \in DisambiguatedIn(b, step, q, again(key)) <=> t \in DisambiguatedIn(a, step, s, found(key))
  <2>. SUFFICES ASSUME NEW key
                PROVE  h[t] \in DisambiguatedIn(b, step, q, again(key)) <=> t \in DisambiguatedIn(a, step, s, found(key))
    OBVIOUS
  <2> DEFINE there == { j \in found(key) : a[j].path = s.path }
             here  == { l \in again(key) : b[l].path = q.path }
  <2>1. \A j \in DOMAIN a : h[j] \in here <=> j \in there
    BY <1>3, <1>4, <1>6
  <2>2. there \subseteq DOMAIN a /\ here \subseteq DOMAIN b
    BY <1>7
  <2>3. /\ h[t] \in DisambiguatedIn(b, step, q, again(key)) <=>
             h[t] \in again(key) /\ (again(key) = {h[t]} \/ (step[1] = "process_image_content" /\ q.path # Blank /\ here = {h[t]}))
        /\ t \in DisambiguatedIn(a, step, s, found(key)) <=>
             t \in found(key) /\ (found(key) = {t} \/ (step[1] = "process_image_content" /\ s.path # Blank /\ there = {t}))
    BY DEF DisambiguatedIn
  <2>. HIDE DEF there, here
  <2>4. again(key) = {h[t]} <=> found(key) = {t}
    BY <1>5, <1>6, <1>7
  <2>5. here = {h[t]} <=> there = {t}
    BY <1>5, <2>1, <2>2
  <2>. QED  BY <1>3, <1>6, <2>3, <2>4, <2>5
<1>9. LinkedIn(a, step, s) = IF s.obj # SourceObject[step[1]] \/ s.guid = Blank THEN {}
        ELSE UNION { DisambiguatedIn(a, step, s, found(key)) : key \in SourceKeys(step, s) }
  BY DEF LinkedIn, found
<1>10. LinkedIn(b, step, q) = IF q.obj # SourceObject[step[1]] \/ q.guid = Blank THEN {}
        ELSE UNION { DisambiguatedIn(b, step, q, again(key)) : key \in SourceKeys(step, q) }
  BY DEF LinkedIn, again
<1>11. t \in LinkedIn(a, step, s) <=> /\ ~(s.obj # SourceObject[step[1]] \/ s.guid = Blank)
                                      /\ \E key \in SourceKeys(step, s) : t \in DisambiguatedIn(a, step, s, found(key))
  BY <1>9
<1>12. h[t] \in LinkedIn(b, step, q) <=> /\ ~(q.obj # SourceObject[step[1]] \/ q.guid = Blank)
                                      /\ \E key \in SourceKeys(step, q) : h[t] \in DisambiguatedIn(b, step, q, again(key))
  BY <1>10
<1>13. t \in LinkedIn(a, step, s) <=> h[t] \in LinkedIn(b, step, q)
  BY <1>2, <1>3, <1>8, <1>11, <1>12
<1>. QED  BY <1>13 DEF s, q

LEMMA LinkedAmong ==
  ASSUME NEW rows, NEW step, NEW s
  PROVE  LinkedIn(rows, step, s) \subseteq DOMAIN rows
BY DEF LinkedIn, DisambiguatedIn, CandidatesIn

LEMMA ShuffledMade ==
  ASSUME NEW a, NEW b, NEW h, Shuffled(a, b, h), NEW i, NEW m \in DOMAIN a
  PROVE  MadeIn(b, i, h[m]) = MadeIn(a, i, m)
<1>1. \A j \in DOMAIN a : Alike(b[h[j]], a[j])
  BY DEF Shuffled
<1>2. \A t \in DOMAIN a : LinkEdge(LinkSteps[i], b[h[m]], b[h[t]]) = LinkEdge(LinkSteps[i], a[m], a[t])
  BY <1>1, AlikeReads
<1>3. \A t \in DOMAIN a : h[t] \in LinkedIn(b, LinkSteps[i], b[h[m]]) <=> t \in LinkedIn(a, LinkSteps[i], a[m])
  BY ShuffledLinks
<1>4. LinkedIn(b, LinkSteps[i], b[h[m]]) \subseteq DOMAIN b /\ LinkedIn(a, LinkSteps[i], a[m]) \subseteq DOMAIN a
  BY LinkedAmong
<1>5. \A l \in DOMAIN b : \E j \in DOMAIN a : h[j] = l
  BY ShuffledOnto
<1>6. MadeIn(b, i, h[m]) \subseteq MadeIn(a, i, m)
  <2>. SUFFICES ASSUME NEW e \in MadeIn(b, i, h[m]) PROVE e \in MadeIn(a, i, m)
    OBVIOUS
  <2>1. PICK l \in LinkedIn(b, LinkSteps[i], b[h[m]]) : e = LinkEdge(LinkSteps[i], b[h[m]], b[l])
    BY DEF MadeIn
  <2>2. PICK t \in DOMAIN a : h[t] = l
    BY <1>4, <1>5
  <2>3. t \in LinkedIn(a, LinkSteps[i], a[m]) /\ e = LinkEdge(LinkSteps[i], a[m], a[t])
    BY <1>2, <1>3, <2>1, <2>2
  <2>. QED  BY <2>3 DEF MadeIn
<1>7. MadeIn(a, i, m) \subseteq MadeIn(b, i, h[m])
  <2>. SUFFICES ASSUME NEW e \in MadeIn(a, i, m) PROVE e \in MadeIn(b, i, h[m])
    OBVIOUS
  <2>1. PICK t \in LinkedIn(a, LinkSteps[i], a[m]) : e = LinkEdge(LinkSteps[i], a[m], a[t])
    BY DEF MadeIn
  <2>2. t \in DOMAIN a
    BY <1>4
  <2>3. h[t] \in LinkedIn(b, LinkSteps[i], b[h[m]]) /\ e = LinkEdge(LinkSteps[i], b[h[m]], b[h[t]])
    BY <1>2, <1>3, <2>1, <2>2
  <2>. QED  BY <2>3 DEF MadeIn
<1>. QED  BY <1>6, <1>7

\* Which of two edges of one step was made first depends on the order of two
\* sources, rows of one object.
LEMMA ShuffledFirst ==
  ASSUME NEW a, NEW b, NEW h, Shuffled(a, b, h), NEW i \in DOMAIN LinkSteps, NEW m \in DOMAIN a
  PROVE  FirstMade(b, i, h[m]) = FirstMade(a, i, m)
<1>1. \A j : \A l \in DOMAIN a : MadeIn(b, j, h[l]) = MadeIn(a, j, l)
  BY ShuffledMade
<1>2. \A l \in DOMAIN a : MadeIn(a, i, l) # {} => a[l].obj = SourceObject[LinkSteps[i][1]]
  BY DEF MadeIn, LinkedIn
<1>3. \A e \in MadeIn(a, i, m) : \A j : \A l \in DOMAIN a : \A o \in MadeIn(a, j, l) :
        Earlier(j, h[l], i, h[m]) <=> Earlier(j, l, i, m)
  <2>. SUFFICES ASSUME NEW e \in MadeIn(a, i, m), NEW j, NEW l \in DOMAIN a, NEW o \in MadeIn(a, j, l)
                PROVE  Earlier(j, h[l], i, h[m]) <=> Earlier(j, l, i, m)
    OBVIOUS
  <2>1. CASE j = i
    <3>1. a[l].obj = a[m].obj
      BY <1>2, <2>1
    <3>2. l < m <=> h[l] < h[m]
      BY <3>1 DEF Shuffled
    <3>. QED  BY <2>1, <3>2 DEF Earlier
  <2>2. CASE j # i
    BY <2>2 DEF Earlier
  <2>. QED  BY <2>1, <2>2
<1>4. /\ \A j \in DOMAIN a : h[j] \in DOMAIN b
      /\ \A l \in DOMAIN b : \E j \in DOMAIN a : h[j] = l
  BY ShuffledOnto
<1>5. ASSUME NEW e \in MadeIn(a, i, m)
      PROVE  (\A j \in DOMAIN LinkSteps, l \in DOMAIN b :
                Earlier(j, l, i, h[m]) => \A o \in MadeIn(b, j, l) : ~SamePair(e, o))
             <=> (\A j \in DOMAIN LinkSteps, l \in DOMAIN a :
                    Earlier(j, l, i, m) => \A o \in MadeIn(a, j, l) : ~SamePair(e, o))
  <2>1. ASSUME NEW j \in DOMAIN LinkSteps, NEW l \in DOMAIN a, Earlier(j, l, i, m),
               NEW o \in MadeIn(a, j, l), SamePair(e, o)
        PROVE  h[l] \in DOMAIN b /\ Earlier(j, h[l], i, h[m]) /\ o \in MadeIn(b, j, h[l])
    BY <1>1, <1>3, <1>4, <1>5, <2>1
  <2>2. ASSUME NEW j \in DOMAIN LinkSteps, NEW l \in DOMAIN b, Earlier(j, l, i, h[m]),
               NEW o \in MadeIn(b, j, l), SamePair(e, o)
        PROVE  \E q \in DOMAIN a : Earlier(j, q, i, m) /\ o \in MadeIn(a, j, q)
    <3>1. PICK q \in DOMAIN a : h[q] = l
      BY <1>4
    <3>. QED  BY <1>1, <1>3, <1>5, <2>2, <3>1
  <2>. QED  BY <2>1, <2>2
<1>. QED  BY <1>1, <1>5 DEF FirstMade

LEMMA ShuffledLinkLayer ==
  ASSUME NEW a, NEW b, NEW h, Shuffled(a, b, h)
  PROVE  LinkLayer(b) = LinkLayer(a)
<1>1. \A i \in DOMAIN LinkSteps, m \in DOMAIN a : FirstMade(b, i, h[m]) = FirstMade(a, i, m)
  BY ShuffledFirst
<1>2. /\ \A j \in DOMAIN a : h[j] \in DOMAIN b
      /\ \A l \in DOMAIN b : \E j \in DOMAIN a : h[j] = l
  BY ShuffledOnto
<1>3. \A rows : \A e : e \in LinkLayer(rows) <=>
        \E i \in DOMAIN LinkSteps, m \in DOMAIN rows : e \in FirstMade(rows, i, m)
  BY DEF LinkLayer
<1>4. \A e : e \in LinkLayer(b) <=> e \in LinkLayer(a)
  BY <1>1, <1>2, <1>3
<1>. QED
  <2>. SUFFICES ASSUME NEW e PROVE e \in LinkLayer(b) <=> e \in LinkLayer(a)
    BY DEF LinkLayer
  <2>. QED  BY <1>4

LEMMA ShuffledRefs ==
  ASSUME NEW a, NEW b, NEW h, Shuffled(a, b, h)
  PROVE  RefLayer(b) = RefLayer(a)
<1>1. \A o : \A m \in DOMAIN a : RefsOf(o, b[h[m]]) = RefsOf(o, a[m])
  <2>. SUFFICES ASSUME NEW o, NEW m \in DOMAIN a
                PROVE  RefsOf(o, b[h[m]]) = RefsOf(o, a[m])
    OBVIOUS
  <2>1. Alike(b[h[m]], a[m])
    BY DEF Shuffled
  <2>2. /\ \A f : Carries(o, f, b[h[m]]) <=> Carries(o, f, a[m])
        /\ \A f : NodeOf(o, f, b[h[m]]) = NodeOf(o, f, a[m])
    BY <2>1, AlikeReads
  <2>. QED  BY <2>1, <2>2 DEF RefsOf, Alike
<1>2. /\ \A j \in DOMAIN a : h[j] \in DOMAIN b
      /\ \A l \in DOMAIN b : \E j \in DOMAIN a : h[j] = l
  BY ShuffledOnto
<1>3. \A rows : \A e : e \in RefLayer(rows) <=>
        \E o \in {1, 2}, m \in DOMAIN rows : e \in RefsOf(Identities[o], rows[m])
  BY DEF RefLayer
<1>4. \A e : e \in RefLayer(b) <=> e \in RefLayer(a)
  BY <1>1, <1>2, <1>3
<1>. QED
  <2>. SUFFICES ASSUME NEW e PROVE e \in RefLayer(b) <=> e \in RefLayer(a)
    BY DEF RefLayer
  <2>. QED  BY <1>4

LEMMA ShuffledCarriers ==
  ASSUME NEW a, NEW b, NEW h, Shuffled(a, b, h), NEW id, IsFiniteSet(CarriersIn(a, id))
  PROVE  Cardinality(CarriersIn(b, id)) = Cardinality(CarriersIn(a, id))
<1>. DEFINE ident == Identities[IdentOf(id)]
            g == [ c \in CarriersIn(a, id) |-> << h[c[1]], c[2] >> ]
<1>1. \A m \in DOMAIN a : Roles(ident, id, b[h[m]]) = Roles(ident, id, a[m])
  <2>. SUFFICES ASSUME NEW m \in DOMAIN a
                PROVE  Roles(ident, id, b[h[m]]) = Roles(ident, id, a[m])
    OBVIOUS
  <2>1. Alike(b[h[m]], a[m])
    BY DEF Shuffled
  <2>2. /\ \A f : Carries(ident, f, b[h[m]]) <=> Carries(ident, f, a[m])
        /\ \A f : NodeOf(ident, f, b[h[m]]) = NodeOf(ident, f, a[m])
    BY <2>1, AlikeReads
  <2>. QED  BY <2>2 DEF Roles
<1>2. /\ \A j \in DOMAIN a : h[j] \in DOMAIN b
      /\ \A i, j \in DOMAIN a : h[i] = h[j] => i = j
      /\ \A l \in DOMAIN b : \E j \in DOMAIN a : h[j] = l
  BY ShuffledOnto
<1>3. \A rows, c : c \in CarriersIn(rows, id) <=>
        c \in (DOMAIN rows) \X FieldsOf(ident) /\ c[2] \in Roles(ident, id, rows[c[1]])
  BY DEF CarriersIn
<1>. HIDE DEF ident
<1>4. \A c \in CarriersIn(a, id) : << h[c[1]], c[2] >> \in CarriersIn(b, id)
  BY <1>1, <1>2, <1>3
<1>5. \A c, d \in CarriersIn(a, id) : << h[c[1]], c[2] >> = << h[d[1]], d[2] >> => c = d
  BY <1>2, <1>3
<1>6. \A d \in CarriersIn(b, id) : \E c \in CarriersIn(a, id) : << h[c[1]], c[2] >> = d
  <2>. SUFFICES ASSUME NEW d \in CarriersIn(b, id)
                PROVE  \E c \in CarriersIn(a, id) : << h[c[1]], c[2] >> = d
    OBVIOUS
  <2>1. d \in (DOMAIN b) \X FieldsOf(ident) /\ d[2] \in Roles(ident, id, b[d[1]])
    BY <1>3
  <2>2. PICK j \in DOMAIN a : h[j] = d[1]
    BY <1>2, <2>1
  <2>3. << j, d[2] >> \in CarriersIn(a, id)
    BY <1>1, <1>3, <2>1, <2>2
  <2>. QED  BY <2>1, <2>2, <2>3
<1>7. g \in Bijection(CarriersIn(a, id), CarriersIn(b, id))
  <2>1. g \in Injection(CarriersIn(a, id), CarriersIn(b, id))
    BY <1>4, <1>5 DEF Injection, IsInjective
  <2>2. g \in Surjection(CarriersIn(a, id), CarriersIn(b, id))
    BY <1>4, <1>6 DEF Surjection
  <2>. QED  BY <2>1, <2>2 DEF Bijection
<1>8. ExistsBijection(CarriersIn(a, id), CarriersIn(b, id))
  BY <1>7 DEF ExistsBijection
<1>. QED  BY <1>8, FS_Bijection

-----------------------------------------------------------------------------
(* What a running pass has of all that.                                    *)

LEMMA LinkedSame ==
  ASSUME NEW step, NEW s
  PROVE  Linked(step, s) = LinkedIn(events, step, s)
BY DEF Linked, LinkedIn, Disambiguate, DisambiguatedIn, Candidates, CandidatesIn

LEMMA MadeRel ==
  ASSUME NEW rows, NEW i \in DOMAIN LinkSteps, NEW m, NEW e \in MadeIn(rows, i, m)
  PROVE  e.rel \in LinkRules /\ e.inferred = "none"
<1>1. LinkSteps[i][1] \in LinkRules
  BY LinkStepsType
<1>. QED  BY <1>1 DEF MadeIn, LinkEdge

\* The first edge between two records that has been made is the one there.
LEMMA LinkExactStep == DInv /\ LinkExact /\ LinkSource => LinkExact'
<1>. SUFFICES ASSUME DInv, LinkExact, LinkSource PROVE LinkExact'
  OBVIOUS
<1>0. PICK i, s, made : i = k /\ s = n /\ made = MadeIn(events, k, n)
  OBVIOUS
<1>1. /\ UNCHANGED events /\ pc = "links" /\ Advance(events, LinkSteps, "reconstruct")
      /\ edges' = edges \cup { e \in made : ~Seen(e) }
  BY <1>0, LinkedSame DEF LinkSource, Stay, MadeIn
<1>2. /\ k \in Nat \ {0} /\ n \in Nat \ {0} /\ n <= Len(events) /\ k <= Len(LinkSteps)
      /\ Len(events) \in Nat \ {0} /\ Len(LinkSteps) \in Nat \ {0} /\ events \in Seq(Row)
      /\ DOMAIN events = 1 .. Len(events) /\ DOMAIN LinkSteps = 1 .. Len(LinkSteps)
  BY <1>1, EventsThere, LinkStepsType DEF DInv, Cursors, TypeOK
<1>3. i \in DOMAIN LinkSteps /\ s \in DOMAIN events /\ Active
  BY <1>0, <1>1, <1>2 DEF Active, Running
<1>4. \A j, m : Walked(j, m) <=> Earlier(j, m, i, s)
  BY <1>0, <1>1 DEF Walked, Earlier
<1>5. \A j \in DOMAIN LinkSteps, m \in DOMAIN events :
        Walked(j, m)' <=> Walked(j, m) \/ (j = i /\ m = s)
  <2>. SUFFICES ASSUME NEW j \in DOMAIN LinkSteps, NEW m \in DOMAIN events
                PROVE  Walked(j, m)' <=> Walked(j, m) \/ (j = i /\ m = s)
    OBVIOUS
  <2>1. j \in 1 .. Len(LinkSteps) /\ m \in 1 .. Len(events)
    BY <1>2
  <2>2. CASE n < Len(events) /\ n' = n + 1 /\ k' = k /\ pc' = pc
    BY <1>0, <1>1, <1>2, <2>1, <2>2 DEF Walked
  <2>3. CASE n >= Len(events) /\ k < Len(LinkSteps) /\ n' = 1 /\ k' = k + 1 /\ pc' = pc
    BY <1>0, <1>1, <1>2, <2>1, <2>3 DEF Walked
  <2>4. CASE n >= Len(events) /\ k >= Len(LinkSteps) /\ pc' = "reconstruct"
    BY <1>0, <1>1, <1>2, <2>1, <2>4 DEF Walked
  <2>. QED  BY <1>1, <2>2, <2>3, <2>4 DEF Advance
<1>6. /\ \A e \in Links(edges) : \E j \in DOMAIN LinkSteps, m \in DOMAIN events :
           Walked(j, m) /\ e \in FirstMade(events, j, m)
      /\ \A j \in DOMAIN LinkSteps, m \in DOMAIN events : Walked(j, m) =>
           /\ FirstMade(events, j, m) \subseteq edges
           /\ \A e \in MadeIn(events, j, m) : \E o \in edges : SamePair(e, o)
  BY <1>3 DEF LinkExact
<1>7. \A j, m : FirstMade(events, j, m) \subseteq MadeIn(events, j, m)
  BY DEF FirstMade
<1>8. ASSUME NEW e \in made
      PROVE  Seen(e) <=> e \notin FirstMade(events, i, s)
  <2>1. e.rel \in LinkRules
    BY <1>0, <1>3, MadeRel
  <2>2. ASSUME Seen(e) PROVE e \notin FirstMade(events, i, s)
    <3>1. PICK o \in edges : SamePair(e, o)
      BY <2>2 DEF Seen, SamePair
    <3>2. o \in Links(edges)
      BY <2>1, <3>1 DEF Links, SamePair
    <3>3. PICK j \in DOMAIN LinkSteps, m \in DOMAIN events : Walked(j, m) /\ o \in MadeIn(events, j, m)
      BY <1>6, <1>7, <3>2
    <3>. QED  BY <1>4, <3>1, <3>3 DEF FirstMade
  <2>3. ASSUME e \notin FirstMade(events, i, s) PROVE Seen(e)
    <3>1. PICK j \in DOMAIN LinkSteps, m \in DOMAIN events :
            Earlier(j, m, i, s) /\ \E o \in MadeIn(events, j, m) : SamePair(e, o)
      BY <1>0, <2>3 DEF FirstMade
    <3>2. PICK o \in MadeIn(events, j, m) : SamePair(e, o)
      BY <3>1
    <3>3. PICK x \in edges : SamePair(o, x)
      BY <1>4, <1>6, <3>1, <3>2
    <3>. QED  BY <3>2, <3>3 DEF Seen, SamePair
  <2>. QED  BY <2>2, <2>3
<1>9. FirstMade(events, i, s) \subseteq made /\ made = MadeIn(events, i, s)
  BY <1>0, <1>7
<1>10. edges' = edges \cup FirstMade(events, i, s)
  BY <1>1, <1>8, <1>9
<1>11. ASSUME NEW e \in Links(edges')
       PROVE  \E j \in DOMAIN LinkSteps, m \in DOMAIN events : Walked(j, m)' /\ e \in FirstMade(events, j, m)
  <2>1. CASE e \in edges
    <3>1. e \in Links(edges)
      BY <1>11, <2>1 DEF Links
    <3>. QED  BY <1>5, <1>6, <3>1
  <2>2. CASE e \in FirstMade(events, i, s)
    BY <1>3, <1>5, <2>2
  <2>. QED  BY <1>10, <1>11, <2>1, <2>2 DEF Links
<1>12. ASSUME NEW j \in DOMAIN LinkSteps, NEW m \in DOMAIN events, Walked(j, m)'
       PROVE  /\ FirstMade(events, j, m) \subseteq edges'
              /\ \A e \in MadeIn(events, j, m) : \E o \in edges' : SamePair(e, o)
  <2>1. CASE Walked(j, m)
    BY <1>6, <1>10, <2>1
  <2>2. CASE j = i /\ m = s
    <3>1. \A e \in made : \E o \in edges' : SamePair(e, o)
      <4>. SUFFICES ASSUME NEW e \in made PROVE \E o \in edges' : SamePair(e, o)
        OBVIOUS
      <4>1. CASE Seen(e)
        BY <1>1, <4>1 DEF Seen, SamePair
      <4>2. CASE ~Seen(e)
        BY <1>1, <4>2 DEF SamePair
      <4>. QED  BY <4>1, <4>2
    <3>. QED  BY <1>9, <1>10, <2>2, <3>1
  <2>. QED  BY <1>5, <1>12, <2>1, <2>2
<1>. QED  BY <1>1, <1>11, <1>12 DEF LinkExact

LEMMA LinkExactStays ==
  ASSUME LinkExact, Active, UNCHANGED events, edges \subseteq edges', Links(edges') = Links(edges),
         \A j, m : Walked(j, m)' <=> Walked(j, m)
  PROVE  LinkExact'
<1>1. /\ \A e \in Links(edges) : \E j \in DOMAIN LinkSteps, m \in DOMAIN events :
           Walked(j, m) /\ e \in FirstMade(events, j, m)
      /\ \A j \in DOMAIN LinkSteps, m \in DOMAIN events : Walked(j, m) =>
           /\ FirstMade(events, j, m) \subseteq edges
           /\ \A e \in MadeIn(events, j, m) : \E o \in edges : SamePair(e, o)
  BY DEF LinkExact
<1>2. \A e \in Links(edges') : \E j \in DOMAIN LinkSteps, m \in DOMAIN events :
        Walked(j, m)' /\ e \in FirstMade(events, j, m)
  BY <1>1
<1>3. \A j \in DOMAIN LinkSteps, m \in DOMAIN events : Walked(j, m)' =>
        /\ FirstMade(events, j, m) \subseteq edges'
        /\ \A e \in MadeIn(events, j, m) : \E o \in edges' : SamePair(e, o)
  BY <1>1
<1>. QED  BY <1>2, <1>3 DEF LinkExact

LEMMA LinkExactNext == DInv /\ LinkExact /\ [Next]_vars => LinkExact'
<1>. SUFFICES ASSUME DInv, LinkExact, [Next]_vars PROVE LinkExact'
  OBVIOUS
<1>1. CASE ClearDerived
  <2>1. pc' = "links" /\ k' = k /\ n' = n /\ UNCHANGED events /\ pc = "clear" /\ edges' = {}
    BY <1>1 DEF ClearDerived
  <2>2. k = 1 /\ n = 1 /\ events \in Seq(Row)
    BY <2>1 DEF DInv, Cursors, TypeOK
  <2>3. DOMAIN LinkSteps \subseteq Nat \ {0} /\ DOMAIN events \subseteq Nat \ {0}
    BY <2>2, LinkStepsType
  <2>4. \A j \in DOMAIN LinkSteps, m \in DOMAIN events : ~Walked(j, m)'
    BY <2>1, <2>2, <2>3 DEF Walked
  <2>. QED  BY <2>1, <2>4 DEF LinkExact, Links
<1>2. CASE LinkSource
  BY <1>2, LinkExactStep
<1>3. CASE Reconstruct
  <2>1. UNCHANGED events /\ pc = "reconstruct" /\ pc' \in {"reconstruct", "content"}
    BY <1>3 DEF Reconstruct, Advance
  <2>2. \A rule, r : InferredEdge(rule, r).rel \notin LinkRules
    BY InferredNoLink
  <2>3. edges' = edges \/ \E rule, r : edges' = edges \cup { InferredEdge(rule, r) }
    BY <1>3 DEF Reconstruct
  <2>4. Links(edges') = Links(edges) /\ edges \subseteq edges'
    BY <2>2, <2>3 DEF Links
  <2>. QED  BY <2>1, <2>4, LinkExactStays DEF Active, Running, Walked
<1>4. CASE Refer \/ StoreLayer
  <2>1. UNCHANGED << events, edges >> /\ pc \in {"content", "store"} /\ pc' \in {"content", "store", "done"}
    BY <1>4 DEF Refer, StoreLayer, Collected, Advance
  <2>. QED  BY <2>1, LinkExactStays DEF Active, Running, Walked
<1>5. CASE Rederive \/ LoadRow
  <2>1. pc' \in {"load", "clear"}
    BY <1>5 DEF Rederive, LoadRow, Advance
  <2>. QED  BY <2>1 DEF LinkExact, Active, Running
<1>6. CASE UNCHANGED vars
  <2>1. UNCHANGED << events, edges, pc, k, n >>
    BY <1>6 DEF vars
  <2>2. CASE Active
    BY <2>1, <2>2, LinkExactStays DEF Walked
  <2>3. CASE ~Active
    BY <2>1, <2>3 DEF LinkExact, Active, Running
  <2>. QED  BY <2>2, <2>3
<1>. QED  BY <1>1, <1>2, <1>3, <1>4, <1>5, <1>6 DEF Next

\* The references of what was read, and no others.
LEMMA RefsExactNext == DInv /\ RefsExact /\ [Next]_vars => RefsExact'
<1>. SUFFICES ASSUME DInv, RefsExact, [Next]_vars PROVE RefsExact'
  OBVIOUS
<1>1. CASE ClearDerived
  <2>1. pc' = "links" /\ refs' = {}
    BY <1>1 DEF ClearDerived
  <2>. QED  BY <2>1 DEF RefsExact, Read
<1>2. CASE LinkSource \/ Reconstruct
  <2>1. UNCHANGED << events, refs >> /\ pc \in {"links", "reconstruct"}
    BY <1>2 DEF LinkSource, Reconstruct
  <2>2. \/ pc' \in {"links", "reconstruct"}
        \/ pc' = "content" /\ k' = 1 /\ n' = 1
    BY <1>2 DEF LinkSource, Reconstruct, Advance
  <2>3. DOMAIN events \subseteq Nat \ {0}
    BY DEF DInv, TypeOK
  <2>4. \A o \in {1, 2}, m \in DOMAIN events : ~Read(o, m) /\ ~Read(o, m)'
    BY <2>1, <2>2, <2>3 DEF Read
  <2>5. refs = {}
    BY <2>1, <2>4 DEF RefsExact, Active, Running
  <2>. QED  BY <2>1, <2>4, <2>5 DEF RefsExact
<1>3. CASE Refer
  <2>0. PICK o, i : o = k /\ i = n
    OBVIOUS
  <2>1. /\ UNCHANGED events /\ pc = "content" /\ Advance(events, Identities, "store")
        /\ refs' = refs \cup RefsOf(Identities[o], events[i])
    BY <1>3, <2>0 DEF Refer, Stay, RefsOf
  <2>2. /\ k \in {1, 2} /\ n \in Nat \ {0} /\ n <= Len(events) /\ Len(Identities) = 2
        /\ Len(events) \in Nat \ {0} /\ events \in Seq(Row) /\ DOMAIN events = 1 .. Len(events)
    BY <2>1, EventsThere, RulesType DEF DInv, Cursors, TypeOK
  <2>3. \A q \in {1, 2}, m \in DOMAIN events : Read(q, m)' <=> Read(q, m) \/ (q = o /\ m = i)
    <3>. SUFFICES ASSUME NEW q \in {1, 2}, NEW m \in DOMAIN events
                  PROVE  Read(q, m)' <=> Read(q, m) \/ (q = o /\ m = i)
      OBVIOUS
    <3>1. m \in 1 .. Len(events)
      BY <2>2
    <3>2. CASE n < Len(events) /\ n' = n + 1 /\ k' = k /\ pc' = pc
      BY <2>0, <2>1, <2>2, <3>1, <3>2 DEF Read
    <3>3. CASE n >= Len(events) /\ k < Len(Identities) /\ n' = 1 /\ k' = k + 1 /\ pc' = pc
      BY <2>0, <2>1, <2>2, <3>1, <3>3 DEF Read
    <3>4. CASE n >= Len(events) /\ k >= Len(Identities) /\ pc' = "store"
      BY <2>0, <2>1, <2>2, <3>1, <3>4 DEF Read
    <3>. QED  BY <2>1, <3>2, <3>3, <3>4 DEF Advance
  <2>4. o \in {1, 2} /\ i \in DOMAIN events
    BY <2>0, <2>2
  <2>5. \A y : y \in refs <=>
          \E q \in {1, 2}, m \in DOMAIN events : Read(q, m) /\ y \in RefsOf(Identities[q], events[m])
    BY <2>1 DEF RefsExact, Active, Running
  <2>6. \A y : y \in refs' <=>
          \E q \in {1, 2}, m \in DOMAIN events : Read(q, m)' /\ y \in RefsOf(Identities[q], events[m])
    <3>. SUFFICES ASSUME NEW y
                  PROVE  y \in refs' <=>
            \E q \in {1, 2}, m \in DOMAIN events : Read(q, m)' /\ y \in RefsOf(Identities[q], events[m])
      OBVIOUS
    <3>1. y \in refs' <=> y \in refs \/ y \in RefsOf(Identities[o], events[i])
      BY <2>1
    <3>. QED  BY <2>3, <2>4, <2>5, <3>1
  <2>7. Identities' = Identities
    BY DEF Identities
  <2>. QED  BY <2>1, <2>6, <2>7 DEF RefsExact
<1>4. CASE StoreLayer
  <2>1. UNCHANGED << events, refs >> /\ pc = "store" /\ pc' = "done"
    BY <1>4 DEF StoreLayer, Collected
  <2>2. \A o, m : Read(o, m)' <=> Read(o, m)
    BY <2>1 DEF Read
  <2>3. Identities' = Identities
    BY DEF Identities
  <2>. QED  BY <2>1, <2>2, <2>3 DEF RefsExact, Active, Running
<1>5. CASE Rederive \/ LoadRow
  <2>1. pc' \in {"load", "clear"}
    BY <1>5 DEF Rederive, LoadRow, Advance
  <2>. QED  BY <2>1 DEF RefsExact, Active, Running
<1>6. CASE UNCHANGED vars
  <2>1. UNCHANGED << events, refs, pc, k, n >>
    BY <1>6 DEF vars
  <2>2. \A o, m : Read(o, m)' <=> Read(o, m)
    BY <2>1 DEF Read
  <2>3. Identities' = Identities
    BY DEF Identities
  <2>. QED  BY <2>1, <2>2, <2>3 DEF RefsExact, Active, Running
<1>. QED  BY <1>1, <1>2, <1>3, <1>4, <1>5, <1>6 DEF Next

LEMMA ClearedNext == DInv /\ PInv /\ Cleared /\ [Next]_vars => Cleared'
<1>. SUFFICES ASSUME DInv, PInv, Cleared, [Next]_vars PROVE Cleared'
  OBVIOUS
<1>1. CASE ClearDerived
  <2>1. /\ UNCHANGED car
        /\ db' = [ db EXCEPT !.edges = {}, !.nodes = NoNodeRows, !.content = NoEntities, !.refs = {} ]
    BY <1>1 DEF ClearDerived, Stay
  <2>2. db \in Tables /\ db.declared = Declared(car)
    BY DEF DInv, TypeOK, PInv, Tabled
  <2>. QED  BY <2>1, <2>2 DEF Cleared, Tables
<1>2. CASE LinkSource \/ Reconstruct \/ Refer
  <2>1. UNCHANGED << car, db >> /\ Running
    BY <1>2 DEF LinkSource, Reconstruct, Refer, Stay, Running
  <2>. QED  BY <2>1 DEF Cleared
<1>3. CASE StoreLayer \/ Rederive \/ LoadRow
  <2>1. pc' \in {"done", "load", "clear"}
    BY <1>3 DEF StoreLayer, Rederive, LoadRow, Advance
  <2>. QED  BY <2>1 DEF Cleared, Running
<1>4. CASE UNCHANGED vars
  BY <1>4 DEF vars, Cleared, Running
<1>. QED  BY <1>1, <1>2, <1>3, <1>4 DEF Next

\* Every rule a node is known by missed it.
LEMMA RulesMeantNext == DInv /\ RulesMeant /\ [Next]_vars => RulesMeant'
<1>. SUFFICES ASSUME DInv, RulesMeant, [Next]_vars PROVE RulesMeant'
  OBVIOUS
<1>1. CASE ClearDerived
  <2>1. nodes' = NoNodes
    BY <1>1 DEF ClearDerived
  <2>. QED  BY <2>1 DEF RulesMeant, NoNodes, NoNode
<1>2. CASE LinkSource \/ Refer \/ StoreLayer \/ UNCHANGED vars
  <2>1. UNCHANGED << events, nodes >> /\ (Active' => Active)
    BY <1>2 DEF LinkSource, Refer, StoreLayer, Collected, Active, Running, vars
  <2>2. \A rule, m : IsLost(rule, events[m])' <=> IsLost(rule, events[m])
    BY <2>1 DEF IsLost, IsObserved
  <2>. QED  BY <2>1, <2>2 DEF RulesMeant
<1>3. CASE Reconstruct
  <2>0. PICK i, rule : i = n /\ rule = Rules[k]
    OBVIOUS
  <2>1. /\ UNCHANGED << car, events, db >> /\ pc = "reconstruct" /\ Active
    BY <1>3 DEF Reconstruct, Stay, Active, Running
  <2>2. /\ k \in Nat \ {0} /\ n \in Nat \ {0} /\ n <= Len(events) /\ k <= Len(Rules)
        /\ Len(events) \in Nat \ {0} /\ events \in Seq(Row) /\ nodes \in [Hosts \X Guids -> Node]
    BY <2>1, EventsThere, RulesType DEF DInv, Cursors, TypeOK
  <2>3. rule \in RuleNames /\ i \in DOMAIN events
    BY <2>0, <2>2, RulesType
  <2>4. IF IsLost(rule, events[i])
        THEN LET lost == << events[i].host, Referred(rule, events[i]) >> IN
             nodes' = [ nodes EXCEPT ![lost] = Corroborated(nodes[lost], rule, events[i]) ]
        ELSE UNCHANGED nodes
    BY <1>3, <2>0 DEF Reconstruct
  <2>5. \A o, m : IsLost(o, events[m])' <=> IsLost(o, events[m])
    BY <2>1 DEF IsLost, IsObserved
  <2>6. ASSUME NEW h \in Hosts, NEW g \in Guids, NEW o \in nodes'[<< h, g >>].rules
        PROVE  \E m \in DOMAIN events : IsLost(o, events[m]) /\ Referred(o, events[m]) = g
    <3>1. CASE o \in nodes[<< h, g >>].rules
      BY <2>1, <3>1 DEF RulesMeant
    <3>2. CASE o \notin nodes[<< h, g >>].rules
      <4>1. /\ IsLost(rule, events[i]) /\ << h, g >> = << events[i].host, Referred(rule, events[i]) >>
            /\ nodes'[<< h, g >>] = Corroborated(nodes[<< h, g >>], rule, events[i])
        BY <2>2, <2>4, <2>6, <3>2
      <4>2. o = rule
        BY <2>6, <3>2, <4>1 DEF Corroborated
      <4>. QED  BY <2>3, <4>1, <4>2
    <3>. QED  BY <3>1, <3>2
  <2>. QED  BY <2>1, <2>5, <2>6 DEF RulesMeant
<1>4. CASE Rederive \/ LoadRow
  <2>1. pc' \in {"load", "clear"}
    BY <1>4 DEF Rederive, LoadRow, Advance
  <2>. QED  BY <2>1 DEF RulesMeant, Active, Running
<1>. QED  BY <1>1, <1>2, <1>3, <1>4 DEF Next

LEMMA NodeTabledNext == DInv /\ Cleared /\ NodeTabled /\ [Next]_vars => NodeTabled'
<1>. SUFFICES ASSUME DInv, Cleared, NodeTabled, [Next]_vars, pc' = "done" PROVE NodeTabled'
  BY DEF NodeTabled
<1>1. CASE StoreLayer
  <2> DEFINE stored == [ g \in Guids |-> IF latest[g] = Blank THEN db.nodes[g]
                           ELSE [ host |-> latest[g], node |-> nodes[<< latest[g], g >>] ] ]
  <2>1. db \in Tables /\ Running /\ UNCHANGED latest
    BY <1>1 DEF DInv, TypeOK, StoreLayer, Running, Collected
  <2>2. db'.nodes = stored
    BY <1>1, <2>1 DEF StoreLayer, Tables
  <2>3. db.nodes = NoNodeRows
    BY <2>1 DEF Cleared
  <2>. QED  BY <2>1, <2>2, <2>3 DEF NodeTabled, NoNodeRows, NoNode
<1>2. CASE ClearDerived \/ LinkSource \/ Reconstruct \/ Refer \/ Rederive \/ LoadRow
  <2>1. pc' # "done"
    BY <1>2 DEF ClearDerived, LinkSource, Reconstruct, Refer, Rederive, LoadRow, Advance
  <2>. QED  BY <2>1
<1>3. CASE UNCHANGED vars
  BY <1>3 DEF vars, NodeTabled
<1>. QED  BY <1>1, <1>2, <1>3 DEF Next

LEMMA StoredKeeps ==
  ASSUME NEW r \in Row
  PROVE  /\ Alike(Stored(r), r)
         /\ Stored(r).owningRef = Blank /\ Stored(r).owningAt = Blank
         /\ Stored(r).act = r.act /\ Stored(r).owning = r.owning
         /\ Stored(r).parent = r.parent /\ Stored(r).parentRef = r.parentRef
         /\ Stored(r).injected = r.injected /\ Stored(r).injectRef = r.injectRef
<1>. DEFINE s == [ r EXCEPT !.owningRef = Blank, !.owningAt = Blank ]
<1>1. /\ Alike(s, r) /\ s.owningRef = Blank /\ s.owningAt = Blank
      /\ s.act = r.act /\ s.owning = r.owning /\ s.parent = r.parent
      /\ s.parentRef = r.parentRef /\ s.injected = r.injected /\ s.injectRef = r.injectRef
  BY DEF Row, Alike
<1>. QED  BY <1>1 DEF Stored

\* The pass over memory walks car.db, a later one the same rows as load_events
\* lists them.
LEMMA EventsShuffled ==
  ASSUME DInv, Filed, pc # "load"
  PROVE  /\ Shuffled(car, events, [ j \in DOMAIN car |-> Home(j) ])
         /\ \A j \in DOMAIN car : Home(j) \in DOMAIN events /\ events[Home(j)] = Shown(j)
         /\ \A m \in DOMAIN events : \E j \in DOMAIN car : Home(j) = m
<1>. DEFINE h == [ j \in DOMAIN car |-> Home(j) ]
<1>1. /\ car \in Seq(Row) /\ DOMAIN car = 1 .. Len(car) /\ Len(car) \in Nat /\ events \in Seq(Row)
      /\ \A j \in DOMAIN car : car[j] \in Row
  BY CarDomain DEF DInv, TypeOK
<1>2. /\ Len(events) = Len(car) /\ DOMAIN events = DOMAIN car
      /\ \A j \in DOMAIN car : Home(j) \in DOMAIN events /\ events[Home(j)] = Shown(j)
  BY <1>1 DEF Filed
<1>3. /\ \A i \in DOMAIN car : \E j \in DOMAIN car : Home(j) = i
      /\ \A i, j \in DOMAIN car : Home(i) = Home(j) => i = j
      /\ \A i, j \in DOMAIN car : car[i].obj = car[j].obj => (i < j <=> Home(i) < Home(j))
  <2>1. CASE passes = 1
    <3>1. \A j : Home(j) = j
      BY <2>1 DEF Home
    <3>. QED  BY <3>1
  <2>2. CASE passes # 1
    <3>1. \A j : Home(j) = Place(j)
      BY <2>2 DEF Home
    <3>2. /\ \A j \in DOMAIN car : Place(j) \in Nat
          /\ \A i \in DOMAIN car : \E j \in DOMAIN car : Place(j) = i
          /\ \A i, j \in DOMAIN car : Place(i) = Place(j) => i = j
          /\ \A i, j \in DOMAIN car : << i, j >> \in ReadOrder(car) => Place(i) < Place(j)
      BY <1>1, PlacesAre DEF DInv
    <3>3. \A i, j \in DOMAIN car : car[i].obj = car[j].obj /\ i < j => Place(i) < Place(j)
      BY <3>2 DEF ReadOrder
    <3>4. \A i, j \in DOMAIN car : car[i].obj = car[j].obj => (i < j <=> Place(i) < Place(j))
      <4>. SUFFICES ASSUME NEW i \in DOMAIN car, NEW j \in DOMAIN car, car[i].obj = car[j].obj
                    PROVE  i < j <=> Place(i) < Place(j)
        OBVIOUS
      <4>1. i \in Nat /\ j \in Nat /\ Place(i) \in Nat /\ Place(j) \in Nat
        BY <1>1, <3>2
      <4>2. i < j => Place(i) < Place(j)
        BY <3>3
      <4>3. j < i => Place(j) < Place(i)
        BY <3>3
      <4>4. i = j => Place(i) = Place(j)
        OBVIOUS
      <4>. QED  BY <4>1, <4>2, <4>3, <4>4
    <3>. QED  BY <3>1, <3>2, <3>4
  <2>. QED  BY <2>1, <2>2
<1>4. h \in Bijection(DOMAIN car, DOMAIN events)
  <2>1. h \in Injection(DOMAIN car, DOMAIN events)
    BY <1>2, <1>3 DEF Injection, IsInjective
  <2>2. h \in Surjection(DOMAIN car, DOMAIN events)
    BY <1>2, <1>3 DEF Surjection
  <2>. QED  BY <2>1, <2>2 DEF Bijection
<1>5. \A j \in DOMAIN car : Alike(events[h[j]], car[j])
  <2>. SUFFICES ASSUME NEW j \in DOMAIN car PROVE Alike(events[Home(j)], car[j])
    OBVIOUS
  <2>1. Shown(j) = car[j] \/ Shown(j) = Stored(car[j])
    BY DEF Shown
  <2>2. Alike(car[j], car[j]) /\ Alike(Stored(car[j]), car[j])
    BY <1>1, StoredKeeps DEF Alike
  <2>. QED  BY <1>2, <2>1, <2>2
<1>6. \A i, j \in DOMAIN car : car[i].obj = car[j].obj => (i < j <=> h[i] < h[j])
  BY <1>3
<1>7. DOMAIN car \subseteq Nat /\ DOMAIN events \subseteq Nat
  BY <1>1, <1>2
<1>. HIDE DEF h
<1>8. Shuffled(car, events, h)
  BY <1>4, <1>5, <1>6, <1>7 DEF Shuffled
<1>. QED  BY <1>2, <1>3, <1>8 DEF h

\* What the rules miss in the events is what they miss in car.db.
LEMMA MissesMean ==
  ASSUME DInv, Filed, pc # "load", NEW rule, NEW g
  PROVE  Misses(car, passes = 1, rule, g) <=>
           \E m \in DOMAIN events : IsLost(rule, events[m]) /\ Referred(rule, events[m]) = g
<1>1. Observed(events) = Observed(car)
  BY ObservedSame
<1>2. \A r : IsLost(rule, r) <=> LostIn(car, rule, r)
  BY <1>1 DEF IsLost, IsObserved, LostIn
<1>3. Misses(car, passes = 1, rule, g) <=>
        \E j \in DOMAIN car : LostIn(car, rule, Shown(j)) /\ Referred(rule, Shown(j)) = g
  BY DEF Misses, Shown
<1>4. /\ \A j \in DOMAIN car : Home(j) \in DOMAIN events /\ events[Home(j)] = Shown(j)
      /\ \A m \in DOMAIN events : \E j \in DOMAIN car : Home(j) = m
  BY EventsShuffled
<1>. QED  BY <1>2, <1>3, <1>4

LEMMA CarriersInFinite ==
  ASSUME NEW rows \in Seq(Row), NEW id \in ContentIds
  PROVE  IsFiniteSet(CarriersIn(rows, id))
<1> DEFINE ident == Identities[IdentOf(id)]
<1>1. IsFiniteSet(DOMAIN rows)
  <2>1. Len(rows) \in Nat /\ DOMAIN rows = 1 .. Len(rows)
    OBVIOUS
  <2>. QED  BY <2>1, FS_Interval
<1>2. IsFiniteSet(FieldsOf(ident))
  BY IdentityOf, FieldsFinite
<1>3. IsFiniteSet((DOMAIN rows) \X FieldsOf(ident))
  BY <1>1, <1>2, FS_Product
<1>4. CarriersIn(rows, id) \subseteq (DOMAIN rows) \X FieldsOf(ident)
  BY DEF CarriersIn
<1>. QED  BY <1>3, <1>4, FS_Subset

\* All that is proved of a running pass.
Known ==
  /\ DInv /\ Filed /\ PInv /\ ContentInv /\ LinkExact /\ RefsExact /\ Cleared
  /\ RulesMeant /\ NodeTabled

\* A pass that is over has left what can be said of car.db alone.
LEMMA PassSettles ==
  ASSUME Known, pc = "done"
  PROVE  Settled(car, db, passes = 1)
<1>. DEFINE h == [ j \in DOMAIN car |-> Home(j) ]
<1>1. /\ Active /\ pc # "load" /\ car \in Inputs /\ car \in Seq(Row) /\ events \in Seq(Row)
      /\ nodes \in [Hosts \X Guids -> Node] /\ latest \in [Guids -> Link(Hosts)]
      /\ edges \in SUBSET EdgeSet
  BY DEF Known, DInv, TypeOK, Active
<1>2. Shuffled(car, events, h)
  BY <1>1, EventsShuffled DEF Known
<1>. HIDE DEF h
<1>3. LinkLayer(events) = LinkLayer(car) /\ RefLayer(events) = RefLayer(car)
  BY <1>2, ShuffledLinkLayer, ShuffledRefs
<1>4. BothObserved(db.edges) = LinkLayer(car)
  <2>1. db.edges = edges
    BY DEF Known, PInv, Tabled
  <2>2. \A i, m : Walked(i, m)
    BY DEF Walked
  <2>3. \A e \in edges : e.inferred = "none" <=> e.rel \in LinkRules
    <3>. SUFFICES ASSUME NEW e \in edges PROVE e.inferred = "none" <=> e.rel \in LinkRules
      OBVIOUS
    <3>1. \/ e.inferred = "none" /\ e.rel \in LinkRules
          \/ \E rule \in RuleNames, m \in DOMAIN events : DrawnFor(e, rule, events[m])
      BY <1>1 DEF Known, PInv, Drawn
    <3>2. \A rule \in RuleNames, m \in DOMAIN events : DrawnFor(e, rule, events[m])
            => e.inferred # "none" /\ e.rel \notin LinkRules
      BY InferredEdgeIs, InferredNoLink DEF DrawnFor
    <3>. QED  BY <3>1, <3>2
  <2>4. /\ \A e \in Links(edges) : \E i \in DOMAIN LinkSteps, m \in DOMAIN events : e \in FirstMade(events, i, m)
        /\ \A i \in DOMAIN LinkSteps, m \in DOMAIN events : FirstMade(events, i, m) \subseteq edges
    BY <1>1, <2>2 DEF Known, LinkExact
  <2>5. \A i \in DOMAIN LinkSteps, m \in DOMAIN events : \A e \in FirstMade(events, i, m) : e.rel \in LinkRules
    BY MadeRel DEF FirstMade
  <2>6. Links(edges) = LinkLayer(events)
    BY <2>4, <2>5 DEF Links, LinkLayer
  <2>7. BothObserved(edges) = Links(edges)
    BY <2>3 DEF BothObserved, Links
  <2>. QED  BY <1>3, <2>1, <2>6, <2>7
<1>5. db.refs = RefLayer(car)
  <2>1. db.refs = refs
    BY DEF Known, ContentInv, ContentTabled
  <2>2. \A o, m : Read(o, m)
    BY DEF Read
  <2>3. refs = RefLayer(events)
    BY <1>1, <2>2 DEF Known, RefsExact, RefLayer
  <2>. QED  BY <1>3, <2>1, <2>3
<1>6. ASSUME NEW id \in ContentIds
      PROVE  db.content[id].count = Cardinality(CarriersIn(car, id))
  <2>1. db.content[id].count = Cardinality(Carriers(id))
    BY <1>1 DEF Known, ContentInv, ContentTabled, Counted
  <2>2. Carriers(id) = CarriersIn(events, id)
    BY DEF Carriers, CarriersIn, Read
  <2>3. Cardinality(CarriersIn(events, id)) = Cardinality(CarriersIn(car, id))
    BY <1>1, <1>2, CarriersInFinite, ShuffledCarriers
  <2>. QED  BY <2>1, <2>2, <2>3
<1>7. ASSUME NEW rule, NEW g
      PROVE  Misses(car, passes = 1, rule, g) <=>
               \E m \in DOMAIN events : IsLost(rule, events[m]) /\ Referred(rule, events[m]) = g
  BY <1>1, MissesMean DEF Known
<1>8. ASSUME NEW g \in Guids
      PROVE  /\ latest[g] # Blank => \E rule \in RuleNames : Misses(car, passes = 1, rule, g)
             /\ \A rule \in RuleNames : Misses(car, passes = 1, rule, g) => latest[g] # Blank
  <2>1. ASSUME latest[g] # Blank
        PROVE  \E rule \in RuleNames : Misses(car, passes = 1, rule, g)
    <3>1. latest[g] \in Hosts /\ nodes[<< latest[g], g >>].by # {}
      BY <1>1, <2>1 DEF Known, DInv, LatestMade, Link
    <3>2. PICK e \in edges : e.inferred # "none" /\ InferredEnd(e) = g
      BY <1>1, <3>1 DEF Known, PInv, Rooted
    <3>3. PICK rule \in RuleNames, m \in DOMAIN events : DrawnFor(e, rule, events[m])
      BY <1>1, <3>2 DEF Known, PInv, Drawn
    <3>4. IsLost(rule, events[m]) /\ Referred(rule, events[m]) = g
      BY <3>2, <3>3, InferredEdgeIs DEF DrawnFor
    <3>. QED  BY <1>7, <3>4
  <2>2. ASSUME NEW rule \in RuleNames, Misses(car, passes = 1, rule, g)
        PROVE  latest[g] # Blank
    <3>1. PICK m \in DOMAIN events : IsLost(rule, events[m]) /\ Referred(rule, events[m]) = g
      BY <1>7, <2>2
    <3>2. \E o \in DOMAIN Rules : Rules[o] = rule
      BY DEF Rules, RuleNames
    <3>3. Spoken(rule, events[m])
      BY <3>1, <3>2 DEF Known, PInv, Met, Visited
    <3>4. events[m].host \in Hosts
      <4>1. events[m] \in Row
        BY <1>1, ElementOfSeq
      <4>. QED  BY <4>1 DEF Row
    <3>5. nodes[<< events[m].host, g >>].by # {}
      BY <3>1, <3>3 DEF Spoken
    <3>. QED  BY <1>1, <3>4, <3>5 DEF Known, PInv, Rooted
  <2>. QED  BY <2>1, <2>2
<1>9. ASSUME NEW g \in Guids
      PROVE  /\ db.nodes[g].host # Blank <=> latest[g] # Blank
             /\ \A rule \in db.nodes[g].node.rules :
                  rule \in RuleNames /\ Misses(car, passes = 1, rule, g)
  <2>1. CASE latest[g] = Blank
    BY <2>1 DEF Known, NodeTabled
  <2>2. CASE latest[g] # Blank
    <3>1. db.nodes[g] = [ host |-> latest[g], node |-> nodes[<< latest[g], g >>] ]
      BY <2>2 DEF Known, PInv, Tabled
    <3>2. latest[g] \in Hosts
      BY <1>1, <2>2 DEF Link
    <3>3. nodes[<< latest[g], g >>].rules \subseteq RuleNames
      BY <1>1, <3>2 DEF Node
    <3>4. \A rule \in nodes[<< latest[g], g >>].rules :
            \E m \in DOMAIN events : IsLost(rule, events[m]) /\ Referred(rule, events[m]) = g
      BY <1>1, <3>2 DEF Known, RulesMeant
    <3>. QED  BY <1>7, <2>2, <3>1, <3>3, <3>4
  <2>. QED  BY <2>1, <2>2
<1>. QED  BY <1>4, <1>5, <1>6, <1>8, <1>9 DEF Settled

LEMMA KnownAlways == Spec => [](Known /\ History)
<1>1. Init => LinkExact /\ RefsExact /\ Cleared /\ RulesMeant /\ NodeTabled /\ History
  BY DEF Init, LinkExact, RefsExact, Cleared, RulesMeant, NodeTabled, History, Active, Running
<1>2. Known /\ History /\ [Next]_vars => History'
  <2>. SUFFICES ASSUME Known, History, [Next]_vars PROVE History'
    OBVIOUS
  <2>1. CASE Rederive
    <3>1. pc = "done" /\ passes' = passes + 1 /\ before' = db /\ UNCHANGED car
      BY <2>1 DEF Rederive
    <3>2. passes \in Nat \ {0}
      BY DEF Known, DInv, TypeOK
    <3>3. (passes' = 2) <=> (passes = 1)
      BY <3>1, <3>2
    <3>4. Settled(car, db, passes = 1)
      BY <3>1, PassSettles
    <3>5. Settled(car', before', passes' = 2)
      BY <3>1, <3>3, <3>4
    <3>. QED  BY <3>5 DEF History
  <2>2. CASE ClearDerived \/ LinkSource \/ Reconstruct \/ Refer \/ StoreLayer \/ LoadRow \/ UNCHANGED vars
    <3>1. UNCHANGED << car, before, passes >>
      BY <2>2 DEF ClearDerived, LinkSource, Reconstruct, Refer, StoreLayer, LoadRow, Stay, vars
    <3>. QED  BY <3>1 DEF History
  <2>. QED  BY <2>1, <2>2 DEF Next
<1>. QED
  BY <1>1, <1>2, FiledAlways, PassInductive, ContentInductive, LinkExactNext, RefsExactNext,
     ClearedNext, RulesMeantNext, NodeTabledNext, PTL DEF Spec, Known

\* What the store keeps of a row misses no more than the row.
LEMMA StoredMisses ==
  ASSUME NEW rows \in Seq(Row), NEW rule \in RuleNames, NEW g
  PROVE  /\ Misses(rows, FALSE, rule, g) => Misses(rows, TRUE, rule, g)
         /\ rule \in {"parent_process", "injection_target"} /\ Misses(rows, TRUE, rule, g)
              => Misses(rows, FALSE, rule, g)
<1>1. \A j \in DOMAIN rows : rows[j] \in Row
  BY ElementOfSeq
<1>2. ASSUME NEW r \in Row
      PROVE  /\ rule \in {"owning_process", "owning_process_memory"} => ~LostIn(rows, rule, Stored(r))
             /\ rule \in {"parent_process", "injection_target"} =>
                  /\ LostIn(rows, rule, Stored(r)) <=> LostIn(rows, rule, r)
                  /\ Referred(rule, Stored(r)) = Referred(rule, r)
  <2>1. /\ Alike(Stored(r), r)
        /\ Stored(r).owningRef = Blank /\ Stored(r).owningAt = Blank
        /\ Stored(r).act = r.act /\ Stored(r).owning = r.owning
        /\ Stored(r).parent = r.parent /\ Stored(r).parentRef = r.parentRef
        /\ Stored(r).injected = r.injected /\ Stored(r).injectRef = r.injectRef
    BY StoredKeeps
  <2>2. rule \in {"owning_process", "owning_process_memory"} => Referred(rule, Stored(r)) = Blank
    BY <2>1 DEF Referred
  <2>3. rule \in {"owning_process", "owning_process_memory"} => ~LostIn(rows, rule, Stored(r))
    BY <2>2 DEF LostIn
  <2>4. ASSUME rule \in {"parent_process", "injection_target"}
        PROVE  /\ InScope(rule, Stored(r)) <=> InScope(rule, r)
               /\ UnlessLinked(rule, Stored(r)) = UnlessLinked(rule, r)
               /\ Referred(rule, Stored(r)) = Referred(rule, r)
               /\ ObservedEnd(rule, Stored(r))[2] = ObservedEnd(rule, r)[2]
    BY <2>1, <2>4 DEF InScope, UnlessLinked, Referred, ObservedEnd, Alike
  <2>. QED  BY <2>1, <2>3, <2>4 DEF LostIn, Alike
<1>3. rule \in {"owning_process", "owning_process_memory"} \/ rule \in {"parent_process", "injection_target"}
  BY DEF RuleNames
<1>. QED  BY <1>1, <1>2, <1>3 DEF Misses

-----------------------------------------------------------------------------
(* A pass is a function of its events.                                     *)

\* What a pass works with, between one step and the next.
Here == [ pc |-> pc, k |-> k, n |-> n, edges |-> edges, nodes |-> nodes,
          content |-> content, refs |-> refs, latest |-> latest ]
Start == [ pc |-> "links", k |-> 1, n |-> 1, edges |-> {}, nodes |-> NoNodes,
           content |-> NoEntities, refs |-> {}, latest |-> [ g \in Guids |-> Blank ] ]

PcNext(rows, rules, phase, w) == IF w.n < Len(rows) \/ w.k < Len(rules) THEN w.pc ELSE phase
KNext(rows, rules, w) ==
  IF w.n < Len(rows) THEN w.k ELSE IF w.k < Len(rules) THEN w.k + 1 ELSE 1
NNext(rows, w) == IF w.n < Len(rows) THEN w.n + 1 ELSE 1

LinkStepOf(rows, w) ==
  [ pc |-> PcNext(rows, LinkSteps, "reconstruct", w),
    k |-> KNext(rows, LinkSteps, w), n |-> NNext(rows, w),
    edges |-> w.edges \cup { e \in MadeIn(rows, w.k, w.n) : ~\E o \in w.edges : SamePair(e, o) },
    nodes |-> w.nodes, content |-> w.content, refs |-> w.refs, latest |-> w.latest ]

NodesNext(rows, rule, r, made) ==
  IF ~LostIn(rows, rule, r) THEN made
  ELSE [ made EXCEPT ![<< r.host, Referred(rule, r) >>] =
           Corroborated(made[<< r.host, Referred(rule, r) >>], rule, r) ]
LatestNext(rows, rule, r, made, last) ==
  IF ~LostIn(rows, rule, r) \/ made[<< r.host, Referred(rule, r) >>].by # {} THEN last
  ELSE [ last EXCEPT ![Referred(rule, r)] = r.host ]
EdgesNext(rows, rule, r, drawn) ==
  IF LostIn(rows, rule, r) THEN drawn \cup { InferredEdge(rule, r) } ELSE drawn
ReconstructStepOf(rows, w) ==
  [ pc |-> PcNext(rows, Rules, "content", w),
    k |-> KNext(rows, Rules, w), n |-> NNext(rows, w),
    edges |-> EdgesNext(rows, Rules[w.k], rows[w.n], w.edges),
    nodes |-> NodesNext(rows, Rules[w.k], rows[w.n], w.nodes),
    content |-> w.content, refs |-> w.refs,
    latest |-> LatestNext(rows, Rules[w.k], rows[w.n], w.nodes, w.latest) ]

ContentNext(ident, r, counted) ==
  [ id \in ContentIds |->
      IF Roles(ident, id, r) = {} THEN counted[id]
      ELSE [ count |-> counted[id].count + Cardinality(Roles(ident, id, r)),
             context |-> WithContext(counted[id].context, r.path) ] ]
ReferStepOf(rows, w) ==
  [ pc |-> PcNext(rows, Identities, "store", w),
    k |-> KNext(rows, Identities, w), n |-> NNext(rows, w),
    edges |-> w.edges, nodes |-> w.nodes,
    content |-> ContentNext(Identities[w.k], rows[w.n], w.content),
    refs |-> w.refs \cup RefsOf(Identities[w.k], rows[w.n]), latest |-> w.latest ]

StepOf(rows, w) ==
  IF w.pc = "links" THEN LinkStepOf(rows, w)
  ELSE IF w.pc = "reconstruct" THEN ReconstructStepOf(rows, w)
  ELSE IF w.pc = "content" THEN ReferStepOf(rows, w)
  ELSE w

TablesOf(rows, w) ==
  [ declared |-> Declared(rows), edges |-> w.edges,
    nodes |-> [ g \in Guids |->
                  IF w.latest[g] = Blank THEN NoNodeRows[g]
                  ELSE [ host |-> w.latest[g], node |-> w.nodes[<< w.latest[g], g >>] ] ],
    content |-> [ id \in ContentIds |->
                    IF w.content[id].count = 0 THEN NoEntities[id] ELSE w.content[id] ],
    refs |-> w.refs ]

\* The first t steps of a pass over rows lead to w.
Course(rows, t, f, w) ==
  f[0] = Start /\ f[t] = w /\ \A q \in Nat : q < t => f[q + 1] = StepOf(rows, f[q])
Reached(rows, w) == \E t \in Nat : \E f : Course(rows, t, f, w)
Outcome(source, rows, tables) ==
  \E w : Reached(rows, w) /\ w.pc = "store" /\ tables = TablesOf(source, w)

\* What load_events reads.
StoreRows(source, rows) ==
  /\ rows \in Seq(Row) /\ Len(rows) = Len(source)
  /\ \A j \in DOMAIN source :
       rows[Rank1(ReadOrder(source), DOMAIN source, j)] = Stored(source[j])

Determined ==
  /\ Running => Reached(events, Here)
  /\ pc = "done" => Outcome(car, events, db)
  /\ passes > 2 => \E rows : StoreRows(car, rows) /\ Outcome(car, rows, before)

LEMMA ReachedStart ==
  ASSUME NEW rows
  PROVE  Reached(rows, Start)
<1>1. Course(rows, 0, [ q \in {0} |-> Start ], Start)
  BY DEF Course
<1>. QED  BY <1>1 DEF Reached

LEMMA ReachedOn ==
  ASSUME NEW rows, NEW w, Reached(rows, w)
  PROVE  Reached(rows, StepOf(rows, w))
<1>0. PICK t \in Nat : \E f : Course(rows, t, f, w)
  BY DEF Reached
<1>1. PICK f : Course(rows, t, f, w)
  BY <1>0
<1>. DEFINE g == [ q \in 0 .. t + 1 |-> IF q <= t THEN f[q] ELSE StepOf(rows, w) ]
<1>2. g[0] = f[0] /\ g[t + 1] = StepOf(rows, w) /\ t + 1 \in Nat
  OBVIOUS
<1>3. \A q \in Nat : q <= t => g[q] = f[q]
  OBVIOUS
<1>. HIDE DEF g
<1>4. \A q \in Nat : q < t + 1 => g[q + 1] = StepOf(rows, g[q])
  <2>. SUFFICES ASSUME NEW q \in Nat, q < t + 1 PROVE g[q + 1] = StepOf(rows, g[q])
    OBVIOUS
  <2>1. CASE q < t
    <3>1. q + 1 \in Nat /\ q + 1 <= t /\ q <= t
      BY <2>1
    <3>2. g[q + 1] = f[q + 1] /\ g[q] = f[q]
      BY <1>3, <3>1
    <3>. QED  BY <1>1, <2>1, <3>2 DEF Course
  <2>2. CASE q = t
    BY <1>1, <1>2, <1>3, <2>2 DEF Course
  <2>. QED  BY <2>1, <2>2
<1>5. Course(rows, t + 1, g, StepOf(rows, w))
  BY <1>1, <1>2, <1>4 DEF Course
<1>. QED  BY <1>2, <1>5 DEF Reached

\* Two courses over the same rows that are at their end are at the same one.
LEMMA CourseEnds ==
  ASSUME NEW rows, NEW t \in Nat, NEW f, NEW w, Course(rows, t, f, w), w.pc = "store",
         NEW u \in Nat, NEW g, NEW v, Course(rows, u, g, v), v.pc = "store", t <= u
  PROVE  w = v
<1>. DEFINE S == { q \in Nat : q <= u => IF q <= t THEN g[q] = f[q] ELSE g[q] = w }
<1>1. 0 \in S
  BY DEF Course
<1>2. ASSUME NEW q \in S PROVE q + 1 \in S
  <2>1. CASE q + 1 <= t /\ q + 1 <= u
    <3>1. q \in Nat /\ q < t /\ q < u /\ q <= t /\ q <= u
      BY <2>1
    <3>2. g[q] = f[q]
      BY <3>1
    <3>3. g[q + 1] = StepOf(rows, g[q]) /\ f[q + 1] = StepOf(rows, f[q])
      BY <3>1 DEF Course
    <3>. QED  BY <2>1, <3>2, <3>3
  <2>2. CASE ~(q + 1 <= t) /\ q + 1 <= u
    <3>1. q \in Nat /\ q < u /\ q <= u
      BY <2>2
    <3>2. g[q] = w
      <4>1. CASE q = t
        BY <3>1, <4>1 DEF Course
      <4>2. CASE q # t
        BY <2>2, <3>1, <4>2
      <4>. QED  BY <4>1, <4>2
    <3>3. g[q + 1] = StepOf(rows, w)
      BY <3>1, <3>2 DEF Course
    <3>4. StepOf(rows, w) = w
      BY DEF StepOf
    <3>. QED  BY <2>2, <3>1, <3>3, <3>4
  <2>. QED  BY <2>1, <2>2
<1>3. S \in SUBSET Nat
  OBVIOUS
<1>. HIDE DEF S
<1>4. S = Nat
  BY <1>1, <1>2, <1>3, NaturalsByInduction
<1>5. u \in S
  BY <1>4
<1>6. IF u <= t THEN g[u] = f[u] ELSE g[u] = w
  BY <1>5 DEF S
<1>7. u <= t => u = t
  OBVIOUS
<1>. QED  BY <1>6, <1>7 DEF Course

LEMMA OutcomeOne ==
  ASSUME NEW source, NEW rows, NEW a, NEW b, Outcome(source, rows, a), Outcome(source, rows, b)
  PROVE  a = b
<1>1. PICK w : Reached(rows, w) /\ w.pc = "store" /\ a = TablesOf(source, w)
  BY DEF Outcome
<1>2. PICK v : Reached(rows, v) /\ v.pc = "store" /\ b = TablesOf(source, v)
  BY DEF Outcome
<1>3. PICK t \in Nat : \E f : Course(rows, t, f, w)
  BY <1>1 DEF Reached
<1>4. PICK u \in Nat : \E g : Course(rows, u, g, v)
  BY <1>2 DEF Reached
<1>5. PICK f : Course(rows, t, f, w)
  BY <1>3
<1>6. PICK g : Course(rows, u, g, v)
  BY <1>4
<1>7. CASE t <= u
  BY <1>1, <1>2, <1>5, <1>6, <1>7, CourseEnds
<1>8. CASE u <= t
  BY <1>1, <1>2, <1>5, <1>6, <1>8, CourseEnds
<1>. QED  BY <1>7, <1>8

LEMMA StoreRowsOne ==
  ASSUME car \in Inputs, NEW a, NEW b, StoreRows(car, a), StoreRows(car, b)
  PROVE  a = b
<1>1. /\ a \in Seq(Row) /\ b \in Seq(Row) /\ Len(a) = Len(car) /\ Len(b) = Len(car)
      /\ DOMAIN car = 1 .. Len(car) /\ Len(car) \in Nat
  BY CarDomain DEF StoreRows
<1>2. \A j \in DOMAIN car : a[Place(j)] = Stored(car[j]) /\ b[Place(j)] = Stored(car[j])
  BY DEF StoreRows, Place
<1>3. \A i \in DOMAIN car : \E j \in DOMAIN car : Place(j) = i
  BY PlacesAre
<1>4. \A i \in 1 .. Len(car) : a[i] = b[i]
  BY <1>1, <1>2, <1>3
<1>5. IsList(a) /\ IsList(b)
  BY <1>1, ListOf
<1>. QED  BY <1>1, <1>4, <1>5, ListEqual

\* What the cursors do, as a function.
LEMMA CursorsNext ==
  ASSUME NEW rows, NEW rules, NEW phase, Advance(rows, rules, phase),
         Len(rows) \in Nat \ {0}, Len(rules) \in Nat \ {0}, n \in Nat, k \in Nat
  PROVE  /\ pc' = PcNext(rows, rules, phase, Here) /\ k' = KNext(rows, rules, Here)
         /\ n' = NNext(rows, Here)
<1>1. Here.pc = pc /\ Here.k = k /\ Here.n = n
  BY DEF Here
<1>2. CASE n < Len(rows) /\ n' = n + 1 /\ UNCHANGED << k, pc >>
  BY <1>1, <1>2 DEF PcNext, KNext, NNext
<1>3. CASE n >= Len(rows) /\ k < Len(rules) /\ n' = 1 /\ k' = k + 1 /\ UNCHANGED pc
  BY <1>1, <1>3 DEF PcNext, KNext, NNext
<1>4. CASE n >= Len(rows) /\ k >= Len(rules) /\ n' = 1 /\ k' = 1 /\ pc' = phase
  BY <1>1, <1>4 DEF PcNext, KNext, NNext
<1>. QED  BY <1>2, <1>3, <1>4 DEF Advance

LEMMA StepsAre ==
  ASSUME DInv, LinkSource \/ Reconstruct \/ Refer
  PROVE  Here' = StepOf(events, Here)
<1>. DEFINE w == Here
<1>1. /\ w.pc = pc /\ w.k = k /\ w.n = n /\ w.edges = edges /\ w.nodes = nodes
      /\ w.content = content /\ w.refs = refs /\ w.latest = latest
  BY DEF Here
<1>2. Here' = [ pc |-> pc', k |-> k', n |-> n', edges |-> edges', nodes |-> nodes',
                content |-> content', refs |-> refs', latest |-> latest' ]
  BY DEF Here
<1>3. /\ Len(events) \in Nat \ {0} /\ k \in Nat /\ n \in Nat
      /\ Len(LinkSteps) \in Nat \ {0} /\ Len(Rules) \in Nat \ {0} /\ Len(Identities) \in Nat \ {0}
  <2>1. pc # "load"
    BY DEF LinkSource, Reconstruct, Refer
  <2>. QED  BY <2>1, EventsThere, LinkStepsType, RulesType DEF DInv, Cursors
<1>. HIDE DEF w
<1>4. CASE LinkSource
  <2>1. /\ pc = "links" /\ Advance(events, LinkSteps, "reconstruct")
        /\ UNCHANGED << nodes, content, refs, latest >>
        /\ edges' = edges \cup { e \in MadeIn(events, k, n) : ~Seen(e) }
    BY <1>4, LinkedSame DEF LinkSource, MadeIn
  <2>2. /\ pc' = PcNext(events, LinkSteps, "reconstruct", w) /\ k' = KNext(events, LinkSteps, w)
        /\ n' = NNext(events, w)
    BY <1>3, <2>1, CursorsNext DEF w
  <2>3. edges' = w.edges \cup { e \in MadeIn(events, w.k, w.n) : ~\E o \in w.edges : SamePair(e, o) }
    BY <1>1, <2>1 DEF Seen, SamePair
  <2>4. StepOf(events, w) = LinkStepOf(events, w)
    BY <1>1, <2>1 DEF StepOf
  <2>. QED  BY <1>1, <1>2, <2>1, <2>2, <2>3, <2>4 DEF LinkStepOf, w
<1>5. CASE Reconstruct
  <2>0. PICK rule, r : rule = Rules[k] /\ r = events[n]
    OBVIOUS
  <2>1. /\ pc = "reconstruct" /\ Advance(events, Rules, "content") /\ UNCHANGED << content, refs >>
        /\ IF IsLost(rule, r)
           THEN LET lost == << r.host, Referred(rule, r) >> IN
                /\ nodes' = [ nodes EXCEPT ![lost] = Corroborated(nodes[lost], rule, r) ]
                /\ latest' = IF nodes[lost].by # {} THEN latest
                             ELSE [ latest EXCEPT ![Referred(rule, r)] = r.host ]
                /\ edges' = edges \cup { InferredEdge(rule, r) }
           ELSE UNCHANGED << nodes, latest, edges >>
    BY <1>5, <2>0 DEF Reconstruct
  <2>2. /\ pc' = PcNext(events, Rules, "content", w) /\ k' = KNext(events, Rules, w)
        /\ n' = NNext(events, w)
    BY <1>3, <2>1, CursorsNext DEF w
  <2>3. IsLost(rule, r) <=> LostIn(events, rule, r)
    BY DEF IsLost, IsObserved, LostIn
  <2>4. /\ nodes' = NodesNext(events, rule, r, nodes) /\ edges' = EdgesNext(events, rule, r, edges)
        /\ latest' = LatestNext(events, rule, r, nodes, latest)
    <3>1. CASE IsLost(rule, r)
      BY <2>1, <2>3, <3>1 DEF NodesNext, EdgesNext, LatestNext
    <3>2. CASE ~IsLost(rule, r)
      BY <2>1, <2>3, <3>2 DEF NodesNext, EdgesNext, LatestNext
    <3>. QED  BY <3>1, <3>2
  <2>5. StepOf(events, w) = ReconstructStepOf(events, w)
    BY <1>1, <2>1 DEF StepOf
  <2>6. rule = Rules[w.k] /\ r = events[w.n]
    BY <1>1, <2>0
  <2>. QED  BY <1>1, <1>2, <2>1, <2>2, <2>4, <2>5, <2>6 DEF ReconstructStepOf, w
<1>6. CASE Refer
  <2>0. PICK ident, r : ident = Identities[k] /\ r = events[n]
    OBVIOUS
  <2>1. /\ pc = "content" /\ Advance(events, Identities, "store") /\ UNCHANGED << edges, nodes, latest >>
        /\ content' = ContentNext(ident, r, content) /\ refs' = refs \cup RefsOf(ident, r)
    BY <1>6, <2>0 DEF Refer, ContentNext, RefsOf
  <2>2. /\ pc' = PcNext(events, Identities, "store", w) /\ k' = KNext(events, Identities, w)
        /\ n' = NNext(events, w)
    BY <1>3, <2>1, CursorsNext DEF w
  <2>3. StepOf(events, w) = ReferStepOf(events, w)
    BY <1>1, <2>1 DEF StepOf
  <2>4. ident = Identities[w.k] /\ r = events[w.n]
    BY <1>1, <2>0
  <2>. QED  BY <1>1, <1>2, <2>1, <2>2, <2>3, <2>4 DEF ReferStepOf, w
<1>. QED  BY <1>4, <1>5, <1>6

LEMMA EventsFromStore ==
  ASSUME DInv, Filed, passes > 1, pc # "load"
  PROVE  StoreRows(car, events)
<1>1. passes # 1 /\ events \in Seq(Row)
  BY DEF DInv, TypeOK
<1>2. Len(events) = Len(car) /\ \A j \in DOMAIN car : events[Home(j)] = Shown(j)
  BY DEF Filed
<1>3. \A j : Home(j) = Place(j) /\ Shown(j) = Stored(car[j])
  BY <1>1 DEF Home, Shown
<1>. QED  BY <1>1, <1>2, <1>3 DEF StoreRows, Place

LEMMA DeterminedNext == Known /\ Determined /\ [Next]_vars => Determined'
<1>. SUFFICES ASSUME Known, Determined, [Next]_vars PROVE Determined'
  OBVIOUS
<1>1. CASE ClearDerived
  <2>1. /\ pc = "clear" /\ pc' = "links" /\ UNCHANGED << car, before, passes, events, k, n >>
        /\ edges' = {} /\ nodes' = NoNodes /\ content' = NoEntities /\ refs' = {}
        /\ latest' = [ g \in Guids |-> Blank ]
    BY <1>1 DEF ClearDerived, Stay
  <2>2. k = 1 /\ n = 1
    BY <2>1 DEF Known, DInv, Cursors
  <2>3. Here' = Start
    BY <2>1, <2>2 DEF Here, Start
  <2>4. Reached(events', Here')
    BY <2>3, ReachedStart
  <2>. QED  BY <2>1, <2>4 DEF Determined
<1>2. CASE LinkSource \/ Reconstruct \/ Refer
  <2>1. Running /\ Running' /\ pc' # "done" /\ UNCHANGED << car, before, passes, events >>
    BY <1>2 DEF LinkSource, Reconstruct, Refer, Advance, Running, Stay
  <2>2. Here' = StepOf(events, Here)
    BY <1>2, StepsAre DEF Known
  <2>3. Reached(events, Here)
    BY <2>1 DEF Determined
  <2>4. Reached(events, StepOf(events, Here))
    BY <2>3, ReachedOn
  <2>5. Reached(events', Here')
    BY <2>1, <2>2, <2>4
  <2>. QED  BY <2>1, <2>5 DEF Determined
<1>3. CASE StoreLayer
  <2> DEFINE w == Here
  <2>1. pc = "store" /\ pc' = "done" /\ UNCHANGED << car, before, passes, events >> /\ Running
    BY <1>3 DEF StoreLayer, Stay, Running
  <2>2. Reached(events, w) /\ w.pc = "store"
    BY <2>1 DEF Determined, Here
  <2>3. /\ w.edges = edges /\ w.nodes = nodes /\ w.content = content /\ w.refs = refs
        /\ w.latest = latest
    BY DEF Here
  <2>4. db = [ declared |-> Declared(car), edges |-> {}, nodes |-> NoNodeRows,
               content |-> NoEntities, refs |-> {} ]
    <3>1. /\ db.declared = Declared(car) /\ db.edges = {} /\ db.nodes = NoNodeRows
          /\ db.content = NoEntities /\ db.refs = {}
      BY <2>1 DEF Known, Cleared
    <3>2. db \in Tables
      BY DEF Known, DInv, TypeOK
    <3>. QED  BY <3>1, <3>2 DEF Tables
  <2>. HIDE DEF w
  <2>5. db' = TablesOf(car, w)
    BY <1>3, <2>3, <2>4 DEF StoreLayer, TablesOf
  <2>6. Outcome(car, events, db')
    BY <2>2, <2>5 DEF Outcome
  <2>. QED  BY <2>1, <2>6 DEF Determined, Running
<1>4. CASE Rederive
  <2>1. pc = "done" /\ pc' = "load" /\ passes' = passes + 1 /\ before' = db /\ UNCHANGED car
    BY <1>4 DEF Rederive
  <2>2. ASSUME passes' > 2 PROVE StoreRows(car, events) /\ Outcome(car, events, db)
    <3>1. passes > 1
      BY <2>1, <2>2 DEF Known, DInv, TypeOK
    <3>. QED  BY <2>1, <3>1, EventsFromStore DEF Known, Determined
  <2>. QED  BY <2>1, <2>2 DEF Determined, Running
<1>5. CASE LoadRow
  <2>1. pc' \in {"load", "clear"} /\ UNCHANGED << car, before, passes >>
    BY <1>5 DEF LoadRow, Advance, Stay
  <2>. QED  BY <2>1 DEF Determined, Running
<1>6. CASE UNCHANGED vars
  <2>1. Here' = Here
    BY <1>6 DEF vars, Here
  <2>. QED  BY <1>6, <2>1 DEF vars, Determined, Running
<1>. QED  BY <1>1, <1>2, <1>3, <1>4, <1>5, <1>6 DEF Next

\* Idempotency: the pass over the store finds the links, contents and references
\* again that the pass over memory found, infers nothing new, loses a node only
\* if nothing but an owner's transient guid or offset spoke for it; and another
\* pass over the store changes nothing.
THEOREM KeepsTheStored == Spec => []RederiveKeepsTheStored
<1>1. Known /\ History /\ Determined => RederiveKeepsTheStored
  <2>. SUFFICES ASSUME Known, History, Determined, Done PROVE RederiveKeepsTheStored
    BY DEF RederiveKeepsTheStored
  <2>1. /\ pc = "done" /\ pc # "load" /\ passes \in Nat \ {0} /\ car \in Inputs /\ car \in Seq(Row)
    BY CarDomain DEF Done, Known, DInv, TypeOK
  <2>2. Settled(car, db, passes = 1)
    BY <2>1, PassSettles
  <2>3. ASSUME passes > 1
        PROVE  /\ BothObserved(db.edges) = BothObserved(before.edges)
               /\ db.refs = before.refs
               /\ \A id \in ContentIds : db.content[id].count = before.content[id].count
               /\ \A g \in Guids :
                    /\ db.nodes[g].host # Blank => before.nodes[g].host # Blank
                    /\ before.nodes[g].node.rules \cap {"parent_process", "injection_target"} # {}
                         => db.nodes[g].host # Blank
    <3>1. Settled(car, db, FALSE)
      <4>1. (passes = 1) = FALSE
        BY <2>1, <2>3
      <4>. QED  BY <2>2, <4>1
    <3>2. PICK first \in BOOLEAN : Settled(car, before, first)
      <4>1. Settled(car, before, passes = 2)
        BY <2>1, <2>3 DEF History
      <4>2. (passes = 2) \in BOOLEAN
        OBVIOUS
      <4>. QED  BY <4>1, <4>2
    <3>3. /\ BothObserved(db.edges) = BothObserved(before.edges)
          /\ db.refs = before.refs
          /\ \A id \in ContentIds : db.content[id].count = before.content[id].count
      BY <3>1, <3>2 DEF Settled
    <3>4. \A rule \in RuleNames : \A g :
            /\ Misses(car, FALSE, rule, g) => Misses(car, first, rule, g)
            /\ rule \in {"parent_process", "injection_target"} /\ Misses(car, first, rule, g)
                 => Misses(car, FALSE, rule, g)
      <4>1. first = TRUE \/ first = FALSE
        OBVIOUS
      <4>. QED  BY <2>1, <4>1, StoredMisses
    <3>5. ASSUME NEW g \in Guids, db.nodes[g].host # Blank
          PROVE  before.nodes[g].host # Blank
      BY <3>1, <3>2, <3>4, <3>5 DEF Settled
    <3>6. ASSUME NEW g \in Guids, NEW rule \in before.nodes[g].node.rules,
                 rule \in {"parent_process", "injection_target"}
          PROVE  db.nodes[g].host # Blank
      BY <3>1, <3>2, <3>4, <3>6 DEF Settled
    <3>. QED  BY <3>3, <3>5, <3>6
  <2>4. ASSUME passes > 2 PROVE db = before
    <3>1. PICK rows : StoreRows(car, rows) /\ Outcome(car, rows, before)
      BY <2>4 DEF Determined
    <3>2. StoreRows(car, events) /\ Outcome(car, events, db)
      <4>1. passes > 1
        BY <2>1, <2>4
      <4>. QED  BY <2>1, <4>1, EventsFromStore DEF Known, Determined
    <3>3. rows = events
      BY <2>1, <3>1, <3>2, StoreRowsOne
    <3>. QED  BY <3>1, <3>2, <3>3, OutcomeOne
  <2>. QED  BY <2>3, <2>4 DEF RederiveKeepsTheStored, BothObserved
<1>2. Init => Determined
  BY DeriveAssumption DEF Init, Determined, Running
<1>. QED  BY <1>1, <1>2, KnownAlways, DeterminedNext, PTL DEF Spec

=============================================================================
