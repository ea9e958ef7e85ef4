------------------------------- MODULE Derive -------------------------------
(***************************************************************************)
(* derive.py: the derived relationships of one source, over the events in  *)
(* memory (the stage --derive of a batch) and then again over the finished *)
(* store (python -m byakugan.derive), with the tables of superset.db that  *)
(* they end up in, and superset.edges_from_events for the declared edges   *)
(* they stand beside.                                                      *)
(*                                                                         *)
(* The pass walks its rules, and for each rule the events, once; the two   *)
(* cursors are k and n.  What it collects is committed at the end; the     *)
(* commits one by one, and what an interruption leaves, are in CarBatch.   *)
(*                                                                         *)
(* Data abstraction.  A relationship is named for the entry of             *)
(* cascade_relationships.yml or relationships.yml that gives its verb.     *)
(* Timestamps are left out, so edges that differ in nothing else are one.  *)
(* A path is lower case; `path` is image_path of a process and file_path   *)
(* of a file, and stands for all the context a content entity collects;    *)
(* `said` stands for all a record says of a process it names.              *)
(***************************************************************************)
EXTENDS Naturals, Sequences, FiniteSets

CONSTANTS
  Hosts, Guids, Paths, Sayings,
  Offsets,       \* owning_offset: where an _EPROCESS lies in a memory image
  Mint,          \* [Offsets -> guid]: guid_form, or Blank if it is no number
  Contents,      \* hash values and SIDs as they were parsed
  Norm,          \* [Contents -> Contents]: one case for all
  Accepted,      \* [identity -> values]: what `accept` lets through
  HashFields,    \* sequence: identities.hash.fields, the strongest first
  AccountFields, \* sequence: identities.sid.fields
  PropCap,       \* bound of the code: context values a content node keeps
  ObjectOrder,   \* sequence: the model's objects, as load_events reads them
  Blank,         \* None and ""
  Inputs,        \* sequences of enriched rows
  MaxPasses      \* bound: runs of the pass, the first one over memory

RangeOf(s) == { s[i] : i \in DOMAIN s }
Objects == RangeOf(ObjectOrder)
ContentFields == RangeOf(HashFields) \cup RangeOf(AccountFields)
Link(S) == S \cup {Blank}

Row ==
  [ host : Hosts, obj : Objects,
    act  : {"create", "access", "other"},
    guid : Link(Guids),
    path : Link(Paths),
    content : [ContentFields -> Link(Contents)],
    fuids   : SUBSET Guids,        \* native.resp_fuids
    owning  : Link(Guids),         \* owning_guid, as the cascade resolved it
    owningRef : Link(Guids),       \* owning_guid_native
    owningAt  : Link(Offsets),     \* owning_offset
    parent    : Link(Guids),       \* parent_guid, as the cascade resolved it
    parentRef : Link(Guids),       \* native.ParentProcessGuid
    injected  : Link(Guids),       \* native.target_process_guid, as resolved
    injectRef : Link(Guids),       \* native.TargetProcessGuid
    accessed  : Link(Guids),       \* target_guid of a process access
    executedAs : Link(Guids),      \* native.executed_as_process_guid
    sessions  : SUBSET Guids,      \* native.target_/subject_session_guid
    said : Link(Sayings) ]         \* of the process it names

\* What some record of the source carries: the `observed` set of derive().
Observed(rows) == { << r.host, r.obj, r.guid >> : r \in { q \in RangeOf(rows) : q.guid # Blank } }

\* The cascade names only processes it has a record of; sensors name an owner
\* by guid, memory images by offset.
Enriched(rows) ==
  \A r \in RangeOf(rows) :
    /\ r.injectRef # Blank /\ r.owning # Blank => << r.host, "process", r.owning >> \in Observed(rows)
    /\ r.owningRef = Blank \/ r.owningAt = Blank

ASSUME DeriveAssumption ==
  /\ Blank \notin Hosts /\ Blank \notin Guids /\ Blank \notin Contents /\ Blank \notin Paths
  /\ Blank \notin Sayings /\ Blank \notin Offsets
  /\ Mint \in [Offsets -> Link(Guids)]
  /\ Norm \in [Contents -> Contents]
  /\ Accepted \in [{"hash", "sid"} -> SUBSET Contents]
  /\ HashFields \in Seq(ContentFields) /\ AccountFields \in Seq(ContentFields)
  /\ "sid" \notin RangeOf(HashFields)       \* content_entities: a node is named sid or for its hash
  /\ ObjectOrder \in Seq(Objects) /\ "process" \in Objects
  /\ \A i, j \in DOMAIN ObjectOrder : ObjectOrder[i] = ObjectOrder[j] => i = j
  /\ PropCap \in Nat /\ MaxPasses \in Nat \ {0}
  /\ \A rows \in Inputs : rows \in Seq(Row) /\ rows # << >> /\ Enriched(rows)

VARIABLES
  car,      \* the source's events, in the order they were inserted in car.db
  events,   \* the events of the running pass
  pc,       \* its phase, or what the directory awaits
  k, n,     \* its cursors: the rule, the event
  edges, nodes, content, refs,   \* what it has collected
  latest,   \* [Guids -> host]: of the nodes with one guid, whose was made last
  db,       \* the tables of superset.db
  before,   \* the tables as the pass before left them
  passes    \* passes begun

vars == << car, events, pc, k, n, edges, nodes, content, refs, latest, db, before,
           passes >>
Collected == << edges, nodes, content, refs, latest >>

-----------------------------------------------------------------------------
(* Edges, inferred nodes, content nodes and references.                    *)

Relations == { "spoke_owner", "parent_process", "process_access", "file_executed",
               "thread_injection", "auth_session",                   \* cascade_relationships.yml
               "process_image_content", "http_file_transfer" }       \* relationships.yml, links
Keys == RangeOf(HashFields) \cup { "", "native.resp_fuids", "guid", "offset" }
EndObjects == Objects \cup { "process", "file", "user_session" }

EdgeSet ==
  [ rel : Relations, host : Hosts, srcObj : EndObjects, src : Guids, tgtObj : EndObjects,
    tgt : Link(Guids), key : Keys, inferred : {"none", "source", "target"},
    by : SUBSET Guids ]

RuleNames == {"owning_process", "owning_process_memory", "parent_process", "injection_target"}
Node == [ by : SUBSET Guids, rules : SUBSET RuleNames, said : Link(Sayings),
          others : SUBSET Sayings ]
NoNode == [ by |-> {}, rules |-> {}, said |-> Blank, others |-> {} ]
NoNodes == [ x \in Hosts \X Guids |-> NoNode ]

\* The table's key is the guid alone; a row of it names the node's host.
NodeRow == [ host : Link(Hosts), node : Node ]
NoNodeRows == [ g \in Guids |-> [ host |-> Blank, node |-> NoNode ] ]

ContentIds == (RangeOf(HashFields) \cup {"sid"}) \X Contents
Entity == [ count : Nat, context : SUBSET Paths ]
NoEntities == [ id \in ContentIds |-> [ count |-> 0, context |-> {} ] ]
Ref == [ host : Hosts, obj : Objects, guid : Guids, node : ContentIds, key : ContentFields ]

Tables == [ declared : SUBSET EdgeSet, edges : SUBSET EdgeSet,
            nodes : [Guids -> NodeRow], content : [ContentIds -> Entity],
            refs : SUBSET Ref ]

Phases == { "load", "clear", "links", "reconstruct", "content", "store", "done" }

TypeOK ==
  /\ car \in Seq(Row) /\ events \in Seq(Row)
  /\ pc \in Phases /\ k \in Nat /\ n \in Nat
  /\ edges \in SUBSET EdgeSet /\ nodes \in [Hosts \X Guids -> Node]
  /\ content \in [ContentIds -> Entity] /\ refs \in SUBSET Ref
  /\ latest \in [Guids -> Link(Hosts)]
  /\ db \in Tables /\ before \in Tables
  /\ passes \in 1 .. MaxPasses

-----------------------------------------------------------------------------
(* superset.edges_from_events: the declared edges.                         *)

Edge(rel, r, srcObj, src, tgtObj, tgt) ==
  [ rel |-> rel, host |-> r.host, srcObj |-> srcObj, src |-> src, tgtObj |-> tgtObj,
    tgt |-> tgt, key |-> "", inferred |-> "none", by |-> {} ]

\* An edge for each link the cascade may have left in a row ...
Resolved(r) ==
  LET spoke  == IF r.obj = "process" THEN {}
                ELSE { Edge("spoke_owner", r, "process", r.owning, r.obj, r.guid) }
      child  == IF r.obj # "process" \/ r.act # "create" THEN {}
                ELSE { Edge("parent_process", r, "process", r.parent, "process", r.guid) }
      access == IF r.obj # "process" \/ r.act # "access" THEN {}
                ELSE { Edge("process_access", r, "process", r.owning, "process", r.accessed) }
      ran    == { Edge("file_executed", r, "process", r.executedAs, "file", r.guid) }
      thread == { Edge("thread_injection", r, "process", r.owning, "process", r.injected) }
      logon  == { Edge("auth_session", r, r.obj, r.guid, "user_session", s) : s \in r.sessions }
  IN  spoke \cup child \cup access \cup ran \cup thread \cup logon

DeclaredWithLoops(r) ==            \* mutant: an edge may return to its record
  { e \in Resolved(r) : e.src # Blank /\ e.tgt # Blank }

\* ... if the link is there and leads elsewhere.
DeclaredOf(r) ==
  { e \in Resolved(r) : /\ e.src \notin {Blank, e.tgt}
                        /\ e.tgt = Blank => e.rel = "parent_process" }

Declared(rows) == UNION { DeclaredOf(r) : r \in RangeOf(rows) }

Init ==
  /\ car \in Inputs /\ events = car
  /\ pc = "clear" /\ k = 1 /\ n = 1 /\ passes = 1
  /\ edges = {} /\ nodes = NoNodes /\ content = NoEntities /\ refs = {}
  /\ latest = [ g \in Guids |-> Blank ]
  /\ db = [ declared |-> Declared(car), edges |-> {}, nodes |-> NoNodeRows,
            content |-> NoEntities, refs |-> {} ]
  /\ before = db

\* One event further under one rule; then the next rule, from the first event;
\* then the next phase.
Advance(rows, rules, phase) ==
  \/ n < Len(rows) /\ n' = n + 1 /\ UNCHANGED << k, pc >>
  \/ n >= Len(rows) /\ k < Len(rules) /\ n' = 1 /\ k' = k + 1 /\ UNCHANGED pc
  \/ n >= Len(rows) /\ k >= Len(rules) /\ n' = 1 /\ k' = 1 /\ pc' = phase

Stay == UNCHANGED << car, before, passes >>

\* clear_derived: the declared edges stay.
ClearDerived ==
  /\ pc = "clear" /\ pc' = "links"
  /\ db' = [ db EXCEPT !.edges = {}, !.nodes = NoNodeRows,
                       !.content = NoEntities, !.refs = {} ]
  /\ edges' = {} /\ nodes' = NoNodes /\ content' = NoEntities /\ refs' = {}
  /\ latest' = [ g \in Guids |-> Blank ]
  /\ Stay /\ UNCHANGED << events, k, n >>

-----------------------------------------------------------------------------
(* link_edges: both ends observed.                                         *)

\* The rules, each with the fields it joins on: a content identity joins on its
\* own fields, the strongest first.
LinkSteps ==
  [ i \in DOMAIN HashFields |-> << "process_image_content", HashFields[i] >> ]
    \o << << "http_file_transfer", "native.resp_fuids" >> >>

SourceObject == [ process_image_content |-> "process", http_file_transfer |-> "http" ]

HashOf(field, r) ==
  IF r.content[field] \in Accepted["hash"] THEN { Norm[r.content[field]] } ELSE {}
SourceKeys(step, r) == IF step[1] = "http_file_transfer" THEN r.fuids ELSE HashOf(step[2], r)
TargetKeys(step, r) == IF step[1] = "http_file_transfer" THEN {r.guid} ELSE HashOf(step[2], r)

Candidates(step, s, key) ==
  { t \in DOMAIN events :
      /\ events[t].obj = "file" /\ events[t].guid \notin {Blank, s.guid}
      /\ events[t].host = s.host /\ key \in TargetKeys(step, events[t]) }

DisambiguateAny(step, s, found) ==       \* mutant: every preferred candidate is linked
  { t \in found : \/ found = {t}
                  \/ step[1] = "process_image_content" /\ events[t].path = s.path }

\* _disambiguate: the only candidate, or the only one at the preferred path.
Disambiguate(step, s, found) ==
  LET there == { t \in found : events[t].path = s.path } IN
  { t \in found : \/ found = {t}
                  \/ step[1] = "process_image_content" /\ s.path # Blank /\ there = {t} }

Linked(step, s) ==
  IF s.obj # SourceObject[step[1]] \/ s.guid = Blank THEN {}
  ELSE UNION { Disambiguate(step, s, Candidates(step, s, key)) : key \in SourceKeys(step, s) }

LinkEdge(step, s, t) ==
  [ rel |-> step[1], host |-> s.host, srcObj |-> s.obj, src |-> s.guid,
    tgtObj |-> t.obj, tgt |-> t.guid, key |-> step[2], inferred |-> "none",
    by |-> {s.guid, t.guid} ]

Seen(e) == \E o \in edges : o.rel = e.rel /\ o.src = e.src /\ o.tgt = e.tgt

LinkSource ==
  /\ pc = "links" /\ Advance(events, LinkSteps, "reconstruct")
  /\ LET step == LinkSteps[k]
         made == { LinkEdge(step, events[n], events[t]) : t \in Linked(step, events[n]) }
     IN  edges' = edges \cup { e \in made : ~Seen(e) }
  /\ Stay /\ UNCHANGED << events, nodes, content, refs, latest, db >>

-----------------------------------------------------------------------------
(* reconstruct: the referenced end is absent.                              *)

Rules == << "owning_process", "owning_process_memory", "parent_process", "injection_target" >>

InScope(rule, r) ==
  CASE rule = "parent_process"   -> r.obj = "process" /\ r.act = "create"
    [] rule = "injection_target" -> r.obj = "thread"
    [] OTHER                     -> r.obj # "process"

\* The guid that the process a row refers to would carry (_as_guid).
Referred(rule, r) ==
  CASE rule = "owning_process"        -> r.owningRef
    [] rule = "owning_process_memory" -> IF r.owningAt = Blank THEN Blank ELSE Mint[r.owningAt]
    [] rule = "parent_process"        -> r.parentRef
    [] OTHER                          -> r.injectRef

UnlessLinkedParent(rule, r) ==           \* mutant: only a parent's link is looked at
  IF rule = "parent_process" THEN r.parent ELSE Blank

\* unless_linked: what the cascade resolved in the row.
UnlessLinked(rule, r) ==
  CASE rule = "parent_process"   -> r.parent
    [] rule = "injection_target" -> r.injected
    [] OTHER                     -> r.owning

ObservedEnd(rule, r) ==
  IF rule = "injection_target" THEN << "process", r.owning >> ELSE << r.obj, r.guid >>

IsObservedCreated(x) ==                  \* mutant: only a create counts
  \E r \in RangeOf(events) : r.obj = "process" /\ r.act = "create" /\ << r.host, r.guid >> = x
IsObserved(x) == << x[1], "process", x[2] >> \in Observed(events)

IsLostUnowned(rule, r) ==                \* mutant: the observed end may be blank
  /\ InScope(rule, r) /\ r.guid # Blank
  /\ UnlessLinked(rule, r) = Blank
  /\ Referred(rule, r) \notin {Blank, r.guid}
  /\ ~IsObserved(<< r.host, Referred(rule, r) >>)

IsLost(rule, r) ==
  /\ InScope(rule, r) /\ r.guid # Blank
  /\ UnlessLinked(rule, r) = Blank
  /\ Referred(rule, r) \notin {Blank, r.guid}
  /\ ~IsObserved(<< r.host, Referred(rule, r) >>)
  /\ ObservedEnd(rule, r)[2] # Blank

CorroboratedAnew(node, rule, r) ==       \* mutant: each rule makes the node again
  [ by |-> {ObservedEnd(rule, r)[2]}, rules |-> {rule}, said |-> r.said,
    others |-> {} ]

Corroborated(node, rule, r) ==
  [ by |-> node.by \cup {ObservedEnd(rule, r)[2]},
    rules |-> node.rules \cup {rule},
    said |-> IF node.said = Blank THEN r.said ELSE node.said,
    others |-> node.others \cup (IF node.said = Blank THEN {} ELSE {r.said} \ {Blank, node.said}) ]

InferredEdge(rule, r) ==
  LET seen == ObservedEnd(rule, r)
      rel == CASE rule = "parent_process"   -> "parent_process"
               [] rule = "injection_target" -> "thread_injection"
               [] OTHER                     -> "spoke_owner"
      edge == [ rel |-> rel, host |-> r.host, srcObj |-> "process", src |-> Referred(rule, r),
                tgtObj |-> seen[1], tgt |-> seen[2],
                key |-> IF rule = "owning_process_memory" THEN "offset" ELSE "guid",
                inferred |-> "source", by |-> {seen[2]} ]
  IN  IF rule # "injection_target" THEN edge
      ELSE [ edge EXCEPT !.srcObj = seen[1], !.src = seen[2], !.tgtObj = "process",
                         !.tgt = Referred(rule, r), !.inferred = "target" ]

Reconstruct ==
  /\ pc = "reconstruct" /\ Advance(events, Rules, "content")
  /\ LET r == events[n]
         rule == Rules[k]
         lost == << r.host, Referred(rule, r) >>
     IN  IF IsLost(rule, r)
         THEN /\ nodes' = [ nodes EXCEPT ![lost] = Corroborated(@, rule, r) ]
              /\ latest' = IF nodes[lost].by # {} THEN latest
                           ELSE [ latest EXCEPT ![lost[2]] = r.host ]
              /\ edges' = edges \cup { InferredEdge(rule, r) }
         ELSE UNCHANGED << nodes, latest, edges >>
  /\ Stay /\ UNCHANGED << events, content, refs, db >>

-----------------------------------------------------------------------------
(* content_entities                                                        *)

Identities == << "hash", "sid" >>
FieldsOf(ident) == RangeOf(IF ident = "hash" THEN HashFields ELSE AccountFields)

\* The node a field of a row refers to: hashes of different kinds are different
\* nodes, one account is one node whatever field names it.
Carries(ident, field, r) == r.content[field] \in Accepted[ident]
NodeOfUnnormalized(ident, field, r) ==   \* mutant: one content in two cases is two
  << IF ident = "hash" THEN field ELSE "sid", r.content[field] >>
NodeOf(ident, field, r) ==
  << IF ident = "hash" THEN field ELSE "sid", Norm[r.content[field]] >>

\* The fields of a row that refer to a node.
Roles(ident, id, r) ==
  { f \in FieldsOf(ident) : Carries(ident, f, r) /\ NodeOf(ident, f, r) = id }

WithContext(context, path) ==
  IF path # Blank /\ Cardinality(context) < PropCap THEN context \cup {path} ELSE context

Refer ==
  /\ pc = "content" /\ Advance(events, Identities, "store")
  /\ LET r == events[n]
         ident == Identities[k]
     IN  /\ content' = [ id \in ContentIds |->
                           IF Roles(ident, id, r) = {} THEN content[id]
                           ELSE [ count |-> content[id].count + Cardinality(Roles(ident, id, r)),
                                  context |-> WithContext(content[id].context, r.path) ] ]
         /\ refs' = refs \cup
              { [ host |-> r.host, obj |-> r.obj, guid |-> r.guid,
                  node |-> NodeOf(ident, f, r), key |-> f ] :
                    f \in { g \in FieldsOf(ident) : Carries(ident, g, r) /\ r.guid # Blank } }
  /\ Stay /\ UNCHANGED << events, edges, nodes, latest, db >>

-----------------------------------------------------------------------------
(* The inserts, and the pass over a finished store.                        *)

\* INSERT OR REPLACE: of the nodes with one guid, the last one made stays.
StoreLayer ==
  /\ pc = "store" /\ pc' = "done"
  /\ db' = [ db EXCEPT
       !.edges = @ \cup edges,
       !.nodes = [ g \in Guids |-> IF latest[g] = Blank THEN @[g]
                                   ELSE [ host |-> latest[g], node |-> nodes[<< latest[g], g >>] ] ],
       !.content = [ id \in ContentIds |-> IF content[id].count = 0 THEN @[id] ELSE content[id] ],
       !.refs = @ \cup refs ]
  /\ Stay /\ UNCHANGED << events, k, n, Collected >>

Rederive ==
  /\ pc = "done" /\ passes < MaxPasses
  /\ passes' = passes + 1 /\ before' = db
  /\ events' = << >> /\ pc' = "load" /\ k' = 1 /\ n' = 1
  /\ UNCHANGED << car, db, Collected >>

StoredColumns(r) ==                      \* mutant: the native bag is not read back
  [ r EXCEPT !.owningRef = Blank, !.owningAt = Blank, !.parentRef = Blank,
             !.injectRef = Blank, !.fuids = {} ]
Stored(r) == [ r EXCEPT !.owningRef = Blank, !.owningAt = Blank ]

\* load_events: object by object, and each object's rows as they were inserted.
LoadRow ==
  /\ pc = "load" /\ Advance(car, ObjectOrder, "clear")
  /\ events' = IF car[n].obj = ObjectOrder[k] THEN Append(events, Stored(car[n])) ELSE events
  /\ Stay /\ UNCHANGED << Collected, db >>

Next == ClearDerived \/ LinkSource \/ Reconstruct \/ Refer \/ StoreLayer \/ Rederive \/ LoadRow

Spec == Init /\ [][Next]_vars

-----------------------------------------------------------------------------
(* Properties of a finished pass.                                          *)

Done == pc = "done"

\* A file record rivals another as the image of a process if it has the hash
\* too, unless only the other one lies where the process was started from.
Rivals(s, t, q, field) ==
  /\ events[q].obj = "file" /\ events[q].guid \notin {Blank, s.guid} /\ events[q].host = s.host
  /\ HashOf(field, events[q]) = HashOf(field, s)
  /\ s.path = Blank \/ events[t].path # s.path \/ events[q].path = s.path

ImageBy(field, s, t) ==
  /\ s.obj = "process" /\ s.guid # Blank /\ HashOf(field, s) # {}
  /\ Rivals(s, t, t, field)
  /\ \A q \in DOMAIN events \ {t} : ~Rivals(s, t, q, field)

\* link_edges, the 1:1 rule: whatever the order of the events and however many
\* hashes they share, a process has one link to a file's record if some hash
\* makes that file its image beyond doubt -- named for the strongest such hash --
\* and otherwise none.
LinkedOnceIffClear ==
  Done => \A a, b \in Guids :
    LET made == { e \in db.edges : e.rel = "process_image_content" /\ e.src = a /\ e.tgt = b }
        clear == { i \in DOMAIN HashFields :
                     \E s \in RangeOf(events), t \in DOMAIN events :
                       s.guid = a /\ events[t].guid = b /\ ImageBy(HashFields[i], s, t) }
    IN  /\ Cardinality(made) = IF clear = {} THEN 0 ELSE 1
        /\ \A e \in made : \A i \in clear : \E j \in clear : j <= i /\ e.key = HashFields[j]

\* docs, derive.py: an inferred node is "a node no source observed": no record of
\* the host's processes, of whatever action, has the guid of a stored node.
NothingObservedInferred ==
  Done => \A g \in Guids, r \in RangeOf(car) :
    r.obj = "process" /\ r.guid = g => db.nodes[g].host # r.host

\* Every process that a record refers to by guid or offset, and that the cascade
\* did not link, is there after the pass: some record of it was observed, or it
\* has a node that this record corroborates and that keeps what the record says
\* of it, and an edge joins the two.
ReferenceMet(rule, r) ==
  LET x == Referred(rule, r) IN
  ( /\ InScope(rule, r) /\ r.guid # Blank /\ x \notin {Blank, r.guid}
    /\ UnlessLinked(rule, r) = Blank /\ (rule = "injection_target" => r.owning # Blank) )
  => \/ \E q \in RangeOf(events) : q.host = r.host /\ q.obj = "process" /\ q.guid = x
     \/ LET end == IF rule = "injection_target" THEN r.owning ELSE r.guid
            node == nodes[<< r.host, x >>]
        IN  /\ end \in node.by /\ rule \in node.rules
            /\ r.said = Blank \/ r.said = node.said \/ r.said \in node.others
            /\ \E e \in db.edges : /\ e.host = r.host /\ e.inferred # "none" /\ end \in e.by
                                   /\ {e.src, e.tgt} = {x, end}

\* superset.db: the inferred end of an edge resolves to a stored node, on the
\* edge's host, that counts the edge's observed end as corroboration -- unless
\* the same guid is missing on two hosts, when one host's node has the row.
InferredEnd(e) == IF e.inferred = "source" THEN e.src ELSE e.tgt
EndStored(e) ==
  LET row == db.nodes[InferredEnd(e)] IN
  \/ row.host = e.host /\ e.by \subseteq row.node.by
  \/ \E o \in db.edges : /\ o.inferred # "none" /\ InferredEnd(o) = InferredEnd(e)
                         /\ o.host = row.host /\ o.host # e.host

\* No reference of a record, and no inferred end of an edge, leads nowhere.
NoReferenceDangles ==
  Done => /\ \A r \in RangeOf(events), rule \in RuleNames : ReferenceMet(rule, r)
          /\ \A e \in db.edges : e.inferred # "none" => EndStored(e)

\* Declared or inferred, never both: a spoke that has its guid to itself is owned
\* through one edge at most, and after the pass over memory through one exactly,
\* if it names a process there is no record of.
OneOwnerEach ==
  Done => \A i \in DOMAIN events :
    LET r == events[i]
        owners == { e.src : e \in { o \in db.declared \cup db.edges :
                      /\ o.rel = "spoke_owner" /\ o.host = r.host
                      /\ o.tgtObj = r.obj /\ o.tgt = r.guid } }
        named == { r.owningRef, IF r.owningAt = Blank THEN Blank ELSE Mint[r.owningAt] } \ {Blank, r.guid}
    IN  ( /\ r.obj # "process" /\ r.guid # Blank
          /\ \A j \in DOMAIN events \ {i} : << events[j].obj, events[j].guid >> # << r.obj, r.guid >> )
        => /\ Cardinality(owners) <= 1
           /\ passes = 1 /\ r.owning # r.guid
                /\ (\E x \in named : << r.host, "process", x >> \notin Observed(car))
              => owners # {}

\* No relationship of a record with itself, declared or derived: a thread that
\* injects into its own process least of all.
NoSelfLoops == \A e \in db.declared \cup db.edges : e.src # e.tgt

\* content_entities: a content node counts every field of every record that
\* carries the content, in whatever case; every such record that has a guid
\* refers to it; its context is theirs, all of it up to the cap.
ContentCounted ==
  Done =>
    /\ \A ident \in RangeOf(Identities) : \A id \in ContentIds :
         id[1] \in (IF ident = "hash" THEN RangeOf(HashFields) ELSE {"sid"}) =>
         LET carriers == { c \in (DOMAIN events) \X FieldsOf(ident) :
                             /\ events[c[1]].content[c[2]] \in Accepted[ident]
                             /\ Norm[events[c[1]].content[c[2]]] = id[2]
                             /\ ident = "hash" => c[2] = id[1] }
             paths == { events[c[1]].path : c \in carriers } \ {Blank}
             entity == db.content[id]
         IN  /\ entity.count = Cardinality(carriers)
             /\ entity.context \subseteq paths
             /\ entity.context = paths \/ Cardinality(entity.context) = PropCap
             /\ { << x.obj, x.guid, x.key >> : x \in { y \in db.refs : y.node = id } }
                  = { << events[c[1]].obj, events[c[1]].guid, c[2] >> :
                        c \in { d \in carriers : events[d[1]].guid # Blank } }

\* derive: "Idempotent", and load_events: "a re-derive over a store sees only the
\* natively KEPT references".  Over the store the pass finds the links, contents
\* and references again that it found in memory; it infers nothing new and loses
\* a node only if nothing but an owner's transient guid or offset spoke for it;
\* and once more over the store it changes nothing.
RederiveKeepsTheStored ==
  /\ Done /\ passes > 1 =>
       /\ { e \in db.edges : e.inferred = "none" } = { e \in before.edges : e.inferred = "none" }
       /\ db.refs = before.refs
       /\ \A id \in ContentIds : db.content[id].count = before.content[id].count
       /\ \A g \in Guids :
            /\ db.nodes[g].host # Blank => before.nodes[g].host # Blank
            /\ before.nodes[g].node.rules \cap {"parent_process", "injection_target"} # {}
                 => db.nodes[g].host # Blank
  /\ Done /\ passes > 2 => db = before

=============================================================================
