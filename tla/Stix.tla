-------------------------------- MODULE Stix --------------------------------
(* The STIX 2.1 projection (byakugan/stix.py): the finished stores of a source  *)
(* become one bundle.  The content pass makes the global objects, every row     *)
(* fills the objects of the entities it describes and adds its observation,     *)
(* then the inferred nodes, the relationships and the behaviour hits follow.    *)
(*                                                                              *)
(* An object is what its properties hold and which other values were offered    *)
(* for them (x_car_conflicts).  An id is a tuple: the type, then what the       *)
(* object is keyed by -- a host first when the id is case-scoped.  A nested     *)
(* property is one property with a dotted name; what the readers make of a      *)
(* value (hex pids, timestamps, addresses, SIDs, base names) is the constant    *)
(* Reads.  The wording of labels, names and time stamps is left out.            *)
EXTENDS Integers, Sequences, FiniteSets, SequencesExt

CONSTANTS
  Blank,       \* None and "": no value
  Values,      \* what columns hold
  Reads,       \* reader -> value -> what it makes of it, or Blank
  HashOrder,   \* the normalised hashes in the order of their text
  Analytics,   \* analytic -> the techniques it covers, for the runnable ones
  Stores       \* the stores that are exported: rows, nodes, edges, hits

Readers == { "int", "ip", "family", "scheme", "regtype", "integrity", "text", "ts", "sid", "hash", "base", "dir" }
ASSUME ReadsAssumption ==
  /\ Blank \notin Values
  /\ DOMAIN Reads = Readers
  /\ \A how \in Readers : DOMAIN Reads[how] = Values
  /\ { Reads["hash"][v] : v \in Values } \subseteq ToSet(HashOrder) \cup {Blank}

VARIABLES
  car,         \* the store that is exported, as it was read
  phase,       \* "content", "rows", "nodes", "edges", "hits", "done"
  at,          \* how many of the phase's inputs are behind
  objs,        \* id -> object: Projection.objs
  primary,     \* <<host, object, guid>> -> the row's entity
  obs,         \* <<host, object, guid>> -> the row's observation
  obsOf,       \* <<host, guid>> -> observations, obs_by_guid
  contentOf,   \* hash or account node -> the global object, node_content
  unresolved   \* the edges that were not drawn
vars == << car, phase, at, objs, primary, obs, obsOf, contentOf, unresolved >>

-----------------------------------------------------------------------------
\* Columns and readers.

HashColumns == << "md5_hash", "sha1_hash", "sha256_hash" >>
SidColumns == << "sid", "uid", "owner_uid", "target_uid" >>
ListProps == { "object_refs", "x_car_logins", "x_car_hosts", "x_car_paths", "x_car_signers",
               "to_refs", "x_car_link_refs", "values", "corroborating_refs", "observed_data_refs",
               "x_car_corroborated_by" }
RefProps == { "parent_ref", "image_ref", "creator_user_ref", "parent_directory_ref", "x_car_content_ref",
              "src_ref", "dst_ref", "x_car_url_ref", "start_module_ref", "from_ref", "sender_ref",
              "x_car_attachment_ref", "source_ref", "target_ref", "sighting_of_ref", "where_sighted_ref" }
RefLists == { "object_refs", "to_refs", "x_car_link_refs", "corroborating_refs", "observed_data_refs" }
EventObjects == { "authentication", "user_session" }
\* The columns of a spoke that describe the process that acted.
Acting ==
  [ file   |-> { <<"pid", "int", "pid">>, <<"x_car_ppid", "int", "ppid">> },
    flow   |-> { <<"pid", "int", "pid">>, <<"x_car_ppid", "int", "ppid">> },
    driver |-> { <<"pid", "int", "pid">> },     module |-> { <<"pid", "int", "pid">> },
    registry |-> { <<"pid", "int", "pid">> },   socket |-> { <<"pid", "int", "pid">> },
    thread |-> { <<"pid", "int", "src_pid">> } ]
ActingImage == { "file", "flow", "module", "registry", "socket" }

Peek(r, col) == IF col \in DOMAIN r.cols THEN r.cols[col] ELSE Blank
Take(r, how, col) ==
  LET v == Peek(r, col) IN IF v = Blank \/ how = "get" THEN v ELSE Reads[how][v]
Live(r, table) == { t \in table : Take(r, t[2], t[3]) # Blank }
Props(r, table) ==
  [ p \in { t[1] : t \in Live(r, table) } |->
      LET t == CHOOSE t \in Live(r, table) : t[1] = p IN Take(r, t[2], t[3]) ]
Used(r, table) == { t[3] : t \in Live(r, table) }
Present(r, cols) == { c \in cols : Peek(r, c) # Blank }
Hashes(r) ==
  { << f, Take(r, "hash", f) >> : f \in { g \in ToSet(HashColumns) : Take(r, "hash", g) # Blank } }

\* A function of one property; a function laid over another.
Prop(p, v) == [ q \in {p} |-> v ]
f ++ g == [ p \in DOMAIN f \cup DOMAIN g |-> IF p \in DOMAIN f THEN f[p] ELSE g[p] ]

\* _clean: only what has a value is a property.
Given(props) ==
  LET has == { p \in DOMAIN props : IF p \in ListProps THEN props[p] # {} ELSE props[p] # Blank }
  IN [ p \in has |-> props[p] ]
Some(v) == IF v = Blank THEN {} ELSE {v}

-----------------------------------------------------------------------------
\* The registry of objects.

FillSilently(o, new) ==   \* mutant: a disagreeing value is dropped
  [ val |-> [ p \in DOMAIN o.val \cup DOMAIN new |->
                IF p \notin DOMAIN o.val THEN new[p]
                ELSE IF p \in ListProps /\ p \in DOMAIN new THEN o.val[p] \cup new[p] ELSE o.val[p] ],
    alt |-> o.alt ]
Fill(o, new) ==
  [ val |-> [ p \in DOMAIN o.val \cup DOMAIN new |->
                IF p \notin DOMAIN o.val THEN new[p]
                ELSE IF p \in ListProps /\ p \in DOMAIN new THEN o.val[p] \cup new[p]
                ELSE o.val[p] ],
    alt |-> o.alt \cup { << p, new[p] >> :
                p \in { q \in (DOMAIN o.val \cap DOMAIN new) \ ListProps : o.val[q] # new[q] } } ]

Put(os, put) ==
  LET id == put[1]  new == Given(put[2])
  IN IF id \in DOMAIN os THEN [ os EXCEPT ![id] = Fill(@, new) ]
     ELSE Prop(id, [ val |-> new, alt |-> {} ]) ++ os
PutAll(os, puts) ==
  LET after[n \in 0 .. Len(puts)] == IF n = 0 THEN os ELSE Put(after[n - 1], puts[n])
  IN after[Len(puts)]

\* What a helper of the projection does: it puts objects, refers the row's
\* observation to some, and consumes columns.
Piece(id, puts, refs, used) == [ id |-> id, puts |-> puts, refs |-> refs \ {Blank}, used |-> used ]
Nothing == Piece(Blank, << >>, {}, {})
One(id, props) == Piece(id, << << id, props >> >>, {id}, {})
\* What is keyed off a row, or off a process, is not minted without its key.
Minted(key, id, props) == IF key = Blank THEN Nothing ELSE One(id, props)
And(p, q) == Piece(q.id, p.puts \o q.puts, p.refs \cup q.refs, p.used \cup q.used)
All(pieces) ==
  Piece(Blank, FlattenSeq([ i \in DOMAIN pieces |-> pieces[i].puts ]),
        UNION { pieces[i].refs : i \in DOMAIN pieces }, UNION { pieces[i].used : i \in DOMAIN pieces })
Consuming(p, used) == Piece(p.id, p.puts, p.refs, p.used \cup used)
Named(p, id) == Piece(id, p.puts, p.refs, p.used)
Led(p, q) == Named(And(p, q), p.id)

-----------------------------------------------------------------------------
\* Content: derive's content pass, its hash nodes unioned by the records.

RowKey(r) == << r.host, r.obj, r.guid >>
NodesOf(r) == Hashes(r) \cup { << "sid", Take(r, "sid", f) >> :
                                 f \in { g \in ToSet(SidColumns) : Take(r, "sid", g) # Blank } }
HashNodes(rows) == UNION { Hashes(r) : r \in ToSet(rows) }
Accounts(rows) == { n \in UNION { NodesOf(r) : r \in ToSet(rows) } : n[1] = "sid" }

\* Rows with the same identity are one record, and a record joins its hashes.
RecordHashes(rows, r) ==
  IF r.guid = Blank THEN {}
  ELSE UNION { Hashes(s) : s \in { t \in ToSet(rows) : RowKey(t) = RowKey(r) } }
Join(nodes, groups) ==
  LET met == { g \in groups : g \cap nodes # {} } IN (groups \ met) \cup ({UNION met} \ {{}})
Groups(rows) ==
  LET joined[n \in 0 .. Len(rows)] ==
        IF n = 0 THEN { {h} : h \in HashNodes(rows) } ELSE Join(RecordHashes(rows, rows[n]), joined[n - 1])
  IN joined[Len(rows)]

LeastHash(S) == HashOrder[Min({ i \in DOMAIN HashOrder : HashOrder[i] \in S })]
ValuesIn(group, f) == { n[2] : n \in { m \in group : m[1] = f } }
\* The one hash that names the content: the first algorithm there is.
ContentId(group) ==
  LET f == CHOOSE f \in ToSet(HashColumns) :
             /\ ValuesIn(group, f) # {}
             /\ \A g \in ToSet(HashColumns) : ValuesIn(group, g) # {} =>
                  \E i, j \in DOMAIN HashColumns : HashColumns[i] = f /\ HashColumns[j] = g /\ i <= j
  IN << "file", f, LeastHash(ValuesIn(group, f)) >>

ColumnsOf(rows, group, cols) ==
  { Peek(r, c) : r \in { s \in ToSet(rows) : Hashes(s) \cap group # {} }, c \in cols } \ {Blank}
ContentFile(rows, group) ==
  LET held == { f \in ToSet(HashColumns) : ValuesIn(group, f) # {} }
  IN [ val |-> Given([ f \in held |-> LeastHash(ValuesIn(group, f)) ]
                     ++ Prop("x_car_paths", ColumnsOf(rows, group, { "file_path", "image_path", "module_path" }))
                     ++ Prop("x_car_signers", ColumnsOf(rows, group, { "signer" }))),
       alt |-> UNION { { << f, v >> : v \in ValuesIn(group, f) \ {LeastHash(ValuesIn(group, f))} } : f \in held } ]

ContentUser(rows, node) ==
  LET of    == { i \in DOMAIN rows : node \in NodesOf(rows[i]) }
      named == { i \in of : Peek(rows[i], "user") # Blank }
  IN [ val |-> Given(Prop("user_id", node[2]) ++ Prop("x_car_logins", { Peek(rows[i], "user") : i \in named })
                     ++ Prop("display_name", IF named = {} THEN Blank ELSE Peek(rows[Min(named)], "user"))
                     ++ Prop("x_car_hosts", { Peek(rows[i], "hostname") : i \in of } \ {Blank})),
       alt |-> {} ]

ContentNodes(rows) ==
  [ n \in HashNodes(rows) \cup Accounts(rows) |->
      IF n[1] = "sid" THEN << "user-account", n[2] >>
      ELSE ContentId(CHOOSE g \in Groups(rows) : n \in g) ]
Described(rows, groups) ==
  [ id \in { ContentId(g) : g \in groups } |->
      ContentFile(rows, CHOOSE g \in groups : ContentId(g) = id) ]
  ++ [ id \in { << "user-account", n[2] >> : n \in Accounts(rows) } |->
         ContentUser(rows, << "sid", id[2] >>) ]
ContentObjects(rows) == Described(rows, Groups(rows))

\* The objects of the content a record carries: record_refs.
ContentRefs(content, rows, r) ==
  { content[n] : n \in UNION { NodesOf(s) : s \in { t \in ToSet(rows) : RowKey(t) = RowKey(r) } } }
ContentRefOfItsOwn(content, hashes) == ContentId(hashes)  \* mutant: the row's own hashes name the content
ContentRef(content, hashes) ==
  LET f == CHOOSE f \in { h[1] : h \in hashes } :
             \A g \in { h[1] : h \in hashes } :
               \E i, j \in DOMAIN HashColumns : HashColumns[i] = f /\ HashColumns[j] = g /\ i <= j
      n == CHOOSE h \in hashes : h[1] = f
  IN IF n \in DOMAIN content THEN content[n] ELSE ContentId(hashes)
\* The object of the content that a row's own hashes name.
Bound(content, r) == IF Hashes(r) = {} THEN Blank ELSE ContentRef(content, Hashes(r))

-----------------------------------------------------------------------------
\* The objects more than one builder makes.

Value(kind, how, r, col) ==
  LET v == Take(r, how, col)  id == << kind, v >>
  IN IF v = Blank THEN Nothing ELSE One(id, Prop("value", v))
\* An address is consumed when it is one, a name or an url whatever it holds.
End(r, e) ==
  LET p == Value(e[2], e[3], r, e[4])
  IN Consuming(p, IF e[3] = "ip" /\ p = Nothing THEN {} ELSE Present(r, {e[4]}))

Account(host, ident, name) ==
  LET sid == IF ident = Blank THEN Blank ELSE Reads["sid"][ident]
      id  == IF sid # Blank THEN << "user-account", sid >>
             ELSE IF ident # Blank THEN << "user-account", host, "id", ident >>
             ELSE << "user-account", host, "name", name >>
      props == IF sid # Blank
               THEN Prop("user_id", sid) ++ Prop("display_name", name) ++ Prop("x_car_logins", Some(name))
               ELSE Prop("user_id", ident) ++ Prop("account_login", name)
  IN IF ident = Blank /\ name = Blank THEN Nothing
     ELSE One(id, props)
AccountOf(r, ident, name) ==
  Consuming(Account(r.host, Peek(r, ident), Peek(r, name)), Present(r, {ident, name}))

Directory(host, path) == One(<< "directory", host, path >>, Prop("path", path))

\* A file is keyed by its path, by its name, or by the row; `ref` is its content.
FileAt(host, path, name, hashes, ref, props, row) ==
  LET id == IF path # Blank THEN << "file", host, "path", path >>
            ELSE IF name # Blank THEN << "file", host, "name", name >>
            ELSE << "file", host, "row", row[1], row[2] >>
      key == IF path # Blank THEN path ELSE IF name # Blank THEN name ELSE row[2]
      base == IF name # Blank THEN name ELSE IF path # Blank THEN Reads["base"][path] ELSE Blank
      up  == IF path = Blank \/ Reads["dir"][path] = Blank THEN Nothing
             ELSE Directory(host, Reads["dir"][path])
      own == Prop("name", base) ++ Prop("x_car_path", path) ++ Prop("parent_directory_ref", up.id)
             ++ Prop("x_car_content_ref", ref)
             ++ [ f \in { h[1] : h \in hashes } |-> (CHOOSE h \in hashes : h[1] = f)[2] ]
  IN IF path = Blank /\ name = Blank /\ hashes = {} /\ DOMAIN props = {} THEN Nothing
     ELSE And(up, Minted(key, id, props ++ own))

ProcessId(host, guid) == IF guid = Blank THEN Blank ELSE << "process", host, guid >>
Running(host, guid, props, image) ==
  And(image, Minted(guid, << "process", host, guid >>,
                    props ++ Prop("x_car_entity_id", guid) ++ Prop("image_ref", image.id)))
Process(host, guid, props, path, name, hashes, ref, imageProps) ==
  Running(host, guid, props,
          IF path = Blank /\ name = Blank /\ hashes = {} THEN Nothing
          ELSE FileAt(host, path, name, hashes, ref, imageProps, << "process", guid >>))

-----------------------------------------------------------------------------
\* The builders.

Signer == { << "x_car_signer", "get", "signer" >>,
            << "x_car_signature_valid", "get", "signature_valid" >> }
FileShape ==
  [ file   |-> [ path |-> "file_path", name |-> "file_name", accounts |-> << << "owner_uid", "owner" >>, << "uid", "user" >> >>,
                 props |-> Signer \cup { << "ctime", "ts", "creation_time" >>, << "mime_type", "get", "mime_type" >> } ],
    module |-> [ path |-> "module_path", name |-> "module_name", accounts |-> << >>,
                 props |-> Signer \cup { << "x_car_base_address", "get", "base_address" >> } ],
    driver |-> [ path |-> "image_path", name |-> "module_name", accounts |-> << >>,
                 props |-> Signer \cup { << "x_car_base_address", "get", "base_address" >> } ] ]
BuildFile(r, ref) ==
  LET s == FileShape[r.obj]
      users == [ i \in DOMAIN s.accounts |-> AccountOf(r, s.accounts[i][1], s.accounts[i][2]) ]
      file == Consuming(FileAt(r.host, Peek(r, s.path), Peek(r, s.name), Hashes(r), ref, Props(r, s.props), << r.obj, r.guid >>),
                        Present(r, {s.path, s.name}) \cup { h[1] : h \in Hashes(r) } \cup Used(r, s.props))
  IN Led(file, All(users))

ParentColumns == { << "pid", "int", "ppid" >>, << "command_line", "get", "parent_command_line" >> }
ParentImage == { "parent_image_path", "parent_exe" }
\* A parent the cascade resolved is an object, one it did not is what the row says.
ParentOf(r) ==
  Consuming(IF Peek(r, "parent_guid") = Blank THEN Nothing
            ELSE Consuming(Process(r.host, Peek(r, "parent_guid"), Props(r, ParentColumns),
                                   Peek(r, "parent_image_path"), Peek(r, "parent_exe"), {}, Blank, << >>), {"parent_guid"}),
            Used(r, ParentColumns) \cup Present(r, ParentImage))
SaidOfParent ==
  { << "x_car_parent.pid", "int", "ppid" >>, << "x_car_parent.command_line", "get", "parent_command_line" >>,
    << "x_car_parent.image_path", "get", "parent_image_path" >>, << "x_car_parent.exe", "get", "parent_exe" >> }
Accessed(r) ==
  IF r.act # "access" \/ Peek(r, "target_guid") = Blank THEN Nothing
  ELSE Consuming(Process(r.host, Peek(r, "target_guid"), Props(r, { << "pid", "int", "target_pid" >> }),
                         Peek(r, "target_name"), Blank, {}, Blank, << >>),
                 { "target_guid" } \cup Used(r, { << "pid", "int", "target_pid" >> }) \cup Present(r, {"target_name"}))

ProcessColumns ==
  { << "pid", "int", "pid" >>, << "command_line", "get", "command_line" >>,
    << "cwd", "get", "current_working_directory" >>, << "integrity_level", "integrity", "integrity_level" >> }
WhoRan(r) == IF Peek(r, "sid") # Blank THEN "sid" ELSE "uid"
Identity(r) == IF r.owning # Blank THEN r.owning ELSE r.guid
Ran(r, ref, parent, user) ==
  LET said  == IF Peek(r, "parent_guid") = Blank THEN Props(r, SaidOfParent) ELSE << >>
      props == Props(r, ProcessColumns) ++ said
               ++ Prop("parent_ref", parent.id) ++ Prop("creator_user_ref", user.id)
               ++ Prop("created_time", IF r.act = "create" THEN Reads["ts"][r.ts] ELSE Blank)
      self  == Consuming(Process(r.host, Identity(r), props, Peek(r, "image_path"),
                                 Peek(r, "exe"), Hashes(r), ref, Props(r, Signer)),
                         Used(r, ProcessColumns \cup Signer) \cup { h[1] : h \in Hashes(r) } \cup Present(r, {"image_path", "exe"}))
  IN Named(And(And(And(parent, user), self), Accessed(r)), ProcessId(r.host, Identity(r)))
BuildProcess(r, ref) == Ran(r, ref, ParentOf(r), AccountOf(r, WhoRan(r), "user"))

\* The other objects: an entity of its own type, keyed by a column or the row,
\* with ends that are values, accounts and files.
Shape ==
  [ flow |-> [ type |-> "network-traffic", key |-> "guid", accounts |-> << >>, file |-> << >>,
      ends |-> << << "src_ref", "addr", "ip", "src_ip" >>, << "dst_ref", "addr", "ip", "dest_ip" >> >>,
      plain |-> { << "src_port", "int", "src_port" >>, << "dst_port", "int", "dest_port" >>,
                  << "protocols.transport", "get", "transport_protocol" >>, << "protocols.application", "get", "application_protocol" >>,
                  << "src_byte_count", "int", "out_bytes" >>, << "dst_byte_count", "int", "in_bytes" >>,
                  << "start", "ts", "start_time" >>, << "end", "ts", "end_time" >> } ],
    socket |-> [ type |-> "network-traffic", key |-> "guid", accounts |-> << >>, file |-> << >>,
      ends |-> << << "src_ref", "addr", "ip", "local_address" >>, << "dst_ref", "addr", "ip", "remote_address" >> >>,
      plain |-> { << "src_port", "int", "local_port" >>, << "dst_port", "int", "remote_port" >>,
                  << "protocols.transport", "get", "protocol" >>, << "address_family", "family", "family" >> } ],
    http |-> [ type |-> "network-traffic", key |-> "guid", accounts |-> << >>, file |-> << >>,
      ends |-> << << "src_ref", "addr", "ip", "requester_ip_address" >>, << "dst_ref", "domain-name", "text", "url_domain" >>,
                 << "x_car_url_ref", "url", "text", "url_full" >> >>,
      plain |-> { << "protocols.application", "scheme", "url_scheme" >>, << "status", "get", "response_status_code" >>,
                  << "response_bytes", "int", "response_body_bytes" >> } ],
    authentication |-> [ type |-> Blank, key |-> "guid", ends |-> << >>, plain |-> {}, file |-> << >>,
      accounts |-> << << Blank, "target_uid", "target_user" >>, << Blank, "uid", "user" >> >> ],
    user_session |-> [ type |-> Blank, key |-> "guid", plain |-> {}, file |-> << >>, accounts |-> << << Blank, "uid", "user" >> >>,
      ends |-> << << Blank, "addr", "ip", "src_ip" >>, << Blank, "addr", "ip", "dest_ip" >> >> ],
    service |-> [ type |-> "process", key |-> "name", ends |-> << >>, accounts |-> << << "creator_user_ref", "uid", "user" >> >>,
      file |-> << "image_ref", "image_path", "exe" >>,
      plain |-> { << "command_line", "get", "command_line" >>, << "pid", "int", "pid" >>, << "service_name", "get", "name" >> } ],
    thread |-> [ type |-> "x-car-thread", key |-> "guid", ends |-> << >>, accounts |-> << << "creator_user_ref", "uid", "user" >> >>,
      file |-> << "start_module_ref", "start_module", Blank >>,
      plain |-> { << f, "get", f >> : f \in { "src_pid", "src_tid", "tgt_pid", "tgt_tid", "start_address", "start_function",
                    "start_module_name", "stack_base", "stack_limit", "user_stack_base", "user_stack_limit" } } ],
    registry |-> [ type |-> "windows-registry-key", key |-> "key", ends |-> << >>, file |-> << >>,
      accounts |-> << << "creator_user_ref", Blank, "user" >> >>, plain |-> { << "key", "get", "key" >> } ],
    email |-> [ type |-> "email-message", key |-> "guid", accounts |-> << >>, file |-> << "x_car_attachment_ref", Blank, "attachment_name" >>,
      ends |-> << << "from_ref", "email-addr", "text", "from" >>, << "sender_ref", "email-addr", "text", "return_address" >>,
                 << "to_refs", "email-addr", "text", "to" >>, << "x_car_link_refs", "url", "text", "message_links" >>,
                 << Blank, "addr", "ip", "src_ip" >>, << Blank, "addr", "ip", "dest_ip" >> >>,
      plain |-> { << "subject", "get", "subject" >>, << "date", "ts", "date" >>, << "body", "get", "message_body" >> } ] ]

\* What only some of a row's columns make: the request of an http row, the value
\* of a registry key, the attachment of a message.
Request(r) ==
  LET cols == { << "request_version", "get", "http_version" >>, << "header.user_agent", "get", "user_agent_full" >>,
                << "header.referer", "get", "request_referrer" >>, << "request_bytes", "int", "request_body_bytes" >> }
      from == IF Peek(r, "url_remainder") # Blank THEN "url_remainder" ELSE "url_full"
  IN IF r.obj # "http" THEN << << >>, {} >>
     ELSE IF Peek(r, from) = Blank THEN << << >>, Present(r, {"url_scheme"}) >>
     ELSE << Prop("request_value", Peek(r, from)) ++ Props(r, cols),
             Present(r, {"url_remainder", "url_scheme"}) \cup Used(r, cols) >>
KeyValue(r) ==
  LET type == Take(r, "regtype", "type")
  IN IF r.obj # "registry" \/ Present(r, {"value", "data"}) = {} THEN << << >>, {} >>
     ELSE << Prop("values", { << Peek(r, "value"), Peek(r, "data"), type >> }),
             Present(r, {"value", "data"} \cup (IF type = Blank THEN {} ELSE {"type"})) >>
AttachmentColumns == { << "mime_type", "get", "attachment_mime_type" >>, << "size", "int", "attachment_size" >> }
FilePartThatTakesAll(r, s) ==          \* mutant: an attachment's columns are consumed without one
  LET path == IF s.file = << >> THEN Blank ELSE Peek(r, s.file[2])
      name == IF s.file = << >> THEN Blank ELSE Peek(r, s.file[3])
  IN Consuming(IF path = Blank /\ name = Blank THEN Nothing
               ELSE FileAt(r.host, path, name, {}, Blank, Props(r, AttachmentColumns), << r.obj, r.guid >>),
               Present(r, { "attachment_name", "attachment_mime_type", "attachment_size" }))
FilePart(r, s) ==
  LET path == IF s.file = << >> THEN Blank ELSE Peek(r, s.file[2])
      name == IF s.file = << >> THEN Blank ELSE Peek(r, s.file[3])
      more == IF r.obj = "email" THEN AttachmentColumns ELSE {}
  IN IF path = Blank /\ name = Blank THEN Nothing
     ELSE Consuming(FileAt(r.host, path, name, {}, Blank, Props(r, more), << r.obj, r.guid >>),
                    Present(r, {s.file[2], s.file[3]}) \cup Used(r, more))

Linked(prop, p) == IF prop = Blank THEN << >>
                   ELSE Prop(prop, IF prop \in ListProps THEN Some(p.id) ELSE p.id)
\* No two of a row's links have the same name.
AllProps(fs) ==
  [ p \in UNION { DOMAIN fs[i] : i \in DOMAIN fs } |-> fs[CHOOSE i \in DOMAIN fs : p \in DOMAIN fs[i]][p] ]
\* An object without an entity type is the first account it names.
FirstOf(users) ==
  LET named == { i \in DOMAIN users : users[i].id # Blank }
  IN IF named = {} THEN Blank ELSE users[Min(named)].id
Assembled(r, s, ends, users, file, extra) ==
  LET named == s.key # "guid" /\ Peek(r, s.key) # Blank
      id    == IF named THEN << s.type, r.host, s.key, Peek(r, s.key) >> ELSE << s.type, r.host, r.obj, r.guid >>
      props == Props(r, s.plain) ++ extra[1][1] ++ extra[2][1]
               ++ (IF s.file = << >> THEN << >> ELSE Linked(s.file[1], file))
               ++ AllProps([ i \in DOMAIN ends |-> Linked(s.ends[i][1], ends[i]) ])
               ++ AllProps([ i \in DOMAIN users |-> Linked(s.accounts[i][1], users[i]) ])
      self  == IF s.type = Blank THEN Named(Nothing, FirstOf(users))
               ELSE Minted(IF named THEN Peek(r, s.key) ELSE r.guid, id, props)
  IN Consuming(And(And(All(ends), All(users)), And(file, self)),
               Used(r, s.plain) \cup extra[1][2] \cup extra[2][2])
BuildShaped(r, s) ==
  Assembled(r, s, [ i \in DOMAIN s.ends |-> End(r, s.ends[i]) ],
            [ i \in DOMAIN s.accounts |-> AccountOf(r, s.accounts[i][2], s.accounts[i][3]) ],
            FilePart(r, s), << Request(r), KeyValue(r) >>)
BuildOther(r) == BuildShaped(r, Shape[r.obj])

Build(r, ref) ==
  IF r.obj \in DOMAIN FileShape THEN BuildFile(r, ref)
  ELSE IF r.obj = "process" THEN BuildProcess(r, ref) ELSE BuildOther(r)

\* The row itself, when it describes no entity.
RecordOf(r) ==
  Minted(r.guid, << "x-car-record", r.host, r.obj, r.guid >>, Prop("x_car_event_id", r.guid))
\* What a spoke says of the process that acted is filled onto that process.
Acts(r) ==
  LET cols == IF r.obj \in DOMAIN Acting THEN Acting[r.obj] ELSE {}
      image == IF r.obj \in ActingImage THEN Peek(r, "image_path") ELSE Blank
      exe   == IF r.obj = "flow" THEN Peek(r, "exe") ELSE Blank
  IN IF r.owning = Blank \/ r.obj = "process" THEN Nothing
     ELSE Consuming(Process(r.host, r.owning, Props(r, cols), image, exe, {}, Blank, << >>),
                    Used(r, cols) \cup (IF r.obj \in ActingImage THEN Present(r, {"image_path"}) ELSE {})
                                  \cup (IF r.obj = "flow" THEN Present(r, {"exe"}) ELSE {}))

\* All that a row makes: its entity, or itself, and what it says of its owner.
OrRecord(r, built) ==
  IF built.id # Blank THEN built
  ELSE LET record == RecordOf(r) IN Named(And(built, record), record.id)
Parts(r, ref) == Led(OrRecord(r, Build(r, ref)), Acts(r))

Leftovers(r, used) == { c \in DOMAIN r.cols : r.cols[c] # Blank /\ c \notin used }
ObservationId(r) ==
  << "observed-data", r.host, r.obj, r.guid, r.act, r.ts, Peek(r, "target_guid"), Peek(r, "access_level") >>
Observation(r, p, refs) ==
  << ObservationId(r),
     Prop("object_refs", p.refs \cup refs)
     ++ Prop("x_car_event_id", r.guid) ++ Prop("x_car_action", r.act) ++ Prop("x_car_timestamp", r.ts)
     ++ Prop("x_car_process_entity_id", IF r.owning # Blank THEN r.owning
                                        ELSE IF r.obj = "process" THEN r.guid ELSE Blank)
     ++ [ c \in Leftovers(r, p.used) |-> r.cols[c] ] >>

InferredId(host, guid) == << "x-car-inferred-node", host, guid >>
\* The processes a row names besides its own.
NamedBy(r) ==
  {r.owning} \cup (IF r.obj = "process" THEN {Peek(r, "parent_guid")} ELSE {})
             \cup (IF r.obj = "process" /\ r.act = "access" THEN {Peek(r, "target_guid")} ELSE {})

\* Only an event has no entity type; None is not the name of one.
ASSUME ShapeAssumption == \A o \in DOMAIN Shape \ EventObjects : Shape[o].type # Blank

\* The stores hold rows of the objects there are, whose columns are no properties
\* of an observation; and None is no id.
Objects == DOMAIN FileShape \cup DOMAIN Shape \cup {"process"}
ObservationProps ==
  { "object_refs", "x_car_event_id", "x_car_action", "x_car_timestamp", "x_car_process_entity_id" }
Listed(s) == s \in Seq(ToSet(s))
RowIsSound(r) ==
  /\ r.obj \in Objects
  /\ DOMAIN r.cols \cap (ObservationProps \cup RefProps \cup ListProps) = {}
  /\ \A c \in DOMAIN r.cols : r.cols[c] \in Values \cup {Blank}
  /\ Blank \notin { ObservationId(r), << "x-car-record", r.host, r.obj, r.guid >> }
                  \cup { << "process", r.host, g >> : g \in NamedBy(r) \cup {r.guid} }
ASSUME StoresAssumption ==
  /\ \A s \in Stores :
       /\ Listed(s.rows) /\ Listed(s.nodes) /\ Listed(s.edges) /\ Listed(s.hits)
       /\ \A r \in ToSet(s.rows) : RowIsSound(r)
       /\ \A e \in ToSet(s.edges) : Blank \notin { InferredId(e.host, e.src), InferredId(e.host, e.tgt) }
  /\ \A a \in DOMAIN Analytics : Listed(Analytics[a])

-----------------------------------------------------------------------------
\* The pass.

Init ==
  /\ car \in Stores
  /\ phase = "content" /\ at = 0 /\ objs = << >> /\ unresolved = 0
  /\ primary = << >> /\ obs = << >> /\ obsOf = << >> /\ contentOf = << >>

Content ==
  /\ phase = "content"
  /\ contentOf' = ContentNodes(car.rows)
  /\ objs' = ContentObjects(car.rows)
  /\ phase' = "rows"
  /\ UNCHANGED << car, at, primary, obs, obsOf, unresolved >>

\* An observation time is never invented, nor an identity.
Seen(r) == r.guid # Blank /\ Reads["ts"][r.ts] # Blank
RowPuts(r, p, refs) == p.puts \o (IF Seen(r) THEN << Observation(r, p, refs) >> ELSE << >>)
Made(r) == Parts(r, Bound(contentOf, r))
Offers(r) == RowPuts(r, Made(r), ContentRefs(contentOf, car.rows, r))
\* The first row of a process is its primary, whoever minted it.
Processes(puts) ==
  [ k \in { << put[1][2], "process", put[1][3] >> :
              put \in { q \in ToSet(puts) : q[1][1] = "process" /\ Len(q[1]) = 3 } } |->
      << "process", k[1], k[3] >> ]
ObservedAt(key) == IF key \in DOMAIN obsOf THEN obsOf[key] ELSE {}
Row ==
  /\ phase = "rows" /\ at < Len(car.rows)
  /\ \E r \in {car.rows[at + 1]}, p \in {Made(car.rows[at + 1])} :
        /\ objs' = PutAll(objs, RowPuts(r, p, ContentRefs(contentOf, car.rows, r)))
        /\ primary' = primary ++ Processes(p.puts) ++ (IF r.guid = Blank THEN << >> ELSE Prop(RowKey(r), p.id))
        /\ obs' = IF Seen(r) THEN Prop(RowKey(r), ObservationId(r)) ++ obs ELSE obs
        /\ obsOf' = IF ~Seen(r) THEN obsOf
                    ELSE Prop(<< r.host, r.guid >>, ObservedAt(<< r.host, r.guid >>) \cup {ObservationId(r)}) ++ obsOf
  /\ at' = at + 1
  /\ UNCHANGED << car, phase, contentOf, unresolved >>

InferredNode(host, guid, corr) ==
  << InferredId(host, guid),
     Prop("x_car_node_id", guid) ++ Prop("x_car_corroborated_by", corr)
     ++ Prop("corroborating_refs", UNION { ObservedAt(<< host, g >>) : g \in corr }) >>
Node ==
  /\ phase = "nodes" /\ at < Len(car.nodes)
  /\ LET n == car.nodes[at + 1] IN objs' = Put(objs, InferredNode(n.host, n.guid, n.corr))
  /\ at' = at + 1
  /\ UNCHANGED << car, phase, primary, obs, obsOf, contentOf, unresolved >>

\* What an end of an edge names: an inferred node, the observation of an event,
\* the entity of a row, or a process that only other rows name.
EndOfEntity(e, obj, guid, inferred) ==   \* mutant: an event's end is its account
  IF guid = Blank THEN Blank ELSE IF inferred THEN InferredId(e.host, guid)
  ELSE IF << e.host, obj, guid >> \in DOMAIN primary THEN primary[<< e.host, obj, guid >>] ELSE Blank
EndOf(e, obj, guid, inferred) ==
  LET key == << e.host, obj, guid >>
  IN IF guid = Blank THEN Blank
     ELSE IF inferred THEN InferredId(e.host, guid)
     ELSE IF obj \in EventObjects THEN (IF key \in DOMAIN obs THEN obs[key] ELSE Blank)
     ELSE IF key \in DOMAIN primary THEN primary[key]
     ELSE IF obj = "process" /\ ProcessId(e.host, guid) \in DOMAIN objs THEN ProcessId(e.host, guid)
     ELSE Blank
SourceOf(e) == EndOf(e, e.srcObj, e.src, e.inferred = "source")
TargetOf(e) == EndOf(e, e.tgtObj, e.tgt, e.inferred = "target")
Flagged(os, e) ==
  LET guid == IF e.inferred = "source" THEN e.src ELSE e.tgt
  IN IF e.inferred = "none" \/ InferredId(e.host, guid) \in DOMAIN os THEN os
     ELSE Put(os, InferredNode(e.host, guid, e.corr))
Drawing(id, s, t, e) ==
  << id, Prop("source_ref", s) ++ Prop("target_ref", t) ++ Prop("x_car_inferred_end", e.inferred)
         ++ Prop("x_car_corroborated_by", e.corr) >>
Edge ==
  /\ phase = "edges" /\ at < Len(car.edges)
  /\ LET e == car.edges[at + 1]  s == SourceOf(e)  t == TargetOf(e)
         id == << "relationship", e.class, e.verb, s, t, e.ts, e.method >>
     IN IF s = Blank \/ t = Blank
        THEN unresolved' = unresolved + 1 /\ objs' = Flagged(objs, e)
        ELSE /\ objs' = Put(Flagged(objs, e), Drawing(id, s, t, e))
             /\ UNCHANGED unresolved
  /\ at' = at + 1
  /\ UNCHANGED << car, phase, primary, obs, obsOf, contentOf >>

\* A hit brings its analytic's indicator, the techniques, and its sighting.
IndicatorPuts(a) ==
  LET ind == << "indicator", a >>
  IN << << ind, Prop("x_car_analytic", a) >> >>
     \o FlattenSeq([ i \in DOMAIN Analytics[a] |->
          LET ap == << "attack-pattern", Analytics[a][i] >>
          IN << << ap, Prop("name", Analytics[a][i]) >>,
                << << "relationship", "indicates", ind, ap >>, Prop("source_ref", ind) ++ Prop("target_ref", ap) >> >> ])
Sighting(h) ==
  LET key == << h.host, h.obj, h.guid >>
      host == << "identity", h.host >>
  IN << << host, Prop("name", h.host) >>,
        << << "sighting", h.analytic, h.guid, h.ts, h.clause >>,
           Prop("sighting_of_ref", << "indicator", h.analytic >>) ++ Prop("where_sighted_ref", host)
           ++ Prop("x_car_action", h.act) ++ Prop("x_car_timestamp", h.ts)
           ++ Prop("observed_data_refs", IF key \in DOMAIN obs THEN {obs[key]} ELSE {}) >> >>
Hit ==
  /\ phase = "hits" /\ at < Len(car.hits)
  /\ LET h == car.hits[at + 1]
     IN objs' = IF h.analytic \notin DOMAIN Analytics THEN objs
                ELSE PutAll(objs, IndicatorPuts(h.analytic) \o Sighting(h))
  /\ at' = at + 1
  /\ UNCHANGED << car, phase, primary, obs, obsOf, contentOf, unresolved >>

NextPhase == [ rows |-> "nodes", nodes |-> "edges", edges |-> "hits", hits |-> "done" ]
Inputs == IF phase = "rows" THEN car.rows ELSE IF phase = "nodes" THEN car.nodes
          ELSE IF phase = "edges" THEN car.edges ELSE car.hits
Advance ==
  /\ phase \in DOMAIN NextPhase /\ at = Len(Inputs)
  /\ phase' = NextPhase[phase] /\ at' = 0
  /\ UNCHANGED << car, objs, primary, obs, obsOf, contentOf, unresolved >>

Next == Content \/ Row \/ Node \/ Edge \/ Hit \/ Advance
Spec == Init /\ [][Next]_vars

-----------------------------------------------------------------------------
\* Properties.

RefsOf(o) == { o.val[p] : p \in RefProps \cap DOMAIN o.val }
             \cup (UNION { o.val[p] : p \in RefLists \cap DOMAIN o.val })
             \cup { c[2] : c \in { d \in o.alt : d[1] \in RefProps } }

\* Every object a bundle refers to is in the bundle, whatever the rows lack: an
\* identity, a time, a path, a resolved parent; and at every moment of the pass,
\* so that it may stop after any row (Projection.ref, _put).
RefsResolve == \A id \in DOMAIN objs : RefsOf(objs[id]) \subseteq DOMAIN objs

Observed == { r \in ToSet(car.rows) : Seen(r) }
Held(o) == { o.val[p] : p \in DOMAIN o.val \ (RefProps \cup ListProps) }
           \cup (UNION { o.val[p] : p \in DOMAIN o.val \cap { "x_car_logins", "x_car_paths", "x_car_signers" } })
           \cup (UNION { ToSet(t) : t \in UNION { o.val[p] : p \in DOMAIN o.val \cap {"values"} } })
           \cup { c[2] : c \in { d \in o.alt : d[1] \notin RefProps } }
Traces(v) == ({v} \cup { Reads[how][v] : how \in DOMAIN Reads }) \ {Blank}
\* What the builders are known to consume without a home for it: who signed an
\* image the row does not name, a scheme that is not http, text that is blank.
KnownLost(r, c) ==
  \/ /\ r.obj = "process" /\ c \in { "signer", "signature_valid" }
     /\ Present(r, { "image_path", "exe" }) = {} /\ Hashes(r) = {}
  \/ r.obj = "http" /\ c = "url_scheme" /\ Take(r, "scheme", c) = Blank
  \/ /\ r.obj \in { "http", "email" } /\ Take(r, "text", c) = Blank
     /\ \E e \in ToSet(Shape[r.obj].ends) : e[3] = "text" /\ e[4] = c

\* What a row says is in the bundle -- as a property of an entity, as the value
\* two rows disagree on, or verbatim on the observation --, whichever columns it
\* has and whichever rows came before (_Row: nothing homeless is dropped), the
\* three known losses apart.
NothingHomeless ==
  phase = "done" =>
    LET held == UNION { Held(objs[id]) : id \in DOMAIN objs }
    IN \A r \in Observed : \A c \in DOMAIN r.cols :
         Peek(r, c) = Blank \/ KnownLost(r, c) \/ Traces(Peek(r, c)) \cap held # {}

Kept(o, p) == IF p \in ListProps THEN o.val[p] ELSE {o.val[p]} \cup { c[2] : c \in { d \in o.alt : d[1] = p } }

Offered(content) == { << id, content[id].val >> : id \in DOMAIN content }

\* An object holds all that was ever offered to it, in whichever order the rows
\* came: the first value of a property, every other one beside it, and the lists
\* united (_fill: never overwritten, never nulled).
NothingOverwritten ==
  phase = "done" =>
    \A put \in (UNION { ToSet(Offers(r)) : r \in ToSet(car.rows) })
              \cup Offered(ContentObjects(car.rows)) :
      LET o == objs[put[1]]  new == Given(put[2])
      IN \A p \in DOMAIN new :
           p \in DOMAIN o.val /\ (IF p \in ListProps THEN new[p] ELSE {new[p]}) \subseteq Kept(o, p)

RowsAt(host, obj, guid) == { r \in ToSet(car.rows) : RowKey(r) = << host, obj, guid >> }
\* The objects an end of an edge may be: the inferred node, the observation or
\* the entity of a row with that identity, a process that another row names.
EndsOf(e, obj, guid, inferred) ==
  IF guid = Blank THEN {}
  ELSE IF inferred THEN { InferredId(e.host, guid) }
  ELSE IF obj \in EventObjects
  THEN { ObservationId(r) : r \in { s \in RowsAt(e.host, obj, guid) : Reads["ts"][s.ts] # Blank } }
  ELSE { Made(r).id : r \in RowsAt(e.host, obj, guid) }
       \cup (IF obj = "process" /\ \E r \in ToSet(car.rows) : r.host = e.host /\ guid \in NamedBy(r)
             THEN { ProcessId(e.host, guid) } ELSE {})
BothEnds(e) ==
  [ source |-> EndsOf(e, e.srcObj, e.src, e.inferred = "source"),
    target |-> EndsOf(e, e.tgtObj, e.tgt, e.inferred = "target") ]
Drawn(e, ends) ==
  \E id \in DOMAIN objs :
    /\ id[1] = "relationship" /\ Len(id) = 7
    /\ << id[2], id[3], id[6], id[7] >> = << e.class, e.verb, e.ts, e.method >>
    /\ id[4] \in ends.source /\ id[5] \in ends.target
    /\ objs[id].val["source_ref"] = id[4] /\ objs[id].val["target_ref"] = id[5]
    /\ e.corr \subseteq (IF "x_car_corroborated_by" \in DOMAIN objs[id].val
                        THEN objs[id].val["x_car_corroborated_by"] ELSE {})
DrawnOrCounted(ends) ==
  LET open == { i \in DOMAIN ends : {} \in { ends[i].source, ends[i].target } }
  IN /\ unresolved = Cardinality(open)
     /\ \A i \in DOMAIN ends \ open : Drawn(car.edges[i], ends[i])

\* Every edge of the superset is drawn between objects of the records it names,
\* or counted as unresolved, and it is unresolved only when a record it names
\* made no object: no row has the identity and none names the process, or it is
\* an event that was never observed (Projection.edge, _end).
EdgesFindTheirEnds ==
  phase \in {"hits", "done"} =>
    DrawnOrCounted([ i \in DOMAIN car.edges |-> BothEnds(car.edges[i]) ])

\* A sighting is of the row that matched: its observation is the one of the
\* row's action and time (model/stix/README.md: the matched row's observed-data).
SightingOfMatchedRow ==
  \A id \in DOMAIN objs : id[1] = "sighting" =>
    \A o \in (IF "observed_data_refs" \in DOMAIN objs[id].val THEN objs[id].val["observed_data_refs"] ELSE {}) :
      o[5] = objs[id].val["x_car_action"] /\ o[6] = objs[id].val["x_car_timestamp"]
============================================================================
