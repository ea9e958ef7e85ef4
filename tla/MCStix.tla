------------------------------- MODULE MCStix -------------------------------
(* Stores of four kinds: one row of every object with all its columns, with    *)
(* all but one and with one alone; two rows of one entity, in both orders;     *)
(* rows that share hashes; and a store with edges, inferred nodes and hits.    *)
EXTENDS Stix, TLC

CONSTANTS h1, g1, g2, g3, g4

Columns ==
  [ process |-> { "pid", "command_line", "current_working_directory", "integrity_level", "parent_guid", "ppid",
                  "parent_command_line", "parent_image_path", "parent_exe", "sid", "uid", "user", "image_path", "exe",
                  "sha256_hash", "signer", "signature_valid", "target_guid", "target_pid", "target_name", "call_trace" },
    file |-> { "file_path", "file_name", "md5_hash", "sha256_hash", "creation_time", "mime_type", "signer",
               "owner_uid", "owner", "uid", "user", "pid", "ppid", "image_path", "content" },
    module |-> { "module_path", "module_name", "md5_hash", "signature_valid", "base_address", "pid", "image_path", "tid" },
    driver |-> { "image_path", "module_name", "sha256_hash", "signer", "base_address", "pid" },
    flow |-> { "src_ip", "dest_ip", "src_port", "transport_protocol", "out_bytes", "start_time", "pid", "ppid", "exe", "image_path" },
    socket |-> { "local_address", "remote_port", "protocol", "family", "pid", "image_path" },
    http |-> { "requester_ip_address", "url_domain", "url_full", "url_scheme", "url_remainder", "http_version",
               "user_agent_full", "request_body_bytes", "response_status_code" },
    authentication |-> { "uid", "user", "target_uid", "target_user", "auth_service" },
    user_session |-> { "uid", "user", "src_ip", "login_id" },
    service |-> { "name", "image_path", "exe", "command_line", "pid", "uid", "user" },
    thread |-> { "src_pid", "tgt_tid", "start_module", "start_address", "uid", "user" },
    registry |-> { "key", "value", "data", "type", "user", "pid", "image_path" },
    email |-> { "from", "to", "subject", "date", "attachment_name", "attachment_mime_type", "attachment_size",
                "message_links", "src_ip" } ]
HashCols == { "md5_hash", "sha256_hash" }
AllColumns == UNION { Columns[o] : o \in DOMAIN Columns }

\* A column holds its name, or its name and a mark; a marked address, number or
\* type is not one, a marked text is blank, and a marked sid is no real one.
Marked(c) == c \o "'"
Mixed == { "A1", "a1", "B1", "b1", "C2", "c2" }
Texts == AllColumns \cup { Marked(c) : c \in AllColumns } \cup Mixed \cup { "t1", "t2", "never" }
MCValues == Texts \cup {g1, g2, g3, g4}
Reading(how, ok) == [ v \in MCValues |-> IF ok[v] THEN v \o ("." \o how) ELSE Blank ]
Unmarked == [ v \in MCValues |-> v \in AllColumns ]
MCReads ==
  [ how \in { "int", "ip", "family", "scheme", "regtype", "integrity", "text" } |-> Reading(how, Unmarked) ]
  @@ "ts" :> [ v \in MCValues |-> IF v \in Texts \ {"never"} THEN v \o "Z" ELSE Blank ]
  @@ "sid" :> [ v \in MCValues |-> IF v \in { "sid", "uid", "target_uid" } THEN "S-1-5-21-" \o v ELSE Blank ]
  @@ "hash" :> ("A1" :> "a1" @@ "a1" :> "a1" @@ "B1" :> "b1" @@ "b1" :> "b1" @@ "C2" :> "c2" @@ "c2" :> "c2"
                @@ [ v \in MCValues |-> IF v \in HashCols THEN v \o ".x" ELSE Blank ])
  @@ "base" :> [ v \in MCValues |-> IF v \in Texts THEN v \o ".base" ELSE Blank ]
  @@ "dir" :> [ v \in MCValues |-> IF v \in AllColumns THEN v \o ".dir" ELSE Blank ]
MCHashOrder == << "a1", "b1", "c2", "md5_hash.x", "sha256_hash.x" >>
MCAnalytics == [ CAR1 |-> << "T1", "T2" >>, CAR2 |-> << "T2" >> ]

-----------------------------------------------------------------------------
RowOf(o, act, g, w, t, cols) ==
  [ host |-> h1, obj |-> o, act |-> act, guid |-> g, owning |-> w, ts |-> t, cols |-> cols ]
Plain(cs) == [ c \in cs |-> c ]
Twin(cs) == [ c \in cs |-> IF c \in { "file_path", "key", "name", "sid", "owner_uid", "uid" } THEN c ELSE Marked(c) ]
Store(rows) == [ rows |-> rows, nodes |-> << >>, edges |-> << >>, hits |-> << >> ]
Owner(o) == IF o \in {"process", "email"} THEN Blank ELSE g2
Act(o) == IF o = "process" THEN "access" ELSE "create"

Singles ==
  UNION { { Store(<< RowOf(o, Act(o), g1, Owner(o), "t1", Plain(cs)) >>) :
              cs \in { Columns[o] } \cup { Columns[o] \ {c} : c \in Columns[o] } \cup { {c} : c \in Columns[o] } \cup { {} } } : o \in DOMAIN Columns }
  \cup { Store(<< RowOf(o, "create", g, w, t, Plain(Columns[o])) >>) :
           o \in DOMAIN Columns, g \in {g1, Blank}, w \in {g2, Blank}, t \in { "t1", "never" } }
Pairs ==
  UNION { { Store(<< r, s >>) : r \in { RowOf(o, "create", g1, Owner(o), "t1", Plain(Columns[o])) },
                                s \in { RowOf(o, a, g, w, "t2", Twin(Columns[o])) : a \in { "create", "terminate" }, g \in {g1, g3}, w \in {Owner(o), Blank} } } : o \in DOMAIN Columns }
  \cup UNION { { Store(<< s, r >>) : r \in { RowOf(o, "create", g1, Owner(o), "t1", Plain(Columns[o])) },
                                     s \in { RowOf(o, "create", g, Blank, "t2", Twin(Columns[o])) : g \in {g1, g3} } } : o \in DOMAIN Columns }

Hashed(o, g, md5, sha) ==
  RowOf(o, "create", g, Blank, "t1",
        [ c \in ({ "image_path" } \cup (IF md5 = Blank THEN {} ELSE {"md5_hash"}) \cup (IF sha = Blank THEN {} ELSE {"sha256_hash"})) |->
            IF c = "md5_hash" THEN md5 ELSE IF c = "sha256_hash" THEN sha ELSE "image_path" ])
Contents ==
  { Store(<< Hashed("file", g1, m1, s1), Hashed("process", g, m2, s2), Hashed("file", g3, m3, s3) >>) :
      m1 \in {"A1", Blank}, s1 \in {"b1", "C2"}, g \in {g2, Blank}, m2 \in {"a1", Blank}, s2 \in {"B1", Blank},
      m3 \in {"b1"}, s3 \in {"c2", "B1"} }

Create(g, parent) == RowOf("process", "create", g, Blank, "t1", "exe" :> "exe" @@ "parent_guid" :> parent)
Ended(g) == RowOf("process", "terminate", g, Blank, "t2", "pid" :> "pid")
Access == RowOf("process", "access", g3, g1, "t2", "target_guid" :> g4 @@ "target_name" :> "target_name")
Auth(t) == RowOf("authentication", "success", g2, g1, t, "user" :> "user")
FileRow == RowOf("file", "create", g4, g1, "t1", "file_path" :> "file_path" @@ "pid" :> "pid")
EdgeOf(so, s, to, t, inf, corr) ==
  [ host |-> h1, class |-> IF inf = "none" THEN "declared" ELSE "derived", verb |-> "created", ts |-> "t1",
    method |-> "native_guid", srcObj |-> so, src |-> s, tgtObj |-> to, tgt |-> t, inferred |-> inf, corr |-> corr ]
HitOn(a, r, clause) ==
  [ analytic |-> a, host |-> h1, obj |-> r.obj, act |-> r.act, guid |-> r.guid, ts |-> r.ts, clause |-> clause ]
Graphs ==
  { [ rows |-> rows,
      nodes |-> nodes,
      edges |-> << EdgeOf("process", g1, "file", g4, "none", {}), EdgeOf("process", g1, "process", g4, "none", {}),
                   EdgeOf("process", g2, "authentication", g2, inf, {g1, g4}), e >>,
      hits |-> << HitOn("CAR1", rows[1], "c1"), HitOn("CAR3", rows[1], "c1"), HitOn("CAR2", rows[2], "c1") >> ] :
      rows \in { << Create(g1, p), x, y >> : p \in {g2, Blank}, x \in { Ended(g1), FileRow, Access },
                                             y \in { Auth("t1"), Auth("never"), FileRow, Access } },
      nodes \in { << >>, << [ host |-> h1, guid |-> g2, corr |-> {g1, g3} ] >> },
      inf \in { "none", "source" },
      e \in { EdgeOf("process", g2, "process", g1, "none", {}), EdgeOf("process", g1, "process", g3, "target", {g1}),
              EdgeOf("process", g1, "file", g4, "none", {g1}) } }
MCStores == Singles \cup Pairs \cup Contents \cup Graphs
MCSightings == { s \in Graphs : s.rows[2] = Ended(g1) }
=============================================================================
