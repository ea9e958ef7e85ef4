------------------------------- MODULE Enrich -------------------------------
(***************************************************************************)
(* enrich.enrich after the fold: one pass over a source's events, which    *)
(* are records mutated in place.  The indexes (creates by guid and by pid, *)
(* exits, sessions, logins, creates by image path, and for a capture the   *)
(* flows, DNS answers, SNIs and certificates) are built before the pass,   *)
(* so they are operators over what the pass does not write, or over the    *)
(* rows as given; but what an event inherits is read from its owner's      *)
(* record at that moment, which the pass may or may not have reached.      *)
(*                                                                         *)
(* Data abstraction.  A time is the TEXT of a timestamp, as _clean_ts left *)
(* it: 0 is the blank one, and the others are numbered in the order of     *)
(* their bytes, which is the order the pass compares them in.  What they   *)
(* tell, Instant, is another matter: texts come in several shapes.  A pid  *)
(* is the number _to_int makes of it, a LUID is lower case, a path is      *)
(* lower case, and a column is one of those that rules or links read.  A   *)
(* Zeek uid and the fingerprint of a certificate are guids, which is what  *)
(* their rows have for a guid; of a DNS answer only the addresses are      *)
(* kept.  Left out: the lifts of volume_guid, mac_address and              *)
(* device_serial (a function of the row's own native values, read by       *)
(* nothing here).                                                          *)
(***************************************************************************)
EXTENDS Naturals, Sequences, FiniteSets

CONSTANTS
  Hosts, Guids, Pids, Luids, Sessions,
  MaxTime,       \* bound: timestamp texts
  Instant,       \* the instant a text tells; one outside the domain tells none
  Cols,          \* columns
  Values,        \* what a column can hold
  Blank,         \* None and ""
  Objects,
  FieldsOf,      \* [Objects -> SUBSET Cols]: the CAR fields of an object
  OwnerInherits, \* inheritance.from_owning_process
  ParentInherits,\* inheritance.from_parent_process: [column of the child -> of the parent]
  FlowInherits,  \* inheritance.from_owning_flow: [column of the spoke -> of the flow]
  Account,       \* identity.well_known_sids: [some Values -> their canonical user]
  Aliases,       \* identity.canonical_aliases: other renderings of those users
  NullLuids, WellKnownLuids,      \* joins.auth_session_luid
  Inputs         \* the sequences of rows a fold can return

Times == 0 .. MaxTime
Tier == {"definitive", "heuristic"}
Link(S) == S \cup {Blank}
Acts == { "create", "terminate", "exit", "login", "reconnect", "unlock",
          "logout", "disconnect", "success", "failure", "other" }
Maps == { "zeek_dns", "zeek_ssl", "zeek_x509", "other" }
Addresses == SUBSET Values
Chains == Seq(Guids)

Row ==
  [ host    : Hosts,
    obj     : Objects,
    act     : Acts,
    guid    : Link(Guids),
    time    : Times,             \* timestamp, as text
    pid     : Link(Pids),        \* of a process row
    refGuid : Link(Guids),       \* ParentProcessGuid of a create, else owning_guid_native
    refPid  : Link(Pids),        \* parent_pid of a create, else owning_pid
    target  : Link(Guids),       \* a thread's TargetProcessGuid
    luid    : Link(Luids),       \* login_id of a session
    session : Link(Sessions),    \* its SessionID
    opened  : Link(Luids),       \* an authentication's TargetLogonId
    subject : Link(Luids),       \* ... and SubjectLogonId
    map     : Maps,              \* source_artefact
    uid     : Link(Guids),       \* native.uid
    answers : Addresses,         \* the addresses in native.answers
    sha     : Link(Guids),       \* sha256_hash
    certSubject : Link(Values),  \* native.certificate.subject
    chain   : Chains,            \* native.cert_chain_fps
    tls     : BOOLEAN,           \* application_protocol is tls
    col     : [Cols -> Link(Values)],
    link    : Link(Guids),       \* parent_guid of a create, else owning_guid
    conf    : Link(Tier),        \* link_confidence
    injected   : Link(Guids),            \* native.target_process_guid
    executedAs : Link(Guids),            \* native.executed_as_process_guid
    login      : Link(Guids),            \* native.session_login_guid
    logout     : Link(Guids),            \* native.session_logout_guid
    ended      : Times,                  \* native.session_end
    openedIn   : Link(Link(Guids) \X Tier),     \* native.target_session_guid, _link
    askedFrom  : Link(Link(Guids) \X Tier),     \* native.subject_session_guid, _link
    flow       : Link(Guids),            \* native.flow_guid
    certified  : Link(Values) ]          \* native.server_cert_subject

ASSUME EnrichAssumption ==
  /\ MaxTime \in Nat /\ Blank \notin Values \cup Tier
  /\ Instant \in [DOMAIN Instant -> Nat] /\ DOMAIN Instant \subseteq 1 .. MaxTime
  /\ FieldsOf \in [Objects -> SUBSET Cols] /\ {"user", "sid", "uid"} \subseteq Cols
  /\ {"fqdn", "dest_ip", "src_ip", "dest_fqdn", "src_fqdn"} \subseteq Cols
  /\ OwnerInherits \subseteq Cols
  /\ ParentInherits \in [DOMAIN ParentInherits -> Cols] /\ DOMAIN ParentInherits \subseteq Cols
  /\ FlowInherits \in [DOMAIN FlowInherits -> Cols] /\ DOMAIN FlowInherits \subseteq Cols
  /\ DOMAIN FlowInherits \cap {"user", "sid", "uid"} = {}
  /\ Account \in [DOMAIN Account -> Values] /\ DOMAIN Account \subseteq Values
  /\ Aliases \subseteq Values
  /\ Inputs \subseteq Seq(Row)

VARIABLES
  given,    \* the rows as they came from the fold
  evs,      \* the rows as they are now
  n         \* the row the pass is at

vars == << given, evs, n >>

-----------------------------------------------------------------------------
(* The indexes.                                                            *)

IsCreate(r) == r.obj = "process" /\ r.act = "create"
IsEnd(r) == r.obj = "process" /\ r.act \in {"terminate", "exit"}
Latest(S) == CHOOSE q \in S : \A p \in S : p <= q
Earliest(S) == CHOOSE q \in S : \A p \in S : q <= p

\* _by_guid: a later create with the same guid replaces an earlier one.
ByGuid(rows, host, guid) ==
  { q \in DOMAIN rows : IsCreate(rows[q]) /\ rows[q].host = host
                        /\ guid # Blank /\ rows[q].guid = guid }

ByPid(rows, host, pid) ==
  { q \in DOMAIN rows : IsCreate(rows[q]) /\ rows[q].host = host
                        /\ pid # Blank /\ rows[q].pid = pid }

\* _exit_by_guid: the first text among the ends of a process (it may have a
\* terminate and an exit), unless the first row met has none.
EndsOf(rows, r) ==
  { q \in DOMAIN rows : IsEnd(rows[q]) /\ rows[q].host = r.host
                        /\ r.guid # Blank /\ rows[q].guid = r.guid }

ExitOf(rows, r) ==
  LET ends == EndsOf(rows, r)
      stamps == { rows[q].time : q \in ends } \ {0}
  IN  IF ends = {} \/ stamps = {} \/ rows[Earliest(ends)].time = 0 THEN 0
      ELSE Earliest(stamps)

\* _alive_at(owner, ts, exits)
AliveAtUnbounded(rows, r, ts) == TRUE           \* mutant: exits are not looked at
AliveAt(rows, r, ts) == ts = 0 \/ ExitOf(rows, r) = 0 \/ ts <= ExitOf(rows, r)

\* _match over the creates of a pid, which are sorted (stably) by the texts of
\* their times: {q}, or {} when the pid means no process.
Match(rows, host, pid, ts) ==
  LET creates == ByPid(rows, host, pid)
      eligible == { q \in creates : rows[q].time <= ts /\ AliveAt(rows, rows[q], ts) }
  IN  IF ts = 0 THEN IF Cardinality(creates) = 1 THEN creates ELSE {}
      ELSE { q \in eligible : \A p \in eligible :
               rows[p].time < rows[q].time \/ (rows[p].time = rows[q].time /\ p <= q) }

\* What a fold returns: no row is tied to another yet but by the owner it came
\* with, a handshake is a flow (mappings/zeek_ssl.py), and the process that a
\* host knows by a guid is created by one row: the key of the fold has the host,
\* the guid and the action, and a create has neither target nor access level.
ASSUME FoldedRows ==
  \A rows \in Inputs : \A p, q \in DOMAIN rows :
    /\ rows[p].openedIn = Blank /\ rows[p].askedFrom = Blank /\ rows[p].logout = Blank
    /\ rows[p].map = "zeek_ssl" => rows[p].obj = "flow"
    /\ (/\ rows[p].host = rows[q].host /\ rows[p].guid # Blank /\ rows[p].guid = rows[q].guid
        /\ IsCreate(rows[p]) /\ IsCreate(rows[q])) => p = q

-----------------------------------------------------------------------------
(* The steps of the loop body: each gives the row it leaves behind.        *)

\* The process a row refers to, by its guid (definitive) or else by its pid in
\* the window (heuristic): _resolve_owner, and the same for a parent.
Named(rows, r) == ByGuid(rows, r.host, r.refGuid)
InWindow(rows, r) == Match(rows, r.host, r.refPid, r.time)

Referred(rows, r) == IF Named(rows, r) # {} THEN Named(rows, r) ELSE InWindow(rows, r)

TierOfMethod(rows, r) ==                \* mutant: the method, not the tier
  IF Named(rows, r) # {} THEN "native_guid" ELSE "pid_window"

TierOf(rows, r) == IF Named(rows, r) # {} THEN "definitive" ELSE "heuristic"

FillOverwriting(r, from, owner) ==      \* mutant: a native value is replaced
  [ r EXCEPT !.col = [ c \in Cols |->
      IF c \in DOMAIN from \cap FieldsOf[r.obj] /\ owner.col[from[c]] # Blank
      THEN owner.col[from[c]] ELSE r.col[c] ] ]

FillUnfielded(r, from, owner) ==        \* mutant: f in obj_fields left out
  [ r EXCEPT !.col = [ c \in Cols |->
      IF c \in DOMAIN from /\ r.col[c] = Blank THEN owner.col[from[c]] ELSE r.col[c] ] ]

\* Inheritance: only blank columns, only the object's own fields.
Fill(r, from, owner) ==
  [ r EXCEPT !.col = [ c \in Cols |->
      IF c \in DOMAIN from \cap FieldsOf[r.obj] /\ r.col[c] = Blank
      THEN owner.col[from[c]] ELSE r.col[c] ] ]

FromOwner == [ c \in OwnerInherits |-> c ]

SidOf(r) == IF r.col["sid"] # Blank THEN r.col["sid"] ELSE r.col["uid"]

\* The canonical name of a well-known account: blanks and its other renderings.
Canonical(r) ==
  IF /\ SidOf(r) \in DOMAIN Account /\ "user" \in FieldsOf[r.obj]
     /\ r.col["user"] \in Aliases \cup {Blank}
  THEN [ r EXCEPT !.col["user"] = Account[SidOf(r)] ] ELSE r

Parented(rows, r) ==
  LET found == Referred(rows, r) IN
  IF found = {} \/ Latest(found) = n THEN r
  ELSE LET parent == rows[Latest(found)] IN
       Fill([ r EXCEPT !.link = parent.guid, !.conf = TierOf(rows, r) ],
            ParentInherits, parent)

Owned(rows, r) ==
  LET found == Referred(rows, r) IN
  IF found = {} THEN r
  ELSE LET owner == rows[Latest(found)] IN
       Fill([ r EXCEPT !.link = owner.guid, !.conf = TierOf(rows, r) ],
            FromOwner, owner)

\* CreateRemoteThread: the injected process, unless it is the owner itself.
Injected(rows, r) ==
  LET tgt == ByGuid(rows, r.host, r.target) IN
  IF tgt = {} \/ (Referred(rows, r) # {} /\ Latest(Referred(rows, r)) = Latest(tgt)) THEN r
  ELSE [ r EXCEPT !.injected = rows[Latest(tgt)].guid ]

\* _link_file_to_process, with file_path and image_path.
Executed(rows, r) ==
  LET path == r.col["file_path"]
      by == { q \in DOMAIN given : IsCreate(given[q]) /\ given[q].host = r.host
                                   /\ path # Blank /\ given[q].col["image_path"] = path }
  IN  IF by = {} THEN r ELSE [ r EXCEPT !.executedAs = given[Earliest(by)].guid ]

\* _session_index, _link_auth_sessions: the last session row with that LUID.
SessionOf(rows, host, luid) ==
  LET ours == { q \in DOMAIN rows : rows[q].obj = "user_session"
                  /\ rows[q].host = host /\ rows[q].luid = luid }
  IN  IF luid \in NullLuids \cup {Blank} \/ ours = {} THEN Blank
      ELSE << rows[Latest(ours)].guid,
              IF luid \in WellKnownLuids THEN "heuristic" ELSE "definitive" >>

AuthLinked(rows, r) ==
  LET opened == SessionOf(rows, r.host, r.opened)
      asked  == SessionOf(rows, r.host, r.subject)
  IN  [ r EXCEPT !.openedIn  = IF r.act = "success" /\ opened # Blank THEN opened ELSE @,
                 !.askedFrom = IF asked # Blank THEN asked ELSE @ ]

\* _login_indexes: the FIRST login with that LUID, else with that SessionID.
LoginsOf(rows, r) ==
  LET logins == { q \in DOMAIN rows : rows[q].obj = "user_session"
                    /\ rows[q].act \in {"login", "reconnect", "unlock"}
                    /\ rows[q].host = r.host }
      same == { q \in logins : r.luid # Blank /\ rows[q].luid = r.luid }
  IN  IF same # {} THEN same
      ELSE { q \in logins : r.session # Blank /\ rows[q].session = r.session }

\* A capture's indexes hold the FIRST row of a connection, of an address, of a
\* certificate; for two of them the row's own guid is the key.
Own(r, other) == IF r.guid # Blank THEN r.guid ELSE other

\* _flow_by_uid
FlowsOf(host, uid) ==
  { q \in DOMAIN given : given[q].obj = "flow" /\ given[q].host = host
                         /\ uid # Blank /\ Own(given[q], given[q].uid) = uid }

\* _dns_resolution: the DNS rows that resolved some domain to this address.
Resolving(host, ip) ==
  { q \in DOMAIN given : given[q].map = "zeek_dns" /\ given[q].host = host
                         /\ given[q].col["fqdn"] # Blank
                         /\ ip # Blank /\ ip \in given[q].answers }

\* _sni_by_uid: the TLS rows of a connection whose client named a server.
Naming(host, uid) ==
  { q \in DOMAIN given : given[q].map = "zeek_ssl" /\ given[q].host = host
                         /\ given[q].col["dest_fqdn"] # Blank
                         /\ uid # Blank /\ Own(given[q], given[q].uid) = uid }

\* _cert_by_fingerprint: of any host.
Certifying(print) ==
  { q \in DOMAIN given : given[q].map = "zeek_x509" /\ given[q].certSubject # Blank
                         /\ Own(given[q], given[q].sha) = print }

FirstSaid(by, c) == IF by = {} THEN Blank ELSE given[Earliest(by)].col[c]
IfBlank(r, c, v) == IF r.col[c] = Blank THEN [ r EXCEPT !.col[c] = v ] ELSE r

\* _link_zeek_spoke_to_flow
Spoken(rows, r) ==
  LET by == FlowsOf(r.host, r.uid) IN
  IF by = {} THEN r
  ELSE Fill([ r EXCEPT !.flow = rows[Earliest(by)].guid ], FlowInherits, rows[Earliest(by)])

\* _stamp_resolved_fqdn, then _stamp_sni_fqdn where that gave nothing.
Labelled(r) ==
  LET byDest == IfBlank(r, "dest_fqdn", FirstSaid(Resolving(r.host, r.col["dest_ip"]), "fqdn"))
      bySrc  == IfBlank(byDest, "src_fqdn", FirstSaid(Resolving(r.host, r.col["src_ip"]), "fqdn"))
  IN  IfBlank(bySrc, "dest_fqdn", FirstSaid(Naming(r.host, Own(r, r.uid)), "dest_fqdn"))

\* _stamp_flow_cert: the first certificate of the chain that has a subject.
Certified(r) ==
  LET known == { i \in DOMAIN r.chain : Certifying(r.chain[i]) # {} } IN
  IF ~r.tls \/ known = {} THEN r
  ELSE [ r EXCEPT !.certified = given[Earliest(Certifying(r.chain[Earliest(known)]))].certSubject ]

-----------------------------------------------------------------------------
Init == given \in Inputs /\ evs = given /\ n = 1

Here == evs[n]
Leave(r) == evs' = [evs EXCEPT ![n] = r]
Visit(obj) == n <= Len(evs) /\ Here.obj = obj /\ n' = n + 1 /\ UNCHANGED given

IsLogout(r) == r.act \in {"logout", "disconnect"}

EnrichCreate ==
  /\ Visit("process") /\ IsCreate(Here)
  /\ Leave(Parented(evs, Canonical(Here)))

EnrichAuthentication ==
  /\ Visit("authentication")
  /\ Leave(Owned(evs, Canonical(AuthLinked(evs, Here))))

EnrichFile ==
  /\ Visit("file")
  /\ Leave(Owned(evs, Canonical(Executed(evs, Spoken(evs, Here)))))

EnrichHttp ==
  /\ Visit("http")
  /\ Leave(Owned(evs, Canonical(Spoken(evs, Here))))

EnrichFlow ==
  /\ Visit("flow")
  /\ Leave(Owned(evs, Canonical(Certified(Labelled(Here)))))

EnrichThread ==
  /\ Visit("thread")
  /\ Leave(Injected(evs, Owned(evs, Canonical(Here))))

PairLogoutOnce ==            \* mutant: session_end is kept, the logout is not
  /\ Visit("user_session") /\ IsLogout(Here) /\ LoginsOf(evs, Here) # {}
  /\ LET q == Earliest(LoginsOf(evs, Here)) IN
       evs' = [ evs EXCEPT
                  ![q].logout = Here.guid, ![q].ended = IF @ = 0 THEN Here.time ELSE @,
                  ![n] = Owned(evs, Canonical([ Here EXCEPT !.login = evs[q].guid ])) ]

\* _pair_session_lifecycle writes both ends, then the row goes on as any other.
PairLogout ==
  /\ Visit("user_session") /\ IsLogout(Here) /\ LoginsOf(evs, Here) # {}
  /\ LET q == Earliest(LoginsOf(evs, Here)) IN
       evs' = [ evs EXCEPT
                  ![q].logout = Here.guid, ![q].ended = Here.time,
                  ![n] = Owned(evs, Canonical([ Here EXCEPT !.login = evs[q].guid ])) ]

\* Every other row: a login, an unpaired logout, a process that ends.
EnrichOther ==
  /\ n <= Len(evs) /\ Visit(Here.obj) /\ ~IsCreate(Here)
  /\ Here.obj \notin {"authentication", "file", "thread", "http", "flow"}
  /\ ~(Here.obj = "user_session" /\ IsLogout(Here) /\ LoginsOf(evs, Here) # {})
  /\ Leave(Owned(evs, Canonical(Here)))

Next ==
  \/ EnrichCreate \/ EnrichAuthentication \/ EnrichFile \/ EnrichThread
  \/ EnrichHttp \/ EnrichFlow
  \/ PairLogout \/ EnrichOther

Spec == Init /\ [][Next]_vars

-----------------------------------------------------------------------------
(* Properties.  They are stated over given, the evidence, and evs, what the *)
(* pass has made of it so far.                                             *)

TypeOK ==
  /\ given \in Seq(Row) /\ evs \in Seq(Row)
  /\ DOMAIN evs = DOMAIN given
  /\ n \in 1 .. Len(given) + 1

Evidence(r) ==
  << r.host, r.obj, r.act, r.guid, r.time, r.pid, r.refGuid, r.refPid, r.target,
     r.luid, r.session, r.opened, r.subject, r.map, r.uid, r.answers, r.sha,
     r.certSubject, r.chain, r.tls >>

\* "A natively extracted value is never overwritten": whatever a row is linked
\* to and whoever else is enriched, its columns keep the evidence's values, but
\* for another rendering of the well-known account its own SID names.
ColumnKept(r, e, c) ==
  \/ e.col[c] = Blank
  \/ r.col[c] = e.col[c]
  \/ c = "user" /\ e.col[c] \in Aliases /\ SidOf(e) \in DOMAIN Account
                /\ r.col[c] = Account[SidOf(e)]

EvidenceKept ==
  \A p \in DOMAIN given :
    /\ Evidence(evs[p]) = Evidence(given[p])
    /\ \A c \in Cols : ColumnKept(evs[p], given[p], c)

\* Rows of one capture: q answers for an address, or is of the connection p is
\* of (q's own guid or uid against the uid of a spoke, or a flow's own).
Answering(q, p, ip) ==
  /\ given[q].map = "zeek_dns" /\ given[q].host = given[p].host
  /\ ip \in given[q].answers /\ given[q].col["fqdn"] # Blank
Connected(q, p) ==
  LET mine == IF given[p].obj = "flow" THEN Own(given[p], given[p].uid) ELSE given[p].uid
  IN  /\ given[q].obj = "flow" /\ given[q].host = given[p].host
      /\ mine # Blank /\ mine = Own(given[q], given[q].uid)
Handshake(q, p) ==
  Connected(q, p) /\ given[q].map = "zeek_ssl" /\ given[q].col["dest_fqdn"] # Blank

\* What a capture says of the name at one end of a flow, and a flow of its spokes.
Heard(p, c, v) ==
  \E q \in DOMAIN given :
    \/ /\ given[p].obj = "flow" /\ v = given[q].col["fqdn"]
       /\ \/ c = "dest_fqdn" /\ Answering(q, p, given[p].col["dest_ip"])
          \/ c = "src_fqdn" /\ Answering(q, p, given[p].col["src_ip"])
    \/ /\ given[p].obj = "flow" /\ v = given[q].col[c]
       /\ c = "dest_fqdn" /\ Handshake(q, p)
    \/ /\ given[p].obj \in {"http", "file"} /\ c \in DOMAIN FlowInherits /\ Connected(q, p)
       /\ v \in { given[q].col[FlowInherits[c]], evs[q].col[FlowInherits[c]] }

\* What a process leaves to its child, and what to the rows it owns.
Inherits(e) == IF IsCreate(e) THEN ParentInherits ELSE FromOwner

\* A column that was filled says what the process the row is linked to says,
\* what the connection or the DNS answers of its own capture say, or names the
\* account of the row's own SID.
NothingMadeUp ==
  \A p \in DOMAIN given, c \in Cols :
    given[p].col[c] = Blank /\ evs[p].col[c] # Blank =>
      \/ c = "user" /\ SidOf(given[p]) \in DOMAIN Account
                    /\ evs[p].col[c] = Account[SidOf(given[p])]
      \/ Heard(p, c, evs[p].col[c])
      \/ \E q \in DOMAIN given :
           /\ IsCreate(given[q]) /\ given[q].host = given[p].host
           /\ given[q].guid = evs[p].link
           /\ c \in DOMAIN Inherits(given[p]) \cap FieldsOf[given[p].obj]
           /\ evs[p].col[c] \in { given[q].col[Inherits(given[p])[c]],
                                  evs[q].col[Inherits(given[p])[c]] }

\* Tier 1: a row that natively names a process some row on its host created is
\* linked to that process, whatever its pid and the clock say.
NamedWins ==
  \A p \in 1 .. n - 1 :
    (\E q \in DOMAIN given \ {p} :
       /\ IsCreate(given[q]) /\ given[q].host = given[p].host
       /\ given[p].refGuid # Blank /\ given[q].guid = given[p].refGuid)
    => evs[p].link = given[p].refGuid /\ evs[p].conf = "definitive"

\* Tier 2, the pid window.  Bore(q, p): q created a process under the pid that
\* row p refers to, on p's host.
Bore(q, p) ==
  /\ IsCreate(given[q]) /\ given[q].host = given[p].host
  /\ given[p].refPid # Blank /\ given[q].pid = given[p].refPid

\* The instants say so; a create without a time is older than all others.
CreatedBy(q, p) ==
  given[q].time # 0 => Instant[given[q].time] <= Instant[given[p].time]
EndedBy(q, p) ==
  \E x \in EndsOf(given, given[q]) :
    given[x].time # 0 /\ Instant[given[x].time] < Instant[given[p].time]
NotAfter(x, q) ==
  given[x].time # 0 => given[q].time # 0 /\ Instant[given[x].time] <= Instant[given[q].time]

\* q is the process that p's pid meant at p's instant: it had been created, it
\* had not ended (unless some end of it has no time), and nothing that had the
\* pid then was created after it.
Meant(q, p) ==
  /\ CreatedBy(q, p)
  /\ EndedBy(q, p) => \E x \in EndsOf(given, given[q]) : given[x].time = 0
  /\ \A x \in DOMAIN given :
       Bore(x, p) /\ CreatedBy(x, p) /\ ~EndedBy(x, p) => NotAfter(x, q)

\* The timestamps that decide it: p's own, and those of the creates of its pid
\* and of their ends.
TimesAround(p) ==
  LET bearers == { q \in DOMAIN given : Bore(q, p) }
      ends == UNION { EndsOf(given, given[q]) : q \in bearers }
  IN  { given[x].time : x \in {p} \cup bearers \cup ends } \ {0}

\* Texts whose bytes sort as the instants they tell: those of one shape.
ToldInOrder(T) ==
  /\ T \subseteq DOMAIN Instant
  /\ \A s, t \in T : s < t <=> Instant[s] < Instant[t]

\* A timed row is given a process of its host and its pid, and not itself; and it
\* is the one that was meant, when the timestamps that decide it sort as told.
WindowHolds ==
  \A p \in 1 .. n - 1 :
    evs[p].conf = "heuristic" /\ given[p].conf = Blank /\ given[p].time # 0 =>
      \E q \in DOMAIN given \ {p} :
        /\ given[q].guid = evs[p].link /\ Bore(q, p)
        /\ ToldInOrder(TimesAround(p)) => Meant(q, p)

\* "The process a PID means at time ts: latest create <= ts that had not already
\* terminated by ts" (_match), of any timestamps that tell instants.
MeantByItsPid ==
  \A p \in 1 .. n - 1 :
    (/\ evs[p].conf = "heuristic" /\ given[p].conf = Blank
     /\ given[p].time # 0 /\ TimesAround(p) \subseteq DOMAIN Instant) =>
      \E q \in DOMAIN given \ {p} : given[q].guid = evs[p].link /\ Bore(q, p) /\ Meant(q, p)

\* The uid of a connection ties its spokes to a flow of that connection, and
\* its certificates to the flow that presented them; and a flow has a name as
\* soon as any row of its capture, before it or after it, gives its address or
\* its connection one.
ConnectionTied(r, p) ==
  /\ given[p].obj \in {"http", "file"} =>
       LET guids == { given[q].guid : q \in { q \in DOMAIN given : Connected(q, p) } }
       IN  IF guids = {} THEN r.flow = given[p].flow ELSE r.flow \in guids
  /\ (/\ given[p].obj = "flow"
      /\ \E q \in DOMAIN given : Answering(q, p, given[p].col["dest_ip"]) \/ Handshake(q, p))
       => r.col["dest_fqdn"] # Blank
  /\ r.certified # given[p].certified =>
       \E q \in DOMAIN given, i \in DOMAIN given[p].chain :
         given[q].certSubject = r.certified /\ Own(given[q], given[q].sha) = given[p].chain[i]

ConnectionsTied == \A p \in 1 .. n - 1 : ConnectionTied(evs[p], p)

\* Whoever refers to whom, by guid, by a connection's uid or by a pid that was
\* used before, and in whatever order the rows come: the link is the process,
\* or the flow, that was meant (by a pid: as far as texts sort as instants).
LinkIsRight == NamedWins /\ WindowHolds /\ ConnectionsTied

\* An authentication is tied to sessions of its own host that carry the LUID it
\* names; one that failed opened none; a LUID that recurs every boot never
\* makes a definitive link.
TiedTo(link, p, luid) ==
  link # Blank => \E q \in DOMAIN given :
    /\ given[q].obj = "user_session" /\ given[q].host = given[p].host
    /\ given[q].guid = link[1] /\ given[q].luid = luid
    /\ link[2] = "definitive" => luid \notin WellKnownLuids

SessionsNamed ==
  \A p \in DOMAIN given :
    /\ TiedTo(evs[p].openedIn, p, given[p].opened)
    /\ TiedTo(evs[p].askedFrom, p, given[p].subject)
    /\ given[p].act = "failure" => evs[p].openedIn = Blank

\* A login that was closed and the logout that closed it name each other, and
\* the login's end is that logout's time.
Paired ==
  \A q \in DOMAIN given : evs[q].logout # Blank =>
    \E p \in 1 .. n - 1 :
      /\ given[p].guid = evs[q].logout /\ given[p].host = given[q].host
      /\ evs[p].login = given[q].guid /\ evs[q].ended = given[p].time

\* Both relations of a session, with its authentications and with its end.
SessionsAgree == SessionsNamed /\ Paired

=============================================================================
