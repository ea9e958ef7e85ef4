------------------------------ MODULE MCEnrich ------------------------------
(* Four families of rows: one pid used twice and a row that refers to it; a   *)
(* process, its child and their accounts; logons and logoffs; the logs of a   *)
(* capture: in the orders that matter to the pass, who refers to whom before  *)
(* it is enriched.                                                            *)
EXTENDS Enrich, TLC

CONSTANTS h1, h2, g1, g2, g3, g4, p1, p2, l1, l0, sys, ts1,
          sid18, SYSTEM, localsystem, jdoe, image, ip1, ip2, name1, name2

MCHosts == {h1, h2}
MCGuids == {g1, g2, g3, g4}
MCPids == {p1, p2}
MCLuids == {l0, l1, sys}
MCCols == {"image_path", "user", "sid", "uid", "parent_image_path", "file_path",
           "fqdn", "dest_ip", "src_ip", "dest_fqdn", "src_fqdn", "requester_ip_address"}
MCValues == {sid18, SYSTEM, localsystem, jdoe, image, ip1, ip2, name1, name2}
MCObjects == {"process", "file", "thread", "registry", "user_session", "authentication",
              "flow", "http"}
MCFieldsOf ==
  "process" :> {"image_path", "user", "sid", "uid", "parent_image_path"} @@
  "file" :> {"image_path", "user", "uid", "file_path"} @@
  "thread" :> {"user", "uid"} @@
  "registry" :> {"image_path", "user"} @@
  "user_session" :> {"user", "uid"} @@
  "authentication" :> {"user", "uid"} @@
  "flow" :> {"image_path", "user", "fqdn", "dest_ip", "src_ip", "dest_fqdn", "src_fqdn"} @@
  "http" :> {"requester_ip_address"}
MCOwnerInherits == {"image_path", "user", "sid"}
MCParentInherits == "parent_image_path" :> "image_path"
MCFlowInherits == "requester_ip_address" :> "src_ip"
MCAccount == sid18 :> SYSTEM
MCAliases == {SYSTEM, localsystem}
\* Text 4 is of another shape: it sorts after 3 and tells what 2 tells.
MCInstant == << 1, 2, 3, 2 >>

NoCols == [ image_path |-> Blank, user |-> Blank, sid |-> Blank, uid |-> Blank,
            parent_image_path |-> Blank, file_path |-> Blank, fqdn |-> Blank,
            dest_ip |-> Blank, src_ip |-> Blank, dest_fqdn |-> Blank,
            src_fqdn |-> Blank, requester_ip_address |-> Blank ]
Plain(obj, act, g) ==
  [ host |-> h1, obj |-> obj, act |-> act, guid |-> g, time |-> 0, pid |-> Blank,
    refGuid |-> Blank, refPid |-> Blank, target |-> Blank, luid |-> Blank,
    session |-> Blank, opened |-> Blank, subject |-> Blank, col |-> NoCols,
    link |-> Blank, conf |-> Blank, injected |-> Blank, executedAs |-> Blank,
    login |-> Blank, logout |-> Blank, ended |-> 0, openedIn |-> Blank,
    askedFrom |-> Blank, map |-> "other", uid |-> Blank, answers |-> {},
    sha |-> Blank, certSubject |-> Blank, chain |-> << >>, tls |-> FALSE,
    flow |-> Blank, certified |-> Blank ]

AnyOrder3(a, b, c) ==
  { << a, b, c >>, << a, c, b >>, << b, a, c >>, << b, c, a >>, << c, a, b >>, << c, b, a >> }
\* The referring row first or last, the creates both ways round.
BeforeOrAfter(a, b, e, r) ==
  { << a, b, e, r >>, << b, a, e, r >>, << r, a, b, e >>, << e, r, b, a >> }

\* One pid, two processes, the end of the first, and a row that names a process
\* by pid, by guid, or both -- a spoke, a thread, or a child.
Creates(g, hosts, pids, times) ==
  { [ Plain("process", "create", g) EXCEPT !.host = h, !.pid = p, !.time = t ] :
      h \in hosts, p \in pids, t \in times }
Ends == { [ Plain("process", "terminate", g1) EXCEPT !.time = t ] : t \in {0, 1, 2, 4} }
Referring ==
  { [ Plain("thread", "other", g3) EXCEPT !.refPid = p1, !.refGuid = g, !.time = t,
                                          !.target = g2 ] :
      g \in {Blank, g1}, t \in 0 .. 4 }
  \cup { [ Plain("process", "create", g3) EXCEPT !.pid = p, !.refPid = p1, !.refGuid = g,
                                                 !.time = 2 ] :
           p \in {p1, p2}, g \in {Blank, g2, g3} }
EndedTwice ==
  UNION { AnyOrder3(a, e, x) :
            a \in Creates(g1, {h1}, {p1}, {0, 1, 4}), e \in Ends,
            x \in { [ Plain("process", "exit", g1) EXCEPT !.time = t ] : t \in 0 .. 2 } }
ReusedPid ==
  UNION { BeforeOrAfter(a, b, e, r) :
            a \in Creates(g1, {h1}, {p1}, {0, 1, 2, 4}),
            b \in Creates(g2, {h1, h2}, {p1}, {1, 2, 3}) \cup Creates(g2, {h1}, {p2}, {1})
                  \cup Creates(g1, {h2}, {p1}, {1}),
            e \in Ends, r \in Referring }
  \* ... and one that has both a terminate and an exit, either of them untimed.
  \cup { << b >> \o aex \o << r >> :
            b \in Creates(g2, {h1}, {p1}, {1}), r \in { r \in Referring : r.refGuid = Blank },
            aex \in EndedTwice }

\* A process, its child, and what they leave on disk.
AccountCols(img, user, sid) ==
  [ NoCols EXCEPT !["image_path"] = img, !["user"] = user, !["sid"] = sid ]
Owners ==
  { [ Plain("process", "create", g1) EXCEPT !.pid = p1, !.time = 1, !.col = AccountCols(i, u, s) ] :
      i \in {image, Blank}, u \in {Blank, SYSTEM, localsystem, jdoe}, s \in {sid18, Blank} }
Spokes ==
  { [ Plain(o, "other", g2) EXCEPT !.refPid = p1, !.time = 1,
        !.col["user"] = u, !.col["uid"] = s, !.col["file_path"] = f ] :
      o \in {"file", "registry"}, u \in {Blank, localsystem, jdoe}, s \in {sid18, Blank},
      f \in {image, Blank} }
  \cup { [ Plain("process", "terminate", g1) EXCEPT !.refGuid = g1, !.time = 2,
             !.col = AccountCols(Blank, u, s) ] : u \in {Blank, jdoe}, s \in {sid18, Blank} }
Children ==
  { [ Plain("process", "create", g3) EXCEPT !.pid = p2, !.refPid = p1, !.time = 2,
        !.col = [ AccountCols(Blank, u, Blank) EXCEPT !["parent_image_path"] = c ] ] :
      u \in {Blank, jdoe}, c \in {Blank, image} }
Accounts == UNION { { << o, s, c >>, << s, c, o >>, << c, o, s >> } : o \in Owners, s \in Spokes, c \in Children }

\* Logons, logoffs and the authentications that opened them.
Session(g, act, luids, sessions, times) ==
  { [ Plain("user_session", act, g) EXCEPT !.luid = l, !.session = s, !.time = t ] :
      l \in luids, s \in sessions, t \in times }
Auths ==
  { [ Plain("authentication", a[1], g4) EXCEPT !.host = a[2], !.opened = o, !.subject = s ] :
      a \in { << "success", h1 >>, << "success", h2 >>, << "failure", h1 >> },
      o \in {l1, l0, sys}, s \in {sys, Blank} }
Logons ==
  UNION { AnyOrder3(i, o, a) :
            i \in Session(g1, "login", {l1, sys, Blank}, {ts1}, {1}),
            o \in Session(g2, "logout", {l1, sys, Blank}, {ts1, Blank}, {2})
                  \cup Session(g2, "login", {l1}, {ts1}, {3}),
            a \in Auths }
  \cup UNION { BeforeOrAfter(i, r, o, x) :
            i \in Session(g1, "login", {l1, Blank}, {ts1}, {1}),
            o \in Session(g2, "logout", {l1, Blank}, {ts1}, {1}),
            r \in Session(g3, "reconnect", {l1, Blank}, {ts1}, {1, 2}),
            x \in Session(g4, "disconnect", {l1, Blank}, {ts1}, {3}) }

\* The logs of a capture: a flow, what two other rows say of its address, its
\* connection or its certificate, and a request over it.
Flows ==
  { [ Plain("flow", "other", g) EXCEPT !.uid = g1, !.tls = TRUE, !.chain = c,
        !.col["dest_ip"] = ip1, !.col["src_ip"] = ip2, !.col["dest_fqdn"] = f ] :
      g \in {g1, Blank}, c \in { << >>, << g3, g4 >> }, f \in {Blank, jdoe} }
Answers ==
  { [ Plain("flow", "other", Blank) EXCEPT !.map = "zeek_dns", !.host = h, !.uid = g2,
        !.answers = a, !.col["fqdn"] = f ] :
      h \in {h1, h2}, a \in { {ip1}, {ip1, ip2} }, f \in {name1} }
  \cup { [ Plain("flow", "other", g2) EXCEPT !.map = "zeek_dns", !.answers = {ip1},
             !.col["fqdn"] = name2, !.col["dest_ip"] = ip2 ] }
Handshakes ==
  { [ Plain("flow", "other", g) EXCEPT !.map = "zeek_ssl", !.uid = g1, !.tls = TRUE,
        !.chain = << g4 >>, !.col["dest_ip"] = d, !.col["dest_fqdn"] = f ] :
      g \in {g1, g2}, d \in {ip1}, f \in {name2, Blank} }
Certificates ==
  { [ Plain("file", "other", g) EXCEPT !.map = "zeek_x509", !.host = h2, !.sha = g4,
        !.certSubject = s ] : g \in {g3, Blank}, s \in {name1, Blank} }
Requests ==
  { [ Plain(o, "other", g3) EXCEPT !.uid = u, !.col["requester_ip_address"] = i ] :
      o \in {"http", "file"}, u \in {g1, g2}, i \in {ip1, Blank} }
Captures ==
  UNION { { << f, a, b >>, << b, a, f >> } :
            f \in Flows, a \in Answers \cup Handshakes, b \in Answers \cup Certificates }
  \cup UNION { AnyOrder3(f, s, r) : f \in Flows, s \in Handshakes, r \in Requests }

MCInputs == ReusedPid \cup Accounts \cup Logons \cup Captures
=============================================================================
