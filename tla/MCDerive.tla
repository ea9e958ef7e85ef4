------------------------------ MODULE MCDerive ------------------------------
(* Three families of rows: a process and two files that share hashes or paths  *)
(* or neither; records that name a process by guid, by offset, as parent or as *)
(* target of an injection, beside or without a record of it; and accounts.     *)
EXTENDS Derive, TLC

CONSTANTS h1, h2, g1, g2, g3, g4, pathX, pathY, says1, says2, off1, bad, A, a, m, jdoe, sys

MCGuids == {g1, g2, g3, g4}
MCMint == off1 :> g4 @@ bad :> Blank
MCContents == {A, a, m, jdoe, sys}
MCNorm == A :> a @@ a :> a @@ m :> m @@ jdoe :> jdoe @@ sys :> sys
MCAccepted == "hash" :> {A, a, m} @@ "sid" :> {jdoe}
MCHashFields == << "sha256_hash", "md5_hash" >>
MCAccountFields == << "sid", "owner_uid" >>
MCObjectOrder == << "file", "http", "process", "thread" >>

NoContent == [ f \in ContentFields |-> Blank ]
Plain(obj, act, g) ==
  [ host |-> h1, obj |-> obj, act |-> act, guid |-> g, path |-> Blank,
    content |-> NoContent, fuids |-> {}, owning |-> Blank, owningRef |-> Blank,
    owningAt |-> Blank, parent |-> Blank, parentRef |-> Blank, injected |-> Blank,
    injectRef |-> Blank, accessed |-> Blank, executedAs |-> Blank, sessions |-> {},
    said |-> Blank ]
Hashed(r, sha, md5, path) ==
  [ r EXCEPT !.path = path, !.content["sha256_hash"] = sha, !.content["md5_hash"] = md5 ]

\* A process, two files -- one of them elsewhere, or without an identity --, and
\* a second record of the process, which knows less.
Images ==
  { << p, f, h >> :
      p \in { Hashed(Plain("process", "create", g1), s, d, w) : s \in {A, Blank}, d \in {m, Blank}, w \in {pathX, Blank} },
      f \in { Hashed(Plain("file", "create", g2), s, d, w) : s \in {a, Blank}, d \in {m, Blank}, w \in {pathX, pathY} },
      h \in { Hashed(Plain("file", "create", g), s, m, w) : g \in {g1, g3}, s \in {a, Blank}, w \in {pathX, pathY} }
            \cup { [ Hashed(Plain("file", "create", g3), a, Blank, pathX) EXCEPT !.host = h2 ] }
            \cup { Hashed(Plain("file", "create", Blank), a, m, pathY) } }
Ended == Hashed(Plain("process", "other", g1), Blank, m, Blank)
Turned(t) == << t[3], t[2], t[1] >>
LinkInputs ==
  { t : t \in Images } \cup { Turned(t) : t \in Images }
  \cup { << Ended >> \o t : t \in { u \in Images : u[1].content["sha256_hash"] = A
                                                  /\ u[1].path = pathX /\ u[2].content["md5_hash"] = m } }

\* Transfers: one request names two files, one of them is recorded, twice, or on
\* another host.
Http == [ Plain("http", "other", g1) EXCEPT !.fuids = {g2, g3} ]
FileOf(g) == Plain("file", "create", g)
TransferInputs ==
  { << Http, FileOf(g2), f >> : f \in { FileOf(g3), FileOf(g2), FileOf(g1),
                                        [ FileOf(g3) EXCEPT !.host = h2 ] } }

\* Who speaks of a process g4 that has a record or none.
Spokes(g) ==
  { [ Plain("file", "create", g) EXCEPT !.owningRef = o, !.owning = w, !.said = s ] :
      o \in {g4, g, Blank}, w \in {g4, Blank}, s \in {says1, Blank} }
  \cup { [ Plain("file", "create", g) EXCEPT !.owningAt = o, !.said = says2, !.host = h ] :
           o \in {off1, bad}, h \in {h1, h2} }
Children(g) ==
  { [ Plain("process", "create", g) EXCEPT !.parentRef = c, !.parent = w, !.said = s, !.host = h ] :
      c \in {g4, g}, w \in {g4, Blank}, s \in {says1, says2}, h \in {h1, h2} }
Threads(g, owner) ==
  { [ Plain("thread", "create", g) EXCEPT !.injectRef = g4, !.owning = owner, !.injected = w,
                                          !.owningRef = o, !.said = says2 ] :
      w \in {g4, Blank}, o \in {owner, g4} }
Of4 == { Plain("process", "create", g4), Plain("process", "other", g4),
         [ Plain("process", "create", g4) EXCEPT !.host = h2 ],
         [ Plain("process", "access", g1) EXCEPT !.owning = g4, !.accessed = g1 ],
         [ Plain("process", "access", g3) EXCEPT !.owning = g3, !.accessed = g3 ],
         [ Plain("thread", "create", g3) EXCEPT !.owning = g1, !.sessions = {g2, g3} ],
         [ Plain("file", "create", g3) EXCEPT !.owning = g3, !.executedAs = g1 ] }
ReferenceInputs ==
  { << s, c, q >> : s \in Spokes(g2), c \in Children(g1), q \in Of4 }
  \cup { << c, s, t >> : s \in Spokes(g2), c \in { d \in Children(g1) : d.host = h1 },
                         t \in Threads(g3, g1) \cup Threads(g3, Blank) }
  \cup { << t, c >> : t \in Threads(g3, g1), c \in { d \in Children(g1) : d.host = h1 } }

\* Accounts: one row with two roles, another with one of them or a singleton.
Accounts ==
  { [ Plain("file", "create", g) EXCEPT !.content["sid"] = s, !.content["owner_uid"] = u, !.path = p ] :
      g \in {g1, g2, Blank}, s \in {jdoe, sys, Blank}, u \in {jdoe, Blank}, p \in {pathX, pathY} }
AccountInputs == { << b, c >> : b \in Accounts, c \in Accounts }

MCInputs == LinkInputs \cup TransferInputs \cup ReferenceInputs \cup AccountInputs
=============================================================================
