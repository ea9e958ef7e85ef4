---------------------------- MODULE MCCaseViews ----------------------------
(***************************************************************************)
(* Instances of CaseViews: every case of three sources whose rows are drawn *)
(* from a few that share, pairwise, a record, a hash, a volume or the name *)
(* of an image, and the store of the first source holding one row more.    *)
(***************************************************************************)
EXTENDS CaseViews, TLC

CONSTANTS h1, h2, g1, g2, x1, x2, v1, i1, c1, c2

Empty == [f \in {} |-> c1]
\* what sorts before as text may be later in time, and the other way round
Late == [text |-> 1, instant |-> 3]
Early == [text |-> 2, instant |-> 1]
AsEarly == [text |-> 3, instant |-> 1]
Garbled == [text |-> 0, instant |-> NoInstant]

Row(obj, host, guid, identity, ts, said) ==
  [id |-> 1, obj |-> obj, host |-> host, guid |-> guid, identity |-> identity,
   version |-> 1, ts |-> ts, said |-> said, columns |-> Empty, mined |-> Empty]

\* one record two tools parsed, and the same under a newer recipe
Parsed == Row("process", h1, g1, "intrinsic", Late,
              "image" :> i1 @@ "command_line" :> c1)
ParsedAgain == [Parsed EXCEPT !.said = "image" :> i1 @@ "command_line" :> c2
                                         @@ "sha1_hash" :> x1]
Newer == [ParsedAgain EXCEPT !.version = 2, !.ts = Early]
\* a file of the same bytes, by a strong and by a weak hash
OnDisk == Row("file", h2, NoId, "positional", Early,
              "sha256_hash" :> x2 @@ "sha1_hash" :> x1)
InMemory == Row("module", h2, g2, "positional", Garbled,
                "sha1_hash" :> x1 @@ "image" :> i1)
OtherHost == Row("process", h2, g2, "external", AsEarly, "image" :> i1
                   @@ "command_line" :> c1)
\* a volume, by its column, by what is mined, and behind a spoilt column
Mounted == [Row("registry", h1, NoId, "positional", NoTime, Empty)
              EXCEPT !.columns = "volume" :> v1]
Journal == [Row("file", h2, NoId, "positional", AsEarly, "sha256_hash" :> x2)
              EXCEPT !.columns = "volume" :> Junk,
                     !.mined = "volume" :> <<v1>>]

RowSet == {Parsed, ParsedAgain, Newer, OnDisk, InMemory, OtherHost, Mounted,
           Journal}

Store(name, list) ==
  [name |-> name,
   rows |-> [i \in DOMAIN list |-> [list[i] EXCEPT !.id = i]],
   edges |-> [i \in DOMAIN list |-> [id |-> i, ts |-> list[i].ts]]]

MCCases ==
  {<<Store("s1", <<a>>), Store("s2", <<b>>), Store("s3", <<c>>)>> :
     a, b, c \in RowSet}
  \union {<<Store("s1", <<a, b>>), Store("s2", <<c>>)>> : a, b, c \in RowSet}

MCWindows == {[lo |-> NoBound, hi |-> NoBound], [lo |-> 2, hi |-> NoBound],
              [lo |-> NoBound, hi |-> 2]}
=============================================================================
