------------------------------ MODULE MCIngest ------------------------------
(***************************************************************************)
(* Instances of Ingest.  The routes keep one route of each kind: several   *)
(* maps, an adapter, no maps at all.  The sources are every file of three  *)
(* lines over a few kinds of line, as an event log and as a container, and *)
(* some directories of several files.                                      *)
(***************************************************************************)
EXTENDS Ingest

CONSTANTS r1, r2, r3, r4, h1

MCRoutes == << <<"_EvtxECmd_Output", <<"evtx_security", "evtx_sysmon">>>>,
               <<"prefetch", <<"plaso_exec_prefetch">>>>,
               <<"winreg", <<"plaso_exec_winreg", "plaso_registry">>>>,
               <<"winevt", Winevt>>,
               <<"rplog", <<>>>>,
               <<"jlecmd", Jumplist>> >>
MCEvtxMaps == <<"evtx_security", "evtx_sysmon">>
MCWinevtRules == << <<"Security", 4688>>, <<"Bits", 59>> >>

Rec(id, claims) ==
  [id |-> id, line |-> 0, host |-> NoHost, claims |-> claims, plaso |-> FALSE,
   parser |-> <<>>, eid |-> 0, channel |-> {}, entries |-> <<>>,
   broken |-> FALSE]
Line_(form, rec) == [form |-> form, rec |-> rec]
Blank == Line_("blank", Rec(r4, {}))
Bad == Line_("bad", Rec(r4, {}))
Scalar == Line_("scalar", Rec(r4, {}))

\* an event both maps claim, one that names its host, one no map claims
Both == Rec(r1, {"evtx_security", "evtx_sysmon"})
Hosted == [Rec(r2, {"evtx_sysmon"}) EXCEPT !.host = h1]
Unclaimed == Rec(r3, {})

Plaso(id, parser, claims) ==
  [Rec(id, claims) EXCEPT !.plaso = TRUE, !.parser = parser]
Shim == Plaso(r1, <<"winreg", "appcompatcache">>, {"plaso_exec_winreg"})
RunKey == Plaso(r2, <<"winreg">>, {"plaso_registry", "plaso_exec_winreg"})
Prefetch == Plaso(r3, <<"prefetch">>, {"plaso_exec_prefetch"})
Restore == Plaso(r4, <<"rplog">>, {})
Started == [Plaso(r1, <<"winevt">>, {"evtx_security"})
              EXCEPT !.eid = 4688, !.channel = {"Security"}]
WrongChannel == [Started EXCEPT !.eid = 59]

Jump(id, entries, broken) ==
  [Rec(id, {"jlecmd_dest"}) EXCEPT !.entries = entries, !.broken = broken]

File(pattern, lines) == [name |-> {pattern}, jsonl |-> FALSE, lines |-> lines]
Container(lines) == [name |-> {"super"}, jsonl |-> TRUE, lines |-> lines]
Three(lines) == {<<a, b, c>> : a, b, c \in lines}

EventLogs ==
  {File("_EvtxECmd_Output", ls) :
     ls \in Three({Line_("plain", Both), Line_("comma", Hosted),
                   Line_("bom", Both), Scalar})}
Containers ==
  {Container(ls) :
     ls \in Three({Line_("plain", Shim), Line_("plain", Prefetch),
                   Line_("comma", RunKey), Line_("plain", Started), Bad, Scalar})}

ManyTables ==
  Container(<<Line_("plain", Shim), Bad, Line_("plain", Prefetch),
              Line_("plain", RunKey), Line_("plain", Restore),
              Line_("plain", Prefetch)>>)
TooManyTables ==
  Container(<<Line_("plain", Shim), Line_("plain", Prefetch),
              Line_("plain", Restore), Line_("plain", Started)>>)
Ported ==
  Container(<<Line_("bracket", Rec(r4, {})), Line_("plain", WrongChannel),
              Line_("plain", Started)>>)
\* a container whose own name routes, and to other maps than its tables
WellNamed ==
  [Container(<<Line_("plain", Shim), Line_("plain", Prefetch),
               Line_("plain", RunKey)>>) EXCEPT !.name = {"super", "prefetch", "winreg"}]
Log == File("_EvtxECmd_Output", <<Line_("plain", Both), Blank,
                                  Line_("plain", Unclaimed),
                                  Line_("plain", Hosted)>>)
JumpLists(broken) ==
  File("jlecmd", <<Line_("plain", Jump(r1, <<"e1", "scalar", "e2">>, FALSE)),
                   Line_("plain", Jump(r2, <<"e1">>, broken))>>)
Unrouted == File("notes", <<Scalar>>)

MCSources ==
  {<<f>> : f \in EventLogs \union Containers}
  \union {<<Log, ManyTables, Unrouted>>, <<ManyTables, Log>>,
          <<Unrouted, Ported>>, <<TooManyTables>>, <<WellNamed>>,
          <<JumpLists(FALSE), Log>>, <<Log, JumpLists(TRUE)>>, <<>>}
=============================================================================
