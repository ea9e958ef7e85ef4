-------------------------- MODULE MCSpindleRegistry --------------------------
(* One map whose two variants are entries of their own, and an event log map     *)
(* that keeps its record id: entries a developer writes with another source,     *)
(* rendering, name, object, sample or version, right and wrong.                  *)
EXTENDS SpindleRegistry, TLC

CONSTANTS v1, v2, t1, t2, form, other

MCText == v1 :> t1 @@ v2 :> t2
MCPositional == { "SourceImage", "RecordId" }
MCExternal == { "Computer", "EventRecordId" }
MCEntryNames == << "l2t_mft", "l2t_usn", "l2t_usn/close" >>
MCMapNames == "l2t_usn" :> {"l2t_usn"} @@ "l2t_usn/close" :> {"l2t_usn"} @@ "l2t_mft" :> {"l2t_mft"}
Id(source, mode) == [ source |-> source, mode |-> mode ]
Entry(object, version, identity, sample) ==
  [ object |-> object, kind |-> "record", scope |-> IF identity = << >> THEN "positional" ELSE "intrinsic",
    version |-> version, identity |-> identity, sample |-> sample ]
ByUsn == "usn" :> Id("native.usn", "str")
MCEntryForms ==
  "l2t_usn" :>
    { Entry("file", 1, ByUsn, "usn" :> v1), Entry("file", 2, ByUsn, "usn" :> v1),
      Entry("file", 1, "usn" :> Id("file_path", "str"), "usn" :> v1),
      Entry("file", 1, "usn" :> Id("native.usn", "json"), "usn" :> v1),
      Entry("file", 2, ByUsn @@ "path" :> Id("file_path", "str"), [ n \in {"usn", "path"} |-> v1 ]),
      Entry("file", 1, ByUsn, "usn" :> v2), Entry("file", 3, ByUsn, "usn" :> v2),
      Entry("registry", 1, ByUsn, "usn" :> v1), Entry("file", 1, ByUsn, << >>), Entry("file", 2, << >>, << >>),
      Entry("file", 1, "RecordId" :> Id("native.usn", "str"), "RecordId" :> v1) }
  @@ "l2t_usn/close" :> { Entry("file", 1, ByUsn, "usn" :> v1), Entry("file", 1, "_v" :> Id("native.usn", "str"), "_v" :> v1) }
  @@ "l2t_mft" :> { Entry("file", 1, ByUsn, "usn" :> v1) }
MCMapOf == "usn" :> "l2t_usn" @@ "close" :> "l2t_usn" @@ "evtx" :> "windows_evtx"
MCVariantOf == "usn" :> "default" @@ "close" :> "is_close" @@ "evtx" :> Blank
Leaf(object, guid) == [ object |-> object, guid |-> guid ]
ByRecord == << "fields", MCExternal >>
MCLeafForms ==
  "usn" :> { Leaf("file", << "spindle", "l2t_usn" >>), Leaf("registry", << "spindle", "l2t_usn" >>) }
  @@ "close" :> { Leaf("file", << "spindle", n >>) : n \in { "l2t_usn", "l2t_usn/close", "l2t_mft" } }
  @@ "evtx" :> { Leaf("file", ByRecord), Leaf("file", << "none" >>),
                 Leaf("file", << "spindle", "l2t_usn" >>) }
MCEmits == "usn" :> { "native.usn", "file_path" } @@ "close" :> { "native.usn", "file_path" } @@ "evtx" :> {"file_path"}
MCOffsetForm == << "offset", form >>
MCRecipes == { t1, other }
MCRecords ==
  [ leaf \in {"usn", "close", "evtx"} |->
      { [ event |-> "native.usn" :> u @@ "file_path" :> v1,
          raw |-> "SourceImage" :> v1 @@ "RecordId" :> i @@ "Computer" :> v1 @@ "EventRecordId" :> v2 ] :
            u \in {v1, Blank}, i \in {v2, Blank} } ]
MCInitialRegistry ==
  [ recipe |-> t1, positional |-> [ version |-> 1, sample |-> [ f \in MCPositional |-> v1 ] ],
    entries |-> "l2t_usn" :> Entry("file", 1, ByUsn, "usn" :> v1),
    external |-> "evtx_record" :> [ kind |-> "record", object |-> "file", form |-> ByRecord,
                                    sample |-> [ f \in MCExternal |-> v1 ] ]
                 @@ "memory_offset" :> [ kind |-> "record", object |-> "file", form |-> MCOffsetForm, sample |-> << >> ] ]
MCInitialMaps ==
  "usn" :> Leaf("file", << "spindle", "l2t_usn" >>) @@ "close" :> Leaf("file", << "spindle", "l2t_usn" >>)
  @@ "evtx" :> Leaf("file", ByRecord)
============================================================================
