------------------------------ MODULE MCDetect ------------------------------
(***************************************************************************)
(* Instances of Detect.  Sigma: every condition of up to five tokens over  *)
(* two selections and their connectives, and of up to four over the        *)
(* quantifiers, over names with a capital among others.  CAR: every filter *)
(* text of up to four tokens, and the analytics that must be deferred.     *)
(* The store has a row for every way the two fields the rules read can be  *)
(* filled.                                                                 *)
(***************************************************************************)
EXTENDS Detect, TLC

CONSTANTS reg, cmd, srv, ip

MCLogSource ==
  "process_creation" :> <<"process", "create">>
    @@ "network_connection" :> <<"flow", "start">>
MCColumns ==
  "Image" :> <<"exe", "image_path">> @@ "ParentImage" :> <<"parent_exe">>
    @@ "DestinationIp" :> <<"dest_ip">> @@ "channel" :> <<"channel">>
MCCarModel ==
  "process" :> {"create", "terminate"} @@ "flow" :> {"start"}
MCPrefixed == "sel*" :> {"sel_a", "sel_b"} @@ "Sel*" :> {"Sel_b"} @@ "no*" :> {}
MCLowerCase == "Sel_b" :> "sel_b" @@ "Sel*" :> "sel*"
MCComparisons ==
  "exe=reg" :> [field |-> "exe", op |-> "==", hits |-> {reg}]
    @@ "parent!=cmd" :> [field |-> "parent_exe", op |-> "!=", hits |-> {cmd}]

\* rows: exe and parent filled in every way, and what no rule is to touch
Row(guid, obj, action, cols) ==
  [guid |-> guid, obj |-> obj, action |-> action, cols |-> cols]
MCStore ==
  {Row("p1", "process", "create", "exe" :> reg @@ "parent_exe" :> cmd),
   Row("p2", "process", "create", "exe" :> reg @@ "parent_exe" :> srv),
   Row("p3", "process", "create", "image_path" :> cmd @@ "parent_exe" :> cmd),
   Row("p4", "process", "create", "image_path" :> reg),
   Row("p5", "process", "create", [c \in {} |-> reg]),
   Row("p6", "process", "terminate", "exe" :> reg),
   Row("f1", "flow", "start", "exe" :> reg @@ "dest_ip" :> ip)}
MCTables == {MCStore}

L(field, mods, wants) == [field |-> field, mods |-> mods, wants |-> wants]
SelA == << {L("Image", {}, {{reg}}), L("channel", {}, {{reg}})} >>
SelB == << {L("ParentImage", {"all"}, {{cmd, srv}, {cmd}})},
           {L("Image", {}, {{cmd}, {srv}})} >>

Rule(condition) ==
  [kind |-> "sigma", id |-> "r", deprecated |-> FALSE, noisy |-> FALSE,
   category |-> "process_creation", techniques |-> {"T1012"},
   condition |-> condition,
   sels |-> "sel_a" :> SelA @@ "sel_b" :> SelB]

Texts(words, n) == UNION {[1..k -> words] : k \in 0..n}
Plain == Texts({"sel_a", "sel_b", "and", "or", "not", "(", ")"}, 5)
Quantifying == Texts({"sel_a", "and", "not", "1", "all", "of", "sel*", "them", "no*"}, 4)
Longer ==
  {<<"sel_a", "or", "not", "sel_b", "and", "sel_a">>,
   <<"(", "sel_a", "or", "sel_b", ")", "and", "not", "sel_b">>,
   <<"sel_a", "and", "not", "1", "of", "sel*">>,
   <<"all", "of", "them", "or", "sel_a", "and", "not", "sel_b">>}

\* one selection's name has a capital
Mixed == Texts({"sel_a", "Sel_b", "not", "1", "of", "sel*", "Sel*"}, 4)
MixedRule(condition) ==
  [Rule(condition) EXCEPT !.sels = "sel_a" :> SelA @@ "Sel_b" :> SelB]

\* the usual shape of a network rule: a selection and not an internal range
Internal == << {L("DestinationIp", {"cidr"}, {{ip}})} >>
NetworkRule ==
  [Rule(<<"sel_a", "and", "not", "internal">>) EXCEPT
     !.category = "network_connection",
     !.sels = "sel_a" :> SelA @@ "internal" :> Internal]

Analytic(searches, marks, code) ==
  [kind |-> "car", id |-> "CAR-1", techniques |-> {"T1012"},
   searches |-> searches, marks |-> marks, code |-> code]
OneSearch == << <<"process", "create">> >>
Filter(text) == <<"filter", "(">> \o text \o <<")">>
Texts2 == Texts({"exe=reg", "parent!=cmd", "and", "or", "not", "(", ")"}, 4)

Twice == Analytic(OneSearch, {}, Filter(<<"exe=reg">>) \o
                                 Filter(<<"not", "parent!=cmd">>))
Torn == Analytic(OneSearch, {}, Filter(<<"exe=reg", "and">>) \o
                                Filter(<<"parent!=cmd">>))
Fine == Filter(<<"exe=reg">>)
Refused ==
  {Analytic(<<>>, {}, Fine),
   Analytic(OneSearch \o OneSearch, {}, Fine),
   Analytic(OneSearch, {"join"}, Fine),
   Analytic(OneSearch, {"derived"}, Fine),
   Analytic(OneSearch, {}, <<>>),
   Analytic(<< <<"email", "create">> >>, {}, Fine),
   Analytic(<< <<"process", "inject">> >>, {}, Fine),
   [Analytic(OneSearch, {}, Fine) EXCEPT !.techniques = {}]}

MCCorpora ==
  {<<Rule(t)>> : t \in Plain \union Quantifying \union Longer}
  \union {<<MixedRule(t)>> : t \in Mixed}
  \union {<<Analytic(OneSearch, {}, Filter(t))>> : t \in Texts2}
  \union {<<Twice, Rule(<<"sel_a">>)>>, <<Torn, Rule(<<"not", "sel_b">>)>>}
  \union {<<a, Rule(<<"sel_a">>)>> : a \in Refused}
  \union {<<[Rule(<<"sel_a">>) EXCEPT !.deprecated = TRUE]>>,
          <<[Rule(<<"sel_a">>) EXCEPT !.noisy = TRUE]>>,
          <<[Rule(<<"sel_a">>) EXCEPT !.category = "pipe_created"]>>,
          <<[Rule(<<"sel_a">>) EXCEPT !.techniques = {}]>>,
          <<Rule(NoCondition)>>, <<NetworkRule>>}
=============================================================================
