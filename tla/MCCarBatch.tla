----------------------------- MODULE MCCarBatch -----------------------------
(* Two sources and two tables.  Version 1 of s1 fills both tables, version 2 *)
(* only one, so that a rebuild can leave an export behind.                   *)
EXTENDS CarBatch, TLC

CONSTANTS s1, s2, o1, o2

MCSources == {s1, s2}
MCObjects == {o1, o2}
MCOrder == << s1, s2 >>
MCPopulatedBy ==
  s1 :> [v \in Versions |-> IF v = 1 THEN {o1, o2} ELSE {o1}] @@
  s2 :> [v \in Versions |-> {o2}]

\* zeek/cap and volatility/cap: same name below different roots.
MCKind == s1 :> "zeek" @@ s2 :> "memory"
MCPath == [s \in MCSources |-> << << "cap" >> >>]
=============================================================================
