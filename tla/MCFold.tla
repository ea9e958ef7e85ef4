------------------------------- MODULE MCFold -------------------------------
(* Three values, two of them with one text, and two artefacts; four rows of  *)
(* one event, or three rows of two events and of none.  Prior rows are what  *)
(* an earlier fold of two or three rows made.                                *)
EXTENDS Fold, TLC

CONSTANTS k1, k2, evtx, memory, ref, port, int443, str443, other

MCKeys == {k1, k2}
MCArtefacts == {evtx, memory}
MCRefs == {ref}
MCFields == {port}
MCValues == {int443, str443, other}
MCText == int443 :> "443" @@ str443 :> "443" @@ other :> "8080"

Fresh(key, src, v) ==
  [ key |-> key, src |-> src, ref |-> IF src = evtx THEN ref ELSE Missing,
    vals |-> [ f \in MCFields |-> v ], srcs |-> << >>,
    conflicts |-> [ f \in MCFields |-> << >> ], count |-> 0, by |-> << >> ]

FreshRows(keys) == { Fresh(k, a, v) : k \in keys, a \in MCArtefacts,
                                      v \in MCValues \cup {Missing} }

PriorOf(n) == { Folded(rows)[1] : rows \in [1 .. n -> FreshRows({k1})] }
Prior == PriorOf(2) \cup PriorOf(3)

MCInputs ==
  [1 .. 4 -> FreshRows({k1})]
  \cup [1 .. 3 -> FreshRows(MCKeys \cup {NoIdentity})]
  \cup { << p, r >> : p \in Prior, r \in FreshRows({k1, k2}) }
  \cup { << r, p >> : p \in Prior, r \in FreshRows({k1, k2}) }
=============================================================================
