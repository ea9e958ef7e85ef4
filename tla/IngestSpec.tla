----------------------------- MODULE IngestSpec -----------------------------
(***************************************************************************)
(* What reading a source promises, whatever runs underneath and whatever a *)
(* file may say: either the events of all its files, each once and in      *)
(* input order, or an error and no event at all -- and an error only when  *)
(* something is wrong with the files or something happened to the          *)
(* processes that read them.                                               *)
(***************************************************************************)
EXTENDS Sequences

CONSTANTS
  Meaning(_),  \* the events of a source's files
  Sound(_)     \* nothing is wrong with them

VARIABLES
  source,     \* the files of the source, in the order they are walked
  outcome,    \* "pending", "delivered" or "failed"
  delivered,  \* the events handed to the enrichment
  disturbed   \* a process was killed, interrupted or refused by the system

vars == <<source, outcome, delivered, disturbed>>

Init ==
  /\ outcome = "pending"
  /\ delivered = <<>>
  /\ disturbed = FALSE

Disturb ==
  /\ outcome = "pending"
  /\ disturbed' = TRUE
  /\ UNCHANGED <<source, outcome, delivered>>

Deliver ==
  /\ outcome = "pending"
  /\ Sound(source)
  /\ outcome' = "delivered"
  /\ delivered' = Meaning(source)
  /\ UNCHANGED <<source, disturbed>>

Fail ==
  /\ outcome = "pending"
  /\ disturbed \/ ~Sound(source)
  /\ outcome' = "failed"
  /\ UNCHANGED <<source, delivered, disturbed>>

Next == Disturb \/ Deliver \/ Fail

Spec == Init /\ [][Next]_vars
=============================================================================
