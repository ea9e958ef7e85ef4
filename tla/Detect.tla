------------------------------- MODULE Detect -------------------------------
(***************************************************************************)
(* The behaviour layer: a corpus of MITRE CAR analytics (analytics.py) and *)
(* Sigma rules (sigma.py) is compiled, each document to an analytic that   *)
(* runs or to one that is deferred with its reason; the runnable ones are  *)
(* then shown the rows of their object in a finished car.db.               *)
(*                                                                         *)
(* A row is [obj, action, guid, cols].  A Sigma rule is                    *)
(*   [kind |-> "sigma", id, deprecated, noisy, category, techniques,       *)
(*    condition: tokens, or NoCondition, sels: name -> selection]          *)
(* where a selection is a sequence of blocks (any of them), a block a set  *)
(* of leaves (all of them), and a leaf [field, mods, wants]: a want is the *)
(* set of values it matches.  An analytic of CAR is                        *)
(*   [kind |-> "car", id, techniques, searches, marks, code]               *)
(* its searches <<object, action>> pairs, its marks the words in it that   *)
(* need more than one filter, and its code the tokens of its filters, each *)
(* begun by "filter".  Why a document is deferred is left out.               *)
(***************************************************************************)
EXTENDS Conditions

CONSTANTS
  Corpora,      \* the corpora of a run: sequences of documents
  Tables,       \* the stores: sets of rows
  LogSource,    \* Sigma category -> <<object, action>>
  Columns,      \* Sigma field -> the columns it is looked for in, in order
  CarModel,     \* CAR object -> its actions
  Comparisons,  \* atom of an analytic -> [field, op, hits]
  NoCondition

\* Corpora, conditions and pseudocode are finite texts.
IsText(t) == t \in Seq(Range(t))
ASSUME CorporaAssumption ==
  \A docs \in Corpora :
    /\ IsText(docs)
    /\ \A doc \in Range(docs) :
         IF doc.kind = "sigma" THEN doc.condition # NoCondition => IsText(doc.condition)
                               ELSE IsText(doc.code)

GateOnly == {"eventid", "channel", "provider", "provider_name", "computer",
             "eventrecordid", "task", "opcode", "level", "keywords"}
Unsupported == {"base64", "base64offset", "cidr", "utf16", "utf16le",
                "utf16be", "wide", "gzip"}

VARIABLES
  corpus,     \* the documents
  evidence,   \* the rows of a finished car.db
  turn,       \* which document is compiled, then which analytic is run
  analytics,  \* what was compiled
  flagged     \* the hits: <<analytic, clause, row>>

detectVars == <<corpus, evidence, turn, analytics, flagged>>

(***************************************************************************)
(* Leaves, selections and comparisons over one row.                        *)
(***************************************************************************)
Filled(row, c) == c \in DOMAIN row.cols

\* the first of the field's columns that holds anything
ValueOf(row, field) ==
  LET held == SelectSeq(Columns[field], LAMBDA c: Filled(row, c))
  IN IF held = <<>> THEN {} ELSE {row.cols[Head(held)]}

\* a transform that cannot be honoured refuses to match; so does no value
LeafHolds(leaf, row) ==
  /\ leaf.mods \intersect Unsupported = {}
  /\ leaf.wants # {}
  /\ \E v \in ValueOf(row, leaf.field) :
       IF "all" \in leaf.mods THEN \A w \in leaf.wants : v \in w
                              ELSE \E w \in leaf.wants : v \in w

Gate(leaf) == leaf.field \in GateOnly /\ leaf.mods = {}

BlockHolds(block, row) == \A leaf \in block : Gate(leaf) \/ LeafHolds(leaf, row)

SelectionHolds(sel, row) == \E i \in DOMAIN sel : BlockHolds(sel[i], row)

Selected(rule, row) == {n \in DOMAIN rule.sels : SelectionHolds(rule.sels[n], row)}

\* a null is unequal to every literal, and nothing else
ComparesAs(c, row) ==
  IF ~Filled(row, c.field) THEN c.op = "!="
  ELSE (row.cols[c.field] \in c.hits) = (c.op # "!=")
Compared(row) == {a \in DOMAIN Comparisons : ComparesAs(Comparisons[a], row)}

(***************************************************************************)
(* Compiling.                                                              *)
(***************************************************************************)
Deferred(doc) ==
  [doc |-> doc, runnable |-> FALSE, obj |-> "", action |-> "", clauses |-> <<>>]
Runnable(doc, obj, action, clauses) ==
  [doc |-> doc, runnable |-> TRUE, obj |-> obj, action |-> action,
   clauses |-> clauses]

ConditionOf(rule) ==
  [text |-> rule.condition, from |-> 1, to |-> Len(rule.condition),
   names |-> DOMAIN rule.sels, sigma |-> TRUE]

CompileRule(rule) ==
  LET read == Parse(ConditionOf(rule))
      inScope == /\ ~rule.deprecated /\ ~rule.noisy
                 /\ rule.category \in DOMAIN LogSource
                 /\ rule.techniques # {}
                 /\ rule.condition # NoCondition /\ DOMAIN rule.sels # {}
                 /\ read.at # 0
  IN IF inScope
     THEN Runnable(rule, LogSource[rule.category][1],
                   LogSource[rule.category][2], <<read.holds>>)
     ELSE Deferred(rule)

\* the text between the first "(" after a filter and its ")"
Opening(code, f) == {j \in f..Len(code) : code[j] = "("}
Closing(code, i) ==
  {j \in i..Len(code) : code[j] = ")" /\ Depth(code, j + 1) = Depth(code, i)}
Comparing(code, i, j) ==
  [text |-> code, from |-> i, to |-> j, names |-> DOMAIN Comparisons, sigma |-> FALSE]
ReadFilter(code, f) ==
  LET open   == First(Opening(code, f))
      closed == Closing(code, open)
  IN IF Opening(code, f) = {} \/ closed = {} THEN Error
     ELSE Parse(Comparing(code, open + 1, First(closed) - 1))

\* Clauses by their filter; one that does not compile is left out.
FilterAt(code) == {f \in DOMAIN code : code[f] = "filter"}
Clauses(code) ==
  [f \in {g \in FilterAt(code) : ReadFilter(code, g).at # 0} |-> ReadFilter(code, f).holds]

CompileAnalytic(an) ==
  LET obj == an.searches[1][1]
      action == an.searches[1][2]
      inScope == /\ Len(an.searches) = 1 /\ an.marks = {}
                 /\ DOMAIN Clauses(an.code) # {}
                 /\ obj \in DOMAIN CarModel /\ action \in CarModel[obj]
                 /\ an.techniques # {}
  IN IF inScope THEN Runnable(an, obj, action, Clauses(an.code))
                ELSE Deferred(an)

Compiled(doc) == IF doc.kind = "sigma" THEN CompileRule(doc) ELSE CompileAnalytic(doc)

Compile ==
  /\ turn <= Len(corpus)
  /\ analytics' = Append(analytics, Compiled(corpus[turn]))
  /\ turn' = turn + 1
  /\ UNCHANGED <<corpus, evidence, flagged>>

(***************************************************************************)
(* Running: a CAR analytic is scoped to its action, a Sigma rule to its    *)
(* object alone.                                                           *)
(***************************************************************************)
TrueOf(doc, row) == IF doc.kind = "sigma" THEN Selected(doc, row) ELSE Compared(row)

InScopeOf(an, row) ==
  /\ row.obj = an.obj
  /\ an.doc.kind = "car" => row.action = an.action

\* mutant: an analytic shown every row of its object
InObject(an, row) == row.obj = an.obj

Shown(an, row) == InScopeOf(an, row)

HitsOf(i, an) ==
  {h \in {i} \X (DOMAIN an.clauses) \X evidence :
     Shown(an, h[3]) /\ TrueOf(an.doc, h[3]) \in an.clauses[h[2]]}

Flag ==
  /\ turn > Len(corpus) /\ turn <= 2 * Len(corpus)
  /\ flagged' = flagged \union HitsOf(turn - Len(corpus), analytics[turn - Len(corpus)])
  /\ turn' = turn + 1
  /\ UNCHANGED <<corpus, evidence, analytics>>

DetectInit ==
  /\ corpus \in Corpora /\ evidence \in Tables
  /\ turn = 1 /\ analytics = <<>> /\ flagged = {}

DetectNext == Compile \/ Flag

DetectSpec == DetectInit /\ [][DetectNext]_detectVars

(***************************************************************************)
(* What the layer promises.                                                *)
(***************************************************************************)
AllRun == turn > 2 * Len(corpus)
HitRows(i, k) == {row \in evidence : <<i, k, row>> \in flagged}

Leaves(rule) ==
  UNION {UNION {rule.sels[n][i] : i \in DOMAIN rule.sels[n]} :
           n \in DOMAIN rule.sels}

RuleMeans(rule, row) ==
  /\ row.obj = LogSource[rule.category][1]
  /\ Means(ConditionOf(rule), Selected(rule, row))

\* a rule nothing of which is out of the compiler's scope
Honoured(rule) ==
  /\ ~rule.deprecated /\ ~rule.noisy
  /\ rule.category \in DOMAIN LogSource /\ rule.techniques # {}
  /\ rule.condition # NoCondition /\ DOMAIN rule.sels # {}
  /\ WellFormed(ConditionOf(rule))
  /\ \A leaf \in Leaves(rule) : leaf.mods \intersect Unsupported = {}

\* A well-formed Sigma rule whose quantifiers have targets in lower case runs,
\* and flags exactly the rows its condition is true of: connectives bind as
\* Sigma's do and a quantifier means the selections it names (sigma.py:236-352).
RulesMeanWhatTheySay ==
  AllRun =>
    \A i \in DOMAIN corpus :
      (/\ corpus[i].kind = "sigma" /\ Honoured(corpus[i])
       /\ LowerTargets(ConditionOf(corpus[i]))) =>
        HitRows(i, 1) = {row \in evidence : RuleMeans(corpus[i], row)}

\* a filter is what stands before the next one
FilterEnd(code, f) ==
  LET later == {g \in FilterAt(code) : g > f}
  IN IF later = {} THEN Len(code) ELSE First(later) - 1
\* ... and it is one condition in parentheses if the last token closes the first
OneCondition(code, i, j) ==
  /\ i < j /\ code[i] = "(" /\ code[j] = ")"
  /\ Depth(code, j + 1) = Depth(code, i)
  /\ \A k \in i + 1 .. j : Depth(code, k) > Depth(code, i)
  /\ WellFormed(Comparing(code, i, j))

\* An analytic that runs is never a part of itself: it was one search over an
\* object and an action of the model, and each of its filters that is one
\* condition is one of its clauses, which flags exactly the rows of that action
\* the filter is true of (analytics.py:395-435, 506-548).
AnalyticsRunWhole ==
  AllRun =>
    \A i \in DOMAIN corpus :
      LET an == corpus[i]
      IN an.kind = "car" /\ analytics[i].runnable =>
           /\ Len(an.searches) = 1 /\ an.marks = {} /\ an.techniques # {}
           /\ \A f \in FilterAt(an.code) :
                OneCondition(an.code, f + 1, FilterEnd(an.code, f)) =>
                  HitRows(i, f) =
                    {row \in evidence :
                       /\ row.obj = an.searches[1][1]
                       /\ row.action = an.searches[1][2]
                       /\ Means(Comparing(an.code, f + 1, FilterEnd(an.code, f)), Compared(row))}
=============================================================================
