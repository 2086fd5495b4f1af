------------------------------- MODULE Matching -------------------------------
(***************************************************************************)
(* A matching run (matching/engine.mjs): the graph is built, its cycles    *)
(* are enumerated as far as limits allow, and disjoint proposals are       *)
(* selected from them, unless one of them cannot be valued.                *)
(***************************************************************************)
EXTENDS CycleEnumeration, ProposalSelection

CONSTANTS
  NoScoring,
  WantSets,   \* the relations of who wants whose offer to start from
  RowSets,    \* the sets of edge intents to start from
  UnvaluedSets,   \* the sets of intents with an asset of no known value to start from
  Scorings,         \* the ways to score cycles to choose from
  ScoreOf(_, _)     \* ScoreOf(k, c): the score of cycle c in way k

ASSUME ScoringAssumption ==
  \A c \in Lists : IdOf(c) \in Nat /\ \A k \in Scorings : ScoreOf(k, c) \in Nat

VARIABLES
  wants, rows,   \* what this run starts from
  unvalued,      \* the intents that offer an asset without a value
  scoring,       \* how its cycles are scored, once they are
  proposals      \* the proposals selected

runVars == <<wants, rows, unvalued, scoring, proposals>>
vars    == <<enumVars, runVars>>

\* An edge to an offer without a value is never derived (the error is caught
\* there); an edge intent can still ask for it.
Init ==
  /\ wants \in WantSets
  /\ rows \in RowSets
  /\ unvalued \in UnvaluedSets
  /\ \A e \in wants : e[2] \notin unvalued
  /\ scoring = NoScoring
  /\ edges = EdgesOf(wants, rows)
  /\ EnumInit
  /\ proposals = {}

Scores(k) == [c \in ToSet(cycles) |-> ScoreOf(k, c)]

SearchOver == status \in {"done", "limit", "timeout"}

\* buildProposal values the offer of every intent of a cycle that no intent
\* finds too long; nothing catches the error if one has no value.
Unpriced == \E c \in Candidates(ToSet(cycles)) : ToSet(c) \cap unvalued # {}

\* The search is over, however it ended; proposals are selected.
Select ==
  /\ SearchOver /\ ~Unpriced
  /\ \E k \in Scorings :
       /\ scoring' = k
       /\ proposals' = Selection(ToSet(cycles), Scores(k))
  /\ status' = "selected"
  /\ UNCHANGED <<edges, starts, inside, path, tried, cycles, wants, rows, unvalued>>

\* The run throws and proposes nothing, whatever other cycles it has found.
Abort ==
  /\ SearchOver /\ Unpriced
  /\ status' = "failed"
  /\ UNCHANGED <<edges, starts, inside, path, tried, cycles, runVars>>

Next ==
  \/ SearchStep /\ UNCHANGED runVars
  \/ TimeOut /\ UNCHANGED runVars
  \/ Select
  \/ Abort

\* The run is one call: it goes on until it returns.
Spec == Init /\ [][Next]_vars /\ WF_vars(Next)

-----------------------------------------------------------------------------
\* The proposals of a run can all be carried out together and by those who are
\* in them: no intent is in two, every step of a cycle is wanted or allowed and
\* not blocked, and no cycle is longer than an intent in it accepts - also
\* when the enumeration was cut short (runMatching).
ProposalsFeasible ==
  \A c \in proposals :
    /\ \A d \in proposals : c = d \/ ToSet(c) \cap ToSet(d) = {}
    /\ \A i \in ToSet(c) : Len(c) <= LengthLimit[i]
    /\ \A k \in DOMAIN c :
         LET a == c[k]
             b == IF k = Len(c) THEN c[1] ELSE c[k + 1]
         IN  /\ Row(a, b, "block", TRUE) \notin rows
             /\ <<a, b>> \in wants \/ \E t \in {"allow", "prefer"} : Row(a, b, t, TRUE) \in rows

\* Where components are small enough, no other choice of disjoint candidates
\* scores more; in any case no further candidate of positive score fits
\* (selectComponentExact, selectComponentGreedy).
SelectionIsBest ==
  status = "selected" =>
    LET candidates == Candidates(ToSet(cycles))
        Disjoint(S) == \A c, d \in S : c = d \/ ToSet(c) \cap ToSet(d) = {}
        total(S) == Weight(S, Scores(scoring))
    IN  /\ \A c \in candidates \ proposals :
             ScoreOf(scoring, c) > 0 => ~Disjoint(proposals \cup {c})
        /\ (\A c \in candidates : Cardinality(ConflictComponent(candidates, c)) <= ExactMax) =>
             \A S \in SUBSET candidates :
               Disjoint(S) => total(S) <= total(proposals)

\* The step into b from the intent before it in the cycle rests on an edge
\* intent.
AskedFor(c, b) ==
  \E k \in DOMAIN c, t \in {"allow", "prefer"} :
    Row(c[k], b, t, TRUE) \in rows /\ b = (IF k = Len(c) THEN c[1] ELSE c[k + 1])

\* A run fails only where an edge intent leads to an offer nobody can value:
\* what is derived from want specifications never makes it fail.
FailsOnlyIfAsked ==
  status = "failed" => \E c \in ToSet(cycles) : \E b \in unvalued : AskedFor(c, b)

\* Every run ends, on every graph and under every limit, and with a selection
\* unless somebody has asked for what cannot be valued (runMatching).
RunEnds == <>(status \in {"selected", "failed"} /\ FailsOnlyIfAsked)
=============================================================================
