-------------------------- MODULE ProposalSelection --------------------------
(***************************************************************************)
(* The choice of proposals out of the candidate cycles (matching/          *)
(* proposals.mjs): no two share an intent, and their scores add up to the  *)
(* most there is in every component of conflicting candidates that is not  *)
(* too large for the exact search.                                         *)
(*                                                                         *)
(* Abstractions: a candidate is its cycle; scores are natural numbers (the *)
(* code scales them by 10000 and rounds) and come with ids, the order of   *)
(* which is any order, from outside.  The sets of the exact search are     *)
(* bit masks in the code.                                                  *)
(***************************************************************************)
EXTENDS Naturals, Sequences, FiniteSets, SequencesExt, FiniteSetsExt

CONSTANTS
  LengthLimit,   \* LengthLimit[i]: max_cycle_length of intent i
  IdOf(_),       \* the proposal id of a cycle, as its place in the order of ids
  ExactMax       \* EXACT_COMPONENT_MAX

\* Every intent accepts a cycle of this length.
Candidates(cs) == {c \in cs : \A i \in ToSet(c) : Len(c) <= LengthLimit[i]}

Conflict(c, d) == c # d /\ ToSet(c) \cap ToSet(d) # {}

\* By score, best first, then by id: the order the candidates are sorted in.
Precedes(c, d, score) ==
  score[c] > score[d] \/ (score[c] = score[d] /\ IdOf(c) <= IdOf(d))

\* Of those left, the one both searches look at next.
First(S, score) == CHOOSE c \in S : \A d \in S : Precedes(c, d, score)

\* The component of c among the candidates cs: what is in every set of them
\* that c is in and that no conflict leaves.
ConflictComponent(cs, c) ==
  LET closed == {S \in SUBSET cs : c \in S /\ \A d \in S, e \in cs : Conflict(d, e) => e \in S}
  IN  {d \in cs : \A S \in closed : d \in S}

\* What is left to choose from when c is taken.
Rest(c, S) == {d \in S \ {c} : ~Conflict(c, d)}

\* Best first, each candidate is picked unless one picked before conflicts.
Greedy(component, score) ==
  LET pick[S \in SUBSET component] ==
        IF S = {} THEN {} ELSE {First(S, score)} \cup pick[Rest(First(S, score), S)]
  IN  pick[component]

Weight(S, score) == MapThenSumSet(LAMBDA c : score[c], S)

\* The order of ids, list by list.
Signature(S) == SetToSortSeq({IdOf(c) : c \in S}, LAMBDA m, n : m < n)

NotAfter(s, t) ==
  \/ IsPrefix(s, t)
  \/ \E k \in DOMAIN s \cap DOMAIN t :
       s[k] < t[k] /\ \A l \in 1..(k - 1) : s[l] = t[l]

Better(S, T, score) ==
  \/ Weight(S, score) > Weight(T, score)
  \/ Weight(S, score) = Weight(T, score) /\ NotAfter(Signature(S), Signature(T))

\* The exact search: the first candidate left is taken or skipped, whichever
\* is better.
Exact(component, score) ==
  LET better(S, T) == IF Better(S, T, score) THEN S ELSE T
      solve[S \in SUBSET component] ==
        IF S = {} THEN {}
        ELSE better({First(S, score)} \cup solve[Rest(First(S, score), S)],
                    solve[S \ {First(S, score)}])
  IN  solve[component]

\* Mutant: every component is left to the greedy search.
PickFrom_Greedy(component, score) == Greedy(component, score)

PickFrom(component, score) ==
  IF Cardinality(component) <= ExactMax THEN Exact(component, score) ELSE Greedy(component, score)

\* selectDisjointProposals.
Selection(cs, score) ==
  LET candidates == Candidates(cs)
  IN  UNION {PickFrom(ConflictComponent(candidates, c), score) : c \in candidates}
=============================================================================
