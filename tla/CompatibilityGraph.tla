-------------------------- MODULE CompatibilityGraph --------------------------
(***************************************************************************)
(* The graph a matching run searches (matching/graph.mjs): an edge from    *)
(* intent a to intent b where a would take what b offers.                  *)
(*                                                                         *)
(* Abstractions: intents are numbers, in the order of their ids; whether   *)
(* b's offer is what a wants, in kind and in value, is given as a relation *)
(* (wants); of an edge intent its two ends and its type are kept, and      *)
(* whether it is active and has not expired (live).                        *)
(***************************************************************************)
EXTENDS Naturals, FiniteSets

CONSTANT Intents   \* the active intents

ASSUME IntentsAssumption == Intents \subseteq Nat /\ IsFiniteSet(Intents)

Row(a, b, t, l) == [source |-> a, target |-> b, type |-> t, live |-> l]

Says(rows, a, b, t) == \E r \in rows : r = Row(a, b, t, TRUE)

\* Mutant: an edge that is both blocked and preferred is preferred.
Blocked_UnlessPreferred(rows, a, b) == Says(rows, a, b, "block") /\ ~Says(rows, a, b, "prefer")

Blocked(rows, a, b) == Says(rows, a, b, "block")

\* To prefer an edge is to allow it.
Allowed(rows, a, b) == Says(rows, a, b, "allow") \/ Says(rows, a, b, "prefer")

EdgesOf(wants, rows) ==
  {e \in Intents \X Intents :
     /\ e[1] # e[2]
     /\ ~Blocked(rows, e[1], e[2])
     /\ e \in wants \/ Allowed(rows, e[1], e[2])}
=============================================================================
