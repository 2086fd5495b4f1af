-------------------------- MODULE ReservationLedger --------------------------
(***************************************************************************)
(* What the reservation table promises, whoever writes to it: a proposal   *)
(* locks all of its intents in one step or none of them, only when all are *)
(* free, at most once in its life, and gives all of them back in one step. *)
(* docs/spec/COMMIT.md calls it the reservation invariant.  The commit     *)
(* handshake implements it, and so does the handshake composed with        *)
(* settlement as long as nobody leaves a cycle that is being settled.      *)
(***************************************************************************)
CONSTANTS Proposals, Intents, IntentsOf, NoProposal

VARIABLES
  holder,  \* holder[i]: the proposal that has locked i
  lock     \* lock[p]: has p its intents ("held"), not yet or no more?

ledger == <<holder, lock>>

FreeFor(p) == \A i \in IntentsOf[p] : holder[i] = NoProposal

Init ==
  /\ holder = [i \in Intents |-> NoProposal]
  /\ lock = [p \in Proposals |-> "idle"]

Acquire(p) ==
  /\ lock[p] = "idle"
  /\ FreeFor(p)
  /\ holder' = [i \in Intents |-> IF i \in IntentsOf[p] THEN p ELSE holder[i]]
  /\ lock' = [lock EXCEPT ![p] = "held"]

Abandon(p) ==
  /\ lock[p] = "idle"
  /\ lock' = [lock EXCEPT ![p] = "done"]
  /\ UNCHANGED holder

\* The sweeps release several proposals in one step.
Release(S) ==
  /\ S # {}
  /\ \A p \in S : lock[p] = "held"
  /\ holder' = [i \in Intents |-> IF holder[i] \in S THEN NoProposal ELSE holder[i]]
  /\ lock' = [p \in Proposals |-> IF p \in S THEN "done" ELSE lock[p]]

Next ==
  \/ \E p \in Proposals : Acquire(p) \/ Abandon(p)
  \/ \E S \in SUBSET Proposals : Release(S)

Spec == Init /\ [][Next]_ledger
=============================================================================
