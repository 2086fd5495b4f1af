------------------------------- MODULE Outbox --------------------------------
(***************************************************************************)
(* Identity of the events in the outbox (store.state.events).              *)
(*                                                                         *)
(* delivery/eventIds.mjs derives an event id by hashing type, correlation  *)
(* id and a key; the correlation id is the cycle.  Events that agree on    *)
(* the three have the same id, whatever else they say: an id is modelled   *)
(* as the record of the three.  The outbox is the count of each id, which  *)
(* is what a consumer that de-duplicates by event_id can tell apart.       *)
(***************************************************************************)
EXTENDS Naturals

\* The transitions announced by cycle.state_changed, in either service.
CycleTransitions ==
  {"proposed->accepted", "proposed->failed", "accepted->escrow.pending",
   "escrow.pending->escrow.ready", "escrow.ready->executing",
   "executing->completed", "escrow.pending->failed"}

IntentEvent(type, p, i) == [type |-> type, cycle |-> p, key |-> i]
StateEvent(p, change)   == [type |-> "cycle.state_changed", cycle |-> p, key |-> change]

EventIdsOf(P, I) ==
  [type : {"intent.reserved", "intent.unreserved"}, cycle : P, key : I]
    \cup [type : {"cycle.state_changed"}, cycle : P, key : CycleTransitions]

\* The outbox after one more event of each id in E.
Appended(outbox, E) == [e \in DOMAIN outbox |-> outbox[e] + (IF e \in E THEN 1 ELSE 0)]
=============================================================================
