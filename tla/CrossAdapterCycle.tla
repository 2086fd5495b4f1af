-------------------------- MODULE CrossAdapterCycle --------------------------
(***************************************************************************)
(* Cycles across ecosystems (service/tier2AdapterCapabilityService.mjs and *)
(* crossAdapterCycleService.mjs): a partner declares which routes its      *)
(* adapter can take, preflights a cycle, records the semantics of the      *)
(* cycle and, once it is settled, a receipt of how its two legs ended.     *)
(*                                                                         *)
(* Abstractions: a route is a pair of ecosystems with a transfer primitive *)
(* and the length and mode asked for; a capability is the set of routes it *)
(* takes.  Idempotency keys are numbered in the order a partner first uses *)
(* them for an operation; a repeated key changes nothing.  Signatures are  *)
(* valid, and refused requests are no steps.                               *)
(***************************************************************************)
EXTENDS Naturals, FiniteSets

CONSTANTS
  Partners,
  Cycles,
  Routes,
  Outcomes,         \* how source and target leg end: pairs of BOOLEAN
  Nothing,          \* no such record
  MaxCalls(_, _)    \* bound: the keys a partner uses for an operation

ASSUME CycleAssumption ==
  /\ Outcomes \subseteq BOOLEAN \X BOOLEAN
  /\ Nothing \notin [partner : Partners, version : Nat, route : Routes]

VARIABLES
  keysUsed,      \* keysUsed[p]: by operation, the keys in the idempotency records
  capability,    \* capability[p]: tier2_adapter_capabilities
  preflights,    \* tier2_adapter_preflight_history
  semantics,     \* semantics[c]: cross_adapter_cycle_semantics
  settled,       \* cycles with a settlement receipt
  crossReceipt,  \* crossReceipt[c]: cross_adapter_cycle_receipts
  shown          \* partner, cycle and discrepancy of the receipts so far (history)

cycleVars == <<capability, preflights, semantics, settled, crossReceipt, shown>>

Capability(v, rs)         == [version |-> v, routes |-> rs]
Preflighted(p, v, c, r, ok) ==
  [partner |-> p, contract |-> v, cycle |-> c, route |-> r, ready |-> ok]
Semantics(p, v, r)        == [partner |-> p, version |-> v, route |-> r]
CrossReceipt(p, v, r, d)  == [partner |-> p, version |-> v, route |-> r, discrepancy |-> d]

CycleInit ==
  /\ keysUsed = [p \in Partners |-> <<>>]
  /\ capability = [p \in Partners |-> Nothing]
  /\ preflights = {}
  /\ semantics = [c \in Cycles |-> Nothing]
  /\ settled = {}
  /\ crossReceipt = [c \in Cycles |-> Nothing]
  /\ shown = {}

Used(p, op) == IF op \in DOMAIN keysUsed[p] THEN keysUsed[p][op] ELSE 0

\* The request has a new key, which is recorded with the answer.
Once(p, op) ==
  /\ Used(p, op) < MaxCalls(p, op)
  /\ keysUsed' = [keysUsed EXCEPT ![p] = [o \in DOMAIN @ \cup {op} |->
                    IF o = op THEN Used(p, op) + 1 ELSE @[o]]]

VersionAfter(x) == IF x = Nothing THEN 1 ELSE x.version + 1

UpsertCapability(p, rs) ==
  /\ Once(p, "capability.upsert")
  /\ capability' = [capability EXCEPT ![p] = Capability(VersionAfter(@), rs)]
  /\ UNCHANGED <<preflights, semantics, settled, crossReceipt, shown>>

\* A preflight is recorded whether the capability takes the route or not.
PreflightCapability(p, c, r) ==
  /\ capability[p] # Nothing
  /\ Once(p, "preflight")
  /\ preflights' = preflights \cup
       {Preflighted(p, capability[p].version, c, r, r \in capability[p].routes)}
  /\ UNCHANGED <<capability, semantics, settled, crossReceipt, shown>>

ReadyPreflight(p, c, r) ==
  \E f \in preflights : f.partner = p /\ f.cycle = c /\ f.route = r /\ f.ready

\* Mutant: a partner that takes over the semantics starts counting again.
SemanticsAfter_Restart(p, r, x) ==
  Semantics(p, IF x # Nothing /\ x.partner # p THEN 1 ELSE VersionAfter(x), r)

SemanticsAfter(p, r, x) == Semantics(p, VersionAfter(x), r)

\* The semantics of a cycle are replaced, those of another partner too.
RecordSemantics(p, c, r) ==
  /\ ReadyPreflight(p, c, r)
  /\ Once(p, "semantics.record")
  /\ semantics' = [semantics EXCEPT ![c] = SemanticsAfter(p, r, @)]
  /\ UNCHANGED <<capability, preflights, settled, crossReceipt, shown>>

\* Settlement ends and records its receipt (settlementService.mjs).
SettlementReceipt(c) ==
  /\ settled' = settled \cup {c}
  /\ UNCHANGED <<keysUsed, capability, preflights, semantics, crossReceipt, shown>>

\* By whether the source and the target leg have completed.
Discrepancy(source, target) ==
  CASE source /\ target   -> "none"
    [] source /\ ~target  -> "target_leg_unsettled"
    [] ~source /\ target  -> "source_leg_unsettled"
    [] ~source /\ ~target -> "both_legs_unsettled"

\* By the partner the semantics are of; an earlier receipt is replaced.
RecordReceipt(p, c, source, target) ==
  /\ semantics[c] # Nothing /\ semantics[c].partner = p
  /\ c \in settled
  /\ Once(p, "receipt.record")
  /\ LET d == Discrepancy(source, target)
     IN  /\ crossReceipt' = [crossReceipt EXCEPT ![c] =
                               CrossReceipt(p, semantics[c].version, semantics[c].route, d)]
         /\ shown' = shown \cup {<<p, c, d>>}
  /\ UNCHANGED <<capability, preflights, semantics, settled>>

CycleStep ==
  \/ \E p \in Partners, rs \in SUBSET Routes : UpsertCapability(p, rs)
  \/ \E p \in Partners, c \in Cycles, r \in Routes :
       PreflightCapability(p, c, r) \/ RecordSemantics(p, c, r)
  \/ \E c \in Cycles : SettlementReceipt(c)
  \/ \E p \in Partners, c \in Cycles, o \in Outcomes : RecordReceipt(p, c, o[1], o[2])

-----------------------------------------------------------------------------
\* A receipt rests on the chain before it: its partner had preflighted its
\* route for its cycle, and the version it names is that of one semantics
\* only, whichever partners replaced them in between (recordCycleSemantics,
\* recordCrossCycleReceipt).
ReceiptsRestOnPreflights ==
  \A c \in Cycles :
    LET r == crossReceipt[c]
        s == semantics[c]
    IN  r # Nothing =>
          /\ \E f \in preflights :
               f.partner = r.partner /\ f.cycle = c /\ f.route = r.route /\ f.ready
          /\ s # Nothing /\ r.version <= s.version
          /\ r.version = s.version => r.partner = s.partner /\ r.route = s.route
=============================================================================
