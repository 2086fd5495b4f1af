---------------------------- MODULE MCCrossAdapter ----------------------------
(***************************************************************************)
(* Two cycles on which the first partner can open a case each, and a       *)
(* second partner that can take one of them over, back a receipt of its    *)
(* own and open a case; the first partner has a dispute, and one payout or *)
(* adjustment.                                                             *)
(***************************************************************************)
EXTENDS CrossAdapter

MCTwice == {"preflight", "semantics.record", "receipt.record", "case.create", "case.update"}
MCOnce  == {"capability.upsert", "ledger.record", "dispute.create", "dispute.resolve",
            "linkage.record", "linkage.update"}

MCMaxCalls(p, op) ==
  CASE p = "p1" /\ op \in MCTwice -> 2
    [] p = "p1" /\ op \in MCOnce  -> 1
    [] p = "p2" /\ op \in {"capability.upsert", "preflight", "semantics.record", "receipt.record", "case.create"} -> 1
    [] OTHER -> 0

MCOutcomes == {<<TRUE, FALSE>>, <<TRUE, TRUE>>}
=============================================================================
