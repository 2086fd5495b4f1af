----------------------------- MODULE MCDurability -----------------------------
(***************************************************************************)
(* Two pieces of work that succeed and one whose handler throws; batches   *)
(* of up to three deliveries.                                                *)
(***************************************************************************)
EXTENDS Durability, TLC

CONSTANTS w1, w2, w3
=============================================================================
