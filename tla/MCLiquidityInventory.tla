------------------------ MODULE MCLiquidityInventory ------------------------
(***************************************************************************)
(* Two providers, one with two holdings, who use two reservation ids in    *)
(* batches of two.                                                         *)
(***************************************************************************)
EXTENDS LiquidityInventory, TLC

CONSTANTS p1, p2, h1, h2, r1, r2

MCHoldings(p) == IF p = p1 THEN {h1, h2} ELSE {h1}

MCSymmetry == Permutations({r1, r2})
=============================================================================
