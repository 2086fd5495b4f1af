----------------------------- MODULE MCSwapCycle ------------------------------
(***************************************************************************)
(* Two proposals that compete for the intent of bob, who has a holding     *)
(* that fits it; one partner; two reservation ids where it matters.        *)
(***************************************************************************)
EXTENDS SwapCycle, TLC

CONSTANTS p1, p2, i1, i2, i3, alice, bob, h1, t1, t2, s1
MCIntentsOf    == (p1 :> {i1, i2}) @@ (p2 :> {i2, i3})
MCOwnerOf      == (i1 :> alice) @@ (i2 :> bob) @@ (i3 :> alice)
MCExpiresAt    == (p1 :> 0) @@ (p2 :> 0)
MCLegIndex     == [p \in {p1, p2} |-> (i1 :> 0) @@ (i2 :> 1) @@ (i3 :> 2)]
MCPartnerOf    == [p \in {p1, p2} |-> s1]
MCHoldingOwner == h1 :> bob
MCAssetFits    == h1 :> {i2}

\* Reservation ids are only compared with one another.
TokenSymmetry  == Permutations({t1, t2})
=============================================================================
