----------------------------- MODULE MCSettlement -----------------------------
(***************************************************************************)
(* Two proposals over different intents of the same two users.  In the     *)
(* first alice brings two intents.  Each user has a holding that fits      *)
(* legs of both cycles, so that they compete for it.                       *)
(***************************************************************************)
EXTENDS Settlement, TLC

CONSTANTS p1, p2, i1, i2, i3, i4, i5, alice, bob, h1, h2, t1, s1, s2

MCIntentsOf    == (p1 :> {i1, i2, i3}) @@ (p2 :> {i4, i5})
MCOwnerOf      == (i1 :> alice) @@ (i2 :> bob) @@ (i3 :> alice) @@ (i4 :> alice) @@ (i5 :> bob)
MCLegIndex     == [p \in {p1, p2} |->
                     (i1 :> 0) @@ (i2 :> 1) @@ (i3 :> 2) @@ (i4 :> 0) @@ (i5 :> 1)]
MCPartnerOf    == (p1 :> s1) @@ (p2 :> s2)
MCHoldingOwner == (h1 :> alice) @@ (h2 :> bob)
MCAssetFits    == (h1 :> {i1, i3, i4}) @@ (h2 :> {i2, i5})
=============================================================================
