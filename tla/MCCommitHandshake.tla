-------------------------- MODULE MCCommitHandshake --------------------------
(***************************************************************************)
(* Three proposals that overlap pairwise (a triangle over three intents),  *)
(* owned by two users so that one of them brings two intents to the same   *)
(* proposal, and an outsider who takes part in none.                       *)
(***************************************************************************)
EXTENDS CommitHandshake, TLC

CONSTANTS p1, p2, p3, i1, i2, i3, alice, bob, outsider

MCProposals == {p1, p2, p3}
MCIntents   == {i1, i2, i3}
MCActors    == {alice, bob, outsider}
MCIntentsOf == (p1 :> {i1, i2}) @@ (p2 :> {i2, i3}) @@ (p3 :> {i1, i3})
MCOwnerOf   == (i1 :> alice) @@ (i2 :> bob) @@ (i3 :> alice)
MCExpiresAt == (p1 :> 0) @@ (p2 :> 1) @@ (p3 :> 1)
=============================================================================
