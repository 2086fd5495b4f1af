----------------------------- MODULE MCCommitApi ------------------------------
(***************************************************************************)
(* Two proposals that compete for one intent and their two users; alice    *)
(* accepts and declines under one key each, bob accepts under another; one *)
(* polling partner.                                                        *)
(***************************************************************************)
EXTENDS CommitApi, TLC

CONSTANTS p1, p2, i1, i2, i3, alice, bob, k1, s1

MCIntentsOf == (p1 :> {i1, i2}) @@ (p2 :> {i2, i3})
MCOwnerOf   == (i1 :> alice) @@ (i2 :> bob) @@ (i3 :> alice)
MCScopeKeys == {[actor |-> alice, op |-> "accept", key |-> k1],
                [actor |-> alice, op |-> "decline", key |-> k1],
                [actor |-> bob, op |-> "accept", key |-> k1]}
MCExpiresAt == (p1 :> 0) @@ (p2 :> 0)
=============================================================================
