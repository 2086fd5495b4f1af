---------------------------- MODULE MCSwapIntents ----------------------------
(***************************************************************************)
(* A user whose agents hold three delegations, another user, two intents,  *)
(* two days.  Values above 1 need consent under d1; the cap of a day is 3  *)
(* under d1, 2 under d2, and d3 has none.                                  *)
(***************************************************************************)
EXTENDS SwapIntents, TLC

CONSTANTS u1, u2, a1, d1, d2, d3, i1, i2, n1, k1

MCSubjectOf  == (d1 :> u1) @@ (d2 :> u1) @@ (d3 :> u1)
MCAgentOf    == (d1 :> a1) @@ (d2 :> a1) @@ (d3 :> a1)
MCLastDay    == (d1 :> 2) @@ (d2 :> 1) @@ (d3 :> 2)
MCMaxPerSwap == (d1 :> 3) @@ (d2 :> 2) @@ (d3 :> 1)
MCMaxPerDay  == (d1 :> 3) @@ (d2 :> 2) @@ (d3 :> NoCap)
MCThreshold  == (d1 :> 1) @@ (d2 :> 2) @@ (d3 :> 1)
MCBodies     == {Body(i1, u1, 1), Body(i1, u1, 2), Body(i2, u1, 2), Body(i1, u2, 1)}
MCConsents   == {Consent(n1, d1, i1, 2, 2, 2)}
MCScopeKeys  == {[actor |-> a1, op |-> "create", key |-> k1],
                 [actor |-> a1, op |-> "update", key |-> k1],
                 [actor |-> a1, op |-> "cancel", key |-> k1],
                 [actor |-> u2, op |-> "create", key |-> k1],
                 [actor |-> u1, op |-> "cancel", key |-> k1]}
=============================================================================
