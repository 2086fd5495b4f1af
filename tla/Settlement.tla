------------------------------ MODULE Settlement -----------------------------
(***************************************************************************)
(* Settlement of a cycle: settlementStartService.mjs,                      *)
(* settlementActionsService.mjs and settlement/settlementService.mjs.      *)
(*                                                                         *)
(* The partner of a proposal whose commit is ready opens a timeline with   *)
(* one leg per participant.  A leg is funded by the participant's deposit  *)
(* or, at the start, by a vault holding reserved for it.  When every leg   *)
(* is funded the partner executes and completes the cycle; when the        *)
(* deposit window ends first the partner fails it and funded legs are      *)
(* refunded.  Both ends give the intents and the holdings back.            *)
(*                                                                         *)
(* The module shares phase, reservations and outbox with CommitHandshake   *)
(* and holdings with Vault; Spec runs it alone, from the moment some       *)
(* disjoint commits are ready and some holdings are reserved.              *)
(*                                                                         *)
(* Abstractions: a deposit reference only decides between a replay and an  *)
(* error, neither of which changes anything, so references are left out.   *)
(* The deposit window has no clock: expireDepositWindow compares the       *)
(* deadline with the now_iso its caller sends, so any pending timeline can *)
(* be found expired.  Of the events only those of Outbox are kept; the     *)
(* others accompany one of them.  A leg has one history field, fundedIn:   *)
(* no guard reads it, it lets AllOrNothing tell a deposit made in time     *)
(* from one made after the cycle had failed.                               *)
(***************************************************************************)
EXTENDS Naturals, FiniteSets, Outbox

CONSTANTS
  Proposals, Intents, Actors, IntentsOf, OwnerOf, NoProposal,
  LegIndex,      \* LegIndex[p][i]: position of the leg of i in the timeline of p
  Partners,      \* partners of the API
  PartnerOf,     \* PartnerOf[p]: the partner in tenancy.proposals[p]
  NoPartner,     \* value of an absent scope
  Holdings, HoldingOwner, Tokens, NoToken,
  AssetFits,     \* AssetFits[h]: the intents that give the asset of h
  NoHolding      \* value of vault_holding_id on a leg that has none

ASSUME SettlementAssumption ==
  /\ IntentsOf \in [Proposals -> SUBSET Intents]
  /\ \A p \in Proposals : IntentsOf[p] # {}
  /\ OwnerOf \in [Intents -> Actors]
  /\ NoProposal \notin Proposals
  /\ LegIndex \in [Proposals -> [Intents -> Nat]]
  /\ PartnerOf \in [Proposals -> Partners]
  /\ NoPartner \notin Partners
  /\ HoldingOwner \in [Holdings -> Actors]
  /\ NoToken \notin Tokens
  /\ AssetFits \in [Holdings -> SUBSET Intents]
  /\ NoHolding \notin Holdings

VARIABLES
  phase,         \* phase of the commit of each proposal
  reservations,  \* the proposal that holds each intent
  outbox,        \* count of each event id
  holdings,      \* the vault's records
  timelines,     \* timelines[p]: state of the timeline of p, "none" if there is none
  legs,          \* legs[p][i]: the leg of i in the timeline of p
  receipts,      \* receipts[p]: final state on the receipt of p
  cycleScope     \* cycleScope[p]: the partner in tenancy.cycles[p]

settlementVars == <<timelines, legs, receipts, cycleScope>>
vars == <<phase, reservations, outbox, holdings, settlementVars>>

Holding == [status : {"none", "available", "reserved", "withdrawn"},
            token : Tokens \cup {NoToken},
            cycle : Proposals \cup {NoProposal}]

TimelineStates == {"none", "escrow.pending", "escrow.ready", "executing", "completed", "failed"}

Leg == [status : {"pending", "deposited", "released", "refunded"},
        holding : Holdings \cup {NoHolding},
        token : Tokens \cup {NoToken},
        fundedIn : TimelineStates]  \* history: state of the timeline when the leg was
                                    \* funded, "none" before its start

PendingLeg ==
  [status |-> "pending", holding |-> NoHolding, token |-> NoToken, fundedIn |-> "none"]

EventIds == EventIdsOf(Proposals, Intents)
Emit(E)  == Appended(outbox, E)

Open(p)     == timelines[p] \in {"escrow.pending", "escrow.ready", "executing"}
Terminal(p) == timelines[p] \in {"completed", "failed"}

AllDeposited(ls, p) == \A i \in IntentsOf[p] : ls[p][i].status = "deposited"

\* Mutant: the state of the timeline is not consulted.
FundsLast_AnyState(ls, p) == AllDeposited(ls, p)
FundsLast(ls, p) == AllDeposited(ls, p) /\ timelines[p] = "escrow.pending"

VaultBacked(leg) == leg.holding # NoHolding

\* A leg keeps what backs it when its status changes.
WithStatus(leg, st) ==
  [status |-> st, holding |-> leg.holding, token |-> leg.token, fundedIn |-> leg.fundedIn]

\* The leg after a deposit that finds its timeline in the given state.
Deposited(leg, state) ==
  [status |-> "deposited", holding |-> leg.holding, token |-> leg.token, fundedIn |-> state]

\* confirmDeposit finds the first leg whose depositor is the caller.
OwnLegs(a, p)  == {i \in IntentsOf[p] : OwnerOf[i] = a}
FirstLegs(a, p) == {i \in OwnLegs(a, p) : \A j \in OwnLegs(a, p) : LegIndex[p][i] <= LegIndex[p][j]}

-----------------------------------------------------------------------------
(* Vault bindings.                                                         *)

Binding == [intent : Intents, holding : Holdings, token : Tokens]

\* Mutant: a holding bound to another cycle may be bound again.
BindingOk_AnyCycle(p, b) ==
  LET h == holdings[b.holding]
  IN  /\ b.intent \in IntentsOf[p]
      /\ h.status = "reserved"
      /\ h.token = b.token
      /\ HoldingOwner[b.holding] = OwnerOf[b.intent]
      /\ b.intent \in AssetFits[b.holding]

\* applyVaultBindingsToTimeline: the checks on one binding.
BindingOk(p, b) ==
  LET h == holdings[b.holding]
  IN  /\ b.intent \in IntentsOf[p]
      /\ h.status = "reserved"
      /\ h.token = b.token
      /\ HoldingOwner[b.holding] = OwnerOf[b.intent]
      /\ b.intent \in AssetFits[b.holding]
      /\ h.cycle \in {NoProposal, p}

\* The checks across bindings: no intent and no holding twice.
NoneTwice(B) ==
  \A b, c \in B : b # c => b.intent # c.intent /\ b.holding # c.holding

LegsAtStart(p, B) ==
  [i \in Intents |->
     IF \E b \in B : b.intent = i
     THEN LET b == CHOOSE b \in B : b.intent = i
          IN  [status |-> "deposited", holding |-> b.holding, token |-> b.token,
               fundedIn |-> "none"]
     ELSE PendingLeg]

\* The mark a holding is given when a cycle counts on it.
BoundTo(h, p) == [status |-> h.status, token |-> h.token, cycle |-> p]

\* Mutant: the reservation of the leg is not compared.
Reconciled_AnyToken(p, h) ==
  \E i \in IntentsOf[p] :
    /\ legs[p][i].holding = h
    /\ holdings[h].cycle \in {NoProposal, p}

\* settleVaultBindingsForTerminalState: a bound holding is reconciled only if
\* it still carries the reservation of its leg and no other cycle's mark.
Reconciled(p, h) ==
  \E i \in IntentsOf[p] :
    /\ legs[p][i].holding = h
    /\ holdings[h].cycle \in {NoProposal, p}
    /\ holdings[h].token = legs[p][i].token

SettleVaultBindings(p, final) ==
  holdings' = [h \in Holdings |->
                 IF Reconciled(p, h)
                 THEN [status |-> final, token |-> NoToken, cycle |-> NoProposal]
                 ELSE holdings[h]]

\* Mutant: intents whose leg was never funded are forgotten.
ReleaseReservations_Funded(p) ==
  reservations' = [i \in Intents |->
                     IF i \in IntentsOf[p] /\ legs[p][i].status = "deposited"
                     THEN NoProposal ELSE reservations[i]]

\* Both ends of a timeline delete the reservations of its intents, without
\* looking at the commit or cycle they belong to.
ReleaseReservations(p) ==
  reservations' = [i \in Intents |-> IF i \in IntentsOf[p] THEN NoProposal ELSE reservations[i]]

\* Mutant: nothing is said of intents whose leg was never funded.
UnreservedEvents_Funded(p) ==
  {IntentEvent("intent.unreserved", p, i) :
     i \in {j \in IntentsOf[p] : reservations[j] # NoProposal /\ legs[p][j].status = "deposited"}}

UnreservedEvents(p) ==
  {IntentEvent("intent.unreserved", p, i) :
     i \in {j \in IntentsOf[p] : reservations[j] # NoProposal}}

-----------------------------------------------------------------------------
(* Requests.  s is the calling partner, a the calling user.                *)

MayStart(s, p) == s = PartnerOf[p] /\ phase[p] = "ready" /\ cycleScope[p] \in {NoPartner, s}

Start(s, p, B) ==
  /\ MayStart(s, p)
  /\ timelines[p] = "none"
  /\ \A b \in B : BindingOk(p, b)
  /\ NoneTwice(B)
  /\ cycleScope' = [cycleScope EXCEPT ![p] = s]
  /\ legs' = [legs EXCEPT ![p] = LegsAtStart(p, B)]
  /\ holdings' = [h \in Holdings |->
                    IF \E b \in B : b.holding = h THEN BoundTo(holdings[h], p) ELSE holdings[h]]
  /\ timelines' = [timelines EXCEPT ![p] =
                     IF AllDeposited(legs', p) THEN "escrow.ready" ELSE "escrow.pending"]
  /\ outbox' = Emit({StateEvent(p, "accepted->escrow.pending")} \cup
                 (IF AllDeposited(legs', p)
                  THEN {StateEvent(p, "escrow.pending->escrow.ready")} ELSE {}))
  /\ UNCHANGED <<phase, reservations, receipts>>

\* The scope is written before the bindings are checked and stays when one of
\* them is refused.
StartRefused(s, p, b) ==
  /\ MayStart(s, p)
  /\ timelines[p] = "none"
  /\ ~BindingOk(p, b)
  /\ cycleScope' = [cycleScope EXCEPT ![p] = s]
  /\ UNCHANGED <<phase, reservations, outbox, holdings, timelines, legs, receipts>>

(***************************************************************************)
(* confirmDeposit looks at the leg, not at the state of the timeline: a    *)
(* pending leg accepts a deposit after the timeline has failed.            *)
(***************************************************************************)
ConfirmDeposit(a, p) ==
  /\ timelines[p] # "none"
  /\ \E i \in FirstLegs(a, p) :
       /\ ~VaultBacked(legs[p][i])
       /\ legs[p][i].status = "pending"
       /\ legs' = [legs EXCEPT ![p][i] = Deposited(@, timelines[p])]
  /\ timelines' = [timelines EXCEPT ![p] = IF FundsLast(legs', p) THEN "escrow.ready" ELSE @]
  /\ outbox' = Emit(IF FundsLast(legs', p)
                    THEN {StateEvent(p, "escrow.pending->escrow.ready")} ELSE {})
  /\ UNCHANGED <<phase, reservations, holdings, receipts, cycleScope>>

\* Mutant: execution may begin while deposits are outstanding.
BeginExecution_Pending(s, p) ==
  /\ cycleScope[p] = s
  /\ timelines[p] \in {"escrow.pending", "escrow.ready"}
  /\ timelines' = [timelines EXCEPT ![p] = "executing"]
  /\ outbox' = Emit({StateEvent(p, "escrow.ready->executing")})
  /\ UNCHANGED <<phase, reservations, holdings, legs, receipts, cycleScope>>

BeginExecution(s, p) ==
  /\ cycleScope[p] = s
  /\ timelines[p] = "escrow.ready"
  /\ timelines' = [timelines EXCEPT ![p] = "executing"]
  /\ outbox' = Emit({StateEvent(p, "escrow.ready->executing")})
  /\ UNCHANGED <<phase, reservations, holdings, legs, receipts, cycleScope>>

(***************************************************************************)
(* complete releases leg by leg and gives up at the first leg that is not  *)
(* deposited, leaving the earlier ones released; FundedIffReady says that  *)
(* this never happens, so the action has the whole loop succeed.           *)
(***************************************************************************)
Complete(s, p) ==
  /\ cycleScope[p] = s
  /\ timelines[p] = "executing"
  /\ AllDeposited(legs, p)
  /\ legs' = [legs EXCEPT ![p] =
                [i \in Intents |->
                   IF i \in IntentsOf[p] THEN WithStatus(@[i], "released") ELSE @[i]]]
  /\ timelines' = [timelines EXCEPT ![p] = "completed"]
  /\ receipts' = [receipts EXCEPT ![p] = "completed"]
  /\ ReleaseReservations(p)
  /\ SettleVaultBindings(p, "withdrawn")
  /\ outbox' = Emit(UnreservedEvents(p) \cup {StateEvent(p, "executing->completed")})
  /\ UNCHANGED <<phase, cycleScope>>

\* Mutant: only what came from the vault goes back.
RefundedLegs_VaultOnly(p) ==
  [i \in Intents |->
     IF i \in IntentsOf[p] /\ legs[p][i].status = "deposited" /\ VaultBacked(legs[p][i])
     THEN WithStatus(legs[p][i], "refunded") ELSE legs[p][i]]

\* Only funded legs go back; a leg that was never funded stays pending.
RefundedLegs(p) ==
  [i \in Intents |->
     IF i \in IntentsOf[p] /\ legs[p][i].status = "deposited"
     THEN WithStatus(legs[p][i], "refunded") ELSE legs[p][i]]

\* Mutant: the state of the timeline is not consulted.
ExpireDepositWindow_AnyState(s, p) ==
  /\ cycleScope[p] = s
  /\ timelines[p] # "none"
  /\ ~AllDeposited(legs, p)
  /\ legs' = [legs EXCEPT ![p] = RefundedLegs(p)]
  /\ timelines' = [timelines EXCEPT ![p] = "failed"]
  /\ receipts' = [receipts EXCEPT ![p] = "failed"]
  /\ ReleaseReservations(p)
  /\ SettleVaultBindings(p, "available")
  /\ outbox' = Emit(UnreservedEvents(p) \cup {StateEvent(p, "escrow.pending->failed")})
  /\ UNCHANGED <<phase, cycleScope>>

ExpireDepositWindow(s, p) ==
  /\ cycleScope[p] = s
  /\ timelines[p] = "escrow.pending"
  /\ ~AllDeposited(legs, p)
  /\ legs' = [legs EXCEPT ![p] = RefundedLegs(p)]
  /\ timelines' = [timelines EXCEPT ![p] = "failed"]
  /\ receipts' = [receipts EXCEPT ![p] = "failed"]
  /\ ReleaseReservations(p)
  /\ SettleVaultBindings(p, "available")
  /\ outbox' = Emit(UnreservedEvents(p) \cup {StateEvent(p, "escrow.pending->failed")})
  /\ UNCHANGED <<phase, cycleScope>>

SettlementNext ==
  \/ \E s \in Partners, p \in Proposals :
       \/ \E B \in SUBSET {b \in Binding : BindingOk(p, b)} : Start(s, p, B)
       \/ \E b \in Binding : StartRefused(s, p, b)
       \/ BeginExecution(s, p)
       \/ Complete(s, p)
       \/ ExpireDepositWindow(s, p)
  \/ \E a \in Actors, p \in Proposals : ConfirmDeposit(a, p)

-----------------------------------------------------------------------------
(* Settlement alone: some disjoint commits are ready and hold their        *)
(* intents, some holdings are in the vault, some of them reserved.         *)

SettlementInit ==
  /\ timelines = [p \in Proposals |-> "none"]
  /\ legs = [p \in Proposals |-> [i \in Intents |-> PendingLeg]]
  /\ receipts = [p \in Proposals |-> "none"]
  /\ cycleScope = [p \in Proposals |-> NoPartner]

Init ==
  /\ phase \in [Proposals -> {"none", "ready"}]
  /\ \A p, q \in Proposals :
       phase[p] = "ready" /\ phase[q] = "ready" /\ p # q => IntentsOf[p] \cap IntentsOf[q] = {}
  /\ reservations = [i \in Intents |->
                       IF \E p \in Proposals : phase[p] = "ready" /\ i \in IntentsOf[p]
                       THEN CHOOSE p \in Proposals : phase[p] = "ready" /\ i \in IntentsOf[p]
                       ELSE NoProposal]
  /\ outbox = [e \in EventIds |-> 0]
  /\ holdings \in [Holdings ->
                     {[status |-> "available", token |-> NoToken, cycle |-> NoProposal]} \cup
                     [status : {"reserved"}, token : Tokens, cycle : {NoProposal}]]
  /\ SettlementInit

Spec == Init /\ [][SettlementNext]_vars

-----------------------------------------------------------------------------
\* Shape of the timelines, legs and receipts, and of the records that
\* settlement shares with the handshake and the vault.
TypeOK ==
  /\ phase \in [Proposals -> {"none", "accept", "ready", "cancelled"}]
  /\ reservations \in [Intents -> Proposals \cup {NoProposal}]
  /\ outbox \in [EventIds -> Nat]
  /\ holdings \in [Holdings -> Holding]
  /\ timelines \in [Proposals -> TimelineStates]
  /\ legs \in [Proposals -> [Intents -> Leg]]
  /\ receipts \in [Proposals -> {"none", "completed", "failed"}]
  /\ cycleScope \in [Proposals -> Partners \cup {NoPartner}]

\* Nothing is executed unless every leg is funded, and a timeline that waits
\* for deposits really lacks one: a fully funded cycle can neither be left
\* pending, where the window could not even expire it, nor be failed.
FundedIffReady ==
  \A p \in Proposals :
    /\ timelines[p] \in {"escrow.ready", "executing"} => AllDeposited(legs, p)
    /\ timelines[p] = "escrow.pending" => ~AllDeposited(legs, p)

\* All or nothing: the assets of a cycle are released together and only by
\* completing it, and refunded only by failing it; a failed cycle has refunded
\* every leg that was funded by then, from the vault or by its user, so that
\* what is still deposited in it came after the failure; and the receipt says
\* which of the two ends it was (complete, expireDepositWindow).
AllOrNothing ==
  \A p \in Proposals :
    /\ receipts[p] = IF Terminal(p) THEN timelines[p] ELSE "none"
    /\ \A i \in IntentsOf[p] :
         /\ legs[p][i].status = "released" <=> timelines[p] = "completed"
         /\ legs[p][i].status = "refunded" => timelines[p] = "failed"
         /\ timelines[p] = "failed" /\ legs[p][i].status = "deposited"
              => legs[p][i].fundedIn = "failed"
         /\ legs[p][i].fundedIn = "failed"
              => timelines[p] = "failed" /\ ~VaultBacked(legs[p][i])

\* The plan's "Partial deposit: refund deposits after window closes": nothing
\* is deposited in a failed cycle.  confirmDeposit also funds a leg of a failed
\* timeline, and no request refunds it: a violation run shows it.
FailureRefunds ==
  \A p \in Proposals : timelines[p] = "failed" =>
    \A i \in IntentsOf[p] : legs[p][i].status # "deposited"

\* A holding backs at most one leg of one open timeline, which is the one
\* marked on it.
BacksOneLeg ==
  \A p, q \in Proposals : \A i \in IntentsOf[p], j \in IntentsOf[q] :
    /\ Open(p) /\ VaultBacked(legs[p][i]) => holdings[legs[p][i].holding].cycle = p
    /\ Open(p) /\ Open(q) /\ VaultBacked(legs[p][i]) /\ <<p, i>> # <<q, j>>
         => legs[p][i].holding # legs[q][j].holding

\* The vault agrees with the timelines: the holding behind a leg of an open
\* timeline stays reserved, under the leg's reservation and marked with the
\* cycle, and the mark is gone once the timeline has ended.
BoundHoldingsLocked ==
  /\ \A p \in Proposals : \A i \in IntentsOf[p] :
       Open(p) /\ VaultBacked(legs[p][i]) =>
         holdings[legs[p][i].holding] =
           [status |-> "reserved", token |-> legs[p][i].token, cycle |-> p]
  /\ \A h \in Holdings : holdings[h].cycle # NoProposal =>
       /\ Open(holdings[h].cycle)
       /\ \E i \in IntentsOf[holdings[h].cycle] : legs[holdings[h].cycle][i].holding = h

\* An intent is locked by its cycle from the commit to the end of settlement
\* and not a step longer.
LockedUntilSettled ==
  \A i \in Intents, p \in Proposals :
    reservations[i] = p <=> phase[p] = "ready" /\ ~Terminal(p) /\ i \in IntentsOf[p]

\* The transitions announced for a timeline are those of its path, each once:
\* a consumer that replays the outbox arrives at the state of the timeline.
Path(state) ==
  CASE state = "none" -> {}
    [] state = "escrow.pending" -> {"accepted->escrow.pending"}
    [] state = "escrow.ready" -> {"accepted->escrow.pending", "escrow.pending->escrow.ready"}
    [] state = "executing" -> {"accepted->escrow.pending", "escrow.pending->escrow.ready",
                               "escrow.ready->executing"}
    [] state = "completed" -> {"accepted->escrow.pending", "escrow.pending->escrow.ready",
                               "escrow.ready->executing", "executing->completed"}
    [] state = "failed" -> {"accepted->escrow.pending", "escrow.pending->failed"}

OutboxFollowsTimelines ==
  \A p \in Proposals : \A c \in CycleTransitions \ {"proposed->accepted", "proposed->failed"} :
    outbox[StateEvent(p, c)] = IF c \in Path(timelines[p]) THEN 1 ELSE 0

\* A settled leg and a finished timeline are final, and a deposit is never
\* taken back except by the end of the cycle.  The scope of a cycle, which
\* decides who may execute, complete and expire it, is only ever given to the
\* partner that owns the proposal and never moves: a start that is refused
\* leaves it behind, but cannot shut the owner out.
SettledIsFinal ==
  [][\A p \in Proposals :
       /\ Terminal(p) => timelines'[p] = timelines[p]
       /\ cycleScope'[p] # cycleScope[p] =>
            cycleScope[p] = NoPartner /\ cycleScope'[p] = PartnerOf[p]
       /\ \A i \in IntentsOf[p] :
            /\ legs[p][i].status \in {"released", "refunded"} => legs'[p][i] = legs[p][i]
            /\ legs'[p][i].status # legs[p][i].status /\ legs[p][i].status = "deposited"
                 => Terminal(p)' /\ ~Terminal(p)]_vars

-----------------------------------------------------------------------------
\* A leg backed by a holding has been funded since the start of its cycle.
VaultLegsFunded ==
  \A p \in Proposals : \A i \in IntentsOf[p] :
    VaultBacked(legs[p][i]) => legs[p][i].status # "pending"

\* A cycle without a timeline has no funded leg.
UnstartedLegsPending ==
  \A p \in Proposals : timelines[p] = "none" =>
    \A i \in IntentsOf[p] : legs[p][i].status = "pending"

\* Only a commit that is ready has a timeline.
StartedIsReady == \A p \in Proposals : timelines[p] # "none" => phase[p] = "ready"

\* The strengthening that makes the invariants above inductive.
SettlementInv ==
  /\ TypeOK
  /\ FundedIffReady /\ AllOrNothing /\ VaultLegsFunded /\ UnstartedLegsPending
  /\ LockedUntilSettled /\ StartedIsReady
  /\ BoundHoldingsLocked
  /\ OutboxFollowsTimelines
=============================================================================
