--------------------------- MODULE SettlementProofs ---------------------------
(***************************************************************************)
(* Theorems about settlement and about whole cycles, for any proposals,    *)
(* users, partners and holdings.                                           *)
(*                                                                         *)
(* The first part is about settlement alone (Settlement).  The second is   *)
(* about the swap cycle (SwapCycle): first what holds in every order of    *)
(* requests (CycleSpec), then what the discipline of OrderlySpec adds.     *)
(* Settlement's own steps keep there what the first part says of them;     *)
(* what is new is that the handshake and the vault write to the state that *)
(* settlement reads.                                                       *)
(***************************************************************************)
EXTENDS SwapCycle, TLAPS

-----------------------------------------------------------------------------
(* The outbox.                                                             *)

\* Ids of intent events and of cycle events are ids of the outbox.
LEMMA EventIdsBelong ==
  ASSUME NEW P, NEW I, NEW p \in P, NEW i \in I
  PROVE  /\ IntentEvent("intent.reserved", p, i) \in EventIdsOf(P, I)
         /\ IntentEvent("intent.unreserved", p, i) \in EventIdsOf(P, I)
         /\ \A c \in CycleTransitions : StateEvent(p, c) \in EventIdsOf(P, I)
  BY DEF EventIdsOf, IntentEvent, StateEvent

\* A cycle event tells its cycle and its transition, and is no intent event.
LEMMA StateEventsDiffer ==
  ASSUME NEW p, NEW q, NEW c, NEW d
  PROVE  /\ StateEvent(p, c) = StateEvent(q, d) <=> p = q /\ c = d
         /\ \A i : StateEvent(p, c) # IntentEvent("intent.reserved", q, i)
         /\ \A i : StateEvent(p, c) # IntentEvent("intent.unreserved", q, i)
  BY DEF IntentEvent, StateEvent

\* Appending adds one to the events that are given and nothing to the others.
LEMMA AppendedFacts ==
  ASSUME NEW Ids, NEW counts \in [Ids -> Nat], NEW E
  PROVE  /\ Appended(counts, E) \in [Ids -> Nat]
         /\ \A e \in Ids : e \in E => Appended(counts, E)[e] = counts[e] + 1
         /\ \A e \in Ids : e \notin E => Appended(counts, E)[e] = counts[e]
  <1>1. Appended(counts, E) = [e \in Ids |-> counts[e] + (IF e \in E THEN 1 ELSE 0)]
    BY DEF Appended
  <1>2. \A e \in Ids : counts[e] \in Nat
    OBVIOUS
  <1> QED BY <1>1, <1>2

USE SettlementAssumption

-----------------------------------------------------------------------------
(* What the steps do to legs and holdings.                                 *)

\* The legs of a new timeline are funded if a binding backs them, and pending
\* otherwise.
LEMMA LegsAtStartFacts ==
  ASSUME NEW p \in Proposals, NEW B \in SUBSET Binding, NEW i \in Intents,
         NEW leg, leg = LegsAtStart(p, B)[i]
  PROVE  /\ leg \in Leg
         /\ leg.status = IF VaultBacked(leg) THEN "deposited" ELSE "pending"
         /\ leg.fundedIn = "none"
  <1>1. CASE \E b \in B : b.intent = i
    <2> DEFINE c == CHOOSE b \in B : b.intent = i
    <2>1. c \in B /\ c.intent = i /\ c.holding \in Holdings /\ c.token \in Tokens
      BY <1>1 DEF Binding
    <2>2. leg = [status |-> "deposited", holding |-> c.holding, token |-> c.token,
                 fundedIn |-> "none"]
      BY <1>1 DEF LegsAtStart
    <2> HIDE DEF c
    <2> QED BY <2>1, <2>2 DEF Leg, VaultBacked, TimelineStates
  <1>2. CASE ~\E b \in B : b.intent = i
    <2>1. leg = PendingLeg
      BY <1>2 DEF LegsAtStart
    <2> QED BY <2>1 DEF PendingLeg, Leg, VaultBacked, TimelineStates
  <1> QED BY <1>1, <1>2

\* A leg is backed by what a binding of its intent names, if there is one.
LEMMA LegsAtStartBindings ==
  ASSUME NEW p \in Proposals, NEW B \in SUBSET Binding, NEW i \in Intents
  PROVE  /\ VaultBacked(LegsAtStart(p, B)[i]) =>
              \E b \in B : /\ b.intent = i
                           /\ b.holding = LegsAtStart(p, B)[i].holding
                           /\ b.token = LegsAtStart(p, B)[i].token
         /\ \A b \in B : b.intent = i => VaultBacked(LegsAtStart(p, B)[i])
  <1> DEFINE leg == LegsAtStart(p, B)[i]
  <1>1. CASE \E b \in B : b.intent = i
    <2> DEFINE c == CHOOSE b \in B : b.intent = i
    <2>1. c \in B /\ c.intent = i /\ c.holding \in Holdings
      BY <1>1 DEF Binding
    <2>2. leg = [status |-> "deposited", holding |-> c.holding, token |-> c.token,
                 fundedIn |-> "none"]
      BY <1>1 DEF LegsAtStart
    <2> HIDE DEF c, leg
    <2>3. VaultBacked(leg) /\ c.holding = leg.holding /\ c.token = leg.token
      BY <2>1, <2>2 DEF VaultBacked
    <2> QED BY <2>1, <2>3 DEF leg
  <1>2. CASE ~\E b \in B : b.intent = i
    <2>1. leg = PendingLeg
      BY <1>2 DEF LegsAtStart
    <2>2. ~VaultBacked(leg)
      BY <2>1 DEF PendingLeg, VaultBacked
    <2> QED BY <1>2, <2>2
  <1> QED BY <1>1, <1>2

\* A leg whose status is changed keeps what funded it.
LEMMA LegUpdate ==
  ASSUME NEW leg \in Leg, NEW st \in {"pending", "deposited", "released", "refunded"}
  PROVE  /\ WithStatus(leg, st) \in Leg
         /\ WithStatus(leg, st).status = st
         /\ WithStatus(leg, st).holding = leg.holding
         /\ WithStatus(leg, st).token = leg.token
         /\ WithStatus(leg, st).fundedIn = leg.fundedIn
  BY DEF Leg, WithStatus

\* What confirming a deposit does to the legs.
DepositOf(p, i) == legs' = [legs EXCEPT ![p][i] = Deposited(@, timelines[p])]

\* A deposit funds one leg and changes nothing else about any leg.
LEMMA DepositFacts ==
  ASSUME TypeOK, NEW p \in Proposals, NEW i \in Intents, DepositOf(p, i)
  PROVE  /\ legs' \in [Proposals -> [Intents -> Leg]]
         /\ \A q \in Proposals : q # p => legs'[q] = legs[q]
         /\ \A j \in Intents : j # i => legs'[p][j] = legs[p][j]
         /\ legs'[p][i].status = "deposited"
         /\ legs'[p][i].holding = legs[p][i].holding
         /\ legs'[p][i].token = legs[p][i].token
         /\ legs'[p][i].fundedIn = timelines[p]
  <1>1. legs[p][i] \in Leg /\ timelines[p] \in TimelineStates
    BY DEF TypeOK
  <1>2. legs'[p][i] = Deposited(legs[p][i], timelines[p])
    BY DEF TypeOK, DepositOf
  <1>3. Deposited(legs[p][i], timelines[p]) \in Leg
    BY <1>1 DEF Leg, Deposited
  <1>4. legs' \in [Proposals -> [Intents -> Leg]]
    BY <1>3 DEF TypeOK, DepositOf
  <1>5. /\ legs'[p][i].status = "deposited"
        /\ legs'[p][i].holding = legs[p][i].holding
        /\ legs'[p][i].token = legs[p][i].token
        /\ legs'[p][i].fundedIn = timelines[p]
    BY <1>2 DEF Deposited
  <1> QED BY <1>4, <1>5 DEF TypeOK, DepositOf

\* Binding a holding changes its mark.
LEMMA BindingFacts ==
  ASSUME NEW h \in Holding, NEW p \in Proposals
  PROVE  /\ BoundTo(h, p) \in Holding
         /\ BoundTo(h, p).status = h.status
         /\ BoundTo(h, p).token = h.token
         /\ BoundTo(h, p).cycle = p
  BY DEF Holding, BoundTo

\* Reconciliation clears the holdings it touches and leaves the others alone.
LEMMA ReconcileFacts ==
  ASSUME TypeOK, NEW p \in Proposals, NEW final \in {"withdrawn", "available"},
         SettleVaultBindings(p, final)
  PROVE  /\ holdings' \in [Holdings -> Holding]
         /\ \A h \in Holdings :
              IF Reconciled(p, h)
              THEN holdings'[h] = [status |-> final, token |-> NoToken, cycle |-> NoProposal]
              ELSE holdings'[h] = holdings[h]
  BY DEF TypeOK, SettleVaultBindings, Holding

-----------------------------------------------------------------------------
(* Types.                                                                  *)

LEMMA EmitTypes ==
  ASSUME TypeOK, NEW E, outbox' = Emit(E)
  PROVE  outbox' \in [EventIds -> Nat]
  BY AppendedFacts DEF TypeOK, Emit

LEMMA StartTypes ==
  ASSUME TypeOK, NEW s \in Partners, NEW p \in Proposals, NEW B \in SUBSET Binding,
         Start(s, p, B)
  PROVE  TypeOK'
  <1>1. legs' \in [Proposals -> [Intents -> Leg]]
    <2>1. \A i \in Intents : LegsAtStart(p, B)[i] \in Leg
      BY LegsAtStartFacts
    <2>2. LegsAtStart(p, B) \in [Intents -> Leg]
      BY <2>1 DEF LegsAtStart
    <2> QED BY <2>2 DEF TypeOK, Start
  <1>2. holdings' \in [Holdings -> Holding]
    BY BindingFacts DEF TypeOK, Start
  <1>3. timelines' \in [Proposals -> TimelineStates]
    BY DEF TypeOK, Start, TimelineStates
  <1>4. outbox' \in [EventIds -> Nat]
    BY EmitTypes DEF Start
  <1>5. /\ cycleScope' \in [Proposals -> Partners \cup {NoPartner}]
        /\ UNCHANGED <<phase, reservations, receipts>>
    BY DEF TypeOK, Start
  <1> QED BY <1>1, <1>2, <1>3, <1>4, <1>5 DEF TypeOK

LEMMA EndTypes ==
  ASSUME TypeOK, NEW p \in Proposals, NEW final \in {"withdrawn", "available"},
         NEW end \in {"completed", "failed"}, NEW E,
         legs' \in [Proposals -> [Intents -> Leg]],
         timelines' = [timelines EXCEPT ![p] = end],
         receipts' = [receipts EXCEPT ![p] = end],
         ReleaseReservations(p),
         SettleVaultBindings(p, final),
         outbox' = Emit(E),
         UNCHANGED <<phase, cycleScope>>
  PROVE  TypeOK'
  <1>1. holdings' \in [Holdings -> Holding]
    BY ReconcileFacts
  <1>2. outbox' \in [EventIds -> Nat]
    BY EmitTypes
  <1>3. reservations' \in [Intents -> Proposals \cup {NoProposal}]
    BY DEF TypeOK, ReleaseReservations
  <1>4. /\ timelines' \in [Proposals -> TimelineStates]
        /\ receipts' \in [Proposals -> {"none", "completed", "failed"}]
    BY DEF TypeOK, TimelineStates
  <1> QED BY <1>1, <1>2, <1>3, <1>4 DEF TypeOK

\* The legs after each end of a timeline.
LEMMA CompleteLegs ==
  ASSUME TypeOK, NEW s \in Partners, NEW p \in Proposals, Complete(s, p)
  PROVE  /\ legs' \in [Proposals -> [Intents -> Leg]]
         /\ \A q \in Proposals : q # p => legs'[q] = legs[q]
         /\ \A i \in IntentsOf[p] : /\ legs'[p][i].status = "released"
                                    /\ legs'[p][i].holding = legs[p][i].holding
                                    /\ legs'[p][i].token = legs[p][i].token
                                    /\ legs'[p][i].fundedIn = legs[p][i].fundedIn
  <1>1. \A i \in Intents : legs[p][i] \in Leg
    BY DEF TypeOK
  <1>2. legs' = [legs EXCEPT ![p] =
                   [i \in Intents |->
                      IF i \in IntentsOf[p] THEN WithStatus(legs[p][i], "released")
                      ELSE legs[p][i]]]
    BY DEF Complete
  <1>3. ASSUME NEW i \in Intents
        PROVE  /\ legs'[p][i] \in Leg
               /\ i \in IntentsOf[p] => legs'[p][i] = WithStatus(legs[p][i], "released")
    BY <1>1, <1>2, LegUpdate DEF TypeOK
  <1>4. legs' \in [Proposals -> [Intents -> Leg]]
    BY <1>2, <1>3 DEF TypeOK
  <1>5. \A i \in IntentsOf[p] : /\ legs'[p][i].status = "released"
                                /\ legs'[p][i].holding = legs[p][i].holding
                                /\ legs'[p][i].token = legs[p][i].token
                                /\ legs'[p][i].fundedIn = legs[p][i].fundedIn
    BY <1>1, <1>3, LegUpdate
  <1> QED BY <1>2, <1>4, <1>5 DEF TypeOK

LEMMA ExpireLegs ==
  ASSUME TypeOK, NEW s \in Partners, NEW p \in Proposals, ExpireDepositWindow(s, p)
  PROVE  /\ legs' \in [Proposals -> [Intents -> Leg]]
         /\ \A q \in Proposals : q # p => legs'[q] = legs[q]
         /\ \A i \in IntentsOf[p] :
              /\ legs'[p][i].status = IF legs[p][i].status = "deposited" THEN "refunded"
                                      ELSE legs[p][i].status
              /\ legs'[p][i].holding = legs[p][i].holding
              /\ legs'[p][i].token = legs[p][i].token
              /\ legs'[p][i].fundedIn = legs[p][i].fundedIn
  <1>1. ASSUME NEW i \in Intents
        PROVE  /\ RefundedLegs(p)[i] \in Leg
               /\ RefundedLegs(p)[i].holding = legs[p][i].holding
               /\ RefundedLegs(p)[i].token = legs[p][i].token
               /\ RefundedLegs(p)[i].fundedIn = legs[p][i].fundedIn
               /\ i \in IntentsOf[p] =>
                    RefundedLegs(p)[i].status =
                      IF legs[p][i].status = "deposited" THEN "refunded" ELSE legs[p][i].status
    <2>1. legs[p][i] \in Leg
      BY DEF TypeOK
    <2>2. CASE i \in IntentsOf[p] /\ legs[p][i].status = "deposited"
      <3>1. RefundedLegs(p)[i] = WithStatus(legs[p][i], "refunded")
        BY <2>2 DEF RefundedLegs
      <3> QED BY <2>1, <2>2, <3>1, LegUpdate
    <2>3. CASE ~(i \in IntentsOf[p] /\ legs[p][i].status = "deposited")
      <3>1. RefundedLegs(p)[i] = legs[p][i]
        BY <2>3 DEF RefundedLegs
      <3> QED BY <2>1, <2>3, <3>1
    <2> QED BY <2>2, <2>3
  <1>2. RefundedLegs(p) \in [Intents -> Leg]
    BY <1>1 DEF RefundedLegs
  <1>3. legs' = [legs EXCEPT ![p] = RefundedLegs(p)]
    BY DEF ExpireDepositWindow
  <1> QED BY <1>1, <1>2, <1>3 DEF TypeOK

LEMMA NextTypes == TypeOK /\ [SettlementNext]_vars => TypeOK'
  <1> SUFFICES ASSUME TypeOK, [SettlementNext]_vars
               PROVE  TypeOK'
    OBVIOUS
  <1>1. ASSUME NEW s \in Partners, NEW p \in Proposals,
               NEW B \in SUBSET {b \in Binding : BindingOk(p, b)}, Start(s, p, B)
        PROVE  TypeOK'
    BY <1>1, StartTypes
  <1>2. ASSUME NEW s \in Partners, NEW p \in Proposals, NEW b \in Binding, StartRefused(s, p, b)
        PROVE  TypeOK'
    BY <1>2 DEF StartRefused, TypeOK
  <1>3. ASSUME NEW s \in Partners, NEW p \in Proposals, BeginExecution(s, p)
        PROVE  TypeOK'
    BY <1>3, EmitTypes DEF BeginExecution, TypeOK, TimelineStates
  <1>4. ASSUME NEW s \in Partners, NEW p \in Proposals, Complete(s, p)
        PROVE  TypeOK'
    BY <1>4, CompleteLegs, EndTypes DEF Complete
  <1>5. ASSUME NEW s \in Partners, NEW p \in Proposals, ExpireDepositWindow(s, p)
        PROVE  TypeOK'
    BY <1>5, ExpireLegs, EndTypes DEF ExpireDepositWindow
  <1>6. ASSUME NEW a \in Actors, NEW p \in Proposals, ConfirmDeposit(a, p)
        PROVE  TypeOK'
    <2>1. PICK i \in FirstLegs(a, p) :
            DepositOf(p, i)
      BY <1>6 DEF ConfirmDeposit, DepositOf
    <2>2. i \in Intents
      BY DEF FirstLegs, OwnLegs
    <2>3. legs' \in [Proposals -> [Intents -> Leg]]
      BY <2>1, <2>2, DepositFacts
    <2> QED BY <1>6, <2>3, EmitTypes DEF ConfirmDeposit, TypeOK, TimelineStates
  <1>7. CASE UNCHANGED vars
    BY <1>7 DEF vars, settlementVars, TypeOK
  <1> QED BY <1>1, <1>2, <1>3, <1>4, <1>5, <1>6, <1>7 DEF SettlementNext

-----------------------------------------------------------------------------
(* Funding, all or nothing, receipts: cycle by cycle.                      *)

CycleOk(p) ==
  /\ timelines[p] \in {"escrow.ready", "executing"} => AllDeposited(legs, p)
  /\ timelines[p] = "escrow.pending" => ~AllDeposited(legs, p)
  /\ receipts[p] = IF Terminal(p) THEN timelines[p] ELSE "none"
  /\ timelines[p] = "none" => \A i \in IntentsOf[p] : legs[p][i].status = "pending"
  /\ \A i \in IntentsOf[p] :
       /\ legs[p][i].status = "released" <=> timelines[p] = "completed"
       /\ legs[p][i].status = "refunded" => timelines[p] = "failed"
       /\ timelines[p] = "failed" /\ legs[p][i].status = "deposited"
            => legs[p][i].fundedIn = "failed"
       /\ legs[p][i].fundedIn = "failed" => timelines[p] = "failed" /\ ~VaultBacked(legs[p][i])
       /\ VaultBacked(legs[p][i]) => legs[p][i].status # "pending"

CyclesOk == \A p \in Proposals : CycleOk(p)

LEMMA CyclesOkMeans ==
  CyclesOk <=> FundedIffReady /\ AllOrNothing /\ VaultLegsFunded /\ UnstartedLegsPending
  BY DEF CyclesOk, CycleOk, FundedIffReady, AllOrNothing, VaultLegsFunded, UnstartedLegsPending

\* A cycle none of whose records change stays as it is.
LEMMA CycleUntouched ==
  ASSUME NEW q \in Proposals, CycleOk(q), timelines'[q] = timelines[q], legs'[q] = legs[q],
         receipts'[q] = receipts[q]
  PROVE  CycleOk(q)'
  BY DEF CycleOk, Terminal, AllDeposited, VaultBacked

LEMMA StartCycleOk ==
  ASSUME TypeOK, CyclesOk, NEW s \in Partners, NEW p \in Proposals, NEW B \in SUBSET Binding,
         Start(s, p, B)
  PROVE  CyclesOk'
  <1>1. /\ legs'[p] = LegsAtStart(p, B)
        /\ timelines[p] = "none"
        /\ timelines'[p] = IF AllDeposited(legs', p) THEN "escrow.ready" ELSE "escrow.pending"
        /\ receipts' = receipts
        /\ \A q \in Proposals : q # p => timelines'[q] = timelines[q] /\ legs'[q] = legs[q]
    BY DEF Start, TypeOK
  <1>2. \A i \in IntentsOf[p] :
          /\ legs'[p][i].status \in {"pending", "deposited"}
          /\ VaultBacked(legs'[p][i]) => legs'[p][i].status = "deposited"
          /\ legs'[p][i].fundedIn = "none"
    <2> SUFFICES ASSUME NEW i \in IntentsOf[p]
                 PROVE  /\ legs'[p][i].status \in {"pending", "deposited"}
                        /\ VaultBacked(legs'[p][i]) => legs'[p][i].status = "deposited"
                        /\ legs'[p][i].fundedIn = "none"
      OBVIOUS
    <2>1. legs'[p][i] = LegsAtStart(p, B)[i]
      BY <1>1
    <2>2. /\ legs'[p][i].status = IF VaultBacked(legs'[p][i]) THEN "deposited" ELSE "pending"
          /\ legs'[p][i].fundedIn = "none"
      BY <2>1, LegsAtStartFacts
    <2> QED BY <2>2 DEF VaultBacked
  <1>3. receipts'[p] = "none"
    BY <1>1 DEF CyclesOk, CycleOk, Terminal
  <1>4. CycleOk(p)'
    BY <1>1, <1>2, <1>3 DEF CycleOk, Terminal, AllDeposited, VaultBacked
  <1> QED BY <1>1, <1>4, CycleUntouched DEF CyclesOk

LEMMA DepositCycleOk ==
  ASSUME TypeOK, CyclesOk, NEW a \in Actors, NEW p \in Proposals, ConfirmDeposit(a, p)
  PROVE  CyclesOk'
  <1>1. PICK i \in FirstLegs(a, p) :
          /\ ~VaultBacked(legs[p][i])
          /\ legs[p][i].status = "pending"
          /\ DepositOf(p, i)
    BY DEF ConfirmDeposit, DepositOf
  <1>2. i \in IntentsOf[p] /\ i \in Intents
    BY DEF FirstLegs, OwnLegs
  <1>3. /\ \A q \in Proposals : q # p => legs'[q] = legs[q]
        /\ \A j \in IntentsOf[p] : j # i => legs'[p][j] = legs[p][j]
        /\ legs'[p][i].status = "deposited"
        /\ ~VaultBacked(legs'[p][i])
        /\ legs'[p][i].fundedIn = timelines[p]
    <2>1. DepositOf(p, i)
      BY <1>1
    <2>2. /\ \A q \in Proposals : q # p => legs'[q] = legs[q]
          /\ \A j \in Intents : j # i => legs'[p][j] = legs[p][j]
          /\ legs'[p][i].status = "deposited"
          /\ legs'[p][i].holding = legs[p][i].holding
          /\ legs'[p][i].fundedIn = timelines[p]
      BY <1>2, <2>1, DepositFacts
    <2> QED BY <1>1, <2>2 DEF VaultBacked
  <1>4. /\ timelines[p] # "none"
        /\ timelines'[p] = IF FundsLast(legs', p) THEN "escrow.ready" ELSE timelines[p]
        /\ receipts' = receipts
        /\ \A q \in Proposals : q # p => timelines'[q] = timelines[q]
    BY DEF ConfirmDeposit, TypeOK
  <1>5. timelines[p] \in {"escrow.pending", "failed"}
    <2>1. timelines[p] \in TimelineStates /\ CycleOk(p)
      BY DEF TypeOK, CyclesOk
    <2>2. timelines[p] \notin {"escrow.ready", "executing"}
      BY <1>1, <1>2, <2>1 DEF CycleOk, AllDeposited
    <2>3. timelines[p] # "completed"
      BY <1>1, <1>2, <2>1 DEF CycleOk
    <2> QED BY <1>4, <2>1, <2>2, <2>3 DEF TimelineStates
  <1>6. CycleOk(p)
    BY DEF CyclesOk
  <1>7. CycleOk(p)'
    <2>1. CASE timelines[p] = "escrow.pending"
      BY <2>1, <1>2, <1>3, <1>4, <1>6
      DEF CycleOk, Terminal, AllDeposited, FundsLast, VaultBacked
    <2>2. CASE timelines[p] = "failed"
      BY <2>2, <1>2, <1>3, <1>4, <1>6
      DEF CycleOk, Terminal, AllDeposited, FundsLast, VaultBacked
    <2> QED BY <1>5, <2>1, <2>2
  <1> QED BY <1>3, <1>4, <1>7, CycleUntouched DEF CyclesOk

LEMMA ExecuteCycleOk ==
  ASSUME TypeOK, CyclesOk, NEW s \in Partners, NEW p \in Proposals, BeginExecution(s, p)
  PROVE  CyclesOk'
  <1>1. /\ timelines[p] = "escrow.ready"
        /\ timelines'[p] = "executing"
        /\ legs' = legs /\ receipts' = receipts
        /\ \A q \in Proposals : q # p => timelines'[q] = timelines[q]
    BY DEF BeginExecution, TypeOK
  <1>2. CycleOk(p)'
    BY <1>1 DEF CyclesOk, CycleOk, Terminal, AllDeposited, VaultBacked
  <1> QED BY <1>1, <1>2, CycleUntouched DEF CyclesOk

LEMMA CompleteCycleOk ==
  ASSUME TypeOK, CyclesOk, NEW s \in Partners, NEW p \in Proposals, Complete(s, p)
  PROVE  CyclesOk'
  <1>1. /\ timelines'[p] = "completed"
        /\ receipts'[p] = "completed"
        /\ \A q \in Proposals : q # p => timelines'[q] = timelines[q] /\ receipts'[q] = receipts[q]
    BY DEF Complete, TypeOK
  <1>2. /\ \A q \in Proposals : q # p => legs'[q] = legs[q]
        /\ \A i \in IntentsOf[p] : /\ legs'[p][i].status = "released"
                                   /\ legs'[p][i].fundedIn = legs[p][i].fundedIn
    BY CompleteLegs
  <1>3. timelines[p] = "executing" /\ \A i \in IntentsOf[p] : legs[p][i].fundedIn # "failed"
    BY DEF Complete, CyclesOk, CycleOk
  <1>4. CycleOk(p)'
    BY <1>1, <1>2, <1>3 DEF CycleOk, Terminal
  <1> QED BY <1>1, <1>2, <1>4, CycleUntouched DEF CyclesOk

LEMMA ExpireCycleOk ==
  ASSUME TypeOK, CyclesOk, NEW s \in Partners, NEW p \in Proposals, ExpireDepositWindow(s, p)
  PROVE  CyclesOk'
  <1>1. /\ timelines[p] = "escrow.pending"
        /\ timelines'[p] = "failed"
        /\ receipts'[p] = "failed"
        /\ \A q \in Proposals : q # p => timelines'[q] = timelines[q] /\ receipts'[q] = receipts[q]
    BY DEF ExpireDepositWindow, TypeOK
  <1>2. /\ \A q \in Proposals : q # p => legs'[q] = legs[q]
        /\ \A i \in IntentsOf[p] :
             /\ legs'[p][i].status = IF legs[p][i].status = "deposited" THEN "refunded"
                                     ELSE legs[p][i].status
             /\ VaultBacked(legs'[p][i]) <=> VaultBacked(legs[p][i])
             /\ legs'[p][i].fundedIn = legs[p][i].fundedIn
    BY ExpireLegs DEF VaultBacked
  <1>3. \A i \in IntentsOf[p] :
          /\ legs[p][i].status \in {"pending", "deposited"}
          /\ VaultBacked(legs[p][i]) => legs[p][i].status = "deposited"
          /\ legs[p][i].fundedIn # "failed"
    <2> SUFFICES ASSUME NEW i \in IntentsOf[p]
                 PROVE  /\ legs[p][i].status \in {"pending", "deposited"}
                        /\ VaultBacked(legs[p][i]) => legs[p][i].status = "deposited"
                        /\ legs[p][i].fundedIn # "failed"
      OBVIOUS
    <2>1. legs[p][i].status \in {"pending", "deposited", "released", "refunded"}
      BY DEF TypeOK, Leg
    <2> QED BY <1>1, <2>1 DEF CyclesOk, CycleOk
  <1>4. CycleOk(p)'
    BY <1>1, <1>2, <1>3 DEF CycleOk, Terminal
  <1> QED BY <1>1, <1>2, <1>4, CycleUntouched DEF CyclesOk

LEMMA NextCyclesOk == TypeOK /\ CyclesOk /\ [SettlementNext]_vars => CyclesOk'
  <1> SUFFICES ASSUME TypeOK, CyclesOk, [SettlementNext]_vars
               PROVE  CyclesOk'
    OBVIOUS
  <1>1. ASSUME NEW s \in Partners, NEW p \in Proposals,
               NEW B \in SUBSET {b \in Binding : BindingOk(p, b)}, Start(s, p, B)
        PROVE  CyclesOk'
    BY <1>1, StartCycleOk
  <1>2. ASSUME NEW s \in Partners, NEW p \in Proposals, NEW b \in Binding, StartRefused(s, p, b)
        PROVE  CyclesOk'
    BY <1>2, CycleUntouched DEF StartRefused, CyclesOk
  <1>3. ASSUME NEW s \in Partners, NEW p \in Proposals,
               BeginExecution(s, p) \/ Complete(s, p) \/ ExpireDepositWindow(s, p)
        PROVE  CyclesOk'
    BY <1>3, ExecuteCycleOk, CompleteCycleOk, ExpireCycleOk
  <1>4. ASSUME NEW a \in Actors, NEW p \in Proposals, ConfirmDeposit(a, p)
        PROVE  CyclesOk'
    BY <1>4, DepositCycleOk
  <1>5. CASE UNCHANGED vars
    BY <1>5, CycleUntouched DEF vars, settlementVars, CyclesOk
  <1> QED BY <1>1, <1>2, <1>3, <1>4, <1>5 DEF SettlementNext

-----------------------------------------------------------------------------
(* The intents of a cycle stay locked until its timeline ends.             *)

\* A step that ends no timeline and leaves the locks alone.
LEMMA LocksUntouched ==
  ASSUME TypeOK, LockedUntilSettled, StartedIsReady,
         UNCHANGED <<phase, reservations>>,
         \A q \in Proposals :
           /\ Terminal(q)' <=> Terminal(q)
           /\ timelines'[q] # "none" => phase[q] = "ready"
  PROVE  LockedUntilSettled' /\ StartedIsReady'
  BY DEF LockedUntilSettled, StartedIsReady

\* A step that ends the timeline of p and releases its intents: they were
\* locked by p, so no other proposal loses them.
LEMMA LocksReleased ==
  ASSUME TypeOK, LockedUntilSettled, StartedIsReady,
         NEW p \in Proposals, timelines[p] # "none", ~Terminal(p),
         NEW end \in {"completed", "failed"},
         timelines' = [timelines EXCEPT ![p] = end],
         ReleaseReservations(p), UNCHANGED phase
  PROVE  LockedUntilSettled' /\ StartedIsReady'
  <1>1. /\ phase[p] = "ready"
        /\ Terminal(p)'
        /\ \A q \in Proposals : q # p => (Terminal(q)' <=> Terminal(q)) /\ timelines'[q] = timelines[q]
    BY DEF StartedIsReady, Terminal, TypeOK
  <1>2. \A i \in Intents :
          reservations'[i] = IF i \in IntentsOf[p] THEN NoProposal ELSE reservations[i]
    BY DEF ReleaseReservations
  <1>3. \A i \in IntentsOf[p] : i \in Intents /\ reservations[i] = p
    BY <1>1 DEF LockedUntilSettled
  <1>4. ASSUME NEW i \in Intents, NEW q \in Proposals
        PROVE  reservations'[i] = q <=> phase'[q] = "ready" /\ ~Terminal(q)' /\ i \in IntentsOf[q]
    <2>1. reservations[i] = q <=> phase[q] = "ready" /\ ~Terminal(q) /\ i \in IntentsOf[q]
      BY DEF LockedUntilSettled
    <2>2. CASE q = p
      BY <1>1, <1>2, <2>1, <2>2
    <2>3. CASE q # p
      BY <1>1, <1>2, <1>3, <2>1, <2>3
    <2> QED BY <2>2, <2>3
  <1>5. StartedIsReady'
    BY <1>1 DEF StartedIsReady
  <1> QED BY <1>4, <1>5 DEF LockedUntilSettled

LEMMA NextLocks ==
  TypeOK /\ LockedUntilSettled /\ StartedIsReady /\ [SettlementNext]_vars
    => LockedUntilSettled' /\ StartedIsReady'
  <1> SUFFICES ASSUME TypeOK, LockedUntilSettled, StartedIsReady, [SettlementNext]_vars
               PROVE  LockedUntilSettled' /\ StartedIsReady'
    OBVIOUS
  <1>1. ASSUME NEW s \in Partners, NEW p \in Proposals,
               NEW B \in SUBSET {b \in Binding : BindingOk(p, b)}, Start(s, p, B)
        PROVE  LockedUntilSettled' /\ StartedIsReady'
    BY <1>1, LocksUntouched DEF Start, MayStart, TypeOK, Terminal, StartedIsReady
  <1>2. ASSUME NEW s \in Partners, NEW p \in Proposals, NEW b \in Binding, StartRefused(s, p, b)
        PROVE  LockedUntilSettled' /\ StartedIsReady'
    BY <1>2, LocksUntouched DEF StartRefused, Terminal, StartedIsReady
  <1>3. ASSUME NEW s \in Partners, NEW p \in Proposals, BeginExecution(s, p)
        PROVE  LockedUntilSettled' /\ StartedIsReady'
    BY <1>3, LocksUntouched DEF BeginExecution, TypeOK, Terminal, StartedIsReady
  <1>4. ASSUME NEW s \in Partners, NEW p \in Proposals, Complete(s, p)
        PROVE  LockedUntilSettled' /\ StartedIsReady'
    BY <1>4, LocksReleased DEF Complete, Terminal
  <1>5. ASSUME NEW s \in Partners, NEW p \in Proposals, ExpireDepositWindow(s, p)
        PROVE  LockedUntilSettled' /\ StartedIsReady'
    BY <1>5, LocksReleased DEF ExpireDepositWindow, Terminal
  <1>6. ASSUME NEW a \in Actors, NEW p \in Proposals, ConfirmDeposit(a, p)
        PROVE  LockedUntilSettled' /\ StartedIsReady'
    BY <1>6, LocksUntouched DEF ConfirmDeposit, FundsLast, TypeOK, Terminal, StartedIsReady
  <1>7. CASE UNCHANGED vars
    BY <1>7, LocksUntouched DEF vars, settlementVars, Terminal, StartedIsReady
  <1> QED BY <1>1, <1>2, <1>3, <1>4, <1>5, <1>6, <1>7 DEF SettlementNext

-----------------------------------------------------------------------------
(* The vault agrees with the timelines.                                    *)

\* The leg of i is backed by a holding that is locked for the cycle p.
LegLocked(p, i) ==
  holdings[legs[p][i].holding] = [status |-> "reserved", token |-> legs[p][i].token, cycle |-> p]

\* The mark on h is that of an open timeline with a leg h backs.
MarkOk(h) ==
  /\ Open(holdings[h].cycle)
  /\ \E i \in IntentsOf[holdings[h].cycle] : legs[holdings[h].cycle][i].holding = h

LEMMA BoundHoldingsLockedMeans ==
  BoundHoldingsLocked <=>
    /\ \A p \in Proposals : \A i \in IntentsOf[p] :
         Open(p) /\ VaultBacked(legs[p][i]) => LegLocked(p, i)
    /\ \A h \in Holdings : holdings[h].cycle # NoProposal => MarkOk(h)
  BY DEF BoundHoldingsLocked, LegLocked, MarkOk

\* A leg that is backed by anything is backed by a holding.
LEMMA BackedByHolding ==
  ASSUME TypeOK, NEW p \in Proposals, NEW i \in IntentsOf[p], VaultBacked(legs[p][i])
  PROVE  legs[p][i].holding \in Holdings
  <1>1. legs[p][i] \in Leg
    BY DEF TypeOK
  <1> QED BY <1>1 DEF Leg, VaultBacked

\* A step that keeps the holdings, what backs each leg, and which timelines
\* are open.
LEMMA BindingsUntouched ==
  ASSUME TypeOK, BoundHoldingsLocked, holdings' = holdings,
         \A q \in Proposals :
           /\ Open(q)' <=> Open(q)
           /\ \A i \in IntentsOf[q] : /\ legs'[q][i].holding = legs[q][i].holding
                                     /\ legs'[q][i].token = legs[q][i].token
  PROVE  BoundHoldingsLocked'
  <1>1. ASSUME NEW h \in Holdings, holdings[h].cycle # NoProposal
        PROVE  MarkOk(h)'
    <2>1. MarkOk(h) /\ holdings[h].cycle \in Proposals
      BY <1>1, BoundHoldingsLockedMeans DEF TypeOK, Holding
    <2> QED BY <2>1 DEF MarkOk
  <1>2. ASSUME NEW q \in Proposals, NEW i \in IntentsOf[q], Open(q)', VaultBacked(legs'[q][i])
        PROVE  LegLocked(q, i)'
    <2>1. Open(q) /\ VaultBacked(legs[q][i])
      BY <1>2 DEF VaultBacked
    <2>2. LegLocked(q, i)
      BY <2>1, BoundHoldingsLockedMeans
    <2> QED BY <2>2 DEF LegLocked
  <1> QED BY <1>1, <1>2 DEF BoundHoldingsLocked, LegLocked, MarkOk

\* Binding takes holdings that are marked with no other cycle.
LEMMA StartBindings ==
  ASSUME TypeOK, BoundHoldingsLocked, NEW s \in Partners, NEW p \in Proposals,
         NEW B \in SUBSET Binding, Start(s, p, B)
  PROVE  BoundHoldingsLocked'
  <1>1. /\ legs'[p] = LegsAtStart(p, B)
        /\ timelines[p] = "none"
        /\ timelines'[p] \in {"escrow.ready", "escrow.pending"}
        /\ \A q \in Proposals : q # p => timelines'[q] = timelines[q] /\ legs'[q] = legs[q]
        /\ \A h \in Holdings :
             holdings'[h] = IF \E b \in B : b.holding = h THEN BoundTo(holdings[h], p) ELSE holdings[h]
    BY DEF Start, TypeOK
  <1>2. \A b \in B :
          /\ b.holding \in Holdings
          /\ b.intent \in IntentsOf[p]
          /\ b.intent \in Intents
          /\ holdings[b.holding].cycle \in {NoProposal, p}
    BY DEF Start, Binding, BindingOk
  <1>3. ASSUME NEW b \in B
        PROVE  holdings'[b.holding] = [status |-> "reserved", token |-> b.token, cycle |-> p]
    <2>1. holdings[b.holding].status = "reserved" /\ holdings[b.holding].token = b.token
      BY DEF Start, BindingOk
    <2>2. holdings'[b.holding] = BoundTo(holdings[b.holding], p)
      BY <1>1, <1>2
    <2> QED BY <2>1, <2>2 DEF BoundTo
  <1>4. ASSUME NEW i \in Intents
        PROVE  /\ VaultBacked(legs'[p][i]) =>
                    \E b \in B : /\ b.intent = i
                                 /\ b.holding = legs'[p][i].holding
                                 /\ b.token = legs'[p][i].token
               /\ \A b \in B : b.intent = i => VaultBacked(legs'[p][i])
    BY <1>1, LegsAtStartBindings
  <1>5. ASSUME NEW q \in Proposals, NEW i \in IntentsOf[q], Open(q)', VaultBacked(legs'[q][i])
        PROVE  LegLocked(q, i)'
    <2>1. CASE q = p
      <3>1. PICK b \in B : b.holding = legs'[p][i].holding /\ b.token = legs'[p][i].token
        BY <1>4, <1>5, <2>1
      <3>2. holdings'[b.holding] = [status |-> "reserved", token |-> b.token, cycle |-> p]
        BY <1>3
      <3> QED BY <2>1, <3>1, <3>2 DEF LegLocked
    <2>2. CASE q # p
      <3> DEFINE h == legs[q][i].holding
      <3>1. Open(q) /\ legs'[q] = legs[q] /\ VaultBacked(legs[q][i])
        BY <1>1, <1>5, <2>2 DEF Open
      <3>2. LegLocked(q, i) /\ h \in Holdings
        BY <3>1, BoundHoldingsLockedMeans, BackedByHolding
      <3>3. holdings[h].cycle = q
        BY <3>2 DEF LegLocked
      <3>4. ~\E b \in B : b.holding = h
        BY <1>2, <2>2, <3>3
      <3>5. holdings'[h] = holdings[h]
        BY <1>1, <3>2, <3>4
      <3> QED BY <3>1, <3>2, <3>5 DEF LegLocked
    <2> QED BY <2>1, <2>2
  <1>6. ASSUME NEW h \in Holdings, holdings'[h].cycle # NoProposal
        PROVE  MarkOk(h)'
    <2>1. CASE \E b \in B : b.holding = h
      <3>1. PICK b \in B : b.holding = h
        BY <2>1
      <3>2. holdings'[h] = [status |-> "reserved", token |-> b.token, cycle |-> p]
        BY <1>3, <3>1
      <3>3. b.intent \in IntentsOf[p] /\ b.intent \in Intents
        BY <1>2
      <3>4. VaultBacked(legs'[p][b.intent])
        BY <1>4, <3>3
      <3>5. PICK c \in B : c.intent = b.intent /\ c.holding = legs'[p][b.intent].holding
        BY <1>4, <3>3, <3>4
      <3>6. b = c
        BY <3>5 DEF Start, NoneTwice
      <3>7. holdings'[h].cycle = p
        BY <3>2
      <3> QED BY <1>1, <3>1, <3>3, <3>5, <3>6, <3>7 DEF MarkOk, Open
    <2>2. CASE ~\E b \in B : b.holding = h
      <3>1. holdings'[h] = holdings[h]
        BY <1>1, <2>2
      <3>2. MarkOk(h) /\ holdings[h].cycle \in Proposals
        BY <1>6, <3>1, BoundHoldingsLockedMeans DEF TypeOK, Holding
      <3>3. holdings[h].cycle # p
        BY <1>1, <3>2 DEF MarkOk, Open
      <3>4. /\ timelines'[holdings[h].cycle] = timelines[holdings[h].cycle]
            /\ legs'[holdings[h].cycle] = legs[holdings[h].cycle]
        BY <1>1, <3>2, <3>3
      <3> QED BY <3>1, <3>2, <3>4 DEF MarkOk, Open
    <2> QED BY <2>1, <2>2
  <1> QED BY <1>5, <1>6 DEF BoundHoldingsLocked, LegLocked, MarkOk

\* The end of a timeline reconciles exactly the holdings marked with it.
LEMMA EndBindings ==
  ASSUME TypeOK, BoundHoldingsLocked, NEW p \in Proposals, Open(p),
         NEW final \in {"withdrawn", "available"}, SettleVaultBindings(p, final),
         Terminal(p)',
         \A q \in Proposals : q # p => timelines'[q] = timelines[q] /\ legs'[q] = legs[q]
  PROVE  BoundHoldingsLocked'
  <1>1. \A h \in Holdings :
          IF Reconciled(p, h)
          THEN holdings'[h] = [status |-> final, token |-> NoToken, cycle |-> NoProposal]
          ELSE holdings'[h] = holdings[h]
    BY ReconcileFacts
  <1>2. ASSUME NEW q \in Proposals, NEW i \in IntentsOf[q], Open(q)', VaultBacked(legs'[q][i])
        PROVE  LegLocked(q, i)'
    <2> DEFINE h == legs[q][i].holding
    <2>1. q # p /\ Open(q) /\ legs'[q] = legs[q] /\ VaultBacked(legs[q][i])
      BY <1>2 DEF Open, Terminal
    <2>2. LegLocked(q, i) /\ h \in Holdings
      BY <2>1, BoundHoldingsLockedMeans, BackedByHolding
    <2>3. ~Reconciled(p, h)
      BY <2>1, <2>2 DEF LegLocked, Reconciled
    <2>4. holdings'[h] = holdings[h]
      BY <1>1, <2>2, <2>3
    <2> QED BY <2>1, <2>2, <2>4 DEF LegLocked
  <1>3. ASSUME NEW h \in Holdings, holdings'[h].cycle # NoProposal
        PROVE  MarkOk(h)'
    <2>1. ~Reconciled(p, h) /\ holdings'[h] = holdings[h]
      BY <1>1, <1>3
    <2>2. MarkOk(h) /\ holdings[h].cycle \in Proposals
      BY <1>3, <2>1, BoundHoldingsLockedMeans DEF TypeOK, Holding
    <2>3. holdings[h].cycle # p
      <3> SUFFICES ASSUME holdings[h].cycle = p
                   PROVE  FALSE
        OBVIOUS
      <3>1. PICK i \in IntentsOf[p] : legs[p][i].holding = h
        BY <2>2 DEF MarkOk
      <3>2. LegLocked(p, i)
        BY <3>1, BoundHoldingsLockedMeans DEF VaultBacked
      <3>3. holdings[h].token = legs[p][i].token
        BY <3>1, <3>2 DEF LegLocked
      <3>4. Reconciled(p, h)
        BY <3>1, <3>3 DEF Reconciled
      <3> QED BY <2>1, <3>4
    <2>4. /\ timelines'[holdings[h].cycle] = timelines[holdings[h].cycle]
          /\ legs'[holdings[h].cycle] = legs[holdings[h].cycle]
      BY <2>2, <2>3
    <2> QED BY <2>1, <2>2, <2>4 DEF MarkOk, Open
  <1> QED BY <1>2, <1>3 DEF BoundHoldingsLocked, LegLocked, MarkOk

LEMMA NextBindings ==
  TypeOK /\ BoundHoldingsLocked /\ [SettlementNext]_vars => BoundHoldingsLocked'
  <1> SUFFICES ASSUME TypeOK, BoundHoldingsLocked, [SettlementNext]_vars
               PROVE  BoundHoldingsLocked'
    OBVIOUS
  <1>1. ASSUME NEW s \in Partners, NEW p \in Proposals,
               NEW B \in SUBSET {b \in Binding : BindingOk(p, b)}, Start(s, p, B)
        PROVE  BoundHoldingsLocked'
    BY <1>1, StartBindings
  <1>2. ASSUME NEW s \in Partners, NEW p \in Proposals, NEW b \in Binding, StartRefused(s, p, b)
        PROVE  BoundHoldingsLocked'
    BY <1>2, BindingsUntouched DEF StartRefused, Open
  <1>3. ASSUME NEW s \in Partners, NEW p \in Proposals, BeginExecution(s, p)
        PROVE  BoundHoldingsLocked'
    BY <1>3, BindingsUntouched DEF BeginExecution, TypeOK, Open
  <1>4. ASSUME NEW s \in Partners, NEW p \in Proposals, Complete(s, p)
        PROVE  BoundHoldingsLocked'
    <2>1. Open(p) /\ Terminal(p)' /\ SettleVaultBindings(p, "withdrawn")
      BY <1>4 DEF Complete, TypeOK, Open, Terminal
    <2>2. \A q \in Proposals : q # p => timelines'[q] = timelines[q] /\ legs'[q] = legs[q]
      BY <1>4, CompleteLegs DEF Complete, TypeOK
    <2> QED BY <2>1, <2>2, EndBindings
  <1>5. ASSUME NEW s \in Partners, NEW p \in Proposals, ExpireDepositWindow(s, p)
        PROVE  BoundHoldingsLocked'
    <2>1. Open(p) /\ Terminal(p)' /\ SettleVaultBindings(p, "available")
      BY <1>5 DEF ExpireDepositWindow, TypeOK, Open, Terminal
    <2>2. \A q \in Proposals : q # p => timelines'[q] = timelines[q] /\ legs'[q] = legs[q]
      BY <1>5, ExpireLegs DEF ExpireDepositWindow, TypeOK
    <2> QED BY <2>1, <2>2, EndBindings
  <1>6. ASSUME NEW a \in Actors, NEW p \in Proposals, ConfirmDeposit(a, p)
        PROVE  BoundHoldingsLocked'
    <2>1. PICK i \in FirstLegs(a, p) :
            DepositOf(p, i)
      BY <1>6 DEF ConfirmDeposit, DepositOf
    <2>2. i \in Intents
      BY DEF FirstLegs, OwnLegs
    <2>3. ASSUME NEW q \in Proposals, NEW j \in IntentsOf[q]
          PROVE  /\ legs'[q][j].holding = legs[q][j].holding
                 /\ legs'[q][j].token = legs[q][j].token
      <3>1. /\ q # p => legs'[q] = legs[q]
            /\ q = p /\ j # i => legs'[p][j] = legs[p][j]
            /\ legs'[p][i].holding = legs[p][i].holding
            /\ legs'[p][i].token = legs[p][i].token
        BY <2>1, <2>2, DepositFacts
      <3>2. CASE q = p /\ j = i
        BY <3>1, <3>2
      <3>3. CASE ~(q = p /\ j = i)
        BY <3>1, <3>3
      <3> QED BY <3>2, <3>3
    <2>4. \A q \in Proposals : Open(q)' <=> Open(q)
      BY <1>6 DEF ConfirmDeposit, FundsLast, TypeOK, Open
    <2> QED BY <1>6, <2>3, <2>4, BindingsUntouched DEF ConfirmDeposit
  <1>7. CASE UNCHANGED vars
    BY <1>7, BindingsUntouched DEF vars, settlementVars, Open
  <1> QED BY <1>1, <1>2, <1>3, <1>4, <1>5, <1>6, <1>7 DEF SettlementNext

-----------------------------------------------------------------------------
(* The outbox follows the timelines.                                       *)

SettlementTransitions == CycleTransitions \ {"proposed->accepted", "proposed->failed"}

\* A step that takes the timeline of p along its path and announces exactly
\* the transitions it adds.
LEMMA PathAnnounced ==
  ASSUME TypeOK, OutboxFollowsTimelines, NEW p \in Proposals, NEW New, NEW E,
         outbox' = Emit(E),
         \A q \in Proposals : q # p => timelines'[q] = timelines[q],
         \A q \in Proposals, c \in SettlementTransitions :
           StateEvent(q, c) \in E <=> q = p /\ c \in New,
         \A c \in SettlementTransitions :
           /\ c \in Path(timelines'[p]) <=> c \in Path(timelines[p]) \/ c \in New
           /\ ~(c \in Path(timelines[p]) /\ c \in New)
  PROVE  OutboxFollowsTimelines'
  <1> SUFFICES ASSUME NEW q \in Proposals, NEW c \in SettlementTransitions
               PROVE  outbox'[StateEvent(q, c)] = IF c \in Path(timelines'[q]) THEN 1 ELSE 0
    BY DEF OutboxFollowsTimelines, SettlementTransitions
  <1> DEFINE e == StateEvent(q, c)
  <1>1. e \in EventIds
    <2>1. \E i \in Intents : TRUE
      OBVIOUS
    <2> QED BY <2>1, EventIdsBelong DEF EventIds, SettlementTransitions
  <1>2. outbox[e] = IF c \in Path(timelines[q]) THEN 1 ELSE 0
    BY DEF OutboxFollowsTimelines, SettlementTransitions
  <1> HIDE DEF e
  <1>3. outbox'[e] = IF e \in E THEN outbox[e] + 1 ELSE outbox[e]
    <2>1. outbox \in [EventIds -> Nat] /\ outbox' = Appended(outbox, E)
      BY DEF TypeOK, Emit
    <2> QED BY <1>1, <2>1, AppendedFacts
  <1>4. e \in E <=> q = p /\ c \in New
    BY DEF e
  <1>5. CASE q = p
    BY <1>2, <1>3, <1>4, <1>5 DEF e
  <1>6. CASE q # p
    BY <1>2, <1>3, <1>4, <1>6 DEF e
  <1> QED BY <1>5, <1>6

\* A step that moves no timeline and appends nothing.
LEMMA PathKept ==
  ASSUME OutboxFollowsTimelines, UNCHANGED <<outbox, timelines>>
  PROVE  OutboxFollowsTimelines'
  BY DEF OutboxFollowsTimelines

\* The events of released intents announce no transition.
LEMMA UnreservedEventsOther ==
  ASSUME NEW p \in Proposals, NEW q, NEW c
  PROVE  StateEvent(q, c) \notin UnreservedEvents(p)
  <1> SUFFICES ASSUME StateEvent(q, c) \in UnreservedEvents(p)
               PROVE  FALSE
    OBVIOUS
  <1>1. \E i : StateEvent(q, c) = IntentEvent("intent.unreserved", p, i)
    BY DEF UnreservedEvents
  <1> QED BY <1>1 DEF StateEvent, IntentEvent

LEMMA NextOutbox ==
  TypeOK /\ CyclesOk /\ OutboxFollowsTimelines /\ [SettlementNext]_vars => OutboxFollowsTimelines'
  <1> SUFFICES ASSUME TypeOK, CyclesOk, OutboxFollowsTimelines, [SettlementNext]_vars
               PROVE  OutboxFollowsTimelines'
    OBVIOUS
  <1>1. ASSUME NEW s \in Partners, NEW p \in Proposals,
               NEW B \in SUBSET {b \in Binding : BindingOk(p, b)}, Start(s, p, B)
        PROVE  OutboxFollowsTimelines'
    <2> DEFINE New == {"accepted->escrow.pending"} \cup
                      (IF AllDeposited(legs', p) THEN {"escrow.pending->escrow.ready"} ELSE {})
               E == {StateEvent(p, "accepted->escrow.pending")} \cup
                    (IF AllDeposited(legs', p)
                     THEN {StateEvent(p, "escrow.pending->escrow.ready")} ELSE {})
    <2>1. \A q \in Proposals, c \in SettlementTransitions : StateEvent(q, c) \in E <=> q = p /\ c \in New
      BY StateEventsDiffer
    <2>2. /\ timelines[p] = "none"
          /\ timelines'[p] = IF AllDeposited(legs', p) THEN "escrow.ready" ELSE "escrow.pending"
          /\ \A q \in Proposals : q # p => timelines'[q] = timelines[q]
          /\ outbox' = Emit(E)
      BY <1>1 DEF Start, TypeOK
    <2>3. \A c \in SettlementTransitions :
            /\ c \in Path(timelines'[p]) <=> c \in Path(timelines[p]) \/ c \in New
            /\ ~(c \in Path(timelines[p]) /\ c \in New)
      BY <2>2 DEF Path, SettlementTransitions, CycleTransitions
    <2> HIDE DEF New, E
    <2> QED BY <2>1, <2>2, <2>3, PathAnnounced
  <1>2. ASSUME NEW s \in Partners, NEW p \in Proposals, NEW b \in Binding, StartRefused(s, p, b)
        PROVE  OutboxFollowsTimelines'
    BY <1>2, PathKept DEF StartRefused
  <1>3. ASSUME NEW s \in Partners, NEW p \in Proposals, BeginExecution(s, p)
        PROVE  OutboxFollowsTimelines'
    <2> DEFINE New == {"escrow.ready->executing"}
               E == {StateEvent(p, "escrow.ready->executing")}
    <2>1. \A q \in Proposals, c \in SettlementTransitions : StateEvent(q, c) \in E <=> q = p /\ c \in New
      BY StateEventsDiffer
    <2>2. /\ timelines[p] = "escrow.ready" /\ timelines'[p] = "executing"
          /\ \A q \in Proposals : q # p => timelines'[q] = timelines[q]
          /\ outbox' = Emit(E)
      BY <1>3 DEF BeginExecution, TypeOK
    <2>3. \A c \in SettlementTransitions :
            /\ c \in Path(timelines'[p]) <=> c \in Path(timelines[p]) \/ c \in New
            /\ ~(c \in Path(timelines[p]) /\ c \in New)
      BY <2>2 DEF Path, SettlementTransitions, CycleTransitions
    <2> HIDE DEF New, E
    <2> QED BY <2>1, <2>2, <2>3, PathAnnounced
  <1>4. ASSUME NEW s \in Partners, NEW p \in Proposals, Complete(s, p)
        PROVE  OutboxFollowsTimelines'
    <2> DEFINE New == {"executing->completed"}
               E == UnreservedEvents(p) \cup {StateEvent(p, "executing->completed")}
    <2>1. \A q \in Proposals, c \in SettlementTransitions : StateEvent(q, c) \in E <=> q = p /\ c \in New
      BY StateEventsDiffer, UnreservedEventsOther
    <2>2. /\ timelines[p] = "executing" /\ timelines'[p] = "completed"
          /\ \A q \in Proposals : q # p => timelines'[q] = timelines[q]
          /\ outbox' = Emit(E)
      BY <1>4 DEF Complete, TypeOK
    <2>3. \A c \in SettlementTransitions :
            /\ c \in Path(timelines'[p]) <=> c \in Path(timelines[p]) \/ c \in New
            /\ ~(c \in Path(timelines[p]) /\ c \in New)
      BY <2>2 DEF Path, SettlementTransitions, CycleTransitions
    <2> HIDE DEF New, E
    <2> QED BY <2>1, <2>2, <2>3, PathAnnounced
  <1>5. ASSUME NEW s \in Partners, NEW p \in Proposals, ExpireDepositWindow(s, p)
        PROVE  OutboxFollowsTimelines'
    <2> DEFINE New == {"escrow.pending->failed"}
               E == UnreservedEvents(p) \cup {StateEvent(p, "escrow.pending->failed")}
    <2>1. \A q \in Proposals, c \in SettlementTransitions : StateEvent(q, c) \in E <=> q = p /\ c \in New
      BY StateEventsDiffer, UnreservedEventsOther
    <2>2. /\ timelines[p] = "escrow.pending" /\ timelines'[p] = "failed"
          /\ \A q \in Proposals : q # p => timelines'[q] = timelines[q]
          /\ outbox' = Emit(E)
      BY <1>5 DEF ExpireDepositWindow, TypeOK
    <2>3. \A c \in SettlementTransitions :
            /\ c \in Path(timelines'[p]) <=> c \in Path(timelines[p]) \/ c \in New
            /\ ~(c \in Path(timelines[p]) /\ c \in New)
      BY <2>2 DEF Path, SettlementTransitions, CycleTransitions
    <2> HIDE DEF New, E
    <2> QED BY <2>1, <2>2, <2>3, PathAnnounced
  <1>6. ASSUME NEW a \in Actors, NEW p \in Proposals, ConfirmDeposit(a, p)
        PROVE  OutboxFollowsTimelines'
    <2> DEFINE New == IF FundsLast(legs', p) THEN {"escrow.pending->escrow.ready"} ELSE {}
               E == IF FundsLast(legs', p) THEN {StateEvent(p, "escrow.pending->escrow.ready")} ELSE {}
    <2>1. \A q \in Proposals, c \in SettlementTransitions : StateEvent(q, c) \in E <=> q = p /\ c \in New
      BY StateEventsDiffer
    <2>2. /\ timelines'[p] = IF FundsLast(legs', p) THEN "escrow.ready" ELSE timelines[p]
          /\ FundsLast(legs', p) => timelines[p] = "escrow.pending"
          /\ \A q \in Proposals : q # p => timelines'[q] = timelines[q]
          /\ outbox' = Emit(E)
      BY <1>6 DEF ConfirmDeposit, TypeOK, FundsLast
    <2>3. \A c \in SettlementTransitions :
            /\ c \in Path(timelines'[p]) <=> c \in Path(timelines[p]) \/ c \in New
            /\ ~(c \in Path(timelines[p]) /\ c \in New)
      BY <2>2 DEF Path, SettlementTransitions, CycleTransitions
    <2> HIDE DEF New, E
    <2> QED BY <2>1, <2>2, <2>3, PathAnnounced
  <1>7. CASE UNCHANGED vars
    BY <1>7, PathKept DEF vars, settlementVars
  <1> QED BY <1>1, <1>2, <1>3, <1>4, <1>5, <1>6, <1>7 DEF SettlementNext

-----------------------------------------------------------------------------
(* The invariant.                                                          *)

LEMMA InitInv == Init => SettlementInv
  <1> SUFFICES ASSUME Init
               PROVE  SettlementInv
    OBVIOUS
  <1>1. ASSUME NEW i \in Intents
        PROVE  /\ reservations[i] \in Proposals \cup {NoProposal}
               /\ \A p \in Proposals : reservations[i] = p <=> phase[p] = "ready" /\ i \in IntentsOf[p]
    <2> DEFINE Mine(p) == phase[p] = "ready" /\ i \in IntentsOf[p]
    <2>1. \A p, q \in Proposals : Mine(p) /\ Mine(q) => p = q
      BY DEF Init
    <2>2. reservations[i] = IF \E p \in Proposals : Mine(p)
                            THEN CHOOSE p \in Proposals : Mine(p) ELSE NoProposal
      BY DEF Init
    <2> QED BY <2>1, <2>2
  <1>2. TypeOK
    <2>1. PendingLeg \in Leg
      BY DEF PendingLeg, Leg, TimelineStates
    <2>2. reservations \in [Intents -> Proposals \cup {NoProposal}]
      BY <1>1 DEF Init
    <2>3. holdings \in [Holdings -> Holding]
      BY DEF Init, Holding
    <2> QED BY <2>1, <2>2, <2>3 DEF Init, SettlementInit, TypeOK, TimelineStates
  <1>3. /\ \A p \in Proposals : timelines[p] = "none" /\ receipts[p] = "none" /\ ~Terminal(p) /\ ~Open(p)
        /\ \A p \in Proposals : \A i \in IntentsOf[p] : legs[p][i] = PendingLeg
    BY DEF Init, SettlementInit, Terminal, Open
  <1>4. CyclesOk
    BY <1>3 DEF CyclesOk, CycleOk, PendingLeg, VaultBacked
  <1>5. LockedUntilSettled /\ StartedIsReady
    BY <1>1, <1>3 DEF LockedUntilSettled, StartedIsReady
  <1>6. BoundHoldingsLocked
    <2>1. \A h \in Holdings : holdings[h].cycle = NoProposal
      BY DEF Init
    <2> QED BY <1>3, <2>1 DEF BoundHoldingsLocked
  <1>7. OutboxFollowsTimelines
    <2>1. ASSUME NEW p \in Proposals, NEW c \in CycleTransitions
          PROVE  outbox[StateEvent(p, c)] = 0
      BY EventIdsBelong DEF Init, EventIds
    <2> QED BY <1>3, <2>1 DEF OutboxFollowsTimelines, Path
  <1> QED BY <1>2, <1>4, <1>5, <1>6, <1>7, CyclesOkMeans DEF SettlementInv

LEMMA NextInv == SettlementInv /\ [SettlementNext]_vars => SettlementInv'
  <1> SUFFICES ASSUME SettlementInv, [SettlementNext]_vars
               PROVE  SettlementInv'
    OBVIOUS
  <1>1. TypeOK /\ CyclesOk
    BY CyclesOkMeans DEF SettlementInv
  <1>2. CyclesOk' <=> FundedIffReady' /\ AllOrNothing' /\ VaultLegsFunded' /\ UnstartedLegsPending'
    BY DEF CyclesOk, CycleOk, FundedIffReady, AllOrNothing, VaultLegsFunded, UnstartedLegsPending
  <1> QED BY <1>1, <1>2, NextTypes, NextCyclesOk, NextLocks, NextBindings, NextOutbox
          DEF SettlementInv

\* Settlement never leaves its strengthened invariant.
THEOREM SettlementInvariant == Spec => []SettlementInv
  BY InitInv, NextInv, PTL DEF Spec

\* The records of every cycle keep their shape.
THEOREM SettlementTypes == Spec => []TypeOK
  <1>1. SettlementInv => TypeOK
    BY DEF SettlementInv
  <1> QED BY <1>1, SettlementInvariant, PTL

\* No cycle is executed unless every leg is funded, and no fully funded cycle
\* is left waiting, for any number of participants and partners.
THEOREM FundedWhenReady == Spec => []FundedIffReady
  <1>1. SettlementInv => FundedIffReady
    BY DEF SettlementInv
  <1> QED BY <1>1, SettlementInvariant, PTL

\* Assets are released together by the completion; a failure refunds every leg
\* that was funded by then, whoever funded it, and what is still deposited in a
\* failed cycle came after its failure; the receipt says which end it was.
THEOREM SettlesAllOrNothing == Spec => []AllOrNothing
  <1>1. SettlementInv => AllOrNothing
    BY DEF SettlementInv
  <1> QED BY <1>1, SettlementInvariant, PTL

\* Intents are locked from the commit to the end of the timeline, and the end
\* of one cycle never unlocks the intents of another.
THEOREM IntentsLockedUntilSettled == Spec => []LockedUntilSettled
  <1>1. SettlementInv => LockedUntilSettled
    BY DEF SettlementInv
  <1> QED BY <1>1, SettlementInvariant, PTL

\* Every holding behind a leg of an open timeline is reserved for that leg and
\* marked with the cycle, and no other holding is marked.
THEOREM HoldingsLockedWhileBound == Spec => []BoundHoldingsLocked
  <1>1. SettlementInv => BoundHoldingsLocked
    BY DEF SettlementInv
  <1> QED BY <1>1, SettlementInvariant, PTL

\* The transitions in the outbox are those of the path of each timeline, once.
THEOREM OutboxTellsTimelines == Spec => []OutboxFollowsTimelines
  <1>1. SettlementInv => OutboxFollowsTimelines
    BY DEF SettlementInv
  <1> QED BY <1>1, SettlementInvariant, PTL

-----------------------------------------------------------------------------
(* What a step may never do.                                               *)

CycleFinal(p) ==
  /\ Terminal(p) => timelines'[p] = timelines[p]
  /\ cycleScope'[p] # cycleScope[p] => cycleScope[p] = NoPartner /\ cycleScope'[p] = PartnerOf[p]
  /\ \A i \in IntentsOf[p] :
       /\ legs[p][i].status \in {"released", "refunded"} => legs'[p][i] = legs[p][i]
       /\ legs'[p][i].status # legs[p][i].status /\ legs[p][i].status = "deposited"
            => Terminal(p)' /\ ~Terminal(p)

\* The scope of a cycle is written once, by the partner that owns the proposal.
LEMMA ScopeWrittenOnce ==
  ASSUME TypeOK, [SettlementNext]_vars, NEW p \in Proposals, cycleScope'[p] # cycleScope[p]
  PROVE  cycleScope[p] = NoPartner /\ cycleScope'[p] = PartnerOf[p]
  <1>1. ASSUME NEW s \in Partners, NEW q \in Proposals, MayStart(s, q),
               cycleScope' = [cycleScope EXCEPT ![q] = s]
        PROVE  cycleScope[p] = NoPartner /\ cycleScope'[p] = PartnerOf[p]
    BY <1>1 DEF TypeOK, MayStart
  <1>2. CASE cycleScope' = cycleScope
    BY <1>2
  <1>3. \/ cycleScope' = cycleScope
        \/ \E s \in Partners, q \in Proposals :
             MayStart(s, q) /\ cycleScope' = [cycleScope EXCEPT ![q] = s]
    BY DEF SettlementNext, Start, StartRefused, ConfirmDeposit, BeginExecution, Complete,
           ExpireDepositWindow, vars, settlementVars
  <1> QED BY <1>1, <1>2, <1>3

\* A cycle whose timeline and legs a step leaves alone.
LEMMA FinalUntouched ==
  ASSUME TypeOK, [SettlementNext]_vars, NEW p \in Proposals,
         timelines'[p] = timelines[p], legs'[p] = legs[p]
  PROVE  CycleFinal(p)
  BY ScopeWrittenOnce DEF CycleFinal

LEMMA StepFinal ==
  ASSUME TypeOK, CyclesOk, [SettlementNext]_vars, NEW q \in Proposals
  PROVE  CycleFinal(q)
  <1>1. ASSUME NEW s \in Partners, NEW p \in Proposals,
               NEW B \in SUBSET {b \in Binding : BindingOk(p, b)}, Start(s, p, B)
        PROVE  CycleFinal(q)
    <2>1. CASE q = p
      <3>1. timelines[p] = "none"
        BY <1>1 DEF Start
      <3>2. \A i \in IntentsOf[p] : legs[p][i].status = "pending"
        BY <3>1 DEF CyclesOk, CycleOk
      <3> QED BY <2>1, <3>1, <3>2, ScopeWrittenOnce DEF CycleFinal, Terminal
    <2>2. CASE q # p
      BY <1>1, <2>2, FinalUntouched DEF Start, TypeOK
    <2> QED BY <2>1, <2>2
  <1>2. ASSUME NEW s \in Partners, NEW p \in Proposals, NEW b \in Binding, StartRefused(s, p, b)
        PROVE  CycleFinal(q)
    BY <1>2, FinalUntouched DEF StartRefused
  <1>3. ASSUME NEW s \in Partners, NEW p \in Proposals, BeginExecution(s, p)
        PROVE  CycleFinal(q)
    <2>1. legs' = legs /\ (Terminal(q) => timelines'[q] = timelines[q])
      BY <1>3 DEF BeginExecution, TypeOK, Terminal
    <2> QED BY <2>1, ScopeWrittenOnce DEF CycleFinal
  <1>4. ASSUME NEW s \in Partners, NEW p \in Proposals, Complete(s, p)
        PROVE  CycleFinal(q)
    <2>1. CASE q = p
      <3>1. timelines[p] = "executing" /\ timelines'[p] = "completed"
        BY <1>4 DEF Complete, TypeOK
      <3>2. \A i \in IntentsOf[p] : legs[p][i].status = "deposited"
        BY <1>4 DEF Complete, AllDeposited
      <3> QED BY <2>1, <3>1, <3>2, ScopeWrittenOnce DEF CycleFinal, Terminal
    <2>2. CASE q # p
      <3>1. timelines'[q] = timelines[q] /\ legs'[q] = legs[q]
        BY <1>4, <2>2, CompleteLegs DEF Complete, TypeOK
      <3> QED BY <3>1, FinalUntouched
    <2> QED BY <2>1, <2>2
  <1>5. ASSUME NEW s \in Partners, NEW p \in Proposals, ExpireDepositWindow(s, p)
        PROVE  CycleFinal(q)
    <2>1. CASE q = p
      <3>1. timelines[p] = "escrow.pending" /\ timelines'[p] = "failed"
        BY <1>5 DEF ExpireDepositWindow, TypeOK
      <3>2. \A i \in IntentsOf[p] : legs[p][i].status \notin {"released", "refunded"}
        BY <3>1 DEF CyclesOk, CycleOk
      <3> QED BY <2>1, <3>1, <3>2, ScopeWrittenOnce DEF CycleFinal, Terminal
    <2>2. CASE q # p
      <3>1. timelines'[q] = timelines[q] /\ legs'[q] = legs[q]
        BY <1>5, <2>2, ExpireLegs DEF ExpireDepositWindow, TypeOK
      <3> QED BY <3>1, FinalUntouched
    <2> QED BY <2>1, <2>2
  <1>6. ASSUME NEW a \in Actors, NEW p \in Proposals, ConfirmDeposit(a, p)
        PROVE  CycleFinal(q)
    <2>1. PICK i \in FirstLegs(a, p) :
            /\ legs[p][i].status = "pending"
            /\ DepositOf(p, i)
      BY <1>6 DEF ConfirmDeposit, DepositOf
    <2>2. i \in Intents
      BY DEF FirstLegs, OwnLegs
    <2>3. ASSUME NEW j \in IntentsOf[q], legs[q][j].status # "pending"
          PROVE  legs'[q][j] = legs[q][j]
      <3>1. /\ q # p => legs'[q] = legs[q]
            /\ q = p /\ j # i => legs'[p][j] = legs[p][j]
        BY <2>1, <2>2, DepositFacts
      <3> QED BY <2>1, <2>3, <3>1
    <2>4. Terminal(q) => timelines'[q] = timelines[q]
      BY <1>6 DEF ConfirmDeposit, FundsLast, TypeOK, Terminal
    <2> QED BY <2>3, <2>4, ScopeWrittenOnce DEF CycleFinal
  <1>7. CASE UNCHANGED vars
    BY <1>7, FinalUntouched DEF vars, settlementVars
  <1> QED BY <1>1, <1>2, <1>3, <1>4, <1>5, <1>6, <1>7 DEF SettlementNext

\* Settled legs and finished timelines are final, a deposit is only taken back
\* by the end of its cycle, and the scope of a cycle is given once, to the
\* partner that owns the proposal.
THEOREM SettlementIsFinal == Spec => SettledIsFinal
  <1>1. SettlementInv /\ [SettlementNext]_vars => \A p \in Proposals : CycleFinal(p)
    BY StepFinal, CyclesOkMeans DEF SettlementInv
  <1>2. SettlementInv /\ [SettlementNext]_vars =>
          [\A p \in Proposals :
             /\ Terminal(p) => timelines'[p] = timelines[p]
             /\ cycleScope'[p] # cycleScope[p] =>
                  cycleScope[p] = NoPartner /\ cycleScope'[p] = PartnerOf[p]
             /\ \A i \in IntentsOf[p] :
                  /\ legs[p][i].status \in {"released", "refunded"} => legs'[p][i] = legs[p][i]
                  /\ legs'[p][i].status # legs[p][i].status /\ legs[p][i].status = "deposited"
                       => Terminal(p)' /\ ~Terminal(p)]_vars
    BY <1>1 DEF CycleFinal
  <1> QED BY <1>2, SettlementInvariant, PTL DEF Spec, SettledIsFinal

-----------------------------------------------------------------------------
(* The whole swap cycle.                                                   *)

USE SwapCycleAssumption

-----------------------------------------------------------------------------
(* What a handshake request does to the state it shares with settlement.   *)

\* Both services append to one outbox.
LEMMA OneOutbox ==
  /\ C!EventIds = EventIds
  /\ \A E : C!Emit(E) = Emit(E)
  /\ \A t, p, i : C!IntentEvent(t, p, i) = IntentEvent(t, p, i)
  /\ \A p, c : C!StateEvent(p, c) = StateEvent(p, c)
  BY DEF C!EventIds, EventIds, C!EventIdsOf, EventIdsOf, C!CycleTransitions, CycleTransitions,
         C!Emit, Emit, C!Appended, Appended, C!IntentEvent, IntentEvent, C!StateEvent, StateEvent

\* The outbox grows by intent.reserved for the pairs in R, intent.unreserved
\* for those in U, and no transition that settlement announces.
Tells(R, U) ==
  \E E : /\ outbox' = Emit(E)
         /\ \A q \in Proposals :
              /\ \A c \in SettlementTransitions : StateEvent(q, c) \notin E
              /\ \A i \in Intents :
                   /\ IntentEvent("intent.reserved", q, i) \in E <=> <<q, i>> \in R
                   /\ IntentEvent("intent.unreserved", q, i) \in E <=> <<q, i>> \in U

\* The first accept of p.
Opens(p) ==
  /\ phase[p] = "none"
  /\ \E ph \in {"accept", "ready"} : phase' = [phase EXCEPT ![p] = ph]
  /\ \A i \in IntentsOf[p] : reservations[i] \in {NoProposal, p}
  /\ reservations' = [i \in Intents |-> IF i \in IntentsOf[p] THEN p ELSE reservations[i]]
  /\ Tells({p} \X IntentsOf[p], {})

\* A later accept of p.
Confirms(p) ==
  /\ C!Live(p)
  /\ \E ph \in {phase[p], "ready"} : phase' = [phase EXCEPT ![p] = ph]
  /\ UNCHANGED reservations
  /\ Tells({}, {})

\* A decline of p before anybody has accepted it.
Abandons(p) ==
  /\ phase[p] = "none"
  /\ phase' = [phase EXCEPT ![p] = "cancelled"]
  /\ UNCHANGED <<reservations, outbox>>

Held(S) == {x \in S \X Intents : x[2] \in IntentsOf[x[1]] /\ reservations[x[2]] = x[1]}

\* A decline of an open commit, or the sweep.
Cancels(S) ==
  /\ \A q \in S : phase[q] # "none"
  /\ phase' = [q \in Proposals |-> IF q \in S THEN "cancelled" ELSE phase[q]]
  /\ reservations' = [i \in Intents |-> IF \E q \in S : i \in IntentsOf[q] /\ reservations[i] = q
                                        THEN NoProposal ELSE reservations[i]]
  /\ Tells({}, Held(S))

\* These are all.
LEMMA HandshakeKinds ==
  ASSUME TypeOK, C!Next
  PROVE  \/ \E p \in Proposals : Opens(p) \/ Confirms(p) \/ Abandons(p)
         \/ \E S \in SUBSET Proposals : Cancels(S)
         \/ UNCHANGED <<phase, reservations, outbox>>
  <1>1. ASSUME NEW a \in Actors, NEW p \in Proposals, C!FirstAccept(a, p)
        PROVE  Opens(p)
    <2> DEFINE E == C!ReservedEvents(p) \cup
                 (IF C!BecomesReady(status', p) THEN {C!StateEvent(p, "proposed->accepted")} ELSE {})
    <2>1. ASSUME NEW q \in Proposals
          PROVE  /\ \A c \in SettlementTransitions : StateEvent(q, c) \notin E
                 /\ \A i \in Intents :
                      /\ IntentEvent("intent.reserved", q, i) \in E <=> <<q, i>> \in {p} \X IntentsOf[p]
                      /\ IntentEvent("intent.unreserved", q, i) \notin E
      <3>1. \A e : e \in E =>
                    \/ \E j \in IntentsOf[p] : e = IntentEvent("intent.reserved", p, j)
                    \/ e = StateEvent(p, "proposed->accepted")
        BY OneOutbox DEF C!ReservedEvents
      <3>2. \A j \in IntentsOf[p] : IntentEvent("intent.reserved", p, j) \in E
        BY OneOutbox DEF C!ReservedEvents
      <3> HIDE DEF E
      <3> QED BY <3>1, <3>2 DEF IntentEvent, StateEvent, SettlementTransitions
    <2>2. outbox' = Emit(E)
      BY <1>1, OneOutbox DEF C!FirstAccept
    <2> HIDE DEF E
    <2>3. Tells({p} \X IntentsOf[p], {})
      BY <2>1, <2>2 DEF Tells
    <2> QED BY <1>1, <2>3 DEF Opens, C!FirstAccept, C!Conflicts, C!ReserveIntents
  <1>2. ASSUME NEW a \in Actors, NEW p \in Proposals, C!LaterAccept(a, p)
        PROVE  Confirms(p)
    <2> DEFINE E == IF C!BecomesReady(status', p) THEN {C!StateEvent(p, "proposed->accepted")} ELSE {}
    <2>1. ASSUME NEW q \in Proposals
          PROVE  /\ \A c \in SettlementTransitions : StateEvent(q, c) \notin E
                 /\ \A i \in Intents : /\ IntentEvent("intent.reserved", q, i) \notin E
                                      /\ IntentEvent("intent.unreserved", q, i) \notin E
      BY OneOutbox DEF IntentEvent, StateEvent, SettlementTransitions
    <2>2. outbox' = Emit(E)
      BY <1>2, OneOutbox DEF C!LaterAccept
    <2> HIDE DEF E
    <2>3. Tells({}, {})
      BY <2>1, <2>2 DEF Tells
    <2> QED BY <1>2, <2>3 DEF Confirms, C!LaterAccept
  <1>3. ASSUME NEW a \in Actors, NEW p \in Proposals, C!DeclineUnopened(a, p)
        PROVE  Abandons(p)
    BY <1>3 DEF Abandons, C!DeclineUnopened
  <1>4. ASSUME NEW a \in Actors, NEW p \in Proposals, C!DeclineCommit(a, p)
        PROVE  Cancels({p})
    <2> DEFINE E == C!UnreservedEvents(p)
    <2>1. ASSUME NEW q \in Proposals
          PROVE  /\ \A c \in SettlementTransitions : StateEvent(q, c) \notin E
                 /\ \A i \in Intents :
                      /\ IntentEvent("intent.reserved", q, i) \notin E
                      /\ IntentEvent("intent.unreserved", q, i) \in E <=> <<q, i>> \in Held({p})
      BY OneOutbox DEF C!UnreservedEvents, C!HeldBy, Held, IntentEvent, StateEvent
    <2>2. outbox' = Emit(E)
      BY <1>4, OneOutbox DEF C!DeclineCommit
    <2> HIDE DEF E
    <2>3. Tells({}, Held({p}))
      BY <2>1, <2>2 DEF Tells
    <2>4. phase' = [q \in Proposals |-> IF q \in {p} THEN "cancelled" ELSE phase[q]]
      BY <1>4 DEF C!DeclineCommit, TypeOK
    <2> QED BY <1>4, <2>3, <2>4 DEF Cancels, C!DeclineCommit, C!UnreserveIntents, C!HeldBy
  <1>5. ASSUME NEW S \in SUBSET Proposals, C!ExpireAcceptPhase(S)
        PROVE  \E D \in SUBSET Proposals : Cancels(D)
    <2> DEFINE D == C!Due(S)
               E == (UNION {C!UnreservedEvents(p) : p \in D})
                      \cup {C!StateEvent(p, "proposed->failed") : p \in D}
    <2>1. D \in SUBSET Proposals /\ \A q \in D : phase[q] # "none"
      BY DEF C!Due
    <2>2. ASSUME NEW q \in Proposals
          PROVE  /\ \A c \in SettlementTransitions : StateEvent(q, c) \notin E
                 /\ \A i \in Intents :
                      /\ IntentEvent("intent.reserved", q, i) \notin E
                      /\ IntentEvent("intent.unreserved", q, i) \in E <=> <<q, i>> \in Held(D)
      <3>1. \A e : e \in E <=> \/ \E p \in D : \E j \in IntentsOf[p] :
                                    /\ reservations[j] = p
                                    /\ e = IntentEvent("intent.unreserved", p, j)
                              \/ \E p \in D : e = StateEvent(p, "proposed->failed")
        BY OneOutbox DEF C!UnreservedEvents, C!HeldBy
      <3> HIDE DEF E, D
      <3> QED BY <2>1, <3>1 DEF Held, IntentEvent, StateEvent, SettlementTransitions
    <2>3. outbox' = Emit(E)
      BY <1>5, OneOutbox DEF C!ExpireAcceptPhase
    <2>4. /\ phase' = [p \in Proposals |-> IF p \in D THEN "cancelled" ELSE phase[p]]
          /\ C!UnreserveIntents(D)
      BY <1>5 DEF C!ExpireAcceptPhase
    <2> HIDE DEF E, D
    <2>5. Tells({}, Held(D))
      BY <2>2, <2>3 DEF Tells
    <2> QED BY <2>1, <2>4, <2>5 DEF Cancels, C!UnreserveIntents, C!HeldBy
  <1>6. CASE C!Tick
    BY <1>6 DEF C!Tick
  <1>7. CASE \E a \in Actors, p \in Proposals : C!Accept(a, p) \/ C!Decline(a, p)
    <2>1. PICK a \in Actors, p \in Proposals : C!Accept(a, p) \/ C!Decline(a, p)
      BY <1>7
    <2>2. Opens(p) \/ Confirms(p) \/ Abandons(p) \/ Cancels({p})
      BY <1>1, <1>2, <1>3, <1>4, <2>1 DEF C!Accept, C!Decline
    <2>3. {p} \in SUBSET Proposals
      OBVIOUS
    <2> QED BY <2>2, <2>3
  <1> QED BY <1>5, <1>6, <1>7 DEF C!Next

-----------------------------------------------------------------------------
(* Types.                                                                  *)

CycleTypes == TypeOK /\ vaultLog \in [Holdings -> V!VaultEvents]

LEMMA TellsTypes ==
  ASSUME TypeOK, NEW R, NEW U, Tells(R, U)
  PROVE  outbox' \in [EventIds -> Nat]
  BY EmitTypes DEF Tells

LEMMA HandshakeTypes ==
  ASSUME CycleTypes, HandshakeStep
  PROVE  CycleTypes'
  <1>1. TypeOK
    BY DEF CycleTypes
  <1>2. phase' \in [Proposals -> {"none", "accept", "ready", "cancelled"}]
    BY ZenonT(30), <1>1, HandshakeKinds DEF HandshakeStep, Opens, Confirms, Abandons, Cancels, TypeOK
  <1>3. reservations' \in [Intents -> Proposals \cup {NoProposal}]
    BY <1>1, HandshakeKinds DEF HandshakeStep, Opens, Confirms, Abandons, Cancels, TypeOK
  <1>4. outbox' \in [EventIds -> Nat]
    <2>1. (\E R, U : Tells(R, U)) \/ UNCHANGED outbox
      BY <1>1, HandshakeKinds DEF HandshakeStep, Opens, Confirms, Abandons, Cancels
    <2> QED BY <1>1, <2>1, TellsTypes DEF TypeOK
  <1> QED BY <1>2, <1>3, <1>4 DEF HandshakeStep, CycleTypes, TypeOK

\* Writing the status, or status and reservation id, of a record.
LEMMA HoldingUpdate ==
  ASSUME NEW r \in Holding, NEW s, NEW k
  PROVE  /\ [r EXCEPT !.status = s] = [status |-> s, token |-> r.token, cycle |-> r.cycle]
         /\ [r EXCEPT !.status = s, !.token = k] = [status |-> s, token |-> k, cycle |-> r.cycle]
  <1>1. [r EXCEPT !.status = s] = [status |-> s, token |-> r.token, cycle |-> r.cycle]
    BY DEF Holding
  <1>2. [r EXCEPT !.status = s, !.token = k] = [[r EXCEPT !.status = s] EXCEPT !.token = k]
    OBVIOUS
  <1>3. [[status |-> s, token |-> r.token, cycle |-> r.cycle] EXCEPT !.token = k]
          = [status |-> s, token |-> k, cycle |-> r.cycle]
    OBVIOUS
  <1> QED BY <1>1, <1>2, <1>3

\* Holding h gets status s and reservation id k and keeps its mark.
Becomes(h, s, k) ==
  holdings' = [holdings EXCEPT ![h] = [status |-> s, token |-> k, cycle |-> holdings[h].cycle]]

LEMMA HoldingsUpdate ==
  ASSUME TypeOK, NEW h \in Holdings, NEW s, NEW k
  PROVE  /\ holdings' = [holdings EXCEPT ![h].status = s] => Becomes(h, s, holdings[h].token)
         /\ holdings' = [holdings EXCEPT ![h].status = s, ![h].token = k] => Becomes(h, s, k)
  <1>1. holdings[h] \in Holding
    BY DEF TypeOK
  <1>2. [holdings[h] EXCEPT !.status = s]
          = [status |-> s, token |-> holdings[h].token, cycle |-> holdings[h].cycle]
    BY <1>1, HoldingUpdate
  <1>3. [holdings[h] EXCEPT !.status = s, !.token = k]
          = [status |-> s, token |-> k, cycle |-> holdings[h].cycle]
    BY <1>1, HoldingUpdate
  <1>4. [holdings EXCEPT ![h].status = s] = [holdings EXCEPT ![h] = [holdings[h] EXCEPT !.status = s]]
    OBVIOUS
  <1>5. [holdings EXCEPT ![h].status = s, ![h].token = k]
          = [holdings EXCEPT ![h] = [holdings[h] EXCEPT !.status = s, !.token = k]]
    OBVIOUS
  <1> QED BY <1>2, <1>3, <1>4, <1>5 DEF Becomes

\* What a vault request does to the holdings: at most one changes, never its
\* mark, and vaultLog says what became of it.
Told(h) ==
  /\ \A g \in Holdings : g # h => holdings'[g] = holdings[g] /\ vaultLog'[g] = vaultLog[g]
  /\ holdings'[h].cycle = holdings[h].cycle
  /\ holdings'[h].status = V!StatusAfter[vaultLog'[h]]
  /\ \/ holdings[h].status = "none" /\ holdings'[h].status = "available"
          /\ holdings'[h].token = holdings[h].token
     \/ holdings[h].status = "available" /\ holdings'[h].status = "reserved"
          /\ holdings'[h].token \in Tokens
     \/ holdings[h].status = "reserved" /\ holdings'[h].status = "available"
          /\ holdings'[h].token = NoToken
     \/ holdings[h].status = "available" /\ holdings'[h].status = "withdrawn"
          /\ holdings'[h].token = NoToken

LEMMA VaultFacts ==
  ASSUME CycleTypes, VaultStep
  PROVE  /\ CycleTypes'
         /\ \E h \in Holdings : Told(h)
  <1>1. PICK h \in Holdings :
          \/ \E u \in Actors : V!Deposit(u, h) \/ V!Withdraw(u, h)
          \/ \E token \in Tokens : V!Reserve(h, token) \/ V!Release(h, token)
    BY DEF VaultStep, V!Next
  <1>2. PICK st \in {"available", "reserved", "withdrawn"}, tk \in Tokens \cup {NoToken},
             ev \in V!VaultEvents :
          /\ Becomes(h, st, tk)
          /\ vaultLog' = [vaultLog EXCEPT ![h] = ev]
          /\ st = V!StatusAfter[ev]
          /\ \/ holdings[h].status = "none" /\ st = "available" /\ tk = holdings[h].token
             \/ holdings[h].status = "available" /\ st = "reserved" /\ tk \in Tokens
             \/ holdings[h].status = "reserved" /\ st = "available" /\ tk = NoToken
             \/ holdings[h].status = "available" /\ st = "withdrawn" /\ tk = NoToken
    <2>1. /\ TypeOK
          /\ holdings[h].status \in {"none", "available", "reserved", "withdrawn"}
          /\ holdings[h].token \in Tokens \cup {NoToken}
      BY DEF CycleTypes, TypeOK, Holding
    <2>2. CASE \E u \in Actors : V!Deposit(u, h)
      <3>1. /\ holdings[h].status = "none"
            /\ Becomes(h, "available", holdings[h].token)
            /\ vaultLog' = [vaultLog EXCEPT ![h] = "deposit_confirmed"]
        BY <2>1, <2>2, HoldingsUpdate DEF V!Deposit, V!Log
      <3> QED BY <2>1, <3>1 DEF V!VaultEvents, V!StatusAfter
    <2>3. CASE \E u \in Actors : V!Withdraw(u, h)
      <3>1. /\ holdings[h].status = "available"
            /\ Becomes(h, "withdrawn", NoToken)
            /\ vaultLog' = [vaultLog EXCEPT ![h] = "holding_withdrawn"]
        BY <2>1, <2>3, HoldingsUpdate DEF V!Withdraw, V!Log
      <3> QED BY <3>1 DEF V!VaultEvents, V!StatusAfter
    <2>4. ASSUME NEW token \in Tokens, V!Reserve(h, token)
          PROVE  /\ holdings[h].status = "available"
                 /\ Becomes(h, "reserved", token)
                 /\ vaultLog' = [vaultLog EXCEPT ![h] = "holding_reserved"]
      BY <2>1, <2>4, HoldingsUpdate DEF V!Reserve, V!Log
    <2>5. ASSUME NEW token \in Tokens, V!Release(h, token)
          PROVE  /\ holdings[h].status = "reserved"
                 /\ Becomes(h, "available", NoToken)
                 /\ vaultLog' = [vaultLog EXCEPT ![h] = "holding_released"]
      BY <2>1, <2>5, HoldingsUpdate DEF V!Release, V!Log
    <2> QED BY <1>1, <2>2, <2>3, <2>4, <2>5 DEF V!VaultEvents, V!StatusAfter
  <1>3. holdings' \in [Holdings -> Holding] /\ vaultLog' \in [Holdings -> V!VaultEvents]
    BY <1>2 DEF CycleTypes, TypeOK, Holding, Becomes
  <1>4. Told(h)
    BY <1>2 DEF CycleTypes, TypeOK, Told, Becomes
  <1> QED BY <1>3, <1>4 DEF VaultStep, CycleTypes, TypeOK

LEMMA SettlementTypesKept ==
  ASSUME CycleTypes, SettlementStep
  PROVE  CycleTypes'
  BY NextTypes DEF CycleTypes, SettlementStep

-----------------------------------------------------------------------------
(* Settlement's records: nobody else writes them.                          *)

LEMMA PathUntold ==
  ASSUME TypeOK, OutboxFollowsTimelines, UNCHANGED timelines, NEW R, NEW U, Tells(R, U)
  PROVE  OutboxFollowsTimelines'
  <1> SUFFICES ASSUME NEW p \in Proposals
               PROVE  OutboxFollowsTimelines'
    BY DEF OutboxFollowsTimelines
  <1>1. PICK E : /\ outbox' = Emit(E)
                 /\ \A q \in Proposals, c \in SettlementTransitions : StateEvent(q, c) \notin E
    BY DEF Tells
  <1> DEFINE New == {}
  <1>2. /\ \A q \in Proposals, c \in SettlementTransitions : StateEvent(q, c) \in E <=> q = p /\ c \in New
        /\ \A c \in SettlementTransitions :
             /\ c \in Path(timelines'[p]) <=> c \in Path(timelines[p]) \/ c \in New
             /\ ~(c \in Path(timelines[p]) /\ c \in New)
    BY <1>1
  <1>3. \A q \in Proposals : q # p => timelines'[q] = timelines[q]
    OBVIOUS
  <1> HIDE DEF New
  <1> QED BY <1>1, <1>2, <1>3, PathAnnounced

LEMMA NextSettlementRecords ==
  ASSUME CycleTypes, CyclesOk, OutboxFollowsTimelines, [Next]_cycleVars
  PROVE  CycleTypes' /\ CyclesOk' /\ OutboxFollowsTimelines'
  <1>1. CASE HandshakeStep
    <2>1. CyclesOk'
      BY <1>1, CycleUntouched DEF HandshakeStep, CyclesOk
    <2>2. (\E R, U : Tells(R, U)) \/ UNCHANGED outbox
      BY <1>1, HandshakeKinds DEF HandshakeStep, CycleTypes, Opens, Confirms, Abandons, Cancels
    <2>3. OutboxFollowsTimelines'
      BY <1>1, <2>2, PathUntold, PathKept DEF HandshakeStep, CycleTypes
    <2> QED BY <1>1, <2>1, <2>3, HandshakeTypes
  <1>2. CASE SettlementStep
    BY <1>2, SettlementTypesKept, NextCyclesOk, NextOutbox DEF SettlementStep, CycleTypes
  <1>3. CASE VaultStep
    BY <1>3, VaultFacts, CycleUntouched, PathKept DEF VaultStep, CyclesOk
  <1>4. CASE UNCHANGED cycleVars
    BY <1>4, CycleUntouched, PathKept DEF cycleVars, vars, settlementVars, CyclesOk, CycleTypes, TypeOK
  <1> QED BY <1>1, <1>2, <1>3, <1>4 DEF Next

-----------------------------------------------------------------------------
(* What settlement does to holdings and to what backs its legs.            *)

\* The outbox grows, of the intent events, by those for the pairs in R and U.
TellsIntents(R, U) ==
  \E E : /\ outbox' = Emit(E)
         /\ \A q \in Proposals, i \in Intents :
              /\ IntentEvent("intent.reserved", q, i) \in E <=> <<q, i>> \in R
              /\ IntentEvent("intent.unreserved", q, i) \in E <=> <<q, i>> \in U

\* A settlement request binds reserved holdings for the start of p, or ends p
\* and reconciles its holdings, or leaves holdings and backing alone.
Binds(p) ==
  /\ phase[p] = "ready"
  /\ UNCHANGED <<phase, reservations>>
  /\ TellsIntents({}, {})
  /\ timelines[p] = "none" /\ timelines'[p] \in {"escrow.pending", "escrow.ready"}
  /\ \A q \in Proposals : q # p => timelines'[q] = timelines[q] /\ legs'[q] = legs[q]
  /\ \A i \in IntentsOf[p] : VaultBacked(legs'[p][i]) =>
       \E h \in Holdings :
         /\ legs'[p][i].holding = h
         /\ holdings[h].status = "reserved" /\ holdings[h].cycle \in {NoProposal, p}
         /\ holdings'[h] = [status |-> "reserved", token |-> legs'[p][i].token, cycle |-> p]
  /\ \A i, j \in IntentsOf[p] :
       i # j /\ VaultBacked(legs'[p][i]) => legs'[p][i].holding # legs'[p][j].holding
  /\ \A h \in Holdings : holdings'[h] # holdings[h] =>
       /\ holdings[h].cycle \in {NoProposal, p}
       /\ holdings'[h].status = holdings[h].status /\ holdings'[h].token = holdings[h].token

SameBacking ==
  \A q \in Proposals : \A i \in IntentsOf[q] :
    legs'[q][i].holding = legs[q][i].holding /\ legs'[q][i].token = legs[q][i].token

Locked(p) == {x \in {p} \X IntentsOf[p] : reservations[x[2]] # NoProposal}

Ends(p, end) ==
  /\ UNCHANGED phase
  /\ TellsIntents({}, Locked(p))
  /\ timelines[p] = IF end = "completed" THEN "executing" ELSE "escrow.pending"
  /\ timelines' = [timelines EXCEPT ![p] = end]
  /\ SettleVaultBindings(p, IF end = "completed" THEN "withdrawn" ELSE "available")
  /\ ReleaseReservations(p)
  /\ SameBacking

Continues ==
  /\ UNCHANGED <<phase, holdings, reservations>>
  /\ TellsIntents({}, {})
  /\ \A q \in Proposals : (Open(q)' <=> Open(q)) /\ (Terminal(q)' <=> Terminal(q))
  /\ \A q \in Proposals : timelines'[q] = "completed" <=> timelines[q] = "completed"
  /\ \A q \in Proposals : timelines'[q] = "none" <=> timelines[q] = "none"
  /\ SameBacking

LEMMA SettlementTells ==
  ASSUME TypeOK, NEW p \in Proposals
  PROVE  /\ UNCHANGED outbox => TellsIntents({}, {})
         /\ \A T : outbox' = Emit({StateEvent(p, c) : c \in T}) => TellsIntents({}, {})
         /\ \A c : outbox' = Emit(UnreservedEvents(p) \cup {StateEvent(p, c)})
                     => TellsIntents({}, Locked(p))
  <1>1. ASSUME NEW T, outbox' = Emit({StateEvent(p, c) : c \in T})
        PROVE  TellsIntents({}, {})
    <2> DEFINE E == {StateEvent(p, c) : c \in T}
    <2>1. \A q \in Proposals, i \in Intents : /\ IntentEvent("intent.reserved", q, i) \notin E
                                             /\ IntentEvent("intent.unreserved", q, i) \notin E
      BY DEF IntentEvent, StateEvent
    <2>2. outbox' = Emit(E)
      BY <1>1
    <2> HIDE DEF E
    <2> QED BY <2>1, <2>2 DEF TellsIntents
  <1>2. UNCHANGED outbox => outbox' = Emit({StateEvent(p, c) : c \in {}})
    BY DEF TypeOK, Emit, Appended
  <1>3. ASSUME NEW c, outbox' = Emit(UnreservedEvents(p) \cup {StateEvent(p, c)})
        PROVE  TellsIntents({}, Locked(p))
    <2> DEFINE E == UnreservedEvents(p) \cup {StateEvent(p, c)}
    <2>1. \A q \in Proposals, i \in Intents :
            /\ IntentEvent("intent.reserved", q, i) \notin E
            /\ IntentEvent("intent.unreserved", q, i) \in E <=> <<q, i>> \in Locked(p)
      <3>1. \A e : e \in E <=> \/ \E j \in IntentsOf[p] : /\ reservations[j] # NoProposal
                                                        /\ e = IntentEvent("intent.unreserved", p, j)
                              \/ e = StateEvent(p, c)
        BY DEF UnreservedEvents
      <3> HIDE DEF E
      <3> QED BY <3>1 DEF IntentEvent, StateEvent, Locked
    <2>2. outbox' = Emit(E)
      BY <1>3
    <2> HIDE DEF E
    <2> QED BY <2>1, <2>2 DEF TellsIntents
  <1> QED BY <1>1, <1>2, <1>3

LEMMA StartBinds ==
  ASSUME TypeOK, NEW s \in Partners, NEW p \in Proposals, NEW B \in SUBSET Binding, Start(s, p, B)
  PROVE  Binds(p)
  <1>1. /\ legs'[p] = LegsAtStart(p, B)
        /\ timelines[p] = "none"
        /\ timelines'[p] \in {"escrow.ready", "escrow.pending"}
        /\ \A q \in Proposals : q # p => timelines'[q] = timelines[q] /\ legs'[q] = legs[q]
        /\ \A h \in Holdings :
             holdings'[h] = IF \E b \in B : b.holding = h THEN BoundTo(holdings[h], p) ELSE holdings[h]
        /\ NoneTwice(B)
    BY DEF Start, TypeOK
  <1>2. \A b \in B :
          /\ b.holding \in Holdings
          /\ holdings[b.holding].status = "reserved" /\ holdings[b.holding].token = b.token
          /\ holdings[b.holding].cycle \in {NoProposal, p}
    BY DEF Start, Binding, BindingOk
  <1>3. \A b \in B : holdings'[b.holding] = [status |-> "reserved", token |-> b.token, cycle |-> p]
    <2> SUFFICES ASSUME NEW b \in B
                 PROVE  holdings'[b.holding] = [status |-> "reserved", token |-> b.token, cycle |-> p]
      OBVIOUS
    <2>1. holdings'[b.holding] = BoundTo(holdings[b.holding], p)
      BY <1>1, <1>2
    <2> QED BY <1>2, <2>1 DEF BoundTo
  <1>4. \A i \in Intents :
          /\ VaultBacked(legs'[p][i]) =>
               \E b \in B : /\ b.intent = i
                            /\ b.holding = legs'[p][i].holding
                            /\ b.token = legs'[p][i].token
    BY <1>1, LegsAtStartBindings
  <1>5. \A i \in IntentsOf[p] : VaultBacked(legs'[p][i]) =>
          \E h \in Holdings :
            /\ legs'[p][i].holding = h
            /\ holdings[h].status = "reserved" /\ holdings[h].cycle \in {NoProposal, p}
            /\ holdings'[h] = [status |-> "reserved", token |-> legs'[p][i].token, cycle |-> p]
    <2> SUFFICES ASSUME NEW i \in IntentsOf[p], VaultBacked(legs'[p][i])
                 PROVE  \E h \in Holdings :
                          /\ legs'[p][i].holding = h
                          /\ holdings[h].status = "reserved" /\ holdings[h].cycle \in {NoProposal, p}
                          /\ holdings'[h] = [status |-> "reserved", token |-> legs'[p][i].token, cycle |-> p]
      OBVIOUS
    <2>1. PICK b \in B : b.holding = legs'[p][i].holding /\ b.token = legs'[p][i].token
      BY <1>4
    <2> QED BY <1>2, <1>3, <2>1
  <1>6. ASSUME NEW i \in IntentsOf[p], NEW j \in IntentsOf[p], i # j, VaultBacked(legs'[p][i])
        PROVE  legs'[p][i].holding # legs'[p][j].holding
    <2>1. PICK b \in B : b.intent = i /\ b.holding = legs'[p][i].holding
      BY <1>4, <1>6
    <2>2. CASE VaultBacked(legs'[p][j])
      <3>1. PICK c \in B : c.intent = j /\ c.holding = legs'[p][j].holding
        BY <1>4, <2>2
      <3> QED BY <1>1, <1>6, <2>1, <3>1 DEF NoneTwice
    <2>3. CASE ~VaultBacked(legs'[p][j])
      BY <1>6, <2>3 DEF VaultBacked
    <2> QED BY <2>2, <2>3
  <1>7. ASSUME NEW h \in Holdings, holdings'[h] # holdings[h]
        PROVE  /\ holdings[h].cycle \in {NoProposal, p}
               /\ holdings'[h].status = holdings[h].status /\ holdings'[h].token = holdings[h].token
    <2>1. /\ \E b \in B : b.holding = h
          /\ holdings'[h] = BoundTo(holdings[h], p)
      BY <1>1, <1>7
    <2> QED BY <1>2, <2>1 DEF BoundTo
  <1>8. phase[p] = "ready" /\ UNCHANGED <<phase, reservations>>
    BY DEF Start, MayStart
  <1>9. TellsIntents({}, {})
    <2> DEFINE T == {"accepted->escrow.pending"} \cup
                      (IF AllDeposited(legs', p) THEN {"escrow.pending->escrow.ready"} ELSE {})
    <2>1. {StateEvent(p, c) : c \in T} = {StateEvent(p, "accepted->escrow.pending")} \cup
                 (IF AllDeposited(legs', p)
                  THEN {StateEvent(p, "escrow.pending->escrow.ready")} ELSE {})
      OBVIOUS
    <2>2. outbox' = Emit({StateEvent(p, c) : c \in T})
      BY <2>1 DEF Start
    <2> HIDE DEF T
    <2> QED BY <2>2, SettlementTells
  <1> QED BY <1>1, <1>5, <1>6, <1>7, <1>8, <1>9 DEF Binds

\* These are all.
LEMMA SettlementKinds ==
  ASSUME TypeOK, CyclesOk, SettlementNext
  PROVE  \/ \E p \in Proposals : Binds(p)
         \/ \E p \in Proposals, end \in {"completed", "failed"} : Ends(p, end)
         \/ Continues
  <1>1. ASSUME NEW s \in Partners, NEW p \in Proposals,
               NEW B \in SUBSET {b \in Binding : BindingOk(p, b)}, Start(s, p, B)
        PROVE  Binds(p)
    BY <1>1, StartBinds
  <1>2. ASSUME NEW s \in Partners, NEW p \in Proposals, NEW b \in Binding, StartRefused(s, p, b)
        PROVE  Continues
    BY <1>2, SettlementTells DEF StartRefused, Continues, SameBacking, Open, Terminal
  <1>3. ASSUME NEW s \in Partners, NEW p \in Proposals, BeginExecution(s, p)
        PROVE  Continues
    <2>1. TellsIntents({}, {})
      <3>1. {StateEvent(p, "escrow.ready->executing")}
              = {StateEvent(p, c) : c \in {"escrow.ready->executing"}}
        OBVIOUS
      <3> QED BY <1>3, <3>1, SettlementTells DEF BeginExecution
    <2> QED BY <1>3, <2>1 DEF BeginExecution, Continues, SameBacking, Open, Terminal, TypeOK
  <1>4. ASSUME NEW s \in Partners, NEW p \in Proposals, Complete(s, p)
        PROVE  Ends(p, "completed")
    <2>1. TellsIntents({}, Locked(p))
      BY <1>4, SettlementTells DEF Complete
    <2>2. SameBacking
      BY <1>4, CompleteLegs DEF SameBacking
    <2> QED BY <1>4, <2>1, <2>2 DEF Complete, Ends
  <1>5. ASSUME NEW s \in Partners, NEW p \in Proposals, ExpireDepositWindow(s, p)
        PROVE  Ends(p, "failed")
    <2>1. TellsIntents({}, Locked(p))
      BY <1>5, SettlementTells DEF ExpireDepositWindow
    <2>2. SameBacking
      BY <1>5, ExpireLegs DEF SameBacking
    <2> QED BY <1>5, <2>1, <2>2 DEF ExpireDepositWindow, Ends
  <1>6. ASSUME NEW a \in Actors, NEW p \in Proposals, ConfirmDeposit(a, p)
        PROVE  Continues
    <2>1. PICK i \in FirstLegs(a, p) : DepositOf(p, i)
      BY <1>6 DEF ConfirmDeposit, DepositOf
    <2>2. i \in Intents
      BY DEF FirstLegs, OwnLegs
    <2>3. ASSUME NEW q \in Proposals, NEW j \in IntentsOf[q]
          PROVE  /\ legs'[q][j].holding = legs[q][j].holding
                 /\ legs'[q][j].token = legs[q][j].token
      <3>1. /\ q # p => legs'[q] = legs[q]
            /\ q = p /\ j # i => legs'[p][j] = legs[p][j]
            /\ legs'[p][i].holding = legs[p][i].holding
            /\ legs'[p][i].token = legs[p][i].token
        BY <2>1, <2>2, DepositFacts
      <3>2. CASE q = p /\ j = i
        BY <3>1, <3>2
      <3>3. CASE ~(q = p /\ j = i)
        BY <3>1, <3>3
      <3> QED BY <3>2, <3>3
    <2>4. \A q \in Proposals :
            /\ (Open(q)' <=> Open(q)) /\ (Terminal(q)' <=> Terminal(q))
            /\ timelines'[q] = "completed" <=> timelines[q] = "completed"
            /\ timelines'[q] = "none" <=> timelines[q] = "none"
      BY <1>6 DEF ConfirmDeposit, FundsLast, TypeOK, Open, Terminal
    <2>5. TellsIntents({}, {})
      <3> DEFINE T == IF FundsLast(legs', p) THEN {"escrow.pending->escrow.ready"} ELSE {}
      <3>1. {StateEvent(p, c) : c \in T}
              = IF FundsLast(legs', p) THEN {StateEvent(p, "escrow.pending->escrow.ready")} ELSE {}
        OBVIOUS
      <3>2. outbox' = Emit({StateEvent(p, c) : c \in T})
        BY <1>6, <3>1 DEF ConfirmDeposit
      <3> HIDE DEF T
      <3> QED BY <3>2, SettlementTells
    <2> QED BY <1>6, <2>3, <2>4, <2>5 DEF ConfirmDeposit, Continues, SameBacking
  <1>7. CASE \E a \in Actors, p \in Proposals : ConfirmDeposit(a, p)
    BY <1>6, <1>7
  <1>8. CASE \E s \in Partners, p \in Proposals :
               \/ \E B \in SUBSET {b \in Binding : BindingOk(p, b)} : Start(s, p, B)
               \/ \E b \in Binding : StartRefused(s, p, b)
               \/ BeginExecution(s, p)
               \/ Complete(s, p)
               \/ ExpireDepositWindow(s, p)
    <2>1. PICK s \in Partners, p \in Proposals :
               \/ \E B \in SUBSET {b \in Binding : BindingOk(p, b)} : Start(s, p, B)
               \/ \E b \in Binding : StartRefused(s, p, b)
               \/ BeginExecution(s, p)
               \/ Complete(s, p)
               \/ ExpireDepositWindow(s, p)
      BY <1>8
    <2> QED BY <1>1, <1>2, <1>3, <1>4, <1>5, <2>1
  <1> QED BY <1>7, <1>8 DEF SettlementNext

-----------------------------------------------------------------------------
(* A holding backs one leg.                                                *)

LEMMA BackingUntouched ==
  ASSUME OpenBackingMarked, BackedApart, SameBacking,
         \A q \in Proposals : Open(q)' => Open(q),
         \A q \in Proposals : \A i \in IntentsOf[q] :
           Open(q)' /\ VaultBacked(legs[q][i]) =>
             holdings'[legs[q][i].holding].cycle = holdings[legs[q][i].holding].cycle
  PROVE  OpenBackingMarked' /\ BackedApart'
  <1>1. ASSUME NEW q \in Proposals, NEW i \in IntentsOf[q], Open(q)', VaultBacked(legs'[q][i])
        PROVE  holdings'[legs'[q][i].holding].cycle = q
    <2>1. legs'[q][i].holding = legs[q][i].holding /\ VaultBacked(legs[q][i]) /\ Open(q)
      BY <1>1 DEF SameBacking, VaultBacked
    <2> QED BY <1>1, <2>1 DEF OpenBackingMarked
  <1>2. ASSUME NEW q \in Proposals, NEW i \in IntentsOf[q], NEW j \in IntentsOf[q],
               i # j, VaultBacked(legs'[q][i])
        PROVE  legs'[q][i].holding # legs'[q][j].holding
    <2>1. /\ legs'[q][i].holding = legs[q][i].holding /\ VaultBacked(legs[q][i])
          /\ legs'[q][j].holding = legs[q][j].holding
      BY <1>2 DEF SameBacking, VaultBacked
    <2> QED BY <1>2, <2>1 DEF BackedApart
  <1> QED BY <1>1, <1>2 DEF OpenBackingMarked, BackedApart

LEMMA NextBacking ==
  ASSUME CycleTypes, CyclesOk, OpenBackingMarked, BackedApart, [Next]_cycleVars
  PROVE  OpenBackingMarked' /\ BackedApart'
  <1>0. TypeOK
    BY DEF CycleTypes
  <1>1. CASE HandshakeStep \/ UNCHANGED cycleVars
    <2>1. UNCHANGED <<timelines, legs, holdings>>
      BY <1>1 DEF HandshakeStep, cycleVars, vars, settlementVars
    <2> QED BY <2>1, BackingUntouched DEF SameBacking, Open
  <1>2. CASE VaultStep
    <2>1. \A h \in Holdings : holdings'[h].cycle = holdings[h].cycle
      BY <1>2, VaultFacts DEF Told
    <2>2. UNCHANGED <<timelines, legs>>
      BY <1>2 DEF VaultStep
    <2>3. \A q \in Proposals : Open(q)' => Open(q)
      BY <2>2 DEF Open
    <2>4. SameBacking
      BY <2>2 DEF SameBacking
    <2> QED BY <1>0, <2>1, <2>3, <2>4, BackingUntouched, BackedByHolding
  <1>3. ASSUME NEW p \in Proposals, Binds(p)
        PROVE  OpenBackingMarked' /\ BackedApart'
    <2>1. ASSUME NEW q \in Proposals, NEW i \in IntentsOf[q], Open(q)', VaultBacked(legs'[q][i])
          PROVE  holdings'[legs'[q][i].holding].cycle = q
      <3>1. CASE q = p
        <4>1. PICK h \in Holdings :
                /\ legs'[p][i].holding = h
                /\ holdings'[h] = [status |-> "reserved", token |-> legs'[p][i].token, cycle |-> p]
          BY <1>3, <2>1, <3>1 DEF Binds
        <4> QED BY <3>1, <4>1
      <3>2. CASE q # p
        <4> DEFINE h == legs[q][i].holding
        <4>1. Open(q) /\ legs'[q] = legs[q] /\ VaultBacked(legs[q][i])
          BY <1>3, <2>1, <3>2 DEF Binds, Open
        <4>2. h \in Holdings /\ holdings[h].cycle = q
          BY <1>0, <4>1, BackedByHolding DEF OpenBackingMarked
        <4>3. holdings'[h] = holdings[h]
          BY <1>3, <3>2, <4>2 DEF Binds
        <4> QED BY <4>1, <4>2, <4>3
      <3> QED BY <3>1, <3>2
    <2>2. ASSUME NEW q \in Proposals, NEW i \in IntentsOf[q], NEW j \in IntentsOf[q],
                 i # j, VaultBacked(legs'[q][i])
          PROVE  legs'[q][i].holding # legs'[q][j].holding
      <3>1. CASE q = p
        BY <1>3, <2>2, <3>1 DEF Binds
      <3>2. CASE q # p
        <4>1. legs'[q] = legs[q]
          BY <1>3, <3>2 DEF Binds
        <4> QED BY <2>2, <4>1 DEF BackedApart
      <3> QED BY <3>1, <3>2
    <2> QED BY <2>1, <2>2 DEF OpenBackingMarked, BackedApart
  <1>4. ASSUME NEW p \in Proposals, NEW end \in {"completed", "failed"}, Ends(p, end)
        PROVE  OpenBackingMarked' /\ BackedApart'
    <2>1. \A q \in Proposals : Open(q)' => Open(q) /\ q # p
      BY <1>0, <1>4 DEF Ends, TypeOK, Open
    <2>2. ASSUME NEW q \in Proposals, NEW i \in IntentsOf[q], Open(q)', VaultBacked(legs[q][i])
          PROVE  holdings'[legs[q][i].holding].cycle = holdings[legs[q][i].holding].cycle
      <3> DEFINE h == legs[q][i].holding
      <3>1. h \in Holdings /\ holdings[h].cycle = q /\ q # p
        BY <1>0, <2>1, <2>2, BackedByHolding DEF OpenBackingMarked
      <3>2. ~Reconciled(p, h)
        BY <3>1 DEF Reconciled
      <3> QED BY <1>4, <3>1, <3>2 DEF Ends, SettleVaultBindings
    <2>3. SameBacking
      BY <1>4 DEF Ends
    <2> QED BY <2>1, <2>2, <2>3, BackingUntouched
  <1>5. CASE Continues
    BY <1>5, BackingUntouched DEF Continues
  <1>6. CASE SettlementStep
    BY <1>0, <1>3, <1>4, <1>5, <1>6, SettlementKinds DEF SettlementStep
  <1> QED BY <1>1, <1>2, <1>6 DEF Next

\* What the two strengthenings are for.
LEMMA BacksOneLegFollows ==
  ASSUME OpenBackingMarked, BackedApart
  PROVE  BacksOneLeg
  <1> SUFFICES ASSUME NEW p \in Proposals, NEW q \in Proposals,
                      NEW i \in IntentsOf[p], NEW j \in IntentsOf[q],
                      Open(p), VaultBacked(legs[p][i])
               PROVE  /\ holdings[legs[p][i].holding].cycle = p
                      /\ Open(q) /\ <<p, i>> # <<q, j>> => legs[p][i].holding # legs[q][j].holding
    BY DEF BacksOneLeg
  <1>1. holdings[legs[p][i].holding].cycle = p
    BY DEF OpenBackingMarked
  <1>2. CASE p = q
    BY <1>1, <1>2 DEF BackedApart
  <1>3. ASSUME p # q, Open(q)
        PROVE  legs[p][i].holding # legs[q][j].holding
    BY <1>1, <1>3 DEF OpenBackingMarked, VaultBacked
  <1> QED BY <1>1, <1>2, <1>3

-----------------------------------------------------------------------------
(* Reservation ids and the vault's log.                                    *)

LEMMA NextTokens ==
  ASSUME CycleTypes, CyclesOk, TokenMeansReserved, [Next]_cycleVars
  PROVE  TokenMeansReserved'
  <1>0. TypeOK /\ \A h \in Holdings : holdings[h].status = "reserved" <=> holdings[h].token # NoToken
    BY DEF CycleTypes, TokenMeansReserved, V!TokenMeansReserved
  <1> SUFFICES ASSUME NEW h \in Holdings
               PROVE  holdings'[h].status = "reserved" <=> holdings'[h].token # NoToken
    BY DEF TokenMeansReserved, V!TokenMeansReserved
  <1>1. CASE UNCHANGED holdings
    BY <1>0, <1>1
  <1>2. CASE VaultStep
    BY <1>0, <1>2, VaultFacts DEF Told
  <1>3. ASSUME NEW p \in Proposals, Binds(p)
        PROVE  holdings'[h].status = "reserved" <=> holdings'[h].token # NoToken
    BY <1>0, <1>3 DEF Binds
  <1>4. ASSUME NEW p \in Proposals, NEW end \in {"completed", "failed"}, Ends(p, end)
        PROVE  holdings'[h].status = "reserved" <=> holdings'[h].token # NoToken
    <2> DEFINE final == IF end = "completed" THEN "withdrawn" ELSE "available"
    <2>1. /\ final \in {"withdrawn", "available"}
          /\ IF Reconciled(p, h)
             THEN holdings'[h] = [status |-> final, token |-> NoToken, cycle |-> NoProposal]
             ELSE holdings'[h] = holdings[h]
      BY <1>0, <1>4, ReconcileFacts DEF Ends
    <2> QED BY <1>0, <2>1
  <1>5. CASE SettlementStep
    BY <1>0, <1>1, <1>3, <1>4, <1>5, SettlementKinds DEF SettlementStep, Continues
  <1> QED BY <1>1, <1>2, <1>5 DEF Next, HandshakeStep, cycleVars, vars

\* A settlement that has ended and counted on h.
EndedOn(h) == \E p \in Proposals : Terminal(p) /\ \E i \in IntentsOf[p] : legs[p][i].holding = h

LEMMA NextLog ==
  ASSUME CycleTypes, CyclesOk, LogMissesOnlySettlement, [Next]_cycleVars
  PROVE  LogMissesOnlySettlement'
  <1>0. TypeOK /\ \A h \in Holdings : V!LogTells(h) \/ EndedOn(h)
    BY DEF CycleTypes, LogMissesOnlySettlement, EndedOn
  <1> SUFFICES ASSUME NEW h \in Holdings
               PROVE  V!LogTells(h)' \/ EndedOn(h)'
    BY DEF LogMissesOnlySettlement, EndedOn
  <1>1. CASE UNCHANGED <<holdings, vaultLog, timelines, legs>>
    BY <1>0, <1>1 DEF V!LogTells, EndedOn, Terminal
  <1>2. CASE VaultStep
    <2>1. EndedOn(h)' <=> EndedOn(h)
      BY <1>2 DEF VaultStep, EndedOn, Terminal
    <2>2. PICK g \in Holdings : Told(g)
      BY <1>2, VaultFacts
    <2>3. CASE g = h
      BY <2>2, <2>3 DEF Told, V!LogTells
    <2>4. CASE g # h
      BY <1>0, <2>1, <2>2, <2>4 DEF Told, V!LogTells
    <2> QED BY <2>3, <2>4
  <1>3. ASSUME NEW p \in Proposals, Binds(p), UNCHANGED vaultLog
        PROVE  V!LogTells(h)' \/ EndedOn(h)'
    <2>1. V!LogTells(h)' <=> V!LogTells(h)
      BY <1>3 DEF Binds, V!LogTells
    <2>2. EndedOn(h) => EndedOn(h)'
      BY <1>3 DEF Binds, EndedOn, Terminal
    <2> QED BY <1>0, <2>1, <2>2
  <1>4. ASSUME NEW p \in Proposals, NEW end \in {"completed", "failed"}, Ends(p, end),
               UNCHANGED vaultLog
        PROVE  V!LogTells(h)' \/ EndedOn(h)'
    <2>1. EndedOn(h) => EndedOn(h)'
      <3>1. \A q \in Proposals : Terminal(q) => Terminal(q)'
        BY <1>0, <1>4 DEF Ends, Terminal, TypeOK
      <3>2. \A q \in Proposals : \A i \in IntentsOf[q] : legs'[q][i].holding = legs[q][i].holding
        BY <1>4 DEF Ends, SameBacking
      <3> QED BY <3>1, <3>2 DEF EndedOn
    <2>2. CASE Reconciled(p, h)
      <3>1. Terminal(p)'
        BY <1>0, <1>4 DEF Ends, Terminal, TypeOK
      <3> QED BY <1>4, <2>2, <3>1 DEF Ends, EndedOn, Reconciled, SameBacking
    <2>3. CASE ~Reconciled(p, h)
      <3>1. holdings'[h] = holdings[h]
        BY <1>4, <2>3 DEF Ends, SettleVaultBindings
      <3> QED BY <1>0, <1>4, <2>1, <3>1 DEF V!LogTells
    <2> QED BY <2>2, <2>3
  <1>5. ASSUME Continues, UNCHANGED vaultLog
        PROVE  V!LogTells(h)' \/ EndedOn(h)'
    <2>1. V!LogTells(h)' <=> V!LogTells(h)
      BY <1>5 DEF Continues, V!LogTells
    <2>2. EndedOn(h) => EndedOn(h)'
      BY <1>5 DEF Continues, SameBacking, EndedOn
    <2> QED BY <1>0, <2>1, <2>2
  <1>6. CASE SettlementStep
    BY <1>0, <1>3, <1>4, <1>5, <1>6, SettlementKinds DEF SettlementStep
  <1> QED BY <1>1, <1>2, <1>6 DEF Next, HandshakeStep, cycleVars, vars, settlementVars

-----------------------------------------------------------------------------
(* What holds whatever the callers do.                                     *)

LEMMA InitCycle == CycleInit => CycleInv
  <1> SUFFICES ASSUME CycleInit
               PROVE  CycleInv
    OBVIOUS
  <1>1. /\ \A p \in Proposals : timelines[p] = "none" /\ receipts[p] = "none" /\ ~Terminal(p) /\ ~Open(p)
        /\ \A p \in Proposals : \A i \in IntentsOf[p] : legs[p][i] = PendingLeg
    BY DEF CycleInit, SettlementInit, Terminal, Open
  <1>2. /\ outbox = [e \in EventIds |-> 0]
        /\ phase = [p \in Proposals |-> "none"]
        /\ reservations = [i \in Intents |-> NoProposal]
    BY OneOutbox DEF CycleInit, C!Init
  <1>3. /\ holdings = [h \in Holdings |-> V!Absent]
        /\ vaultLog = [h \in Holdings |-> "none"]
    BY DEF CycleInit, V!Init
  <1>4. TypeOK
    <2>1. PendingLeg \in Leg
      BY DEF PendingLeg, Leg, TimelineStates
    <2>2. holdings \in [Holdings -> Holding]
      BY <1>3 DEF V!Absent, Holding
    <2> QED BY <1>2, <2>1, <2>2 DEF CycleInit, SettlementInit, TypeOK, TimelineStates
  <1>5. CyclesOk
    BY <1>1 DEF CyclesOk, CycleOk, PendingLeg, VaultBacked
  <1>6. OutboxFollowsTimelines
    <2>1. ASSUME NEW p \in Proposals, NEW c \in CycleTransitions
          PROVE  outbox[StateEvent(p, c)] = 0
      BY <1>2, EventIdsBelong DEF EventIds
    <2> QED BY <1>1, <2>1 DEF OutboxFollowsTimelines, Path
  <1>7. OpenBackingMarked /\ BackedApart
    BY <1>1 DEF OpenBackingMarked, BackedApart, PendingLeg, VaultBacked
  <1>8. TokenMeansReserved /\ LogMissesOnlySettlement
    BY <1>3 DEF TokenMeansReserved, V!TokenMeansReserved, LogMissesOnlySettlement, V!LogTells,
                V!StatusAfter, V!Absent
  <1>9. vaultLog \in [Holdings -> V!VaultEvents]
    BY <1>3 DEF V!VaultEvents
  <1> QED BY <1>4, <1>5, <1>6, <1>7, <1>8, <1>9, CyclesOkMeans DEF CycleInv

LEMMA NextCycle == CycleInv /\ [Next]_cycleVars => CycleInv'
  <1> SUFFICES ASSUME CycleInv, [Next]_cycleVars
               PROVE  CycleInv'
    OBVIOUS
  <1>1. CycleTypes /\ CyclesOk
    BY CyclesOkMeans DEF CycleInv, CycleTypes
  <1>2. CyclesOk' => FundedIffReady' /\ AllOrNothing' /\ VaultLegsFunded' /\ UnstartedLegsPending'
    BY DEF CyclesOk, CycleOk, FundedIffReady, AllOrNothing, VaultLegsFunded, UnstartedLegsPending
  <1> QED BY <1>1, <1>2, NextSettlementRecords, NextBacking, NextTokens, NextLog
          DEF CycleInv, CycleTypes

\* The strengthened invariant holds in every order of requests.
THEOREM CycleInvariant == CycleSpec => []CycleInv
  BY InitCycle, NextCycle, PTL DEF CycleSpec

\* Whatever handshake, vault and settlement requests are mixed in, settlement
\* executes only funded cycles, settles all of a cycle or nothing, announces
\* its transitions once, and counts no holding for two open legs.
THEOREM SettlementHoldsAnyway == CycleSpec => []SettlementHolds
  <1>1. CycleInv => SettlementHolds
    BY BacksOneLegFollows DEF CycleInv, SettlementHolds
  <1> QED BY <1>1, CycleInvariant, PTL

\* A holding carries a reservation id exactly while it is reserved, whether
\* the vault or settlement last wrote to it.
THEOREM TokensMeanReserved == CycleSpec => []TokenMeansReserved
  <1>1. CycleInv => TokenMeansReserved
    BY DEF CycleInv
  <1> QED BY <1>1, CycleInvariant, PTL

\* Only a settlement that ended with a holding leaves the vault's event log
\* behind the holding.
THEOREM LogMissesSettlementsOnly == CycleSpec => []LogMissesOnlySettlement
  <1>1. CycleInv => LogMissesOnlySettlement
    BY DEF CycleInv
  <1> QED BY <1>1, CycleInvariant, PTL

\* The vault alone never lets a reserved holding go; a completion that finds a
\* holding under the reservation of its leg withdraws it.
LEMMA ReservedLeavesStep ==
  ASSUME CycleInv, [Next]_cycleVars, NEW h \in Holdings,
         holdings[h].status = "reserved", holdings'[h].status = "withdrawn"
  PROVE  \E p \in Proposals : \E i \in IntentsOf[p] :
           /\ timelines[p] = "executing" /\ timelines'[p] = "completed"
           /\ legs[p][i].holding = h /\ legs[p][i].token = holdings[h].token
  <1>1. TypeOK /\ CyclesOk /\ CycleTypes
    BY CyclesOkMeans DEF CycleInv, CycleTypes
  <1>2. holdings'[h] # holdings[h]
    OBVIOUS
  <1>3. ~VaultStep
    <2> SUFFICES ASSUME VaultStep
                 PROVE  FALSE
      OBVIOUS
    <2> QED BY <1>1, VaultFacts DEF Told
  <1>4. SettlementStep
    BY <1>2, <1>3 DEF Next, HandshakeStep, cycleVars, vars
  <1>5. ~\E p \in Proposals : Binds(p)
    BY <1>2 DEF Binds
  <1>6. PICK p \in Proposals, end \in {"completed", "failed"} : Ends(p, end)
    BY <1>1, <1>2, <1>4, <1>5, SettlementKinds DEF SettlementStep, Continues
  <1>7. Reconciled(p, h) /\ end = "completed"
    BY <1>2, <1>6 DEF Ends, SettleVaultBindings
  <1>8. timelines[p] = "executing" /\ timelines'[p] = "completed"
    BY <1>1, <1>6, <1>7 DEF Ends, TypeOK
  <1> QED BY <1>7, <1>8 DEF Reconciled

LEMMA CompletionTakesBacking ==
  ASSUME CycleInv, [Next]_cycleVars, NEW p \in Proposals, NEW i \in IntentsOf[p],
         timelines[p] = "executing", timelines'[p] = "completed", StillBacked(legs[p][i])
  PROVE  holdings'[legs[p][i].holding].status = "withdrawn"
  <1> DEFINE h == legs[p][i].holding
  <1>1. TypeOK /\ CyclesOk
    BY CyclesOkMeans DEF CycleInv
  <1>2. timelines'[p] # timelines[p]
    OBVIOUS
  <1>3. SettlementStep
    BY <1>2 DEF Next, HandshakeStep, VaultStep, cycleVars, vars, settlementVars
  <1>4. ~\E q \in Proposals : Binds(q)
    BY <1>2 DEF Binds, TypeOK
  <1>5. PICK q \in Proposals, end \in {"completed", "failed"} : Ends(q, end)
    BY <1>1, <1>2, <1>3, <1>4, SettlementKinds DEF SettlementStep, Continues
  <1>6. q = p /\ end = "completed"
    BY <1>1, <1>2, <1>5 DEF Ends, TypeOK
  <1>7. h \in Holdings /\ Reconciled(p, h)
    <2>1. legs[p][i] \in Leg
      BY <1>1 DEF TypeOK
    <2>2. holdings[h].cycle = p
      BY DEF CycleInv, OpenBackingMarked, Open, StillBacked
    <2> QED BY <2>1, <2>2 DEF Reconciled, StillBacked, VaultBacked, Leg
  <1> QED BY <1>5, <1>6, <1>7 DEF Ends, SettleVaultBindings

\* In every order of requests a reserved holding is withdrawn only by the
\* completion of a cycle with its reservation, and by that one it is.
THEOREM ReservedLeaves == CycleSpec => ReservedLeavesWithItsCycle
  <1> DEFINE A == /\ \A h \in Holdings :
                       holdings[h].status = "reserved" /\ holdings'[h].status = "withdrawn" =>
                         \E p \in Proposals : \E i \in IntentsOf[p] :
                           /\ timelines[p] = "executing" /\ timelines'[p] = "completed"
                           /\ legs[p][i].holding = h /\ legs[p][i].token = holdings[h].token
                  /\ \A p \in Proposals : \A i \in IntentsOf[p] :
                       timelines[p] = "executing" /\ timelines'[p] = "completed"
                         /\ StillBacked(legs[p][i])
                       => holdings'[legs[p][i].holding].status = "withdrawn"
  <1>1. CycleInv /\ [Next]_cycleVars => A
    BY ReservedLeavesStep, CompletionTakesBacking
  <1>2. CycleInv /\ [Next]_cycleVars => [A]_cycleVars
    BY <1>1
  <1>3. CycleSpec => [][A]_cycleVars
    BY <1>2, CycleInvariant, PTL DEF CycleSpec
  <1> QED BY <1>3 DEF ReservedLeavesWithItsCycle

-----------------------------------------------------------------------------
(* Under the discipline: locks, from the first accept to the last          *)
(* settlement step.                                                        *)

LocksOk == StartedIsReady /\ LockedWhileInCycle

\* A step that locks nothing, unlocks nothing, and moves no cycle in or out.
LEMMA CyclesKept ==
  ASSUME LockedWhileInCycle, UNCHANGED reservations,
         \A q \in Proposals : InCycle(q)' <=> InCycle(q)
  PROVE  LockedWhileInCycle'
  BY DEF LockedWhileInCycle

\* The discipline as the handshake steps need it: what is cancelled has no
\* timeline.
LEMMA CancelledUnstarted ==
  ASSUME TypeOK, StartedIsReady, NobodyLeaves, NEW S \in SUBSET Proposals, Cancels(S)
  PROVE  \A q \in S : timelines[q] = "none"
  BY DEF StartedIsReady, NobodyLeaves, Cancels

LEMMA HandshakeLocks ==
  ASSUME TypeOK, LocksOk, HandshakeStep, NobodyLeaves
  PROVE  LocksOk'
  <1> USE DEF LocksOk
  <1>1. UNCHANGED timelines
    BY DEF HandshakeStep
  <1>2. ASSUME NEW p \in Proposals, Opens(p)
        PROVE  LocksOk'
    <2>1. timelines[p] = "none"
      BY <1>2 DEF Opens, StartedIsReady
    <2>2. /\ \A q \in Proposals : q # p => phase'[q] = phase[q]
          /\ phase'[p] \in {"accept", "ready"} /\ phase[p] = "none"
      BY <1>2 DEF Opens, TypeOK
    <2>3. StartedIsReady'
      BY <1>1, <2>1, <2>2 DEF StartedIsReady
    <2>4. ASSUME NEW i \in Intents, NEW q \in Proposals
          PROVE  reservations'[i] = q <=> InCycle(q)' /\ i \in IntentsOf[q]
      <3>1. reservations[i] = q <=> InCycle(q) /\ i \in IntentsOf[q]
        BY DEF LockedWhileInCycle
      <3>2. /\ reservations'[i] = IF i \in IntentsOf[p] THEN p ELSE reservations[i]
            /\ i \in IntentsOf[p] => reservations[i] \in {NoProposal, p}
        BY <1>2 DEF Opens
      <3>3. InCycle(q)' <=> q = p \/ InCycle(q)
        BY <1>1, <2>1, <2>2 DEF InCycle, C!Live, Terminal
      <3>4. ~InCycle(p)
        BY <2>2 DEF InCycle, C!Live
      <3> QED BY <3>1, <3>2, <3>3, <3>4
    <2> QED BY <2>3, <2>4 DEF LockedWhileInCycle
  <1>3. ASSUME NEW p \in Proposals, Confirms(p)
        PROVE  LocksOk'
    <2>1. /\ \A q \in Proposals : q # p => phase'[q] = phase[q]
          /\ phase[p] \in {"accept", "ready"} /\ phase'[p] \in {phase[p], "ready"}
      BY <1>3 DEF Confirms, TypeOK, C!Live
    <2>2. StartedIsReady'
      BY <1>1, <2>1 DEF StartedIsReady
    <2>3. \A q \in Proposals : InCycle(q)' <=> InCycle(q)
      BY <1>1, <2>1 DEF InCycle, C!Live, Terminal
    <2> QED BY <1>3, <2>2, <2>3, CyclesKept DEF Confirms
  <1>4. ASSUME NEW p \in Proposals, Abandons(p)
        PROVE  LocksOk'
    <2>1. /\ \A q \in Proposals : q # p => phase'[q] = phase[q]
          /\ phase[p] = "none" /\ phase'[p] = "cancelled"
      BY <1>4 DEF Abandons, TypeOK
    <2>2. StartedIsReady'
      BY <1>1, <2>1 DEF StartedIsReady
    <2>3. \A q \in Proposals : InCycle(q)' <=> InCycle(q)
      BY <1>1, <2>1 DEF InCycle, C!Live, Terminal
    <2> QED BY <1>4, <2>2, <2>3, CyclesKept DEF Abandons
  <1>5. ASSUME NEW S \in SUBSET Proposals, Cancels(S)
        PROVE  LocksOk'
    <2>1. \A q \in S : timelines[q] = "none"
      BY <1>5, CancelledUnstarted
    <2>2. \A q \in Proposals : phase'[q] = IF q \in S THEN "cancelled" ELSE phase[q]
      BY <1>5 DEF Cancels
    <2>3. StartedIsReady'
      BY <1>1, <2>1, <2>2 DEF StartedIsReady
    <2>4. \A q \in Proposals : InCycle(q)' <=> InCycle(q) /\ q \notin S
      BY <1>1, <2>2 DEF InCycle, C!Live, Terminal
    <2>5. ASSUME NEW i \in Intents, NEW q \in Proposals
          PROVE  reservations'[i] = q <=> InCycle(q)' /\ i \in IntentsOf[q]
      <3>1. \A r \in Proposals : reservations[i] = r <=> InCycle(r) /\ i \in IntentsOf[r]
        BY DEF LockedWhileInCycle
      <3>2. reservations'[i] = IF \E r \in S : i \in IntentsOf[r] /\ reservations[i] = r
                               THEN NoProposal ELSE reservations[i]
        BY <1>5 DEF Cancels
      <3> QED BY <2>4, <3>1, <3>2
    <2> QED BY <2>3, <2>5 DEF LockedWhileInCycle
  <1>6. CASE UNCHANGED <<phase, reservations, outbox>>
    BY <1>1, <1>6 DEF StartedIsReady, LockedWhileInCycle, InCycle, C!Live, Terminal
  <1> QED BY <1>2, <1>3, <1>4, <1>5, <1>6, HandshakeKinds DEF HandshakeStep

\* The end of a timeline: the intents it frees are all its own.
LEMMA EndLocks ==
  ASSUME TypeOK, LocksOk, NEW p \in Proposals, NEW end \in {"completed", "failed"}, Ends(p, end)
  PROVE  /\ LocksOk'
         /\ InCycle(p) /\ ~InCycle(p)'
         /\ \A q \in Proposals : q # p => (InCycle(q)' <=> InCycle(q))
         /\ \A i \in IntentsOf[p] : reservations[i] = p
  <1> USE DEF LocksOk
  <1>1. /\ timelines[p] \in {"executing", "escrow.pending"}
        /\ timelines'[p] = end
        /\ \A q \in Proposals : q # p => timelines'[q] = timelines[q]
        /\ UNCHANGED phase
    BY DEF Ends, TypeOK
  <1>2. InCycle(p) /\ ~InCycle(p)'
    BY <1>1 DEF StartedIsReady, InCycle, C!Live, Terminal
  <1>3. \A q \in Proposals : q # p => (InCycle(q)' <=> InCycle(q))
    BY <1>1 DEF InCycle, C!Live, Terminal
  <1>4. \A i \in IntentsOf[p] : i \in Intents /\ reservations[i] = p
    BY <1>2 DEF LockedWhileInCycle
  <1>5. StartedIsReady'
    BY <1>1 DEF StartedIsReady
  <1>6. ASSUME NEW i \in Intents, NEW q \in Proposals
        PROVE  reservations'[i] = q <=> InCycle(q)' /\ i \in IntentsOf[q]
    <2>1. reservations'[i] = IF i \in IntentsOf[p] THEN NoProposal ELSE reservations[i]
      BY DEF Ends, ReleaseReservations
    <2>2. reservations[i] = q <=> InCycle(q) /\ i \in IntentsOf[q]
      BY DEF LockedWhileInCycle
    <2> QED BY <1>2, <1>3, <1>4, <2>1, <2>2
  <1> QED BY <1>2, <1>3, <1>4, <1>5, <1>6 DEF LockedWhileInCycle

\* The start of a timeline and the steps between start and end.
LEMMA MiddleLocks ==
  ASSUME TypeOK, LocksOk, Continues \/ \E p \in Proposals : Binds(p)
  PROVE  LocksOk' /\ \A q \in Proposals : InCycle(q)' <=> InCycle(q)
  <1> USE DEF LocksOk
  <1>1. UNCHANGED <<phase, reservations>>
    BY DEF Continues, Binds
  <1>2. \A q \in Proposals : Terminal(q)' <=> Terminal(q)
    BY DEF Continues, Binds, Terminal
  <1>3. StartedIsReady'
    BY ZenonT(30), <1>1 DEF Continues, Binds, StartedIsReady
  <1>4. \A q \in Proposals : InCycle(q)' <=> InCycle(q)
    BY <1>1, <1>2 DEF InCycle, C!Live
  <1> QED BY <1>1, <1>3, <1>4, CyclesKept

LEMMA NextLocksOrderly ==
  ASSUME TypeOK, CyclesOk, LocksOk, [OrderlyNext]_cycleVars
  PROVE  LocksOk'
  <1>1. CASE HandshakeStep /\ NobodyLeaves
    BY <1>1, HandshakeLocks
  <1>2. CASE SettlementStep
    BY <1>2, SettlementKinds, MiddleLocks, EndLocks DEF SettlementStep
  <1>3. CASE UNCHANGED <<phase, reservations, timelines>>
    BY <1>3 DEF LocksOk, StartedIsReady, LockedWhileInCycle, InCycle, C!Live, Terminal
  <1> QED BY <1>1, <1>2, <1>3 DEF OrderlyNext, Next, VaultStep, cycleVars, vars, settlementVars

-----------------------------------------------------------------------------
(* The outbox rebuilds the lock table.                                     *)

\* Intent events that say what happens to the locks keep the sums right.
LEMMA Rebuilt ==
  ASSUME TypeOK, OutboxRebuildsReservations, NEW R, NEW U, TellsIntents(R, U),
         \A q \in Proposals, i \in Intents :
           /\ <<q, i>> \in R => reservations[i] # q /\ reservations'[i] = q /\ <<q, i>> \notin U
           /\ <<q, i>> \in U => reservations[i] = q /\ reservations'[i] # q
           /\ <<q, i>> \notin R /\ <<q, i>> \notin U => (reservations'[i] = q <=> reservations[i] = q)
  PROVE  OutboxRebuildsReservations'
  <1> SUFFICES ASSUME NEW q \in Proposals, NEW i \in Intents
               PROVE  outbox'[IntentEvent("intent.reserved", q, i)]
                        = outbox'[IntentEvent("intent.unreserved", q, i)]
                            + (IF reservations'[i] = q THEN 1 ELSE 0)
    BY OneOutbox DEF OutboxRebuildsReservations, C!OutboxRebuildsReservations
  <1> DEFINE r == IntentEvent("intent.reserved", q, i)
             u == IntentEvent("intent.unreserved", q, i)
  <1>1. r \in EventIds /\ u \in EventIds
    BY EventIdsBelong DEF EventIds
  <1>2. outbox[r] = outbox[u] + (IF reservations[i] = q THEN 1 ELSE 0)
    BY OneOutbox DEF OutboxRebuildsReservations, C!OutboxRebuildsReservations
  <1>3. PICK E : /\ outbox' = Emit(E)
                 /\ r \in E <=> <<q, i>> \in R
                 /\ u \in E <=> <<q, i>> \in U
    BY DEF TellsIntents
  <1> HIDE DEF r, u
  <1>4. /\ outbox'[r] = IF r \in E THEN outbox[r] + 1 ELSE outbox[r]
        /\ outbox'[u] = IF u \in E THEN outbox[u] + 1 ELSE outbox[u]
        /\ outbox[r] \in Nat /\ outbox[u] \in Nat
    <2>1. outbox \in [EventIds -> Nat] /\ outbox' = Appended(outbox, E)
      BY <1>3 DEF TypeOK, Emit
    <2> QED BY <1>1, <2>1, AppendedFacts
  <1>5. outbox'[r] = outbox'[u] + (IF reservations'[i] = q THEN 1 ELSE 0)
    <2>1. CASE <<q, i>> \in R
      BY <1>2, <1>3, <1>4, <2>1
    <2>2. CASE <<q, i>> \in U
      BY <1>2, <1>3, <1>4, <2>2
    <2>3. CASE <<q, i>> \notin R /\ <<q, i>> \notin U
      BY <1>2, <1>3, <1>4, <2>3
    <2> QED BY <2>1, <2>2, <2>3
  <1> QED BY <1>5 DEF r, u

LEMMA TellsIntentsToo ==
  ASSUME NEW R, NEW U, Tells(R, U)
  PROVE  TellsIntents(R, U)
  BY DEF Tells, TellsIntents

LEMMA NextRebuilds ==
  ASSUME TypeOK, CyclesOk, LocksOk, OutboxRebuildsReservations, [OrderlyNext]_cycleVars
  PROVE  OutboxRebuildsReservations'
  <1> USE DEF LocksOk
  <1>1. ASSUME NEW p \in Proposals, Opens(p)
        PROVE  OutboxRebuildsReservations'
    <2>1. TellsIntents({p} \X IntentsOf[p], {})
      BY <1>1, TellsIntentsToo DEF Opens
    <2>2. ASSUME NEW q \in Proposals, NEW i \in Intents
          PROVE  /\ <<q, i>> \in {p} \X IntentsOf[p] => reservations[i] # q /\ reservations'[i] = q
                 /\ <<q, i>> \notin {p} \X IntentsOf[p] => (reservations'[i] = q <=> reservations[i] = q)
      <3>1. /\ reservations'[i] = IF i \in IntentsOf[p] THEN p ELSE reservations[i]
            /\ i \in IntentsOf[p] => reservations[i] \in {NoProposal, p}
            /\ phase[p] = "none"
        BY <1>1 DEF Opens
      <3>2. reservations[i] # p
        BY <3>1 DEF LockedWhileInCycle, InCycle, C!Live
      <3> QED BY <3>1, <3>2
    <2> QED BY <2>1, <2>2, Rebuilt
  <1>2. ASSUME TellsIntents({}, {}), UNCHANGED reservations
        PROVE  OutboxRebuildsReservations'
    BY <1>2, Rebuilt
  <1>3. ASSUME NEW S \in SUBSET Proposals, Cancels(S)
        PROVE  OutboxRebuildsReservations'
    <2>1. TellsIntents({}, Held(S))
      BY <1>3, TellsIntentsToo DEF Cancels
    <2>2. ASSUME NEW q \in Proposals, NEW i \in Intents
          PROVE  /\ <<q, i>> \in Held(S) => reservations[i] = q /\ reservations'[i] # q
                 /\ <<q, i>> \notin Held(S) => (reservations'[i] = q <=> reservations[i] = q)
      <3>1. reservations'[i] = IF \E r \in S : i \in IntentsOf[r] /\ reservations[i] = r
                               THEN NoProposal ELSE reservations[i]
        BY <1>3 DEF Cancels
      <3>2. <<q, i>> \in Held(S) <=> q \in S /\ i \in IntentsOf[q] /\ reservations[i] = q
        BY DEF Held
      <3> QED BY <3>1, <3>2
    <2> QED BY <2>1, <2>2, Rebuilt
  <1>4. ASSUME NEW p \in Proposals, NEW end \in {"completed", "failed"}, Ends(p, end)
        PROVE  OutboxRebuildsReservations'
    <2>1. TellsIntents({}, Locked(p))
      BY <1>4 DEF Ends
    <2>2. ASSUME NEW q \in Proposals, NEW i \in Intents
          PROVE  /\ <<q, i>> \in Locked(p) => reservations[i] = q /\ reservations'[i] # q
                 /\ <<q, i>> \notin Locked(p) => (reservations'[i] = q <=> reservations[i] = q)
      <3>1. reservations'[i] = IF i \in IntentsOf[p] THEN NoProposal ELSE reservations[i]
        BY <1>4 DEF Ends, ReleaseReservations
      <3>2. i \in IntentsOf[p] => reservations[i] = p
        BY <1>4, EndLocks
      <3>3. <<q, i>> \in Locked(p) <=> q = p /\ i \in IntentsOf[q] /\ reservations[i] # NoProposal
        BY DEF Locked
      <3> QED BY <3>1, <3>2, <3>3
    <2> QED BY <2>1, <2>2, Rebuilt
  <1>5. CASE UNCHANGED <<reservations, outbox>>
    BY <1>5 DEF OutboxRebuildsReservations, C!OutboxRebuildsReservations
  <1>6. CASE HandshakeStep
    <2>1. Tells({}, {}) => TellsIntents({}, {})
      BY TellsIntentsToo
    <2> QED BY <1>1, <1>2, <1>3, <1>5, <1>6, <2>1, HandshakeKinds
            DEF HandshakeStep, Confirms, Abandons
  <1>7. CASE SettlementStep
    BY <1>2, <1>4, <1>7, SettlementKinds DEF SettlementStep, Binds, Continues
  <1> QED BY <1>5, <1>6, <1>7 DEF OrderlyNext, Next, VaultStep, cycleVars, vars
-----------------------------------------------------------------------------
(* What backs an open timeline stays reserved for it.                      *)

\* The two invariants, leg by leg.
LEMMA ReservedByLeg ==
  ASSUME \A q \in Proposals : \A i \in IntentsOf[q] :
           VaultBacked(legs'[q][i]) =>
             /\ Open(q)' => holdings'[legs'[q][i].holding]
                              = [status |-> "reserved", token |-> legs'[q][i].token, cycle |-> q]
             /\ timelines'[q] = "completed" => holdings'[legs'[q][i].holding].status = "withdrawn"
  PROVE  BackingReserved' /\ CompletionWithdraws'
  <1>1. BackingReserved'
    BY DEF BackingReserved
  <1>2. CompletionWithdraws'
    BY DEF CompletionWithdraws
  <1> QED BY <1>1, <1>2

\* A step that touches no holding an open timeline counts on.
LEMMA ReservedUntouched ==
  ASSUME TypeOK, BackingReserved, CompletionWithdraws, SameBacking,
         \A q \in Proposals : Open(q)' => Open(q),
         \A q \in Proposals : timelines'[q] = "completed" => timelines[q] = "completed",
         \A q \in Proposals : \A i \in IntentsOf[q] :
           VaultBacked(legs[q][i]) =>
             /\ Open(q)' => holdings'[legs[q][i].holding] = holdings[legs[q][i].holding]
             /\ holdings[legs[q][i].holding].status = "withdrawn"
                  => holdings'[legs[q][i].holding].status = "withdrawn"
  PROVE  BackingReserved' /\ CompletionWithdraws'
  <1>1. ASSUME NEW q \in Proposals, NEW i \in IntentsOf[q], VaultBacked(legs'[q][i])
        PROVE  /\ Open(q)' => holdings'[legs'[q][i].holding]
                                = [status |-> "reserved", token |-> legs'[q][i].token, cycle |-> q]
               /\ timelines'[q] = "completed" => holdings'[legs'[q][i].holding].status = "withdrawn"
    <2>1. /\ legs'[q][i].holding = legs[q][i].holding /\ legs'[q][i].token = legs[q][i].token
          /\ VaultBacked(legs[q][i])
      BY <1>1 DEF SameBacking, VaultBacked
    <2>2. /\ Open(q) => holdings[legs[q][i].holding]
                          = [status |-> "reserved", token |-> legs[q][i].token, cycle |-> q]
          /\ timelines[q] = "completed" => holdings[legs[q][i].holding].status = "withdrawn"
      BY <2>1 DEF BackingReserved, CompletionWithdraws
    <2> QED BY <2>1, <2>2
  <1> QED BY <1>1, ReservedByLeg

\* A request to the vault cannot take it away: that is NoBoundRelease.
LEMMA VaultKeepsReserved ==
  ASSUME CycleTypes, BackingReserved, CompletionWithdraws, VaultStep, NoBoundRelease
  PROVE  BackingReserved' /\ CompletionWithdraws'
  <1>0. TypeOK
    BY DEF CycleTypes
  <1>1. PICK g \in Holdings : Told(g)
    BY VaultFacts
  <1>2. UNCHANGED <<timelines, legs>>
    BY DEF VaultStep
  <1>3. ASSUME NEW q \in Proposals, NEW i \in IntentsOf[q], VaultBacked(legs[q][i])
        PROVE  LET h == legs[q][i].holding
               IN  /\ Open(q)' => holdings'[h] = holdings[h]
                   /\ holdings[h].status = "withdrawn" => holdings'[h].status = "withdrawn"
    <2>1. PICK h \in Holdings : h = legs[q][i].holding
      BY <1>0, <1>3, BackedByHolding
    <2>2. ASSUME Open(q)'
          PROVE  holdings'[h] = holdings[h]
      <3>1. Open(q)
        BY <1>2, <2>2 DEF Open
      <3>2. holdings[h].status = "reserved"
        <4>1. holdings[h] = [status |-> "reserved", token |-> legs[q][i].token, cycle |-> q]
          BY <1>3, <2>1, <3>1 DEF BackingReserved
        <4> QED BY <4>1
      <3>3. Bound(h) /\ Bound(h)'
        BY <1>2, <2>1, <2>2, <3>1 DEF Bound
      <3>4. holdings'[h].status = "reserved"
        BY <3>2, <3>3 DEF NoBoundRelease
      <3>5. h # g
        BY <1>1, <3>2, <3>4 DEF Told
      <3> QED BY <1>1, <3>5 DEF Told
    <2>3. holdings[h].status = "withdrawn" => holdings'[h].status = "withdrawn"
      BY <1>1 DEF Told
    <2> QED BY <2>1, <2>2, <2>3
  <1>4. SameBacking
    BY <1>2 DEF SameBacking
  <1>5. \A q \in Proposals : /\ Open(q)' => Open(q)
                             /\ timelines'[q] = "completed" => timelines[q] = "completed"
    BY <1>2 DEF Open
  <1> QED BY <1>0, <1>3, <1>4, <1>5, ReservedUntouched

\* Binding takes no holding that another open timeline counts on.
LEMMA BindingKeepsReserved ==
  ASSUME TypeOK, BackingReserved, CompletionWithdraws, NEW p \in Proposals, Binds(p)
  PROVE  BackingReserved' /\ CompletionWithdraws'
  <1> SUFFICES ASSUME NEW q \in Proposals, NEW i \in IntentsOf[q], VaultBacked(legs'[q][i])
               PROVE  /\ Open(q)' => holdings'[legs'[q][i].holding]
                                       = [status |-> "reserved", token |-> legs'[q][i].token, cycle |-> q]
                      /\ timelines'[q] = "completed" => holdings'[legs'[q][i].holding].status = "withdrawn"
    BY ReservedByLeg
  <1>1. CASE q = p
    <2>1. timelines'[p] # "completed"
      BY DEF Binds
    <2>2. holdings'[legs'[p][i].holding]
            = [status |-> "reserved", token |-> legs'[p][i].token, cycle |-> p]
      BY <1>1 DEF Binds
    <2> QED BY <1>1, <2>1, <2>2
  <1>2. CASE q # p
    <2> DEFINE h == legs[q][i].holding
    <2>1. timelines'[q] = timelines[q] /\ legs'[q] = legs[q] /\ VaultBacked(legs[q][i])
      BY <1>2 DEF Binds
    <2>2. h \in Holdings
      BY <2>1, BackedByHolding
    <2>3. holdings'[h] # holdings[h] =>
            /\ holdings[h].cycle \in {NoProposal, p}
            /\ holdings'[h].status = holdings[h].status
      BY <2>2 DEF Binds
    <2>4. ASSUME Open(q)'
          PROVE  holdings'[h] = [status |-> "reserved", token |-> legs[q][i].token, cycle |-> q]
      <3>1. Open(q)
        BY <2>1, <2>4 DEF Open
      <3>2. holdings[h] = [status |-> "reserved", token |-> legs[q][i].token, cycle |-> q]
        BY <2>1, <3>1 DEF BackingReserved
      <3> QED BY <1>2, <2>3, <3>2
    <2>5. ASSUME timelines'[q] = "completed"
          PROVE  holdings'[h].status = "withdrawn"
      <3>1. holdings[h].status = "withdrawn"
        BY <2>1, <2>5 DEF CompletionWithdraws
      <3> QED BY <2>3, <3>1
    <2> QED BY <2>1, <2>4, <2>5
  <1> QED BY <1>1, <1>2

\* The end of a timeline takes its own holdings and no others: they are still
\* reserved for it, and what an earlier cycle withdrew is not.
LEMMA EndKeepsReserved ==
  ASSUME TypeOK, BackingReserved, CompletionWithdraws,
         NEW p \in Proposals, NEW end \in {"completed", "failed"}, Ends(p, end)
  PROVE  BackingReserved' /\ CompletionWithdraws'
  <1> DEFINE final == IF end = "completed" THEN "withdrawn" ELSE "available"
  <1>1. /\ Open(p) /\ timelines'[p] = end
        /\ \A q \in Proposals : q # p => timelines'[q] = timelines[q]
    BY DEF Ends, TypeOK, Open
  <1>2. \A h \in Holdings :
          IF Reconciled(p, h)
          THEN holdings'[h] = [status |-> final, token |-> NoToken, cycle |-> NoProposal]
          ELSE holdings'[h] = holdings[h]
    BY DEF Ends, SettleVaultBindings
  <1>3. \A h \in Holdings : Reconciled(p, h) => holdings[h].status = "reserved" /\ holdings[h].cycle = p
    <2> SUFFICES ASSUME NEW h \in Holdings, NEW i \in IntentsOf[p], legs[p][i].holding = h
                 PROVE  holdings[h].status = "reserved" /\ holdings[h].cycle = p
      BY DEF Reconciled
    <2>1. VaultBacked(legs[p][i])
      BY DEF VaultBacked
    <2>2. holdings[h] = [status |-> "reserved", token |-> legs[p][i].token, cycle |-> p]
      BY ZenonT(30), <1>1, <2>1 DEF BackingReserved
    <2> QED BY <2>2
  <1> HIDE DEF final
  <1> SUFFICES ASSUME NEW q \in Proposals, NEW i \in IntentsOf[q], VaultBacked(legs'[q][i])
               PROVE  /\ Open(q)' => holdings'[legs'[q][i].holding]
                                       = [status |-> "reserved", token |-> legs'[q][i].token, cycle |-> q]
                      /\ timelines'[q] = "completed" => holdings'[legs'[q][i].holding].status = "withdrawn"
    BY ReservedByLeg
  <1> DEFINE h == legs[q][i].holding
  <1>4. legs'[q][i].holding = h /\ legs'[q][i].token = legs[q][i].token /\ VaultBacked(legs[q][i])
    BY DEF Ends, SameBacking, VaultBacked
  <1>5. h \in Holdings
    BY <1>4, BackedByHolding
  <1>6. Open(q) => holdings[h] = [status |-> "reserved", token |-> legs[q][i].token, cycle |-> q]
    BY <1>4 DEF BackingReserved
  <1>7. ASSUME Open(q)'
        PROVE  holdings'[h] = [status |-> "reserved", token |-> legs[q][i].token, cycle |-> q]
    <2>1. q # p /\ Open(q)
      BY <1>1, <1>7 DEF Open
    <2> QED BY <1>2, <1>3, <1>5, <1>6, <2>1
  <1>8. ASSUME timelines'[q] = "completed"
        PROVE  holdings'[h].status = "withdrawn"
    <2>1. CASE q = p
      <3>1. Reconciled(p, h)
        BY <1>1, <1>6, <2>1 DEF Reconciled
      <3>2. final = "withdrawn"
        BY <1>1, <1>8, <2>1 DEF final
      <3> QED BY <1>2, <1>5, <3>1, <3>2
    <2>2. CASE q # p
      <3>1. holdings[h].status = "withdrawn"
        BY <1>1, <1>4, <1>8, <2>2 DEF CompletionWithdraws
      <3> QED BY <1>2, <1>3, <1>5, <3>1
    <2> QED BY <2>1, <2>2
  <1> QED BY <1>4, <1>7, <1>8

LEMMA NextBackingReserved ==
  ASSUME CycleTypes, CyclesOk, BackingReserved, CompletionWithdraws, [OrderlyNext]_cycleVars
  PROVE  BackingReserved' /\ CompletionWithdraws'
  <1>0. TypeOK
    BY DEF CycleTypes
  <1>1. CASE VaultStep /\ NoBoundRelease
    BY <1>1, VaultKeepsReserved
  <1>2. CASE HandshakeStep \/ UNCHANGED cycleVars
    <2>1. UNCHANGED <<timelines, legs, holdings>>
      BY <1>2 DEF HandshakeStep, cycleVars, vars, settlementVars
    <2> QED BY <2>1 DEF BackingReserved, CompletionWithdraws, Open
  <1>3. CASE Continues
    <2>1. /\ SameBacking /\ UNCHANGED holdings
          /\ \A q \in Proposals : /\ Open(q)' => Open(q)
                                  /\ timelines'[q] = "completed" => timelines[q] = "completed"
      BY <1>3 DEF Continues
    <2> QED BY <1>0, <2>1, ReservedUntouched
  <1>4. CASE SettlementStep
    BY <1>0, <1>3, <1>4, SettlementKinds, BindingKeepsReserved, EndKeepsReserved DEF SettlementStep
  <1> QED BY <1>1, <1>2, <1>4 DEF OrderlyNext, Next
-----------------------------------------------------------------------------
(* The theorems of the discipline.                                         *)

LEMMA InitOrderly == CycleInit => OrderlyInv
  <1> SUFFICES ASSUME CycleInit
               PROVE  OrderlyInv
    OBVIOUS
  <1>1. /\ \A p \in Proposals : timelines[p] = "none" /\ ~Open(p) /\ phase[p] = "none"
        /\ \A i \in Intents : reservations[i] = NoProposal
        /\ outbox = [e \in EventIds |-> 0]
    BY OneOutbox DEF CycleInit, SettlementInit, Open, C!Init
  <1>2. StartedIsReady /\ LockedWhileInCycle
    BY <1>1 DEF StartedIsReady, LockedWhileInCycle, InCycle, C!Live
  <1>3. OutboxRebuildsReservations
    <2>1. ASSUME NEW p \in Proposals, NEW i \in Intents
          PROVE  /\ outbox[IntentEvent("intent.reserved", p, i)] = 0
                 /\ outbox[IntentEvent("intent.unreserved", p, i)] = 0
      BY <1>1, EventIdsBelong DEF EventIds
    <2> QED BY <1>1, <2>1, OneOutbox DEF OutboxRebuildsReservations, C!OutboxRebuildsReservations
  <1>4. BackingReserved /\ CompletionWithdraws
    BY <1>1 DEF BackingReserved, CompletionWithdraws
  <1> QED BY <1>2, <1>3, <1>4, InitCycle DEF OrderlyInv

LEMMA NextOrderly == OrderlyInv /\ [OrderlyNext]_cycleVars => OrderlyInv'
  <1> SUFFICES ASSUME OrderlyInv, [OrderlyNext]_cycleVars
               PROVE  OrderlyInv'
    OBVIOUS
  <1>1. CycleTypes /\ TypeOK /\ CyclesOk /\ LocksOk
    BY CyclesOkMeans DEF OrderlyInv, CycleInv, CycleTypes, LocksOk
  <1>2. CycleInv'
    BY NextCycle DEF OrderlyInv, OrderlyNext
  <1>3. LocksOk'
    BY <1>1, NextLocksOrderly
  <1>4. OutboxRebuildsReservations'
    BY <1>1, NextRebuilds DEF OrderlyInv
  <1>5. BackingReserved' /\ CompletionWithdraws'
    BY <1>1, NextBackingReserved DEF OrderlyInv
  <1> QED BY <1>2, <1>3, <1>4, <1>5 DEF OrderlyInv, LocksOk

\* The strengthened invariant of the discipline.
THEOREM OrderlyInvariant == OrderlySpec => []OrderlyInv
  BY InitOrderly, NextOrderly, PTL DEF OrderlySpec

\* If nobody leaves a cycle that is being settled, an intent is locked by
\* exactly the cycle it is in.
THEOREM LockedExactlyInCycle == OrderlySpec => []LockedWhileInCycle
  <1>1. OrderlyInv => LockedWhileInCycle
    BY DEF OrderlyInv
  <1> QED BY <1>1, OrderlyInvariant, PTL

\* Counting intent.reserved and intent.unreserved gives the lock table, though
\* two services write both.
THEOREM OutboxRebuilds == OrderlySpec => []OutboxRebuildsReservations
  <1>1. OrderlyInv => OutboxRebuildsReservations
    BY DEF OrderlyInv
  <1> QED BY <1>1, OrderlyInvariant, PTL

\* The first documented promise that the code alone does not keep: under the
\* discipline no two open timelines share an intent.
THEOREM OrderlyNoDoubleUse == OrderlySpec => []NoDoubleUse
  <1>1. OrderlyInv => NoDoubleUse
    <2> SUFFICES ASSUME OrderlyInv, NEW p \in Proposals, NEW q \in Proposals, p # q,
                        Open(p), Open(q), NEW i \in IntentsOf[p] \cap IntentsOf[q]
                 PROVE  FALSE
      BY DEF NoDoubleUse
    <2>1. InCycle(p) /\ InCycle(q)
      BY DEF OrderlyInv, StartedIsReady, InCycle, C!Live, Open, Terminal
    <2>2. i \in Intents
      OBVIOUS
    <2>3. reservations[i] = p /\ reservations[i] = q
      BY <2>1, <2>2 DEF OrderlyInv, LockedWhileInCycle
    <2> QED BY <2>3
  <1> QED BY <1>1, OrderlyInvariant, PTL

\* The second: if partners do not release what backs an open timeline, every
\* holding behind a leg of a completed cycle has been withdrawn.
THEOREM OrderlyCompletionWithdraws == OrderlySpec => []CompletionWithdraws
  <1>1. OrderlyInv => CompletionWithdraws
    BY DEF OrderlyInv
  <1> QED BY <1>1, OrderlyInvariant, PTL

-----------------------------------------------------------------------------
(* The refinement of the reservation ledger.                               *)

LEMMA OrderlyStepImplements ==
  ASSUME OrderlyInv, [OrderlyNext]_cycleVars
  PROVE  [Ledger!Next]_(Ledger!ledger)
  <1> DEFINE L == [p \in Proposals |-> LockOf(p)]
  <1>0. CycleTypes /\ TypeOK /\ CyclesOk /\ LocksOk /\ StartedIsReady /\ LockedWhileInCycle
    BY CyclesOkMeans DEF OrderlyInv, CycleInv, CycleTypes, LocksOk
  <1>1. ASSUME UNCHANGED <<phase, reservations>>, \A q \in Proposals : InCycle(q)' <=> InCycle(q)
        PROVE  [Ledger!Next]_(Ledger!ledger)
    BY <1>1 DEF LockOf, Ledger!ledger
  <1>2. ASSUME NEW p \in Proposals, Opens(p), UNCHANGED timelines
        PROVE  Ledger!Acquire(p)
    <2>1. /\ phase[p] = "none" /\ phase'[p] \in {"accept", "ready"} /\ timelines[p] = "none"
          /\ \A q \in Proposals : q # p => phase'[q] = phase[q]
          /\ reservations' = [i \in Intents |-> IF i \in IntentsOf[p] THEN p ELSE reservations[i]]
      BY <1>0, <1>2 DEF Opens, TypeOK, StartedIsReady
    <2>2. \A i \in IntentsOf[p] : reservations[i] = NoProposal
      BY <1>0, <1>2, <2>1 DEF Opens, LockedWhileInCycle, InCycle, C!Live
    <2>3. \A q \in Proposals : L'[q] = IF q = p THEN "held" ELSE L[q]
      BY <1>2, <2>1 DEF LockOf, InCycle, C!Live, Terminal
    <2>4. L' = [L EXCEPT ![p] = "held"]
      BY <2>3
    <2>5. L[p] = "idle"
      BY <2>1 DEF LockOf
    <2> QED BY <2>1, <2>2, <2>4, <2>5 DEF Ledger!Acquire, Ledger!FreeFor
  <1>3. ASSUME NEW p \in Proposals, Confirms(p), UNCHANGED timelines
        PROVE  UNCHANGED <<reservations, L>>
    <2>1. /\ \A q \in Proposals : q # p => phase'[q] = phase[q]
          /\ phase[p] \in {"accept", "ready"} /\ phase'[p] \in {"accept", "ready"}
      BY <1>0, <1>3 DEF Confirms, TypeOK, C!Live
    <2>2. \A q \in Proposals : LockOf(q)' = LockOf(q)
      BY <1>3, <2>1 DEF LockOf, InCycle, C!Live, Terminal
    <2> QED BY <1>3, <2>2 DEF Confirms
  <1>4. ASSUME NEW p \in Proposals, Abandons(p), UNCHANGED timelines
        PROVE  Ledger!Abandon(p)
    <2>1. /\ phase[p] = "none" /\ phase'[p] = "cancelled"
          /\ \A q \in Proposals : q # p => phase'[q] = phase[q]
          /\ UNCHANGED reservations
      BY <1>0, <1>4 DEF Abandons, TypeOK
    <2>2. \A q \in Proposals : L'[q] = IF q = p THEN "done" ELSE L[q]
      BY <1>4, <2>1 DEF LockOf, InCycle, C!Live, Terminal
    <2>3. L' = [L EXCEPT ![p] = "done"]
      BY <2>2
    <2>4. L[p] = "idle"
      BY <2>1 DEF LockOf
    <2> QED BY <2>1, <2>3, <2>4 DEF Ledger!Abandon
  <1>5. ASSUME NEW S \in SUBSET Proposals, Cancels(S), UNCHANGED timelines
        PROVE  [Ledger!Next]_(Ledger!ledger)
    <2> DEFINE T == {q \in S : InCycle(q)}
    <2>1. reservations' = [i \in Intents |-> IF reservations[i] \in T THEN NoProposal
                                             ELSE reservations[i]]
      <3>1. \A i \in Intents :
              (\E q \in S : i \in IntentsOf[q] /\ reservations[i] = q) <=> reservations[i] \in T
        BY <1>0 DEF LockedWhileInCycle
      <3> QED BY <1>5, <3>1 DEF Cancels
    <2>2. \A q \in Proposals : LockOf(q)' = IF q \in T THEN "done" ELSE LockOf(q)
      BY <1>5 DEF Cancels, LockOf, InCycle, C!Live, Terminal
    <2>3. CASE T = {}
      <3>1. reservations' = reservations
        BY <1>0, <2>1, <2>3 DEF TypeOK
      <3>2. L' = L
        BY <2>2, <2>3
      <3> QED BY <3>1, <3>2 DEF Ledger!ledger
    <2>4. CASE T # {}
      <3>1. \A q \in T : L[q] = "held"
        BY DEF LockOf, InCycle, C!Live
      <3>2. T \in SUBSET Proposals
        OBVIOUS
      <3>3. L' = [q \in Proposals |-> IF q \in T THEN "done" ELSE L[q]]
        BY <2>2
      <3> HIDE DEF T
      <3> QED BY <2>1, <2>4, <3>1, <3>2, <3>3 DEF Ledger!Release, Ledger!Next
    <2> QED BY <2>3, <2>4
  <1>6. ASSUME NEW p \in Proposals, NEW end \in {"completed", "failed"}, Ends(p, end)
        PROVE  Ledger!Release({p})
    <2>1. /\ InCycle(p) /\ ~InCycle(p)'
          /\ \A q \in Proposals : q # p => (InCycle(q)' <=> InCycle(q))
          /\ \A i \in IntentsOf[p] : reservations[i] = p
      BY <1>0, <1>6, EndLocks
    <2>2. UNCHANGED phase /\ phase[p] # "none"
      BY <1>6, <2>1 DEF Ends, InCycle, C!Live
    <2>3. reservations' = [i \in Intents |-> IF reservations[i] \in {p} THEN NoProposal
                                             ELSE reservations[i]]
      <3>1. \A i \in Intents : i \in IntentsOf[p] <=> reservations[i] \in {p}
        BY <1>0, <2>1 DEF LockedWhileInCycle
      <3> QED BY <1>6, <3>1 DEF Ends, ReleaseReservations
    <2>4. \A q \in Proposals : LockOf(q)' = IF q \in {p} THEN "done" ELSE LockOf(q)
      BY <2>1, <2>2 DEF LockOf
    <2>5. L' = [q \in Proposals |-> IF q \in {p} THEN "done" ELSE L[q]]
      BY <2>4
    <2>6. L[p] = "held"
      BY <2>1, <2>2 DEF LockOf
    <2> QED BY <2>3, <2>5, <2>6 DEF Ledger!Release
  <1>7. CASE HandshakeStep
    <2>1. UNCHANGED timelines
      BY <1>7 DEF HandshakeStep
    <2>2. CASE UNCHANGED <<phase, reservations, outbox>>
      BY <1>1, <2>1, <2>2 DEF InCycle, C!Live, Terminal
    <2> QED BY <1>0, <1>2, <1>3, <1>4, <1>5, <1>7, <2>1, <2>2, HandshakeKinds
            DEF HandshakeStep, Ledger!Next, Ledger!ledger
  <1>8. CASE SettlementStep
    <2>1. CASE Continues \/ \E p \in Proposals : Binds(p)
      <3>1. \A q \in Proposals : InCycle(q)' <=> InCycle(q)
        BY <1>0, <2>1, MiddleLocks
      <3>2. UNCHANGED <<phase, reservations>>
        BY <2>1 DEF Continues, Binds
      <3> QED BY <1>1, <3>1, <3>2
    <2>2. ASSUME NEW p \in Proposals, Ledger!Release({p})
          PROVE  Ledger!Next
      <3>1. {p} \in SUBSET Proposals
        OBVIOUS
      <3> QED BY <2>2, <3>1 DEF Ledger!Next
    <2> QED BY <1>0, <1>6, <1>8, <2>1, <2>2, SettlementKinds DEF SettlementStep
  <1>9. CASE UNCHANGED <<phase, reservations, timelines>>
    BY <1>1, <1>9 DEF InCycle, C!Live, Terminal
  <1> QED BY <1>7, <1>8, <1>9 DEF OrderlyNext, Next, VaultStep, cycleVars, vars, settlementVars

\* Under the discipline handshake, settlement and vault together implement the
\* reservation ledger, for any proposals.
THEOREM CyclesImplementLedger == OrderlySpec => ImplementsLedger
  <1>1. CycleInit => Ledger!Init
    BY DEF CycleInit, C!Init, Ledger!Init, LockOf
  <1>2. OrderlyInv /\ [OrderlyNext]_cycleVars => [Ledger!Next]_(Ledger!ledger)
    BY OrderlyStepImplements
  <1> QED
    BY <1>1, <1>2, OrderlyInvariant, PTL DEF OrderlySpec, ImplementsLedger, Ledger!Spec
=============================================================================
