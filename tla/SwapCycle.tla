------------------------------ MODULE SwapCycle ------------------------------
(***************************************************************************)
(* A swap cycle from its first accept to its receipt: the commit           *)
(* handshake, settlement and the vault over one store.                     *)
(*                                                                         *)
(* The three services share the reservation table, the outbox and the      *)
(* commit records (handshake and settlement), and the holdings (settlement *)
(* and vault).  They do not ask one another: decline does not look for a   *)
(* timeline, settlement deletes reservations without looking at who holds  *)
(* them, and the vault releases a holding whatever cycle is marked on it.  *)
(* CycleSpec allows every order of requests.  OrderlySpec is the           *)
(* discipline under which the three fit together: nobody leaves a cycle    *)
(* once its timeline exists, and partners do not release a holding that    *)
(* backs a cycle.  What holds of CycleSpec holds whatever the callers do.  *)
(*                                                                         *)
(* The module extends Settlement, which shares state with both others, so  *)
(* that what is proved about its requests is at hand here; Init, Spec and  *)
(* vars are those of settlement alone.                                     *)
(***************************************************************************)
EXTENDS Settlement

CONSTANTS ExpiresAt, MaxClock              \* the handshake's

ASSUME SwapCycleAssumption ==
  /\ ExpiresAt \in [Proposals -> Nat]
  /\ MaxClock \in Nat

VARIABLES
  status, clock,  \* the handshake's; it shares phase, reservations and outbox with settlement
  vaultLog        \* the vault's, which shares holdings with settlement

cycleVars == <<vars, status, clock, vaultLog>>

C == INSTANCE CommitHandshake
V == INSTANCE Vault

CycleInit == C!Init /\ SettlementInit /\ V!Init

HandshakeStep  == C!Next /\ UNCHANGED <<timelines, legs, receipts, cycleScope, holdings, vaultLog>>
SettlementStep == SettlementNext /\ UNCHANGED <<status, clock, vaultLog>>
VaultStep ==
  V!Next /\ UNCHANGED <<phase, status, clock, reservations, outbox,
                        timelines, legs, receipts, cycleScope>>

Next == HandshakeStep \/ SettlementStep \/ VaultStep

CycleSpec == CycleInit /\ [][Next]_cycleVars

-----------------------------------------------------------------------------
(* The discipline.                                                         *)

NobodyLeaves ==
  \A p \in Proposals : timelines[p] # "none" => phase'[p] = phase[p]

\* A holding is bound when an open timeline counts on it.
Bound(h) == \E p \in Proposals : Open(p) /\ \E i \in IntentsOf[p] : legs[p][i].holding = h

NoBoundRelease ==
  \A h \in Holdings : Bound(h) /\ holdings[h].status = "reserved" =>
    \/ holdings'[h].status = "reserved"
    \/ ~Bound(h)'

OrderlyNext == Next /\ NobodyLeaves /\ NoBoundRelease

OrderlySpec == CycleInit /\ [][OrderlyNext]_cycleVars

-----------------------------------------------------------------------------
(* What holds whatever the callers do.                                     *)

\* No order of declines, accepts, vault requests and settlement requests makes
\* settlement execute an unfunded cycle, release part of one, announce a
\* transition that did not happen, or count one holding for two open legs.
SettlementHolds ==
  FundedIffReady /\ AllOrNothing /\ OutboxFollowsTimelines /\ BacksOneLeg

\* The vault has not let go of what the leg counts on.
StillBacked(leg) == VaultBacked(leg) /\ holdings[leg.holding].token = leg.token

\* A reserved holding leaves the vault with the completion of a cycle that was
\* given this very reservation and in no other way: not by its owner, and not
\* by a cycle whose own reservation was released and replaced in the meantime.
\* The completion in turn takes every holding its legs still count on,
\* whatever the partner has released and reserved again around it.
ReservedLeavesWithItsCycle ==
  [][/\ \A h \in Holdings :
          holdings[h].status = "reserved" /\ holdings'[h].status = "withdrawn" =>
            \E p \in Proposals : \E i \in IntentsOf[p] :
              /\ timelines[p] = "executing" /\ timelines'[p] = "completed"
              /\ legs[p][i].holding = h /\ legs[p][i].token = holdings[h].token
     /\ \A p \in Proposals : \A i \in IntentsOf[p] :
          timelines[p] = "executing" /\ timelines'[p] = "completed"
            /\ StillBacked(legs[p][i])
          => holdings'[legs[p][i].holding].status = "withdrawn"]_cycleVars

\* A reservation id is on record exactly while the holding is reserved.
TokenMeansReserved == V!TokenMeansReserved

\* What vault_events does not tell about a holding was done by a settlement
\* that ended with it (settlement writes holdings and appends no vault event);
\* every request to the vault itself is told.
LogMissesOnlySettlement ==
  \A h \in Holdings : ~V!LogTells(h) =>
    \E p \in Proposals : Terminal(p) /\ \E i \in IntentsOf[p] : legs[p][i].holding = h

-----------------------------------------------------------------------------
(* What holds under the discipline.                                        *)

InCycle(p) == C!Live(p) /\ ~Terminal(p)

\* An intent is locked by exactly the cycle it is in, from the first accept to
\* the decline, the sweep, or the end of settlement: no intent is in two
\* cycles at once and none stays locked by a cycle that is over.
LockedWhileInCycle ==
  \A i \in Intents, p \in Proposals :
    reservations[i] = p <=> (InCycle(p) /\ i \in IntentsOf[p])

\* The outbox still rebuilds the lock table when two services write to both.
OutboxRebuildsReservations == C!OutboxRebuildsReservations

\* Handshake and settlement together keep the promise of the ledger: a cycle
\* locks once, all or nothing, and lets go of everything in one step.
LockOf(p) == IF phase[p] = "none" THEN "idle" ELSE IF InCycle(p) THEN "held" ELSE "done"

Ledger == INSTANCE ReservationLedger WITH
            holder <- reservations, lock <- [p \in Proposals |-> LockOf(p)]

ImplementsLedger == Ledger!Spec

-----------------------------------------------------------------------------
(* What the documents say and the code does not keep (see README).         *)

\* "Only one active reservation per intent: prevents double-use in multiple
\* cycles."  After a late decline an intent can be in two open timelines.
NoDoubleUse ==
  \A p, q \in Proposals :
    Open(p) /\ Open(q) /\ p # q => IntentsOf[p] \cap IntentsOf[q] = {}

\* "On settlement.complete: bound holdings become withdrawn, reservation
\* cleared."  Not if the partner has released the holding in between.
CompletionWithdraws ==
  \A p \in Proposals : \A i \in IntentsOf[p] :
    timelines[p] = "completed" /\ VaultBacked(legs[p][i])
      => holdings[legs[p][i].holding].status = "withdrawn"

-----------------------------------------------------------------------------
(* The strengthenings that make the invariants inductive.                  *)

\* The mark behind a leg of an open timeline is never overwritten: the vault
\* does not write marks, and no other cycle may bind the holding.
OpenBackingMarked ==
  \A p \in Proposals : \A i \in IntentsOf[p] :
    Open(p) /\ VaultBacked(legs[p][i]) => holdings[legs[p][i].holding].cycle = p

\* A timeline never counts on one holding for two legs.
BackedApart ==
  \A p \in Proposals : \A i, j \in IntentsOf[p] :
    i # j /\ VaultBacked(legs[p][i]) => legs[p][i].holding # legs[p][j].holding

CycleInv ==
  /\ TypeOK /\ vaultLog \in [Holdings -> V!VaultEvents]
  /\ FundedIffReady /\ AllOrNothing /\ VaultLegsFunded /\ UnstartedLegsPending
  /\ OutboxFollowsTimelines
  /\ OpenBackingMarked /\ BackedApart
  /\ TokenMeansReserved /\ LogMissesOnlySettlement

\* Under the discipline what backs an open timeline stays reserved for it.
BackingReserved ==
  \A p \in Proposals : \A i \in IntentsOf[p] :
    Open(p) /\ VaultBacked(legs[p][i]) =>
      holdings[legs[p][i].holding] = [status |-> "reserved", token |-> legs[p][i].token, cycle |-> p]

OrderlyInv ==
  /\ CycleInv
  /\ StartedIsReady /\ LockedWhileInCycle /\ OutboxRebuildsReservations
  /\ BackingReserved /\ CompletionWithdraws
=============================================================================
