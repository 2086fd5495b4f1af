-------------------------- MODULE LiquidityInventory --------------------------
(***************************************************************************)
(* The inventory of liquidity providers and the reservations on it         *)
(* (service/liquidityInventoryService.mjs): snapshots of what a provider   *)
(* holds, batches that reserve and batches that release.  An item of a     *)
(* batch is served or refused on its own; a malformed one ends the batch   *)
(* where it stands, with what came before it done.                         *)
(*                                                                         *)
(* Abstractions: a holding stands for its asset and platform, an item that *)
(* names others than its holding's, or another cycle, is refused without a *)
(* trace and left out.  Generated ids are among those callers may choose.  *)
(* A repeated idempotency key changes nothing.  Of the reconciliation log  *)
(* a reader is kept, who knows the status last told of each reservation.   *)
(***************************************************************************)
EXTENDS Naturals, Sequences, SequencesExt

CONSTANTS
  Providers,
  Holdings(_),     \* Holdings(p): the holdings snapshots of p may list
  Totals,          \* the quantities they count
  Quantities,      \* the quantities items ask for
  ReservationIds,
  MaxBatch,        \* bound: the items of a batch
  NoReservation,
  Malformed        \* an item that does not parse

ASSUME InventoryAssumption == Totals \cup Quantities \subseteq Nat \ {0} /\ MaxBatch \in Nat

Ended == {"released", "refunded", "withdrawn"}

Statuses == {"reserved", "in_settlement"} \cup Ended

AllHoldings == UNION {Holdings(p) : p \in Providers}

Reservation ==
  [provider : Providers, holding : AllHoldings, quantity : Quantities, status : Statuses]

ASSUME NoReservationAssumption == NoReservation \notin Reservation

VARIABLES
  assets,        \* assets[p][h]: the quantity in liquidity_inventory_assets, 0 for none
  reservations,  \* reservations[r]: liquidity_inventory_reservations
  told,          \* told[r]: the status the log told last (history)
  gap           \* an event did not continue from the one before it (history)

vars == <<assets, reservations, told, gap>>

Init ==
  /\ assets = [p \in Providers |-> [h \in AllHoldings |-> 0]]
  /\ reservations = [r \in ReservationIds |-> NoReservation]
  /\ told = [r \in ReservationIds |-> "available"]
  /\ gap = FALSE

\* What a batch works on, and whether it goes on with its next item.
Working == [reservations |-> reservations, told |-> told, gap |-> gap, open |-> TRUE]

Done(w) ==
  /\ reservations' = w.reservations
  /\ told' = w.told
  /\ gap' = w.gap
  /\ UNCHANGED assets

\* An event on reservation r.
Tell(w, r, from, to) ==
  [w EXCEPT !.told[r] = to, !.gap = @ \/ w.told[r] # from]

Active(x) == x # NoReservation /\ x.status \in {"reserved", "in_settlement"}

StatusOf(x) == IF x = NoReservation THEN "available" ELSE x.status

\* Mutant: a reservation in settlement does not count.
ActiveOn_Reserved(w, p, h) ==
  {r \in ReservationIds :
     /\ StatusOf(w.reservations[r]) = "reserved"
     /\ w.reservations[r].provider = p /\ w.reservations[r].holding = h}

\* The active reservations of p on h: one at most, but for a fault.
ActiveOn(w, p, h) ==
  {r \in ReservationIds :
     /\ Active(w.reservations[r])
     /\ w.reservations[r].provider = p /\ w.reservations[r].holding = h}

\* Snapshots overwrite what they list and leave the rest, reserved or not.
RecordSnapshot(p, S) ==
  /\ assets' = [assets EXCEPT ![p] = [h \in AllHoldings |-> IF h \in DOMAIN S THEN S[h] ELSE @[h]]]
  /\ UNCHANGED <<reservations, told, gap>>

\* A reservation may be reserved again, by its id, if as much again is free;
\* one that has ended may be reserved anew.
CanReserve(w, p, x) ==
  LET active == ActiveOn(w, p, x.holding)
      old    == w.reservations[x.id]
      held   == IF active = {} THEN 0 ELSE w.reservations[x.id].quantity
  IN  /\ active \subseteq {x.id}
      /\ x.quantity + held <= assets[p][x.holding]
      /\ old # NoReservation => old.provider = p /\ old.holding = x.holding

\* What is in the way of an item is told too: a reservation in its present status.
Conflict(w, p, x) ==
  LET others == ActiveOn(w, p, x.holding) \ {x.id}
  IN  IF assets[p][x.holding] = 0 \/ others = {} THEN w
      ELSE LET r == CHOOSE r \in others : TRUE
           IN  Tell(w, r, w.reservations[r].status, w.reservations[r].status)

ReserveItem(p, w, x) ==
  IF x = Malformed \/ ~w.open THEN [w EXCEPT !.open = FALSE]
  ELSE IF CanReserve(w, p, x)
       THEN LET new == [provider |-> p, holding |-> x.holding, quantity |-> x.quantity, status |-> "reserved"]
            IN  Tell([w EXCEPT !.reservations[x.id] = new], x.id, StatusOf(w.reservations[x.id]), "reserved")
       ELSE Conflict(w, p, x)

ReserveBatch(p, items) ==
  Done(FoldLeft(LAMBDA w, x : ReserveItem(p, w, x), Working, items))

\* To the status it has, from reserved to any, from settlement to an end.
MayRelease(from, to) ==
  from = to \/ from = "reserved" \/ (from = "in_settlement" /\ to \in Ended)

\* Mutant: the event is written from the reservation that has changed already.
Released_Late(w, r, to) ==
  Tell([w EXCEPT !.reservations[r].status = to], r, to, to)

Released(w, r, to) ==
  Tell([w EXCEPT !.reservations[r].status = to], r, w.reservations[r].status, to)

ReleaseItem(p, w, x) ==
  IF x = Malformed \/ ~w.open THEN [w EXCEPT !.open = FALSE]
  ELSE LET old == w.reservations[x.id]
       IN  IF old # NoReservation /\ old.provider = p /\ MayRelease(old.status, x.to)
           THEN Released(w, x.id, x.to)
           ELSE w

ReleaseBatch(p, items) ==
  Done(FoldLeft(LAMBDA w, x : ReleaseItem(p, w, x), Working, items))

ToReserve(p) ==
  [holding : Holdings(p), id : ReservationIds, quantity : Quantities] \cup {Malformed}
ToRelease ==
  [id : ReservationIds, to : {"in_settlement"} \cup Ended] \cup {Malformed}
Batches(S) == UNION {[1..n -> S] : n \in 1..MaxBatch}

Next ==
  \E p \in Providers :
    \/ \E H \in SUBSET Holdings(p) \ {{}} : \E S \in [H -> Totals] : RecordSnapshot(p, S)
    \/ \E items \in Batches(ToReserve(p)) : ReserveBatch(p, items)
    \/ \E items \in Batches(ToRelease) : ReleaseBatch(p, items)

Spec == Init /\ [][Next]_vars

-----------------------------------------------------------------------------
\* The types of the tables and of the history.
Types ==
  /\ assets \in [Providers -> [AllHoldings -> Totals \cup {0}]]
  /\ reservations \in [ReservationIds -> Reservation \cup {NoReservation}]
  /\ told \in [ReservationIds -> Statuses \cup {"available"}]
  /\ gap \in BOOLEAN

\* A provider never has two active reservations on one holding, through
\* batches that end half-way, settlement, and ids that are reserved again
\* after they have ended (reserveBatch, releaseBatch).
OneActivePerHolding ==
  \A r, s \in ReservationIds :
    LET x == reservations[r]
        y == reservations[s]
    IN  Active(x) /\ Active(y) /\ x.provider = y.provider /\ x.holding = y.holding => r = s

\* Who reads the reconciliation log knows the status of every reservation, and
\* every event he read continued from the one before it - also when the batch
\* that wrote them was answered with an error (_recordReconciliationEvent).
LogTellsReservations ==
  ~gap /\ \A r \in ReservationIds : told[r] = StatusOf(reservations[r])
=============================================================================
