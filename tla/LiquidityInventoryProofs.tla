----------------------- MODULE LiquidityInventoryProofs -----------------------
(***************************************************************************)
(* LiquidityInventory keeps its promises for every set of providers,       *)
(* holdings and ids and for batches of every length.                       *)
(*                                                                         *)
(* A batch is a fold over its items.  What it works on is sound at the     *)
(* start, an item leaves it sound, and so (FoldProofs) it is at the end,   *)
(* wherever a malformed item has stopped it.                               *)
(***************************************************************************)
EXTENDS LiquidityInventory, FoldProofs

\* What a batch works on.
Work ==
  [reservations : [ReservationIds -> Reservation \cup {NoReservation}],
   told : [ReservationIds -> Statuses \cup {"available"}],
   gap : BOOLEAN,
   open : BOOLEAN]

\* Sound work: the log is up to date and without a gap, and no two of the
\* reservations are active on one holding of one provider.
SoundWork ==
  {w \in Work :
     /\ w.gap = FALSE
     /\ \A r \in ReservationIds : w.told[r] = StatusOf(w.reservations[r])
     /\ \A r, s \in ReservationIds :
          /\ Active(w.reservations[r])
          /\ Active(w.reservations[s])
          /\ w.reservations[r].provider = w.reservations[s].provider
          /\ w.reservations[r].holding = w.reservations[s].holding
          => r = s}

\* The inductive invariant: the tables have their types, and a batch that
\* began now would find sound work.
InventoryInv == Types /\ OneActivePerHolding /\ LogTellsReservations

\* An event that continues from the last one is added to what was told.
LEMMA TellNext ==
  ASSUME NEW w \in Work, NEW r \in ReservationIds, NEW to \in Statuses, w.gap = FALSE
  PROVE  /\ Tell(w, r, w.told[r], to) \in Work
         /\ Tell(w, r, w.told[r], to).reservations = w.reservations
         /\ Tell(w, r, w.told[r], to).told = [w.told EXCEPT ![r] = to]
         /\ Tell(w, r, w.told[r], to).gap = FALSE
  <1> DEFINE b == [w.told EXCEPT ![r] = to]
             v == [w EXCEPT !.told = b, !.gap = FALSE]
  <1>1. Tell(w, r, w.told[r], to) = v
    <2>1. (w.gap \/ w.told[r] # w.told[r]) = FALSE
      OBVIOUS
    <2>2. Tell(w, r, w.told[r], to) = [w EXCEPT !.told[r] = to, !.gap = FALSE]
      BY <2>1 DEF Tell
    <2> QED BY <2>2
  <1>2. b \in [ReservationIds -> Statuses \cup {"available"}]
    BY DEF Work
  <1> HIDE DEF b
  <1>3. v \in Work /\ v.reservations = w.reservations /\ v.told = b /\ v.gap = FALSE
    BY <1>2 DEF Work
  <1> HIDE DEF v
  <1> QED BY <1>1, <1>3 DEF b

\* A reservation that is written where no other is active, and told, leaves
\* the work sound.
LEMMA SoundUpdate ==
  ASSUME NEW w \in SoundWork, NEW r \in ReservationIds, NEW x \in Reservation,
         Active(x) => \A s \in ReservationIds \ {r} :
                        ~ (/\ Active(w.reservations[s])
                           /\ w.reservations[s].provider = x.provider
                           /\ w.reservations[s].holding = x.holding)
  PROVE  Tell([w EXCEPT !.reservations[r] = x], r, StatusOf(w.reservations[r]), x.status) \in SoundWork
  <1> DEFINE f == [w.reservations EXCEPT ![r] = x]
             u == [w EXCEPT !.reservations = f]
             v == Tell(u, r, u.told[r], x.status)
  <1>1. x # NoReservation /\ StatusOf(x) = x.status /\ x.status \in Statuses
    BY NoReservationAssumption DEF StatusOf, Reservation
  <1>2. w \in Work /\ w.gap = FALSE /\ w.told[r] = StatusOf(w.reservations[r])
    BY DEF SoundWork
  <1>3. f \in [ReservationIds -> Reservation \cup {NoReservation}]
    BY <1>2 DEF Work
  <1>4. \A s \in ReservationIds : f[s] = IF s = r THEN x ELSE w.reservations[s]
    BY <1>2 DEF Work
  <1>5. [w EXCEPT !.reservations[r] = x] = u
    OBVIOUS
  <1> HIDE DEF f
  <1>6. u \in Work /\ u.reservations = f /\ u.told = w.told /\ u.gap = FALSE
    BY <1>2, <1>3 DEF Work
  <1> HIDE DEF u
  <1>7. /\ v \in Work
        /\ v.reservations = f
        /\ v.told = [w.told EXCEPT ![r] = x.status]
        /\ v.gap = FALSE
    <2> DEFINE to == x.status
    <2>1. to \in Statuses
      BY <1>1
    <2> HIDE DEF to
    <2>2. /\ Tell(u, r, u.told[r], to) \in Work
          /\ Tell(u, r, u.told[r], to).reservations = u.reservations
          /\ Tell(u, r, u.told[r], to).told = [u.told EXCEPT ![r] = to]
          /\ Tell(u, r, u.told[r], to).gap = FALSE
      BY <1>6, <2>1, TellNext
    <2>3. v = Tell(u, r, u.told[r], to)
      BY DEF to
    <2> HIDE DEF v
    <2>4. v.told = [w.told EXCEPT ![r] = x.status]
      BY <1>6, <2>2, <2>3 DEF to
    <2> QED BY <1>6, <2>2, <2>3, <2>4
  <1> HIDE DEF v
  <1>8. ASSUME NEW s \in ReservationIds
        PROVE  /\ v.reservations[s] = IF s = r THEN x ELSE w.reservations[s]
               /\ v.told[s] = IF s = r THEN x.status ELSE w.told[s]
    BY <1>2, <1>4, <1>7 DEF Work
  <1>9. \A s \in ReservationIds : v.told[s] = StatusOf(v.reservations[s])
    BY <1>1, <1>8 DEF SoundWork
  <1>10. ASSUME NEW s \in ReservationIds, NEW t \in ReservationIds,
                Active(v.reservations[s]), Active(v.reservations[t]),
                v.reservations[s].provider = v.reservations[t].provider,
                v.reservations[s].holding = v.reservations[t].holding
         PROVE  s = t
    <2>1. CASE s # r /\ t # r
      BY <1>8, <1>10, <2>1 DEF SoundWork
    <2>2. CASE s = r /\ t # r
      BY <1>8, <1>10, <2>2
    <2>3. CASE s # r /\ t = r
      BY <1>8, <1>10, <2>3
    <2> QED BY <2>1, <2>2, <2>3
  <1>11. v \in SoundWork
    BY <1>7, <1>9, <1>10 DEF SoundWork
  <1> QED BY <1>2, <1>5, <1>6, <1>11 DEF v

\* An event that repeats the status of a reservation leaves the work sound.
LEMMA SoundRepeat ==
  ASSUME NEW w \in SoundWork, NEW r \in ReservationIds, w.reservations[r] # NoReservation
  PROVE  Tell(w, r, w.reservations[r].status, w.reservations[r].status) \in SoundWork
  <1> DEFINE st == w.reservations[r].status
             v == Tell(w, r, w.told[r], st)
  <1>1. w.told[r] = st /\ w \in Work /\ w.gap = FALSE
    BY DEF SoundWork, StatusOf
  <1>2. st \in Statuses
    BY <1>1 DEF Work, Reservation
  <1> HIDE DEF st
  <1>3. /\ v \in Work
        /\ v.reservations = w.reservations
        /\ v.told = [w.told EXCEPT ![r] = st]
        /\ v.gap = FALSE
    <2>1. /\ Tell(w, r, w.told[r], st) \in Work
          /\ Tell(w, r, w.told[r], st).reservations = w.reservations
          /\ Tell(w, r, w.told[r], st).told = [w.told EXCEPT ![r] = st]
          /\ Tell(w, r, w.told[r], st).gap = FALSE
      BY <1>1, <1>2, TellNext, ZenonT(30)
    <2>2. v = Tell(w, r, w.told[r], st)
      OBVIOUS
    <2> HIDE DEF v
    <2> QED BY <2>1, <2>2
  <1> HIDE DEF v
  <1>4. v.told = w.told
    BY <1>1, <1>3 DEF Work
  <1>5. v \in SoundWork
    BY <1>3, <1>4 DEF SoundWork
  <1> QED BY <1>1, <1>5 DEF v, st

\* A batch that a malformed item has stopped keeps what it has done.
LEMMA SoundStop ==
  ASSUME NEW w \in SoundWork
  PROVE  [w EXCEPT !.open = FALSE] \in SoundWork
  BY DEF SoundWork, Work

\* An item that is reserved, refused or malformed leaves the work sound: a
\* reservation is only written where no other is active.
LEMMA ReserveItemSound ==
  ASSUME NEW p \in Providers, NEW w \in SoundWork, NEW x \in ToReserve(p)
  PROVE  ReserveItem(p, w, x) \in SoundWork
  <1>1. CASE x = Malformed \/ ~w.open
    BY <1>1, SoundStop DEF ReserveItem
  <1>2. ASSUME x # Malformed, w.open, CanReserve(w, p, x)
        PROVE  ReserveItem(p, w, x) \in SoundWork
    <2> DEFINE new == [provider |-> p, holding |-> x.holding, quantity |-> x.quantity, status |-> "reserved"]
    <2>1. x.id \in ReservationIds /\ x.holding \in Holdings(p) /\ x.quantity \in Quantities
      BY <1>2 DEF ToReserve
    <2>2. x.holding \in AllHoldings
      BY <2>1 DEF AllHoldings
    <2>3. new \in Reservation
      BY <2>1, <2>2 DEF Reservation, Statuses
    <2>4. new.status = "reserved" /\ new.provider = p /\ new.holding = x.holding
      OBVIOUS
    <2>5. \A s \in ReservationIds \ {x.id} :
            ~ (/\ Active(w.reservations[s])
               /\ w.reservations[s].provider = new.provider
               /\ w.reservations[s].holding = new.holding)
      BY <1>2, <2>4 DEF CanReserve, ActiveOn
    <2>6. ReserveItem(p, w, x)
            = Tell([w EXCEPT !.reservations[x.id] = new], x.id, StatusOf(w.reservations[x.id]), new.status)
      BY <1>2 DEF ReserveItem
    <2> HIDE DEF new
    <2> QED BY <2>1, <2>3, <2>5, <2>6, SoundUpdate
  <1>3. ASSUME x # Malformed, w.open, ~CanReserve(w, p, x)
        PROVE  ReserveItem(p, w, x) \in SoundWork
    <2> DEFINE others == ActiveOn(w, p, x.holding) \ {x.id}
               r == CHOOSE r \in others : TRUE
    <2>1. ReserveItem(p, w, x) = Conflict(w, p, x)
      BY <1>3 DEF ReserveItem
    <2>2. CASE assets[p][x.holding] = 0 \/ others = {}
      BY <2>1, <2>2 DEF Conflict
    <2>3. ASSUME ~ (assets[p][x.holding] = 0 \/ others = {})
          PROVE  ReserveItem(p, w, x) \in SoundWork
      <3>1. r \in others
        BY <2>3
      <3>2. r \in ReservationIds /\ w.reservations[r] # NoReservation
        BY <3>1 DEF ActiveOn, Active
      <3>3. Conflict(w, p, x) = Tell(w, r, w.reservations[r].status, w.reservations[r].status)
        BY <2>3 DEF Conflict
      <3> HIDE DEF r
      <3> QED BY <2>1, <3>2, <3>3, SoundRepeat
    <2> QED BY <2>2, <2>3
  <1> QED BY <1>1, <1>2, <1>3

\* An item that is released, refused or malformed leaves the work sound: no
\* release makes a reservation active that has ended.
LEMMA ReleaseItemSound ==
  ASSUME NEW p \in Providers, NEW w \in SoundWork, NEW x \in ToRelease
  PROVE  ReleaseItem(p, w, x) \in SoundWork
  <1> DEFINE old == w.reservations[x.id]
  <1>1. CASE x = Malformed \/ ~w.open
    BY <1>1, SoundStop DEF ReleaseItem
  <1>2. ASSUME x # Malformed, w.open,
               old # NoReservation, old.provider = p, MayRelease(old.status, x.to)
        PROVE  ReleaseItem(p, w, x) \in SoundWork
    <2> DEFINE new == [old EXCEPT !.status = x.to]
    <2>1. x.id \in ReservationIds /\ x.to \in Statuses
      BY <1>2 DEF ToRelease, Statuses
    <2>2. old \in Reservation
      BY <1>2, <2>1 DEF SoundWork, Work
    <2>3. /\ new \in Reservation
          /\ new.status = x.to /\ new.provider = old.provider /\ new.holding = old.holding
      BY <2>1, <2>2 DEF Reservation
    <2>4. Active(new) => Active(old)
      BY <1>2, <2>3 DEF Active, MayRelease, Ended
    <2>5. Active(new) => \A s \in ReservationIds \ {x.id} :
                           ~ (/\ Active(w.reservations[s])
                              /\ w.reservations[s].provider = new.provider
                              /\ w.reservations[s].holding = new.holding)
      BY <2>1, <2>3, <2>4 DEF SoundWork
    <2>6. [w EXCEPT !.reservations[x.id].status = x.to] = [w EXCEPT !.reservations[x.id] = new]
      BY <2>1, <2>2 DEF SoundWork, Reservation
    <2>7. [w EXCEPT !.reservations[x.id] = new].told = w.told
      BY DEF SoundWork
    <2>8. StatusOf(old) = old.status
      BY <1>2 DEF StatusOf
    <2>9. ReleaseItem(p, w, x)
            = Tell([w EXCEPT !.reservations[x.id] = new], x.id, StatusOf(old), new.status)
      BY <1>2, <2>3, <2>6, <2>8 DEF ReleaseItem, Released
    <2> HIDE DEF new
    <2> QED BY <2>1, <2>3, <2>5, <2>9, SoundUpdate
  <1>3. CASE /\ x # Malformed
             /\ w.open
             /\ ~ (old # NoReservation /\ old.provider = p /\ MayRelease(old.status, x.to))
    BY <1>3 DEF ReleaseItem
  <1> QED BY <1>1, <1>2, <1>3

\* A batch of items to reserve, of any length, leaves the work sound.
LEMMA ReserveBatchSound ==
  ASSUME NEW p \in Providers, NEW base \in SoundWork, NEW n \in Nat,
         NEW items \in [1..n -> ToReserve(p)]
  PROVE  FoldLeft(LAMBDA w, x : ReserveItem(p, w, x), base, items) \in SoundWork
  <1> DEFINE Rec(it) == [s \in SUBSET (1..n) |->
                           IF s = {} THEN base ELSE ReserveItem(p, it[s \ {Max(s)}], items[Max(s)])]
             iter == CHOOSE it : it = Rec(it)
             F == [y \in SoundWork \X (1..n) |-> ReserveItem(p, y[1], items[y[2]])]
  <1>1. FoldLeft(LAMBDA w, x : ReserveItem(p, w, x), base, items) = iter[1..n]
    <2>1. DOMAIN items = 1..n
      OBVIOUS
    <2> QED BY <2>1 DEF FoldLeft, MapThenFoldSet
  <1>2. F \in [SoundWork \X (1..n) -> SoundWork]
    BY ReserveItemSound
  <1>3. \A w \in SoundWork, k \in 1..n : F[<<w, k>>] = ReserveItem(p, w, items[k])
    OBVIOUS
  <1> HIDE DEF F
  <1>4. \E it : it = Rec(it)
    <2>1. \E g : IsFold(g, SoundWork, n, base, F)
      BY <1>2, FoldDefined
    <2>2. PICK g : IsFold(g, SoundWork, n, base, F)
      BY <2>1
    <2>3. ASSUME NEW s \in SUBSET (1..n), s # {}
          PROVE  F[<<g[s \ {Max(s)}], Max(s)>>] = ReserveItem(p, g[s \ {Max(s)}], items[Max(s)])
      <3>1. Max(s) \in s
        BY <2>3, MaxIn
      <3>2. Max(s) \in 1..n /\ g[s \ {Max(s)}] \in SoundWork
        BY <2>2, <3>1 DEF IsFold
      <3> QED BY <1>3, <3>2
    <2>4. \A s \in SUBSET (1..n) :
            g[s] = IF s = {} THEN base ELSE ReserveItem(p, g[s \ {Max(s)}], items[Max(s)])
      BY <2>2, <2>3 DEF IsFold
    <2>5. g \in [SUBSET (1..n) -> SoundWork]
      BY <2>2 DEF IsFold
    <2>6. g = Rec(g)
      BY <2>4, <2>5
    <2> QED BY <2>6
  <1>5. iter = Rec(iter)
    BY <1>4
  <1> HIDE DEF iter
  <1>6. \A s \in SUBSET (1..n) :
          iter[s] = IF s = {} THEN base ELSE ReserveItem(p, iter[s \ {Max(s)}], items[Max(s)])
    BY <1>5
  <1> HIDE DEF Rec
  <1>7. ASSUME NEW k \in 1..n, iter[1..(k - 1)] \in SoundWork
        PROVE  iter[1..k] = F[<<iter[1..(k - 1)], k>>]
    <2>1. k \in Nat \ {0} /\ 1..k \in SUBSET (1..n)
      OBVIOUS
    <2>2. Max(1..k) = k /\ (1..k) \ {k} = 1..(k - 1) /\ 1..k # {}
      BY <2>1, LastNumber
    <2>3. iter[1..k] = ReserveItem(p, iter[1..(k - 1)], items[k])
      BY <1>6, <2>1, <2>2
    <2> QED BY <1>3, <1>7, <2>3
  <1>8. iter[{}] = base
    BY <1>6
  <1>9. iter[1..n] \in SoundWork
    BY <1>2, <1>7, <1>8, FoldStays
  <1> QED BY <1>1, <1>9

\* A batch of items to release, of any length, leaves the work sound.
LEMMA ReleaseBatchSound ==
  ASSUME NEW p \in Providers, NEW base \in SoundWork, NEW n \in Nat,
         NEW items \in [1..n -> ToRelease]
  PROVE  FoldLeft(LAMBDA w, x : ReleaseItem(p, w, x), base, items) \in SoundWork
  <1> DEFINE Rec(it) == [s \in SUBSET (1..n) |->
                           IF s = {} THEN base ELSE ReleaseItem(p, it[s \ {Max(s)}], items[Max(s)])]
             iter == CHOOSE it : it = Rec(it)
             F == [y \in SoundWork \X (1..n) |-> ReleaseItem(p, y[1], items[y[2]])]
  <1>1. FoldLeft(LAMBDA w, x : ReleaseItem(p, w, x), base, items) = iter[1..n]
    <2>1. DOMAIN items = 1..n
      OBVIOUS
    <2> QED BY <2>1 DEF FoldLeft, MapThenFoldSet
  <1>2. F \in [SoundWork \X (1..n) -> SoundWork]
    BY ReleaseItemSound
  <1>3. \A w \in SoundWork, k \in 1..n : F[<<w, k>>] = ReleaseItem(p, w, items[k])
    OBVIOUS
  <1> HIDE DEF F
  <1>4. \E it : it = Rec(it)
    <2>1. \E g : IsFold(g, SoundWork, n, base, F)
      BY <1>2, FoldDefined
    <2>2. PICK g : IsFold(g, SoundWork, n, base, F)
      BY <2>1
    <2>3. ASSUME NEW s \in SUBSET (1..n), s # {}
          PROVE  F[<<g[s \ {Max(s)}], Max(s)>>] = ReleaseItem(p, g[s \ {Max(s)}], items[Max(s)])
      <3>1. Max(s) \in s
        BY <2>3, MaxIn
      <3>2. Max(s) \in 1..n /\ g[s \ {Max(s)}] \in SoundWork
        BY <2>2, <3>1 DEF IsFold
      <3> QED BY <1>3, <3>2
    <2>4. \A s \in SUBSET (1..n) :
            g[s] = IF s = {} THEN base ELSE ReleaseItem(p, g[s \ {Max(s)}], items[Max(s)])
      BY <2>2, <2>3 DEF IsFold
    <2>5. g \in [SUBSET (1..n) -> SoundWork]
      BY <2>2 DEF IsFold
    <2>6. g = Rec(g)
      BY <2>4, <2>5
    <2> QED BY <2>6
  <1>5. iter = Rec(iter)
    BY <1>4
  <1> HIDE DEF iter
  <1>6. \A s \in SUBSET (1..n) :
          iter[s] = IF s = {} THEN base ELSE ReleaseItem(p, iter[s \ {Max(s)}], items[Max(s)])
    BY <1>5
  <1> HIDE DEF Rec
  <1>7. ASSUME NEW k \in 1..n, iter[1..(k - 1)] \in SoundWork
        PROVE  iter[1..k] = F[<<iter[1..(k - 1)], k>>]
    <2>1. k \in Nat \ {0} /\ 1..k \in SUBSET (1..n)
      OBVIOUS
    <2>2. Max(1..k) = k /\ (1..k) \ {k} = 1..(k - 1) /\ 1..k # {}
      BY <2>1, LastNumber
    <2>3. iter[1..k] = ReleaseItem(p, iter[1..(k - 1)], items[k])
      BY <1>6, <2>1, <2>2
    <2> QED BY <1>3, <1>7, <2>3
  <1>8. iter[{}] = base
    BY <1>6
  <1>9. iter[1..n] \in SoundWork
    BY <1>2, <1>7, <1>8, FoldStays
  <1> QED BY <1>1, <1>9

\* A batch finds sound work.
LEMMA WorkingSound ==
  ASSUME InventoryInv
  PROVE  Working \in SoundWork
  BY DEF InventoryInv, Types, OneActivePerHolding, LogTellsReservations, Working, SoundWork, Work

\* What is written back after a batch satisfies the invariant.
LEMMA DoneSound ==
  ASSUME InventoryInv, NEW w \in SoundWork, Done(w)
  PROVE  InventoryInv'
  BY DEF InventoryInv, Types, OneActivePerHolding, LogTellsReservations, Done, SoundWork, Work

\* InventoryInv is inductive.
LEMMA InventoryStep ==
  ASSUME InventoryInv, [Next]_vars
  PROVE  InventoryInv'
  <1>1. CASE UNCHANGED vars
    BY <1>1 DEF InventoryInv, Types, OneActivePerHolding, LogTellsReservations, vars, Active, StatusOf
  <1>2. ASSUME NEW p \in Providers, NEW H \in SUBSET Holdings(p) \ {{}}, NEW S \in [H -> Totals],
               RecordSnapshot(p, S)
        PROVE  InventoryInv'
    <2>1. assets' \in [Providers -> [AllHoldings -> Totals \cup {0}]]
      <3> DEFINE new == [h \in AllHoldings |-> IF h \in DOMAIN S THEN S[h] ELSE assets[p][h]]
      <3>1. new \in [AllHoldings -> Totals \cup {0}]
        BY DEF InventoryInv, Types
      <3>2. assets' = [assets EXCEPT ![p] = new]
        BY <1>2 DEF RecordSnapshot
      <3> HIDE DEF new
      <3> QED BY <3>1, <3>2 DEF InventoryInv, Types
    <2> QED BY <1>2, <2>1
        DEF InventoryInv, Types, OneActivePerHolding, LogTellsReservations, RecordSnapshot, Active, StatusOf
  <1>3. ASSUME NEW p \in Providers, NEW items \in Batches(ToReserve(p)), ReserveBatch(p, items)
        PROVE  InventoryInv'
    <2>1. PICK n \in 1..MaxBatch : items \in [1..n -> ToReserve(p)]
      BY DEF Batches
    <2>2. n \in Nat
      BY InventoryAssumption
    <2> QED BY <1>3, <2>1, <2>2, WorkingSound, ReserveBatchSound, DoneSound DEF ReserveBatch
  <1>4. ASSUME NEW p \in Providers, NEW items \in Batches(ToRelease), ReleaseBatch(p, items)
        PROVE  InventoryInv'
    <2>1. PICK n \in 1..MaxBatch : items \in [1..n -> ToRelease]
      BY DEF Batches
    <2>2. n \in Nat
      BY InventoryAssumption
    <2> QED BY <1>4, <2>1, <2>2, WorkingSound, ReleaseBatchSound, DoneSound DEF ReleaseBatch
  <1> QED BY <1>1, <1>2, <1>3, <1>4 DEF Next

\* The tables keep their types, and the promises below hold, in every state.
THEOREM InventoryInvariant == Spec => []InventoryInv
  <1>1. Init => InventoryInv
    BY DEF Init, InventoryInv, Types, OneActivePerHolding, LogTellsReservations, Active, StatusOf
  <1>2. InventoryInv /\ [Next]_vars => InventoryInv'
    BY InventoryStep
  <1> QED BY <1>1, <1>2, PTL DEF Spec

\* A provider never has two active reservations on one holding
\* (reserveBatch, releaseBatch).
THEOREM NeverReservedTwice == Spec => []OneActivePerHolding
  <1>1. InventoryInv => OneActivePerHolding
    BY DEF InventoryInv
  <1> QED BY <1>1, InventoryInvariant, PTL

\* The reconciliation log tells the status of every reservation, without a
\* gap, after batches of any length that end anywhere
\* (_recordReconciliationEvent).
THEOREM LogIsComplete == Spec => []LogTellsReservations
  <1>1. InventoryInv => LogTellsReservations
    BY DEF InventoryInv
  <1> QED BY <1>1, InventoryInvariant, PTL
=============================================================================
