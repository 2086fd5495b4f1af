SPECIFICATION Spec
CONSTANTS
  p1 = p1
  p2 = p2
  h1 = h1
  h2 = h2
  r1 = r1
  r2 = r2
  NoReservation = NoReservation
  Malformed = Malformed
  Providers = {p1, p2}
  Holdings <- MCHoldings
  ReservationIds = {r1, r2}
  Totals = {1, 2}
  Quantities = {1, 2}
  MaxBatch = 2
SYMMETRY MCSymmetry
INVARIANTS
  OneActivePerHolding
  LogTellsReservations
