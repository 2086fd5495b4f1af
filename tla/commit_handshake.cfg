SPECIFICATION Spec
CONSTANTS
  p1 = p1  p2 = p2  p3 = p3
  i1 = i1  i2 = i2  i3 = i3
  alice = alice  bob = bob  outsider = outsider
  NoProposal = NoProposal
  Proposals <- MCProposals
  Intents <- MCIntents
  Actors <- MCActors
  IntentsOf <- MCIntentsOf
  OwnerOf <- MCOwnerOf
  ExpiresAt <- MCExpiresAt
  MaxClock = 2
INVARIANTS
  ReservationsMatchCommits
  ReadyIsUnanimous
  OutboxRebuildsReservations
  EventIdsAreUnique
PROPERTIES
  PhasesOnlyAdvance
  ImplementsLedger
