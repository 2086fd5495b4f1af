SPECIFICATION OrderlySpec
CONSTANTS
  p1 = p1  p2 = p2
  i1 = i1  i2 = i2  i3 = i3
  alice = alice  bob = bob
  h1 = h1  s1 = s1  t1 = t1  t2 = t2
  Proposals = {p1, p2}
  Intents = {i1, i2, i3}
  Actors = {alice, bob}
  Partners = {s1}
  Holdings = {h1}
  Tokens = {t1}
  MaxClock = 1
  NoProposal = NoProposal  NoPartner = NoPartner  NoToken = NoToken  NoHolding = NoHolding
  IntentsOf <- MCIntentsOf
  OwnerOf <- MCOwnerOf
  LegIndex <- MCLegIndex
  PartnerOf <- MCPartnerOf
  HoldingOwner <- MCHoldingOwner
  AssetFits <- MCAssetFits
  ExpiresAt <- MCExpiresAt
INVARIANTS
  LockedWhileInCycle
  OutboxRebuildsReservations
PROPERTIES
  ImplementsLedger
\* Every cycle ends, completed, failed or cancelled: nothing is left to do then.
CHECK_DEADLOCK FALSE
