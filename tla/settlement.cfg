SPECIFICATION Spec
CONSTANTS
  p1 = p1  p2 = p2
  i1 = i1  i2 = i2  i3 = i3  i4 = i4  i5 = i5
  alice = alice  bob = bob
  h1 = h1  h2 = h2  s1 = s1  s2 = s2  t1 = t1
  Proposals = {p1, p2}
  Intents = {i1, i2, i3, i4, i5}
  Actors = {alice, bob}
  Partners = {s1, s2}
  Holdings = {h1, h2}
  Tokens = {t1}
  NoProposal = NoProposal  NoPartner = NoPartner  NoToken = NoToken  NoHolding = NoHolding
  IntentsOf <- MCIntentsOf
  OwnerOf <- MCOwnerOf
  LegIndex <- MCLegIndex
  PartnerOf <- MCPartnerOf
  HoldingOwner <- MCHoldingOwner
  AssetFits <- MCAssetFits
INVARIANTS
  FundedIffReady
  AllOrNothing
  BoundHoldingsLocked
  LockedUntilSettled
  OutboxFollowsTimelines
PROPERTIES
  SettledIsFinal
\* Every cycle ends, completed, failed or cancelled: nothing is left to do then.
CHECK_DEADLOCK FALSE
