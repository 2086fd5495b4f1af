SPECIFICATION ApiSpec
CONSTANTS
  p1 = p1  p2 = p2  i1 = i1  i2 = i2  i3 = i3
  alice = alice  bob = bob  k1 = k1  s1 = s1
  NoProposal = NoProposal  NoPartner = NoPartner  NoRecord = NoRecord
  Marketplace = marketplace
  Proposals = {p1, p2}
  Intents = {i1, i2, i3}
  Actors = {alice, bob}
  ScopeKeys <- MCScopeKeys
  Partners = {s1}
  IntentsOf <- MCIntentsOf
  OwnerOf <- MCOwnerOf
  ExpiresAt <- MCExpiresAt
  MaxClock = 0
INVARIANTS
  CommitKeepsProposal
  BoardConsistent
  AnswersAgree
