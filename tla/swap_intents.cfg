SPECIFICATION Spec
\* When every key is used and the days are over, nothing is left to do.
CHECK_DEADLOCK FALSE
CONSTANTS
  u1 = u1  u2 = u2  a1 = a1  d1 = d1  d2 = d2  d3 = d3  i1 = i1  i2 = i2
  n1 = n1  k1 = k1
  NoConsent = NoConsent  NoIntent = NoIntent  NoTerms = NoTerms  NoCap = NoCap
  Users = {u1, u2}
  Agents = {a1}
  DelegationIds = {d1, d2, d3}
  IntentIds = {i1, i2}
  Nonces = {n1}
  SubjectOf <- MCSubjectOf
  AgentOf <- MCAgentOf
  LastDay <- MCLastDay
  MaxPerSwap <- MCMaxPerSwap
  MaxPerDay <- MCMaxPerDay
  Threshold <- MCThreshold
  Bodies <- MCBodies
  Consents <- MCConsents
  ScopeKeys <- MCScopeKeys
  MaxDay = 2
INVARIANTS
  DailyCapHolds
  HighValueConsented
  ConsentUsedOnce
PROPERTIES
  RevokedForGood
