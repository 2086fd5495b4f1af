SPECIFICATION Spec
\* The run returns when proposals are selected (runMatching).
CHECK_DEADLOCK FALSE
CONSTANTS
  Intents = {1, 2, 3, 4}
  NoLimit = NoLimit
  MinLength = 2
  MaxLength = 4
  MaxCycles = 5
  ExactMax = 3
  LengthLimit <- MCLengthLimit
  IdOf <- MCIdOf
  WantSets <- MCWantSets
  RowSets <- MCRowSets
  UnvaluedSets = {{}, {3}, {4}}
  Scorings = {1, 2, 3}
  ScoreOf <- MCScoreOf
  NoScoring = NoScoring
INVARIANTS
  CyclesAreSound
  DoneMeansAll
  ProposalsFeasible
  SelectionIsBest
PROPERTIES
  RunEnds
