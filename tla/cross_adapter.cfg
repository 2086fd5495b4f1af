SPECIFICATION Spec
\* Partners use up the keys they have.
CHECK_DEADLOCK FALSE
CONSTANTS
  Partners = {"p1", "p2"}
  Cycles = {"c1", "c2"}
  Routes = {"r1"}
  Nothing = Nothing
  Amounts = {1, 2}
  Outcomes <- MCOutcomes
  MaxCalls <- MCMaxCalls
INVARIANTS
  ReceiptsRestOnPreflights
  PaidAsApproved
  LinkagesAreBacked
