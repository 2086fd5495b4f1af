SPECIFICATION Spec
\* A JSON file cut short stops every later start: nothing is enabled then.
CHECK_DEADLOCK FALSE
CONSTANTS
  w1 = w1  w2 = w2  w3 = w3
  Missing = Missing  Torn = Torn  Down = Down  NoId = NoId
  Work = {w1, w2, w3}
  Failing = {w3}
  MaxBatch = 3
INVARIANTS
  KnownIsApplied
  SavedNeverLost
PROPERTIES
  MemoryReachesDisk
  GenuineEventsIngested
