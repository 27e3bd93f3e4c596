\* The session is deleted and restored meanwhile.
CONSTANTS
  NoOne = NoOne
  Processes = {p1, p2}
  MaxBirths = 2
  MaxAcquires = 2
  MaxHandles = 2
  Deletes = 3
SPECIFICATION FairSpec
INVARIANTS
  NestedReferences
PROPERTIES
  CallsSettle
