\* Processes open, reopen and close a session and die at any step.
CONSTANTS
  NoOne = NoOne
  Processes = {p1, p2, p3}
  MaxBirths = 2
  MaxAcquires = 4
  MaxHandles = 2
  Deletes = 0
SPECIFICATION Spec
SYMMETRY LeaseSymmetry
INVARIANTS
  OwnerExclusive RecordNamesOwner
PROPERTIES
  OwnershipSpec
