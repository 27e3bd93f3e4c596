\* Two processes read and append; either may die, and the system may go down.
CONSTANTS
  NoOne = NoOne
  Processes = {p1, p2}
  MaxWrites = 3
  MaxDeaths = 1
  MaxOutages = 1
SPECIFICATION Spec
SYMMETRY RegistrySymmetry
INVARIANTS
  IndexFollowsLog AcknowledgedKept SequenceUnbroken ReadsFresh
