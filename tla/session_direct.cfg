\* Direct launches, detached goal runs, and the calls that file a session away.
CONSTANTS
  NoOne = NoOne
  Workers = {w1, w2}
  Clients = {c1, c2}
  Operations = {"attach", "delete", "restore", "archive", "unarchive", "input"}
  QueueEnabled = FALSE
  Detached = TRUE
  ClientCrashes = FALSE
  WorkerCrashes = FALSE
  MaxCalls = 2
SPECIFICATION Spec
SYMMETRY Symmetry
INVARIANTS
  OneOutcomePerAttempt
