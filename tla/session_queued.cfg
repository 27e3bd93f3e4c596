\* Launches through the scheduler queue; every process may die at any step.
CONSTANTS
  NoOne = NoOne
  Workers = {w1, w2}
  Clients = {c1, c2}
  Operations = {"cancel", "handoff", "dispatch", "recover"}
  QueueEnabled = TRUE
  Detached = FALSE
  ClientCrashes = TRUE
  WorkerCrashes = TRUE
  MaxCalls = 3
SPECIFICATION Spec
SYMMETRY Symmetry
INVARIANTS
  AttemptsFenced OneExecutor ModeOfNewestAttempt LaunchesSerialized
PROPERTIES
  CompletedByOwner  FenceSpec
