\* Workers die, supervisors do not; no symmetry, as the properties are temporal.
CONSTANTS
  NoOne = NoOne
  Workers = {w1, w2}
  Clients = {c1, c2}
  Operations = {"cancel", "attach", "handoff", "dispatch", "recover", "delete",
                "input"}
  QueueEnabled = TRUE
  Detached = FALSE
  ClientCrashes = FALSE
  WorkerCrashes = TRUE
  MaxCalls = 2
SPECIFICATION FairSpec
PROPERTIES
  CancellationEnds DeadWorkerReconciled LaunchSettles CallsReturn
