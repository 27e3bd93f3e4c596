\* Users send messages, delete and restore while workers come and go.
CONSTANTS
  NoOne = NoOne
  Messages = {m1, m2, m3}
  Controls = {m3}
  Workers = {w1, w2}
  Clients = {c1, c2}
  Operations = {"submit", "view", "maintain", "cancel", "delete", "restore"}
  WorkerCrashes = TRUE
  MaxPending = 2
  MaxCalls = 2
SPECIFICATION Spec
SYMMETRY InputSymmetry
INVARIANTS
  TakenOnce ReceiptsTrue QueueBounded
PROPERTIES
  ClosedForGood  InputFirst DeferredKept
