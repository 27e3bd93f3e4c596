\* Two projects, two workers, one of each project; four sessions.
CONSTANTS
  NumProjects = 2
  MaxSessions = 4
  MaxWorkers = 2
  MaxWorkersPerProject = 1
  MaxQueueLength = 2
  Keys = {k1}
  NoKey = NoKey
  MaxHandoffs = 1
  MaxFaults = 1
SPECIFICATION Spec
INVARIANTS
   PendingBounded OneSessionPerKey FairTurns
