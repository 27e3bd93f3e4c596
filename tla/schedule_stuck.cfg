\* No user, no crash: a tick that meets the worker limit, and the next one.
CONSTANTS
  NoOne = NoOne
  Services = {s1}
  Policies = {"queue_one"}
  Kinds = {"interval"}
  Interval = 1
  MaxInFlight = 1
  MaxTime = 2
  MaxRequests = 0
  MaxFaults = 0
SPECIFICATION FairSpec
PROPERTIES
  QueuedRuns
