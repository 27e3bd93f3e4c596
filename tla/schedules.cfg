\* Two services, one interrupted or dead, and a user with one request.
CONSTANTS
  NoOne = NoOne
  Services = {s1, s2}
  Policies = {"skip", "queue_one", "allow_bounded"}
  Kinds = {"interval"}
  Interval = 1
  MaxInFlight = 1
  MaxTime = 2
  MaxRequests = 1
  MaxFaults = 1
SPECIFICATION Spec
SYMMETRY ServiceSymmetry
INVARIANTS
  TicksClaimedOnce OneRunEach 
