\* Two services, one interrupted or dead; no symmetry, as the properties are temporal.
CONSTANTS
  NoOne = NoOne
  Services = {s1, s2}
  Policies = {"skip"}
  Kinds = {"interval", "once"}
  Interval = 1
  MaxInFlight = 1
  MaxTime = 1
  MaxRequests = 1
  MaxFaults = 1
SPECIFICATION FairSpec
PROPERTIES
  EndReported SkipSettles
