\* One approval request, one poller, one restart.
SPECIFICATION SafetySpec
CONSTANTS
  Tools = {zap}
  OtherTools = {}
  Profiles = {"full", "firecrawl"}
  Approvers = {a1}
  Pollers = {p1}
  MaxCrashes = 1
  MaxFaults = 0
PROPERTY OrphansResolvedAtStartup
