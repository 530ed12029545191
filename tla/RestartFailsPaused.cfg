\* No approval request yet, one poller, one restart.
SPECIFICATION SafetySpec
CONSTANTS
  Tools = {zap}
  OtherTools = {}
  Profiles = {"full", "firecrawl"}
  Approvers = {}
  Pollers = {p1}
  MaxCrashes = 1
  MaxFaults = 0
PROPERTY PausedSurvivesRestart
