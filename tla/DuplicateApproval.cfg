\* Two approval requests for one scan.
SPECIFICATION SafetySpec
CONSTANTS
  Tools = {zap}
  OtherTools = {}
  Profiles = {"full", "firecrawl"}
  Approvers = {a1, a2}
  Pollers = {p1}
  MaxCrashes = 0
  MaxFaults = 0
INVARIANT RejectedScanSkipsTools
