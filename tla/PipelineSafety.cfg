\* Two approval requests, no poller, one crash, one failed store access.
SPECIFICATION SafetySpec
CONSTANTS
  sqlmap = sqlmap
  zap = zap
  other = other
  a1 = a1
  a2 = a2
  Tools <- MCTools
  OtherTools <- MCOtherTools
  Profiles = {"full", "firecrawl"}
  Approvers = {a1, a2}
  Pollers = {}
  MaxCrashes = 1
  MaxFaults = 1
\* A finished scan, and one whose reviewers are gone, has no further step.
CHECK_DEADLOCK FALSE
SYMMETRY Symmetric
INVARIANTS
  NoUngrantedTool
  CompleteHasReport
  TruthfulOutcome
