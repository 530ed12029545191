\* One approval request, two pollers, no restart and no failed store access.
SPECIFICATION Spec
CONSTANTS
  Tools = {sqlmap, zap}
  OtherTools = {other}
  Profiles = {"full", "firecrawl"}
  Approvers = {a1}
  Pollers = {p1, p2}
  MaxCrashes = 0
  MaxFaults = 0
INVARIANTS
  FinalApprovalCoversExecuted
  CompletedRowHasReport
PROPERTIES
  ImplementsLifecycle
  SubmittedScanSettles
  AcceptedScanCompletes
  RowSettles
