\* One client, one slot, two requests for one target.
SPECIFICATION SafetySpec
CONSTANTS
  Requests = {q1, q2}
  Clients = {org1}
  Accounts = {org1}
  Targets = {t1}
  MaxPerClient = 1
  MaxGlobal = 2
  MaxRequests = 2
  MaxTargets = 1
  ScansPerMonth = 2
  MaxCrashes = 0
  None = None
INVARIANT RunningScansBounded
CHECK_DEADLOCK FALSE
