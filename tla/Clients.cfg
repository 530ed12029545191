\* Three requests of up to three clients for two targets, one restart; two scans
\* in the popup, two status requests on their way, one failure in a row; two
\* status requests of the dashboard's page on their way.
SPECIFICATION ClientsSpec
CONSTANTS
  q1 = q1
  q2 = q2
  q3 = q3
  org1 = org1
  org2 = org2
  apikey = apikey
  t1 = t1
  t2 = t2
  Requests <- MCRequests
  Clients = {org1, org2, apikey}
  Accounts = {org1, org2}
  Targets = {t1, t2}
  MaxPerClient = 1
  MaxGlobal = 2
  MaxRequests = 2
  MaxTargets = 1
  ScansPerMonth = 2
  MaxCrashes = 1
  None = None
  s1 = s1
  s2 = s2
  Scans = {s1, s2}
  Tools = {zap}
  NoScan = NoScan
  Absent = Absent
  NoGate = NoGate
  MaxRetries = 1
  PollSlots = {1, 2}
  PanelSlots = {1, 2}
INVARIANTS
  SlotsAreHeld
  EntriesAreOwned
  WorkingScansAreTracked
  QuotasHold
  ClientsOnTheirWay
PROPERTIES
  SlotsReturn
  PopupAsShown
  GateAsShown
\* When every request has been answered and every scan has ended, nothing is left
\* to do.
CHECK_DEADLOCK FALSE
