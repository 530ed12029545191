\* One scan, one status request of the page on its way.
SPECIFICATION PanelSpec
CONSTANTS
  Scans = {s1}
  Tools = {zap}
  NoScan = NoScan
  Absent = Absent
  NoGate = NoGate
  PanelSlots = {1}
INVARIANT CancelHolds
\* A page whose scan is complete polls no more.
CHECK_DEADLOCK FALSE
