--------------------------- MODULE MCScanClients ---------------------------
(***************************************************************************)
(* The clients of a scan for TLC, in slices: the requests that POST /scan  *)
(* admits; the extension's popup; the dashboard's page of a scan.          *)
(***************************************************************************)
EXTENDS MCScanAdmission, ExtensionPopup, DashboardGate

CONSTANTS s1, s2

VARIABLE slice

clientVars == <<vars, serviceVars, popupVars, panelVars, slice>>

ClientsInit ==
  /\ slice \in {"admission", "popup", "dashboard"}
  /\ MCInit /\ (slice # "admission" => key = [q \in MCRequests |-> At(org1, t1)])
  /\ ServiceInit /\ PopupInit
  /\ PanelInit /\ panel = s1

\* Two scans in the popup: s1, and s2 once s1 has given its slot back, at its
\* gate or complete; until then create_scan refuses a second request.  A status
\* request of s1 may outlive its view.  Nobody else decides them: that is in
\* the dashboard's slice.
TwoScans ==
  /\ starting' + Cardinality(created') <= 1
  /\ phase'[s2] # "unknown" => phase'[s1] \in {"paused", "complete"}
  /\ activeScanId = s2 => activeScanId' = s2 /\ phase'[s1] = phase[s1]
  /\ polls'[2] # Absent => /\ polls'[2].scan = s1 /\ ~polls'[2].first
                           /\ polls[2] = Absent => polls[1] # Absent
  /\ \A s \in Scans : /\ Cardinality(decisions'[s]) <= 1
                      /\ decisions'[s] \subseteq decisions[s] \/ approval' # approval

ClientsNext ==
  /\ UNCHANGED slice
  /\ \/ slice = "admission" /\ Next /\ UNCHANGED <<serviceVars, popupVars, panelVars>>
     \/ slice = "popup" /\ PopupNext /\ TwoScans /\ UNCHANGED <<vars, panelVars>>
     \/ slice = "dashboard" /\ PanelNext /\ UNCHANGED <<vars, popupVars>>

ClientsSpec == ClientsInit /\ [][ClientsNext]_clientVars /\ Fairness

ClientsOnTheirWay == PopupOnItsWay /\ GateOnItsWay
=============================================================================
