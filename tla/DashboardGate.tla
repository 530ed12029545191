---------------------------- MODULE DashboardGate ----------------------------
(***************************************************************************)
(* The dashboard's page of a scan (LiveScanPanel.tsx) with the approval    *)
(* gate in it (ApprovalGate.tsx).  The page polls every three seconds; it  *)
(* takes the gate away with its boxes and its countdown whenever it has an *)
(* error to show or nothing awaits approval, and a gate that comes back    *)
(* starts anew.                                                            *)
(***************************************************************************)
EXTENDS ApprovalService

CONSTANTS
  PanelSlots,  \* bound: one per status request of the page on its way
  NoGate       \* the gate is not on the page

ASSUME NoGateAssumption ==
  NoGate \notin [list: SUBSET Tools, selected: SUBSET Tools, auto: BOOLEAN, fired: BOOLEAN,
                 settled: BOOLEAN]

VARIABLES
  panel,     \* the scan the page is about
  status,    \* the last answer
  refreshes, \* status requests on their way
  gate,      \* the state of the ApprovalGate component
  decision,  \* the request of handleApproval on its way, if approvalLoading
  settled    \* history: the user has cancelled or decided, with the tools listed

gateVars  == <<gate, decision, settled>>
panelVars == <<panel, status, refreshes, gateVars>>

Refreshes == [answer: {Absent} \cup Answers, after: BOOLEAN]

Gates ==
  [list: SUBSET Tools,      \* plannedTools
   selected: SUBSET Tools,
   auto: BOOLEAN,           \* autoEnabled
   fired: BOOLEAN,          \* firedRef
   settled: BOOLEAN]        \* history: settled since the gate was filled in

PanelDecisions ==
  [tools: SUBSET Tools, silent: BOOLEAN, mounted: BOOLEAN, result: {"none", "ok", "refused"}]

ASSUME NoDecisionAssumption == Absent \notin Refreshes /\ Absent \notin PanelDecisions

PanelTypeOK ==
  /\ panel \in Scans
  /\ status \in {Absent} \cup Answers
  /\ refreshes \in [PanelSlots -> {Absent} \cup Refreshes]
  /\ gate \in {NoGate} \cup Gates
  /\ decision \in {Absent} \cup PanelDecisions
  /\ settled \in BOOLEAN

-----------------------------------------------------------------------------
(* The page.                                                               *)

PanelInit ==
  /\ panel \in Scans
  /\ status = Absent
  /\ refreshes = [p \in PanelSlots |-> Absent]
  /\ gate = NoGate /\ decision = Absent /\ settled = FALSE

\* A gate with every planned tool selected and its countdown running.
FreshGate(list) ==
  [list |-> list, selected |-> list, auto |-> TRUE, fired |-> FALSE, settled |-> FALSE]

\* Mutant: other tools keep the answers given to the old ones.
GateAfter_KeepsAnswers(answer) ==
  IF ~answer.awaits THEN NoGate
  ELSE IF gate = NoGate THEN FreshGate(answer.list) ELSE [gate EXCEPT !.list = answer.list]

\* The gate once an answer is shown: other tools fill it in anew.
GateAfter(answer) ==
  IF ~answer.awaits THEN NoGate
  ELSE IF gate = NoGate \/ gate.list # answer.list THEN FreshGate(answer.list)
  ELSE gate

\* A pending request belongs to the gate that sent it, as long as it is there.
DecisionUnder(newGate, pending) ==
  IF pending = Absent THEN Absent
  ELSE [pending EXCEPT !.mounted = @ /\ newGate # NoGate]

\* Every three seconds until the scan is complete.
PanelPolls(p) ==
  /\ refreshes[p] = Absent
  /\ status # Absent => ~status.complete
  /\ refreshes' = [refreshes EXCEPT ![p] = [answer |-> Absent, after |-> FALSE]]
  /\ UNCHANGED <<serviceVars, panel, status, gateVars>>

PanelServed(p) ==
  /\ refreshes[p] # Absent /\ refreshes[p].answer = Absent
  /\ \E answer \in {StatusOf(panel), Unreadable} :
       refreshes' = [refreshes EXCEPT ![p].answer = answer]
  /\ UNCHANGED <<serviceVars, panel, status, gateVars>>

\* refreshStatus.  The one after an approval ends approvalLoading.
PanelAnswered(p) ==
  LET answer == refreshes[p].answer IN
  /\ refreshes[p] # Absent /\ answer # Absent
  /\ refreshes' = [refreshes EXCEPT ![p] = Absent]
  /\ status' = answer
  /\ gate' = GateAfter(answer)
  /\ decision' = IF refreshes[p].after THEN Absent ELSE DecisionUnder(gate', decision)
  /\ UNCHANGED <<serviceVars, panel, settled>>

\* loadError replaces the page, until an answer arrives.
PanelFails(p) ==
  /\ refreshes[p] # Absent
  /\ refreshes' = [refreshes EXCEPT ![p] = Absent]
  /\ gate' = NoGate
  /\ decision' = IF refreshes[p].after THEN Absent ELSE DecisionUnder(NoGate, decision)
  /\ UNCHANGED <<serviceVars, panel, status, settled>>

-----------------------------------------------------------------------------
(* The gate.                                                               *)

\* Everything in the gate is disabled while a request is on its way.
Usable == gate # NoGate /\ decision = Absent

\* handleApproval.
SendDecision(tools, silent) ==
  decision' = [tools |-> tools, silent |-> silent, mounted |-> TRUE, result |-> "none"]

Settle ==
  /\ settled' = (settled \/ gate.list # {})
  /\ gate' = [gate EXCEPT !.auto = FALSE, !.settled = TRUE]

GateToggle(t) ==
  /\ Usable /\ t \in gate.list
  /\ gate' = [gate EXCEPT !.selected = IF t \in @ THEN @ \ {t} ELSE @ \cup {t}]
  /\ UNCHANGED <<serviceVars, panel, status, refreshes, decision, settled>>

\* Mutant: the countdown is hidden but goes on.
GateCancel_OnlyHides ==
  /\ Usable /\ gate.auto
  /\ settled' = (settled \/ gate.list # {})
  /\ gate' = [gate EXCEPT !.settled = TRUE]
  /\ UNCHANGED <<serviceVars, panel, status, refreshes, decision>>

GateCancel ==
  /\ Usable /\ gate.auto
  /\ Settle
  /\ UNCHANGED <<serviceVars, panel, status, refreshes, decision>>

GateApproves ==
  /\ Usable /\ gate.selected # {}
  /\ Settle
  /\ SendDecision(gate.selected, FALSE)
  /\ UNCHANGED <<serviceVars, panel, status, refreshes>>

GateRejects ==
  /\ Usable
  /\ Settle
  /\ SendDecision({}, FALSE)
  /\ UNCHANGED <<serviceVars, panel, status, refreshes>>

GateCountdownEnds ==
  /\ Usable /\ gate.auto /\ ~gate.fired
  /\ gate' = [gate EXCEPT !.fired = TRUE]
  /\ SendDecision(gate.selected, TRUE)
  /\ UNCHANGED <<serviceVars, panel, status, refreshes, settled>>

DecisionServed ==
  /\ decision # Absent /\ decision.result = "none"
  /\ decision' = [decision EXCEPT !.result = IF Accepts(panel) THEN "ok" ELSE "refused"]
  /\ Decide(panel, decision.tools)
  /\ UNCHANGED <<phase, choice, panel, status, refreshes, gate, settled>>

\* The status is read once more before the gate can be used again.
DecisionAnswered(p) ==
  /\ decision # Absent /\ decision.result = "ok" /\ refreshes[p] = Absent
  /\ \A r \in PanelSlots : refreshes[r] # Absent => ~refreshes[r].after
  /\ refreshes' = [refreshes EXCEPT ![p] = [answer |-> Absent, after |-> TRUE]]
  /\ UNCHANGED <<serviceVars, panel, status, gateVars>>

\* A refusal or no answer.  The countdown's own request stops the countdown of
\* the gate that sent it.
DecisionFails ==
  /\ decision # Absent /\ decision' = Absent
  /\ \A r \in PanelSlots : refreshes[r] # Absent => ~refreshes[r].after
  /\ gate' = IF decision.silent /\ decision.mounted /\ gate # NoGate
             THEN [gate EXCEPT !.fired = FALSE, !.auto = FALSE] ELSE gate
  /\ UNCHANGED <<serviceVars, panel, status, refreshes, settled>>

-----------------------------------------------------------------------------

PanelNext ==
  \/ (ScanStarts(panel) \/ ServiceNext) /\ UNCHANGED panelVars
  \/ \E p \in PanelSlots :
       PanelPolls(p) \/ PanelServed(p) \/ PanelAnswered(p) \/ PanelFails(p) \/ DecisionAnswered(p)
  \/ \E t \in Tools : GateToggle(t)
  \/ GateCancel \/ GateApproves \/ GateRejects \/ GateCountdownEnds
  \/ DecisionServed \/ DecisionFails

PanelSpec == ServiceInit /\ PanelInit /\ [][PanelNext]_<<serviceVars, panelVars>>

-----------------------------------------------------------------------------
(* Properties.                                                             *)

\* What the gate sends was listed by the last answer, and its countdown sends
\* nothing after the user has cancelled it or decided, unless the gate was
\* filled in anew since.
GateAsShown ==
  [][decision = Absent /\ decision' # Absent =>
       /\ status.awaits /\ decision'.tools \subseteq status.list
       /\ decision'.silent => ~gate.settled]_<<serviceVars, panelVars>>

\* A countdown that has ended has not been spent in vain: as long as the scan
\* waits, its request is on the way, or the gate says that the user must decide.
GateOnItsWay ==
  gate # NoGate /\ phase[panel] = "paused" /\ decisions[panel] = {} =>
    decision # Absent \/ (gate.auto => ~gate.fired)

\* "Auto-approving the checked tools in {seconds}s unless you cancel or reject"
\* (messages/en.json): on a page on which the user has done so, no countdown
\* approves tools any more.
CancelHolds == decision # Absent /\ decision.silent /\ decision.tools # {} => ~settled
=============================================================================
