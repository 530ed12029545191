----------------------- MODULE ApprovalClients_proofs -----------------------
(***************************************************************************)
(* The popup and the dashboard's page for any scans, tools, retries and    *)
(* requests on their way.  That a client sends what it shows follows from  *)
(* how its copies of the user's choice stay together (Ticked, Filled);     *)
(* that it never leaves a waiting scan alone needs to know what has become *)
(* of each request it has sent (Sent, Awaited), which rests on one fact    *)
(* about the service: what is decided stays so (Decided).  When both work  *)
(* at the same service, a step of one is a step of the service to the      *)
(* other, so each keeps its own invariant.                                 *)
(***************************************************************************)
EXTENDS MCScanClients, TLAPS

USE ScansAssumption, AbsentAssumption, MaxRetriesAssumption, NoRequestAssumption,
    NoGateAssumption, NoDecisionAssumption
    DEF ScansAssumption, AbsentAssumption, MaxRetriesAssumption, NoRequestAssumption,
    NoGateAssumption, NoDecisionAssumption

\* Nobody has to be asked about the scan any more.
Decided(s) ==
  \/ phase[s] \in {"resumed", "complete"}
  \/ phase[s] = "paused" /\ decisions[s] # {}

\* What a client relies on when something other than itself takes a step.
ServiceKept == ServiceTypeOK' /\ \A s \in Scans : Decided(s) => Decided(s)'

LEMMA ServiceKeeps ==
  ASSUME ServiceTypeOK, ServiceNext \/ \E s \in Scans : ScanStarts(s)
  PROVE  ServiceKept
<1> USE DEF ServiceTypeOK, Decided, Phases
<1>1. ASSUME NEW s \in Scans, ScanStarts(s) \/ PlanCommitted(s) \/ GateInterrupts(s)
      PROVE  ServiceTypeOK' /\ \A r \in Scans : Decided(r) => Decided(r)'
  BY <1>1 DEF ScanStarts, PlanCommitted, GateInterrupts
<1>2. ASSUME NEW s \in Scans, GateResumes(s)
      PROVE  ServiceTypeOK' /\ \A r \in Scans : Decided(r) => Decided(r)'
  BY <1>2 DEF GateResumes
<1>3. ASSUME NEW s \in Scans, ScanEnds(s)
      PROVE  ServiceTypeOK' /\ \A r \in Scans : Decided(r) => Decided(r)'
  BY <1>3 DEF ScanEnds
<1>4. ASSUME NEW s \in Scans, DecidedElsewhere(s)
      PROVE  ServiceTypeOK' /\ \A r \in Scans : Decided(r) => Decided(r)'
  BY <1>4 DEF DecidedElsewhere, Decide, Accepts
<1> QED BY <1>1, <1>2, <1>3, <1>4 DEF ServiceNext, ServiceKept

LEMMA DecideKeeps ==
  ASSUME ServiceTypeOK, NEW s \in Scans, NEW tools \in SUBSET Tools,
         Decide(s, tools), UNCHANGED <<phase, choice>>
  PROVE  /\ ServiceTypeOK'
         /\ \A r \in Scans : Decided(r) => Decided(r)'
         /\ Accepts(s) => Decided(s)'
BY DEF ServiceTypeOK, Decided, Decide, Accepts

LEMMA StatusTyped ==
  ASSUME NEW s \in Scans
  PROVE  StatusOf(s) \in Answers /\ Unreadable \in Answers
BY DEF StatusOf, Unreadable, Answers

-----------------------------------------------------------------------------
(* The popup.                                                              *)

\* The code's copy of the boxes, and the scan a countdown is about.
Ticked ==
  /\ selectedTools \subseteq checked
  /\ countdown # Absent => selectedTools = checked /\ (countdown = activeScanId \/ misled)

Looking ==
  activeScanId # NoScan /\ ~approvalShown
    => polling \/ scanBtn \/ \E p \in PollSlots : polls[p] # Absent /\ polls[p].first

Asked ==
  approvalShown /\ ~misled /\ ~scanBtn
    => /\ activeScanId # NoScan
       /\ dialog \/ (approval # Absent /\ approval.scan = activeScanId) \/ Decided(activeScanId)

\* The dialog is about a scan in view, or about another one's answer.
Viewed == approvalShown /\ ~misled => activeScanId # NoScan

Sent == approval # Absent /\ approval.result = "ok" => Decided(approval.scan)

\* The popup's inductive invariant.
PopupInv ==
  ServiceTypeOK /\ PopupTypeOK /\ Ticked /\ Looking /\ Asked /\ Viewed /\ Sent

\* The service, the reviewer in another window, or the dashboard.
LEMMA PopupServiceStep ==
  ASSUME PopupInv, ServiceKept, UNCHANGED popupVars
  PROVE  PopupInv'
<1>1. ServiceTypeOK' /\ \A s \in Scans : Decided(s) => Decided(s)'
  BY DEF ServiceKept
<1>2. PopupTypeOK' /\ Ticked' /\ Looking' /\ Viewed'
  BY DEF PopupInv, PopupTypeOK, ViewTypeOK, DialogTypeOK, Ticked, Looking, Viewed, popupVars,
         viewVars, timerVars, dialogVars, boxes
<1>3. Asked' /\ Sent'
  BY <1>1 DEF PopupInv, PopupTypeOK, ViewTypeOK, DialogTypeOK, Asked, Sent, Approvals, popupVars,
              viewVars, timerVars, dialogVars, boxes
<1> QED BY <1>1, <1>2, <1>3 DEF PopupInv

\* Starting a scan, and closing the popup.
LEMMA PopupStartStep ==
  ASSUME PopupInv,
         StartScan \/ (\E s \in Scans : ScanCreated(s)) \/ ScanRefused \/ PopupReopened
  PROVE  PopupInv'
<1> USE DEF PopupInv, PopupTypeOK, ViewTypeOK, DialogTypeOK, serviceVars, viewVars, timerVars,
            dialogVars, boxes
<1>1. ServiceTypeOK' /\ \A s \in Scans : Decided(s) <=> Decided(s)'
  BY DEF StartScan, ScanCreated, ScanStarts, ScanRefused, PopupReopened, ServiceTypeOK, Decided,
         Phases
<1>2. ViewTypeOK'
  <2>1. retries' \in 0 .. MaxRetries /\ starting' \in Nat /\ created' \subseteq Scans
    BY DEF StartScan, ScanCreated, ScanRefused, PopupReopened
  <2>2. polls' \in [PollSlots -> {Absent} \cup Polls] /\ activeScanId' \in Scans \cup {NoScan}
    BY DEF StartScan, ScanCreated, ScanRefused, PopupReopened
  <2>3. /\ approvalShown' \in BOOLEAN /\ scanBtn' \in BOOLEAN
        /\ misled' \in BOOLEAN /\ polling' \in BOOLEAN
    BY DEF StartScan, ScanCreated, ScanRefused, PopupReopened
  <2> QED BY <2>1, <2>2, <2>3
<1>3. DialogTypeOK'
  BY DEF StartScan, ScanCreated, ScanRefused, PopupReopened
<1>4. Ticked'
  BY DEF StartScan, ScanCreated, ScanRefused, PopupReopened, Ticked
<1>5. Looking' /\ Viewed'
  BY DEF StartScan, ScanCreated, ScanRefused, PopupReopened, Looking, Viewed
<1>6. Asked'
  <2>1. CASE \E s \in Scans : ScanCreated(s)
    BY <1>1, <2>1 DEF ScanCreated, Asked
  <2>2. CASE StartScan \/ ScanRefused \/ PopupReopened
    BY <1>1, <2>2 DEF StartScan, ScanRefused, PopupReopened, Asked
  <2> QED BY <2>1, <2>2
<1>7. Sent'
  BY <1>1 DEF StartScan, ScanCreated, ScanRefused, PopupReopened, Sent, Approvals
<1> QED BY <1>1, <1>2, <1>3, <1>4, <1>5, <1>6, <1>7

LEMMA ScanAcceptedStep ==
  ASSUME PopupInv, NEW s \in Scans, NEW p \in PollSlots, ScanAccepted(s, p)
  PROVE  PopupInv'
<1> USE DEF PopupInv, PopupTypeOK, ViewTypeOK, DialogTypeOK, ScanAccepted, dialogVars, boxes
<1>1. ServiceTypeOK' /\ \A r \in Scans : Decided(r) => Decided(r)'
  BY DEF ServiceTypeOK, Decided, serviceVars
<1>2. [scan |-> s, first |-> TRUE, answer |-> Absent] \in Polls
  BY DEF Polls
<1>3. PopupTypeOK'
  BY <1>2
<1>4. Ticked' /\ Asked' /\ Viewed'
  BY DEF Ticked, Asked, Viewed
<1>5. Looking'
  BY <1>2 DEF Looking
<1>6. Sent'
  BY <1>1 DEF Sent, Approvals
<1> QED BY <1>1, <1>3, <1>4, <1>5, <1>6

LEMMA PollStep ==
  ASSUME PopupInv, NEW p \in PollSlots,
         PollTick(p) \/ PollServed(p) \/ PollAnswered(p) \/ PollFails(p)
  PROVE  PopupInv'
<1> USE DEF PopupInv, PopupTypeOK, ViewTypeOK, DialogTypeOK, serviceVars, viewVars,
            dialogVars, boxes
<1>1. ServiceTypeOK' /\ \A s \in Scans : Decided(s) <=> Decided(s)'
  BY DEF PollTick, PollServed, PollAnswered, PollFails, ServiceTypeOK, Decided
<1>2. approval' = approval /\ activeScanId' = activeScanId /\ Sent'
  BY <1>1 DEF PollTick, PollServed, PollAnswered, PollFails, Sent, Approvals
<1>3. CASE PollTick(p)
  <2>1. [scan |-> activeScanId, first |-> FALSE, answer |-> Absent] \in Polls
    BY <1>3 DEF PollTick, Polls
  <2>2. PopupTypeOK' /\ Looking'
    BY <1>3, <2>1 DEF PollTick, Looking
  <2> QED BY <1>1, <1>2, <1>3, <2>2 DEF PollTick, Ticked, Asked, Viewed
<1>4. CASE PollServed(p)
  <2>1. PICK answer \in Answers : polls' = [polls EXCEPT ![p].answer = answer]
    BY <1>4, StatusTyped DEF PollServed, Polls
  <2>2. polls[p] \in Polls /\ polls'[p] = [polls[p] EXCEPT !.answer = answer]
    BY <1>4, <2>1 DEF PollServed
  <2>3. polls'[p] \in Polls /\ polls'[p].first = polls[p].first
    BY <2>2 DEF Polls
  <2>4. PopupTypeOK'
    BY <1>4, <2>1, <2>3 DEF PollServed
  <2>5. Looking'
    BY <1>4, <2>1, <2>3 DEF PollServed, Looking
  <2> QED BY <1>1, <1>2, <1>4, <2>4, <2>5 DEF PollServed, Ticked, Asked, Viewed
<1>5. CASE PollAnswered(p)
  <2>1. /\ polls[p].scan \in Scans /\ polls[p].answer \in Answers /\ polls[p].first \in BOOLEAN
    BY <1>5 DEF PollAnswered, Polls
  <2>2. PopupTypeOK'
    <3>1. polls' \in [PollSlots -> {Absent} \cup Polls] /\ retries' \in 0 .. MaxRetries
      BY <1>5 DEF PollAnswered
    <3>2. /\ activeScanId' = activeScanId /\ starting' = starting /\ created' = created
          /\ misled' \in BOOLEAN /\ polling' \in BOOLEAN
      BY <1>5, <2>1 DEF PollAnswered, Answers
    <3>3. approvalShown' \in BOOLEAN /\ scanBtn' \in BOOLEAN
      BY <1>5 DEF PollAnswered, OpenDialog
    <3>4. DialogTypeOK'
      BY <1>5, <2>1 DEF PollAnswered, OpenDialog, Answers
    <3> QED BY <3>1, <3>2, <3>3, <3>4
  <2>3. Ticked' /\ Viewed'
    BY <1>5, <2>1 DEF PollAnswered, OpenDialog, Ticked, Viewed
  <2>4. Looking'
    BY <1>5, <2>1 DEF PollAnswered, OpenDialog, Looking
  <2>5. Asked'
    <3>1. \/ dialog' /\ (~misled' => activeScanId # NoScan)
          \/ scanBtn'
          \/ UNCHANGED <<dialog, approvalShown, scanBtn>> /\ (misled => misled')
      BY <1>5, <2>1 DEF PollAnswered, OpenDialog
    <3> QED BY <1>1, <1>2, <3>1 DEF Asked
  <2> QED BY <1>1, <1>2, <2>2, <2>3, <2>4, <2>5
<1>6. CASE PollFails(p)
  <2>1. PopupTypeOK'
    BY <1>6 DEF PollFails, Polls
  <2>2. Looking'
    BY <1>6, <2>1 DEF PollFails, Looking, Polls
  <2> QED BY <1>1, <1>2, <1>6, <2>1, <2>2 DEF PollFails, Ticked, Asked, Viewed
<1> QED BY <1>3, <1>4, <1>5, <1>6

\* The boxes, the buttons and the countdown.
LEMMA DialogStep ==
  ASSUME PopupInv,
         (\E t \in Tools : Toggle(t)) \/ ClickApprove \/ ClickReject \/ CountdownEnds
  PROVE  PopupInv'
<1> USE DEF PopupInv, PopupTypeOK, ViewTypeOK, DialogTypeOK, serviceVars, viewVars, timerVars, boxes
<1>1. ServiceTypeOK' /\ \A s \in Scans : Decided(s) <=> Decided(s)'
  BY DEF Toggle, ClickApprove, ClickReject, CountdownEnds, ServiceTypeOK, Decided
<1>2. /\ UNCHANGED <<activeScanId, approvalShown, scanBtn, misled, polling, polls, retries, starting,
                  created>>
      /\ Looking' /\ Viewed'
  BY DEF Toggle, ClickApprove, ClickReject, CountdownEnds, Looking, Viewed
<1>3. ASSUME NEW t \in Tools, Toggle(t) PROVE PopupInv'
  <2>1. PopupTypeOK' /\ Ticked'
    BY <1>2, <1>3 DEF Toggle, Ticked
  <2>2. Asked' /\ Sent'
    BY <1>1, <1>2, <1>3 DEF Toggle, Asked, Sent, Approvals
  <2> QED BY <1>1, <1>2, <2>1, <2>2
<1>4. ASSUME ClickApprove \/ ClickReject \/ CountdownEnds PROVE PopupInv'
  <2>1. PICK tools \in SUBSET Tools : SendApproval(tools)
    BY <1>4 DEF ClickApprove, ClickReject, CountdownEnds
  <2>2. activeScanId # NoScan =>
          [scan |-> activeScanId, tools |-> tools, result |-> "none"] \in Approvals
    BY DEF Approvals
  <2>3. PopupTypeOK'
    BY <1>2, <1>4, <2>1, <2>2 DEF ClickApprove, ClickReject, CountdownEnds, SendApproval
  <2>4. Ticked'
    BY <1>2, <1>4 DEF ClickApprove, ClickReject, CountdownEnds, Ticked
  <2>5. Asked' /\ Sent'
    BY <1>1, <1>2, <2>1, <2>2 DEF SendApproval, Asked, Sent, Approvals
  <2> QED BY <1>1, <1>2, <2>3, <2>4, <2>5
<1> QED BY <1>3, <1>4

LEMMA ApprovalStep ==
  ASSUME PopupInv, ApprovalServed \/ ApprovalAnswered \/ ApprovalFails
  PROVE  PopupInv'
<1> USE DEF PopupInv, PopupTypeOK, ViewTypeOK, DialogTypeOK, serviceVars, viewVars, timerVars,
            dialogVars, boxes
<1>1. approval \in Approvals
  BY DEF ApprovalServed, ApprovalAnswered, ApprovalFails
<1>2. CASE ApprovalServed
  <2>1. /\ ServiceTypeOK' /\ \A s \in Scans : Decided(s) => Decided(s)'
        /\ Accepts(approval.scan) => Decided(approval.scan)'
    BY <1>1, <1>2, DecideKeeps DEF ApprovalServed, Approvals
  <2>2. approval' \in Approvals /\ approval'.scan = approval.scan
    BY <1>1, <1>2 DEF ApprovalServed, Approvals
  <2>3. PopupTypeOK' /\ Ticked' /\ Looking' /\ Viewed'
    BY <1>2, <2>2 DEF ApprovalServed, Ticked, Looking, Viewed
  <2>4. Sent'
    BY <1>1, <1>2, <2>1, <2>2 DEF ApprovalServed, Sent, Approvals
  <2>5. Asked'
    BY <1>1, <1>2, <2>1, <2>2 DEF ApprovalServed, Asked
  <2> QED BY <2>1, <2>3, <2>4, <2>5
<1>3. CASE ApprovalAnswered
  BY <1>1, <1>3
     DEF ApprovalAnswered, ServiceTypeOK, Ticked, Looking, Viewed, Asked, Sent, Approvals, Decided
<1>4. CASE ApprovalFails
  BY <1>1, <1>4
     DEF ApprovalFails, ServiceTypeOK, Ticked, Looking, Viewed, Asked, Sent, Decided
<1> QED BY <1>2, <1>3, <1>4

LEMMA PopupStart == ServiceInit /\ PopupInit => PopupInv
<1> SUFFICES ASSUME ServiceInit, PopupInit PROVE PopupInv
  OBVIOUS
<1>1. ServiceTypeOK
  BY DEF ServiceInit, ServiceTypeOK, Phases
<1>2. ViewTypeOK
  <2>1. retries \in 0 .. MaxRetries /\ starting \in Nat /\ created \subseteq Scans
    BY DEF PopupInit
  <2>2. polls \in [PollSlots -> {Absent} \cup Polls] /\ activeScanId \in Scans \cup {NoScan}
    BY DEF PopupInit
  <2>3. /\ approvalShown \in BOOLEAN /\ scanBtn \in BOOLEAN
        /\ misled \in BOOLEAN /\ polling \in BOOLEAN
    BY DEF PopupInit
  <2> QED BY <2>1, <2>2, <2>3 DEF ViewTypeOK
<1>3. DialogTypeOK
  BY DEF PopupInit, DialogTypeOK
<1>4. Ticked /\ Looking /\ Asked /\ Viewed /\ Sent
  BY DEF PopupInit, Ticked, Looking, Asked, Viewed, Sent
<1> QED BY <1>1, <1>2, <1>3, <1>4 DEF PopupInv, PopupTypeOK

LEMMA PopupStep == PopupInv /\ [PopupNext]_<<serviceVars, popupVars>> => PopupInv'
<1>1. ASSUME PopupInv, PopupNext PROVE PopupInv'
  <2>1. CASE ServiceNext /\ UNCHANGED popupVars
    BY <1>1, <2>1, ServiceKeeps, PopupServiceStep DEF PopupInv
  <2> QED
    BY <1>1, <2>1, PopupStartStep, ScanAcceptedStep, PollStep, DialogStep, ApprovalStep
       DEF PopupNext
<1>2. ASSUME PopupInv, UNCHANGED <<serviceVars, popupVars>> PROVE PopupInv'
  <2>1. ServiceKept
    BY <1>2 DEF PopupInv, ServiceKept, ServiceTypeOK, Decided, serviceVars
  <2> QED BY <1>2, <2>1, PopupServiceStep
<1> QED BY <1>1, <1>2

LEMMA PopupInvariance == PopupSpec => []PopupInv
BY PopupStart, PopupStep, PTL DEF PopupSpec

PopupSendsAsShown ==
  Sends => /\ approval'.tools \subseteq checked
           /\ CountdownEnds => /\ approval'.tools = checked
                               /\ countdown = approval'.scan \/ misled

LEMMA PopupSends ==
  ASSUME PopupInv, PopupNext
  PROVE  PopupSendsAsShown
<1> SUFFICES ASSUME Sends
             PROVE  /\ approval'.tools \subseteq checked
                    /\ CountdownEnds => /\ approval'.tools = checked
                                        /\ countdown = approval'.scan \/ misled
  BY DEF PopupSendsAsShown
<1>1. ClickApprove \/ ClickReject \/ CountdownEnds
  BY DEF PopupNext, Sends, popupVars, StartScan, ScanCreated, ScanRefused, PopupReopened,
         ScanAccepted, PollTick, PollServed, PollAnswered, PollFails, Toggle, ApprovalServed, ApprovalAnswered,
         ApprovalFails
<1>2. CountdownEnds => /\ approval'.tools = checked
                       /\ countdown = approval'.scan \/ misled
  BY DEF CountdownEnds, SendApproval, Sends, PopupInv, Ticked
<1>3. ClickApprove \/ ClickReject => approval'.tools \subseteq checked
  BY DEF ClickApprove, ClickReject, SendApproval, Sends, PopupInv, Ticked
<1> QED BY <1>1, <1>2, <1>3

\* What the popup sends is what its boxes show, and a countdown decides the scan
\* it was started for (popup.ts: sendApproval, scheduleAutoApprove).
THEOREM PopupShows == PopupSpec => PopupAsShown
<1>1. PopupInv /\ [PopupNext]_<<serviceVars, popupVars>>
        => [PopupSendsAsShown]_<<serviceVars, popupVars>>
  BY PopupSends
<1>2. PopupAsShown <=> [][PopupSendsAsShown]_<<serviceVars, popupVars>>
  BY DEF PopupAsShown, PopupSendsAsShown
<1> QED BY <1>1, <1>2, PopupInvariance, PTL DEF PopupSpec

LEMMA PopupWaitsForNothing == PopupInv => PopupOnItsWay
BY DEF PopupInv, PopupTypeOK, ViewTypeOK, DialogTypeOK, PopupOnItsWay, Looking, Asked, Decided

\* The popup never sits still in front of a scan that waits for its reviewer
\* (popup.ts: pollScanStatus, sendApproval).
THEOREM PopupMovesOn == PopupSpec => []PopupOnItsWay
BY PopupInvariance, PopupWaitsForNothing, PTL

-----------------------------------------------------------------------------
(* The dashboard's page.                                                   *)

\* The gate is about the tools of the last answer, and once the user has
\* settled it, it has no countdown.
Filled ==
  gate # NoGate => /\ status # Absent /\ status.awaits /\ gate.list = status.list
                   /\ gate.selected \subseteq gate.list
                   /\ gate.settled => ~gate.auto

\* A countdown that has ended has its request on the way, or has had its effect.
Awaited ==
  gate # NoGate /\ gate.auto /\ gate.fired
    => (decision # Absent /\ decision.silent /\ decision.mounted) \/ Decided(panel)

\* At most one request reads the status after a decision, and only after one
\* that was accepted.
Read ==
  /\ \A p \in PanelSlots : refreshes[p] # Absent /\ refreshes[p].after
                             => decision # Absent /\ decision.result = "ok"
  /\ \A p, q \in PanelSlots :
       refreshes[p] # Absent /\ refreshes[p].after /\ refreshes[q] # Absent /\ refreshes[q].after
         => p = q

Effective == decision # Absent /\ decision.result = "ok" => Decided(panel)

\* The page's inductive invariant.
PanelInv == ServiceTypeOK /\ PanelTypeOK /\ Filled /\ Awaited /\ Read /\ Effective

\* The service, the reviewer in another window, or the popup.
LEMMA PanelServiceStep ==
  ASSUME PanelInv, ServiceKept, UNCHANGED panelVars
  PROVE  PanelInv'
<1>1. ServiceTypeOK' /\ \A s \in Scans : Decided(s) => Decided(s)'
  BY DEF ServiceKept
<1>2. PanelTypeOK' /\ Filled' /\ Read'
  BY DEF PanelInv, PanelTypeOK, Filled, Read, panelVars, gateVars
<1>3. Awaited' /\ Effective'
  BY <1>1 DEF PanelInv, PanelTypeOK, Awaited, Effective, panelVars, gateVars
<1> QED BY <1>1, <1>2, <1>3 DEF PanelInv

\* Requests for the status, up to their answer.
LEMMA RefreshStep ==
  ASSUME PanelInv, NEW p \in PanelSlots, PanelPolls(p) \/ PanelServed(p) \/ DecisionAnswered(p)
  PROVE  PanelInv'
<1> USE DEF PanelInv, PanelTypeOK, serviceVars, gateVars
<1>1. /\ UNCHANGED <<panel, status, gate, decision, settled>>
      /\ ServiceTypeOK' /\ \A s \in Scans : Decided(s) <=> Decided(s)'
  BY DEF PanelPolls, PanelServed, DecisionAnswered, ServiceTypeOK, Decided
<1>2. Filled' /\ Awaited' /\ Effective'
  BY <1>1 DEF Filled, Awaited, Effective
<1>3. CASE PanelPolls(p)
  <2>1. [answer |-> Absent, after |-> FALSE] \in Refreshes
    BY DEF Refreshes
  <2> QED BY <1>1, <1>2, <1>3, <2>1 DEF PanelPolls, Read
<1>4. CASE PanelServed(p)
  <2>1. PICK answer \in Answers : refreshes' = [refreshes EXCEPT ![p].answer = answer]
    BY <1>4, StatusTyped DEF PanelServed
  <2>2. refreshes'[p] \in Refreshes /\ refreshes'[p].after = refreshes[p].after
    BY <1>4, <2>1 DEF PanelServed, Refreshes
  <2>3. PanelTypeOK'
    BY <1>1, <2>1, <2>2
  <2>4. Read'
    BY <1>1, <1>4, <2>1, <2>2 DEF PanelServed, Read
  <2> QED BY <1>1, <1>2, <2>3, <2>4
<1>5. CASE DecisionAnswered(p)
  <2>1. [answer |-> Absent, after |-> TRUE] \in Refreshes
    BY DEF Refreshes
  <2> QED BY <1>1, <1>2, <1>5, <2>1 DEF DecisionAnswered, Read
<1> QED BY <1>3, <1>4, <1>5

\* An answer, or a failure, and what it makes of the gate.
LEMMA AnswerStep ==
  ASSUME PanelInv, NEW p \in PanelSlots, PanelAnswered(p) \/ PanelFails(p)
  PROVE  PanelInv'
<1> USE DEF PanelInv, PanelTypeOK, serviceVars
<1>1. ServiceTypeOK' /\ (\A s \in Scans : Decided(s) <=> Decided(s)') /\ panel' = panel
  BY DEF PanelAnswered, PanelFails, ServiceTypeOK, Decided
<1>2. refreshes[p] \in Refreshes /\ refreshes' = [refreshes EXCEPT ![p] = Absent]
  BY DEF PanelAnswered, PanelFails
<1>3. /\ gate' \in {NoGate} \cup Gates
      /\ gate' = NoGate \/ ~gate'.fired \/ gate' = gate
      /\ Filled' /\ status' \in {Absent} \cup Answers
  <2>1. CASE PanelAnswered(p)
    BY <1>2, <2>1 DEF PanelAnswered, GateAfter, FreshGate, Filled, Gates, Refreshes, Answers
  <2>2. CASE PanelFails(p)
    BY <2>2 DEF PanelFails, Filled
  <2> QED BY <2>1, <2>2
<1>4. decision' = IF refreshes[p].after THEN Absent ELSE DecisionUnder(gate', decision)
  BY DEF PanelAnswered, PanelFails
<1>5. decision' # Absent => /\ decision # Absent /\ ~refreshes[p].after
                            /\ decision' \in PanelDecisions
                            /\ decision'.silent = decision.silent
                            /\ decision'.result = decision.result
                            /\ gate' # NoGate => decision'.mounted = decision.mounted
  BY <1>4 DEF DecisionUnder, PanelDecisions
<1>6. decision' = Absent => decision = Absent \/ refreshes[p].after
  BY <1>4 DEF DecisionUnder, PanelDecisions
<1>7. settled' = settled
  BY DEF PanelAnswered, PanelFails
<1>8. PanelTypeOK'
  BY <1>1, <1>2, <1>3, <1>5, <1>7
<1>9. Read'
  BY <1>2, <1>4, <1>5, <1>6 DEF Read, Refreshes
<1>10. Effective' /\ Awaited'
  <2>1. refreshes[p].after => Decided(panel)
    BY <1>2 DEF Read, Effective, PanelAnswered, PanelFails
  <2> QED BY <1>1, <1>3, <1>5, <1>6, <2>1 DEF Effective, Awaited
<1> QED BY <1>1, <1>3, <1>8, <1>9, <1>10

LEMMA GateStep ==
  ASSUME PanelInv,
         (\E t \in Tools : GateToggle(t)) \/ GateCancel \/ GateApproves \/ GateRejects
           \/ GateCountdownEnds
  PROVE  PanelInv'
<1> USE DEF PanelInv, PanelTypeOK, serviceVars, Usable, Settle
<1>1. /\ UNCHANGED <<panel, status, refreshes>>
      /\ ServiceTypeOK' /\ \A s \in Scans : Decided(s) <=> Decided(s)'
  BY DEF GateToggle, GateCancel, GateApproves, GateRejects, GateCountdownEnds, ServiceTypeOK,
         Decided
<1>2. gate \in Gates /\ gate # NoGate /\ decision = Absent
  BY DEF GateToggle, GateCancel, GateApproves, GateRejects, GateCountdownEnds
<1>3. /\ gate' \in Gates /\ gate'.list = gate.list /\ settled' \in BOOLEAN
      /\ gate'.selected \subseteq gate.selected \cup gate.list
      /\ \/ gate'.settled = gate.settled /\ gate'.auto = gate.auto
         \/ ~gate'.auto
  <2>1. ASSUME NEW t \in Tools, GateToggle(t)
        PROVE  /\ gate' \in Gates /\ gate'.list = gate.list
               /\ gate'.selected \subseteq gate.selected \cup gate.list
               /\ gate'.settled = gate.settled /\ gate'.auto = gate.auto
    <3>1. t \in gate.list /\ gate.list \subseteq Tools /\ gate.selected \subseteq Tools
      BY <1>2, <2>1 DEF GateToggle, Gates
    <3>2. PICK chosen \in SUBSET (gate.selected \cup gate.list) :
            gate' = [gate EXCEPT !.selected = chosen]
      BY <2>1, <3>1 DEF GateToggle
    <3> QED BY <1>2, <3>1, <3>2 DEF Gates
  <2>2. CASE GateCancel \/ GateApproves \/ GateRejects
    <3>1. gate' = [gate EXCEPT !.auto = FALSE, !.settled = TRUE]
      BY <2>2 DEF GateCancel, GateApproves, GateRejects
    <3>2. gate' \in Gates /\ gate'.list = gate.list /\ gate'.selected = gate.selected /\ ~gate'.auto
      BY <1>2, <3>1 DEF Gates
    <3>3. settled' \in BOOLEAN
      BY <2>2 DEF GateCancel, GateApproves, GateRejects
    <3> QED BY <3>2, <3>3
  <2>3. CASE GateCountdownEnds
    <3>1. gate' = [gate EXCEPT !.fired = TRUE] /\ settled' = settled
      BY <2>3 DEF GateCountdownEnds
    <3> QED BY <1>2, <3>1 DEF Gates
  <2> QED BY <2>1, <2>2, <2>3 DEF GateToggle
<1>4. Filled'
  BY <1>1, <1>2, <1>3 DEF Filled
<1>5. \/ decision' = Absent
      \/ decision' \in PanelDecisions /\ decision'.result = "none" /\ decision'.mounted
  <2>1. gate.selected \in SUBSET Tools
    BY <1>2 DEF Gates
  <2>2. ASSUME NEW tools \in SUBSET Tools, NEW silent \in BOOLEAN, SendDecision(tools, silent)
        PROVE  decision' \in PanelDecisions /\ decision'.result = "none" /\ decision'.mounted
    BY <2>2 DEF SendDecision, PanelDecisions
  <2>3. CASE (\E t \in Tools : GateToggle(t)) \/ GateCancel
    BY <1>2, <2>3 DEF GateToggle, GateCancel
  <2>4. CASE GateApproves \/ GateRejects \/ GateCountdownEnds
    BY <2>1, <2>2, <2>4 DEF GateApproves, GateRejects, GateCountdownEnds
  <2> QED BY <2>3, <2>4
<1>6. Read' /\ Effective'
  BY <1>1, <1>2, <1>5 DEF Read, Effective
<1>7. Awaited'
  <2>1. CASE GateCountdownEnds
    <3>1. gate.selected \in SUBSET Tools
      BY <1>2 DEF Gates
    <3>2. /\ decision' \in PanelDecisions /\ decision'.silent /\ decision'.mounted
      BY <2>1, <3>1 DEF GateCountdownEnds, SendDecision, PanelDecisions
    <3> QED BY <3>2 DEF Awaited
  <2>2. CASE \E t \in Tools : GateToggle(t)
    BY <1>1, <1>2, <2>2 DEF GateToggle, Awaited, Gates
  <2>3. CASE GateCancel \/ GateApproves \/ GateRejects
    BY <1>2, <2>3 DEF GateCancel, GateApproves, GateRejects, Awaited, Gates
  <2> QED BY <2>1, <2>2, <2>3
<1> QED BY <1>1, <1>3, <1>4, <1>5, <1>6, <1>7

LEMMA DecisionStep ==
  ASSUME PanelInv, DecisionServed \/ DecisionFails
  PROVE  PanelInv'
<1> USE DEF PanelInv, PanelTypeOK, serviceVars
<1>1. decision \in PanelDecisions
  BY DEF DecisionServed, DecisionFails
<1>2. CASE DecisionServed
  <2>1. /\ ServiceTypeOK' /\ \A s \in Scans : Decided(s) => Decided(s)'
        /\ Accepts(panel) => Decided(panel)'
    BY <1>1, <1>2, DecideKeeps DEF DecisionServed, PanelDecisions
  <2>2. /\ decision' \in PanelDecisions
        /\ decision'.silent = decision.silent /\ decision'.mounted = decision.mounted
        /\ decision'.result = IF Accepts(panel) THEN "ok" ELSE "refused"
    BY <1>1, <1>2 DEF DecisionServed, PanelDecisions
  <2>3. PanelTypeOK' /\ Filled' /\ Read'
    BY <1>2, <2>2 DEF DecisionServed, Filled, Read
  <2>4. Awaited' /\ Effective'
    BY <1>1, <1>2, <2>1, <2>2 DEF DecisionServed, Awaited, Effective
  <2> QED BY <2>1, <2>3, <2>4
<1>3. CASE DecisionFails
  <2>1. ServiceTypeOK' /\ \A s \in Scans : Decided(s) <=> Decided(s)'
    BY <1>3 DEF DecisionFails, ServiceTypeOK, Decided
  <2>2. PanelTypeOK' /\ Filled'
    BY <1>3 DEF DecisionFails, Filled, Gates
  <2>3. Read' /\ Effective'
    BY <1>3 DEF DecisionFails, Read, Effective
  <2>4. Awaited'
    BY <1>1, <1>3, <2>1 DEF DecisionFails, Awaited, Gates
  <2> QED BY <2>1, <2>2, <2>3, <2>4
<1> QED BY <1>2, <1>3

LEMMA PanelStart == ServiceInit /\ PanelInit => PanelInv
BY DEF ServiceInit, PanelInit, PanelInv, ServiceTypeOK, Phases, PanelTypeOK, Filled, Awaited, Read,
       Effective

LEMMA PanelStep == PanelInv /\ [PanelNext]_<<serviceVars, panelVars>> => PanelInv'
<1>1. ASSUME PanelInv, PanelNext PROVE PanelInv'
  <2>1. CASE (ScanStarts(panel) \/ ServiceNext) /\ UNCHANGED panelVars
    BY <1>1, <2>1, ServiceKeeps, PanelServiceStep DEF PanelInv, PanelTypeOK
  <2> QED BY <1>1, <2>1, RefreshStep, AnswerStep, GateStep, DecisionStep DEF PanelNext
<1>2. ASSUME PanelInv, UNCHANGED <<serviceVars, panelVars>> PROVE PanelInv'
  <2>1. ServiceKept
    BY <1>2 DEF PanelInv, ServiceKept, ServiceTypeOK, Decided, serviceVars
  <2> QED BY <1>2, <2>1, PanelServiceStep
<1> QED BY <1>1, <1>2

LEMMA PanelInvariance == PanelSpec => []PanelInv
BY PanelStart, PanelStep, PTL DEF PanelSpec

GateSendsAsShown ==
  decision = Absent /\ decision' # Absent =>
    /\ status.awaits /\ decision'.tools \subseteq status.list
    /\ decision'.silent => ~gate.settled

LEMMA GateSends ==
  ASSUME PanelInv, PanelNext
  PROVE  GateSendsAsShown
<1> SUFFICES ASSUME decision = Absent, decision' # Absent
             PROVE  /\ status.awaits /\ decision'.tools \subseteq status.list
                    /\ decision'.silent => ~gate.settled
  BY DEF GateSendsAsShown
<1>1. GateApproves \/ GateRejects \/ GateCountdownEnds
  BY DEF PanelNext, panelVars, gateVars, PanelPolls, PanelServed, PanelAnswered, PanelFails,
         DecisionUnder, GateToggle, GateCancel, DecisionServed, DecisionAnswered, DecisionFails
<1> QED BY <1>1 DEF GateApproves, GateRejects, GateCountdownEnds, SendDecision, Usable, PanelInv,
                    Filled

\* What the gate sends was listed by the last answer, and once the user has
\* settled a gate its countdown sends nothing (ApprovalGate.tsx).
THEOREM PanelShows == PanelSpec => GateAsShown
<1>1. PanelInv /\ [PanelNext]_<<serviceVars, panelVars>>
        => [GateSendsAsShown]_<<serviceVars, panelVars>>
  BY GateSends
<1>2. GateAsShown <=> [][GateSendsAsShown]_<<serviceVars, panelVars>>
  BY DEF GateAsShown, GateSendsAsShown
<1> QED BY <1>1, <1>2, PanelInvariance, PTL DEF PanelSpec

LEMMA GateIsNotSpent == PanelInv => GateOnItsWay
BY DEF PanelInv, PanelTypeOK, GateOnItsWay, Awaited, Decided

\* As long as the scan waits, a countdown that has ended has its request on the
\* way, or the user is asked (LiveScanPanel.tsx: handleApproval).
THEOREM PanelMovesOn == PanelSpec => []GateOnItsWay
BY PanelInvariance, GateIsNotSpent, PTL

-----------------------------------------------------------------------------
(* Both clients at one service, each free to decide the scan in front of   *)
(* the other.                                                              *)

SharedVars == <<serviceVars, popupVars, panelVars>>

SharedNext ==
  \/ PopupNext /\ UNCHANGED panelVars
  \/ PanelNext /\ UNCHANGED popupVars

SharedSpec == ServiceInit /\ PopupInit /\ PanelInit /\ [][SharedNext]_SharedVars

\* What one client does is for the other a step of the service.
LEMMA PopupKeeps ==
  ASSUME PopupInv, PopupNext
  PROVE  ServiceKept
<1>1. CASE ServiceNext
  BY <1>1, ServiceKeeps DEF PopupInv
<1>2. CASE ApprovalServed
  <2>1. approval.scan \in Scans /\ approval.tools \in SUBSET Tools
    BY <1>2 DEF PopupInv, PopupTypeOK, DialogTypeOK, ApprovalServed, Approvals
  <2> QED BY <1>2, <2>1, DecideKeeps DEF ApprovalServed, PopupInv, ServiceKept
<1>3. ASSUME NEW s \in Scans, ScanCreated(s)
      PROVE  ServiceKept
  BY <1>3, ServiceKeeps DEF ScanCreated, PopupInv
<1>4. CASE UNCHANGED serviceVars
  BY <1>4 DEF ServiceKept, PopupInv, ServiceTypeOK, Decided, serviceVars
<1> QED
  BY <1>1, <1>2, <1>3, <1>4
     DEF PopupNext, StartScan, ScanAccepted, ScanRefused, PopupReopened, PollTick, PollServed,
         PollAnswered, PollFails, Toggle, ClickApprove, ClickReject, CountdownEnds, ApprovalAnswered,
         ApprovalFails

LEMMA PanelKeeps ==
  ASSUME PanelInv, PanelNext
  PROVE  ServiceKept
<1>1. CASE ScanStarts(panel) \/ ServiceNext
  BY <1>1, ServiceKeeps DEF PanelInv, PanelTypeOK
<1>2. CASE DecisionServed
  <2>1. panel \in Scans /\ decision.tools \in SUBSET Tools
    BY <1>2 DEF PanelInv, PanelTypeOK, DecisionServed, PanelDecisions
  <2> QED BY <1>2, <2>1, DecideKeeps DEF DecisionServed, PanelInv, ServiceKept
<1>3. CASE UNCHANGED serviceVars
  BY <1>3 DEF ServiceKept, PanelInv, ServiceTypeOK, Decided, serviceVars
<1> QED
  BY <1>1, <1>2, <1>3
     DEF PanelNext, PanelPolls, PanelServed, PanelAnswered, PanelFails, DecisionAnswered,
         GateToggle, GateCancel, GateApproves, GateRejects, GateCountdownEnds, DecisionFails

LEMMA SharedInvariance == SharedSpec => [](PopupInv /\ PanelInv)
<1>1. PopupInv /\ PanelInv /\ [SharedNext]_SharedVars => (PopupInv /\ PanelInv)'
  <2>1. ASSUME PopupInv, PanelInv, PopupNext, UNCHANGED panelVars PROVE PopupInv' /\ PanelInv'
    BY <2>1, PopupStep, PopupKeeps, PanelServiceStep
  <2>2. ASSUME PopupInv, PanelInv, PanelNext, UNCHANGED popupVars PROVE PopupInv' /\ PanelInv'
    BY <2>2, PanelStep, PanelKeeps, PopupServiceStep
  <2>3. ASSUME PopupInv, PanelInv, UNCHANGED SharedVars PROVE PopupInv' /\ PanelInv'
    BY <2>3, PopupStep, PanelStep DEF SharedVars
  <2> QED BY <2>1, <2>2, <2>3 DEF SharedNext
<1> QED BY <1>1, PopupStart, PanelStart, PTL DEF SharedSpec

\* Also when each may decide the scan the other shows, every request is what
\* its client shows (popup.ts: sendApproval; ApprovalGate.tsx).
THEOREM ClientsShow == SharedSpec => PopupAsShown /\ GateAsShown
<1>1. PopupInv /\ PanelInv /\ [SharedNext]_SharedVars
        => /\ [PopupSendsAsShown]_<<serviceVars, popupVars>>
           /\ [GateSendsAsShown]_<<serviceVars, panelVars>>
  <2>1. UNCHANGED popupVars => PopupSendsAsShown
    BY DEF PopupSendsAsShown, Sends, popupVars
  <2>2. UNCHANGED panelVars => GateSendsAsShown
    BY DEF GateSendsAsShown, panelVars, gateVars
  <2> QED BY <2>1, <2>2, PopupSends, GateSends DEF SharedNext, SharedVars
<1>2. /\ PopupAsShown <=> [][PopupSendsAsShown]_<<serviceVars, popupVars>>
      /\ GateAsShown <=> [][GateSendsAsShown]_<<serviceVars, panelVars>>
  BY DEF PopupAsShown, PopupSendsAsShown, GateAsShown, GateSendsAsShown
<1> QED BY <1>1, <1>2, SharedInvariance, PTL DEF SharedSpec

\* Nor does either client leave a scan that waits for its reviewer alone because
\* of what the other one does.
THEOREM SharedClientsMoveOn == SharedSpec => []ClientsOnTheirWay
BY SharedInvariance, PopupWaitsForNothing, GateIsNotSpent, PTL DEF ClientsOnTheirWay

\* The clients as TLC runs them are two clients at one service of which one
\* stands still.
THEOREM ClientsMoveOn == ClientsSpec => []ClientsOnTheirWay
<1>1. ClientsInit => ServiceInit /\ PopupInit /\ PanelInit
  BY DEF ClientsInit
<1>2. [ClientsNext]_clientVars => [SharedNext]_SharedVars
  BY DEF ClientsNext, clientVars, SharedNext, SharedVars
<1> QED BY <1>1, <1>2, SharedClientsMoveOn, PTL DEF ClientsSpec, SharedSpec
=============================================================================
