--------------------------- MODULE ExtensionPopup ---------------------------
(***************************************************************************)
(* The extension's popup (extension/popup.ts): it starts a scan, polls its *)
(* status every three seconds whether or not the last answer is there,     *)
(* opens the approval dialog once per view, and sends the checked tools    *)
(* when the countdown ends.  An answer is applied to the scan in view when *)
(* it arrives, not to the one it was asked about.                          *)
(***************************************************************************)
EXTENDS ApprovalService

CONSTANTS
  MaxRetries,  \* MAX_STATUS_RETRIES
  PollSlots    \* bound: one per status request of the popup on its way

ASSUME MaxRetriesAssumption == MaxRetries \in Nat \ {0}

VARIABLES
  activeScanId,   \* the scan in view
  approvalShown,  \* the dialog has been opened in this view
  scanBtn,        \* Re-scan can be clicked
  retries,        \* statusRetryCount, up to its limit
  starting,       \* POST /scan requests on their way to create_scan
  created,        \* the scans it has started and whose answer is on its way
  misled,         \* history: another scan's answer has reached this view
  polling,        \* pollTimer runs
  polls,          \* status requests on their way
  listed,         \* the tools the checklist has a box for
  checked,        \* the boxes that are checked
  selectedTools,  \* what the code takes to be checked
  dialog,         \* the dialog is visible, and Reject can be clicked
  approveBtn,     \* Approve can be clicked, too
  countdown,      \* autoApproveTimer: the scan whose answer has started it
  approval        \* the POST /approve on its way, if approvalActionPending

viewVars   == <<activeScanId, approvalShown, scanBtn, retries, starting, created, misled>>
timerVars  == <<polling, polls>>
boxes      == <<listed, checked, selectedTools>>
dialogVars == <<boxes, dialog, approveBtn, countdown>>
popupVars  == <<viewVars, timerVars, dialogVars, approval>>

Polls == [scan: Scans, first: BOOLEAN, answer: {Absent} \cup Answers]

Approvals == [scan: Scans, tools: SUBSET Tools, result: {"none", "ok", "refused"}]

ASSUME NoRequestAssumption == Absent \notin Scans /\ Absent \notin Polls /\ Absent \notin Approvals

ViewTypeOK ==
  /\ activeScanId \in Scans \cup {NoScan}
  /\ approvalShown \in BOOLEAN /\ scanBtn \in BOOLEAN /\ misled \in BOOLEAN
  /\ retries \in 0 .. MaxRetries /\ starting \in Nat /\ created \subseteq Scans
  /\ polling \in BOOLEAN /\ polls \in [PollSlots -> {Absent} \cup Polls]

DialogTypeOK ==
  /\ listed \subseteq Tools /\ checked \subseteq Tools /\ selectedTools \subseteq Tools
  /\ dialog \in BOOLEAN /\ approveBtn \in BOOLEAN
  /\ countdown \in {Absent} \cup Scans
  /\ approval \in {Absent} \cup Approvals

PopupTypeOK == ViewTypeOK /\ DialogTypeOK

-----------------------------------------------------------------------------
(* Starting a scan.                                                        *)

\* The popup opens and starts a scan at once.
PopupInit ==
  /\ activeScanId = NoScan /\ approvalShown = FALSE /\ scanBtn = FALSE
  /\ retries = 0 /\ starting = 1 /\ created = {} /\ misled = FALSE
  /\ polling = FALSE /\ polls = [p \in PollSlots |-> Absent]
  /\ listed = {} /\ checked = {} /\ selectedTools = {}
  /\ dialog = FALSE /\ approveBtn = FALSE /\ countdown = Absent
  /\ approval = Absent

\* Mutant: the dialog still counts as shown.
StartScan_KeepsShown ==
  /\ scanBtn /\ scanBtn' = FALSE
  /\ activeScanId' = NoScan /\ UNCHANGED approvalShown
  /\ retries' = 0 /\ starting' = starting + 1 /\ misled' = FALSE
  /\ polling' = FALSE
  /\ selectedTools' = {} /\ dialog' = FALSE /\ approveBtn' = FALSE /\ countdown' = Absent
  /\ UNCHANGED <<serviceVars, created, polls, listed, checked, approval>>

\* startScan, up to its request.  Requests on their way are not called off.
StartScan ==
  /\ scanBtn /\ scanBtn' = FALSE
  /\ activeScanId' = NoScan /\ approvalShown' = FALSE
  /\ retries' = 0 /\ starting' = starting + 1 /\ misled' = FALSE
  /\ polling' = FALSE
  /\ selectedTools' = {} /\ dialog' = FALSE /\ approveBtn' = FALSE /\ countdown' = Absent
  /\ UNCHANGED <<serviceVars, created, polls, listed, checked, approval>>

\* create_scan starts a new scan.
ScanCreated(s) ==
  /\ starting > 0 /\ starting' = starting - 1
  /\ ScanStarts(s)
  /\ created' = created \cup {s}
  /\ UNCHANGED <<activeScanId, approvalShown, scanBtn, retries, misled, timerVars, dialogVars,
                 approval>>

\* Its answer arrives, however far the scan is by then; the popup asks for its
\* status before it sets the timer.
ScanAccepted(s, p) ==
  /\ s \in created /\ created' = created \ {s}
  /\ polls[p] = Absent
  /\ activeScanId' = s
  /\ misled' = (misled \/ activeScanId # NoScan)
  /\ polls' = [polls EXCEPT ![p] = [scan |-> s, first |-> TRUE, answer |-> Absent]]
  /\ UNCHANGED <<serviceVars, approvalShown, scanBtn, retries, starting, polling, dialogVars,
                 approval>>

\* A limit, a scan of the target in flight (409: the popup does not take its
\* id), an error, or no connection, also after the scan was started.
ScanRefused ==
  /\ \/ starting > 0 /\ starting' = starting - 1 /\ UNCHANGED created
     \/ (\E s \in created : created' = created \ {s}) /\ UNCHANGED starting
  /\ scanBtn' = TRUE
  /\ UNCHANGED <<serviceVars, activeScanId, approvalShown, retries, misled, timerVars, dialogVars,
                 approval>>

\* A click beside the popup closes it, with its timers and all it waits for;
\* opened again it starts anew.
PopupReopened ==
  /\ activeScanId' = NoScan /\ approvalShown' = FALSE /\ scanBtn' = FALSE
  /\ retries' = 0 /\ starting' = 1 /\ created' = {} /\ misled' = FALSE
  /\ polling' = FALSE /\ polls' = [p \in PollSlots |-> Absent]
  /\ listed' = {} /\ checked' = {} /\ selectedTools' = {}
  /\ dialog' = FALSE /\ approveBtn' = FALSE /\ countdown' = Absent
  /\ approval' = Absent
  /\ UNCHANGED serviceVars

-----------------------------------------------------------------------------
(* pollScanStatus.                                                         *)

PollTick(p) ==
  /\ polling /\ activeScanId # NoScan /\ polls[p] = Absent
  /\ polls' = [polls EXCEPT ![p] = [scan |-> activeScanId, first |-> FALSE, answer |-> Absent]]
  /\ UNCHANGED <<serviceVars, viewVars, polling, dialogVars, approval>>

PollServed(p) ==
  /\ polls[p] # Absent /\ polls[p].answer = Absent
  /\ \E answer \in {StatusOf(polls[p].scan), Unreadable} :
       polls' = [polls EXCEPT ![p].answer = answer]
  /\ UNCHANGED <<serviceVars, viewVars, polling, dialogVars, approval>>

\* Every listed tool is checked, and the countdown starts.
OpenDialog(answer, scan) ==
  /\ approvalShown' = TRUE
  /\ listed' = answer.list /\ checked' = answer.list /\ selectedTools' = answer.list
  /\ dialog' = TRUE /\ countdown' = scan
  /\ approveBtn' = (answer.list # {} /\ approval = Absent)

\* An answer arrives.  After the first one of a scan the timer is set, even if
\* the scan is complete.
PollAnswered(p) ==
  LET poll == polls[p] IN
  /\ poll # Absent /\ poll.answer # Absent
  /\ polls' = [polls EXCEPT ![p] = Absent]
  /\ retries' = 0
  /\ misled' = (misled \/ poll.scan # activeScanId)
  /\ polling' = (poll.first \/ (polling /\ ~poll.answer.complete))
  /\ \/ /\ poll.answer.awaits /\ ~poll.answer.complete /\ ~approvalShown
        /\ OpenDialog(poll.answer, poll.scan)
        /\ UNCHANGED scanBtn
     \/ /\ poll.answer.complete
        /\ scanBtn' = TRUE
        /\ dialog' = FALSE /\ approveBtn' = FALSE /\ countdown' = Absent
        /\ UNCHANGED <<approvalShown, boxes>>
     \/ /\ ~poll.answer.complete /\ (approvalShown \/ ~poll.answer.awaits)
        /\ UNCHANGED <<approvalShown, scanBtn, dialogVars>>
  /\ UNCHANGED <<serviceVars, activeScanId, starting, created, approval>>

\* The connection or the service fails; at the limit the popup gives up.
PollFails(p) ==
  /\ polls[p] # Absent
  /\ polls' = [polls EXCEPT ![p] = Absent]
  /\ retries' = IF retries = MaxRetries THEN retries ELSE retries + 1
  /\ polling' = (polls[p].first \/ (polling /\ retries' < MaxRetries))
  /\ scanBtn' = (scanBtn \/ retries' = MaxRetries)
  /\ UNCHANGED <<serviceVars, activeScanId, approvalShown, starting, created, misled, dialogVars,
                 approval>>

-----------------------------------------------------------------------------
(* The approval dialog.                                                    *)

\* sendApproval: nothing without a scan in view or while a request is on its
\* way; otherwise the dialog is hidden at once.
SendApproval(tools) ==
  IF activeScanId = NoScan \/ approval # Absent
  THEN UNCHANGED <<dialog, approveBtn, approval>>
  ELSE /\ dialog' = FALSE /\ approveBtn' = FALSE
       /\ approval' = [scan |-> activeScanId, tools |-> tools, result |-> "none"]

\* Mutant: the handler of a box forgets to take the tool out again.
Toggle_OnlyAdds(t) ==
  /\ dialog /\ t \in listed
  /\ checked' = IF t \in checked THEN checked \ {t} ELSE checked \cup {t}
  /\ selectedTools' = selectedTools \cup {t}
  /\ approveBtn' = (selectedTools' # {} /\ approval = Absent)
  /\ UNCHANGED <<serviceVars, viewVars, timerVars, listed, dialog, countdown, approval>>

\* A box is clicked; the countdown goes on.
Toggle(t) ==
  /\ dialog /\ t \in listed
  /\ checked' = IF t \in checked THEN checked \ {t} ELSE checked \cup {t}
  /\ selectedTools' = IF t \in checked THEN selectedTools \ {t} ELSE selectedTools \cup {t}
  /\ approveBtn' = (selectedTools' # {} /\ approval = Absent)
  /\ UNCHANGED <<serviceVars, viewVars, timerVars, listed, dialog, countdown, approval>>

ClickApprove ==
  /\ dialog /\ approveBtn
  /\ countdown' = Absent
  /\ SendApproval(selectedTools)
  /\ UNCHANGED <<serviceVars, viewVars, timerVars, boxes>>

\* The boxes stay checked.
ClickReject ==
  /\ dialog
  /\ countdown' = Absent
  /\ selectedTools' = {}
  /\ SendApproval({})
  /\ UNCHANGED <<serviceVars, viewVars, timerVars, listed, checked>>

CountdownEnds ==
  /\ countdown # Absent /\ countdown' = Absent
  /\ SendApproval(selectedTools)
  /\ UNCHANGED <<serviceVars, viewVars, timerVars, boxes>>

ApprovalServed ==
  /\ approval # Absent /\ approval.result = "none"
  /\ approval' = [approval EXCEPT !.result = IF Accepts(approval.scan) THEN "ok" ELSE "refused"]
  /\ Decide(approval.scan, approval.tools)
  /\ UNCHANGED <<phase, choice, viewVars, timerVars, dialogVars>>

ApprovalAnswered ==
  /\ approval # Absent /\ approval.result = "ok"
  /\ approval' = Absent
  /\ UNCHANGED <<serviceVars, viewVars, timerVars, dialogVars>>

\* A refusal, or no answer: the dialog comes back without a countdown, and
\* with Approve disabled, as approvalActionPending is reset only afterwards.
ApprovalFails ==
  /\ approval # Absent /\ approval' = Absent
  /\ dialog' = TRUE /\ approveBtn' = FALSE
  /\ UNCHANGED <<serviceVars, viewVars, timerVars, boxes, countdown>>

-----------------------------------------------------------------------------

PopupNext ==
  \/ ServiceNext /\ UNCHANGED popupVars
  \/ StartScan \/ ScanRefused \/ PopupReopened
  \/ \E s \in Scans : ScanCreated(s)
  \/ \E p \in PollSlots :
       \/ \E s \in Scans : ScanAccepted(s, p)
       \/ PollTick(p) \/ PollServed(p) \/ PollAnswered(p) \/ PollFails(p)
  \/ \E t \in Tools : Toggle(t)
  \/ ClickApprove \/ ClickReject \/ CountdownEnds
  \/ ApprovalServed \/ ApprovalAnswered \/ ApprovalFails

PopupSpec == ServiceInit /\ PopupInit /\ [][PopupNext]_<<serviceVars, popupVars>>

-----------------------------------------------------------------------------
(* Properties.                                                             *)

Sends == approval = Absent /\ approval' # Absent

\* A request of the popup approves nothing that is not checked in front of the
\* user.  The countdown sends exactly what is checked, and decides the scan the
\* dialog was opened for, unless another scan's answer has reached the view; so
\* silence rejects only what the user has cleared or what was not listed, which
\* happens when the dialog is opened between the plan's checkpoint and the
\* interrupt.
PopupAsShown ==
  [][Sends =>
       /\ approval'.tools \subseteq checked
       /\ CountdownEnds =>
            /\ approval'.tools = checked
            /\ countdown = approval'.scan \/ misled]_<<serviceVars, popupVars>>

\* The popup never sits still in front of a scan that waits for its reviewer.
\* Either a poll will open the dialog, or a countdown or a request is on its
\* way, or the user is asked; unless the connection was lost for so long that
\* the popup has given up and offers a new scan, or another scan's answer has
\* reached the view.
PopupOnItsWay ==
  \A s \in Scans :
    activeScanId = s /\ phase[s] = "paused" /\ decisions[s] = {} =>
      \/ ~approvalShown /\ (polling \/ \E p \in PollSlots : polls[p] # Absent /\ polls[p].first)
      \/ countdown # Absent \/ approval # Absent
      \/ dialog
      \/ scanBtn \/ misled
=============================================================================
