-------------------------- MODULE ApprovalService --------------------------
(***************************************************************************)
(* The service as its approval clients see it: the status of a scan        *)
(* (SecurityScanOrchestrator.get_status_summary) and POST /approve, with   *)
(* everything else of the pipeline reduced to the phases the two tell      *)
(* apart.  ScanPipeline has the pipeline itself.                           *)
(***************************************************************************)
EXTENDS Naturals, FiniteSets

CONSTANTS
  Scans,   \* scan ids
  Tools,   \* _INTRUSIVE_TOOLS, which every scan plans
  NoScan,  \* the empty scan id
  Absent   \* no request, no answer

ASSUME ScansAssumption == NoScan \notin Scans
ASSUME AbsentAssumption == Absent \notin [awaits: BOOLEAN, list: SUBSET Tools, complete: BOOLEAN]

VARIABLES
  phase,      \* how far each scan is
  decisions,  \* the approvals accepted for it that no checkpoint shows yet
  choice      \* the tools its gate has let through

serviceVars == <<phase, decisions, choice>>

Phases == {"unknown", "running", "planned", "paused", "resumed", "complete"}

ServiceTypeOK ==
  /\ phase \in [Scans -> Phases]
  /\ decisions \in [Scans -> SUBSET (SUBSET Tools)]
  /\ choice \in [Scans -> SUBSET Tools]

ServiceInit ==
  /\ phase = [s \in Scans |-> "unknown"]
  /\ decisions = [s \in Scans |-> {}]
  /\ choice = [s \in Scans |-> {}]

-----------------------------------------------------------------------------
(* What the two endpoints answer.                                          *)

Answers == [awaits: BOOLEAN, list: SUBSET Tools, complete: BOOLEAN]

\* A client's `awaitingApproval`: the interrupt is pending, or the plan asks
\* for an approval that was not given.  The plan's checkpoint comes before the
\* interrupt, and only the interrupt lists the tools.
StatusOf(s) ==
  [awaits   |-> \/ phase[s] \in {"planned", "paused"}
                \/ phase[s] = "resumed" /\ choice[s] = {},
   list     |-> IF phase[s] = "paused" THEN Tools ELSE {},
   complete |-> phase[s] = "complete"]

\* The summary when the snapshot cannot be read: pending, nothing needed.
Unreadable == [awaits |-> FALSE, list |-> {}, complete |-> FALSE]

\* approve_scan accepts as long as the interrupt is pending: until a resumed
\* invocation has committed the gate, also a second time.
Accepts(s) == phase[s] = "paused"

Decide(s, tools) ==
  decisions' = IF Accepts(s) THEN [decisions EXCEPT ![s] = @ \cup {tools}] ELSE decisions

-----------------------------------------------------------------------------
(* The pipeline and other clients.                                         *)

\* create_scan has scheduled the scan.
ScanStarts(s) ==
  /\ phase[s] = "unknown"
  /\ phase' = [phase EXCEPT ![s] = "running"]
  /\ UNCHANGED <<decisions, choice>>

\* start_scan and resume_scan up to the next thing a client can see.
PlanCommitted(s) ==
  /\ phase[s] = "running"
  /\ phase' = [phase EXCEPT ![s] = "planned"]
  /\ UNCHANGED <<decisions, choice>>

GateInterrupts(s) ==
  /\ phase[s] = "planned"
  /\ phase' = [phase EXCEPT ![s] = "paused"]
  /\ UNCHANGED <<decisions, choice>>

\* A resumed invocation commits the gate with the decision it was given.  What
\* a second one makes of the scan is ScanPipeline's.
GateResumes(s) ==
  /\ phase[s] = "paused"
  /\ \E tools \in decisions[s] : choice' = [choice EXCEPT ![s] = tools]
  /\ phase' = [phase EXCEPT ![s] = "resumed"]
  /\ decisions' = [decisions EXCEPT ![s] = {}]

\* The report is written, or the scan fails: at any node, and from the gate
\* when startup recovery ends it.
ScanEnds(s) ==
  /\ phase[s] \notin {"unknown", "complete"}
  /\ phase' = [phase EXCEPT ![s] = "complete"]
  /\ decisions' = [decisions EXCEPT ![s] = {}]
  /\ choice' = [choice EXCEPT ![s] = {}]

\* The scan is decided from another window.
DecidedElsewhere(s) ==
  /\ Accepts(s)
  /\ \E tools \in SUBSET Tools : Decide(s, tools)
  /\ UNCHANGED <<phase, choice>>

ServiceNext ==
  \E s \in Scans :
    PlanCommitted(s) \/ GateInterrupts(s) \/ GateResumes(s) \/ ScanEnds(s)
      \/ DecidedElsewhere(s)
=============================================================================
