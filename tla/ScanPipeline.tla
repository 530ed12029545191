---------------------------- MODULE ScanPipeline ----------------------------
(***************************************************************************)
(* One scan, from the accepted POST /scan to its final report.             *)
(*                                                                         *)
(* backend/agents/orchestrator.py runs every scan as a LangGraph thread:   *)
(* a graph of nodes whose state is checkpointed in SQLite after each node, *)
(* paused at the human-approval gate and resumed by POST /approve.         *)
(* backend/app/main.py polls the graph and copies its status to the scan's *)
(* row in accounts.db, and at startup fails the rows it takes for orphans. *)
(*                                                                         *)
(* The service is one asyncio process: code between two awaits is one      *)
(* step.  Nothing stops several resumed invocations of the same graph from *)
(* being in flight, so each has a program counter and a private copy of    *)
(* the state, and the last one to commit a checkpoint wins.                *)
(***************************************************************************)
EXTENDS Naturals

CONSTANTS
  Tools,        \* the intrusive tools, _INTRUSIVE_TOOLS: sqlmap and zap
  OtherTools,   \* names a client may send that are not intrusive tools
  Profiles,     \* values of settings.cloud_scan_profile in use
  Approvers,    \* POST /approve requests; each is sent at most once
  Pollers,      \* clients polling the scan's status
  MaxCrashes,   \* bound: how often the process is killed
  MaxFaults     \* bound: how many reads or writes of the stores fail

ASSUME BoundsAssumption == MaxCrashes \in Nat /\ MaxFaults \in Nat
ASSUME RunsAssumption   == {"start", "recovery"} \cap Approvers = {}

VARIABLES
  ckpt,         \* the thread's latest checkpoint: the next node and the state
  interrupted,  \* the latest checkpoint holds the gate's pending interrupt
  run,          \* the invocations of the graph, see Invocation
  approver,     \* where each approve request is
  decision,     \* the plan a checked request has read, then what it approved
  row,          \* scans.status in accounts.db, "none" before the insert
  overdue,      \* startup found scans.updated_at older than the scan timeout
  seen,         \* the status a poll has read and not yet written
  disk,         \* the outcome in the report files
  orphans,      \* outcomes that abandoned reporting threads still write
  service,      \* "up", "down", or "recovering" (before it serves requests)
  crashes, faults,
  granted,      \* history: every tool some accepted request approved
  executed      \* history: every intrusive tool started on the target

vars == <<ckpt, interrupted, run, approver, decision, row, overdue, seen, disk,
          orphans, service, crashes, faults, granted, executed>>

-----------------------------------------------------------------------------
(* The graph's state and its nodes.                                        *)

Run == {"start", "recovery"} \cup Approvers

Node == {"check_scope", "recon", "passive_detection", "plan_active_tests",
         "human_approval_gate", "active_detection", "verification",
         "scoring", "ai_synthesis", "reporting"}

\* Points inside a node after its effect outside the graph: the tools have
\* run, or the report files are written, and the checkpoint is not.
Effect == {"tools_run", "report_written"}

Status == {"pending", "running", "detecting", "awaiting_approval", "rejected",
           "verifying", "scored", "completed", "failed"}

Terminal == {"completed", "failed"}

\* list_stale_active_scans: the statuses a stale row is recovered from.
ActiveStatuses == {"pending", "running", "recon", "detecting", "scoring",
                   "awaiting_approval", "in_progress"}

Outcome == {"none", "finished", "rejected", "failed"}

ErrorCode == {"none", "invalid_scan_target", "scan_timeout", "scan_error",
              "service_restart_interrupted"}

\* The channels of ScanState that control depends on.  human_approved is
\* approved # {} and rejected_tools is planned \ approved throughout, and
\* "finished" is the outcome "clean" or "completed".
ScanState ==
  [status: Status, authorized: BOOLEAN, planned: SUBSET Tools,
   needed: BOOLEAN, approved: SUBSET Tools, ran: SUBSET Tools,
   error: ErrorCode, outcome: Outcome]

InitialState ==
  [status |-> "pending", authorized |-> FALSE, planned |-> {},
   needed |-> FALSE, approved |-> {}, ran |-> {}, error |-> "none",
   outcome |-> "none"]

Checkpoint == [next: Node \cup {"none", "END"}, vals: ScanState]

Phase == {"idle", "queued", "active", "failing", "persisting", "done"}

Invocation == [phase: Phase, node: Node \cup Effect \cup {"END"},
               vals: ScanState, code: ErrorCode]

IdleRun == [phase |-> "idle", node |-> "check_scope",
            vals |-> InitialState, code |-> "none"]

DoneRun == [IdleRun EXCEPT !.phase = "done", !.node = "END"]

-----------------------------------------------------------------------------
(* Decisions of the code, as operators.                                    *)

RouteAfterScope(v) == IF v.authorized THEN "recon" ELSE "reporting"

RouteAfterPlan(v) ==
  IF v.planned # {} THEN "human_approval_gate" ELSE "active_detection"

PlannedTools(profile) == IF profile = "firecrawl" THEN {} ELSE Tools

\* A request's body: approved_tools when the client sent the list (explicit)
\* and the legacy approved flag.
Body == [explicit: BOOLEAN, tools: SUBSET (Tools \cup OtherTools),
         approved: BOOLEAN]

\* Faulty: an explicit empty list counts as absent.
ResolveApprovedTools_EmptyIsAbsent(planned, body) ==
  IF body.explicit /\ body.tools # {} THEN planned \cap body.tools
  ELSE IF body.approved THEN planned ELSE {}

ResolveApprovedTools(planned, body) ==
  IF body.explicit THEN planned \cap body.tools
  ELSE IF body.approved THEN planned ELSE {}

\* Faulty: an empty approved_tools counts as a state without the key.
ActiveToolSelection_EmptyIsLegacy(v) ==
  IF v.approved = {} THEN v.planned ELSE v.planned \cap v.approved

\* _resolve_active_tool_selection: a state without a plan falls back to
\* both tools.
ActiveToolSelection(v) ==
  (IF v.planned = {} THEN Tools ELSE v.planned) \cap v.approved

\* Faulty: a refused approval is forgotten when the status moved on.
ReportOutcome_ByStatusOnly(v) ==
  IF v.status = "rejected" THEN "rejected"
  ELSE IF v.status = "failed" THEN "failed"
  ELSE "finished"

\* run_reporting: what the report says of the scan.
ReportOutcome(v) ==
  IF \/ v.status = "rejected"
     \/ v.needed /\ v.approved = {} /\ v.status # "failed"
  THEN "rejected"
  ELSE IF v.status = "failed" THEN "failed"
  ELSE "finished"

\* Faulty: every scan that has a report is completed.
Reported_AlwaysCompleted(v) ==
  [v EXCEPT !.outcome = ReportOutcome(v), !.status = "completed"]

\* The state after run_reporting.
Reported(v) ==
  [v EXCEPT !.outcome = ReportOutcome(v),
            !.status = IF v.status = "failed" THEN "failed" ELSE "completed"]

Paused == interrupted

Complete == ckpt.next = "END"

\* Faulty: a thread without a next node is complete even without values.
DisplayStatus_EmptyIsComplete ==
  IF Paused THEN "awaiting_approval"
  ELSE IF ckpt.next \in {"none", "END"} /\ ckpt.vals.status # "failed"
       THEN "completed"
  ELSE ckpt.vals.status

\* Faulty: the approval flags decide what is shown, not the interrupt.
DisplayStatus_ByFlags ==
  IF ckpt.vals.needed /\ ckpt.vals.approved = {} THEN "awaiting_approval"
  ELSE ckpt.vals.status

\* get_status_summary and the display status of _sync_persisted_scan.
DisplayStatus ==
  IF Paused THEN "awaiting_approval"
  ELSE IF Complete
       THEN (IF ckpt.vals.status = "failed" THEN "failed" ELSE "completed")
  ELSE IF ckpt.next = "none" THEN "pending"
  ELSE ckpt.vals.status

-----------------------------------------------------------------------------
(* Steps common to the nodes.                                              *)

Up == service = "up"

At(r, node) == Up /\ run[r].phase = "active" /\ run[r].node = node

\* LangGraph ends a node: the invocation's own state becomes the thread's
\* latest checkpoint, whatever checkpoint another invocation wrote meanwhile.
Commit(r, v, next) ==
  /\ run' = [run EXCEPT ![r] = IF next = "END" THEN DoneRun
                               ELSE [@ EXCEPT !.vals = v, !.node = next]]
  /\ ckpt' = [next |-> next, vals |-> v]
  /\ interrupted' = FALSE

outside == <<row, overdue, seen, service, crashes>>
people  == <<approver, decision, granted>>

\* A node that changes nothing but the graph's state.
PureNode(r, node, v, next) ==
  /\ At(r, node)
  /\ Commit(r, v, next)
  /\ UNCHANGED <<outside, people, disk, orphans, faults, executed>>

-----------------------------------------------------------------------------
(* The nodes.                                                              *)

CheckScope(r) ==
  \E ok \in BOOLEAN :
    LET v == IF ok
             THEN [run[r].vals EXCEPT !.authorized = TRUE, !.status = "running"]
             ELSE [run[r].vals EXCEPT !.authorized = FALSE, !.status = "failed",
                                      !.error = "invalid_scan_target"]
    IN  PureNode(r, "check_scope", v, RouteAfterScope(v))

Recon(r) == PureNode(r, "recon", run[r].vals, "passive_detection")

PassiveDetection(r) ==
  PureNode(r, "passive_detection",
           [run[r].vals EXCEPT !.status = "detecting"], "plan_active_tests")

PlanActiveTests(r) ==
  \E profile \in Profiles :
    LET planned == PlannedTools(profile)
        v == [run[r].vals EXCEPT
                !.planned = planned,
                !.needed  = planned # {},
                !.status  = IF planned = {} THEN "running"
                            ELSE "awaiting_approval"]
    IN  PureNode(r, "plan_active_tests", v, RouteAfterPlan(v))

\* Faulty: a decision that approves nothing counts as no decision.
HasDecision_Truthy(r) == r \in Approvers /\ decision[r] # {}

\* The invocation carries a resume payload.
HasDecision(r) == r \in Approvers

\* interrupt() without a resume value: the invocation returns, the thread
\* keeps the interrupt.
GateInterrupts(r) ==
  /\ ~HasDecision(r)
  /\ At(r, "human_approval_gate")
  /\ interrupted' = TRUE
  /\ run' = [run EXCEPT ![r] = DoneRun]
  /\ UNCHANGED <<ckpt, outside, people, disk, orphans, faults, executed>>

\* The gate runs again from its start with the request's payload.
GateResumes(r) ==
  /\ HasDecision(r)
  /\ LET approved == ResolveApprovedTools(run[r].vals.planned,
                       [explicit |-> TRUE, tools |-> decision[r],
                        approved |-> decision[r] # {}])
     IN  PureNode(r, "human_approval_gate",
           [run[r].vals EXCEPT
              !.approved = approved,
              !.status   = IF approved # {} THEN "running" ELSE "rejected"],
           "active_detection")

ActiveDetectionSkips(r) ==
  /\ ActiveToolSelection(run[r].vals) = {}
  /\ PureNode(r, "active_detection",
              [run[r].vals EXCEPT !.status = "detecting"], "verification")

\* The approved tools that are available (ZAP answers its probe, sqlmap has
\* an injectable URL) start on the target.
ActiveToolsRun(r) ==
  /\ At(r, "active_detection")
  /\ ActiveToolSelection(run[r].vals) # {}
  /\ \E started \in SUBSET ActiveToolSelection(run[r].vals) :
        /\ executed' = executed \cup started
        /\ run' = [run EXCEPT ![r].node = "tools_run", ![r].vals.ran = started]
  /\ UNCHANGED <<ckpt, interrupted, outside, people, disk, orphans, faults>>

\* tools_executed: the tools that neither failed nor were found not
\* applicable.
ActiveDetectionEnds(r) ==
  \E ran \in SUBSET run[r].vals.ran :
    PureNode(r, "tools_run",
             [run[r].vals EXCEPT !.status = "detecting", !.ran = ran],
             "verification")

Verification(r) ==
  PureNode(r, "verification",
           [run[r].vals EXCEPT !.status = "verifying"], "scoring")

Scoring(r) ==
  PureNode(r, "scoring", [run[r].vals EXCEPT !.status = "scored"],
           "ai_synthesis")

\* Fails soft: every outcome leaves the status alone.
AiSynthesis(r) == PureNode(r, "ai_synthesis", run[r].vals, "reporting")

ReportWritten(r) ==
  /\ At(r, "reporting")
  /\ disk' = ReportOutcome(run[r].vals)
  /\ run' = [run EXCEPT ![r].node = "report_written"]
  /\ UNCHANGED <<ckpt, interrupted, outside, people, orphans, faults, executed>>

Reporting(r) ==
  PureNode(r, "report_written", Reported(run[r].vals), "END")

RunNode(r) ==
  \/ CheckScope(r)
  \/ Recon(r)
  \/ PassiveDetection(r)
  \/ PlanActiveTests(r)
  \/ GateInterrupts(r)
  \/ GateResumes(r)
  \/ ActiveDetectionSkips(r)
  \/ ActiveToolsRun(r)
  \/ ActiveDetectionEnds(r)
  \/ Verification(r)
  \/ Scoring(r)
  \/ AiSynthesis(r)
  \/ ReportWritten(r)
  \/ Reporting(r)

-----------------------------------------------------------------------------
(* Failure of an invocation: start_scan's and resume_scan's handlers and   *)
(* _finalize_failed_scan, which startup recovery calls too.                *)

\* wait_for gives up.  Reporting is a synchronous node, so it runs in a
\* thread that cancellation does not stop: its report is still to come.
TimesOut(r) ==
  /\ Up /\ run[r].phase = "active"
  /\ run' = [run EXCEPT ![r].phase = "failing", ![r].code = "scan_timeout"]
  /\ \/ UNCHANGED orphans
     \/ /\ run[r].node = "reporting"
        /\ orphans' = orphans \cup {ReportOutcome(run[r].vals)}
  /\ UNCHANGED <<ckpt, interrupted, outside, people, disk, faults, executed>>

\* A node raises; the AI node catches everything it raises.
NodeRaises(r) ==
  /\ Up /\ run[r].phase = "active" /\ run[r].node # "ai_synthesis"
  /\ run' = [run EXCEPT ![r].phase = "failing", ![r].code = "scan_error"]
  /\ UNCHANGED <<ckpt, interrupted, outside, people, disk, orphans, faults,
                 executed>>

Failing(r) ==
  /\ service # "down"
  /\ run[r].phase = "failing"

FailedState(v, code) == Reported([v EXCEPT !.status = "failed", !.error = code])

\* The snapshot is read and, with no await in between, the failed report is
\* written.  A snapshot that cannot be read, or has no values, is replaced by
\* the initial state.
FailedReportWritten(r) ==
  /\ Failing(r)
  /\ \E readable \in BOOLEAN :
       LET v == IF readable /\ ckpt.next # "none" THEN ckpt.vals
                ELSE InitialState
           failed == FailedState(v, run[r].code)
       IN  /\ ~readable => faults < MaxFaults
           /\ faults' = IF readable THEN faults ELSE faults + 1
           /\ disk' = failed.outcome
           /\ run' = [run EXCEPT ![r].phase = "persisting", ![r].vals = failed]
  /\ UNCHANGED <<ckpt, interrupted, outside, people, orphans, executed>>

\* Faulty: the update is not attributed to the last node.
FailedStatePersisted_NotLast(r) ==
  /\ service # "down" /\ run[r].phase = "persisting"
  /\ ckpt' = [ckpt EXCEPT !.vals = run[r].vals]
  /\ interrupted' = FALSE
  /\ run' = [run EXCEPT ![r] = DoneRun]
  /\ UNCHANGED <<outside, people, disk, orphans, faults, executed>>

\* aupdate_state(as_node="reporting"): the thread has no next node.
FailedStatePersisted(r) ==
  /\ service # "down" /\ run[r].phase = "persisting"
  /\ Commit(r, run[r].vals, "END")
  /\ UNCHANGED <<outside, people, disk, orphans, faults, executed>>

\* aupdate_state raises and the error is only logged.
FailedStateLost(r) ==
  /\ service # "down" /\ run[r].phase = "persisting"
  /\ faults < MaxFaults /\ faults' = faults + 1
  /\ run' = [run EXCEPT ![r] = DoneRun]
  /\ UNCHANGED <<ckpt, interrupted, outside, people, disk, orphans, executed>>

\* run_reporting raises inside the handler.  The invocation's task ends with
\* the exception; during startup the exception stops the service.
FailedReportRaises(r) ==
  /\ Failing(r)
  /\ faults < MaxFaults /\ faults' = faults + 1
  /\ run' = [run EXCEPT ![r] = IF service = "recovering" THEN IdleRun ELSE DoneRun]
  /\ service' = IF service = "recovering" THEN "down" ELSE service
  /\ UNCHANGED <<ckpt, interrupted, people, row, overdue, seen, crashes, disk,
                 orphans, executed>>

RunFails(r) ==
  \/ TimesOut(r)
  \/ NodeRaises(r)
  \/ FailedReportWritten(r)
  \/ FailedStatePersisted(r)
  \/ FailedStateLost(r)
  \/ FailedReportRaises(r)

\* The thread a timeout abandoned reaches the report files.
OrphanReportWritten ==
  /\ Up
  /\ \E o \in orphans : disk' = o /\ orphans' = orphans \ {o}
  /\ UNCHANGED <<ckpt, interrupted, run, outside, people, faults, executed>>

-----------------------------------------------------------------------------
(* Starting a scan and answering its approval request.                     *)

\* create_scan, once admitted: the row is inserted and the start task is
\* scheduled with no await in between.
Submit ==
  /\ Up /\ row = "none"
  /\ row' = "pending"
  /\ run' = [run EXCEPT !["start"].phase = "queued"]
  /\ UNCHANGED <<ckpt, interrupted, people, overdue, seen, service, crashes, disk,
                 orphans, faults, executed>>

\* The start task runs: ainvoke(initial) checkpoints its input.
BeginStart ==
  /\ Up /\ run["start"].phase = "queued"
  /\ run' = [run EXCEPT !["start"] = [IdleRun EXCEPT !.phase = "active"]]
  /\ ckpt' = [next |-> "check_scope", vals |-> InitialState]
  /\ interrupted' = FALSE
  /\ UNCHANGED <<outside, people, disk, orphans, faults, executed>>

\* approve_scan up to its await: the request goes on only when the summary
\* shows the gate's interrupt.
ApproveRead(a) ==
  /\ Up /\ approver[a] = "idle" /\ row # "none"
  /\ IF ~Complete /\ Paused
     THEN /\ approver' = [approver EXCEPT ![a] = "checked"]
          /\ decision' = [decision EXCEPT ![a] = ckpt.vals.planned]
     ELSE /\ approver' = [approver EXCEPT ![a] = "refused"]
          /\ UNCHANGED decision
  /\ UNCHANGED <<ckpt, interrupted, run, outside, granted, disk, orphans,
                 faults, executed>>

\* The rest of approve_scan: nothing is read again.
ApproveDecide(a) ==
  /\ Up /\ approver[a] = "checked"
  /\ \E body \in Body :
       LET planned == decision[a]
           tools   == ResolveApprovedTools(planned, body)
       IN  IF body.explicit /\ ~(body.tools \subseteq planned)
           THEN /\ approver' = [approver EXCEPT ![a] = "refused"]
                /\ decision' = [decision EXCEPT ![a] = {}]
                /\ UNCHANGED <<granted, run>>
           ELSE /\ approver' = [approver EXCEPT ![a] = "accepted"]
                /\ decision' = [decision EXCEPT ![a] = tools]
                /\ granted' = granted \cup tools
                /\ run' = [run EXCEPT ![a].phase = "queued"]
  /\ UNCHANGED <<ckpt, interrupted, outside, disk, orphans, faults, executed>>

\* ainvoke(Command(resume)) continues from the latest checkpoint, wherever
\* that is by now; a finished thread has nothing to continue.
ResumeBegin(a) ==
  /\ Up /\ run[a].phase = "queued"
  /\ run' = [run EXCEPT
               ![a] = IF Complete THEN DoneRun
                      ELSE [@ EXCEPT !.phase = "active", !.node = ckpt.next,
                                     !.vals = ckpt.vals]]
  /\ UNCHANGED <<ckpt, interrupted, outside, people, disk, orphans, faults,
                 executed>>

-----------------------------------------------------------------------------
(* Polls of the status.                                                    *)

\* _sync_persisted_scan up to its second await.  get_status_summary answers
\* "pending" when it cannot read the snapshot.
PollRead(p) ==
  /\ Up /\ row # "none" /\ seen[p] = "none"
  /\ \E readable \in BOOLEAN :
       /\ ~readable => faults < MaxFaults
       /\ faults' = IF readable THEN faults ELSE faults + 1
       /\ seen' = [seen EXCEPT ![p] = IF readable THEN DisplayStatus ELSE "pending"]
  /\ UNCHANGED <<ckpt, interrupted, run, people, row, overdue, service, crashes,
                 disk, orphans, executed>>

PollWrite(p) ==
  /\ Up /\ seen[p] # "none"
  /\ row' = seen[p]
  /\ seen' = [seen EXCEPT ![p] = "none"]
  /\ UNCHANGED <<ckpt, interrupted, run, people, overdue, service, crashes, disk,
                 orphans, faults, executed>>

-----------------------------------------------------------------------------
(* Crash and restart.                                                      *)

\* Every task, thread and open request of the process is gone.  A startup
\* that is killed leaves the row as old as it found it.
Crash ==
  /\ service # "down" /\ crashes < MaxCrashes
  /\ service' = "down" /\ crashes' = crashes + 1
  /\ overdue' = (overdue /\ service = "recovering")
  /\ run' = [r \in Run |-> IdleRun]
  /\ approver' = [a \in Approvers |->
                    IF approver[a] = "idle" THEN "idle" ELSE "closed"]
  /\ decision' = [a \in Approvers |-> {}]
  /\ seen' = [p \in Pollers |-> "none"]
  /\ orphans' = {}
  /\ UNCHANGED <<ckpt, interrupted, granted, row, disk, faults, executed>>

Recoverable == row \in ActiveStatuses

\* lifespan: recover_stale_scans runs before the first request is served.
\* However long ago the row was written, the service may have been down for
\* longer or for less than the scan timeout.
Restart ==
  /\ service = "down"
  /\ \E old \in BOOLEAN :
       /\ overdue => old
       /\ overdue' = old
       /\ IF old /\ Recoverable
          THEN /\ service' = "recovering"
               /\ run' = [run EXCEPT !["recovery"].phase = "failing",
                            !["recovery"].code = "service_restart_interrupted"]
          ELSE /\ service' = "up"
               /\ UNCHANGED run
  /\ UNCHANGED <<ckpt, interrupted, people, row, seen, crashes, disk, orphans,
                 faults, executed>>

\* update_scan_record after _finalize_failed_scan, and the service is ready.
RecoverRow ==
  /\ service = "recovering" /\ run["recovery"].phase = "done"
  /\ row' = "failed"
  /\ service' = "up"
  /\ run' = [run EXCEPT !["recovery"] = IdleRun]
  /\ UNCHANGED <<ckpt, interrupted, people, overdue, seen, crashes, disk,
                 orphans, faults, executed>>

-----------------------------------------------------------------------------
(* The specification.                                                      *)

Init ==
  /\ ckpt = [next |-> "none", vals |-> InitialState]
  /\ interrupted = FALSE
  /\ run = [r \in Run |-> IdleRun]
  /\ approver = [a \in Approvers |-> "idle"]
  /\ decision = [a \in Approvers |-> {}]
  /\ row = "none" /\ overdue = FALSE
  /\ seen = [p \in Pollers |-> "none"]
  /\ disk = "none" /\ orphans = {}
  /\ service = "up"
  /\ crashes = 0 /\ faults = 0
  /\ granted = {} /\ executed = {}

Next ==
  \/ \E r \in Run : RunNode(r) \/ RunFails(r)
  \/ OrphanReportWritten
  \/ Submit \/ BeginStart
  \/ \E a \in Approvers : ApproveRead(a) \/ ApproveDecide(a) \/ ResumeBegin(a)
  \/ \E p \in Pollers : PollRead(p) \/ PollWrite(p)
  \/ Crash \/ Restart \/ RecoverRow

\* The event loop runs every task that is ready, and wait_for bounds a node
\* that would not end.  Requests of clients are not fair.
Fairness ==
  /\ \A r \in Run : WF_vars(RunNode(r) \/ RunFails(r))
  /\ WF_vars(BeginStart)
  /\ \A a \in Approvers : WF_vars(ResumeBegin(a)) /\ WF_vars(ApproveDecide(a))
  /\ WF_vars(Restart) /\ WF_vars(RecoverRow)

\* The browser extension polls a scan until its status is terminal.
FairPolls == \A p \in Pollers : WF_vars(PollRead(p)) /\ WF_vars(PollWrite(p))

SafetySpec == Init /\ [][Next]_vars

Spec == SafetySpec /\ Fairness /\ FairPolls

-----------------------------------------------------------------------------
(* Properties.                                                             *)

\* Every variable stays in its type; in particular the row only ever holds a
\* status the API and the dashboard know.
TypeOK ==
  /\ ckpt \in Checkpoint
  /\ interrupted \in BOOLEAN
  /\ run \in [Run -> Invocation]
  /\ approver \in [Approvers -> {"idle", "checked", "accepted", "refused", "closed"}]
  /\ decision \in [Approvers -> SUBSET Tools]
  /\ row \in Status \cup {"none"} /\ overdue \in BOOLEAN
  /\ seen \in [Pollers -> Status \cup {"none"}]
  /\ disk \in Outcome /\ orphans \in SUBSET Outcome
  /\ service \in {"up", "down", "recovering"}
  /\ crashes \in 0..MaxCrashes /\ faults \in 0..MaxFaults
  /\ granted \in SUBSET Tools /\ executed \in SUBSET Tools

\* No intrusive tool ever touches the target unless a reviewer approved it:
\* not after a rejection, a late or duplicate approval, a crash, a failed
\* read or a resume from a checkpoint that is not the gate's.
NoUngrantedTool == executed \subseteq granted

\* A scan whose thread is complete has an outcome and report files, and the
\* status, the outcome and the error agree about whether it failed.
CompleteHasReport ==
  Complete =>
    /\ ckpt.vals.status \in Terminal
    /\ ckpt.vals.outcome # "none"
    /\ disk # "none"
    /\ ckpt.vals.status = "failed" <=> ckpt.vals.outcome = "failed"
    /\ ckpt.vals.status = "failed" <=> ckpt.vals.error # "none"

\* The outcome tells what happened: a scan is reported as finished only if
\* the reviewer approved something (or there was nothing to approve), and as
\* rejected only if no intrusive tool is reported to have run.
TruthfulOutcome ==
  Complete =>
    /\ (ckpt.vals.outcome = "finished" /\ ckpt.vals.planned # {})
          => ckpt.vals.approved # {}
    /\ ckpt.vals.outcome = "rejected" => ckpt.vals.ran = {}

\* The dashboard shows a scan as completed only when its thread is complete
\* and there is a report to download, however polls interleave with the
\* graph.  It holds while one request is accepted.
CompletedRowHasReport == row = "completed" => Complete /\ disk # "none"

\* The final state's approved_tools covers every intrusive tool that ran
\* (agents/state.py: "approved_tools is the subset of planned_active_tests
\* the reviewer allowed to run").  It holds while one request is accepted.
FinalApprovalCoversExecuted == Complete => executed \subseteq ckpt.vals.approved

\* tests/test_orchestrator.py: "Rejected scans still keep passive findings but
\* skip active tools."  A scan reported as rejected has used no tool.
RejectedScanSkipsTools ==
  Complete /\ ckpt.vals.outcome = "rejected" => executed = {}

\* A submitted scan reaches its report or waits for its reviewer.
SubmittedScanSettles == row # "none" ~> (Complete \/ Paused)

\* An accepted approval or rejection ends in a report.
AcceptedScanCompletes ==
  \A a \in Approvers : approver[a] = "accepted" ~> Complete

\* Once the thread is complete the row becomes terminal and stays so: a poll
\* that read an older status may write it back, but not for good.
RowSettles == Complete ~> [](row \in Terminal)

\* The docstring of recover_stale_scans: "Resolve orphaned in-progress scan
\* rows left by a service restart."  After startup no row is left that is
\* overdue, not terminal, and has neither a task nor a pending approval.
OrphansResolvedAtStartup ==
  [][service = "down" /\ service' = "up"
       => ~(/\ row \notin Terminal \cup {"none"} /\ overdue'
            /\ ~Complete /\ ~Paused)]_vars

\* tests/test_orchestrator.py: "A paused approval gate remains visible and
\* resumable after restart."  Startup does not take a pending approval away.
PausedSurvivesRestart ==
  [][Paused /\ service # "up" => interrupted']_vars
=============================================================================
