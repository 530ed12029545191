------------------------ MODULE ScanPipeline_proofs ------------------------
(***************************************************************************)
(* The safety properties of ScanPipeline, for any tools, requests, polls,  *)
(* crashes and failed store accesses.  The inductive invariant says what   *)
(* is known of the graph's state at each node (StateAt), for every         *)
(* invocation and for the checkpoint alike: an invocation may continue     *)
(* from, and overwrite, a checkpoint that another one wrote.               *)
(*                                                                         *)
(* Three more results hold while the approvals of a scan do not overlap:   *)
(* its completed row has its report, its last approval covers what ran,    *)
(* and, without restarts, it goes through the phases of ScanLifecycle.     *)
(* They rest on Sole: only one invocation is at work at a time, and it     *)
(* goes on from the latest checkpoint.                                     *)
(***************************************************************************)
EXTENDS MCScanLifecycle, TLAPS

BeforeTools == {"none", "check_scope", "recon", "passive_detection",
                "plan_active_tests", "human_approval_gate", "active_detection"}

AtReport == {"reporting", "report_written", "END"}

\* What is known of a graph state v whose next node, or point, is next.
StateAt(next, v) ==
  /\ v.approved \subseteq granted
  /\ v.ran \subseteq v.approved
  /\ next \in BeforeTools => v.ran = {}
  /\ v.needed <=> v.planned # {}
  /\ v.status = "rejected" => v.approved = {}
  /\ v.status = "failed" <=> v.error # "none"
  /\ next \notin AtReport => v.status # "failed"
  /\ next = "END" =>
       /\ v.status \in Terminal
       /\ v.outcome # "none"
       /\ v.status = "failed" <=> v.outcome = "failed"
       /\ v.outcome = "finished" /\ v.planned # {} => v.approved # {}
       /\ v.outcome = "rejected" => v.ran = {}

RunOK(r) ==
  /\ run[r].phase = "active" =>
       /\ StateAt(run[r].node, run[r].vals)
       /\ run[r].node # "END"
       /\ ckpt.next # "none"
  /\ run[r].phase = "persisting" => StateAt("END", run[r].vals)
  /\ run[r].phase = "failing" => run[r].code # "none"

ReportOnDisk(r) ==
  (\/ run[r].phase = "active" /\ run[r].node = "report_written"
   \/ run[r].phase = "persisting") => disk # "none"

Accepted(a) ==
  /\ run[a].phase # "idle" => approver[a] = "accepted"
  /\ approver[a] = "accepted" => decision[a] \subseteq granted
  /\ approver[a] \in {"checked", "accepted"} => ckpt.next # "none"

\* The inductive invariant.
Inv ==
  /\ TypeOK
  /\ executed \subseteq granted
  /\ StateAt(ckpt.next, ckpt.vals)
  /\ \A r \in Run : RunOK(r)
  /\ \A r \in Run : ReportOnDisk(r)
  /\ Complete => disk # "none"
  /\ Paused => ckpt.next # "none"
  /\ "none" \notin orphans
  /\ \A a \in Approvers : Accepted(a)

USE BoundsAssumption, RunsAssumption

\* What the faultless helper operators return.
LEMMA InitialStateAt ==
  /\ InitialState \in ScanState
  /\ IdleRun \in Invocation /\ DoneRun \in Invocation
  /\ \A next \in BeforeTools : StateAt(next, InitialState)
BY DEF InitialState, ScanState, IdleRun, DoneRun, Invocation, Phase, Node, Effect,
       Status, Outcome, ErrorCode, StateAt, BeforeTools, AtReport

LEMMA ActiveToolSelectionBound ==
  ASSUME NEW v \in ScanState
  PROVE  ActiveToolSelection(v) \subseteq v.approved
BY DEF ActiveToolSelection

LEMMA ResolveApprovedToolsBound ==
  ASSUME NEW planned \in SUBSET Tools, NEW body \in Body
  PROVE  /\ ResolveApprovedTools(planned, body) \subseteq planned
         /\ body.explicit => ResolveApprovedTools(planned, body) \subseteq body.tools
BY DEF ResolveApprovedTools, Body

\* run_reporting turns a sound state before the report into a sound final one.
LEMMA ReportedStateAt ==
  ASSUME NEW v \in ScanState, NEW next, StateAt(next, v)
  PROVE  /\ Reported(v) \in ScanState
         /\ StateAt("END", Reported(v))
         /\ ReportOutcome(v) \in Outcome \ {"none"}
         /\ Reported(v).outcome = ReportOutcome(v)
BY DEF Reported, ReportOutcome, StateAt, ScanState, Status, Outcome, ErrorCode,
       Terminal, BeforeTools, AtReport

\* _finalize_failed_scan's state is sound whatever it started from.
LEMMA FailedStateAt ==
  ASSUME NEW v \in ScanState, NEW next, StateAt(next, v),
         NEW code \in ErrorCode \ {"none"}
  PROVE  /\ FailedState(v, code) \in ScanState
         /\ StateAt("END", FailedState(v, code))
         /\ FailedState(v, code).outcome = "failed"
<1> DEFINE w == [v EXCEPT !.status = "failed", !.error = code]
<1>1. w \in ScanState
  BY DEF ScanState, Status
<1>2. StateAt("reporting", w)
  BY DEF StateAt, ScanState, BeforeTools, AtReport
<1>3. ReportOutcome(w) = "failed"
  BY DEF ReportOutcome, ScanState
<1>4. FailedState(v, code) = Reported(w)
  BY DEF FailedState
<1> HIDE DEF w
<1> QED BY <1>1, <1>2, <1>3, <1>4, ReportedStateAt

\* Committing a sound state preserves the invariant.
LEMMA CommitInv ==
  ASSUME Inv, NEW r \in Run, NEW v \in ScanState, NEW next \in Node \cup {"END"},
         Commit(r, v, next), StateAt(next, v),
         run[r].phase # "idle", next # "END" => run[r].phase = "active",
         next = "END" => disk # "none",
         next # "report_written",
         UNCHANGED <<outside, people, disk, orphans, faults, executed>>
  PROVE  Inv'
<1> USE DEF Inv
<1>1. run' \in [Run -> Invocation]
  BY InitialStateAt DEF Commit, TypeOK, Invocation
<1>2. TypeOK'
  BY <1>1 DEF Commit, TypeOK, Checkpoint, outside, people
<1>3. \A w, n : StateAt(n, w)' <=> StateAt(n, w)
  BY DEF StateAt, people
<1>4. ckpt'.next # "none" /\ StateAt(ckpt.next, ckpt.vals)'
  BY DEF Commit, Node, StateAt, people
<1>5. \A q \in Run : RunOK(q)' /\ ReportOnDisk(q)'
  <2> TAKE q \in Run
  <2>1. CASE q = r /\ next = "END"
    <3>1. run'[q].phase = "done"
      BY <2>1 DEF Commit, TypeOK, DoneRun, IdleRun
    <3> QED BY <3>1 DEF RunOK, ReportOnDisk
  <2>2. CASE q = r /\ next # "END"
    <3>1. /\ run'[q].phase = "active" /\ run'[q].node = next /\ run'[q].vals = v
      BY <2>2 DEF Commit, TypeOK, Invocation
    <3> QED BY <3>1, <1>3, <1>4, <2>2 DEF RunOK, ReportOnDisk
  <2>3. CASE q # r
    <3>1. run'[q] = run[q]
      BY <2>3 DEF Commit, TypeOK
    <3> QED BY <3>1, <1>3, <1>4 DEF RunOK, ReportOnDisk
  <2> QED BY <2>1, <2>2, <2>3
<1>6. \A a \in Approvers : Accepted(a)'
  <2> TAKE a \in Approvers
  <2>1. run'[a].phase # "idle" => run[a].phase # "idle"
    BY DEF Commit, TypeOK, Invocation, DoneRun, IdleRun, Run
  <2> QED BY <2>1, <1>4 DEF Accepted, people
<1>7. executed' \subseteq granted' /\ ("none" \notin orphans)'
  BY DEF people
<1>8. (Complete => disk # "none")' /\ (Paused => ckpt.next # "none")'
  BY DEF Commit, Complete, Paused
<1> QED BY <1>2, <1>4, <1>5, <1>6, <1>7, <1>8

\* A node that changes only the graph's state commits a sound one.
LEMMA PureNodeInv ==
  ASSUME Inv, NEW r \in Run, NEW node \in Node \cup Effect, NEW v,
         NEW next \in Node \cup {"END"},
         PureNode(r, node, v, next),
         v \in ScanState, StateAt(next, v),
         next = "END" => node = "report_written"
  PROVE  Inv'
<1>1. run[r].phase = "active" /\ run[r].node = node
  BY DEF PureNode, At
<1>2. next = "END" => disk # "none"
  BY <1>1 DEF Inv, ReportOnDisk
<1>3. next # "report_written"
  BY DEF Node
<1> QED BY <1>1, <1>2, <1>3, CommitInv DEF PureNode

LEMMA PureNodesInv ==
  ASSUME Inv, NEW r \in Run,
         \/ CheckScope(r) \/ Recon(r) \/ PassiveDetection(r) \/ PlanActiveTests(r)
         \/ GateResumes(r) \/ ActiveDetectionSkips(r) \/ ActiveDetectionEnds(r)
         \/ Verification(r) \/ Scoring(r) \/ AiSynthesis(r) \/ Reporting(r)
  PROVE  Inv'
<1> DEFINE w == run[r].vals
<1>1. w \in ScanState /\ run[r].phase \in Phase
  BY DEF Inv, TypeOK, Invocation
<1>2. run[r].phase = "active" => StateAt(run[r].node, w)
  BY DEF Inv, RunOK
<1> USE DEF PureNode, At
<1>a. CASE CheckScope(r)
  <2>1. PICK ok \in BOOLEAN :
          LET v == IF ok
                   THEN [w EXCEPT !.authorized = TRUE, !.status = "running"]
                   ELSE [w EXCEPT !.authorized = FALSE, !.status = "failed",
                                  !.error = "invalid_scan_target"]
          IN  PureNode(r, "check_scope", v, RouteAfterScope(v))
    BY <1>a DEF CheckScope
  <2> DEFINE v == IF ok
                  THEN [w EXCEPT !.authorized = TRUE, !.status = "running"]
                  ELSE [w EXCEPT !.authorized = FALSE, !.status = "failed",
                                 !.error = "invalid_scan_target"]
  <2>2. StateAt("check_scope", w)
    BY <1>2, <2>1
  <2>3. v \in ScanState
    BY <1>1 DEF ScanState, Status, ErrorCode
  <2>4. RouteAfterScope(v) = IF ok THEN "recon" ELSE "reporting"
    BY <1>1 DEF RouteAfterScope, ScanState
  <2>5. StateAt(RouteAfterScope(v), v)
    BY <1>1, <2>2, <2>4 DEF StateAt, ScanState, BeforeTools, AtReport
  <2> QED BY <2>1, <2>3, <2>4, <2>5, PureNodeInv DEF Node
<1>b. CASE Recon(r)
  <2>1. StateAt("recon", w)
    BY <1>2, <1>b DEF Recon
  <2>2. StateAt("passive_detection", w)
    BY <2>1 DEF StateAt, BeforeTools, AtReport
  <2> QED BY <1>1, <1>b, <2>2, PureNodeInv DEF Recon, Node
<1>c. CASE PassiveDetection(r)
  <2> DEFINE v == [w EXCEPT !.status = "detecting"]
  <2>1. StateAt("passive_detection", w)
    BY <1>2, <1>c DEF PassiveDetection
  <2>2. v \in ScanState
    BY <1>1 DEF ScanState, Status
  <2>3. StateAt("plan_active_tests", v)
    BY <1>1, <2>1 DEF StateAt, ScanState, BeforeTools, AtReport
  <2> QED BY <1>c, <2>2, <2>3, PureNodeInv DEF PassiveDetection, Node
<1>d. CASE PlanActiveTests(r)
  <2>1. PICK profile \in Profiles :
          PureNode(r, "plan_active_tests",
            [w EXCEPT !.planned = PlannedTools(profile),
                      !.needed  = PlannedTools(profile) # {},
                      !.status  = IF PlannedTools(profile) = {} THEN "running"
                                  ELSE "awaiting_approval"],
            RouteAfterPlan(
            [w EXCEPT !.planned = PlannedTools(profile),
                      !.needed  = PlannedTools(profile) # {},
                      !.status  = IF PlannedTools(profile) = {} THEN "running"
                                  ELSE "awaiting_approval"]))
    BY <1>d DEF PlanActiveTests
  <2> DEFINE planned == PlannedTools(profile)
             v == [w EXCEPT !.planned = planned,
                            !.needed  = planned # {},
                            !.status  = IF planned = {} THEN "running"
                                        ELSE "awaiting_approval"]
  <2>2. StateAt("plan_active_tests", w)
    BY <1>2, <2>1
  <2>3. planned \subseteq Tools
    BY DEF PlannedTools
  <2> HIDE DEF planned
  <2>4. v \in ScanState
    BY <1>1, <2>3 DEF ScanState, Status
  <2>5. RouteAfterPlan(v) \in {"human_approval_gate", "active_detection"}
    BY DEF RouteAfterPlan
  <2>6. StateAt(RouteAfterPlan(v), v)
    BY <1>1, <2>2, <2>3, <2>5 DEF StateAt, ScanState, BeforeTools, AtReport
  <2>7. PureNode(r, "plan_active_tests", v, RouteAfterPlan(v))
    BY <2>1 DEF planned
  <2> HIDE DEF v
  <2> QED BY <2>4, <2>5, <2>6, <2>7, PureNodeInv DEF Node
<1>e. CASE GateResumes(r)
  <2> DEFINE body == [explicit |-> TRUE, tools |-> decision[r],
                      approved |-> decision[r] # {}]
             approved == ResolveApprovedTools(w.planned, body)
             v == [w EXCEPT !.approved = approved,
                            !.status = IF approved # {} THEN "running"
                                       ELSE "rejected"]
  <2>1. StateAt("human_approval_gate", w)
    BY <1>2, <1>e DEF GateResumes
  <2>2. r \in Approvers /\ run[r].phase = "active"
    BY <1>e DEF GateResumes, HasDecision
  <2>3. decision[r] \subseteq granted /\ decision[r] \subseteq Tools
    BY <2>2 DEF Inv, Accepted, TypeOK
  <2>4. approved \subseteq w.planned /\ approved \subseteq decision[r]
    BY DEF ResolveApprovedTools
  <2>5. PureNode(r, "human_approval_gate", v, "active_detection")
    BY <1>e DEF GateResumes
  <2> HIDE DEF approved
  <2>6. v \in ScanState
    BY <1>1, <2>3, <2>4 DEF ScanState, Status
  <2>7. StateAt("active_detection", v)
    BY <1>1, <2>1, <2>3, <2>4 DEF StateAt, ScanState, BeforeTools, AtReport
  <2> HIDE DEF v
  <2> QED BY <2>5, <2>6, <2>7, PureNodeInv DEF Node
<1>f. CASE ActiveDetectionSkips(r)
  <2> DEFINE v == [w EXCEPT !.status = "detecting"]
  <2>1. StateAt("active_detection", w)
    BY <1>2, <1>f DEF ActiveDetectionSkips
  <2>2. v \in ScanState
    BY <1>1 DEF ScanState, Status
  <2>3. StateAt("verification", v)
    BY <1>1, <2>1 DEF StateAt, ScanState, BeforeTools, AtReport
  <2> QED BY <1>f, <2>2, <2>3, PureNodeInv DEF ActiveDetectionSkips, Node
<1>g. CASE ActiveDetectionEnds(r)
  <2>1. PICK ran \in SUBSET w.ran :
          PureNode(r, "tools_run", [w EXCEPT !.status = "detecting", !.ran = ran],
                   "verification")
    BY <1>g DEF ActiveDetectionEnds
  <2> DEFINE v == [w EXCEPT !.status = "detecting", !.ran = ran]
  <2>2. StateAt("tools_run", w)
    BY <1>2, <2>1
  <2>3. v \in ScanState
    BY <1>1 DEF ScanState, Status
  <2>4. StateAt("verification", v)
    BY <1>1, <2>2 DEF StateAt, ScanState, BeforeTools, AtReport
  <2> QED BY <2>1, <2>3, <2>4, PureNodeInv DEF Node, Effect
<1>h. CASE Verification(r)
  <2> DEFINE v == [w EXCEPT !.status = "verifying"]
  <2>1. StateAt("verification", w)
    BY <1>2, <1>h DEF Verification
  <2>2. v \in ScanState
    BY <1>1 DEF ScanState, Status
  <2>3. StateAt("scoring", v)
    BY <1>1, <2>1 DEF StateAt, ScanState, BeforeTools, AtReport
  <2> QED BY <1>h, <2>2, <2>3, PureNodeInv DEF Verification, Node
<1>i. CASE Scoring(r)
  <2> DEFINE v == [w EXCEPT !.status = "scored"]
  <2>1. StateAt("scoring", w)
    BY <1>2, <1>i DEF Scoring
  <2>2. v \in ScanState
    BY <1>1 DEF ScanState, Status
  <2>3. StateAt("ai_synthesis", v)
    BY <1>1, <2>1 DEF StateAt, ScanState, BeforeTools, AtReport
  <2> QED BY <1>i, <2>2, <2>3, PureNodeInv DEF Scoring, Node
<1>j. CASE AiSynthesis(r)
  <2>1. StateAt("ai_synthesis", w)
    BY <1>2, <1>j DEF AiSynthesis
  <2>2. StateAt("reporting", w)
    BY <2>1 DEF StateAt, BeforeTools, AtReport
  <2> QED BY <1>1, <1>j, <2>2, PureNodeInv DEF AiSynthesis, Node
<1>k. CASE Reporting(r)
  <2>1. StateAt("report_written", w)
    BY <1>2, <1>k DEF Reporting
  <2> QED BY <1>1, <1>k, <2>1, ReportedStateAt, PureNodeInv
          DEF Reporting, Node, Effect
<1> QED BY <1>a, <1>b, <1>c, <1>d, <1>e, <1>f, <1>g, <1>h, <1>i, <1>j, <1>k

\* The other steps of an invocation.  They change only its program counter,
\* the report files and the history, or end in a committed failure.
LEMMA RunStepsInv ==
  ASSUME Inv, NEW r \in Run,
         \/ GateInterrupts(r) \/ ActiveToolsRun(r) \/ ReportWritten(r) \/ RunFails(r)
  PROVE  Inv'
<1> DEFINE w == run[r].vals
<1>1. /\ w \in ScanState /\ run[r] \in Invocation
      /\ ckpt.vals \in ScanState
      /\ disk \in Outcome /\ faults \in 0..MaxFaults
  BY DEF Inv, TypeOK, Invocation, Checkpoint
<1>2. RunOK(r) /\ ReportOnDisk(r)
  BY DEF Inv
<1>3. r \in Approvers => Accepted(r)
  BY DEF Inv
<1>4. StateAt(ckpt.next, ckpt.vals)
  BY DEF Inv
<1>a. CASE GateInterrupts(r)
  <2> USE <1>a DEF GateInterrupts, At, outside, people
  <2>1. TypeOK'
    BY InitialStateAt DEF Inv, TypeOK
  <2>2. \A q \in Run : RunOK(q)' /\ ReportOnDisk(q)'
    BY DEF Inv, TypeOK, RunOK, ReportOnDisk, StateAt, DoneRun, IdleRun
  <2>3. \A a \in Approvers : Accepted(a)'
    BY DEF Inv, TypeOK, Accepted, HasDecision, DoneRun, IdleRun
  <2>4. (Paused => ckpt.next # "none")'
    BY <1>2 DEF RunOK, Paused
  <2>5. StateAt(ckpt.next, ckpt.vals)'
    BY <1>4 DEF StateAt
  <2> QED BY <2>1, <2>2, <2>3, <2>4, <2>5 DEF Inv, Complete
<1>b. CASE ActiveToolsRun(r)
  <2> USE <1>b DEF ActiveToolsRun, At, outside, people
  <2>1. PICK started \in SUBSET ActiveToolSelection(w) :
          /\ executed' = executed \cup started
          /\ run' = [run EXCEPT ![r].node = "tools_run", ![r].vals.ran = started]
    OBVIOUS
  <2>2. StateAt("active_detection", w)
    BY <1>2 DEF RunOK
  <2>3. started \subseteq w.approved /\ started \subseteq Tools
    BY <1>1, ActiveToolSelectionBound DEF ScanState
  <2> DEFINE v == [w EXCEPT !.ran = started]
  <2>4. v \in ScanState
    BY <1>1, <2>3 DEF ScanState
  <2>5. StateAt("tools_run", v)
    BY <1>1, <2>2, <2>3 DEF StateAt, ScanState, BeforeTools, AtReport
  <2>6. run' = [run EXCEPT ![r] = [@ EXCEPT !.node = "tools_run", !.vals = v]]
    BY <1>1, <2>1 DEF Inv, TypeOK, Invocation, ScanState
  <2> HIDE DEF v
  <2>7. TypeOK'
    <3>1. run' \in [Run -> Invocation]
      BY <1>1, <2>4, <2>6 DEF Inv, TypeOK, Invocation, Effect
    <3>2. executed' \in SUBSET Tools
      BY <2>1, <2>3 DEF Inv, TypeOK
    <3> QED BY <3>1, <3>2 DEF Inv, TypeOK
  <2>8. \A n, x : StateAt(n, x)' <=> StateAt(n, x)
    BY DEF StateAt
  <2>9. run'[r].phase = "active" /\ run'[r].node = "tools_run" /\ run'[r].vals = v
    BY <1>1, <2>6 DEF Inv, TypeOK, Invocation
  <2>10. \A q \in Run \ {r} : run'[q] = run[q]
    BY <2>6 DEF Inv, TypeOK
  <2>11. \A q \in Run : RunOK(q)' /\ ReportOnDisk(q)'
    <3> TAKE q \in Run
    <3>1. CASE q = r
      BY <1>2, <2>5, <2>8, <2>9, <3>1 DEF RunOK, ReportOnDisk
    <3>2. CASE q # r
      BY <2>8, <2>10, <3>2 DEF Inv, RunOK, ReportOnDisk
    <3> QED BY <3>1, <3>2
  <2>12. \A a \in Approvers : Accepted(a)'
    BY <2>9, <2>10 DEF Inv, Accepted, Run
  <2>13. executed' \subseteq granted'
    BY <2>1, <2>2, <2>3 DEF Inv, StateAt
  <2>14. StateAt(ckpt.next, ckpt.vals)'
    BY <1>4 DEF StateAt
  <2> QED BY <2>7, <2>11, <2>12, <2>13, <2>14 DEF Inv, Complete, Paused
<1>c. CASE ReportWritten(r)
  <2> USE <1>c DEF ReportWritten, At, outside, people
  <2>1. StateAt("reporting", w)
    BY <1>2 DEF RunOK
  <2>2. disk' \in Outcome \ {"none"}
    BY <1>1, <2>1, ReportedStateAt
  <2>3. StateAt("report_written", w)
    BY <2>1 DEF StateAt, BeforeTools, AtReport
  <2>4. TypeOK'
    BY <1>1, <2>2 DEF Inv, TypeOK, Invocation, Effect
  <2>5. /\ run'[r].phase = "active" /\ run'[r].node = "report_written"
        /\ run'[r].vals = w
        /\ \A q \in Run \ {r} : run'[q] = run[q]
    BY <1>1 DEF Inv, TypeOK, Invocation
  <2>6. \A n, x : StateAt(n, x)' <=> StateAt(n, x)
    BY DEF StateAt
  <2>7. \A q \in Run : RunOK(q)' /\ ReportOnDisk(q)'
    <3> TAKE q \in Run
    <3>1. CASE q = r
      BY <1>2, <2>2, <2>3, <2>5, <2>6, <3>1 DEF RunOK, ReportOnDisk
    <3>2. CASE q # r
      BY <2>2, <2>5, <2>6, <3>2 DEF Inv, RunOK, ReportOnDisk
    <3> QED BY <3>1, <3>2
  <2>8. \A a \in Approvers : Accepted(a)'
    BY <2>5 DEF Inv, Accepted, Run
  <2>9. StateAt(ckpt.next, ckpt.vals)'
    BY <1>4 DEF StateAt
  <2> QED BY <2>2, <2>4, <2>7, <2>8, <2>9 DEF Inv, Complete, Paused
<1>d. CASE TimesOut(r) \/ NodeRaises(r)
  <2> USE <1>d DEF TimesOut, NodeRaises, outside, people
  <2>1. orphans' \subseteq orphans \cup {ReportOutcome(w)}
    OBVIOUS
  <2>2. ReportOutcome(w) \in Outcome \ {"none"}
    BY <1>1, <1>2, ReportedStateAt DEF RunOK
  <2>3. PICK code \in {"scan_timeout", "scan_error"} :
          run' = [run EXCEPT ![r].phase = "failing", ![r].code = code]
    OBVIOUS
  <2>4. TypeOK'
    BY <1>1, <2>1, <2>2, <2>3 DEF Inv, TypeOK, Invocation, Phase, ErrorCode
  <2>5. /\ run'[r].phase = "failing" /\ run'[r].code # "none"
        /\ \A q \in Run \ {r} : run'[q] = run[q]
    BY <1>1, <2>3 DEF Inv, TypeOK, Invocation
  <2>6. \A n, x : StateAt(n, x)' <=> StateAt(n, x)
    BY DEF StateAt
  <2>7. \A q \in Run : RunOK(q)' /\ ReportOnDisk(q)'
    BY <2>5, <2>6 DEF Inv, RunOK, ReportOnDisk
  <2>8. \A a \in Approvers : Accepted(a)'
    BY <2>5 DEF Inv, Accepted, Run
  <2>9. StateAt(ckpt.next, ckpt.vals)'
    BY <1>4 DEF StateAt
  <2> QED BY <2>1, <2>2, <2>4, <2>7, <2>8, <2>9 DEF Inv, Complete, Paused
<1>e. CASE FailedReportWritten(r)
  <2> USE DEF outside, people
  <2>1. PICK readable \in BOOLEAN :
          LET v == IF readable /\ ckpt.next # "none" THEN ckpt.vals
                   ELSE InitialState
              failed == FailedState(v, run[r].code)
          IN  /\ ~readable => faults < MaxFaults
              /\ faults' = IF readable THEN faults ELSE faults + 1
              /\ disk' = failed.outcome
              /\ run' = [run EXCEPT ![r].phase = "persisting", ![r].vals = failed]
    BY <1>e DEF FailedReportWritten
  <2> DEFINE v == IF readable /\ ckpt.next # "none" THEN ckpt.vals ELSE InitialState
             failed == FailedState(v, run[r].code)
  <2>2. v \in ScanState /\ \E next : StateAt(next, v)
    BY <1>1, <1>4, InitialStateAt DEF BeforeTools
  <2>3. run[r].phase = "failing" /\ run[r].code \in ErrorCode \ {"none"}
    BY <1>1, <1>2, <1>e DEF FailedReportWritten, Failing, RunOK, Invocation
  <2>4. failed \in ScanState /\ StateAt("END", failed) /\ failed.outcome = "failed"
    <3> HIDE DEF v
    <3> QED BY <2>2, <2>3, FailedStateAt
  <2>5. /\ disk' = failed.outcome
        /\ run' = [run EXCEPT ![r].phase = "persisting", ![r].vals = failed]
        /\ faults' \in 0..MaxFaults
    BY <1>1, <2>1, BoundsAssumption
  <2>6. UNCHANGED <<ckpt, interrupted, outside, people, orphans, executed>>
    BY <1>e DEF FailedReportWritten
  <2> HIDE DEF failed
  <2>7. TypeOK'
    BY <1>1, <2>4, <2>5, <2>6 DEF Inv, TypeOK, Invocation, Phase, Outcome
  <2>8. /\ run'[r].phase = "persisting" /\ run'[r].vals = failed
        /\ \A q \in Run \ {r} : run'[q] = run[q]
    BY <1>1, <2>5 DEF Inv, TypeOK, Invocation
  <2>9. \A n, x : StateAt(n, x)' <=> StateAt(n, x)
    BY <2>6 DEF StateAt
  <2>10. \A q \in Run : RunOK(q)' /\ ReportOnDisk(q)'
    BY <2>4, <2>5, <2>6, <2>8, <2>9 DEF Inv, RunOK, ReportOnDisk
  <2>11. \A a \in Approvers : Accepted(a)'
    BY <2>3, <2>6, <2>8 DEF Inv, Accepted, Run
  <2>12. StateAt(ckpt.next, ckpt.vals)'
    BY <1>4, <2>6 DEF StateAt
  <2> QED BY <2>4, <2>5, <2>6, <2>7, <2>10, <2>11, <2>12 DEF Inv, Complete, Paused
<1>f. CASE FailedStatePersisted(r)
  <2>1. run[r].phase = "persisting" /\ Commit(r, w, "END")
    BY <1>f DEF FailedStatePersisted
  <2>2. disk # "none" /\ StateAt("END", w)
    BY <1>2, <2>1 DEF RunOK, ReportOnDisk
  <2> QED BY <1>1, <1>f, <2>1, <2>2, CommitInv DEF FailedStatePersisted
<1>g. CASE FailedStateLost(r) \/ FailedReportRaises(r)
  <2> USE <1>g DEF FailedStateLost, FailedReportRaises, Failing, outside, people
  <2>1. PICK rest \in {IdleRun, DoneRun} : run' = [run EXCEPT ![r] = rest]
    OBVIOUS
  <2>2. rest \in Invocation /\ rest.phase \in {"idle", "done"}
    <3>1. IdleRun.phase = "idle" /\ DoneRun.phase = "done"
      BY DEF IdleRun, DoneRun
    <3> QED BY <2>1, <3>1, InitialStateAt
  <2>3. service' \in {"up", "down", "recovering"} /\ faults' \in 0..MaxFaults
    BY <1>1, BoundsAssumption DEF Inv, TypeOK
  <2>4. TypeOK'
    BY <2>1, <2>2, <2>3 DEF Inv, TypeOK
  <2>5. run'[r] = rest /\ \A q \in Run \ {r} : run'[q] = run[q]
    BY <2>1 DEF Inv, TypeOK
  <2>6. \A n, x : StateAt(n, x)' <=> StateAt(n, x)
    BY DEF StateAt
  <2>7. \A q \in Run : RunOK(q)' /\ ReportOnDisk(q)'
    BY <2>2, <2>5, <2>6 DEF Inv, RunOK, ReportOnDisk
  <2>8. \A a \in Approvers : Accepted(a)'
    BY <2>2, <2>5 DEF Inv, Accepted, Run
  <2>9. StateAt(ckpt.next, ckpt.vals)'
    BY <1>4 DEF StateAt
  <2> QED BY <2>4, <2>7, <2>8, <2>9 DEF Inv, Complete, Paused
<1> QED BY <1>a, <1>b, <1>c, <1>d, <1>e, <1>f, <1>g DEF RunFails

\* The steps of requests, polls and the process.
LEMMA OutsideStepsInv ==
  ASSUME Inv,
         \/ OrphanReportWritten \/ Submit \/ BeginStart
         \/ \E a \in Approvers : ApproveRead(a) \/ ApproveDecide(a) \/ ResumeBegin(a)
         \/ \E p \in Pollers : PollRead(p) \/ PollWrite(p)
         \/ Crash \/ Restart \/ RecoverRow
  PROVE  Inv'
<1>1. TypeOK /\ StateAt(ckpt.next, ckpt.vals) /\ ckpt.vals \in ScanState
  BY DEF Inv, TypeOK, Checkpoint
<1>2. \A q \in Run : run[q] \in Invocation /\ RunOK(q) /\ ReportOnDisk(q)
  BY DEF Inv, TypeOK
<1>3. \A a \in Approvers : a \in Run /\ a # "start" /\ a # "recovery" /\ Accepted(a)
  BY RunsAssumption DEF Inv, Run
<1>4. IdleRun.phase = "idle" /\ DoneRun.phase = "done"
  BY DEF IdleRun, DoneRun
<1>5. "start" \in Run /\ "recovery" \in Run
  BY DEF Run
<1>6. ckpt.next \in Node \cup {"none", "END"}
  BY <1>1 DEF TypeOK, Checkpoint
<1> USE DEF outside, people
<1>a. CASE OrphanReportWritten
  <2> USE <1>a DEF OrphanReportWritten
  <2>1. TypeOK' /\ disk' # "none" /\ orphans' \subseteq orphans
    BY <1>1 DEF Inv, TypeOK
  <2>2. \A q \in Run : RunOK(q)' /\ ReportOnDisk(q)'
    BY <1>2, <2>1 DEF RunOK, ReportOnDisk, StateAt
  <2>3. \A a \in Approvers : Accepted(a)'
    BY <1>3 DEF Accepted
  <2> QED BY <1>1, <2>1, <2>2, <2>3 DEF Inv, StateAt, Complete, Paused
<1>b. CASE Submit
  <2> USE <1>b DEF Submit
  <2>1. TypeOK'
    BY <1>1, <1>2, <1>5 DEF TypeOK, Invocation, Phase, Status
  <2>2. run'["start"].phase = "queued" /\ \A q \in Run \ {"start"} : run'[q] = run[q]
    BY <1>1, <1>2, <1>5 DEF TypeOK, Invocation
  <2>3. \A n, x : StateAt(n, x)' <=> StateAt(n, x)
    BY DEF StateAt
  <2>4. \A q \in Run : RunOK(q)' /\ ReportOnDisk(q)'
    BY <1>2, <2>2, <2>3 DEF RunOK, ReportOnDisk
  <2>5. \A a \in Approvers : Accepted(a)'
    BY <1>3, <2>2 DEF Accepted
  <2> QED BY <1>1, <2>1, <2>4, <2>5 DEF Inv, StateAt, Complete, Paused
<1>c. CASE BeginStart
  <2> DEFINE begun == [IdleRun EXCEPT !.phase = "active"]
  <2> USE <1>c DEF BeginStart
  <2>1. /\ begun \in Invocation /\ begun.phase = "active"
        /\ begun.node = "check_scope" /\ begun.vals = InitialState
    BY InitialStateAt DEF IdleRun, Invocation, Phase
  <2>2. run' = [run EXCEPT !["start"] = begun]
    OBVIOUS
  <2> HIDE DEF begun
  <2>3. ckpt' \in Checkpoint /\ ckpt'.next = "check_scope" /\ ckpt'.vals = InitialState
    BY InitialStateAt DEF Checkpoint, Node
  <2>4. TypeOK'
    BY <1>1, <2>1, <2>2, <2>3 DEF TypeOK
  <2>5. run'["start"] = begun /\ \A q \in Run \ {"start"} : run'[q] = run[q]
    BY <1>1, <1>5, <2>2 DEF TypeOK
  <2>6. \A n, x : StateAt(n, x)' <=> StateAt(n, x)
    BY DEF StateAt
  <2>7. StateAt("check_scope", InitialState)
    BY InitialStateAt DEF BeforeTools
  <2>8. \A q \in Run : RunOK(q)' /\ ReportOnDisk(q)'
    BY <1>2, <2>1, <2>3, <2>5, <2>6, <2>7 DEF RunOK, ReportOnDisk
  <2>9. \A a \in Approvers : Accepted(a)'
    BY <1>3, <2>3, <2>5 DEF Accepted
  <2>10. StateAt(ckpt.next, ckpt.vals)'
    BY <2>3, <2>7 DEF StateAt
  <2> QED BY <1>1, <2>3, <2>4, <2>8, <2>9, <2>10 DEF Inv, Complete, Paused
<1>d. ASSUME NEW a \in Approvers, ApproveRead(a)
      PROVE  Inv'
  <2> USE <1>d DEF ApproveRead
  <2>1. TypeOK'
    BY <1>1 DEF TypeOK, ScanState
  <2>2. \A q \in Run : RunOK(q)' /\ ReportOnDisk(q)'
    BY <1>2 DEF RunOK, ReportOnDisk, StateAt
  <2>3. run[a].phase = "idle"
    BY <1>3 DEF Accepted
  <2>4. Paused => ckpt.next # "none"
    BY DEF Inv
  <2>5. \A b \in Approvers : Accepted(b)'
    BY <1>1, <1>3, <2>3, <2>4 DEF Accepted, TypeOK
  <2> QED BY <1>1, <2>1, <2>2, <2>5 DEF Inv, StateAt, Complete, Paused
<1>e. ASSUME NEW a \in Approvers, ApproveDecide(a)
      PROVE  Inv'
  <2> USE <1>e DEF ApproveDecide
  <2>1. PICK body \in Body :
          LET tools == ResolveApprovedTools(decision[a], body)
          IN  IF body.explicit /\ ~(body.tools \subseteq decision[a])
              THEN /\ approver' = [approver EXCEPT ![a] = "refused"]
                   /\ decision' = [decision EXCEPT ![a] = {}]
                   /\ UNCHANGED <<granted, run>>
              ELSE /\ approver' = [approver EXCEPT ![a] = "accepted"]
                   /\ decision' = [decision EXCEPT ![a] = tools]
                   /\ granted' = granted \cup tools
                   /\ run' = [run EXCEPT ![a].phase = "queued"]
    OBVIOUS
  <2> DEFINE tools == ResolveApprovedTools(decision[a], body)
  <2>2. tools \subseteq Tools
    BY <1>1, ResolveApprovedToolsBound DEF TypeOK
  <2> HIDE DEF tools
  <2>3. /\ run[a].phase = "idle" /\ ckpt.next # "none"
    BY <1>3 DEF Accepted
  <2>4. CASE approver'[a] = "refused"
    <3>1. UNCHANGED <<granted, run>> /\ decision' = [decision EXCEPT ![a] = {}]
          /\ approver' = [approver EXCEPT ![a] = "refused"]
      BY <1>1, <2>1, <2>4 DEF TypeOK
    <3>2. TypeOK'
      BY <1>1, <3>1 DEF TypeOK
    <3>3. \A q \in Run : RunOK(q)' /\ ReportOnDisk(q)'
      BY <1>2, <3>1 DEF RunOK, ReportOnDisk, StateAt
    <3>4. \A b \in Approvers : Accepted(b)'
      BY <1>1, <1>3, <2>3, <3>1 DEF Accepted, TypeOK
    <3> QED BY <1>1, <3>1, <3>2, <3>3, <3>4 DEF Inv, StateAt, Complete, Paused
  <2>5. CASE approver'[a] # "refused"
    <3>1. /\ approver' = [approver EXCEPT ![a] = "accepted"]
          /\ decision' = [decision EXCEPT ![a] = tools]
          /\ granted' = granted \cup tools
          /\ run' = [run EXCEPT ![a].phase = "queued"]
      BY <1>1, <2>1, <2>5 DEF TypeOK, tools
    <3>2. TypeOK'
      BY <1>1, <1>2, <1>3, <2>2, <3>1 DEF TypeOK, Invocation, Phase
    <3>3. run'[a].phase = "queued" /\ \A q \in Run \ {a} : run'[q] = run[q]
      BY <1>1, <1>2, <1>3, <3>1 DEF TypeOK, Invocation
    <3>4. \A n, x : StateAt(n, x) => StateAt(n, x)'
      BY <3>1 DEF StateAt
    <3>5. \A q \in Run : RunOK(q)' /\ ReportOnDisk(q)'
      BY <1>2, <3>3, <3>4 DEF RunOK, ReportOnDisk
    <3>6. \A b \in Approvers : Accepted(b)'
      BY <1>1, <1>3, <2>3, <3>1, <3>3 DEF Accepted, TypeOK
    <3>7. StateAt(ckpt.next, ckpt.vals)' /\ executed' \subseteq granted'
      BY <1>1, <3>1 DEF Inv, StateAt
    <3> QED BY <3>2, <3>5, <3>6, <3>7 DEF Inv, Complete, Paused
  <2> QED BY <2>4, <2>5
<1>f. ASSUME NEW a \in Approvers, ResumeBegin(a)
      PROVE  Inv'
  <2> USE <1>f DEF ResumeBegin
  <2> DEFINE resumed == IF Complete THEN DoneRun
                        ELSE [run[a] EXCEPT !.phase = "active", !.node = ckpt.next,
                                            !.vals = ckpt.vals]
  <2>1. run[a].phase = "queued" /\ run' = [run EXCEPT ![a] = resumed]
    OBVIOUS
  <2>2. approver[a] = "accepted" /\ ckpt.next # "none"
    BY <1>3, <2>1 DEF Accepted
  <2>3. resumed \in Invocation
    BY <1>1, <1>2, <1>3, <1>6, <2>2, InitialStateAt
       DEF Invocation, Complete, Phase
  <2>4. \/ resumed.phase = "done"
        \/ /\ resumed.phase = "active" /\ resumed.node = ckpt.next
           /\ resumed.vals = ckpt.vals /\ ckpt.next # "END"
    BY <1>2, <1>3, <1>4 DEF Invocation, Complete
  <2>5. ckpt.next # "report_written"
    BY <1>6 DEF Node
  <2> HIDE DEF resumed
  <2>6. TypeOK'
    BY <1>1, <2>1, <2>3 DEF TypeOK
  <2>7. run'[a] = resumed /\ \A q \in Run \ {a} : run'[q] = run[q]
    BY <1>1, <1>3, <2>1 DEF TypeOK
  <2>8. \A n, x : StateAt(n, x)' <=> StateAt(n, x)
    BY DEF StateAt
  <2>9. \A q \in Run : RunOK(q)' /\ ReportOnDisk(q)'
    BY <1>1, <1>2, <2>2, <2>4, <2>5, <2>7, <2>8 DEF RunOK, ReportOnDisk
  <2>10. \A b \in Approvers : Accepted(b)'
    BY <1>3, <2>2, <2>7 DEF Accepted
  <2> QED BY <1>1, <2>6, <2>9, <2>10 DEF Inv, StateAt, Complete, Paused
<1>g. ASSUME NEW p \in Pollers, PollRead(p) \/ PollWrite(p)
      PROVE  Inv'
  <2> USE <1>g DEF PollRead, PollWrite
  <2>1. DisplayStatus \in Status
    BY <1>1 DEF DisplayStatus, ScanState, Status
  <2>2. TypeOK'
    BY <1>1, <2>1, BoundsAssumption DEF TypeOK, Status
  <2>3. \A q \in Run : RunOK(q)' /\ ReportOnDisk(q)'
    BY <1>2 DEF RunOK, ReportOnDisk, StateAt
  <2>4. \A a \in Approvers : Accepted(a)'
    BY <1>3 DEF Accepted
  <2> QED BY <1>1, <2>2, <2>3, <2>4 DEF Inv, StateAt, Complete, Paused
<1>h. CASE Crash
  <2> USE <1>h DEF Crash
  <2>1. TypeOK'
    BY <1>1, InitialStateAt, BoundsAssumption DEF TypeOK
  <2>2. \A q \in Run : run'[q].phase = "idle"
    BY <1>4
  <2>3. \A q \in Run : RunOK(q)' /\ ReportOnDisk(q)'
    BY <2>2 DEF RunOK, ReportOnDisk
  <2>4. \A a \in Approvers : Accepted(a)'
    BY <1>3, <2>2 DEF Accepted
  <2> QED BY <1>1, <2>1, <2>3, <2>4 DEF Inv, StateAt, Complete, Paused
<1>i. CASE Restart
  <2> USE <1>i DEF Restart
  <2>1. PICK rest \in Invocation :
          /\ run' = [run EXCEPT !["recovery"] = rest]
          /\ \/ rest = run["recovery"]
             \/ rest.phase = "failing" /\ rest.code = "service_restart_interrupted"
    <3>1. CASE UNCHANGED run
      BY <1>1, <1>2, <1>5, <3>1 DEF TypeOK
    <3>2. CASE run' # run
      <4> DEFINE rest == [run["recovery"] EXCEPT !.phase = "failing",
                                                 !.code = "service_restart_interrupted"]
      <4>1. run' = [run EXCEPT !["recovery"] = rest]
        BY <1>1, <1>2, <1>5, <3>2 DEF TypeOK, Invocation
      <4>2. /\ rest \in Invocation /\ rest.phase = "failing"
            /\ rest.code = "service_restart_interrupted"
        BY <1>2, <1>5 DEF Invocation, Phase, ErrorCode
      <4> QED BY <4>1, <4>2
    <3> QED BY <3>1, <3>2
  <2>2. TypeOK'
    BY <1>1, <2>1 DEF TypeOK
  <2>3. run'["recovery"] = rest /\ \A q \in Run \ {"recovery"} : run'[q] = run[q]
    BY <1>1, <1>5, <2>1 DEF TypeOK
  <2>4. \A n, x : StateAt(n, x)' <=> StateAt(n, x)
    BY DEF StateAt
  <2>5. \A q \in Run : RunOK(q)' /\ ReportOnDisk(q)'
    BY <1>2, <2>1, <2>3, <2>4 DEF RunOK, ReportOnDisk
  <2>6. \A a \in Approvers : Accepted(a)'
    BY <1>3, <2>3 DEF Accepted
  <2> QED BY <1>1, <2>2, <2>5, <2>6 DEF Inv, StateAt, Complete, Paused
<1>j. CASE RecoverRow
  <2> USE <1>j DEF RecoverRow
  <2>1. TypeOK'
    BY <1>1, <1>5, InitialStateAt DEF TypeOK, Status
  <2>2. run'["recovery"] = IdleRun /\ \A q \in Run \ {"recovery"} : run'[q] = run[q]
    BY <1>1, <1>5 DEF TypeOK
  <2>3. \A n, x : StateAt(n, x)' <=> StateAt(n, x)
    BY DEF StateAt
  <2>4. \A q \in Run : RunOK(q)' /\ ReportOnDisk(q)'
    BY <1>2, <1>4, <2>2, <2>3 DEF RunOK, ReportOnDisk
  <2>5. \A a \in Approvers : Accepted(a)'
    BY <1>3, <2>2 DEF Accepted
  <2> QED BY <1>1, <2>1, <2>4, <2>5 DEF Inv, StateAt, Complete, Paused
<1> QED
  BY <1>a, <1>b, <1>c, <1>d, <1>e, <1>f, <1>g, <1>h, <1>i, <1>j

LEMMA InitInv == Init => Inv
<1> SUFFICES ASSUME Init PROVE Inv
  OBVIOUS
<1> USE DEF Init
<1>1. TypeOK
  <2>1. ckpt \in Checkpoint /\ run \in [Run -> Invocation]
    BY InitialStateAt DEF Checkpoint
  <2>2. disk \in Outcome /\ crashes \in 0..MaxCrashes /\ faults \in 0..MaxFaults
    BY BoundsAssumption DEF Outcome
  <2> QED BY <2>1, <2>2 DEF TypeOK
<1>2. StateAt(ckpt.next, ckpt.vals)
  BY InitialStateAt DEF BeforeTools
<1>3. IdleRun.phase = "idle"
  BY DEF IdleRun
<1> QED BY <1>1, <1>2, <1>3
        DEF Inv, RunOK, ReportOnDisk, Accepted, Complete, Paused, Run

LEMMA StepInv == Inv /\ [Next]_vars => Inv'
<1> SUFFICES ASSUME Inv, [Next]_vars PROVE Inv'
  OBVIOUS
<1>1. CASE UNCHANGED vars
  BY <1>1 DEF vars, Inv, TypeOK, StateAt, RunOK, ReportOnDisk, Accepted, Complete,
              Paused
<1>2. CASE Next
  BY <1>2, PureNodesInv, RunStepsInv, OutsideStepsInv DEF Next, RunNode
<1> QED BY <1>1, <1>2

LEMMA Invariance == SafetySpec => []Inv
BY InitInv, StepInv, PTL DEF SafetySpec

\* The types hold for any number of requests, tools and failures.
THEOREM TypeCorrect == SafetySpec => []TypeOK
<1>1. Inv => TypeOK
  BY DEF Inv
<1> QED BY <1>1, Invariance, PTL

\* Only tools that an accepted request approved are ever started.
THEOREM OnlyGrantedTools == SafetySpec => []NoUngrantedTool
<1>1. Inv => NoUngrantedTool
  BY DEF Inv, NoUngrantedTool
<1> QED BY <1>1, Invariance, PTL

\* A complete thread has its report, and status, outcome and error agree.
THEOREM CompleteScansHaveReports == SafetySpec => []CompleteHasReport
<1>1. Inv => CompleteHasReport
  <2> SUFFICES ASSUME Inv, Complete PROVE CompleteHasReport
    BY DEF CompleteHasReport
  <2>1. StateAt("END", ckpt.vals) /\ disk # "none"
    BY DEF Inv, Complete
  <2> QED BY <2>1 DEF StateAt, CompleteHasReport
<1> QED BY <1>1, Invariance, PTL

\* The reported outcome agrees with the decision and with what ran.
THEOREM OutcomesAreTruthful == SafetySpec => []TruthfulOutcome
<1>1. Inv => TruthfulOutcome
  <2> SUFFICES ASSUME Inv, Complete PROVE TruthfulOutcome
    BY DEF TruthfulOutcome
  <2>1. StateAt("END", ckpt.vals)
    BY DEF Inv, Complete
  <2> QED BY <2>1 DEF StateAt, TruthfulOutcome
<1> QED BY <1>1, Invariance, PTL

-----------------------------------------------------------------------------
(* What holds as long as no two approvals overlap.                         *)

\* The request has been shown the gate, and the invocation it starts has not
\* ended yet.
InFlight(a) ==
  \/ approver[a] = "checked"
  \/ approver[a] = "accepted" /\ run[a].phase # "done"

\* Any number of requests, one at a time.
Undisturbed ==
  \A a, b \in Approvers : InFlight(a) /\ InFlight(b) => a = b

BeforePlan == {"none", "check_scope", "recon", "passive_detection",
               "plan_active_tests"}

BeforeGate == BeforePlan \cup {"human_approval_gate"}

Busy(r) == run[r].phase \in {"queued", "active", "failing", "persisting"}

\* The node whose checkpoint an invocation at this point started from.
StartedFrom(node) ==
  IF node = "tools_run" THEN "active_detection"
  ELSE IF node = "report_written" THEN "reporting"
  ELSE node

\* The invocation works on the latest checkpoint.
Synced(r) ==
  run[r].phase = "active" =>
    /\ ckpt.next = StartedFrom(run[r].node)
    /\ ckpt.vals.status = run[r].vals.status
    /\ ckpt.vals.planned = run[r].vals.planned
    /\ ckpt.vals.approved = run[r].vals.approved

\* The inductive invariant: one invocation works on the thread, on its latest
\* checkpoint, and only the start and a decided request get past the gate.
OneAtWork ==
  /\ \A q, r \in Run : Busy(q) /\ Busy(r) => q = r
  /\ \A r \in Run : Synced(r)
  /\ run["recovery"].phase \notin {"queued", "active"}
  /\ Complete => \A r \in Run : Busy(r) => r = "recovery"

ServiceInv ==
  /\ service # "recovering" => run["recovery"].phase = "idle"
  /\ service # "up" => /\ run["start"].phase = "idle"
                       /\ \A a \in Approvers : approver[a] \in {"idle", "closed"}

GateInv ==
  /\ Paused => ckpt.next = "human_approval_gate"
  /\ \A a \in Approvers :
       /\ approver[a] = "accepted" => run[a].phase # "idle"
       /\ approver[a] = "checked" \/ run[a].phase = "queued" => Paused
  /\ Busy("start") => /\ ~Paused
                      /\ \A a \in Approvers : approver[a] \notin {"checked", "accepted"}
  /\ run["start"].phase = "queued" => ckpt.next = "none"

RowInv ==
  /\ row = "none" => ckpt.next = "none" /\ \A r \in Run : run[r].phase = "idle"
  /\ ckpt.vals.status = "completed" => Complete
  /\ \A p \in Pollers : /\ seen[p] # "none" => row # "none"
                        /\ seen[p] = "completed" => Complete
  /\ row = "completed" => Complete

Sole == OneAtWork /\ ServiceInv /\ GateInv /\ RowInv

\* What a node that changes only the graph's state does to it.
NodeFacts(r, node, v, next) ==
  LET w == run[r].vals
  IN  /\ next \in BeforePlan => node \in BeforePlan \ {"none"}
      /\ next = "human_approval_gate" => node = "plan_active_tests" /\ v.planned # {}
      /\ node \in BeforeGate /\ next \notin BeforeGate =>
           \/ node = "check_scope"
           \/ node = "plan_active_tests" /\ v.planned = {}
           \/ node = "human_approval_gate"
      /\ node = "plan_active_tests" \/ v.planned = w.planned
      /\ node = "plan_active_tests" => next \notin BeforePlan
      /\ IF node = "human_approval_gate"
         THEN /\ r \in Approvers /\ next = "active_detection"
              /\ v.approved = w.planned \cap decision[r]
         ELSE /\ v.approved = w.approved
              /\ v.status = "rejected" => w.status = "rejected"
      /\ v.status = "completed" => next = "END" \/ w.status = "completed"
      /\ next = "END" <=> node = "report_written"
      /\ next = "END" => v = Reported(w)

LEMMA NodeShape ==
  ASSUME Inv, NEW r \in Run,
         \/ CheckScope(r) \/ Recon(r) \/ PassiveDetection(r) \/ PlanActiveTests(r)
         \/ GateResumes(r) \/ ActiveDetectionSkips(r) \/ ActiveDetectionEnds(r)
         \/ Verification(r) \/ Scoring(r) \/ AiSynthesis(r) \/ Reporting(r)
  PROVE  \E node \in Node \cup Effect, next \in Node \cup {"END"}, v \in ScanState :
            PureNode(r, node, v, next) /\ NodeFacts(r, node, v, next)
<1> DEFINE w == run[r].vals
           Shape(node, v, next) ==
             /\ node \in Node \cup Effect /\ next \in Node \cup {"END"}
             /\ v \in ScanState
             /\ PureNode(r, node, v, next) /\ NodeFacts(r, node, v, next)
<1>1. w \in ScanState
  BY DEF Inv, TypeOK, Invocation
<1> SUFFICES \E node, v, next : Shape(node, v, next)
  OBVIOUS
<1> USE DEF Node, Effect, BeforePlan, BeforeGate, NodeFacts
<1>a. CASE CheckScope(r)
  <2>1. PICK ok \in BOOLEAN :
          LET v == IF ok
                   THEN [w EXCEPT !.authorized = TRUE, !.status = "running"]
                   ELSE [w EXCEPT !.authorized = FALSE, !.status = "failed",
                                  !.error = "invalid_scan_target"]
          IN  PureNode(r, "check_scope", v, RouteAfterScope(v))
    BY <1>a DEF CheckScope
  <2> DEFINE v == IF ok
                  THEN [w EXCEPT !.authorized = TRUE, !.status = "running"]
                  ELSE [w EXCEPT !.authorized = FALSE, !.status = "failed",
                                 !.error = "invalid_scan_target"]
  <2>2. /\ v \in ScanState /\ v.planned = w.planned /\ v.approved = w.approved
        /\ v.status \in {"running", "failed"}
    BY <1>1 DEF ScanState, Status, ErrorCode
  <2>3. RouteAfterScope(v) \in {"recon", "reporting"}
    BY DEF RouteAfterScope
  <2>4. PureNode(r, "check_scope", v, RouteAfterScope(v))
    BY <2>1
  <2> HIDE DEF v
  <2>5. Shape("check_scope", v, RouteAfterScope(v))
    BY <2>2, <2>3, <2>4
  <2> QED BY <2>5
<1>b. CASE Recon(r)
  <2>1. Shape("recon", w, "passive_detection")
    BY <1>1, <1>b DEF Recon
  <2> QED BY <2>1
<1>c. CASE PassiveDetection(r)
  <2> DEFINE v == [w EXCEPT !.status = "detecting"]
  <2>1. /\ v \in ScanState /\ v.status = "detecting"
        /\ v.planned = w.planned /\ v.approved = w.approved
    BY <1>1 DEF ScanState, Status
  <2>2. PureNode(r, "passive_detection", v, "plan_active_tests")
    BY <1>c DEF PassiveDetection
  <2> HIDE DEF v
  <2>3. Shape("passive_detection", v, "plan_active_tests")
    BY <2>1, <2>2
  <2> QED BY <2>3
<1>d. CASE PlanActiveTests(r)
  <2>1. PICK profile \in Profiles :
          PureNode(r, "plan_active_tests",
            [w EXCEPT !.planned = PlannedTools(profile),
                      !.needed  = PlannedTools(profile) # {},
                      !.status  = IF PlannedTools(profile) = {} THEN "running"
                                  ELSE "awaiting_approval"],
            RouteAfterPlan(
            [w EXCEPT !.planned = PlannedTools(profile),
                      !.needed  = PlannedTools(profile) # {},
                      !.status  = IF PlannedTools(profile) = {} THEN "running"
                                  ELSE "awaiting_approval"]))
    BY <1>d DEF PlanActiveTests
  <2> DEFINE planned == PlannedTools(profile)
             v == [w EXCEPT !.planned = planned,
                            !.needed  = planned # {},
                            !.status  = IF planned = {} THEN "running"
                                        ELSE "awaiting_approval"]
  <2>2. planned \subseteq Tools
    BY DEF PlannedTools
  <2>3. PureNode(r, "plan_active_tests", v, RouteAfterPlan(v))
    BY <2>1
  <2> HIDE DEF planned
  <2>4. /\ v \in ScanState /\ v.planned = planned /\ v.approved = w.approved
        /\ v.status \in {"running", "awaiting_approval"}
    BY <1>1, <2>2 DEF ScanState, Status
  <2> HIDE DEF v
  <2>5. RouteAfterPlan(v) = IF v.planned # {} THEN "human_approval_gate"
                            ELSE "active_detection"
    BY DEF RouteAfterPlan
  <2>6. Shape("plan_active_tests", v, RouteAfterPlan(v))
    BY <2>3, <2>4, <2>5
  <2> QED BY <2>6
<1>e. CASE GateResumes(r)
  <2> DEFINE approved == ResolveApprovedTools(w.planned,
                           [explicit |-> TRUE, tools |-> decision[r],
                            approved |-> decision[r] # {}])
             v == [w EXCEPT
                     !.approved = approved,
                     !.status   = IF approved # {} THEN "running" ELSE "rejected"]
  <2>1. /\ r \in Approvers
        /\ PureNode(r, "human_approval_gate", v, "active_detection")
    BY <1>e DEF GateResumes, HasDecision
  <2>2. approved = w.planned \cap decision[r]
    BY DEF ResolveApprovedTools
  <2> HIDE DEF approved
  <2>3. /\ v \in ScanState /\ v.planned = w.planned /\ v.approved = approved
        /\ v.status \in {"running", "rejected"}
    BY <1>1, <2>2 DEF ScanState, Status
  <2> HIDE DEF v
  <2>4. Shape("human_approval_gate", v, "active_detection")
    BY <2>1, <2>2, <2>3
  <2> QED BY <2>4
<1>f. CASE ActiveDetectionSkips(r)
  <2> DEFINE v == [w EXCEPT !.status = "detecting"]
  <2>1. /\ v \in ScanState /\ v.status = "detecting"
        /\ v.planned = w.planned /\ v.approved = w.approved
    BY <1>1 DEF ScanState, Status
  <2>2. PureNode(r, "active_detection", v, "verification")
    BY <1>f DEF ActiveDetectionSkips
  <2> HIDE DEF v
  <2>3. Shape("active_detection", v, "verification")
    BY <2>1, <2>2
  <2> QED BY <2>3
<1>g. CASE ActiveDetectionEnds(r)
  <2>1. PICK ran \in SUBSET w.ran :
          PureNode(r, "tools_run", [w EXCEPT !.status = "detecting", !.ran = ran],
                   "verification")
    BY <1>g DEF ActiveDetectionEnds
  <2> DEFINE v == [w EXCEPT !.status = "detecting", !.ran = ran]
  <2>2. /\ v \in ScanState /\ v.status = "detecting"
        /\ v.planned = w.planned /\ v.approved = w.approved
    BY <1>1 DEF ScanState, Status
  <2>3. PureNode(r, "tools_run", v, "verification")
    BY <2>1
  <2> HIDE DEF v
  <2>4. Shape("tools_run", v, "verification")
    BY <2>2, <2>3
  <2> QED BY <2>4
<1>h. CASE Verification(r)
  <2> DEFINE v == [w EXCEPT !.status = "verifying"]
  <2>1. /\ v \in ScanState /\ v.status = "verifying"
        /\ v.planned = w.planned /\ v.approved = w.approved
    BY <1>1 DEF ScanState, Status
  <2>2. PureNode(r, "verification", v, "scoring")
    BY <1>h DEF Verification
  <2> HIDE DEF v
  <2>3. Shape("verification", v, "scoring")
    BY <2>1, <2>2
  <2> QED BY <2>3
<1>i. CASE Scoring(r)
  <2> DEFINE v == [w EXCEPT !.status = "scored"]
  <2>1. /\ v \in ScanState /\ v.status = "scored"
        /\ v.planned = w.planned /\ v.approved = w.approved
    BY <1>1 DEF ScanState, Status
  <2>2. PureNode(r, "scoring", v, "ai_synthesis")
    BY <1>i DEF Scoring
  <2> HIDE DEF v
  <2>3. Shape("scoring", v, "ai_synthesis")
    BY <2>1, <2>2
  <2> QED BY <2>3
<1>j. CASE AiSynthesis(r)
  <2>1. Shape("ai_synthesis", w, "reporting")
    BY <1>1, <1>j DEF AiSynthesis
  <2> QED BY <2>1
<1>k. CASE Reporting(r)
  <2> DEFINE v == Reported(w)
  <2>1. v \in ScanState /\ v.planned = w.planned /\ v.approved = w.approved
        /\ v.status \in {"completed", "failed"}
    BY <1>1 DEF ScanState, Status, Reported, ReportOutcome, Outcome
  <2>2. PureNode(r, "report_written", v, "END")
    BY <1>k DEF Reporting
  <2>3. Shape("report_written", v, "END")
    BY <2>1, <2>2
  <2> QED BY <2>3
<1> QED BY <1>a, <1>b, <1>c, <1>d, <1>e, <1>f, <1>g, <1>h, <1>i, <1>j, <1>k

\* The effect of a commit, and which invocations can commit at all.
LEMMA CommitShape ==
  ASSUME TypeOK, NEW r \in Run, NEW v \in ScanState, NEW next \in Node \cup {"END"},
         Commit(r, v, next)
  PROVE  /\ ckpt'.next = next /\ ckpt'.vals = v /\ ~Paused'
         /\ \A q \in Run \ {r} : run'[q] = run[q]
         /\ next = "END" => run'[r].phase = "done"
         /\ next # "END" => /\ run'[r].phase = run[r].phase
                            /\ run'[r].node = next /\ run'[r].vals = v
<1>1. DoneRun.phase = "done"
  BY DEF DoneRun, IdleRun
<1>2. run[r] \in Invocation
  BY DEF TypeOK
<1> QED BY <1>1, <1>2 DEF Commit, TypeOK, Invocation, Paused

\* A run that is neither idle nor done is busy.
LEMMA Phases ==
  ASSUME TypeOK, NEW r \in Run
  PROVE  \/ Busy(r) /\ run[r].phase \notin {"idle", "done"}
         \/ ~Busy(r) /\ run[r].phase \in {"idle", "done"}
BY DEF TypeOK, Invocation, Phase, Busy

\* Committing from the latest checkpoint, as the only invocation at work.
LEMMA SoleCommit ==
  ASSUME Inv, Sole, NEW r \in Run, NEW v \in ScanState, NEW next \in Node \cup {"END"},
         Undisturbed,
         Commit(r, v, next),
         UNCHANGED <<outside, people, disk, orphans, faults, executed>>,
         run[r].phase \in {"active", "persisting"},
         next # "END" => run[r].phase = "active" /\ ~Complete,
         v.status = "completed" => next = "END"
  PROVE  Sole'
<1>1. /\ ckpt'.next = next /\ ckpt'.vals = v /\ ~Paused'
      /\ \A q \in Run \ {r} : run'[q] = run[q]
      /\ next = "END" => run'[r].phase = "done"
      /\ next # "END" => /\ run'[r].phase = run[r].phase
                         /\ run'[r].node = next /\ run'[r].vals = v
  BY CommitShape DEF Inv
<1>2. Busy(r) /\ \A q \in Run \ {r} : ~Busy(q) /\ ~Busy(q)'
  BY <1>1 DEF Sole, OneAtWork, Busy
<1>3. OneAtWork'
  <2>1. \A p, q \in Run : Busy(p)' /\ Busy(q)' => p = q
    BY <1>2
  <2>2. \A q \in Run : Synced(q)'
    <3> TAKE q \in Run
    <3>1. CASE q = r /\ next # "END"
      BY <1>1, <3>1 DEF Synced, StartedFrom, Node
    <3>2. CASE q = r /\ next = "END"
      BY <1>1, <3>2 DEF Synced
    <3>3. CASE q # r
      BY <1>2, <3>3 DEF Synced, Busy
    <3> QED BY <3>1, <3>2, <3>3
  <2>3. "recovery" \in Run /\ run'["recovery"].phase \notin {"queued", "active"}
    BY <1>1, <1>2 DEF Sole, OneAtWork, Run, Busy
  <2>4. Complete' => \A q \in Run : Busy(q)' => q = "recovery"
    BY <1>1, <1>2 DEF Complete, Busy
  <2> QED BY <2>1, <2>2, <2>3, <2>4 DEF OneAtWork
<1>4. ServiceInv'
  <2>1. service # "recovering" => run'["recovery"].phase = "idle"
    BY <1>1 DEF Sole, ServiceInv, Run
  <2>2. service # "up" => run'["start"].phase = "idle"
    BY <1>1 DEF Sole, ServiceInv, Run
  <2> QED BY <2>1, <2>2 DEF Sole, ServiceInv, outside, people
<1>5. GateInv'
  <2>1. ASSUME NEW a \in Approvers
        PROVE  /\ approver'[a] = "accepted" => run'[a].phase # "idle"
               /\ ~(approver'[a] = "checked" \/ run'[a].phase = "queued")
    <3>1. a \in Run /\ a # "start" /\ a # "recovery" /\ approver'[a] = approver[a]
      BY RunsAssumption DEF Run, people
    <3>2. CASE a = r
      <4>1. approver[a] = "accepted"
        BY <3>1, <3>2 DEF Inv, Accepted
      <4> QED BY <1>1, <3>1, <3>2, <4>1
    <3>3. CASE a # r
      <4>1. run'[a] = run[a] /\ run[a].phase # "queued"
        BY <1>1, <1>2, <3>1, <3>3 DEF Busy
      <4>2. approver[a] # "checked"
        <5> SUFFICES ASSUME approver[a] = "checked" PROVE FALSE
          OBVIOUS
        <5>1. r # "start"
          BY <1>2, <5>1 DEF Sole, GateInv
        <5>2. r # "recovery"
          BY <1>2 DEF Sole, ServiceInv, Busy
        <5>3. r \in Approvers /\ approver[r] = "accepted"
          BY <5>1, <5>2 DEF Run, Inv, Accepted
        <5> QED BY <3>3, <5>3 DEF Undisturbed, InFlight
      <4> QED BY <3>1, <4>1, <4>2 DEF Sole, GateInv
    <3> QED BY <3>2, <3>3
  <2>2. Busy("start")' => Busy("start")
    BY <1>1, <1>2 DEF Run
  <2>3. run'["start"].phase # "queued"
    BY <1>1, <1>2 DEF Run, Busy
  <2> QED BY <1>1, <2>1, <2>2, <2>3 DEF Sole, GateInv, people
<1>6. RowInv'
  <2>1. row # "none"
    BY DEF Sole, RowInv
  <2>2. Complete => Complete'
    BY <1>1 DEF Complete
  <2>3. ckpt'.vals.status = "completed" => Complete'
    BY <1>1 DEF Complete
  <2> QED BY <2>1, <2>2, <2>3 DEF Sole, RowInv, outside
<1> QED BY <1>3, <1>4, <1>5, <1>6 DEF Sole

\* Every node that changes only the graph's state.
LEMMA SolePureNodes ==
  ASSUME Inv, Sole, Undisturbed, NEW r \in Run,
         NEW node \in Node \cup Effect, NEW next \in Node \cup {"END"},
         NEW v \in ScanState,
         PureNode(r, node, v, next), NodeFacts(r, node, v, next)
  PROVE  Sole'
<1>1. run[r].phase = "active" /\ run[r].node = node /\ Commit(r, v, next)
      /\ UNCHANGED <<outside, people, disk, orphans, faults, executed>>
  BY DEF PureNode, At
<1>2. ckpt.next = StartedFrom(node) /\ ckpt.vals.status = run[r].vals.status
  BY <1>1 DEF Sole, OneAtWork, Synced
<1>3. ~Complete
  BY <1>2 DEF Complete, StartedFrom, Node, Effect
<1>4. v.status = "completed" => next = "END"
  BY <1>2, <1>3 DEF NodeFacts, Sole, RowInv
<1> QED BY <1>1, <1>3, <1>4, SoleCommit

\* A step that only moves the invocation's point within its node, or its
\* phase, keeps the checkpoint and everybody else.
LEMMA SoleLocal ==
  ASSUME Inv, Sole, NEW r \in Run,
         Busy(r), run[r].phase # "queued",
         run' = [run EXCEPT ![r] = run'[r]],
         run'[r].phase \in {"active", "failing", "persisting", "done"},
         r = "recovery" => run'[r].phase # "active" /\ service = "recovering",
         Synced(r)',
         UNCHANGED <<ckpt, interrupted, outside, approver>>
  PROVE  Sole'
<1>1. /\ \A q \in Run \ {r} : run'[q] = run[q]
      /\ \A q \in Run : Busy(q)' => Busy(q)
  BY DEF Inv, TypeOK, Busy
<1>2. /\ Paused' = Paused /\ Complete' = Complete
      /\ UNCHANGED <<row, seen, service>>
  BY DEF Paused, Complete, outside
<1>3. "start" \in Run /\ "recovery" \in Run
  BY DEF Run
<1>4. OneAtWork'
  <2>1. \A q \in Run : Synced(q)'
    BY <1>1 DEF Sole, OneAtWork, Synced
  <2>2. run'["recovery"].phase \notin {"queued", "active"}
    BY <1>1, <1>3 DEF Sole, OneAtWork
  <2> QED BY <1>1, <1>2, <2>1, <2>2 DEF Sole, OneAtWork
<1>5. ServiceInv'
  BY <1>1, <1>2, <1>3 DEF Sole, ServiceInv, Busy
<1>6. GateInv'
  <2>1. ASSUME NEW a \in Approvers
        PROVE  /\ run[a].phase # "idle" => run'[a].phase # "idle"
               /\ run'[a].phase = "queued" => run[a].phase = "queued"
    BY <1>1 DEF Run
  <2> QED BY <1>1, <1>2, <1>3, <2>1 DEF Sole, GateInv
<1>7. RowInv'
  BY <1>2 DEF Sole, RowInv, Busy
<1> QED BY <1>4, <1>5, <1>6, <1>7 DEF Sole

\* Nothing is known of the recovery's invocation unless the service recovers.
LEMMA WhoIsAtWork ==
  ASSUME Inv, Sole, NEW r \in Run
  PROVE  /\ run[r].phase = "active" => r # "recovery"
         /\ Up /\ Busy(r) => r # "recovery"
         /\ ~Up /\ Busy(r) => r = "recovery" /\ service = "recovering"
<1>1. r \in Approvers => (Busy(r) => approver[r] = "accepted")
  BY DEF Inv, Accepted, Busy
<1> QED BY <1>1 DEF Sole, OneAtWork, ServiceInv, Busy, Up, Run

LEMMA SoleRunSteps ==
  ASSUME Inv, Sole, Undisturbed, NEW r \in Run,
         \/ GateInterrupts(r) \/ ActiveToolsRun(r) \/ ReportWritten(r)
         \/ RunFails(r)
  PROVE  Sole'
<1>1. run[r] \in Invocation /\ run \in [Run -> Invocation]
  BY DEF Inv, TypeOK
<1>2. DoneRun.phase = "done" /\ IdleRun.phase = "idle"
  BY DEF DoneRun, IdleRun
<1>3. run[r].phase = "active" => Synced(r) /\ r # "recovery"
  BY WhoIsAtWork DEF Sole, OneAtWork
<1>a. CASE GateInterrupts(r)
  <2> USE <1>a DEF GateInterrupts, At
  <2>1. r = "start" /\ Busy(r) /\ ckpt.next = "human_approval_gate"
    BY <1>3 DEF Run, HasDecision, Busy, Synced, StartedFrom
  <2>2. run'[r].phase = "done" /\ \A q \in Run \ {r} : run'[q] = run[q] /\ ~Busy(q)
    BY <1>1, <1>2, <2>1 DEF Sole, OneAtWork
  <2>3. \A q \in Run : ~Busy(q)'
    BY <2>2 DEF Busy
  <2>4. UNCHANGED <<row, seen, service, approver>> /\ Complete' = Complete /\ Paused'
    BY DEF outside, people, Complete, Paused
  <2>5. OneAtWork'
    <3>1. \A q \in Run : run'[q].phase \notin {"queued", "active"}
      BY <2>3 DEF Busy
    <3> QED BY <2>3, <3>1 DEF OneAtWork, Synced, Run
  <2>6. ServiceInv'
    BY <1>2, <2>1, <2>2, <2>4 DEF Sole, ServiceInv, Run, Up
  <2>7. GateInv'
    <3>1. \A a \in Approvers : run'[a] = run[a]
      BY <2>1, <2>2, RunsAssumption DEF Run
    <3> QED BY <2>1, <2>2, <2>3, <2>4, <3>1 DEF Sole, GateInv
  <2>8. RowInv'
    BY <2>1, <2>4 DEF Sole, RowInv
  <2> QED BY <2>5, <2>6, <2>7, <2>8 DEF Sole
<1>b. CASE ActiveToolsRun(r)
  <2> USE <1>b DEF ActiveToolsRun, At
  <2>1. PICK started \in SUBSET ActiveToolSelection(run[r].vals) :
          run' = [run EXCEPT ![r].node = "tools_run", ![r].vals.ran = started]
    OBVIOUS
  <2>2. /\ run'[r].phase = "active" /\ run'[r].node = "tools_run"
        /\ run'[r].vals = [run[r].vals EXCEPT !.ran = started]
        /\ run' = [run EXCEPT ![r] = run'[r]]
    BY <1>1, <2>1 DEF Invocation
  <2>3. /\ run'[r].vals.status = run[r].vals.status
        /\ run'[r].vals.planned = run[r].vals.planned
        /\ run'[r].vals.approved = run[r].vals.approved
    BY <1>1, <2>2 DEF Invocation, ScanState
  <2>4. Synced(r)'
    BY <1>3, <2>2, <2>3 DEF Synced, StartedFrom
  <2> QED BY <1>3, <2>2, <2>4, SoleLocal DEF Busy, people
<1>c. CASE ReportWritten(r)
  <2> USE <1>c DEF ReportWritten, At
  <2>1. /\ run'[r].phase = "active" /\ run'[r].node = "report_written"
        /\ run'[r].vals = run[r].vals
        /\ run' = [run EXCEPT ![r] = run'[r]]
    BY <1>1 DEF Invocation
  <2>2. Synced(r)'
    BY <1>3, <2>1 DEF Synced, StartedFrom
  <2> QED BY <1>3, <2>1, <2>2, SoleLocal DEF Busy, people
<1>d. CASE TimesOut(r) \/ NodeRaises(r)
  <2> USE <1>d DEF TimesOut, NodeRaises
  <2>1. run[r].phase = "active" /\ run'[r].phase = "failing"
        /\ run' = [run EXCEPT ![r] = run'[r]]
    BY <1>1 DEF Invocation
  <2>2. Synced(r)'
    BY <2>1 DEF Synced
  <2> QED BY <1>3, <2>1, <2>2, SoleLocal DEF Busy, people
<1>e. CASE FailedReportWritten(r)
  <2> USE <1>e DEF FailedReportWritten, Failing
  <2>1. PICK failed : run' = [run EXCEPT ![r].phase = "persisting", ![r].vals = failed]
    OBVIOUS
  <2>2. run[r].phase = "failing" /\ run'[r].phase = "persisting"
        /\ run' = [run EXCEPT ![r] = run'[r]]
    BY <1>1, <2>1 DEF Invocation
  <2>3. Synced(r)'
    BY <2>2 DEF Synced
  <2>4. r = "recovery" => service = "recovering"
    BY <2>2, WhoIsAtWork DEF Busy, Up
  <2> QED BY <2>2, <2>3, <2>4, SoleLocal DEF Busy, people
<1>f. CASE FailedStatePersisted(r)
  <2> USE <1>f DEF FailedStatePersisted
  <2>1. run[r].vals \in ScanState
    BY <1>1 DEF Invocation
  <2> QED BY <2>1, SoleCommit
<1>g. CASE FailedStateLost(r) \/ (FailedReportRaises(r) /\ service # "recovering")
  <2> USE <1>g DEF FailedStateLost, FailedReportRaises, Failing
  <2>1. run[r].phase \in {"failing", "persisting"} /\ run'[r].phase = "done"
        /\ run' = [run EXCEPT ![r] = run'[r]]
    BY <1>1, <1>2
  <2>2. Synced(r)'
    BY <2>1 DEF Synced
  <2>3. r = "recovery" => service = "recovering"
    BY <2>1, WhoIsAtWork DEF Busy, Up
  <2>4. UNCHANGED <<ckpt, interrupted, outside, approver>>
    BY DEF outside, people
  <2> QED BY <2>1, <2>2, <2>3, <2>4, SoleLocal DEF Busy
<1>h. CASE FailedReportRaises(r) /\ service = "recovering"
  <2> USE <1>h DEF FailedReportRaises, Failing
  <2>1. r = "recovery" /\ Busy(r)
    BY WhoIsAtWork DEF Busy, Up
  <2>2. run'[r].phase = "idle" /\ \A q \in Run \ {r} : run'[q] = run[q] /\ ~Busy(q)
    BY <1>1, <1>2, <2>1 DEF Sole, OneAtWork
  <2>3. \A q \in Run : ~Busy(q)'
    BY <2>2 DEF Busy
  <2>4. UNCHANGED <<row, seen, approver>> /\ Complete' = Complete
        /\ Paused' = Paused /\ service' = "down"
    BY DEF people, Complete, Paused
  <2>5. OneAtWork'
    <3>1. \A q \in Run : run'[q].phase \notin {"queued", "active"}
      BY <2>3 DEF Busy
    <3> QED BY <2>3, <3>1 DEF OneAtWork, Synced, Run
  <2>6. ServiceInv'
    BY <2>1, <2>2, <2>4 DEF Sole, ServiceInv, Run
  <2>7. GateInv'
    <3>1. \A a \in Approvers : run'[a] = run[a]
      BY <2>1, <2>2, RunsAssumption DEF Run
    <3>2. run'["start"].phase # "queued"
      BY <2>3 DEF Busy, Run
    <3> QED BY <2>3, <2>4, <3>1, <3>2 DEF Sole, GateInv, Run
  <2>8. RowInv'
    BY <2>1, <2>4 DEF Sole, RowInv, Busy
  <2> QED BY <2>5, <2>6, <2>7, <2>8 DEF Sole
<1> QED BY <1>a, <1>b, <1>c, <1>d, <1>e, <1>f, <1>g, <1>h DEF RunFails

LEMMA SoleOutsideSteps ==
  ASSUME Inv, Sole, Undisturbed,
         \/ OrphanReportWritten \/ Submit \/ BeginStart
         \/ \E a \in Approvers : ApproveRead(a) \/ ApproveDecide(a) \/ ResumeBegin(a)
         \/ \E p \in Pollers : PollRead(p) \/ PollWrite(p)
         \/ Crash \/ Restart \/ RecoverRow
  PROVE  Sole'
<1>1. TypeOK /\ run \in [Run -> Invocation]
  BY DEF Inv, TypeOK
<1>2. DoneRun.phase = "done" /\ IdleRun.phase = "idle"
  BY DEF DoneRun, IdleRun
<1>3. "start" \in Run /\ "recovery" \in Run
      /\ \A a \in Approvers : a \in Run /\ a # "start" /\ a # "recovery"
  BY RunsAssumption DEF Run
<1>4. \A a \in Approvers : Accepted(a)
  BY DEF Inv
<1>5. \A r \in Run : IF Busy(r) THEN run[r].phase \notin {"idle", "done"}
                     ELSE run[r].phase \in {"idle", "done"}
  BY <1>1, Phases
<1>a. CASE OrphanReportWritten
  <2> USE <1>a DEF OrphanReportWritten
  <2>1. UNCHANGED <<ckpt, interrupted, run, row, seen, service, approver>>
    BY DEF outside, people
  <2> QED BY <2>1 DEF Sole, OneAtWork, ServiceInv, GateInv, RowInv, Busy, Synced,
                      Complete, Paused
<1>b. CASE Submit
  <2> USE <1>b DEF Submit
  <2>1. /\ row = "none" /\ row' # "none" /\ row' # "completed" /\ service = "up"
        /\ UNCHANGED <<ckpt, interrupted, approver, seen, service>>
    BY DEF Up, people
  <2>2. /\ ckpt.next = "none" /\ ~Complete /\ ~Paused
        /\ \A r \in Run : run[r].phase = "idle"
        /\ \A a \in Approvers : approver[a] \notin {"checked", "accepted"}
    BY <1>4, <2>1 DEF Sole, RowInv, GateInv, Complete, Accepted
  <2>3. /\ run'["start"].phase = "queued"
        /\ \A r \in Run \ {"start"} : run'[r] = run[r]
    BY <1>1, <1>3 DEF Invocation
  <2>4. OneAtWork'
    BY <1>3, <2>1, <2>2, <2>3 DEF OneAtWork, Synced, Busy, Complete
  <2>5. ServiceInv'
    BY <1>3, <2>1, <2>2, <2>3 DEF ServiceInv
  <2>6. GateInv'
    BY <1>3, <2>1, <2>2, <2>3 DEF GateInv, Paused
  <2>7. RowInv'
    BY <2>1 DEF Sole, RowInv, Complete
  <2> QED BY <2>4, <2>5, <2>6, <2>7 DEF Sole
<1>c. CASE BeginStart
  <2> USE <1>c DEF BeginStart
  <2>1. UNCHANGED <<row, seen, service, approver>> /\ service = "up"
    BY DEF outside, people, Up
  <2>2. Busy("start") /\ ckpt.next = "none" /\ ~Complete
    BY DEF Sole, GateInv, Busy, Complete
  <2>3. /\ \A r \in Run \ {"start"} : ~Busy(r) /\ run[r].phase \in {"idle", "done"}
        /\ \A a \in Approvers : approver[a] \notin {"checked", "accepted"}
    BY <1>3, <1>5, <2>2 DEF Sole, OneAtWork, GateInv
  <2>4. /\ run'["start"] = [IdleRun EXCEPT !.phase = "active"]
        /\ \A r \in Run \ {"start"} : run'[r] = run[r]
    BY <1>1, <1>3
  <2>5. /\ run'["start"].phase = "active" /\ run'["start"].node = "check_scope"
        /\ run'["start"].vals = InitialState
    BY <2>4 DEF IdleRun
  <2>6. /\ ckpt'.next = "check_scope" /\ ckpt'.vals = InitialState
        /\ ~Complete' /\ ~Paused' /\ InitialState.status = "pending"
    BY DEF Complete, Paused, InitialState
  <2>7. OneAtWork'
    BY <1>3, <2>3, <2>4, <2>5, <2>6
       DEF Sole, OneAtWork, Synced, Busy, StartedFrom
  <2>8. ServiceInv'
    BY <1>3, <2>1, <2>4 DEF Sole, ServiceInv
  <2>9. GateInv'
    BY <1>3, <2>1, <2>3, <2>4, <2>5, <2>6 DEF Sole, GateInv
  <2>10. RowInv'
    BY <1>3, <2>1, <2>2, <2>6 DEF Sole, RowInv, Busy
  <2> QED BY <2>7, <2>8, <2>9, <2>10 DEF Sole
<1>d. ASSUME NEW a \in Approvers, ApproveRead(a)
      PROVE  Sole'
  <2> USE <1>d DEF ApproveRead
  <2>1. UNCHANGED <<ckpt, interrupted, run, row, seen, service>> /\ service = "up"
        /\ Complete' = Complete /\ Paused' = Paused
    BY DEF outside, Up, Complete, Paused
  <2>2. /\ approver[a] = "idle"
        /\ approver'[a] = IF ~Complete /\ Paused THEN "checked" ELSE "refused"
        /\ \A b \in Approvers \ {a} : approver'[b] = approver[b]
    BY <1>1 DEF TypeOK
  <2>3. OneAtWork' /\ ServiceInv' /\ RowInv'
    BY <2>1 DEF Sole, OneAtWork, ServiceInv, RowInv, Busy, Synced
  <2>4. GateInv'
    BY <2>1, <2>2 DEF Sole, GateInv, Busy
  <2> QED BY <2>3, <2>4 DEF Sole
<1>e. ASSUME NEW a \in Approvers, ApproveDecide(a)
      PROVE  Sole'
  <2> USE <1>e DEF ApproveDecide
  <2>1. UNCHANGED <<ckpt, interrupted, row, seen, service>> /\ service = "up"
        /\ Complete' = Complete /\ Paused' = Paused
    BY DEF outside, Up, Complete, Paused
  <2>2. /\ approver[a] = "checked" /\ Paused /\ run[a].phase = "idle"
        /\ ckpt.next = "human_approval_gate" /\ ~Complete
    BY <1>4 DEF Sole, GateInv, Accepted, Complete
  <2>3. CASE approver' = [approver EXCEPT ![a] = "refused"] /\ UNCHANGED run
    <3>1. OneAtWork' /\ ServiceInv' /\ RowInv'
      BY <2>1, <2>3 DEF Sole, OneAtWork, ServiceInv, RowInv, Busy, Synced
    <3>2. approver'[a] = "refused" /\ \A b \in Approvers \ {a} : approver'[b] = approver[b]
      BY <1>1, <2>3 DEF TypeOK
    <3>3. GateInv'
      BY <2>1, <2>3, <3>2 DEF Sole, GateInv, Busy
    <3> QED BY <3>1, <3>3 DEF Sole
  <2>4. CASE /\ approver' = [approver EXCEPT ![a] = "accepted"]
             /\ run' = [run EXCEPT ![a].phase = "queued"]
    <3>1. /\ approver'[a] = "accepted"
          /\ \A b \in Approvers \ {a} : approver'[b] = approver[b]
      BY <1>1, <2>4 DEF TypeOK
    <3>2. run'[a].phase = "queued" /\ \A r \in Run \ {a} : run'[r] = run[r]
      BY <1>1, <1>3, <2>4 DEF Invocation
    <3>3. \A r \in Run : ~Busy(r)
      <4> SUFFICES ASSUME NEW r \in Run, Busy(r) PROVE FALSE
        OBVIOUS
      <4>1. r # "start" /\ r # "recovery"
        BY <2>1, <2>2 DEF Sole, GateInv, ServiceInv, Busy
      <4>2. r \in Approvers /\ approver[r] = "accepted"
        BY <1>4, <4>1 DEF Run, Accepted, Busy
      <4>3. run[r].phase # "done"
        BY DEF Busy
      <4> QED BY <2>2, <4>2, <4>3 DEF Undisturbed, InFlight
    <3>4. \A r \in Run \ {a} : ~Busy(r)'
      BY <3>2, <3>3 DEF Busy
    <3>5. OneAtWork'
      <4>1. \A r \in Run : Synced(r)'
        BY <2>1, <3>2 DEF Sole, OneAtWork, Synced
      <4> QED BY <1>3, <2>1, <2>2, <3>2, <3>4, <4>1 DEF Sole, OneAtWork
    <3>6. ServiceInv'
      BY <1>3, <2>1, <3>2 DEF Sole, ServiceInv
    <3>7. GateInv'
      BY <1>3, <2>1, <2>2, <3>1, <3>2, <3>4 DEF Sole, GateInv
    <3>8. RowInv'
      BY <2>1, <2>2 DEF Sole, RowInv
    <3> QED BY <3>5, <3>6, <3>7, <3>8 DEF Sole
  <2> QED BY <2>3, <2>4
<1>f. ASSUME NEW a \in Approvers, ResumeBegin(a)
      PROVE  Sole'
  <2> USE <1>f DEF ResumeBegin
  <2>1. UNCHANGED <<ckpt, interrupted, row, seen, service, approver>> /\ service = "up"
        /\ Complete' = Complete /\ Paused' = Paused
    BY DEF outside, people, Up, Complete, Paused
  <2>2. /\ Busy(a) /\ Paused /\ ckpt.next = "human_approval_gate" /\ ~Complete
    BY DEF Sole, GateInv, Complete, Busy
  <2>3. /\ run'[a].phase = "active" /\ run'[a].node = ckpt.next
        /\ run'[a].vals = ckpt.vals
        /\ \A r \in Run \ {a} : run'[r] = run[r]
    BY <1>1, <1>3, <2>2 DEF Invocation
  <2>4. \A r \in Run \ {a} : ~Busy(r) /\ ~Busy(r)'
    BY <1>3, <2>2, <2>3 DEF Sole, OneAtWork, Busy
  <2>5. OneAtWork'
    <3>1. StartedFrom(ckpt.next) = ckpt.next
      BY <2>2 DEF StartedFrom
    <3>2. Synced(a)'
      BY <2>1, <2>3, <3>1 DEF Synced
    <3>3. \A r \in Run \ {a} : Synced(r)'
      BY <2>1, <2>3 DEF Sole, OneAtWork, Synced
    <3> QED BY <1>3, <2>1, <2>2, <2>3, <2>4, <3>2, <3>3 DEF Sole, OneAtWork
  <2>6. ServiceInv'
    BY <1>3, <2>1, <2>3 DEF Sole, ServiceInv
  <2>7. GateInv'
    BY <1>3, <2>1, <2>3, <2>4 DEF Sole, GateInv
  <2>8. RowInv'
    BY <1>3, <2>1, <2>2 DEF Sole, RowInv, Busy
  <2> QED BY <2>5, <2>6, <2>7, <2>8 DEF Sole
<1>g. ASSUME NEW p \in Pollers, PollRead(p) \/ PollWrite(p)
      PROVE  Sole'
  <2> USE <1>g DEF PollRead, PollWrite
  <2>1. UNCHANGED <<ckpt, interrupted, run, approver, service>>
        /\ Complete' = Complete /\ Paused' = Paused
    BY DEF people, Complete, Paused
  <2>2. DisplayStatus # "none" /\ (DisplayStatus = "completed" => Complete)
    BY <1>1 DEF DisplayStatus, Sole, RowInv, TypeOK, Checkpoint, ScanState, Status
  <2>3. RowInv'
    BY <1>1, <2>1, <2>2 DEF Sole, RowInv, TypeOK
  <2> QED BY <2>1, <2>3 DEF Sole, OneAtWork, ServiceInv, GateInv, Busy, Synced
<1>h. CASE Crash
  <2> USE <1>h DEF Crash
  <2>1. /\ \A r \in Run : run'[r].phase = "idle"
        /\ \A a \in Approvers : approver'[a] \in {"idle", "closed"}
        /\ \A p \in Pollers : seen'[p] = "none"
        /\ UNCHANGED <<ckpt, interrupted, row>> /\ service' = "down"
        /\ Complete' = Complete /\ Paused' = Paused
    BY <1>2 DEF Complete, Paused
  <2> QED BY <1>3, <2>1
          DEF Sole, OneAtWork, ServiceInv, GateInv, RowInv, Busy, Synced
<1>i. CASE Restart
  <2> USE <1>i DEF Restart
  <2>1. UNCHANGED <<ckpt, interrupted, approver, row, seen>> /\ service = "down"
        /\ Complete' = Complete /\ Paused' = Paused
    BY DEF people, Complete, Paused
  <2>2. /\ \A a \in Approvers : approver[a] \in {"idle", "closed"}
        /\ \A r \in Run : run[r].phase = "idle"
    BY <1>4, <2>1 DEF Sole, ServiceInv, Run, Accepted
  <2>3. CASE UNCHANGED run /\ service' = "up"
    BY <1>3, <2>1, <2>2, <2>3
       DEF Sole, OneAtWork, ServiceInv, GateInv, RowInv, Busy, Synced
  <2>4. CASE /\ Recoverable /\ service' = "recovering"
             /\ run' = [run EXCEPT !["recovery"].phase = "failing",
                          !["recovery"].code = "service_restart_interrupted"]
    <3>1. /\ run'["recovery"].phase = "failing"
          /\ \A r \in Run \ {"recovery"} : run'[r] = run[r]
      BY <1>1, <1>3, <2>4 DEF Invocation
    <3>2. row # "none"
      BY <2>4 DEF Recoverable, ActiveStatuses
    <3>3. \A r \in Run \ {"recovery"} : ~Busy(r)' /\ run'[r].phase = "idle"
      BY <2>2, <3>1 DEF Busy
    <3>4. OneAtWork'
      BY <1>3, <3>1, <3>3 DEF OneAtWork, Synced
    <3>5. ServiceInv'
      BY <1>3, <2>1, <2>2, <2>4, <3>3 DEF ServiceInv
    <3>6. GateInv'
      BY <1>3, <2>1, <2>2, <3>3 DEF Sole, GateInv
    <3>7. RowInv'
      BY <2>1, <3>2 DEF Sole, RowInv
    <3> QED BY <3>4, <3>5, <3>6, <3>7 DEF Sole
  <2> QED BY <2>3, <2>4
<1>j. CASE RecoverRow
  <2> USE <1>j DEF RecoverRow
  <2>1. UNCHANGED <<ckpt, interrupted, approver, seen>> /\ row' = "failed"
        /\ service = "recovering" /\ service' = "up"
        /\ Complete' = Complete /\ Paused' = Paused
    BY DEF people, Complete, Paused
  <2>2. /\ \A a \in Approvers : approver[a] \in {"idle", "closed"}
        /\ \A r \in Run \ {"recovery"} : run[r].phase = "idle"
    BY <1>4, <2>1 DEF Sole, ServiceInv, Run, Accepted
  <2>3. \A r \in Run : run'[r].phase = "idle"
    BY <1>1, <1>2, <2>2
  <2> QED BY <1>3, <2>1, <2>2, <2>3
          DEF Sole, OneAtWork, ServiceInv, GateInv, RowInv, Busy, Synced
<1> QED
  BY <1>a, <1>b, <1>c, <1>d, <1>e, <1>f, <1>g, <1>h, <1>i, <1>j

LEMMA SoleInit == Init => Sole
<1>1. IdleRun.phase = "idle" /\ InitialState.status = "pending"
  BY DEF IdleRun, InitialState
<1> QED BY <1>1 DEF Init, Sole, OneAtWork, ServiceInv, GateInv, RowInv, Busy, Synced,
                    Complete, Paused, Run

LEMMA SoleStep == Inv /\ Sole /\ Undisturbed /\ [Next]_vars => Sole'
<1> SUFFICES ASSUME Inv, Sole, Undisturbed, [Next]_vars PROVE Sole'
  OBVIOUS
<1>1. CASE UNCHANGED vars
  BY <1>1 DEF vars, Sole, OneAtWork, ServiceInv, GateInv, RowInv, Busy, Synced,
              Complete, Paused
<1>2. ASSUME NEW r \in Run, RunNode(r) \/ RunFails(r)
      PROVE  Sole'
  BY <1>2, NodeShape, SolePureNodes, SoleRunSteps DEF RunNode
<1> QED BY <1>1, <1>2, SoleOutsideSteps DEF Next

LEMMA SoleInvariance == SafetySpec /\ []Undisturbed => []Sole
BY Invariance, SoleInit, SoleStep, PTL DEF SafetySpec

\* However polls, crashes and failed stores interleave with the graph, a scan
\* is shown as completed only when its report is there, as long as no two
\* approvals overlap.
THEOREM CompletedRowsHaveReports ==
  SafetySpec /\ []Undisturbed => []CompletedRowHasReport
<1>1. Inv /\ Sole => CompletedRowHasReport
  BY DEF Inv, Sole, RowInv, CompletedRowHasReport
<1> QED BY <1>1, Invariance, SoleInvariance, PTL

\* The approval in the thread's state covers what was started, and so does the
\* failed state a handler is about to persist.
Covered ==
  /\ ckpt.next \in BeforeGate => executed = {}
  /\ executed \subseteq ckpt.vals.approved
  /\ \A r \in Run : run[r].phase = "persisting" => executed \subseteq run[r].vals.approved

\* A step that starts no tool and writes neither a checkpoint nor a failed state.
LEMMA CoveredKept ==
  ASSUME Covered, UNCHANGED <<ckpt, executed>>,
         \A r \in Run : run'[r].phase = "persisting" =>
                          run[r].phase = "persisting" /\ run'[r].vals = run[r].vals
  PROVE  Covered'
BY DEF Covered

LEMMA CoveredRunSteps ==
  ASSUME Inv, Sole, Covered, faults' = 0, NEW r \in Run, RunNode(r) \/ RunFails(r)
  PROVE  Covered'
<1>1. run[r] \in Invocation /\ run \in [Run -> Invocation] /\ run[r].vals \in ScanState
      /\ ckpt.vals \in ScanState /\ faults \in Nat
  BY DEF Inv, TypeOK, Invocation, Checkpoint
<1>2. DoneRun.phase = "done" /\ IdleRun.phase = "idle"
  BY DEF DoneRun, IdleRun
<1>3. run[r].phase = "active" => Synced(r)
  BY DEF Sole, OneAtWork
<1>4. Busy(r) => \A q \in Run \ {r} : run[q].phase # "persisting"
  BY DEF Sole, OneAtWork, Busy
<1>a. ASSUME NEW node \in Node \cup Effect, NEW next \in Node \cup {"END"},
             NEW v \in ScanState, PureNode(r, node, v, next), NodeFacts(r, node, v, next)
      PROVE  Covered'
  <2>1. run[r].phase = "active" /\ run[r].node = node /\ Commit(r, v, next)
        /\ executed' = executed
    BY <1>a DEF PureNode, At
  <2>2. ckpt.next = StartedFrom(node) /\ ckpt.vals.approved = run[r].vals.approved
    BY <1>3, <2>1 DEF Synced
  <2>3. /\ ckpt'.next = next /\ ckpt'.vals = v
        /\ \A q \in Run \ {r} : run'[q] = run[q]
        /\ run'[r].phase \in {"active", "done"}
    BY <2>1, CommitShape DEF Inv
  <2>4. next \in BeforeGate => executed = {}
    BY <1>a, <2>2 DEF Covered, NodeFacts, StartedFrom, BeforeGate, BeforePlan
  <2>5. executed \subseteq v.approved
    BY <1>a, <2>2 DEF Covered, NodeFacts, StartedFrom, BeforeGate
  <2>6. \A q \in Run \ {r} : run[q].phase # "persisting"
    BY <1>4, <2>1 DEF Busy
  <2>7. \A q \in Run : run'[q].phase # "persisting"
    BY <2>3, <2>6
  <2> QED BY <2>1, <2>3, <2>4, <2>5, <2>7 DEF Covered
<1>b. CASE ActiveToolsRun(r)
  <2> USE <1>b DEF ActiveToolsRun, At
  <2>1. PICK started \in SUBSET ActiveToolSelection(run[r].vals) :
          /\ executed' = executed \cup started
          /\ run' = [run EXCEPT ![r].node = "tools_run", ![r].vals.ran = started]
    OBVIOUS
  <2>2. started \subseteq ckpt.vals.approved /\ ckpt.next = "active_detection"
    BY <1>1, <1>3, ActiveToolSelectionBound DEF Synced, StartedFrom
  <2>3. run'[r].phase = "active" /\ \A q \in Run \ {r} : run'[q] = run[q]
    BY <1>1, <2>1 DEF Invocation
  <2>4. \A q \in Run : run'[q].phase # "persisting"
    BY <1>4, <2>3 DEF Busy
  <2> QED BY <2>1, <2>2, <2>4 DEF Covered, BeforeGate, BeforePlan
<1>c. CASE GateInterrupts(r) \/ ReportWritten(r) \/ TimesOut(r) \/ NodeRaises(r)
           \/ FailedStateLost(r) \/ FailedReportRaises(r)
  <2> USE <1>c DEF GateInterrupts, ReportWritten, TimesOut, NodeRaises,
                   FailedStateLost, FailedReportRaises
  <2>1. UNCHANGED <<ckpt, executed>>
    OBVIOUS
  <2>2. \A q \in Run \ {r} : run'[q] = run[q]
    BY <1>1
  <2>3. run'[r].phase # "persisting"
    BY <1>1, <1>2 DEF Invocation, At
  <2> QED BY <2>1, <2>2, <2>3, CoveredKept
<1>d. CASE FailedReportWritten(r)
  <2>1. PICK readable \in BOOLEAN :
       LET v == IF readable /\ ckpt.next # "none" THEN ckpt.vals
                ELSE InitialState
           failed == FailedState(v, run[r].code)
       IN  /\ faults' = IF readable THEN faults ELSE faults + 1
           /\ run' = [run EXCEPT ![r].phase = "persisting", ![r].vals = failed]
    BY <1>d DEF FailedReportWritten
  <2> DEFINE v == IF ckpt.next # "none" THEN ckpt.vals ELSE InitialState
             failed == FailedState(v, run[r].code)
  <2>2. readable
    BY <1>1, <2>1
  <2>3. run' = [run EXCEPT ![r].phase = "persisting", ![r].vals = failed]
    BY <2>1, <2>2
  <2>4. v \in ScanState
    BY <1>1, InitialStateAt
  <2>5. executed \subseteq v.approved
    BY DEF Covered, BeforeGate, BeforePlan
  <2> HIDE DEF v
  <2>6. failed.approved = v.approved
    BY <2>4 DEF FailedState, Reported, ScanState
  <2> HIDE DEF failed
  <2>7. run'[r].vals = failed /\ \A q \in Run \ {r} : run'[q] = run[q]
    BY <1>1, <2>3 DEF Invocation
  <2>8. UNCHANGED <<ckpt, executed>>
    BY <1>d DEF FailedReportWritten
  <2> QED BY <2>5, <2>6, <2>7, <2>8 DEF Covered
<1>e. CASE FailedStatePersisted(r)
  <2>1. run[r].phase = "persisting" /\ Commit(r, run[r].vals, "END") /\ executed' = executed
    BY <1>e DEF FailedStatePersisted
  <2>2. /\ ckpt'.next = "END" /\ ckpt'.vals = run[r].vals
        /\ \A q \in Run \ {r} : run'[q] = run[q]
        /\ run'[r].phase = "done"
    BY <1>1, <2>1, CommitShape DEF Inv
  <2> QED BY <2>1, <2>2 DEF Covered, BeforeGate, BeforePlan
<1>f. CASE \/ CheckScope(r) \/ Recon(r) \/ PassiveDetection(r) \/ PlanActiveTests(r)
           \/ GateResumes(r) \/ ActiveDetectionSkips(r) \/ ActiveDetectionEnds(r)
           \/ Verification(r) \/ Scoring(r) \/ AiSynthesis(r) \/ Reporting(r)
  BY <1>a, <1>f, NodeShape
<1> QED BY <1>b, <1>c, <1>d, <1>e, <1>f DEF RunNode, RunFails

LEMMA CoveredOutsideSteps ==
  ASSUME Inv, Sole, Covered,
         \/ OrphanReportWritten \/ Submit \/ BeginStart
         \/ \E a \in Approvers : ApproveRead(a) \/ ApproveDecide(a) \/ ResumeBegin(a)
         \/ \E p \in Pollers : PollRead(p) \/ PollWrite(p)
         \/ Crash \/ Restart \/ RecoverRow
  PROVE  Covered'
<1>1. run \in [Run -> Invocation]
  BY DEF Inv, TypeOK
<1>2. DoneRun.phase = "done" /\ IdleRun.phase = "idle"
  BY DEF DoneRun, IdleRun
<1>3. "start" \in Run /\ "recovery" \in Run /\ Approvers \subseteq Run
  BY DEF Run
<1>a. CASE BeginStart
  <2> USE <1>a DEF BeginStart
  <2>1. executed = {} /\ executed' = {}
    BY DEF Sole, GateInv, Covered, BeforeGate, BeforePlan
  <2> QED BY <2>1 DEF Covered
<1>b. CASE Crash
  <2> USE <1>b DEF Crash
  <2>1. \A r \in Run : run'[r].phase = "idle"
    BY <1>2
  <2> QED BY <2>1, CoveredKept
<1>c. ASSUME UNCHANGED <<ckpt, executed>>, NEW q \in Run,
             \A r \in Run \ {q} : run'[r] = run[r],
             run'[q].phase # "persisting" \/ run'[q] = run[q]
      PROVE  Covered'
  BY <1>c, CoveredKept
<1>d. CASE OrphanReportWritten \/ \E p \in Pollers : PollRead(p) \/ PollWrite(p)
  BY <1>3, <1>c, <1>d DEF OrphanReportWritten, PollRead, PollWrite
<1>e. CASE Submit
  BY <1>1, <1>3, <1>c, <1>e DEF Submit, Invocation
<1>f. ASSUME NEW a \in Approvers, ApproveRead(a) \/ ApproveDecide(a) \/ ResumeBegin(a)
      PROVE  Covered'
  <2>1. UNCHANGED <<ckpt, executed>>
    BY <1>f DEF ApproveRead, ApproveDecide, ResumeBegin
  <2>2. \A r \in Run \ {a} : run'[r] = run[r]
    BY <1>1, <1>f DEF ApproveRead, ApproveDecide, ResumeBegin
  <2>3. run'[a].phase # "persisting" \/ run'[a] = run[a]
    <3>1. a \in Run /\ run[a] \in Invocation
      BY <1>1, <1>3
    <3>2. CASE ApproveRead(a)
      BY <3>2 DEF ApproveRead
    <3>3. CASE ApproveDecide(a)
      <4>1. UNCHANGED run \/ run' = [run EXCEPT ![a].phase = "queued"]
        BY <3>3 DEF ApproveDecide
      <4> QED BY <1>1, <3>1, <4>1 DEF Invocation
    <3>4. CASE ResumeBegin(a)
      <4>1. \/ run' = [run EXCEPT ![a] = DoneRun]
            \/ run' = [run EXCEPT ![a] = [run[a] EXCEPT !.phase = "active",
                                           !.node = ckpt.next, !.vals = ckpt.vals]]
        BY <3>4 DEF ResumeBegin
      <4> QED BY <1>1, <1>2, <3>1, <4>1 DEF Invocation
    <3> QED BY <1>f, <3>2, <3>3, <3>4
  <2> QED BY <1>3, <1>c, <2>1, <2>2, <2>3
<1>g. CASE Restart
  BY <1>1, <1>3, <1>c, <1>g DEF Restart, Invocation
<1>h. CASE RecoverRow
  BY <1>1, <1>2, <1>3, <1>c, <1>h DEF RecoverRow
<1> QED BY <1>a, <1>b, <1>d, <1>e, <1>f, <1>g, <1>h

LEMMA CoveredInvariance ==
  SafetySpec /\ []Undisturbed /\ [](faults = 0) => []Covered
<1>1. Init => Covered
  BY DEF Init, Covered, IdleRun
<1>2. Inv /\ Sole /\ Covered /\ (faults = 0)' /\ [Next]_vars => Covered'
  <2> SUFFICES ASSUME Inv, Sole, Covered, faults' = 0, [Next]_vars PROVE Covered'
    OBVIOUS
  <2>1. CASE UNCHANGED vars
    BY <2>1, CoveredKept DEF vars
  <2>2. CASE Next
    BY <2>2, CoveredRunSteps, CoveredOutsideSteps DEF Next
  <2> QED BY <2>1, <2>2
<1> QED BY <1>1, <1>2, Invariance, SoleInvariance, PTL DEF SafetySpec

\* The approval a finished scan reports covers every intrusive tool it started,
\* through any crashes, timeouts and polls, as long as no two approvals overlap
\* and every stored snapshot can be read.
THEOREM FinalApprovalsCoverTools ==
  SafetySpec /\ []Undisturbed /\ [](faults = 0) => []FinalApprovalCoversExecuted
<1>1. Covered => FinalApprovalCoversExecuted
  BY DEF Covered, FinalApprovalCoversExecuted
<1> QED BY <1>1, CoveredInvariance, PTL

-----------------------------------------------------------------------------
(* ScanPipeline implements ScanLifecycle while the service stays up and no  *)
(* second request is shown the gate after one was accepted.                 *)

OneDecision ==
  \A a, b \in Approvers :
    {approver[a], approver[b]} \subseteq {"checked", "accepted"} => a = b

LEMMA OneDecisionUndisturbed == OneDecision => Undisturbed
BY DEF OneDecision, Undisturbed, InFlight

\* Plan and approval along the graph.
GatePlan ==
  /\ ckpt.next \in BeforePlan => ckpt.vals.planned = {}
  /\ ckpt.next \in BeforeGate => ckpt.vals.approved = {}
  /\ ckpt.next = "human_approval_gate" => ckpt.vals.planned # {}
  /\ ckpt.vals.status = "rejected" => ckpt.vals.planned # {}
  /\ \A r \in Run : run[r].phase = "persisting" => run[r].vals.outcome = "failed"

Nobody == \A a \in Approvers : approver[a] # "accepted"

\* What was granted is the one decision, and the thread works with it.
OneAnswer ==
  /\ service = "up"
  /\ \A a \in Approvers :
       /\ approver[a] \in {"checked", "accepted"} => ckpt.next \notin BeforePlan
       /\ approver[a] = "checked" => decision[a] = ckpt.vals.planned
       /\ approver[a] = "accepted" =>
            /\ granted = decision[a]
            /\ ~Complete => /\ ckpt.vals.planned # {}
                            /\ granted \subseteq ckpt.vals.planned
            /\ ~Complete /\ ckpt.next \notin BeforeGate => ckpt.vals.approved = granted
  /\ Nobody => /\ granted = {}
               /\ ~Complete /\ ckpt.next \notin BeforeGate => ckpt.vals.planned = {}

\* A step that leaves the checkpoint and the requests alone.
LEMMA AnswerKept ==
  ASSUME GatePlan, OneAnswer,
         UNCHANGED <<ckpt, approver, decision, granted, service>>,
         \A r \in Run : run'[r].phase = "persisting" =>
            run'[r].vals.outcome = "failed"
            \/ (run[r].phase = "persisting" /\ run'[r].vals = run[r].vals)
  PROVE  GatePlan' /\ OneAnswer'
<1>1. GatePlan'
  BY DEF GatePlan
<1>2. Complete' = Complete /\ Nobody' = Nobody
  BY DEF Complete, Nobody
<1> QED BY <1>1, <1>2 DEF OneAnswer

LEMMA AnswerNodeSteps ==
  ASSUME Inv, Sole, OneDecision, GatePlan, OneAnswer, NEW r \in Run,
         NEW node \in Node \cup Effect, NEW next \in Node \cup {"END"},
         NEW v \in ScanState,
         PureNode(r, node, v, next), NodeFacts(r, node, v, next)
  PROVE  GatePlan' /\ OneAnswer'
<1> DEFINE w == run[r].vals
<1>1. /\ run[r].phase = "active" /\ run[r].node = node
      /\ Commit(r, v, next)
      /\ UNCHANGED <<approver, decision, granted, service>>
  BY DEF PureNode, At, outside, people
<1>2. /\ ckpt.next = StartedFrom(node) /\ ckpt.vals.approved = w.approved
      /\ ckpt.vals.planned = w.planned /\ ckpt.vals.status = w.status
  BY <1>1 DEF Sole, OneAtWork, Synced
<1>3. /\ ckpt'.next = next /\ ckpt'.vals = v
      /\ \A q \in Run \ {r} : run'[q] = run[q]
  BY <1>1, CommitShape DEF Inv
<1>4. run'[r].phase \in {"active", "done"} /\ \A q \in Run \ {r} : run[q].phase # "persisting"
  <2>1. Busy(r)
    BY <1>1 DEF Busy
  <2>2. \A q \in Run \ {r} : ~Busy(q)
    BY <2>1 DEF Sole, OneAtWork
  <2> QED BY <1>1, <2>2, CommitShape DEF Inv, Busy
<1>5. ~Complete /\ (Complete' <=> next = "END") /\ (Nobody' <=> Nobody)
  BY <1>1, <1>2, <1>3 DEF Complete, StartedFrom, Node, Effect, Nobody
<1>6. \/ r = "start" /\ \A a \in Approvers : approver[a] \notin {"checked", "accepted"}
      \/ /\ r \in Approvers /\ approver[r] = "accepted"
         /\ \A a \in Approvers \ {r} : approver[a] \notin {"checked", "accepted"}
  <2>1. Busy(r) /\ r # "recovery"
    BY <1>1, WhoIsAtWork DEF Busy
  <2>2. r \in Approvers => approver[r] = "accepted"
    BY <2>1 DEF Inv, Accepted, Busy
  <2> QED BY <2>1, <2>2 DEF Sole, GateInv, Run, OneDecision
<1>7. /\ ckpt.next \in BeforePlan <=> node \in BeforePlan
      /\ ckpt.next \in BeforeGate <=> node \in BeforeGate
      /\ ckpt.next = "human_approval_gate" <=> node = "human_approval_gate"
  BY <1>2 DEF StartedFrom, BeforePlan, BeforeGate
<1>8. GatePlan'
  <2>1. next \in BeforePlan => v.planned = {}
    BY <1>2, <1>7 DEF GatePlan, NodeFacts
  <2>2. next \in BeforeGate => v.approved = {}
    BY <1>2, <1>7 DEF GatePlan, NodeFacts, BeforeGate, BeforePlan
  <2>3. v.status = "rejected" => v.planned # {}
    BY <1>2, <1>7 DEF GatePlan, NodeFacts, BeforePlan
  <2>4. next = "human_approval_gate" => v.planned # {}
    BY DEF NodeFacts
  <2>5. \A q \in Run : run'[q].phase # "persisting"
    BY <1>3, <1>4
  <2> QED BY <1>3, <2>1, <2>2, <2>3, <2>4, <2>5 DEF GatePlan
<1>9. ASSUME NEW a \in Approvers, approver[a] \in {"checked", "accepted"}
      PROVE  /\ approver[a] = "accepted"
             /\ next \notin BeforePlan
             /\ granted = decision[a]
             /\ v.planned # {} /\ granted \subseteq v.planned
             /\ v.approved = granted
  <2>1. r = a /\ approver[a] = "accepted"
    BY <1>6, <1>9
  <2>2. /\ ckpt.next \notin BeforePlan /\ granted = decision[a]
        /\ ckpt.vals.planned # {} /\ granted \subseteq ckpt.vals.planned
        /\ ckpt.next \notin BeforeGate => ckpt.vals.approved = granted
    BY <1>5, <1>9, <2>1 DEF OneAnswer
  <2>3. next \notin BeforePlan /\ v.planned = ckpt.vals.planned
    BY <1>2, <1>7, <2>2 DEF NodeFacts, BeforePlan
  <2>4. v.approved = granted
    BY <1>2, <1>7, <2>1, <2>2 DEF NodeFacts, BeforeGate
  <2> QED BY <2>1, <2>2, <2>3, <2>4
<1>10. Nobody => granted = {} /\ (next \notin BeforeGate => v.planned = {})
  <2> SUFFICES ASSUME Nobody PROVE granted = {} /\ (next \notin BeforeGate => v.planned = {})
    OBVIOUS
  <2>1. granted = {} /\ (ckpt.next \notin BeforeGate => ckpt.vals.planned = {})
    BY <1>5 DEF OneAnswer
  <2>2. r \notin Approvers
    BY <1>6, RunsAssumption DEF Nobody
  <2> QED BY <1>2, <1>7, <2>1, <2>2 DEF NodeFacts, GatePlan, BeforePlan, BeforeGate
<1> QED BY <1>1, <1>3, <1>5, <1>8, <1>9, <1>10 DEF OneAnswer

LEMMA AnswerRunSteps ==
  ASSUME Inv, Sole, OneDecision, GatePlan, OneAnswer, NEW r \in Run,
         RunNode(r) \/ RunFails(r)
  PROVE  GatePlan' /\ OneAnswer'
<1>1. run[r] \in Invocation /\ run \in [Run -> Invocation] /\ run[r].vals \in ScanState
      /\ ckpt.vals \in ScanState
  BY DEF Inv, TypeOK, Invocation, Checkpoint
<1>2. DoneRun.phase = "done" /\ IdleRun.phase = "idle"
  BY DEF DoneRun, IdleRun
<1>a. CASE \/ CheckScope(r) \/ Recon(r) \/ PassiveDetection(r) \/ PlanActiveTests(r)
           \/ GateResumes(r) \/ ActiveDetectionSkips(r) \/ ActiveDetectionEnds(r)
           \/ Verification(r) \/ Scoring(r) \/ AiSynthesis(r) \/ Reporting(r)
  BY <1>a, NodeShape, AnswerNodeSteps
<1>b. CASE \/ ActiveToolsRun(r) \/ GateInterrupts(r) \/ ReportWritten(r) \/ TimesOut(r)
           \/ NodeRaises(r) \/ FailedStateLost(r) \/ FailedReportRaises(r)
  <2> USE <1>b DEF GateInterrupts, ActiveToolsRun, ReportWritten, TimesOut, NodeRaises,
                   FailedStateLost, FailedReportRaises
  <2>1. UNCHANGED <<ckpt, approver, decision, granted, service>>
    BY DEF outside, people, OneAnswer
  <2>2. \A q \in Run \ {r} : run'[q] = run[q]
    BY <1>1
  <2>3. run'[r].phase # "persisting"
    BY <1>1, <1>2 DEF Invocation, At
  <2> QED BY <2>1, <2>2, <2>3, AnswerKept
<1>c. CASE FailedReportWritten(r)
  <2>1. PICK v \in {ckpt.vals, InitialState} :
          run' = [run EXCEPT ![r].phase = "persisting",
                             ![r].vals = FailedState(v, run[r].code)]
    BY <1>c DEF FailedReportWritten
  <2>2. run[r].phase = "failing"
    BY <1>c DEF FailedReportWritten, Failing
  <2>3. run[r].code \in ErrorCode \ {"none"}
    BY <1>1, <2>2 DEF Inv, RunOK, Invocation
  <2>4. v \in ScanState /\ \E next : StateAt(next, v)
    BY <1>1, InitialStateAt DEF Inv, BeforeTools
  <2>5. FailedState(v, run[r].code).outcome = "failed"
    BY <2>3, <2>4, FailedStateAt
  <2>6. /\ run'[r].vals.outcome = "failed"
        /\ \A q \in Run \ {r} : run'[q] = run[q]
    BY <1>1, <2>1, <2>5 DEF Invocation
  <2>7. UNCHANGED <<ckpt, approver, decision, granted, service>>
    BY <1>c DEF FailedReportWritten, outside, people
  <2> QED BY <2>6, <2>7, AnswerKept
<1>d. CASE FailedStatePersisted(r)
  <2>1. /\ run[r].phase = "persisting" /\ Commit(r, run[r].vals, "END")
        /\ UNCHANGED <<approver, decision, granted, service>>
    BY <1>d DEF FailedStatePersisted, outside, people
  <2>2. /\ ckpt'.next = "END" /\ ckpt'.vals = run[r].vals
        /\ run'[r].phase = "done"
        /\ \A q \in Run \ {r} : run'[q] = run[q]
    BY <1>1, <2>1, CommitShape DEF Inv
  <2>3. run[r].vals.status # "rejected"
    BY <2>1 DEF Inv, RunOK, StateAt, Terminal
  <2>4. GatePlan'
    BY <2>2, <2>3 DEF GatePlan, BeforePlan, BeforeGate
  <2>5. Complete' /\ Nobody' = Nobody /\ ckpt'.next \notin BeforePlan
    BY <2>1, <2>2 DEF Complete, Nobody, BeforePlan
  <2>6. \A a \in Approvers : approver[a] # "checked"
    <3> SUFFICES ASSUME NEW a \in Approvers, approver[a] = "checked" PROVE FALSE
      OBVIOUS
    <3>1. Busy(r) /\ r # "recovery"
      BY <2>1, WhoIsAtWork DEF Busy, OneAnswer, Up
    <3>2. r \in Approvers => approver[r] = "accepted"
      BY <3>1 DEF Inv, Accepted, Busy
    <3> QED BY <3>1, <3>2 DEF Sole, GateInv, Run, OneDecision
  <2> QED BY <2>1, <2>4, <2>5, <2>6 DEF OneAnswer
<1> QED BY <1>a, <1>b, <1>c, <1>d DEF RunNode, RunFails

LEMMA AnswerOutsideSteps ==
  ASSUME Inv, Sole, OneDecision, GatePlan, OneAnswer, crashes' = 0,
         \/ OrphanReportWritten \/ Submit \/ BeginStart
         \/ \E a \in Approvers : ApproveRead(a) \/ ApproveDecide(a) \/ ResumeBegin(a)
         \/ \E p \in Pollers : PollRead(p) \/ PollWrite(p)
         \/ Crash \/ Restart \/ RecoverRow
  PROVE  GatePlan' /\ OneAnswer'
<1>1. /\ run \in [Run -> Invocation] /\ approver \in [Approvers -> {"idle",
           "checked", "accepted", "refused", "closed"}]
      /\ decision \in [Approvers -> SUBSET Tools] /\ granted \in SUBSET Tools
      /\ crashes \in Nat
  BY DEF Inv, TypeOK
<1>2. DoneRun.phase = "done"
  BY DEF DoneRun, IdleRun
<1>3. "start" \in Run /\ Approvers \subseteq Run
  BY DEF Run
<1>a. CASE OrphanReportWritten \/ \E p \in Pollers : PollRead(p) \/ PollWrite(p)
  <2>1. UNCHANGED <<ckpt, approver, decision, granted, service, run>>
    BY <1>a DEF OrphanReportWritten, PollRead, PollWrite, outside, people
  <2> QED BY <2>1, AnswerKept
<1>b. CASE Submit
  <2>1. UNCHANGED <<ckpt, approver, decision, granted, service>>
    BY <1>b DEF Submit, people
  <2>2. /\ \A q \in Run \ {"start"} : run'[q] = run[q]
        /\ run'["start"].phase = "queued"
    BY <1>1, <1>3, <1>b DEF Submit, Invocation
  <2> QED BY <2>1, <2>2, AnswerKept
<1>c. CASE BeginStart
  <2>1. UNCHANGED <<approver, decision, granted, service>> /\ Nobody' = Nobody
    BY <1>c DEF BeginStart, outside, people, Nobody
  <2>2. /\ \A q \in Run \ {"start"} : run'[q] = run[q]
        /\ run'["start"].phase = "active"
    BY <1>1, <1>3, <1>c DEF BeginStart, IdleRun
  <2>3. \A a \in Approvers : approver[a] \notin {"checked", "accepted"}
    BY <1>c DEF BeginStart, Sole, GateInv, Busy
  <2>4. ckpt'.next = "check_scope" /\ ckpt'.vals = InitialState
    BY <1>c DEF BeginStart
  <2>5. /\ InitialState.planned = {} /\ InitialState.approved = {}
        /\ InitialState.status = "pending"
    BY DEF InitialState
  <2>6. GatePlan'
    BY <2>2, <2>4, <2>5 DEF GatePlan, BeforePlan
  <2> QED BY <2>1, <2>3, <2>4, <2>5, <2>6 DEF OneAnswer
<1>d. ASSUME NEW a \in Approvers, ApproveRead(a)
      PROVE  GatePlan' /\ OneAnswer'
  <2>1. /\ UNCHANGED <<ckpt, interrupted, run, granted, service>> /\ approver[a] = "idle"
        /\ \/ Paused /\ approver'[a] = "checked" /\ decision'[a] = ckpt.vals.planned
           \/ approver'[a] = "refused"
        /\ \A b \in Approvers \ {a} : approver'[b] = approver[b] /\ decision'[b] = decision[b]
    BY <1>1, <1>d DEF ApproveRead, outside
  <2>2. Complete' = Complete /\ (Nobody' <=> Nobody)
    BY <2>1 DEF Complete, Nobody
  <2>3. Paused => ckpt.next \notin BeforePlan
    BY DEF Sole, GateInv, BeforePlan
  <2>4. GatePlan'
    BY <2>1 DEF GatePlan
  <2> QED BY <2>1, <2>2, <2>3, <2>4 DEF OneAnswer
<1>e. ASSUME NEW a \in Approvers, ApproveDecide(a)
      PROVE  GatePlan' /\ OneAnswer'
  <2>1. PICK body \in Body :
          LET tools == ResolveApprovedTools(decision[a], body)
          IN  IF body.explicit /\ ~(body.tools \subseteq decision[a])
              THEN /\ approver' = [approver EXCEPT ![a] = "refused"]
                   /\ decision' = [decision EXCEPT ![a] = {}]
                   /\ UNCHANGED <<granted, run>>
              ELSE /\ approver' = [approver EXCEPT ![a] = "accepted"]
                   /\ decision' = [decision EXCEPT ![a] = tools]
                   /\ granted' = granted \cup tools
                   /\ run' = [run EXCEPT ![a].phase = "queued"]
    BY <1>e DEF ApproveDecide
  <2>2. /\ approver[a] = "checked" /\ UNCHANGED <<ckpt, service>> /\ Complete' = Complete
    BY <1>e DEF ApproveDecide, outside, Complete
  <2>3. /\ decision[a] = ckpt.vals.planned /\ ckpt.next = "human_approval_gate"
        /\ ckpt.vals.planned # {}
        /\ \A b \in Approvers \ {a} : approver[b] \notin {"checked", "accepted"}
    BY <2>2 DEF OneAnswer, GatePlan, Sole, GateInv, OneDecision
  <2>4. granted = {}
    BY <2>2, <2>3 DEF OneAnswer, Nobody
  <2>5. ckpt.next \notin BeforePlan /\ ckpt.next \in BeforeGate
    BY <2>3 DEF BeforePlan, BeforeGate
  <2> DEFINE tools == ResolveApprovedTools(decision[a], body)
  <2>6. tools \subseteq ckpt.vals.planned
    BY <1>1, <2>3, ResolveApprovedToolsBound
  <2> HIDE DEF tools
  <2>7. CASE /\ approver' = [approver EXCEPT ![a] = "refused"]
             /\ UNCHANGED <<granted, run>>
    <3>1. /\ approver'[a] = "refused"
          /\ \A b \in Approvers \ {a} : approver'[b] = approver[b]
      BY <1>1, <2>7
    <3>2. GatePlan'
      BY <2>2, <2>7 DEF GatePlan
    <3> QED BY <2>2, <2>3, <2>4, <2>5, <2>7, <3>1, <3>2 DEF OneAnswer
  <2>8. CASE /\ approver' = [approver EXCEPT ![a] = "accepted"]
             /\ decision' = [decision EXCEPT ![a] = tools]
             /\ granted' = granted \cup tools
             /\ run' = [run EXCEPT ![a].phase = "queued"]
    <3>1. /\ approver'[a] = "accepted" /\ decision'[a] = tools /\ granted' = tools
          /\ \A b \in Approvers \ {a} : approver'[b] = approver[b]
      BY <1>1, <2>4, <2>8
    <3>2. /\ \A q \in Run \ {a} : run'[q] = run[q]
          /\ run'[a].phase = "queued"
      BY <1>1, <1>3, <2>8 DEF Invocation
    <3>3. GatePlan'
      BY <2>2, <3>2 DEF GatePlan
    <3>4. ~Nobody'
      BY <3>1 DEF Nobody
    <3> QED BY <2>2, <2>3, <2>5, <2>6, <3>1, <3>3, <3>4 DEF OneAnswer
  <2> QED BY <2>1, <2>7, <2>8 DEF tools
<1>f. ASSUME NEW a \in Approvers, ResumeBegin(a)
      PROVE  GatePlan' /\ OneAnswer'
  <2>1. UNCHANGED <<ckpt, approver, decision, granted, service>>
    BY <1>f DEF ResumeBegin, outside, people
  <2>2. \A q \in Run \ {a} : run'[q] = run[q]
    BY <1>1, <1>f DEF ResumeBegin
  <2>3. run'[a].phase # "persisting"
    BY <1>1, <1>2, <1>3, <1>f DEF ResumeBegin, Invocation
  <2> QED BY <2>1, <2>2, <2>3, AnswerKept
<1>g. CASE Crash \/ Restart \/ RecoverRow
  BY <1>1, <1>g DEF Crash, Restart, RecoverRow, OneAnswer
<1> QED BY <1>a, <1>b, <1>c, <1>d, <1>e, <1>f, <1>g

LEMMA AnswerInvariance ==
  SafetySpec /\ []OneDecision /\ [](crashes = 0) => [](Sole /\ GatePlan /\ OneAnswer)
<1>1. Init => GatePlan /\ OneAnswer
  BY DEF Init, GatePlan, OneAnswer, Nobody, IdleRun, InitialState, BeforePlan, BeforeGate
<1>2. Inv /\ Sole /\ OneDecision /\ GatePlan /\ OneAnswer /\ (crashes = 0)' /\ [Next]_vars
        => GatePlan' /\ OneAnswer'
  <2> SUFFICES ASSUME Inv, Sole, OneDecision, GatePlan, OneAnswer, crashes' = 0,
                      [Next]_vars
               PROVE  GatePlan' /\ OneAnswer'
    OBVIOUS
  <2>1. CASE UNCHANGED vars
    BY <2>1, AnswerKept DEF vars
  <2>2. CASE Next
    BY <2>2, AnswerRunSteps, AnswerOutsideSteps DEF Next
  <2> QED BY <2>1, <2>2
<1> QED BY <1>1, <1>2, OneDecisionUndisturbed, Invariance, SoleInvariance, PTL
        DEF SafetySpec

\* A step that none of the abstract variables shows.
LEMMA Unseen ==
  ASSUME row' = "none" <=> row = "none", Nobody' <=> Nobody,
         UNCHANGED <<ckpt, granted, executed>>,
         Nobody => interrupted' = interrupted
  PROVE  UNCHANGED Lifecycle!vars
BY DEF Lifecycle!vars, Stage, Complete, Paused, Nobody

\* Where the scan is when an invocation is at work.
LEMMA StageAtWork ==
  ASSUME Inv, Sole, OneAnswer, NEW r \in Run, Busy(r), row # "none"
  PROVE  /\ r \in Approvers => ~Nobody
         /\ r \notin Approvers => Nobody /\ ~Paused
         /\ ~Complete
         /\ Stage = IF Nobody THEN "working" ELSE "decided"
<1>1. r # "recovery"
  BY WhoIsAtWork DEF OneAnswer, Up
<1>2. r \in Approvers => approver[r] = "accepted"
  BY DEF Inv, Accepted, Busy
<1>3. r \notin Approvers => r = "start"
  BY <1>1 DEF Run
<1>4. r \notin Approvers => Nobody /\ ~Paused
  BY <1>3 DEF Sole, GateInv, Nobody
<1>5. ~Complete
  BY <1>1 DEF Sole, OneAtWork
<1>6. r \in Approvers => ~Nobody
  BY <1>2 DEF Nobody
<1>7. Nobody <=> ~ \E a \in Approvers : approver[a] = "accepted"
  BY DEF Nobody
<1> QED BY <1>4, <1>5, <1>6, <1>7 DEF Stage

\* The end of an invocation's work is the abstract scan's end.
LEMMA Resolves ==
  ASSUME Inv, Sole, GatePlan, OneAnswer, NEW r \in Run, Busy(r),
         ckpt'.next = "END", row' = row, UNCHANGED <<granted, executed>>,
         ckpt'.vals.outcome \in {"finished", "rejected", "failed"},
         ckpt'.vals.outcome = "finished" => (~Nobody => granted # {}),
         ckpt'.vals.outcome = "rejected" => ~Nobody /\ granted = {}
  PROVE  Lifecycle!Next
<1>1. row # "none"
  BY DEF Sole, RowInv, Busy
<1>2. Stage = (IF Nobody THEN "working" ELSE "decided") /\ ~Complete
  BY <1>1, StageAtWork
<1>3. Stage' = "resolved" /\ Complete'
  BY <1>1 DEF Stage, Complete
<1>4. Lifecycle!Resolve(ckpt'.vals.outcome)
  BY <1>2, <1>3 DEF Lifecycle!Resolve
<1> QED BY <1>4 DEF Lifecycle!Next

LEMMA NodeSimulation ==
  ASSUME Inv, Sole, GatePlan, OneAnswer, NEW r \in Run,
         NEW node \in Node \cup Effect, NEW next \in Node \cup {"END"},
         NEW v \in ScanState,
         PureNode(r, node, v, next), NodeFacts(r, node, v, next)
  PROVE  [Lifecycle!Next]_(Lifecycle!vars)
<1> DEFINE w == run[r].vals
<1>1. /\ run[r].phase = "active" /\ run[r].node = node /\ Busy(r)
      /\ Commit(r, v, next)
      /\ UNCHANGED <<approver, granted, row, executed>>
  BY DEF PureNode, At, outside, people, Busy
<1>2. ckpt'.next = next /\ ckpt'.vals = v /\ ~Paused'
  BY <1>1, CommitShape DEF Inv
<1>3. row # "none"
  BY <1>1 DEF Sole, RowInv, Busy
<1>4. /\ r \notin Approvers => ~Paused
      /\ r \in Approvers => ~Nobody
      /\ ~Complete
      /\ Stage = IF Nobody THEN "working" ELSE "decided"
  BY <1>1, <1>3, StageAtWork
<1>5. Nobody' <=> Nobody
  BY <1>1 DEF Nobody
<1>a. CASE next # "END"
  <2>1. ~Complete'
    BY <1>2, <1>a DEF Complete
  <2>2. Stage' = IF Nobody' THEN "working" ELSE "decided"
    BY <1>1, <1>2, <1>3, <2>1 DEF Stage, Nobody
  <2> QED BY <1>1, <1>4, <1>5, <2>1, <2>2 DEF Lifecycle!vars
<1>b. CASE next = "END"
  <2>1. /\ v = Reported(w) /\ w \in ScanState /\ StateAt("report_written", w)
        /\ node = "report_written"
    BY <1>1, <1>b DEF NodeFacts, Inv, RunOK, TypeOK, Invocation
  <2>2. /\ ckpt.next = "reporting" /\ ckpt.vals.planned = w.planned
        /\ ckpt.vals.approved = w.approved /\ ckpt.vals.status = w.status
    BY <1>1, <2>1 DEF Sole, OneAtWork, Synced, StartedFrom
  <2>3. /\ ~Nobody => w.planned # {} /\ w.approved = granted
        /\ Nobody => w.planned = {} /\ granted = {}
        /\ w.status = "rejected" => w.planned # {}
        /\ w.approved \subseteq granted
    BY <1>4, <2>1, <2>2 DEF OneAnswer, GatePlan, BeforeGate, BeforePlan, Nobody, StateAt
  <2>4. v.outcome = ReportOutcome(w) /\ v.outcome \in Outcome \ {"none"}
    BY <2>1, ReportedStateAt
  <2>5. v.outcome = "finished" => (~Nobody => granted # {})
    BY <2>1, <2>3, <2>4 DEF ReportOutcome, StateAt
  <2>6. v.outcome = "rejected" => ~Nobody /\ granted = {}
    BY <2>1, <2>3, <2>4 DEF ReportOutcome, StateAt
  <2> QED BY <1>1, <1>2, <1>b, <2>4, <2>5, <2>6, Resolves DEF Outcome
<1> QED BY <1>a, <1>b

LEMMA RunSimulation ==
  ASSUME Inv, Sole, GatePlan, OneAnswer, NEW r \in Run, RunNode(r) \/ RunFails(r)
  PROVE  [Lifecycle!Next]_(Lifecycle!vars)
<1>1. run[r] \in Invocation /\ run \in [Run -> Invocation] /\ run[r].vals \in ScanState
      /\ executed \in SUBSET Tools
  BY DEF Inv, TypeOK, Invocation
<1>2. Busy(r) => row # "none"
  BY DEF Sole, RowInv, Busy
<1>a. CASE \/ CheckScope(r) \/ Recon(r) \/ PassiveDetection(r) \/ PlanActiveTests(r)
           \/ GateResumes(r) \/ ActiveDetectionSkips(r) \/ ActiveDetectionEnds(r)
           \/ Verification(r) \/ Scoring(r) \/ AiSynthesis(r) \/ Reporting(r)
  BY <1>a, NodeShape, NodeSimulation
<1>b. CASE GateInterrupts(r)
  <2> USE <1>b DEF GateInterrupts, At, HasDecision
  <2>1. Busy(r) /\ r \notin Approvers
    BY DEF Busy
  <2>2. /\ Stage = "working" /\ Nobody /\ ~Complete /\ row # "none"
    BY <1>2, <2>1, StageAtWork
  <2>3. UNCHANGED <<ckpt, approver, granted, row, executed>> /\ Paused'
    BY DEF outside, people, Paused
  <2>4. Stage' = "paused" /\ ~Complete'
    BY <2>2, <2>3 DEF Stage, Complete, Nobody
  <2>5. Lifecycle!Pause
    BY <2>2, <2>3, <2>4 DEF Lifecycle!Pause
  <2> QED BY <2>5 DEF Lifecycle!Next
<1>c. CASE ActiveToolsRun(r)
  <2>1. PICK started \in SUBSET ActiveToolSelection(run[r].vals) :
          executed' = executed \cup started
    BY <1>c DEF ActiveToolsRun
  <2>2. /\ Busy(r) /\ ActiveToolSelection(run[r].vals) # {}
        /\ UNCHANGED <<ckpt, interrupted, approver, granted, row>>
        /\ run[r].phase = "active" /\ run[r].node = "active_detection"
    BY <1>c DEF ActiveToolsRun, At, Busy, outside, people
  <2>3. started \subseteq run[r].vals.approved /\ run[r].vals.approved # {}
    BY <1>1, <2>2, ActiveToolSelectionBound
  <2>4. run[r].vals.approved \subseteq granted /\ granted \subseteq Tools
    BY <2>2 DEF Inv, RunOK, StateAt, TypeOK
  <2>5. ~Nobody
    BY <2>3, <2>4 DEF OneAnswer
  <2>6. Stage = "decided" /\ ~Complete
    BY <1>2, <2>2, <2>5, StageAtWork
  <2>7. Stage' = Stage /\ Complete' = Complete
    BY <2>2 DEF Stage, Complete, Paused
  <2>8. Lifecycle!Touch(started)
    BY <2>1, <2>2, <2>3, <2>4, <2>6, <2>7 DEF Lifecycle!Touch
  <2>9. started \in SUBSET Tools
    BY <2>3, <2>4
  <2> QED BY <2>8, <2>9 DEF Lifecycle!Next
<1>d. CASE \/ ReportWritten(r) \/ TimesOut(r) \/ NodeRaises(r)
           \/ FailedReportWritten(r) \/ FailedStateLost(r) \/ FailedReportRaises(r)
  <2>1. UNCHANGED <<ckpt, interrupted, approver, granted, row, executed>>
    BY <1>d DEF ReportWritten, TimesOut, NodeRaises, FailedReportWritten,
                FailedStateLost, FailedReportRaises, outside, people
  <2>2. Nobody' <=> Nobody
    BY <2>1 DEF Nobody
  <2> QED BY <2>1, <2>2, Unseen
<1>e. CASE FailedStatePersisted(r)
  <2>1. /\ run[r].phase = "persisting" /\ Busy(r) /\ Commit(r, run[r].vals, "END")
        /\ UNCHANGED <<granted, row, executed>>
    BY <1>e DEF FailedStatePersisted, outside, people, Busy
  <2>2. ckpt'.next = "END" /\ ckpt'.vals = run[r].vals
    BY <2>1 DEF Commit
  <2>3. run[r].vals.outcome = "failed"
    BY <2>1 DEF GatePlan
  <2> QED BY <2>1, <2>2, <2>3, Resolves
<1> QED BY <1>a, <1>b, <1>c, <1>d, <1>e DEF RunNode, RunFails

LEMMA OutsideSimulation ==
  ASSUME Inv, Sole, OneDecision, GatePlan, OneAnswer, crashes' = 0,
         \/ OrphanReportWritten \/ Submit \/ BeginStart
         \/ \E a \in Approvers : ApproveRead(a) \/ ApproveDecide(a) \/ ResumeBegin(a)
         \/ \E p \in Pollers : PollRead(p) \/ PollWrite(p)
         \/ Crash \/ Restart \/ RecoverRow
  PROVE  [Lifecycle!Next]_(Lifecycle!vars)
<1>1. /\ approver \in [Approvers -> {"idle", "checked", "accepted", "refused", "closed"}]
      /\ decision \in [Approvers -> SUBSET Tools] /\ granted \in SUBSET Tools
      /\ crashes \in Nat /\ seen \in [Pollers -> Status \cup {"none"}]
  BY DEF Inv, TypeOK
<1>a. CASE OrphanReportWritten
  <2>1. UNCHANGED <<ckpt, interrupted, approver, granted, row, executed>>
    BY <1>a DEF OrphanReportWritten, outside, people
  <2> QED BY <2>1, Unseen DEF Nobody
<1>b. CASE Submit
  <2> USE <1>b DEF Submit
  <2>1. /\ row = "none" /\ row' # "none" /\ ckpt.next = "none"
        /\ \A r \in Run : run[r].phase = "idle"
        /\ UNCHANGED <<ckpt, interrupted, approver, granted, executed>>
    BY DEF Sole, RowInv, people
  <2>2. ~Complete /\ ~Complete' /\ ~Paused'
    BY <2>1 DEF Complete, Paused, Sole, GateInv
  <2>3. \A a \in Approvers : approver'[a] # "accepted"
    BY <2>1 DEF Sole, GateInv, Run
  <2>4. Stage = "absent" /\ Stage' = "working"
    BY <2>1, <2>2, <2>3 DEF Stage
  <2>5. Lifecycle!Submit
    BY <2>1, <2>2, <2>4 DEF Lifecycle!Submit
  <2> QED BY <2>5 DEF Lifecycle!Next
<1>c. CASE BeginStart
  <2>1. /\ run["start"].phase = "queued" /\ ckpt.next = "none" /\ ckpt'.next = "check_scope"
        /\ ~Paused /\ ~Paused' /\ UNCHANGED <<row, approver, granted, executed>>
    BY <1>c DEF BeginStart, Sole, GateInv, Busy, outside, people, Paused
  <2>2. ~Complete /\ ~Complete'
    BY <2>1 DEF Complete
  <2>3. Stage' = Stage
    BY <2>1, <2>2 DEF Stage
  <2> QED BY <2>1, <2>2, <2>3 DEF Lifecycle!vars
<1>d. ASSUME NEW a \in Approvers, ApproveRead(a)
      PROVE  [Lifecycle!Next]_(Lifecycle!vars)
  <2>1. /\ UNCHANGED <<ckpt, interrupted, granted, row, executed>>
        /\ approver[a] = "idle" /\ approver'[a] \in {"checked", "refused"}
        /\ \A b \in Approvers \ {a} : approver'[b] = approver[b]
    BY <1>1, <1>d DEF ApproveRead, outside
  <2>2. Nobody' <=> Nobody
    BY <2>1 DEF Nobody
  <2> QED BY <2>1, <2>2, Unseen
<1>e. ASSUME NEW a \in Approvers, ApproveDecide(a)
      PROVE  [Lifecycle!Next]_(Lifecycle!vars)
  <2>1. PICK body \in Body :
          LET tools == ResolveApprovedTools(decision[a], body)
          IN  IF body.explicit /\ ~(body.tools \subseteq decision[a])
              THEN /\ approver' = [approver EXCEPT ![a] = "refused"]
                   /\ UNCHANGED granted
              ELSE /\ approver' = [approver EXCEPT ![a] = "accepted"]
                   /\ granted' = granted \cup tools
    BY <1>e DEF ApproveDecide
  <2>2. /\ approver[a] = "checked"
        /\ UNCHANGED <<ckpt, interrupted, row, executed>>
        /\ Complete' = Complete /\ Paused' = Paused
    BY <1>e DEF ApproveDecide, outside, Complete, Paused
  <2>3. /\ Paused /\ ~Complete /\ row # "none"
        /\ \A b \in Approvers \ {a} : approver[b] # "accepted"
    BY <2>2 DEF Sole, GateInv, RowInv, OneDecision, Complete
  <2>4. Nobody /\ granted = {}
    BY <2>2, <2>3 DEF OneAnswer, Nobody
  <2>5. Stage = "paused"
    BY <2>3, <2>4 DEF Stage, Nobody
  <2> DEFINE tools == ResolveApprovedTools(decision[a], body)
  <2>6. tools \in SUBSET Tools
    BY <1>1, ResolveApprovedToolsBound
  <2> HIDE DEF tools
  <2>7. CASE approver' = [approver EXCEPT ![a] = "refused"] /\ UNCHANGED granted
    <3>1. Nobody'
      BY <1>1, <2>4, <2>7 DEF Nobody
    <3> QED BY <2>2, <2>4, <2>7, <3>1, Unseen
  <2>8. CASE approver' = [approver EXCEPT ![a] = "accepted"] /\ granted' = granted \cup tools
    <3>1. approver'[a] = "accepted"
      BY <1>1, <2>8
    <3>2. Stage' = "decided"
      BY <2>2, <2>3, <3>1 DEF Stage
    <3>3. Lifecycle!Decide(tools)
      BY <2>2, <2>3, <2>4, <2>5, <2>8, <3>2 DEF Lifecycle!Decide
    <3> QED BY <2>6, <3>3 DEF Lifecycle!Next
  <2> QED BY <2>1, <2>7, <2>8 DEF tools
<1>f. ASSUME NEW a \in Approvers, ResumeBegin(a)
      PROVE  [Lifecycle!Next]_(Lifecycle!vars)
  <2>1. UNCHANGED <<ckpt, interrupted, approver, granted, row, executed>>
    BY <1>f DEF ResumeBegin, outside, people
  <2> QED BY <2>1, Unseen DEF Nobody
<1>g. ASSUME NEW p \in Pollers, PollRead(p) \/ PollWrite(p)
      PROVE  [Lifecycle!Next]_(Lifecycle!vars)
  <2>1. /\ UNCHANGED <<ckpt, interrupted, approver, granted, executed>>
        /\ row' = row \/ (seen[p] # "none" /\ row' = seen[p])
    BY <1>g DEF PollRead, PollWrite, people
  <2>2. row' = "none" <=> row = "none"
    BY <2>1 DEF Sole, RowInv
  <2> QED BY <2>1, <2>2, Unseen DEF Nobody
<1>h. CASE Crash \/ Restart \/ RecoverRow
  BY <1>1, <1>h DEF Crash, Restart, RecoverRow, OneAnswer
<1> QED BY <1>a, <1>b, <1>c, <1>d, <1>e, <1>f, <1>g, <1>h

\* Any graph, requests, polls, timeouts and failed store accesses show, from
\* outside, the abstract scan: one decision, tools only after it and within it,
\* one final result that says what was decided.  It takes a service that is not
\* killed and requests of which none is shown the gate beside an accepted one.
THEOREM PipelineImplementsLifecycle ==
  SafetySpec /\ []OneDecision /\ [](crashes = 0) => ImplementsLifecycle
<1>1. Init => Lifecycle!Init
  BY DEF Init, Lifecycle!Init, Stage, Complete
<1>2. Inv /\ Sole /\ OneDecision /\ GatePlan /\ OneAnswer /\ (crashes = 0)' /\ [Next]_vars
        => [Lifecycle!Next]_(Lifecycle!vars)
  <2> SUFFICES ASSUME Inv, Sole, OneDecision, GatePlan, OneAnswer, crashes' = 0,
                      [Next]_vars
               PROVE  [Lifecycle!Next]_(Lifecycle!vars)
    OBVIOUS
  <2>1. CASE UNCHANGED vars
    BY <2>1, Unseen DEF vars, Nobody
  <2>2. CASE Next
    BY <2>2, RunSimulation, OutsideSimulation DEF Next
  <2> QED BY <2>1, <2>2
<1> QED BY <1>1, <1>2, Invariance, AnswerInvariance, PTL
        DEF SafetySpec, ImplementsLifecycle, Lifecycle!Spec
=============================================================================
