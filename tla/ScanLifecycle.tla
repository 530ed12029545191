--------------------------- MODULE ScanLifecycle ---------------------------
(***************************************************************************)
(* What a scan promises to its reviewer, without nodes, checkpoints, tasks *)
(* or polls: intrusive tools touch the target only after one decision and  *)
(* only as far as it allows, and the scan ends once, with a result that    *)
(* tells what was decided.  ScanPipeline implements it as long as the      *)
(* service is not restarted and one approval is sent (MCScanLifecycle).    *)
(***************************************************************************)
CONSTANT Tools

VARIABLES
  stage,    \* where the scan is
  allowed,  \* the tools the reviewer allowed
  touched,  \* the tools that were used on the target
  result    \* what the report says

vars == <<stage, allowed, touched, result>>

Init ==
  /\ stage = "absent"
  /\ allowed = {} /\ touched = {}
  /\ result = "none"

Submit ==
  /\ stage = "absent" /\ stage' = "working"
  /\ UNCHANGED <<allowed, touched, result>>

\* The scan waits for its reviewer, once.
Pause ==
  /\ stage = "working" /\ stage' = "paused"
  /\ UNCHANGED <<allowed, touched, result>>

Decide(tools) ==
  /\ stage = "paused" /\ stage' = "decided"
  /\ allowed' = tools
  /\ UNCHANGED <<touched, result>>

Touch(tools) ==
  /\ stage = "decided"
  /\ tools \subseteq allowed
  /\ touched' = touched \cup tools
  /\ UNCHANGED <<stage, allowed, result>>

\* A scan that never asked finishes; one that asked finishes or is reported
\* as rejected according to the decision.  Either may fail.
Resolve(outcome) ==
  /\ stage \in {"working", "decided"} /\ stage' = "resolved"
  /\ \/ outcome = "failed"
     \/ outcome = "finished" /\ (stage = "decided" => allowed # {})
     \/ outcome = "rejected" /\ stage = "decided" /\ allowed = {}
  /\ result' = outcome
  /\ UNCHANGED <<allowed, touched>>

Next ==
  \/ Submit \/ Pause
  \/ \E tools \in SUBSET Tools : Decide(tools) \/ Touch(tools)
  \/ \E outcome \in {"finished", "rejected", "failed"} : Resolve(outcome)

Spec == Init /\ [][Next]_vars
=============================================================================
