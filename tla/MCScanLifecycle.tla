-------------------------- MODULE MCScanLifecycle --------------------------
(* ScanPipeline implements ScanLifecycle: one approval request, no restart *)
(* and no failed access to the stores.                                     *)
EXTENDS ScanPipeline

Stage ==
  IF row = "none" THEN "absent"
  ELSE IF Complete THEN "resolved"
  ELSE IF \E a \in Approvers : approver[a] = "accepted" THEN "decided"
  ELSE IF Paused THEN "paused"
  ELSE "working"

Lifecycle ==
  INSTANCE ScanLifecycle
    WITH stage   <- Stage,
         allowed <- granted,
         touched <- executed,
         result  <- IF Complete THEN ckpt.vals.outcome ELSE "none"

\* Seen from outside, a scan is ScanLifecycle: one decision, tools only after
\* it and within it, one final result that says what was decided.
ImplementsLifecycle == Lifecycle!Spec
=============================================================================
