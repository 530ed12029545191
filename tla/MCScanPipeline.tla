--------------------------- MODULE MCScanPipeline ---------------------------
(* ScanPipeline for TLC: every failure, crash and duplicate request.       *)
EXTENDS ScanPipeline, TLC

CONSTANTS sqlmap, zap, other, a1, a2

MCTools      == {sqlmap, zap}
MCOtherTools == {other}

\* The requests are alike, and so are the tools.
Symmetric == Permutations({a1, a2}) \cup Permutations(MCTools)
=============================================================================
