-------------------------- MODULE MCScanAdmission --------------------------
(* ScanAdmission for TLC.                                                  *)
EXTENDS ScanAdmission

CONSTANTS q1, q2, q3, org1, org2, apikey, t1, t2

MCRequests == {q1, q2, q3}

At(c, t) == [client |-> c, target |-> t]

\* Who asks for what, up to renaming: a target three times, a second target
\* beyond the quota, two clients that share a target, and three clients for
\* two global slots.
MCKeys ==
  { [q \in MCRequests |-> At(org1, t1)],
    [q \in MCRequests |-> IF q = q3 THEN At(org1, t2) ELSE At(org1, t1)],
    [q \in MCRequests |-> IF q = q3 THEN At(apikey, t1) ELSE At(org1, t1)],
    [q \in MCRequests |-> CASE q = q1 -> At(org1, t1)
                            [] q = q2 -> At(org2, t1)
                            [] q = q3 -> At(apikey, t2)] }

MCInit == key \in MCKeys /\ Init
=============================================================================
