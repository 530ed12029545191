-------------------------- MODULE MCSubscriptions --------------------------
(***************************************************************************)
(* Two slices of AuthenticatedScan's state space in one run: one site with *)
(* its credentials and its scan, admitted at once; and two sites without a *)
(* login whose scans may wait for a duplicate and are not followed.        *)
(***************************************************************************)
EXTENDS MCAuthenticatedScan

VARIABLE slice

InSlice ==
  \/ /\ slice = "scan"
     /\ site[s2] = "absent" /\ req[s1] = None
     /\ Cardinality(claimed) <= 2
  \/ /\ slice = "sites"
     /\ scan = NoScan
     /\ \A s \in Sites : cred[s] = NoCredentials

MCInit == ScanInit /\ slice \in {"scan", "sites"}

MCNext == ScanNext /\ UNCHANGED slice /\ InSlice'

MCSpec == MCInit /\ [][MCNext]_<<scanVars, slice>>
=============================================================================
