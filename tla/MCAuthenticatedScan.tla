------------------------ MODULE MCAuthenticatedScan ------------------------
(* AuthenticatedScan for TLC.                                              *)
EXTENDS AuthenticatedScan

CONSTANTS org1, s1, s2, alice

MCSiteOrg == [s \in Sites |-> org1]

Pay(e, p) == [event |-> e, org |-> org1, plan |-> p]

MCPayloads == {Pay("cancel", None), Pay("active", None), Pay("active", "pro")}
=============================================================================
