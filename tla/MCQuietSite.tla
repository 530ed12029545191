---------------------------- MODULE MCQuietSite ----------------------------
(* WatchAgent on a site nobody changes, for TLC.                           *)
EXTENDS MCWatchAgent

QuietInit == /\ Init /\ slice = "scan" /\ sample = NoSample 
             /\ installed = {} /\ live = [Nothing EXCEPT ![env] = 1]

QuietNext == Next /\ UNCHANGED <<live, installed, slice, sample>> /\ fresh' = {}

QuietSpec == QuietInit /\ [][QuietNext]_<<agentVars, slice, sample>>

\* "Email only on new or worsened findings" (diff.py): as long as the site
\* stays as it is, no member is alerted to the same finding twice.
AlertsAreNews ==
  \A e, f \in Emails :
    e # f /\ outbox[e].to = outbox[f].to
      => outbox[e].news \cap outbox[f].news = {}
=============================================================================
