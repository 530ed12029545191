----------------------------- MODULE WatchAgent -----------------------------
(***************************************************************************)
(* The Watch Agent of one site: the watch scan, the CVE check and the      *)
(* drain of the email outbox are jobs of one scheduler in one process.     *)
(* They interleave at their awaits, share the site's row and the outbox,   *)
(* and die together.                                                       *)
(***************************************************************************)
EXTENDS CveWatch

agentVars == <<outboxVars, scanVars, cveVars>>

Init == OutboxInit /\ ScanInit /\ CveInit

\* The one process dies: between awaits, or within one of the commit sequences.
Crash ==
  \/ CrashInCommits /\ CutShort({})
  \/ CrashInDrain /\ ScanForgotten /\ CutShort({})
  \/ \E p \in cve.todo, S \in SUBSET Cves :
       /\ Killed /\ UNCHANGED outbox /\ ScanForgotten
       /\ S \subseteq Matching(p) /\ CutShort(S)
  \/ CrashInCveCommits

Next ==
  \/ OutboxStep /\ UNCHANGED <<scanVars, cveVars>>
  \/ ScanStep /\ UNCHANGED cveVars
  \/ CveStep
  \/ RestartWatch /\ UNCHANGED cveVars
  \/ Crash

Spec == Init /\ [][Next]_agentVars

Alone(A) == A /\ UNCHANGED <<scanVars, cveVars>>

\* The scheduler fires the drain's job, a send that was started ends, time
\* passes, and a process that died is started again.
Fairness ==
  /\ WF_agentVars(Alone(StartDrain))
  /\ WF_agentVars(Alone(SendNext))
  /\ \A e \in 1..MaxEmails : WF_agentVars(Alone(BecomesDue(e)))
  /\ WF_agentVars(RestartWatch /\ UNCHANGED cveVars)

-----------------------------------------------------------------------------

TypeOK ==
  /\ outbox \in Seq(Email)
  /\ batch \subseteq Emails
  /\ enabled \in BOOLEAN /\ up \in BOOLEAN /\ active \in BOOLEAN
  /\ crashes \in 0..MaxCrashes /\ faults \in 0..MaxFaults
  /\ {live, snapshot, scan.found, told} \subseteq [Issues -> 0..Top]
  /\ {installed, fingerprint, scan.products, cve.todo, cve.answered} \subseteq SUBSET Products
  /\ row \in {"none", "running", "completed", "failed"}
  /\ scan.check \in 0..4
  /\ untold \subseteq Issues
  /\ {fresh, alerted, cve.new, known, lost} \subseteq SUBSET Cves
  /\ aged \subseteq fresh
  /\ cve.on \in BOOLEAN /\ checked \in BOOLEAN
=============================================================================
