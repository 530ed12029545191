------------------------- MODULE AuthenticatedScan -------------------------
(***************************************************************************)
(* Subscriptions, composed with the scan of one site: what the approval    *)
(* gate tells the reviewer about logging in, and what the active tests do  *)
(* when they run, possibly days later.  The state of the scan keeps only   *)
(* public metadata; plan, credentials and exclusions are read again when   *)
(* the tests begin (backend/core/auth_scan.py).                            *)
(***************************************************************************)
EXTENDS Subscriptions

VARIABLE scan  \* the scan's stage, its auth_scan metadata, what its tests did

scanVars == <<vars, scan>>

Meta == [configured: BOOLEAN, enabled: BOOLEAN, user: Usernames \cup {None},
         excluded: SUBSET Paths]

NoMeta == [configured |-> FALSE, enabled |-> FALSE, user |-> None, excluded |-> {}]

NoScan == [stage |-> "none", site |-> None, meta |-> NoMeta, login |-> None,
           excluded |-> {}]

ScanInit == Init /\ scan = NoScan

\* build_public_auth_meta: without credentials nothing is configured, and
\* the extra exclusions are dropped with the rest.
PublicMeta(s, extra) ==
  IF cred[s] = NoCredentials THEN NoMeta
  ELSE [configured |-> TRUE,
        enabled    |-> AuthenticatedScanning(plan[SiteOrg[s]]),
        user       |-> cred[s].user,
        excluded   |-> cred[s].excluded \cup extra]

\* load_runtime_auth: the login the tests will use, if the credentials are
\* enabled and can be decrypted.
RuntimeLogin(m, decrypts) == IF m.enabled /\ decrypts THEN m.user ELSE None

\* Mutant: a scan waits for its site's account instead of its metadata.
StartScan_NoStage(s) ==
  /\ up /\ handler = Idle /\ s \in queued
  /\ queued' = queued \ {s}
  /\ scan' = [NoScan EXCEPT !.stage = "pending", !.site = s,
                            !.meta = PublicMeta(s, {})]
  /\ UNCHANGED <<accounts, job, process, handler, req, unsynced>>

\* schedule_scan's task begins.  Of the scans one at a time is followed.
StartScan(s) ==
  /\ up /\ handler = Idle /\ s \in queued
  /\ queued' = queued \ {s}
  /\ \/ /\ scan.stage \in {"none", "done"}
        /\ scan' = [NoScan EXCEPT !.stage = "started", !.site = s,
                                  !.meta = PublicMeta(s, {})]
     \/ scan' = scan
  /\ UNCHANGED <<accounts, job, process, handler, req, unsynced>>

\* Recon reads the metadata again and excludes the destructive paths D it
\* discovered; the gate then shows that state and interrupts.
ReachGate(D) ==
  /\ up /\ handler = Idle /\ scan.stage = "started"
  /\ scan' = [scan EXCEPT !.stage = "paused",
                          !.meta = [PublicMeta(scan.site, {}) EXCEPT !.excluded = @ \cup D]]
  /\ UNCHANGED vars

RejectTests ==
  /\ up /\ handler = Idle /\ scan.stage = "paused"
  /\ scan' = NoScan
  /\ UNCHANGED vars

\* Mutant: the tests trust the metadata of the checkpoint.
RunActiveTests_StaleMeta(decrypts) ==
  /\ up /\ handler = Idle /\ scan.stage = "paused"
  /\ scan' = [scan EXCEPT !.stage = "done",
                          !.login = RuntimeLogin(scan.meta, decrypts),
                          !.excluded = scan.meta.excluded]
  /\ UNCHANGED vars

\* Mutant: the exclusions read now replace those of the checkpoint.
RunActiveTests_OnlyNow(decrypts) ==
  /\ up /\ handler = Idle /\ scan.stage = "paused"
  /\ LET m == PublicMeta(scan.site, scan.meta.excluded)
     IN  scan' = [scan EXCEPT !.stage = "done",
                              !.login = RuntimeLogin(m, decrypts),
                              !.excluded = m.excluded]
  /\ UNCHANGED vars

\* run_active_tools.  scan.meta stays what the gate showed.
RunActiveTests(decrypts) ==
  /\ up /\ handler = Idle /\ scan.stage = "paused"
  /\ LET m == PublicMeta(scan.site, scan.meta.excluded)
     IN  scan' = [scan EXCEPT
                    !.stage = "done",
                    !.login = RuntimeLogin(m, decrypts),
                    !.excluded = IF m.excluded # {} THEN m.excluded
                                                    ELSE scan.meta.excluded]
  /\ UNCHANGED vars

\* The checkpoint of a paused scan survives the process.
CrashScan ==
  /\ Crash
  /\ scan' = IF scan.stage = "paused" THEN scan ELSE NoScan

ScanNext ==
  \/ Step /\ UNCHANGED scan
  \/ CrashScan
  \/ \E s \in Sites : StartScan(s)
  \/ \E D \in SUBSET Paths : ReachGate(D)
  \/ RejectTests
  \/ \E decrypts \in BOOLEAN : RunActiveTests(decrypts)

ScanSpec == ScanInit /\ [][ScanNext]_scanVars

-----------------------------------------------------------------------------

ScanTypeOK ==
  /\ TypeOK
  /\ scan \in [stage: {"none", "started", "paused", "done"},
               site: Sites \cup {None}, meta: Meta,
               login: Usernames \cup {None}, excluded: SUBSET Paths]

\* While a scan waits for approval its organisation may be downgraded, its
\* login replaced or its site removed.  The tests log in only with the
\* credentials stored when they run, under a plan that then allows it.
LoginIsCurrent ==
  [][scan'.login # None /\ scan.login # scan'.login
       => /\ cred[scan.site].user = scan'.login
          /\ AuthenticatedScanning(plan[SiteOrg[scan.site]])]_scanVars

\* What the reviewer saw excluded stays excluded, and so does what the
\* customer has excluded since, even if the credentials that carried the
\* exclusions are gone.
ExclusionsKept ==
  [][scan.stage = "paused" /\ scan'.stage = "done"
       => scan.meta.excluded \cup cred[scan.site].excluded \subseteq scan'.excluded]_scanVars

=============================================================================
