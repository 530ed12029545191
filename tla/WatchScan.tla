----------------------------- MODULE WatchScan -----------------------------
(***************************************************************************)
(* The recurring watch scan of one site: three passive checks, the         *)
(* difference to the last snapshot, and an alert about what is new or      *)
(* worse (backend/core/watch_agent/scan_job.py, diff.py).                  *)
(*                                                                         *)
(* The checks await the site, so it may change and the process may die     *)
(* between them.  What follows them commits one table after another and    *)
(* awaits nothing: it is one step, which an exception or the death of the  *)
(* process may cut short after any of its commits.                         *)
(***************************************************************************)
EXTENDS EmailOutbox

CONSTANTS
  Issues,    \* what the checks look for: findings, by (url, type)
  CheckOf,   \* the check that finds each of them
  Top,       \* the highest severity; 0 stands for a finding that is absent
  Products   \* what the CMS check may recognise, with its version

Checks == <<"headers", "exposed", "cms">>

ASSUME IssuesAssumption == CheckOf \in [Issues -> {"headers", "exposed", "cms"}]
ASSUME TopAssumption == Top \in Nat

VARIABLES
  live,         \* the site as it is: the severity of every issue
  installed,    \* the products the site runs
  active,       \* sites.active
  snapshot,     \* the latest row of watch_findings_snapshots
  fingerprint,  \* sites.fingerprint_json
  row,          \* the status of the last watch scan's row
  scan,         \* the scan at work: the next check and what was found so far
  told,         \* history: the severity the last alert gave, while not fixed
  untold        \* history: changes recorded without an alert, and why not

scanVars == <<live, installed, active, snapshot, fingerprint, row, scan, told,
              untold>>

Nothing == [i \in Issues |-> 0]

NoScan == [check |-> 0, found |-> Nothing, products |-> {}]

ScanInit ==
  /\ live \in [Issues -> 0..Top]
  /\ installed \in SUBSET Products
  /\ active = TRUE
  /\ snapshot = Nothing
  /\ fingerprint = {}
  /\ row = "none"
  /\ scan = NoScan
  /\ told = Nothing
  /\ untold = {}

-----------------------------------------------------------------------------
(* diff_findings.                                                          *)

NewlyAppeared(prev, cur) == {i \in Issues : prev[i] = 0 /\ cur[i] > 0}

SeverityIncreased(prev, cur) == {i \in Issues : prev[i] > 0 /\ cur[i] > prev[i]}

Fixed(prev, cur) == {i \in Issues : prev[i] > 0 /\ cur[i] = 0}

\* Mutant: only what is new is worth an email.
AlertItems_NewOnly(prev, cur) == NewlyAppeared(prev, cur)

\* should_alert: this set is not empty.
AlertItems(prev, cur) == NewlyAppeared(prev, cur) \cup SeverityIncreased(prev, cur)

-----------------------------------------------------------------------------

\* The site's owner deploys, at any time.
SiteChanges ==
  /\ \E i \in Issues, v \in 0..Top : live' = [live EXCEPT ![i] = v]
  /\ UNCHANGED <<outboxVars, installed, active, snapshot, fingerprint, row, scan,
                 told, untold>>

RemoveOrAddSite ==
  /\ up
  /\ active' = ~active
  /\ UNCHANGED <<outboxVars, live, installed, snapshot, fingerprint, row, scan,
                 told, untold>>

\* The job of an inactive site returns at once.  It does not read the plan.
BeginWatchScan ==
  /\ up /\ active /\ scan = NoScan /\ RoomForAlert
  /\ scan' = [NoScan EXCEPT !.check = 1]
  /\ row' = "running"
  /\ UNCHANGED <<outboxVars, live, installed, active, snapshot, fingerprint, told,
                 untold>>

Found(check) == [i \in Issues |-> IF CheckOf[i] = check THEN live[i] ELSE scan.found[i]]

\* run_watch_modules: a check that fails contributes nothing.
RunCheck(ok) ==
  /\ up /\ scan.check \in 1..3
  /\ LET check == Checks[scan.check]
     IN  scan' = [check    |-> scan.check + 1,
                  found    |-> IF ok THEN Found(check) ELSE scan.found,
                  products |-> IF ok /\ check = "cms" THEN installed ELSE {}]
  /\ UNCHANGED <<outboxVars, live, installed, active, snapshot, fingerprint, row,
                 told, untold>>

\* What the first n commits leave: 1 the snapshot, 2 the fingerprint, 3 the
\* diff, 4 the row, then one email per member.
Commits(n) ==
  LET items == AlertItems(snapshot, scan.found)
      mails == IF n <= 4 \/ items = {} THEN 0 ELSE n - 4
  IN  /\ snapshot' = IF n >= 1 THEN scan.found ELSE snapshot
      /\ fingerprint' = IF n >= 2 /\ scan.products # {} THEN scan.products
                                                       ELSE fingerprint
      /\ outbox' = Queued(items, mails)
      /\ told' = [i \in Issues |->
                    IF n >= 1 /\ i \in Fixed(snapshot, scan.found) THEN 0
                    ELSE IF mails > 0 /\ i \in items THEN scan.found[i] ELSE told[i]]
      /\ untold' = {i \in untold : n = 0 \/ (scan.found[i] > 0 /\ i \notin items)}
                     \cup (IF n >= 1 /\ mails < Len(Members) THEN items ELSE {})

AllCommits == 4 + Recipients

\* An exception leaves the row failed, a completed one too.
FinishWatchScan ==
  /\ up /\ scan.check = 4
  /\ \E n \in 0..AllCommits :
       /\ Commits(n)
       /\ row' = IF n = AllCommits THEN "completed" ELSE "failed"
  /\ scan' = NoScan
  /\ UNCHANGED <<batch, process, live, installed, active>>

WatchScanRaises ==
  /\ up /\ scan.check \in 1..3
  /\ row' = "failed" /\ scan' = NoScan
  /\ UNCHANGED <<outboxVars, live, installed, active, snapshot, fingerprint, told,
                 untold>>

DropScan ==
  /\ scan' = NoScan
  /\ UNCHANGED <<live, installed, active>>

CrashInCommits ==
  /\ Killed /\ scan.check = 4
  /\ \E n \in 0..AllCommits :
       /\ Commits(n)
       /\ row' = IF n >= 4 THEN "completed" ELSE row
  /\ DropScan

\* Nothing but the scan at work is forgotten.
ScanForgotten ==
  /\ DropScan
  /\ UNCHANGED <<snapshot, fingerprint, row, told, untold>>

\* Startup fails rows that are still running and older than the scan timeout.
RestartWatch ==
  /\ Restart
  /\ row' \in {row, IF row = "running" THEN "failed" ELSE row}
  /\ UNCHANGED <<live, installed, active, snapshot, fingerprint, scan, told, untold>>

ScanStep ==
  \/ SiteChanges \/ RemoveOrAddSite
  \/ BeginWatchScan
  \/ \E ok \in BOOLEAN : RunCheck(ok)
  \/ FinishWatchScan \/ WatchScanRaises

-----------------------------------------------------------------------------

\* The members were told of everything the latest snapshot holds, at the
\* severity it has now or a higher one, however the findings came, went and
\* rose over many scans, and whichever checks failed; except for changes a
\* scan recorded with emails switched off or before it was cut short.
AlertCoversSnapshot ==
  \A i \in Issues : snapshot[i] > 0 /\ i \notin untold => told[i] >= snapshot[i]
=============================================================================
