# CheckMate: TLA+ models and proofs

CheckMate scans web applications: a FastAPI service (`src/backend`) runs each
scan as a LangGraph graph of nodes, stops it before the intrusive tools (ZAP and
sqlmap) until a reviewer has approved them, and writes a report. A Watch Agent
checks subscribed sites again and mails what is new. A browser extension
(`src/extension`) and a dashboard (`src/web`) are its clients. This directory holds
TLA+ models of that system, the TLC runs that check them and the TLAPS proofs about
them. Paths below are relative to `src/backend` unless they start with another
directory of the repository.

    tlc -workers 2 -config PipelineSafety.cfg MCScanPipeline.tla     # a run
    tlapm ScanPipeline_proofs.tla                                    # some proofs

## 1. The system

The backend is **one process with one asyncio event loop**: code between two
awaits that really suspend is atomic, everything else interleaves. Synchronous
graph nodes are the exception, they run in threads. What survives a restart is
`accounts.db`, the LangGraph checkpoints (SQLite), the registry of scans (JSON)
and the report files; registries, counters, tasks and threads do not.

| Component | State | Operations | What makes it correct |
|---|---|---|---|
| **Scan orchestrator** `agents/orchestrator.py`, `agents/state.py` | a thread's checkpoint (next node, `ScanState`), its pending interrupt, tasks, `_registry` | ten nodes; `start_scan`, `resume_scan`, `_finalize_failed_scan`, `get_status_summary` | each scan ends with one truthful result and a report; tools run only as approved |
| **Approval** `app/main.py: approve_scan` | none of its own | read the interrupt, validate the body, schedule the resume | one decision per scan, and the decision is what is carried out |
| **Polling** `app/main.py: _sync_persisted_scan` | `scans.status` | copy the graph's status to the row | the row ends terminal, and never shows a report that is not there |
| **Startup recovery** `recover_stale_scans`, `list_stale_active_scans` | `scans` rows | fail what a restart interrupted | finds every orphan, spares what is not one |
| **Admission** `app/main.py: create_scan`, `InflightScanRegistry`, `ScanRateLimiter`, `core/accounts.py: reserve_scan_quota_and_create_records` | in-flight entries, slots, sliding windows; rows and quotas | look up, acquire, register, reserve, release | slots and entries are returned exactly once; quotas hold; one working scan per client and target |
| **Findings** `agents/detection.py`, `verification.py`, `scoring.py`, `ai_synthesis.py`, `reporting.py` | `ScanState` lists; LLM call budget | merge, judge, score, write about, collapse, truncate | identities resolve, the worst findings survive, modules and summary are honest |
| **Header checks** `tools/header_checks.py` | none | check one response per origin | agrees with the rules that re-test its findings |
| **Live verification, Verify Fix** `agents/verification.py`, `core/verify_fix.py` | URL cache, semaphore; verification rows | fetch, retry, judge; cooldown, record | "fixed" only for what was seen gone; every check ends |
| **ZAP** `tools/zap_tool.py` | a semaphore; the daemon's session, alerts, forced user | acquire, isolate, log in, scan, tear down | one tenant at a time; the slot is returned |
| **Billing, sites, credentials** `app/main.py: dodo_webhook, create_scan, ...`, `core/accounts.py`, `core/auth_scan.py` | plans, sites, claimed events, encrypted logins | claim, change plan, add and remove sites, load a login | every event takes effect once; a login is used only while stored and paid for |
| **Watch scheduler** `core/watch_agent/scheduler.py` | jobs in a store of their own | schedule, cancel, reconcile | jobs exist exactly for active sites with a plan, but for sites left behind in known ways |
| **Watch scan** `scan_job.py`, `diff.py` | snapshots, diffs, fingerprint | check, compare, alert | no change goes unmailed; a change is reported once |
| **CVE watch** `cve_job.py`, `nvd_client.py` | alerts, last check | look up, record, queue | no CVE is repeated, none is missed but in known ways |
| **Email outbox** `email_notify.py` | outbox rows | enqueue, drain, retry | delivery and attempts are bounded, every row settles |
| **Extension** `src/extension/popup.ts` | scan in view, timers, dialog | start, poll, approve, count down | sends what it shows, to the scan it shows; never leaves a scan waiting |
| **Dashboard** `LiveScanPanel.tsx`, `ApprovalGate.tsx` | answer, error, boxes, countdown | poll, approve, cancel, count down | the same |
| Retries and tool chain `core/retries.py`, `core/toolchain.py` | attempt counter | retry, classify, cancel | bounded attempts; cancellation stops work |

How they interact: `create_scan` admits a request and creates the **start task**;
the graph pauses at the gate, which *ends* that task; `approve_scan` creates a
**resume task** that continues from the latest checkpoint. Both share the thread
and nothing else. Polls (the extension's and the dashboard's) drive the
`scans` rows; nothing else writes them while the service is up. The start task's
done-callback returns slot and registry entry. After a restart, recovery runs
before the first request is served and works from the rows, not the checkpoints.

Plans, sites, logins, snapshots, alerts and emails are tables of `accounts.db`; the
recurring jobs are rows of a second database. A handler that changes both commits
to one and then to the other. The watch scan and the CVE check of a site, and the
drain that mails what both have queued, are jobs of one scheduler in the same
process. A scan takes from an account only what is public about its login; plan,
login and exclusions are read again when the active tests start.

The hard parts are therefore: several invocations of one graph at once, state
read before an await and used after it, timeouts that race a node, a process that
dies between checkpoint, report and row or between two commits, failures inside the
code that handles failures, a daemon shared by customers, providers that answer
late or not at all, and clients that poll without waiting for their last answer.
`PROJECT.json` lists these hazards with their lines and the properties that cover
them.

## 2. The modules

| Module | What it is |
|---|---|
| `ScanPipeline` | one scan from the accepted request to the report: graph, approvals, polls, timeouts, failures, crash, recovery |
| `ScanLifecycle` | the abstract promise: tools after one decision and within it, then one final result |
| `MCScanPipeline`, `MCScanLifecycle` | values and symmetry for TLC; the refinement mapping |
| `ScanPipeline_proofs` | its safety theorems, and that it implements `ScanLifecycle` |
| `ScanAdmission` | everything `create_scan` does before the scan runs, for several requests, clients and targets |
| `MCScanAdmission` | the combinations of clients and targets TLC starts from |
| `ScanAdmission_proofs` | its safety theorems |
| `ApprovalService` | the service as its approval clients see it: a scan's status and `POST /approve` |
| `ExtensionPopup`, `DashboardGate` | the two clients, each composed with `ApprovalService` |
| `ApprovalClients_proofs` | theorems about each, and about both at one service |
| `MCScanClients` | admission and the two clients, in slices |
| `Subscriptions` | plans, webhooks, sites, logins and the job store of the watch scheduler |
| `AuthenticatedScan` | `Subscriptions` composed with the scan of a site that logs in |
| `Subscriptions_proofs` | theorems about both |
| `MCAuthenticatedScan`, `MCSubscriptions` | webhooks for TLC; the slices |
| `EmailOutbox` | the outbox, also the abstract specification the watch agent implements |
| `WatchScan`, `CveWatch` | the two jobs that fill it; `NvdRanges` decides whether a CVE affects a version |
| `WatchAgent` | the three composed: one process, one crash |
| `WatchAgent_proofs` | the refinement and the theorems, version ranges included |
| `MCWatchAgent`, `MCQuietSite` | the slices; a site that never changes |
| `HeaderRules` | one response read by `header_checks` and re-tested by the verifier |
| `LiveVerification` | the verifier's concurrent checks and Verify Fix, on a site that changes |
| `ZapDaemon` | scans that share ZAP |
| `FindingsReport` | a scan's findings from the tools to the report |
| `LiveVerification_proofs`, `ZapDaemon_proofs` | theorems about these |
| `MCFindings` | the four in slices |
| `Findings_proofs` | theorems about reports, header rules and the four together |

### ScanPipeline and the code

* `ckpt` and `interrupted` are LangGraph's latest `StateSnapshot`; `run[r]` is an
  invocation of the graph: the start task, one per approve request, and the call
  `recover_stale_scans` makes. Each has its own node and copy of the state
  (LangGraph loads the checkpoint once), and `Commit` writes it back, over
  whatever another invocation wrote: the last commit wins.
* The nodes are actions of the code's names. A node that acts on the world has a
  point between the effect and the checkpoint (`tools_run`, `report_written`), so
  a timeout or crash can fall between the two.
* `GateInterrupts` and `GateResumes` are the two ways through
  `_node_human_approval_gate`: `interrupt()` returns only in an invocation that
  carries a resume payload.
* `TimesOut`, `NodeRaises`, `FailedReportWritten`, `FailedStatePersisted`,
  `FailedStateLost` and `FailedReportRaises` are the `except` clauses of
  `start_scan` and `resume_scan` and the steps of `_finalize_failed_scan`. A
  timeout during reporting may leave the reporting thread behind (`orphans`).
* `ApproveRead` / `ApproveDecide` / `ResumeBegin` are `approve_scan` up to its
  await, the rest of it, and the task it creates. `PollRead` / `PollWrite` split
  `_sync_persisted_scan` in the same way.
* `Crash`, `Restart`, `RecoverRow`: the process dies at any point; `lifespan`
  looks for an overdue row, finalises the scan, and then updates the row.
  Whether the row is overdue is chosen at the restart, as the service may have
  been down for any time; once overdue it stays so until it is written.
* Abstracted: what tools find, scores, texts, report layout, the JSON registry.
  `ScanState` keeps the channels that decide control. `granted` and `executed`
  are history variables.

### ScanAdmission and the code

* `byKey`/`keyed` are `InflightScanRegistry`; `events`, `activeClient` and
  `activeGlobal` are `ScanRateLimiter`; `rows`/`month` are what the quota
  queries count; `task` and `graph` are what the handler can see of a scan.
* The two asyncio locks guard code without an await, so they are never contended
  and `await lock` does not suspend. The only suspension of `create_scan` is
  `get_status_summary` for a duplicate, hence `FindInFlight`, `ReadSummary` and
  one atomic action for the rest: `RefuseSlot`, `RefuseQuota`,
  `FailAfterReservation` (the watch job cannot be scheduled; the row stays) or
  `Admit`.
* `Cleanup` is the task the done-callback creates: it runs some time after the
  start task has ended, so releases arrive late.
* A sliding window is a count that `WindowSlides` lowers whenever it likes;
  `MonthTurns` starts a new billing month. Both over-approximate time.
* Not modelled: unlimited plans (`None` limits), sites added or removed without a
  scan, which count for the target quota too, and plan changes during a request.

### The approval clients and the code

* `ApprovalService` keeps of each scan a phase: `unknown`, `running`, `planned` (the
  plan is committed, the gate has not interrupted), `paused`, `resumed` (accepted,
  the graph not yet past the gate), `complete`. `StatusOf` is what
  `get_status_summary` answers in each, `Decide` what `approve_scan` does, and the
  remaining actions are the pipeline and other clients.
* In `ExtensionPopup` a request on its way is a value of its own (`polls`,
  `approval`, the request for a scan): served at one moment (`PollServed`), applied
  at a later one (`PollAnswered`) to whatever scan is then in view, or failed.
  `PollTick` starts one whether or not the last is answered. `OpenDialog`, `Toggle`,
  `ClickApprove`, `ClickReject` and `CountdownEnds` are the dialog, which a view
  opens once; `PopupReopened` is a popup that is closed and opened. A request for a
  scan is on its way (`starting`), then creates one (`ScanCreated`, `created`), and its
  answer is taken (`ScanAccepted`) or not (`ScanRefused`): a limit, an error, an answer
  lost after the scan was created, or a scan of the target in flight, which
  `create_scan` refuses with 409; the popup then watches nothing and offers to scan.
* `DashboardGate` has the page's polls and, in `GateAfter`, what React makes of an
  answer: an error or an answer without a pending approval removes `ApprovalGate`
  with its boxes and countdown, and the next one mounts a new gate (`FreshGate`).
  A decision on its way remembers which gate sent it, as its error handler does.
* The countdown is not counted: it may end whenever it runs.
* Not modelled: the severity summary the popup loads between the first answer and
  the dialog's timer, sign-in, options page, the background script's forwarding.

### Subscriptions, AuthenticatedScan and the code

* `plan`, `site`, `cred` and `claimed` are tables of `accounts.db`, `job` is the
  scheduler's store. `handler` is the request at work, between its commits:
  `ClaimWebhookEvent`, `UpdatePlan` and `SyncSite` are `dodo_webhook` with
  `sync_org_jobs`; `DropCredentials`, `DeactivateSite` and `CancelJob` a site's
  removal; `AdmitScan` and `AddJob` the end of `create_scan`. Nothing awaits between
  these commits, so no other handler runs there, but `Crash` and `JobStoreRaises`
  may happen. `AwaitDuplicate` is the one await, after which an old plan may be used.
* `StartScheduler` and `StartWithoutScheduler` are start-up. APScheduler keeps what is
  added before `start()` in memory and looks only there: without a running scheduler
  the stored jobs stay as they are, and the clean-up of orphans in
  `sync_all_watch_jobs`, which runs before the start, sees none.
* `unsynced` is a history variable: the sites whose job was *left behind*. A site gets
  into it in five ways, each at the action that does it: its handler dies before the
  site's turn (`Crash`), the job store raises (`JobStoreRaises`), its turn comes while
  the scheduler is stopped (`JobDealtWith`), a creator's sign-in changes the plan
  (`SignIn`), or a scan is admitted under the plan before an upgrade (`AdmitScan`). The
  next handler that deals with its job takes it out, and so does a start of the
  scheduler unless the job is an orphan. `JobsFollowPlan` is about all other sites.
* Webhooks are payloads that may arrive in any order and any number of times. The
  claim is by payload, as in the code.
* `AuthenticatedScan` adds `StartScan` (what goes into the scan's metadata), `ReachGate`
  (what the reviewer is told), and `RunActiveTests`, which asks `Subscriptions` again.
  `ScanSpec` is the composition; its steps leave the other part's state alone.
* Not modelled: signature checks, unlimited limits, API tokens, sessions.

### The watch agent and the code

* `EmailOutbox`: `StartDrain` reads a batch once, `SendEmail` sends and marks one
  row; an answer may be success, refusal, or lost after delivery. Between the answer and
  its mark the process may die (`CrashInDrain`) or `accounts.db` refuse the mark
  (`MarkFails`): the row stays due with its attempts as they were and the rest of the
  batch is dropped. A row's `delivered` counts what its member receives, `faults` the
  refused marks.
* `WatchScan`: three checks, each of which may fail (`RunCheck`), with `SiteChanges`
  between them; then `FinishWatchScan` commits snapshot, fingerprint, diff, the
  scan's row and one email per member in the code's order, `Commits(n)` being the
  first *n* of them, for exceptions and crashes. `AlertItems` is `diff_findings`.
* `CveWatch`: `BeginCveCheck`, one `ProductAnswered` or `ProductSkipped` per product,
  `FinishCveCheck` with its commits. The window is what it lets through: `fresh` are
  the CVEs modified since `last_cve_check_at` and within the NVD's range, `aged` those
  of them older than a week, `checked` says that the site was checked before. Time is
  `WeekPasses` and `RangePasses` (119 days); a first check drops what is `aged`. A query
  returns the CVEs that name the product in their description (`Named`, `Searched`), and
  of these the ones whose ranges match count (`Matching`, `Hits`): a CVE that affects a
  product and does not name it is invisible to the code, and `CveAccounted` is not
  about it. `lost` is a history variable, the CVEs that were passed over or recorded
  without an email; each way into it is an action.
* `NvdRanges` writes versions as sequences of tokens; `VersionInRange` is the
  code's order of objections, including Python's `TypeError` between a word and a
  number. `InRangeByWeight` is the reference definition it is compared with.
* Left out: the NVD client's rate limiter and paging, and the wording of emails.

### From finding to report, and the code

* `HeaderRules` is two tables of the code kept side by side: `Reported` (one rule per
  header, as `header_checks.py`) and `Confirms` (one per type of finding, as
  `verification.py`), plus the counterparts among ZAP's alerts. A response is what
  both look at.
* `LiveVerification`: a check is queued for the semaphore (`AcquireFetch`), gets an
  answer, an error page or no answer, waits and retries, and ends with a verdict.
  Pages change at any time. A scan's checks are all started before one is answered,
  so the verifier's cache and its cap hold no more than the URLs refused by then. A
  Verify Fix has its own verifier; `RecordFix` is what it writes, the cooldown being
  read at its start and set at its end.
* `ZapDaemon`: `zap[s]` is where a scan's coroutine stands, one action per API call;
  every call may fail (`RunFails`, or `...AnswerLost` when it took effect), the task
  may be cancelled at any await, including the tear-down. What was started on the
  daemon goes on (`DaemonFinds`) until a new session drops it.
* `FindingsReport`: one action per node (`PassiveDetection`, `ActiveDetection`,
  `Verification`, `Scoring`, `Synthesis`, `Reporting`), with the lists of modules
  that failed, were skipped or did not apply. Scores are in tenths, confidences in
  hundredths and weights in halves, so the averages compare as integers. The LLM may
  answer anything, or nothing. An answer *cites* ids where the code recognises them: in
  the fields for ids, in prose behind `finding`, `id` or `finding_id`, and an id of the
  prompt anywhere; an unknown or refuted id that stands alone in the prose passes
  unseen and is no citation. `Usable` checks what is cited; `Grades` are what the grader may
  answer, and `Supported` is `bool(...)` of it: an answer in words, `"false"` included,
  is a yes.
* Left out: texts, HTML, PDF, configuration snippets, the OWASP mapping, rounding.

## 3. The runs

| Run | Instance | What it shows |
|---|---|---|
| `pipeline_safety` | 2 approvals, 2 tools, 1 crash, 1 failed store access, no polls; 2.1 M states | `NoUngrantedTool`, `CompleteHasReport`, `TruthfulOutcome`: nothing touches the target unapproved, and every complete scan has files, an outcome and a status that agree, however resumes, timeouts, crashes and failures interleave |
| `pipeline_lifecycle` | 1 approval, 2 polls, no crash or store failure; 143 k states | `ImplementsLifecycle` (refinement of `ScanLifecycle`); `FinalApprovalCoversExecuted`, `CompletedRowHasReport`; and under fairness `SubmittedScanSettles`, `AcceptedScanCompletes`, `RowSettles` |
| `scan_clients` | admission: 3 requests, 3 clients (2 with quotas), 2 targets, 1 restart, one slot per client, 2 global; popup: 2 scans, 2 polls on their way, 1 retry; dashboard: 2 status requests on their way; 808 k states | `SlotsAreHeld`, `EntriesAreOwned`, `WorkingScansAreTracked`, `QuotasHold`, and under fairness `SlotsReturn`; `PopupAsShown` and `GateAsShown`: what is approved is what is on the screen; `ClientsOnTheirWay`: neither client sits still in front of a scan that waits |
| `subscriptions` | 1 organisation, 3 webhook payloads, 1 crash; 1 site with login and scan, or 2 sites; 2.0 M states | `JobsFollowPlan`, `WebhookAppliedOnce`, `RemovalTakesCredentials`; `LoginIsCurrent`, `ExclusionsKept`; the type invariant |
| `watch_agent` | 1 site, 2 members, 4 emails, 2 attempts, batch of 1, 1 crash or refused mark; 2 issues of severity up to 2; 2 products, 2 CVEs, one of which does not name a product it affects; every pair of a version and a range of up to 2 tokens; 224 k states | `DeliveriesBounded`, `AlertCoversSnapshot`, `AlertedOnce`, `CveAccounted`, `RangesAgree`, and under fairness `EmailSettles` |
| `findings` | responses with 2 cookies, varying together the headers a rule combines; 4 findings on 3 pages, 2 Verify Fix requests, 2 attempts, 2 changes; 3 ZAP scans, 1 slot; up to 2 passive and 2 ZAP findings, 4 LLM settings; 76 k states | `RulesAgree`, `FixedMeansGone`, `OwnFindings`, `ReportKeepsWorst`, `IdsResolve`, `CoverageHonest`, `SummaryGrounded`, `RefutationNeverRaisesRisk`; under fairness `EveryCheckEnds`, `EveryScanGetsItsTurn`; the type invariant |
| `duplicate_approval` | 2 approvals | **violates** `RejectedScanSkipsTools`, finding 1 |
| `restart_leaves_orphans` | 1 approval, 1 crash | **violates** `OrphansResolvedAtStartup`, finding 2 |
| `restart_fails_paused` | 1 crash | **violates** `PausedSurvivesRestart`, finding 3 |
| `resumed_scans_uncounted` | 2 requests of one client | **violates** `RunningScansBounded`, finding 4 |
| `cancelled_countdown` | 1 scan, 1 tool, 1 status request | **violates** `CancelHolds`, finding 5 |
| `alert_not_news` | a site that never changes | **violates** `AlertsAreNews`, finding 6 |

**Slices.** A run of several components that share no state in that instance has
a variable, or its initial states, choose one of them; the others stay as they
were. Their state spaces add up instead of multiplying. Components that do share
state are composed: watch scans fill the outbox that the drain empties, CVE checks
read the fingerprint that watch scans write, plans change under a paused scan. The
proofs are about the full compositions.

**Why the bounds are enough.** A race of approvals needs two of them: the second may
be late, contradict the first or resume at any node. Two tools separate "some" from
"all" approved. One crash with its recovery meets every point of the pipeline; the
recovery itself can fail once or be killed instead of the pipeline. Two polls are
needed for one to write back what is older than the other's. In admission, three
requests are what it takes for one to release a finished scan's entry while another
has replaced it, and for three clients to compete for two slots. TLC takes four
assignments of clients and targets to requests, which are the distinct ways to share a
client, a target, both or neither; the proofs are for all assignments. In the clients,
two scans are what an answer can be confused with, two requests what can overtake each
other, and one retry separates "failed" from "given up". The payloads are a
cancellation, a subscription that names no plan and one to a daily plan, in any order
and repeated; two sites are enough for a loop over sites to be cut short between them.
Two severities and two issues let a finding appear, grow worse and vanish while
another stays; two CVEs and two products let one lookup fail beside one that works,
and one CVE be old when another is new. A crash and a refused mark each end a drain
after a delivery, so one of either is enough in the slice of the outbox. Batches of
one with two members make every batch incomplete. Three scans of ZAP are one that
runs, one that waits, and one that arrives during a tear-down; two passive and two ZAP
findings can be duplicates, share a group, and exceed the limit of two rows.
`MaxCrashes`, `MaxFaults`, `MaxChanges`, `MaxEmails` and the numbers of requests on
their way are the only artificial bounds; the safety proofs do not depend on their
values.

**Deadlock** is checked except where the system comes to rest: in
`pipeline_safety` without polls (a finished scan, or one whose reviewers are gone)
and in the sliced runs other than `subscriptions`, where requests are answered,
scans over, and changes and attempts used up.

**Fairness.** Weak fairness of an invocation's next step: the event loop runs what
is ready, and `asyncio.wait_for` turns a node that hangs into a failure, so *some*
step follows. Weak fairness of tasks that were created (`BeginStart`,
`ResumeBegin`, `Cleanup`), of a handler that has begun, and of startup. Clients,
reviewers, crashes and failures are not fair. `RowSettles` also needs
`FairPolls`, as only polls write the row: the extension polls every three seconds
until it sees a terminal status. The watch agent: the drain job fires every ten
minutes, a send ends (the HTTP client has a timeout), a retry falls due, a dead
process is restarted. Nothing is assumed of the provider's answers. Live
verification: a request is answered or fails by its timeout, a back-off ends. ZAP:
weak fairness of a scan's next step (each call has a timeout, and the waiting loops
a deadline) and *strong* fairness of taking the semaphore, because asyncio's wakes
its waiters in the order they came, so a scan that waits while others come and go
is not passed over for ever.

**Every property can fail.** Each module defines faulty variants of its operators
beside the real ones (marked "Faulty" or "Mutant"): an empty list of tools taken for
an absent one, an off-by-one in a limit, an update not attributed to the last node.
`PROJECT.json` pairs each property with the variant that violates it.

### What the violations say

1. *Duplicate approval.* `approve_scan` reads the interrupt, and nothing marks it
   as answered. Two requests that both read it are both accepted and both resume
   the thread; with one approval and one rejection ZAP runs although the report
   says rejected.
2. *Orphans.* `list_stale_active_scans` looks for `recon`, `scoring` and
   `in_progress`, which are never written, and not for `rejected`, `verifying` and
   `scored`, which are. A scan killed in those phases shows as active for ever.
3. *Paused scans.* Recovery fails a scan that waits for its reviewer for longer
   than the scan timeout, although its interrupt survived the restart.
4. *Uncounted scans.* The slot and the in-flight entry go back when the start task
   ends at the gate. The resumed half, the one that uses ZAP, holds neither.
5. *Cancelled countdown.* When a status request fails, the dashboard's page shows
   the error in place of everything else; the approval gate goes and its state with
   it. The next answer brings a new gate: all tools checked, countdown running. A
   user who has cancelled the countdown finds the intrusive tools approved eight
   seconds later.
6. *Alerts that are not news.* A check that fails once leaves its findings out of the
   snapshot, so the next run reports all of them as new although the site is as it was.

Four more statements the models contradict have no run of their own; the properties
that are checked take the code as it is, and name what follows from it:

* *Orphaned jobs.* `scheduler.py:153` promises to "Reconcile persistent jobs with
  current sites/plans (startup)." and line 181 to "Drop orphaned watch-scan jobs (site
  removed / plan downgraded)." The scheduler asked has not started and does not see the
  stored jobs, so the job of a site removed just before a crash stays. In
  `StartScheduler` these sites remain in `unsynced`, which `JobsFollowPlan` excepts.
* *A stopped scheduler.* `tests/test_watch_agent.py:386` says "Job CRUD (add/remove/get)
  works against the SQLAlchemy store before start()." APScheduler then works on its
  pending list: in a process whose scheduler is off or failed to start, a removed site
  keeps its stored job (`JobDealtWith`). The tests pass as each adds and removes in one
  process.
* *The drain raises.* `email_notify.py:241` says "Drain due outbox rows — never raises;
  failed sends are retried." A mark that `accounts.db` refuses ends the drain
  (`MarkFails`); the email was delivered, and its row is due again with its attempts
  uncounted. `DeliveriesBounded` therefore adds the refused marks to its bound.
* *Invented ids in prose.* `tests/test_ai_synthesis.py:280` says "Hallucinated id only
  in prose (not structured fields) must still fail closed." The expression that looks
  for ids sees an unknown one only behind `finding`, `id` or `finding_id`
  (`ai_synthesis.py:33`), and `SummaryGrounded` is about the ids it sees.

Behaviours the models have that contradict no document, or only a phrase of the user
interface, so no run is spent on them; a property they would break names them as its
exceptions.

*Pipeline:* recovery also fails a scan that completed but was not polled afterwards; a
reporting thread that outlives its timeout replaces the failed report by a
completed one; a row whose scan was never scheduled stays pending until a restart.

*Plans and logins:* a webhook is claimed before the plan is changed, so a crash in
between loses the change; a creator's sign-in raises the plan but schedules no
job until something else does, and neither does a scan admitted under the plan
before an upgrade; a job store that raises leaves the sites whose turn had not come as
they were; a renewed plan makes the tests log in although the gate announced an
unauthenticated visitor.

*Watch agent:* a CVE is passed over when its lookup fails, as the window moves on, when
it is older than a week at a site's first check or than 119 days at a later one, when it
is modified behind its product's lookup, and when it does not name its product; an
email whose eighth attempt failed stays in `retry` and is never tried again.

*Findings:* a cookie with `SameSite=None` on http is reported by one rule table and
fixed by the other, so is a wildcard CORS origin with credentials (`KnownDifference`),
and ZAP's alerts about CORS and CSP are re-tested by rules of their own, the one about
a *missing* policy being confirmed by a policy that is there (`ZapDifference`); Verify
Fix on any row of a group re-tests the group's first URL; the URL cap of the verifier
does not bind among concurrent checks; harmless findings lower the average risk; a scan
whose findings are all unreachable is summarised as having no significant risks; a
grader that answers `"false"`, as a string, has approved; a
limit of ZAP slots above one lets scans overwrite each other's session.

*Popup:* opened again while its scan runs, it asks for the scan anew, is refused with
409 and does not watch the scan that is in flight; changing a box does not stop the
countdown, although the text promises it; a failed approval brings the dialog back
with Approve disabled; a dialog opened before the list of tools is there stays empty,
and its silence rejects; an answer about the previous scan may stop the polling of the
present one; having given up, a late answer shows the scan as running while polling
stays off (Re-scan is offered).

*Dashboard:* after a rejection that is not yet carried out the gate returns, with the
countdown, and its decision is refused with 409.

## 4. The proofs

TLAPS proves, for **every** value of the constants (any number of requests, polls,
tools, clients, targets, organisations, sites, payloads, findings, emails, crashes and
failures):

| Theorem | Statement |
|---|---|
| `ScanPipeline_proofs!TypeCorrect` | `SafetySpec => []TypeOK` |
| `...!OnlyGrantedTools` | `SafetySpec => []NoUngrantedTool` |
| `...!CompleteScansHaveReports` | `SafetySpec => []CompleteHasReport` |
| `...!OutcomesAreTruthful` | `SafetySpec => []TruthfulOutcome` |
| `...!CompletedRowsHaveReports` | `[]CompletedRowHasReport`, while no two approvals overlap |
| `...!FinalApprovalsCoverTools` | `[]FinalApprovalCoversExecuted`, with readable snapshots as well |
| `...!PipelineImplementsLifecycle` | `ImplementsLifecycle`, with one decision and no restart |
| `ScanAdmission_proofs!TypeCorrect` | `SafetySpec => []TypeOK` |
| `...!SlotsNeverLeak` | `SafetySpec => []SlotsAreHeld` |
| `...!EntriesNeverStale` | `SafetySpec => []EntriesAreOwned` |
| `...!WorkingScansStayTracked` | `SafetySpec => []WorkingScansAreTracked` |
| `...!QuotasAlwaysHold` | `SafetySpec => []QuotasHold` |
| `Subscriptions_proofs!TypeCorrect` | `Spec => []TypeOK` |
| `...!JobsAgree`, `...!AppliedAtMostOnce` | `Spec => []JobsFollowPlan`, `Spec => []WebhookAppliedOnce` |
| `...!RemovalIsClean` | `Spec => RemovalTakesCredentials` |
| `...!ScanTypeCorrect` | `ScanSpec => []ScanTypeOK` |
| `...!ScanKeepsSubscriptions` | `ScanSpec => []JobsFollowPlan /\ []WebhookAppliedOnce` |
| `...!LoginStaysCurrent`, `...!ExclusionsStay` | `ScanSpec => LoginIsCurrent`, `ScanSpec => ExclusionsKept` |
| `WatchAgent_proofs!AgentImplementsOutbox` | the agent's specification implies `OutboxSpec` |
| `...!OutboxDelivers`, `...!AgentDelivers` | `[]DeliveriesBounded`, of each |
| `...!TypeCorrect` | `[]TypeOK` of the agent |
| `...!AlertsCover` | `[]AlertCoversSnapshot`, with members |
| `...!CveToldOnce` | `[]AlertedOnce`, with distinct addresses |
| `...!CvesAccounted` | `[]CveAccounted`, with members |
| `...!NumberedRangesAgree`, `...!RangesAlwaysAgree` | ranges of versions of up to three numbers; `MCSpec => []RangesAgree` |
| `LiveVerification_proofs!LiveTypeCorrect`, `...!OnlyGoneIsFixed` | `[]LiveTypeOK`, `[]FixedMeansGone` |
| `ZapDaemon_proofs!ZapTypeCorrect`, `...!FindingsStayOwn` | `[]ZapTypeOK`, `[]OwnFindings` |
| `ApprovalClients_proofs!PopupShows`, `...!PopupMovesOn` | `PopupSpec` implies `PopupAsShown`, `[]PopupOnItsWay` |
| `...!PanelShows`, `...!PanelMovesOn` | `PanelSpec` implies `GateAsShown`, `[]GateOnItsWay` |
| `...!ClientsShow` | both clients at one service: `SharedSpec => PopupAsShown /\ GateAsShown` |
| `...!SharedClientsMoveOn`, `...!ClientsMoveOn` | `[]ClientsOnTheirWay` of `SharedSpec` and of `ClientsSpec` |
| `Findings_proofs!FindingsTypeCorrect` | `MCSpec => []TypeOK`: live checks, ZAP and reports |
| `...!RulesAlwaysAgree` | `MCSpec => []RulesAgree` |
| `...!ReportTypeCorrect` | `ReportSpec => []ReportTypeOK` |
| `...!ReportShowsTheWorst`, `...!RowsAreFound` | `ReportSpec => []ReportKeepsWorst`, `ReportSpec => []IdsResolve` |
| `...!CoverageIsHonest`, `...!SummaryIsGrounded` | `ReportSpec => []CoverageHonest`, `ReportSpec => []SummaryGrounded` |
| `...!RefutationLowersRisk` | `ReportSpec => []RefutationNeverRaisesRisk` |

With these every invariant and every action property of the passing runs is a theorem,
and so is the refinement of `ScanLifecycle`; what is left to TLC alone is liveness.

**ScanPipeline.** The assumptions are that the bounds are naturals and that the
names `"start"` and `"recovery"` are not requests. None of the properties is
inductive: a resumed invocation starts from *any* checkpoint, so what is true of a
graph state must be known at every node, not only at the end. `Inv` therefore says
`StateAt(next, v)` of the checkpoint and of each active invocation: approved tools
were granted, tools that ran were approved, nothing has run before detection,
"failed" and an error code go together, only a state at the report may be failed,
and a final state is truthful. With it go that an invocation past the report's
write, or persisting a failure, has files on disk; that accepted decisions are
granted; and that abandoned reports are reports. `CommitInv` shows that committing
a sound state preserves all of this; the nodes reduce to it (`PureNodesInv`), the
failure handlers follow from `FailedStateAt`, and the steps outside the graph from
`OutsideStepsInv`.

*One approval at a time.* Two properties and the refinement are false when two
approvals of a scan overlap: the run `duplicate_approval` shows what happens then. The
theorems therefore assume, over the whole behaviour, that at most one request is
between its check and the end of its resumption (`Undisturbed`; any number may come
one after the other). Then at most one invocation is at work, and it goes on from the
latest checkpoint, which no other one will overwrite: this is `Sole`, with what it
means for the service, the gate and the row (`OneAtWork`, `ServiceInv`, `GateInv`,
`RowInv`). `CompletedRowHasReport` follows. `FinalApprovalCoversExecuted` adds
`Covered`: what is approved in the latest state covers what was started. It needs
readable snapshots (`faults = 0`), because the code replaces one that it cannot read by
`InitialState`, whose approval is empty. The refinement adds `GatePlan` (where the graph
has a plan and an approval) and `OneAnswer` (what was granted is the one decision). It
needs one decision (`OneDecision`: two requests are never both shown the gate, or one
shown it beside one accepted) and no restart: recovery fails a paused scan, and a
decision that was accepted but not carried out goes with the process. TLC checks the
three for one approval, the theorems hold for any number of requests.

**ScanAdmission.** The assumptions: requests are a finite set without `None`,
accounts are clients, limits are naturals. The invariant adds to the four
properties that an unanswered request has no task and no row (`Fresh`, so each
request is counted once), that a handler past its summary holds a *completed* scan
(`Found`, so releasing its entry early hurts no working scan), and that an
organisation's targets are finite. One lemma per part, one step per action.

**Subscriptions and AuthenticatedScan.** Assumptions: each site has an organisation,
payloads are what the webhook parses, `None` is neither a user nor a site. Between two
commits of a handler jobs and plans disagree, so `Inv` says what each handler at work
has done and has yet to do: `HandlerSound` (what it carries fits the stores),
`Applied` (a payload is claimed before it changes a plan, and by its claim only),
`Deactivating` (a site being removed has lost its login before it is inactive),
`SyncSound` (a synchronisation has already repaired the sites it has passed, even
those left behind before) and `JobsSound` (jobs are right except those a handler still
owes and those of the sites left behind). The composition keeps it: beside
`Subscriptions`' own steps only the start of a scan touches its variables, and takes a
site off the queue (`Dequeue`), which `Inv` allows.

**WatchAgent.** Assumptions: members are a finite list of addresses, each issue has
one check, CVEs and issues are told apart. The refinement needs only types: each of
the agent's steps leaves the outbox alone, or is a step of `OutboxNext`, a crash
included. `DeliveriesBounded` is proved of the outbox (`RowSound`: a row was delivered
at most once per counted attempt, once per drain cut short by a crash or a refused
mark (`Cuts`), and once when it was sent) and holds of the agent by the refinement.
`AlertCoversSnapshot` is inductive with the types. A CVE is followed from the window
to the email: what left the window, or was asked about, is recorded or lost (`Passed`,
`Asked`; `PassedOver` for what grows too old), what is recorded is on its way, mailed
or lost (`Recorded`), and what was mailed is no longer on its way (`MailedOnce`).
`AlertsCover` and `CvesAccounted` assume that there are members, `CveToldOnce` that
their addresses differ, and say so.

**LiveVerification, ZapDaemon.** `gone` notes, for each running check, that its page
was without the condition. `FixedMeansGone` rests on `Noted`: a running check that
could see its condition gone is in `gone`, and so is one that was refuted. For ZAP,
`OwnFindings` is about one slot (the default; with more it is false). `SlotsCounted`
makes at most one scan be past the semaphore; `SessionSound` says that from the new
session to the alerts the daemon runs only this scan, as its own user or as nobody.

**Approval clients.** Assumptions: `Absent`, `NoScan` and `NoGate` are none of the
values they stand beside. All four theorems rest on a lemma about `ApprovalService`:
a scan once decided stays decided, whoever else acts (`Decided`). So a step of one
client is, for the other, a step of the service, and what is proved of each alone also
holds of both at one service (`SharedSpec`), which no run enumerates. The popup's
invariant has a part for the boxes and the countdown (`Ticked`), for the polls before
the dialog (`Looking`), for the dialog (`Viewed`, `Asked`) and for the approval on its
way (`Sent`); the dashboard's says how a gate was filled in (`Filled`), that a
countdown which ended has its request on the way or its effect (`Awaited`), and which
status request a decision waits for (`Read`, `Effective`).

**FindingsReport.** Assumptions: what tools report is a finding as `schemas.py` defines
it (`RawAssumption`), the settings of the LLM are a sequence of providers and a number of
calls, the caps are naturals, and `Disabled` is none of the verdicts; the caps may be 0
and nothing is assumed of how many findings there are. Three invariants are inductive
on their own. `CoverageInv`: before scoring, errors, inapplicable, executed and rejected
modules account for what became of each (`MetaSound`). `SynthesisInv`: no synthesis
before its stage, and then a grounded one. `FindingsInv`: findings are distinct by URL
and type throughout, and from scoring on they are a permutation of the scored ones,
worst first, with the position before the sort in the id (`Numbered`), so ids are
unique and survive. `ReportInv` adds what rendering did (`Rendered`: groups stand for
findings, rows for groups, and what was cut is no worse than what is shown).

Deduplication, sums and the rows are folds, and the ranking, the groups and both caps
sort; the community modules define them by recursive functions and `CHOOSE`. That a
fold over the indices of a sequence meets its unrolling is proved by induction over a
set of numbers (`Iterated`, from `Upward`: every set of naturals but the empty one has
a least element, as the order of the naturals is well-founded), and that sorting by
rank is a permutation by the number of elements up to each one in a linear order
(`Ranks`). The risk is then a sum that grows with each weight (`SumsGrow`), and
refuting lowers a weight.

**HeaderRules.** `RulesAgree` is proved of any `AnySite`: every combination of values of
all headers and of any set of cookies at both origins, up or down. TLC takes the
headers that one rule combines and leaves the others hardened. The lemmas say which
types each check reports (`TypesReported`) and compare them with the re-test of the
type (`TypeAgrees`, `CookieAgrees`) and with the rules of ZAP's alerts (`AlertAgrees`).

**NvdRanges.** For versions of up to three numbers below ten, comparing token by token,
padded with zeros, is comparing weights (`NumbersCompare`); a range's first objection
exists exactly when a given bound rejects the weight. Versions with words, on which the
code may raise, are in the CVE slice of `watch_agent` only.

**The slices together.** A step of `MCFindings` is a step of one of the three parts and
leaves the others alone (`Parts`), so the type invariants of the three give `TypeOK`.

**Only model-checked:** liveness (`SubmittedScanSettles`, `AcceptedScanCompletes`,
`RowSettles`, `SlotsReturn`, `EmailSettles`, `EveryCheckEnds`,
`EveryScanGetsItsTurn`): the prover has no fairness and no `ENABLED`.

**Taken from outside.** ZAP's `newSession` drops contexts, users, alerts and running
scans; the NVD answers with what was modified in the window asked for and has the keyword
in its description; APScheduler works on its pending jobs before it is started; Resend may take
an email without its answer arriving; billing sends any payload at any time. Each
is an external definition or an input of the models, as the code uses it.

## 5. Plan

Done, in this order: the pipeline with its lifecycle, admission, and their proofs
(a scan's approval and verdict matter most); then plans, jobs and logins; the watch
agent; findings from tool to report; the clients; the refinement of the lifecycle and
the proofs about reports, rules and ranges. Left, in the order of what it adds:

1. `NvdRateLimiter`: its window, and the sleep it makes with the lock held, with two
   sites' checks. To check: NVD's limit holds; every caller proceeds.
2. The registry file of scans, written in place on every change: a crash in a write
   makes every scan unknown, paused ones too.
3. API tokens: minting, revoking and last use, beside the requests that carry them.
4. `ApprovalClients` composed with `ScanPipeline` itself in place of `ApprovalService`,
   by showing that the pipeline implements the latter.
5. Quotas across a plan change during a request, unlimited plans, and targets that a
   removed site still counts for.

## 6. Not modelled, and why

Scanner wrappers (`tools/*.py` besides ZAP and header checks) run programs and parse
their output; `FindingsReport` takes any result of theirs. `core/ssrf.py`,
`core/scope.py` and `core/destructive_actions.py` classify strings and addresses
without state. Configuration gives the models' constants their values; logs and
audit are written and never read. The auth rate limiter is `ScanRateLimiter`'s window
without slots. Cryptography, Firebase, Resend, NVD, ZAP and the LLM providers are
external. HTML, PDF, the other web pages and the extension's options page are
presentation; Docker, Render, Terraform and the scripts are declarative or one-off.
`PROJECT.json` lists every component with what is left out of it.
