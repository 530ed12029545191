--------------------------- MODULE Subscriptions ---------------------------
(***************************************************************************)
(* What an organisation pays for and what it gets: the plan that billing   *)
(* webhooks and sign-ins set, the monitored sites, their login             *)
(* credentials, and the recurring watch-scan job of each site.             *)
(*                                                                         *)
(* Organisations, sites, credentials and claimed webhooks are rows of      *)
(* accounts.db; the jobs are rows of watch_scheduler.db.  A handler that   *)
(* changes both commits to one and then to the other.  No handler awaits   *)
(* between its commits, so nothing runs between them (handler is not       *)
(* Idle), but the process may die there and the job store may raise.       *)
(***************************************************************************)
EXTENDS Naturals, FiniteSets

CONSTANTS
  Orgs,        \* organisations
  Sites,       \* site rows: an organisation and a target
  SiteOrg,     \* the organisation of each site
  Payloads,    \* the webhook payloads billing sends
  Usernames,   \* logins a customer may store for a site
  Paths,       \* paths a customer may exclude from tests
  MaxCrashes,  \* bound: how often the process is killed
  None

ASSUME SitesAssumption == SiteOrg \in [Sites -> Orgs]
ASSUME PayloadsAssumption ==
  Payloads \subseteq [event: {"cancel", "active"}, org: Orgs,
                      plan: {"free", "starter", "pro", "agency", "invalid", None}]
ASSUME NoneAssumption == None \notin Usernames /\ None \notin Sites
ASSUME MaxCrashesAssumption == MaxCrashes \in Nat

VARIABLES
  creators,     \* the organisations with a member in CREATOR_EMAILS
  plan,         \* organizations.plan_id, "absent" before the first sign-in
  site,         \* sites.active, "absent" before the first scan
  cred,         \* site_auth_credentials
  claimed,      \* processed_webhook_events
  applied,      \* history: how often each payload changed the plan
  job,          \* the trigger of each site's job in watch_scheduler.db
  up,           \* the process serves requests
  running,      \* the scheduler was started
  handler,      \* the handler between two of its commits
  req,          \* the plan POST /scan read for the site, until it goes on
  queued,       \* sites whose scan was scheduled and has not begun
  unsynced,     \* history: the sites whose job was left behind
  crashes

vars == <<creators, plan, site, cred, claimed, applied, job, up, running,
          handler, req, queued, unsynced, crashes>>

-----------------------------------------------------------------------------
(* The plan catalog.                                                       *)

PlanLimits == {"free", "starter", "pro", "agency"}

Cadence(p) == CASE p \in {"pro", "agency"} -> "daily"
                [] p = "starter"           -> "weekly"
                [] OTHER                   -> "none"

SupportsWatch(p) == Cadence(p) # "none"

AuthenticatedScanning(p) == p \in {"pro", "agency"}

CreatorPlan(o) == IF o \in creators THEN "agency" ELSE "free"

-----------------------------------------------------------------------------

SitesOf(o) == {s \in Sites : SiteOrg[s] = o}

\* Mutant: list_org_sites with its default active_only.
OrgSites_ActiveOnly(o) == {s \in SitesOf(o) : site[s] = "active"}

OrgSites(o) == {s \in SitesOf(o) : site[s] # "absent"}

Watchable(s) == site[s] = "active" /\ SupportsWatch(plan[SiteOrg[s]])

\* The job the site should have.
DesiredJob(s) == IF Watchable(s) THEN Cadence(plan[SiteOrg[s]]) ELSE "none"

NoCredentials == [user |-> None, excluded |-> {}]

Credentials == [user: Usernames, excluded: SUBSET Paths] \cup {NoCredentials}

Idle == [op |-> "idle", org |-> None, site |-> None, todo |-> {}, pay |-> None]

Init ==
  /\ creators \in SUBSET Orgs
  /\ plan = [o \in Orgs |-> "absent"]
  /\ site = [s \in Sites |-> "absent"]
  /\ cred = [s \in Sites |-> NoCredentials]
  /\ claimed = {}
  /\ applied = [p \in Payloads |-> 0]
  /\ job = [s \in Sites |-> "none"]
  /\ up = TRUE
  /\ running = TRUE
  /\ handler = Idle
  /\ req = [s \in Sites |-> None]
  /\ queued = {}
  /\ unsynced = {}
  /\ crashes = 0

Serving == up /\ handler = Idle

accounts == <<creators, plan, site, cred, claimed, applied>>
process  == <<up, running, crashes>>

-----------------------------------------------------------------------------
(* Accounts and billing.                                                   *)

\* POST /auth/sync: the first sign-in creates the organisation; a later one
\* of a creator raises its plan and leaves the jobs of its sites behind.
SignIn(o) ==
  /\ Serving
  /\ \/ plan[o] = "absent"
     \/ o \in creators /\ plan[o] # "agency"
  /\ plan' = [plan EXCEPT ![o] = CreatorPlan(o)]
  /\ unsynced' = unsynced \cup {s \in SitesOf(o) : site[s] = "active"}
  /\ UNCHANGED <<creators, site, cred, claimed, applied, job, process, handler,
                 req, queued>>

PaidPlan(p) == IF p.plan = None THEN "starter" ELSE p.plan

\* POST /webhooks/dodo takes effect unless it cancels the plan of a creator
\* (skipped), names no plan of the catalog (422) or no organisation (404).
Accepted(p) ==
  /\ IF p.event = "cancel" THEN p.org \notin creators ELSE PaidPlan(p) \in PlanLimits
  /\ plan[p.org] # "absent"

NewPlan(p) == IF p.event = "cancel" THEN "free" ELSE PaidPlan(p)

\* Mutant: the hash is inserted without looking for it.
WebhookClaims_Unchecked(p) ==
  /\ Serving
  /\ claimed' = claimed \cup {p}
  /\ handler' = IF Accepted(p)
                THEN [Idle EXCEPT !.op = "plan", !.org = p.org, !.pay = p]
                ELSE Idle
  /\ UNCHANGED <<creators, plan, site, cred, applied, job, process, req, queued,
                 unsynced>>

ClaimWebhookEvent(p) == p \notin claimed /\ claimed' = claimed \cup {p}

\* The hash of the payload is committed first.  A payload already claimed is
\* answered as a duplicate and changes nothing.
WebhookClaims(p) ==
  /\ Serving
  /\ ClaimWebhookEvent(p)
  /\ handler' = IF Accepted(p)
                THEN [Idle EXCEPT !.op = "plan", !.org = p.org, !.pay = p]
                ELSE Idle
  /\ UNCHANGED <<creators, plan, site, cred, applied, job, process, req, queued,
                 unsynced>>

UpdatePlan(o, p) == plan' = [plan EXCEPT ![o] = p]

WebhookSetsPlan ==
  /\ handler.op = "plan"
  /\ UpdatePlan(handler.org, NewPlan(handler.pay))
  /\ applied' = [applied EXCEPT ![handler.pay] = @ + 1]
  /\ handler' = [handler EXCEPT !.op = "sync", !.todo = OrgSites(handler.org)]
  /\ UNCHANGED <<creators, site, cred, claimed, job, process, req, queued,
                 unsynced>>

-----------------------------------------------------------------------------
(* The job store.  APScheduler 3 keeps what is added before start() in     *)
(* memory, and get_job, get_jobs and remove_job see only that until then:  *)
(* a process whose scheduler is not running never changes the stored jobs. *)

\* schedule_site_watch_job: replace the site's job, or cancel it.
Reschedule(s) == job' = IF running THEN [job EXCEPT ![s] = DesiredJob(s)] ELSE job

RemoveJob(s) == job' = IF running THEN [job EXCEPT ![s] = "none"] ELSE job

\* With the scheduler stopped the stored job is left behind.
JobDealtWith(s) == unsynced' = IF running THEN unsynced \ {s} ELSE unsynced \cup {s}

\* sync_org_watch_jobs goes through all sites of the organisation, the
\* inactive ones too.
SyncSite(s) ==
  /\ handler.op = "sync" /\ s \in handler.todo
  /\ Reschedule(s)
  /\ handler' = [handler EXCEPT !.todo = @ \ {s}]
  /\ JobDealtWith(s)
  /\ UNCHANGED <<accounts, process, req, queued>>

\* A synchronisation that went through leaves no site of the organisation behind.
SyncDone ==
  /\ handler.op = "sync" /\ handler.todo = {}
  /\ unsynced' = IF running THEN unsynced \ SitesOf(handler.org) ELSE unsynced
  /\ handler' = Idle
  /\ UNCHANGED <<accounts, job, process, req, queued>>

\* The sites whose job the handler at work has yet to deal with.
Owed(s) ==
  \/ handler.op = "sync" /\ s \in handler.todo
  \/ handler.op \in {"add", "cancel"} /\ s = handler.site

\* An SQLite error in the job store: the request fails, what is committed stays.
JobStoreRaises ==
  /\ handler.op \in {"sync", "add", "cancel"}
  /\ unsynced' = unsynced \cup {s \in Sites : Owed(s)}
  /\ handler' = Idle
  /\ UNCHANGED <<accounts, job, process, req, queued>>

-----------------------------------------------------------------------------
(* Sites.                                                                  *)

\* POST /scan reads the account.  If it finds a scan of the target in
\* flight it awaits that scan's summary and goes on when it was complete.
AwaitDuplicate(s) ==
  /\ Serving /\ plan[SiteOrg[s]] # "absent"
  /\ site[s] # "absent" /\ req[s] = None
  /\ req' = [req EXCEPT ![s] = plan[SiteOrg[s]]]
  /\ UNCHANGED <<accounts, job, process, handler, queued, unsynced>>

AccountPlan(s) == IF req[s] = None THEN plan[SiteOrg[s]] ELSE req[s]

\* The scan and the active site are committed.  The job follows only if the
\* plan read with the account has one.
AdmitScan(s) ==
  /\ Serving /\ AccountPlan(s) # "absent" /\ s \notin queued
  /\ site' = [site EXCEPT ![s] = "active"]
  /\ req' = [req EXCEPT ![s] = None]
  /\ \/ /\ SupportsWatch(AccountPlan(s))
        /\ handler' = [Idle EXCEPT !.op = "add", !.org = SiteOrg[s], !.site = s]
        /\ UNCHANGED <<queued, unsynced>>
     \/ /\ ~SupportsWatch(AccountPlan(s))
        /\ handler' = Idle
        /\ queued' = queued \cup {s}
        /\ unsynced' = IF SupportsWatch(plan[SiteOrg[s]])
                       THEN unsynced \cup {s} ELSE unsynced
  /\ UNCHANGED <<creators, plan, cred, claimed, applied, job, process>>

\* A scan in flight, a rate limit or a quota ends the request (ScanAdmission).
RefuseScan(s) ==
  /\ Serving /\ req[s] # None
  /\ req' = [req EXCEPT ![s] = None]
  /\ UNCHANGED <<accounts, job, process, handler, queued, unsynced>>

\* on_site_added reads site and plan again; then the scan is scheduled.
AddJob ==
  /\ handler.op = "add"
  /\ Reschedule(handler.site)
  /\ JobDealtWith(handler.site)
  /\ queued' = queued \cup {handler.site}
  /\ handler' = Idle
  /\ UNCHANGED <<accounts, process, req>>

DropCredentials(s) == cred' = [cred EXCEPT ![s] = NoCredentials]

\* Mutant: the credentials stay.
RemoveSite_KeepsCredentials(s) ==
  /\ Serving /\ site[s] # "absent"
  /\ handler' = [Idle EXCEPT !.op = "deactivate", !.org = SiteOrg[s], !.site = s]
  /\ UNCHANGED <<accounts, job, process, req, queued, unsynced>>

\* DELETE /orgs/me/sites/{id}: credentials, then the site, then its job.
RemoveSite(s) ==
  /\ Serving /\ site[s] # "absent"
  /\ DropCredentials(s)
  /\ handler' = [Idle EXCEPT !.op = "deactivate", !.org = SiteOrg[s], !.site = s]
  /\ UNCHANGED <<creators, plan, site, claimed, applied, job, process, req,
                 queued, unsynced>>

DeactivateSite ==
  /\ handler.op = "deactivate"
  /\ site' = [site EXCEPT ![handler.site] = "inactive"]
  /\ handler' = [handler EXCEPT !.op = "cancel"]
  /\ UNCHANGED <<creators, plan, cred, claimed, applied, job, process, req,
                 queued, unsynced>>

CancelJob ==
  /\ handler.op = "cancel"
  /\ RemoveJob(handler.site)
  /\ JobDealtWith(handler.site)
  /\ handler' = Idle
  /\ UNCHANGED <<accounts, process, req, queued>>

-----------------------------------------------------------------------------
(* Login credentials of a site.                                            *)

StoreCredentials(s, c) == cred' = [cred EXCEPT ![s] = c]

\* PUT credentials: the plan allows it, the customer consents, the site
\* belongs to the organisation, removed or not.
PutCredentials(s, c) ==
  /\ Serving /\ site[s] # "absent" /\ c # NoCredentials
  /\ AuthenticatedScanning(plan[SiteOrg[s]])
  /\ StoreCredentials(s, c)
  /\ UNCHANGED <<creators, plan, site, claimed, applied, job, process, handler,
                 req, queued, unsynced>>

ReplaceExcluded(s, P) == cred' = [cred EXCEPT ![s].excluded = P]

\* PUT excluded-paths replaces the paths, on any plan.
PutExcludedPaths(s, P) ==
  /\ Serving /\ cred[s] # NoCredentials
  /\ ReplaceExcluded(s, P)
  /\ UNCHANGED <<creators, plan, site, claimed, applied, job, process, handler,
                 req, queued, unsynced>>

DeleteCredentials(s) ==
  /\ Serving /\ cred[s] # NoCredentials
  /\ DropCredentials(s)
  /\ UNCHANGED <<creators, plan, site, claimed, applied, job, process, handler,
                 req, queued, unsynced>>

-----------------------------------------------------------------------------
(* Crash and restart.                                                      *)

\* A webhook that dies before the plan is set leaves jobs and plan in step.
Crash ==
  /\ up /\ crashes < MaxCrashes
  /\ crashes' = crashes + 1
  /\ up' = FALSE /\ running' = FALSE
  /\ handler' = Idle
  /\ req' = [s \in Sites |-> None]
  /\ queued' = {}
  /\ unsynced' = unsynced \cup {s \in Sites : Owed(s)}
  /\ UNCHANGED <<accounts, job>>

Orphaned(s) == job[s] # "none" /\ ~Watchable(s)

\* start_scheduler adds the job of every watchable site.  Its clean-up of
\* orphans looks at the jobs of a scheduler that is not started: its own.
StartScheduler ==
  /\ ~up
  /\ up' = TRUE /\ running' = TRUE
  /\ job' = [s \in Sites |-> IF Watchable(s) THEN DesiredJob(s) ELSE job[s]]
  /\ unsynced' = {s \in unsynced : Orphaned(s)}
  /\ UNCHANGED <<accounts, handler, req, queued, crashes>>

\* watch_scheduler_enabled is off, or starting raised and was logged.
StartWithoutScheduler ==
  /\ ~up
  /\ up' = TRUE /\ running' = FALSE
  /\ UNCHANGED <<accounts, job, handler, req, queued, unsynced, crashes>>

-----------------------------------------------------------------------------

HandlerStep ==
  \/ WebhookSetsPlan \/ SyncDone \/ JobStoreRaises
  \/ \E s \in Sites : SyncSite(s)
  \/ AddJob \/ DeactivateSite \/ CancelJob

Step ==
  \/ \E o \in Orgs : SignIn(o)
  \/ \E p \in Payloads : WebhookClaims(p)
  \/ \E s \in Sites :
       \/ AwaitDuplicate(s) \/ AdmitScan(s) \/ RefuseScan(s)
       \/ RemoveSite(s) \/ DeleteCredentials(s)
       \/ \E c \in Credentials : PutCredentials(s, c)
       \/ \E P \in SUBSET Paths : PutExcludedPaths(s, P)
  \/ HandlerStep
  \/ StartScheduler \/ StartWithoutScheduler

Next == Step \/ Crash

Spec == Init /\ [][Next]_vars

-----------------------------------------------------------------------------

HandlerOps == {"idle", "plan", "sync", "add", "deactivate", "cancel"}

Handlers ==
  [op: HandlerOps, org: Orgs \cup {None}, site: Sites \cup {None}, todo: SUBSET Sites,
   pay: Payloads \cup {None}]

TypeOK ==
  /\ creators \subseteq Orgs
  /\ plan \in [Orgs -> PlanLimits \cup {"absent"}]
  /\ site \in [Sites -> {"absent", "active", "inactive"}]
  /\ cred \in [Sites -> Credentials]
  /\ claimed \subseteq Payloads
  /\ applied \in [Payloads -> Nat]
  /\ job \in [Sites -> {"none", "weekly", "daily"}]
  /\ up \in BOOLEAN /\ running \in BOOLEAN
  /\ handler \in Handlers
  /\ req \in [Sites -> PlanLimits \cup {None}]
  /\ queued \subseteq Sites
  /\ unsynced \subseteq Sites
  /\ crashes \in 0..MaxCrashes

\* Every site has exactly the job, with the cadence, its organisation pays
\* for, and a removed site has none, whatever sequence of webhooks, sign-ins,
\* additions and removals came before.  While no handler is at work the two
\* databases differ only at a site left behind: its handler died or the job
\* store raised before its turn, the scheduler was stopped when its turn came,
\* or its plan changed and no one told the scheduler (a creator's sign-in, a
\* scan admitted under the plan before an upgrade).  It is in step again after
\* the next handler that deals with its job, after every synchronisation of
\* its organisation that goes through, and, unless it is an orphan, after the
\* next start of the scheduler.
JobsFollowPlan ==
  handler = Idle => \A s \in Sites \ unsynced : job[s] = DesiredJob(s)

\* Billing may deliver a webhook any number of times, and the process may die
\* while handling it: it changes the plan at most once.
WebhookAppliedOnce == \A p \in Payloads : applied[p] <= 1

\* A removal that is cut short never leaves a removed site with the login it
\* had: the credentials go before the site does (delete_org_site's order).
RemovalTakesCredentials ==
  [][\A s \in Sites : site[s] = "active" /\ site'[s] = "inactive"
                        => cred'[s] = NoCredentials]_vars

=============================================================================
