------------------------ MODULE Subscriptions_proofs ------------------------
(***************************************************************************)
(* Subscriptions for any organisations, sites and webhooks, and any number *)
(* of crashes.  JobsFollowPlan speaks of the moments without a handler; to *)
(* be inductive it has to say, for each handler between two commits, which *)
(* jobs it has yet to deal with (JobsSound), and of a synchronisation that *)
(* it has brought every site it is done with in step, whatever was left    *)
(* behind before (SyncSound): that makes it repair an organisation.        *)
(***************************************************************************)
EXTENDS AuthenticatedScan, TLAPS

HandlerSound ==
  /\ handler # Idle => up
  /\ running => up
  /\ handler.op # "idle" => handler.org \in Orgs
  /\ handler.op = "plan" =>
       /\ handler.pay \in claimed /\ handler.org = handler.pay.org
       /\ Accepted(handler.pay)
  /\ handler.op \in {"add", "deactivate", "cancel"} =>
       handler.site \in Sites /\ handler.org = SiteOrg[handler.site]

\* A payload is claimed before it is applied, and applied by its claim only.
Applied ==
  \A p \in Payloads : /\ applied[p] <= 1
                      /\ applied[p] = 1 => p \in claimed
                      /\ handler.op = "plan" /\ handler.pay = p => applied[p] = 0

Deactivating ==
  /\ handler.op = "deactivate" => cred[handler.site] = NoCredentials
  /\ handler.op = "cancel"     => site[handler.site] = "inactive"

JobsSound ==
  \A s \in Sites : s \notin unsynced /\ ~Owed(s) => job[s] = DesiredJob(s)

SyncSound ==
  handler.op = "sync" /\ running =>
    \A s \in SitesOf(handler.org) : s \notin handler.todo => job[s] = DesiredJob(s)

AbsentHasNoJob == \A s \in Sites : site[s] = "absent" => job[s] = "none"

\* The inductive invariant.
Inv == TypeOK /\ HandlerSound /\ Applied /\ Deactivating /\ JobsSound /\ SyncSound
              /\ AbsentHasNoJob

USE SitesAssumption, PayloadsAssumption, NoneAssumption, MaxCrashesAssumption
  DEF SitesAssumption, PayloadsAssumption, NoneAssumption, MaxCrashesAssumption

LEMMA DesiredJobFacts ==
  ASSUME NEW s \in Sites
  PROVE  /\ DesiredJob(s) \in {"none", "weekly", "daily"}
         /\ site[s] # "active" => DesiredJob(s) = "none"
         /\ ~SupportsWatch(plan[SiteOrg[s]]) => DesiredJob(s) = "none"
         /\ ~Watchable(s) => DesiredJob(s) = "none"
BY DEF DesiredJob, Watchable, SupportsWatch, Cadence

LEMMA SameDesired ==
  ASSUME NEW s \in Sites, site'[s] = site[s], plan'[SiteOrg[s]] = plan[SiteOrg[s]]
  PROVE  DesiredJob(s)' = DesiredJob(s) /\ Watchable(s)' = Watchable(s)
BY DEF DesiredJob, Watchable

LEMMA IdleFacts == /\ Idle.op = "idle" /\ Idle.todo = {}
                   /\ Idle.org = None /\ Idle.site = None /\ Idle.pay = None
                   /\ Idle \in Handlers
BY DEF Idle, Handlers, HandlerOps

\* A handler for a site begins.
LEMMA BeginFacts ==
  ASSUME NEW s \in Sites, NEW op \in HandlerOps
  PROVE  [Idle EXCEPT !.op = op, !.org = SiteOrg[s], !.site = s] \in Handlers
<1>1. SiteOrg[s] \in Orgs
  OBVIOUS
<1> QED BY <1>1, IdleFacts DEF Handlers

-----------------------------------------------------------------------------
(* Types.                                                                  *)

LEMMA PlanFacts ==
  ASSUME NEW p \in Payloads, Accepted(p)
  PROVE  NewPlan(p) \in PlanLimits /\ p.org \in Orgs
BY DEF Accepted, NewPlan, PaidPlan, PlanLimits

LEMMA CredentialFacts ==
  ASSUME NEW c \in Credentials, NEW P \in SUBSET Paths
  PROVE  /\ NoCredentials \in Credentials
         /\ c # NoCredentials => [c EXCEPT !.excluded = P] \in Credentials
BY DEF Credentials, NoCredentials

LEMMA TypeStep ==
  ASSUME TypeOK, HandlerSound, Next
  PROVE  TypeOK'
<1> USE DEF TypeOK, process, accounts
<1>1. ASSUME NEW o \in Orgs, SignIn(o) PROVE TypeOK'
  <2>1. plan' \in [Orgs -> PlanLimits \cup {"absent"}]
    BY <1>1 DEF SignIn, CreatorPlan, PlanLimits
  <2>2. unsynced' \subseteq Sites
    BY <1>1 DEF SignIn, SitesOf
  <2> QED BY <1>1, <2>1, <2>2 DEF SignIn
<1>2. ASSUME NEW p \in Payloads, WebhookClaims(p) PROVE TypeOK'
  BY <1>2 DEF WebhookClaims, ClaimWebhookEvent, Idle, Handlers, HandlerOps
<1>3. ASSUME NEW s \in Sites, AwaitDuplicate(s) \/ RefuseScan(s) PROVE TypeOK'
  BY <1>3 DEF AwaitDuplicate, RefuseScan
<1>4. ASSUME NEW s \in Sites, AdmitScan(s) PROVE TypeOK'
  <2>1. handler' \in Handlers
    <3>1. \/ handler' = [Idle EXCEPT !.op = "add", !.org = SiteOrg[s], !.site = s]
          \/ handler' = Idle
      BY <1>4 DEF AdmitScan
    <3> QED BY <3>1, IdleFacts, BeginFacts DEF HandlerOps
  <2>2. /\ site' = [site EXCEPT ![s] = "active"] /\ req' = [req EXCEPT ![s] = None]
        /\ queued' \subseteq Sites /\ unsynced' \subseteq Sites
        /\ UNCHANGED <<creators, plan, cred, claimed, applied, job, up, running, crashes>>
    BY <1>4 DEF AdmitScan
  <2> QED BY <2>1, <2>2
<1>5. ASSUME NEW s \in Sites, RemoveSite(s) \/ DeleteCredentials(s) PROVE TypeOK'
  <2>1. cred' \in [Sites -> Credentials]
    BY <1>5, CredentialFacts DEF RemoveSite, DeleteCredentials, DropCredentials
  <2>2. handler' \in Handlers
    BY <1>5, BeginFacts DEF RemoveSite, DeleteCredentials, HandlerOps
  <2> QED BY <1>5, <2>1, <2>2 DEF RemoveSite, DeleteCredentials
<1>6. ASSUME NEW s \in Sites, NEW c \in Credentials, PutCredentials(s, c) PROVE TypeOK'
  BY <1>6 DEF PutCredentials, StoreCredentials
<1>7. ASSUME NEW s \in Sites, NEW P \in SUBSET Paths, PutExcludedPaths(s, P) PROVE TypeOK'
  <2>1. cred' = [cred EXCEPT ![s] = [cred[s] EXCEPT !.excluded = P]]
    BY <1>7 DEF PutExcludedPaths, ReplaceExcluded
  <2>2. cred' \in [Sites -> Credentials]
    BY <1>7, <2>1, CredentialFacts DEF PutExcludedPaths
  <2> QED BY <1>7, <2>2 DEF PutExcludedPaths
<1>8. CASE WebhookSetsPlan
  <2>1. NewPlan(handler.pay) \in PlanLimits /\ handler.pay \in Payloads
    BY <1>8, PlanFacts DEF WebhookSetsPlan, HandlerSound
  <2>2. handler' \in Handlers
    <3>1. OrgSites(handler.org) \subseteq Sites
      BY DEF OrgSites, SitesOf
    <3>2. handler' = [handler EXCEPT !.op = "sync", !.todo = OrgSites(handler.org)]
      BY <1>8 DEF WebhookSetsPlan
    <3> QED BY <3>1, <3>2 DEF Handlers, HandlerOps
  <2>3. plan' = [plan EXCEPT ![handler.org] = NewPlan(handler.pay)]
        /\ applied' = [applied EXCEPT ![handler.pay] = @ + 1]
        /\ UNCHANGED <<creators, site, cred, claimed, job, up, running, crashes, req,
                       queued, unsynced>>
    BY <1>8 DEF WebhookSetsPlan, UpdatePlan
  <2>4. plan' \in [Orgs -> PlanLimits \cup {"absent"}]
    BY <2>1, <2>3
  <2>5. applied' \in [Payloads -> Nat]
    BY <2>1, <2>3
  <2> QED BY <2>2, <2>3, <2>4, <2>5
<1>9. CASE SyncDone \/ JobStoreRaises
  BY <1>9 DEF SyncDone, JobStoreRaises, Idle, Handlers, HandlerOps, HandlerSound
<1>10. ASSUME NEW s \in Sites, SyncSite(s) PROVE TypeOK'
  <2>1. job' \in [Sites -> {"none", "weekly", "daily"}]
    BY <1>10, DesiredJobFacts DEF SyncSite, Reschedule
  <2> QED BY <1>10, <2>1 DEF SyncSite, JobDealtWith, Handlers
<1>11. CASE AddJob
  <2>1. job' \in [Sites -> {"none", "weekly", "daily"}]
    BY <1>11, DesiredJobFacts DEF AddJob, Reschedule, HandlerSound
  <2> QED BY <1>11, <2>1 DEF AddJob, JobDealtWith, HandlerSound, Idle, Handlers, HandlerOps
<1>12. CASE DeactivateSite \/ CancelJob
  <2>1. CASE DeactivateSite
    BY <2>1 DEF DeactivateSite, HandlerSound, Handlers, HandlerOps
  <2>2. CASE CancelJob
    <3>1. handler.site \in Sites
      BY <2>2 DEF CancelJob, HandlerSound
    <3>2. /\ job' \in [Sites -> {"none", "weekly", "daily"}]
          /\ unsynced' \subseteq Sites
      BY <2>2, <3>1 DEF CancelJob, RemoveJob, JobDealtWith
    <3>3. handler' \in Handlers
      BY <2>2, IdleFacts DEF CancelJob
    <3> QED BY <2>2, <3>2, <3>3 DEF CancelJob
  <2> QED BY <1>12, <2>1, <2>2
<1>13. CASE StartScheduler
  <2>1. job' \in [Sites -> {"none", "weekly", "daily"}]
    BY <1>13, DesiredJobFacts DEF StartScheduler
  <2> QED BY <1>13, <2>1 DEF StartScheduler
<1>14. CASE StartWithoutScheduler
  BY <1>14 DEF StartWithoutScheduler
<1>15. CASE Crash
  <2>1. handler' \in Handlers
    BY <1>15 DEF Crash, Idle, Handlers, HandlerOps
  <2>2. /\ UNCHANGED <<creators, plan, site, cred, claimed, applied, job>>
        /\ up' = FALSE /\ running' = FALSE /\ queued' = {}
        /\ req' = [s \in Sites |-> None]
        /\ crashes' = crashes + 1 /\ crashes < MaxCrashes
    BY <1>15 DEF Crash
  <2>3. unsynced' \subseteq Sites
    BY <1>15 DEF Crash, HandlerSound
  <2>4. crashes' \in 0..MaxCrashes
    BY <2>2
  <2>5. req' \in [Sites -> PlanLimits \cup {None}]
    BY <2>2
  <2> QED BY <2>1, <2>2, <2>3, <2>4, <2>5
<1> QED BY <1>1, <1>2, <1>3, <1>4, <1>5, <1>6, <1>7, <1>8, <1>9, <1>10, <1>11, <1>12, <1>13,
           <1>14, <1>15 DEF Next, Step, HandlerStep

-----------------------------------------------------------------------------
(* Steps, by what they change.                                             *)

\* Requests that touch neither plan, site nor job, and no handler.
QuietRequest ==
  /\ Serving
  /\ UNCHANGED <<creators, plan, site, claimed, applied, job, up, running, handler, unsynced>>

LEMMA QuietRequests ==
  ASSUME NEW s \in Sites,
         \/ AwaitDuplicate(s) \/ RefuseScan(s) \/ DeleteCredentials(s)
         \/ \E c \in Credentials : PutCredentials(s, c)
         \/ \E P \in SUBSET Paths : PutExcludedPaths(s, P)
  PROVE  QuietRequest
BY DEF AwaitDuplicate, RefuseScan, DeleteCredentials, PutCredentials, PutExcludedPaths,
       QuietRequest, accounts, process

StepOfSite(s) ==
  \/ AdmitScan(s) \/ RemoveSite(s) \/ SyncSite(s)

LEMMA StepKinds ==
  ASSUME Next
  PROVE  \/ QuietRequest
         \/ \E o \in Orgs : SignIn(o)
         \/ \E p \in Payloads : WebhookClaims(p)
         \/ \E s \in Sites : StepOfSite(s)
         \/ WebhookSetsPlan \/ SyncDone \/ JobStoreRaises
         \/ AddJob \/ DeactivateSite \/ CancelJob
         \/ StartScheduler \/ StartWithoutScheduler \/ Crash
BY QuietRequests DEF Next, Step, HandlerStep, StepOfSite

-----------------------------------------------------------------------------
(* Handlers, webhooks and removals.                                        *)

LEMMA HandlerStepSound ==
  ASSUME TypeOK, HandlerSound, Next
  PROVE  HandlerSound'
<1> USE DEF HandlerSound, accounts, process
<1>1. ASSUME NEW p \in Payloads PROVE plan' = plan /\ creators' = creators => Accepted(p)' = Accepted(p)
  BY DEF Accepted
<1>2. CASE QuietRequest
  BY <1>1, <1>2, IdleFacts DEF QuietRequest, Serving
<1>3. ASSUME NEW o \in Orgs, SignIn(o) PROVE HandlerSound'
  BY <1>3, IdleFacts DEF SignIn, Serving
<1>4. ASSUME NEW p \in Payloads, WebhookClaims(p) PROVE HandlerSound'
  <2>1. handler' = [Idle EXCEPT !.op = "plan", !.org = p.org, !.pay = p] \/ handler' = Idle
    BY <1>4 DEF WebhookClaims
  <2>2. CASE handler' = Idle
    BY <1>4, <2>2, IdleFacts DEF WebhookClaims, Serving
  <2>3. CASE /\ handler' = [Idle EXCEPT !.op = "plan", !.org = p.org, !.pay = p]
             /\ handler' # Idle
    <3>1. handler'.op = "plan" /\ handler'.org = p.org /\ handler'.pay = p
      BY <2>3 DEF Idle
    <3>2. Accepted(p)' /\ p \in claimed' /\ p.org \in Orgs
      BY <1>1, <1>4, <2>3 DEF WebhookClaims, ClaimWebhookEvent
    <3> QED BY <1>4, <3>1, <3>2 DEF WebhookClaims, Serving
  <2> QED BY <2>1, <2>2, <2>3
<1>5. ASSUME NEW s \in Sites, StepOfSite(s) PROVE HandlerSound'
  <2>1. CASE SyncSite(s)
    BY <2>1, IdleFacts DEF SyncSite, TypeOK, Handlers
  <2>2. CASE AdmitScan(s) \/ RemoveSite(s)
    <3>1. PICK op \in {"idle", "add", "deactivate"} :
            handler' = IF op = "idle" THEN Idle
                       ELSE [Idle EXCEPT !.op = op, !.org = SiteOrg[s], !.site = s]
      BY <2>2 DEF AdmitScan, RemoveSite
    <3>2. SiteOrg[s] \in Orgs /\ up' /\ running' = running
      BY <2>2 DEF AdmitScan, RemoveSite, Serving
    <3>3. CASE op = "idle"
      BY <3>1, <3>2, <3>3, IdleFacts
    <3>4. CASE op # "idle"
      <4>1. handler'.op = op /\ handler'.org = SiteOrg[s] /\ handler'.site = s
        BY <3>1, <3>4 DEF Idle
      <4> QED BY <3>1, <3>2, <3>4, <4>1
    <3> QED BY <3>3, <3>4
  <2> QED BY <1>5, <2>1, <2>2 DEF StepOfSite
<1>6. CASE WebhookSetsPlan
  BY <1>6, IdleFacts DEF WebhookSetsPlan, TypeOK, Handlers
<1>7. CASE SyncDone \/ JobStoreRaises \/ AddJob \/ CancelJob \/ Crash
  BY <1>7, IdleFacts DEF SyncDone, JobStoreRaises, AddJob, CancelJob, Crash
<1>8. CASE DeactivateSite
  BY <1>8, IdleFacts DEF DeactivateSite, TypeOK, Handlers
<1>9. CASE StartScheduler \/ StartWithoutScheduler
  BY <1>9, IdleFacts DEF StartScheduler, StartWithoutScheduler
<1> QED BY <1>2, <1>3, <1>4, <1>5, <1>6, <1>7, <1>8, <1>9, StepKinds

LEMMA SiteHandlers ==
  ASSUME TypeOK, NEW s \in Sites
  PROVE  /\ AdmitScan(s)  => handler'.op \in {"add", "idle"}
         /\ RemoveSite(s) => handler'.op = "deactivate"
         /\ SyncSite(s)   => handler'.op = "sync"
<1>1. ASSUME AdmitScan(s) PROVE handler'.op \in {"add", "idle"}
  <2>1. \/ handler' = [Idle EXCEPT !.op = "add", !.org = SiteOrg[s], !.site = s]
        \/ handler' = Idle
    BY <1>1 DEF AdmitScan
  <2> QED BY <2>1, IdleFacts DEF Handlers
<1>2. RemoveSite(s) => handler'.op = "deactivate"
  BY DEF RemoveSite, Idle
<1>3. SyncSite(s)   => handler'.op = "sync"
  BY DEF SyncSite, TypeOK, Handlers
<1> QED BY <1>1, <1>2, <1>3

LEMMA AppliedStep ==
  ASSUME TypeOK, HandlerSound, Applied, Next
  PROVE  Applied'
<1> USE DEF Applied, accounts, process
<1>1. CASE handler'.op # "plan" /\ applied' = applied /\ claimed' = claimed
  BY <1>1
<1>2. CASE QuietRequest
  BY <1>2 DEF QuietRequest
<1>3. ASSUME NEW p \in Payloads, WebhookClaims(p) PROVE Applied'
  <2>1. applied[p] = 0
    <3>1. applied[p] \in Nat /\ applied[p] <= 1 /\ applied[p] # 1
      BY <1>3 DEF WebhookClaims, ClaimWebhookEvent, TypeOK
    <3> QED BY <3>1
  <2>2. handler'.op = "plan" => handler'.pay = p
    BY <1>3 DEF WebhookClaims, Idle
  <2> QED BY <1>3, <2>1, <2>2 DEF WebhookClaims, ClaimWebhookEvent
<1>4. CASE WebhookSetsPlan
  <2>1. handler'.op # "plan" /\ handler.pay \in Payloads /\ applied[handler.pay] = 0
    BY <1>4 DEF WebhookSetsPlan, HandlerSound, TypeOK, Handlers
  <2> QED BY <1>4, <2>1 DEF WebhookSetsPlan, HandlerSound, TypeOK
<1>5. ASSUME \/ \E o \in Orgs : SignIn(o)
             \/ \E s \in Sites : StepOfSite(s)
             \/ SyncDone \/ JobStoreRaises \/ AddJob \/ DeactivateSite \/ CancelJob
             \/ StartScheduler \/ StartWithoutScheduler \/ Crash
      PROVE  handler'.op # "plan" /\ applied' = applied /\ claimed' = claimed
  <2>1. CASE \E o \in Orgs : SignIn(o)
    BY <2>1, IdleFacts DEF SignIn, Serving
  <2>2. ASSUME NEW s \in Sites, StepOfSite(s) PROVE handler'.op # "plan"
    BY <2>2, SiteHandlers DEF StepOfSite
  <2>3. ASSUME NEW s \in Sites, StepOfSite(s) PROVE applied' = applied /\ claimed' = claimed
    BY <2>3 DEF StepOfSite, AdmitScan, RemoveSite, SyncSite
  <2>4. CASE SyncDone \/ JobStoreRaises \/ AddJob \/ CancelJob \/ Crash
    BY <2>4, IdleFacts DEF SyncDone, JobStoreRaises, AddJob, CancelJob, Crash
  <2>5. CASE DeactivateSite
    BY <2>5 DEF DeactivateSite, TypeOK, Handlers
  <2>6. CASE StartScheduler \/ StartWithoutScheduler
    BY <2>6, IdleFacts DEF StartScheduler, StartWithoutScheduler, HandlerSound
  <2> QED BY <1>5, <2>1, <2>2, <2>3, <2>4, <2>5, <2>6
<1> QED BY <1>1, <1>2, <1>3, <1>4, <1>5, StepKinds

LEMMA DeactivatingStep ==
  ASSUME TypeOK, HandlerSound, Deactivating, Next
  PROVE  Deactivating'
<1> USE DEF Deactivating, accounts, process
<1>1. CASE handler'.op \notin {"deactivate", "cancel"}
  BY <1>1
<1>2. CASE QuietRequest \/ \E o \in Orgs : SignIn(o)
  BY <1>1, <1>2, IdleFacts DEF QuietRequest, SignIn, Serving
<1>3. ASSUME NEW p \in Payloads, WebhookClaims(p) PROVE handler'.op \in {"plan", "idle"}
  BY <1>3 DEF WebhookClaims, Idle
<1>4. ASSUME NEW s \in Sites, RemoveSite(s) PROVE Deactivating'
  <2>1. handler'.op = "deactivate" /\ handler'.site = s
    BY <1>4 DEF RemoveSite, Idle
  <2> QED BY <1>4, <2>1 DEF RemoveSite, DropCredentials, TypeOK
<1>5. ASSUME NEW s \in Sites, AdmitScan(s) \/ SyncSite(s)
      PROVE  handler'.op \in {"add", "idle", "sync"}
  BY <1>5, SiteHandlers
<1>6. CASE WebhookSetsPlan
  BY <1>6 DEF WebhookSetsPlan, TypeOK, Handlers
<1>7. CASE DeactivateSite
  <2>1. handler'.op = "cancel" /\ handler'.site = handler.site /\ handler.site \in Sites
    BY <1>7 DEF DeactivateSite, HandlerSound, TypeOK, Handlers
  <2> QED BY <1>7, <2>1 DEF DeactivateSite, TypeOK
<1>8. CASE SyncDone \/ JobStoreRaises \/ AddJob \/ CancelJob \/ Crash
  BY <1>1, <1>8, IdleFacts DEF SyncDone, JobStoreRaises, AddJob, CancelJob, Crash
<1>9. CASE StartScheduler \/ StartWithoutScheduler
  BY <1>9 DEF StartScheduler, StartWithoutScheduler
<1> QED BY <1>1, <1>2, <1>3, <1>4, <1>5, <1>6, <1>7, <1>8, <1>9, StepKinds DEF StepOfSite

-----------------------------------------------------------------------------
(* Jobs and plans.                                                         *)

\* Steps after which site, plan and job of all sites are as before, and no
\* handler owes less.
LEMMA JobsKept ==
  ASSUME JobsSound, UNCHANGED <<plan, site, job>>, unsynced \subseteq unsynced',
         \A s \in Sites : Owed(s) => s \in unsynced' \/ Owed(s)'
  PROVE  JobsSound'
BY SameDesired DEF JobsSound

LEMMA AbsentStep ==
  ASSUME TypeOK, HandlerSound, AbsentHasNoJob, Next
  PROVE  AbsentHasNoJob'
<1> USE DEF AbsentHasNoJob, accounts, process
<1>1. ASSUME NEW s \in Sites, StepOfSite(s) PROVE AbsentHasNoJob'
  <2>1. CASE SyncSite(s)
    BY <2>1, DesiredJobFacts DEF SyncSite, Reschedule, TypeOK
  <2>2. CASE AdmitScan(s)
    BY <2>2 DEF AdmitScan, TypeOK
  <2>3. CASE RemoveSite(s)
    BY <2>3 DEF RemoveSite
  <2> QED BY <1>1, <2>1, <2>2, <2>3 DEF StepOfSite
<1>2. CASE AddJob
  BY <1>2, DesiredJobFacts DEF AddJob, Reschedule, TypeOK, HandlerSound
<1>3. CASE DeactivateSite
  BY <1>3 DEF DeactivateSite, TypeOK, HandlerSound
<1>4. CASE CancelJob
  BY <1>4 DEF CancelJob, RemoveJob, TypeOK, HandlerSound
<1>5. CASE StartScheduler
  BY <1>5 DEF StartScheduler, Watchable, TypeOK
<1>6. CASE UNCHANGED <<site, job>>
  BY <1>6
<1>7. ASSUME \/ QuietRequest \/ \E o \in Orgs : SignIn(o)
             \/ \E p \in Payloads : WebhookClaims(p)
             \/ WebhookSetsPlan \/ SyncDone \/ JobStoreRaises
             \/ StartWithoutScheduler \/ Crash
      PROVE  UNCHANGED <<site, job>>
  BY <1>7 DEF QuietRequest, SignIn, WebhookClaims, WebhookSetsPlan, SyncDone,
              JobStoreRaises, StartWithoutScheduler, Crash
<1> QED BY <1>1, <1>2, <1>3, <1>4, <1>5, <1>6, <1>7, StepKinds

\* A synchronisation begins with the whole organisation and is done with a
\* site when its job is in step.
LEMMA SyncStep ==
  ASSUME TypeOK, HandlerSound, SyncSound, AbsentHasNoJob, Next
  PROVE  SyncSound'
<1> USE DEF SyncSound, accounts, process
<1>1. CASE handler'.op # "sync"
  BY <1>1
<1>2. CASE QuietRequest \/ \E o \in Orgs : SignIn(o)
  BY <1>2, IdleFacts DEF QuietRequest, SignIn, Serving
<1>3. ASSUME NEW p \in Payloads, WebhookClaims(p) PROVE SyncSound'
  BY <1>3 DEF WebhookClaims, Idle
<1>4. ASSUME NEW s \in Sites, AdmitScan(s) \/ RemoveSite(s) PROVE SyncSound'
  BY <1>4, SiteHandlers
<1>5. ASSUME NEW s \in Sites, SyncSite(s) PROVE SyncSound'
  <2>1. /\ handler'.org = handler.org /\ handler'.todo = handler.todo \ {s}
        /\ handler.op = "sync"
    BY <1>5 DEF SyncSite, TypeOK, Handlers
  <2>2. \A t \in Sites : DesiredJob(t)' = DesiredJob(t)
    BY <1>5, SameDesired DEF SyncSite
  <2>3. running => job' = [job EXCEPT ![s] = DesiredJob(s)]
    BY <1>5 DEF SyncSite, Reschedule
  <2>4. running' = running
    BY <1>5 DEF SyncSite
  <2> QED BY <2>1, <2>2, <2>3, <2>4 DEF SitesOf, TypeOK
<1>6. CASE WebhookSetsPlan
  <2>1. /\ handler'.org = handler.org /\ handler'.todo = OrgSites(handler.org)
        /\ UNCHANGED <<site, job>>
    BY <1>6 DEF WebhookSetsPlan, TypeOK, Handlers
  <2>2. ASSUME NEW s \in SitesOf(handler.org), s \notin OrgSites(handler.org)
        PROVE  job'[s] = DesiredJob(s)'
    <3>1. site'[s] = "absent" /\ site[s] = "absent" /\ s \in Sites
      BY <2>1, <2>2 DEF OrgSites, SitesOf
    <3>2. DesiredJob(s)' = "none"
      BY <3>1 DEF DesiredJob, Watchable
    <3> QED BY <2>1, <3>1, <3>2 DEF AbsentHasNoJob
  <2> QED BY <2>1, <2>2 DEF SitesOf
<1>7. CASE SyncDone \/ JobStoreRaises \/ AddJob \/ CancelJob \/ Crash
  BY <1>1, <1>7, IdleFacts DEF SyncDone, JobStoreRaises, AddJob, CancelJob, Crash
<1>8. CASE DeactivateSite
  BY <1>1, <1>8 DEF DeactivateSite, TypeOK, Handlers
<1>9. CASE StartScheduler \/ StartWithoutScheduler
  BY <1>1, <1>9, IdleFacts DEF StartScheduler, StartWithoutScheduler, HandlerSound
<1> QED BY <1>1, <1>2, <1>3, <1>4, <1>5, <1>6, <1>7, <1>8, <1>9, StepKinds DEF StepOfSite

LEMMA IdleOwesNothing ==
  ASSUME handler = Idle, NEW s \in Sites
  PROVE  ~Owed(s)
BY IdleFacts DEF Owed

\* Requests: a handler that begins owes at most its own site.
LEMMA JobsRequest ==
  ASSUME TypeOK, JobsSound,
         \/ QuietRequest \/ \E o \in Orgs : SignIn(o)
         \/ \E p \in Payloads : WebhookClaims(p)
         \/ \E s \in Sites : AdmitScan(s) \/ RemoveSite(s)
  PROVE  JobsSound'
<1> USE DEF accounts, process
<1>0. handler = Idle /\ (\A s \in Sites : ~Owed(s))
  BY IdleOwesNothing DEF QuietRequest, SignIn, WebhookClaims, AdmitScan, RemoveSite, Serving
<1>1. CASE QuietRequest \/ \E p \in Payloads : WebhookClaims(p)
  BY <1>0, <1>1, JobsKept DEF QuietRequest, WebhookClaims
<1>2. ASSUME NEW o \in Orgs, SignIn(o) PROVE JobsSound'
  <2>1. ASSUME NEW s \in Sites, s \notin unsynced' PROVE job'[s] = DesiredJob(s)'
    <3>1. site' = site /\ job' = job /\ s \notin unsynced
      BY <1>2, <2>1 DEF SignIn
    <3>2. job[s] = DesiredJob(s)
      BY <1>0, <3>1 DEF JobsSound
    <3>3. CASE SiteOrg[s] = o
      <4>1. site[s] # "active"
        BY <1>2, <2>1, <3>3 DEF SignIn, SitesOf
      <4> QED BY <3>1, <3>2, <4>1 DEF DesiredJob, Watchable
    <3>4. CASE SiteOrg[s] # o
      <4>1. plan'[SiteOrg[s]] = plan[SiteOrg[s]]
        BY <1>2, <3>4 DEF SignIn, TypeOK
      <4> QED BY <3>1, <3>2, <4>1, SameDesired
    <3> QED BY <3>3, <3>4
  <2> QED BY <2>1 DEF JobsSound
<1>3. ASSUME NEW s \in Sites, RemoveSite(s) PROVE JobsSound'
  BY <1>0, <1>3, JobsKept DEF RemoveSite
<1>4. ASSUME NEW s \in Sites, AdmitScan(s) PROVE JobsSound'
  <2>1. ASSUME NEW t \in Sites \ {s}, t \notin unsynced' PROVE job'[t] = DesiredJob(t)'
    <3>1. site'[t] = site[t] /\ plan' = plan /\ job' = job /\ t \notin unsynced
      BY <1>4, <2>1 DEF AdmitScan, TypeOK
    <3> QED BY <1>0, <3>1, SameDesired DEF JobsSound
  <2>2. ASSUME s \notin unsynced', ~Owed(s)' PROVE job'[s] = DesiredJob(s)'
    <3>1. CASE SupportsWatch(AccountPlan(s))
      <4>1. handler'.op = "add" /\ handler'.site = s
        BY <1>4, <3>1 DEF AdmitScan, Idle
      <4> QED BY <2>2, <4>1 DEF Owed
    <3>2. CASE ~SupportsWatch(AccountPlan(s))
      <4>1. /\ ~SupportsWatch(plan[SiteOrg[s]]) /\ s \notin unsynced
            /\ UNCHANGED <<plan, job>>
        BY <1>4, <2>2, <3>2 DEF AdmitScan
      <4>2. job[s] = "none"
        BY <1>0, <4>1, DesiredJobFacts DEF JobsSound
      <4>3. DesiredJob(s)' = "none"
        BY <4>1 DEF DesiredJob, Watchable
      <4> QED BY <4>1, <4>2, <4>3
    <3> QED BY <3>1, <3>2
  <2> QED BY <2>1, <2>2 DEF JobsSound
<1> QED BY <1>1, <1>2, <1>3, <1>4

\* Handlers and the scheduler.
LEMMA JobsHandler ==
  ASSUME TypeOK, HandlerSound, Deactivating, JobsSound, SyncSound, AbsentHasNoJob,
         \/ \E s \in Sites : SyncSite(s)
         \/ WebhookSetsPlan \/ SyncDone \/ JobStoreRaises
         \/ AddJob \/ DeactivateSite \/ CancelJob
         \/ StartScheduler \/ StartWithoutScheduler \/ Crash
  PROVE  JobsSound'
<1> USE DEF accounts, process
<1>1. ASSUME NEW s \in Sites, SyncSite(s) PROVE JobsSound'
  <2>1. /\ handler.op = "sync" /\ handler'.op = "sync"
        /\ handler'.todo = handler.todo \ {s}
        /\ UNCHANGED <<plan, site, running>>
    BY <1>1 DEF SyncSite, TypeOK, Handlers
  <2>2. ASSUME NEW t \in Sites, t \notin unsynced', ~Owed(t)'
        PROVE  job'[t] = DesiredJob(t)'
    <3>1. CASE t = s
      <4>1. running
        BY <1>1, <2>2, <3>1 DEF SyncSite, JobDealtWith
      <4> QED BY <1>1, <2>1, <3>1, <4>1, SameDesired DEF SyncSite, Reschedule, TypeOK
    <3>2. CASE t # s
      <4>1. ~Owed(t) /\ job'[t] = job[t] /\ t \notin unsynced
        BY <1>1, <2>1, <2>2, <3>2 DEF Owed, SyncSite, Reschedule, JobDealtWith, TypeOK
      <4> QED BY <2>1, <2>2, <4>1, SameDesired DEF JobsSound
    <3> QED BY <3>1, <3>2
  <2> QED BY <2>2 DEF JobsSound
<1>2. CASE WebhookSetsPlan
  <2>1. /\ handler.op = "plan" /\ handler'.op = "sync" /\ handler'.org = handler.org
        /\ handler'.todo = OrgSites(handler.org)
        /\ UNCHANGED <<site, job, unsynced, running>>
    BY <1>2 DEF WebhookSetsPlan, TypeOK, Handlers
  <2>2. ASSUME NEW s \in Sites, s \notin unsynced', ~Owed(s)'
        PROVE  job'[s] = DesiredJob(s)'
    <3>1. ~Owed(s) /\ job[s] = DesiredJob(s)
      BY <2>1, <2>2 DEF Owed, JobsSound
    <3>2. CASE SiteOrg[s] = handler.org
      <4>1. site[s] = "absent"
        BY <2>1, <2>2, <3>2 DEF Owed, OrgSites, SitesOf
      <4>2. DesiredJob(s)' = "none"
        BY <2>1, <4>1 DEF DesiredJob, Watchable
      <4> QED BY <2>1, <4>1, <4>2 DEF AbsentHasNoJob
    <3>3. CASE SiteOrg[s] # handler.org
      <4>1. plan'[SiteOrg[s]] = plan[SiteOrg[s]]
        BY <1>2, <3>3 DEF WebhookSetsPlan, UpdatePlan, TypeOK
      <4> QED BY <2>1, <3>1, <4>1, SameDesired
    <3> QED BY <3>2, <3>3
  <2> QED BY <2>2 DEF JobsSound
<1>3. CASE SyncDone
  <2>1. /\ handler.op = "sync" /\ handler.todo = {} /\ UNCHANGED <<plan, site, job>>
    BY <1>3 DEF SyncDone
  <2>2. ASSUME NEW s \in Sites, s \notin unsynced'
        PROVE  job'[s] = DesiredJob(s)'
    <3>1. CASE s \in unsynced
      <4>1. running /\ s \in SitesOf(handler.org)
        BY <1>3, <2>2, <3>1 DEF SyncDone
      <4> QED BY <2>1, <4>1, SameDesired DEF SyncSound
    <3>2. CASE s \notin unsynced
      <4>1. ~Owed(s)
        BY <2>1 DEF Owed
      <4> QED BY <2>1, <3>2, <4>1, SameDesired DEF JobsSound
    <3> QED BY <3>1, <3>2
  <2> QED BY <2>2 DEF JobsSound
<1>4. CASE JobStoreRaises \/ Crash
  <2>1. \A s \in Sites : Owed(s) => s \in unsynced'
    BY <1>4 DEF JobStoreRaises, Crash
  <2>2. unsynced \subseteq unsynced' /\ UNCHANGED <<plan, site, job>>
    BY <1>4 DEF JobStoreRaises, Crash
  <2> QED BY <2>1, <2>2, JobsKept
<1>5. CASE AddJob \/ CancelJob
  <2>1. handler.site \in Sites /\ UNCHANGED <<plan, site>>
    BY <1>5 DEF AddJob, CancelJob, HandlerSound
  <2>2. ASSUME NEW s \in Sites, s \notin unsynced' PROVE job'[s] = DesiredJob(s)'
    <3>1. CASE s # handler.site
      <4>1. job'[s] = job[s] /\ s \notin unsynced
        BY <1>5, <2>1, <2>2, <3>1
           DEF AddJob, CancelJob, JobDealtWith, Reschedule, RemoveJob, TypeOK
      <4>2. ~Owed(s)
        BY <1>5, <3>1 DEF AddJob, CancelJob, Owed
      <4> QED BY <2>1, <2>2, <4>1, <4>2, SameDesired DEF JobsSound
    <3>2. CASE s = handler.site /\ AddJob
      <4>1. running
        BY <2>2, <3>2 DEF AddJob, JobDealtWith
      <4>2. job'[s] = DesiredJob(s)
        BY <3>2, <4>1 DEF AddJob, Reschedule, TypeOK
      <4> QED BY <2>1, <4>2, SameDesired
    <3>3. CASE s = handler.site /\ CancelJob
      <4>1. running /\ site[s] = "inactive"
        BY <2>2, <3>3 DEF CancelJob, JobDealtWith, Deactivating
      <4>2. job'[s] = "none"
        BY <3>3, <4>1 DEF CancelJob, RemoveJob, TypeOK
      <4> QED BY <2>1, <4>1, <4>2, SameDesired, DesiredJobFacts
    <3> QED BY <1>5, <3>1, <3>2, <3>3
  <2> QED BY <2>2 DEF JobsSound
<1>6. CASE DeactivateSite
  <2>1. /\ handler.op = "deactivate" /\ handler'.op = "cancel"
        /\ handler'.site = handler.site /\ handler.site \in Sites
        /\ UNCHANGED <<plan, job, unsynced>>
    BY <1>6 DEF DeactivateSite, HandlerSound, TypeOK, Handlers
  <2>2. ASSUME NEW s \in Sites, s \notin unsynced', ~Owed(s)'
        PROVE  job'[s] = DesiredJob(s)'
    <3>1. s # handler.site
      BY <2>1, <2>2 DEF Owed
    <3>2. site'[s] = site[s] /\ ~Owed(s)
      BY <1>6, <2>1, <3>1 DEF DeactivateSite, Owed, TypeOK
    <3> QED BY <2>1, <2>2, <3>2, SameDesired DEF JobsSound
  <2> QED BY <2>2 DEF JobsSound
<1>7. CASE StartScheduler
  <2>1. UNCHANGED <<plan, site>> /\ ~up
    BY <1>7 DEF StartScheduler
  <2>2. handler = Idle
    BY <2>1 DEF HandlerSound
  <2>3. ASSUME NEW s \in Sites, s \notin unsynced' PROVE job'[s] = DesiredJob(s)'
    <3>1. CASE Watchable(s)
      <4>1. job'[s] = DesiredJob(s)
        BY <1>7, <3>1 DEF StartScheduler
      <4> QED BY <2>1, <4>1, SameDesired
    <3>2. CASE ~Watchable(s)
      <4>1. job'[s] = job[s] /\ DesiredJob(s) = "none"
        BY <1>7, <3>2, DesiredJobFacts DEF StartScheduler
      <4>2. CASE s \in unsynced
        <5>1. ~Orphaned(s)
          BY <1>7, <2>3, <4>2 DEF StartScheduler
        <5>2. job[s] = "none"
          BY <3>2, <5>1 DEF Orphaned
        <5> QED BY <2>1, <4>1, <5>2, SameDesired
      <4>3. CASE s \notin unsynced
        BY <2>1, <2>2, <4>1, <4>3, SameDesired, IdleOwesNothing DEF JobsSound
      <4> QED BY <4>2, <4>3
    <3> QED BY <3>1, <3>2
  <2> QED BY <2>3 DEF JobsSound
<1>8. CASE StartWithoutScheduler
  <2>1. ~up
    BY <1>8 DEF StartWithoutScheduler
  <2>2. \A s \in Sites : ~Owed(s)
    BY <2>1, IdleOwesNothing DEF HandlerSound
  <2> QED BY <1>8, <2>2, JobsKept DEF StartWithoutScheduler
<1> QED BY <1>1, <1>2, <1>3, <1>4, <1>5, <1>6, <1>7, <1>8

-----------------------------------------------------------------------------

LEMMA InitInv ==
  ASSUME Init
  PROVE  Inv
<1>1. TypeOK
  <2>1. NoCredentials \in Credentials /\ {} \in SUBSET Paths
    BY DEF Credentials
  <2> QED BY <2>1, IdleFacts DEF Init, TypeOK
<1>2. AbsentHasNoJob /\ JobsSound
  BY DesiredJobFacts DEF Init, AbsentHasNoJob, JobsSound
<1>3. HandlerSound /\ Applied /\ Deactivating /\ SyncSound
  BY IdleFacts DEF Init, HandlerSound, Applied, Deactivating, SyncSound
<1> QED BY <1>1, <1>2, <1>3 DEF Inv

LEMMA NextKeepsInv ==
  ASSUME Inv, Next
  PROVE  Inv'
<1>1. JobsSound'
  BY StepKinds, JobsRequest, JobsHandler DEF Inv, StepOfSite
<1> QED BY <1>1, TypeStep, HandlerStepSound, AppliedStep, DeactivatingStep,
           SyncStep, AbsentStep DEF Inv

LEMMA StutterKeepsInv ==
  ASSUME Inv, UNCHANGED vars
  PROVE  Inv'
<1>1. \A s \in Sites : DesiredJob(s)' = DesiredJob(s)
  BY SameDesired DEF vars
<1>2. \A p \in Payloads : Accepted(p)' = Accepted(p)
  BY DEF vars, Accepted
<1>3. TypeOK'
  BY DEF Inv, vars, TypeOK
<1>4. HandlerSound'
  BY <1>2 DEF Inv, vars, HandlerSound, TypeOK, Handlers
<1>5. Applied' /\ Deactivating' /\ AbsentHasNoJob'
  BY DEF Inv, vars, Applied, Deactivating, AbsentHasNoJob
<1>6. JobsSound'
  BY <1>1 DEF Inv, vars, JobsSound, Owed
<1>7. SyncSound'
  BY <1>1 DEF Inv, vars, SyncSound, SitesOf
<1> QED BY <1>3, <1>4, <1>5, <1>6, <1>7 DEF Inv

LEMMA InvImplies ==
  ASSUME Inv
  PROVE  TypeOK /\ JobsFollowPlan /\ WebhookAppliedOnce
BY IdleOwesNothing DEF Inv, JobsSound, JobsFollowPlan, Applied, WebhookAppliedOnce

LEMMA Invariance == Spec => []Inv
<1>1. Init => Inv
  BY InitInv
<1>2. Inv /\ [Next]_vars => Inv'
  BY NextKeepsInv, StutterKeepsInv
<1> QED BY <1>1, <1>2, PTL DEF Spec

\* Every reachable state is well typed: plans of the catalog, at most one job
\* per site, a handler only for known sites and organisations.
THEOREM TypeCorrect == Spec => []TypeOK
<1>1. Inv => TypeOK
  BY InvImplies
<1> QED BY <1>1, Invariance, PTL

\* Jobs and paid plans agree between handlers, except for organisations left
\* behind (sync_org_watch_jobs, on_site_added, on_site_removed, start_scheduler).
THEOREM JobsAgree == Spec => []JobsFollowPlan
<1>1. Inv => JobsFollowPlan
  BY InvImplies
<1> QED BY <1>1, Invariance, PTL

\* However often a webhook is delivered and wherever the process dies, its
\* payload changes the plan at most once (claim_webhook_event).
THEOREM AppliedAtMostOnce == Spec => []WebhookAppliedOnce
<1>1. Inv => WebhookAppliedOnce
  BY InvImplies
<1> QED BY <1>1, Invariance, PTL

\* A site is never deactivated before its credentials are gone
\* (delete_org_site).
THEOREM RemovalIsClean == Spec => RemovalTakesCredentials
<1>1. Inv /\ [Next]_vars
        => [\A s \in Sites : site[s] = "active" /\ site'[s] = "inactive"
                               => cred'[s] = NoCredentials]_vars
  <2> SUFFICES ASSUME Inv, Next, NEW s \in Sites, site[s] = "active", site'[s] = "inactive"
               PROVE  cred'[s] = NoCredentials
    OBVIOUS
  <2>1. site' # site
    OBVIOUS
  <2>2. CASE DeactivateSite
    <3>1. s = handler.site
      BY <2>2 DEF DeactivateSite, Inv, TypeOK
    <3> QED BY <2>2, <3>1 DEF DeactivateSite, Inv, Deactivating
  <2>3. CASE ~DeactivateSite
    <3> USE DEF accounts, process
    <3>1. PICK t \in Sites : AdmitScan(t)
      BY <2>1, <2>3, StepKinds DEF QuietRequest, SignIn, WebhookClaims, StepOfSite,
         RemoveSite, SyncSite, WebhookSetsPlan, SyncDone, JobStoreRaises, AddJob, CancelJob,
         StartScheduler, StartWithoutScheduler, Crash
    <3> QED BY <3>1 DEF AdmitScan, Inv, TypeOK
  <2> QED BY <2>2, <2>3
<1> QED BY <1>1, Invariance, PTL DEF Spec, RemovalTakesCredentials

-----------------------------------------------------------------------------
(* A scan beside them.  The composition keeps what Subscriptions keeps:    *)
(* beside its steps only the start of a scan touches its variables, and    *)
(* that takes a site off the queue.  On it rest two facts about the login  *)
(* of the active tests, for any credentials, exclusions and changes while  *)
(* a scan is paused.                                                       *)

SubscriptionState ==
  <<creators, plan, site, cred, claimed, applied, job, up, running, handler, req,
    unsynced, crashes>>

LEMMA Dequeue ==
  ASSUME Inv, UNCHANGED SubscriptionState, queued' \subseteq queued
  PROVE  Inv'
<1> USE DEF SubscriptionState
<1>1. \A s \in Sites : DesiredJob(s)' = DesiredJob(s)
  BY SameDesired
<1>2. \A p \in Payloads : Accepted(p)' = Accepted(p)
  BY DEF Accepted
<1>3. TypeOK'
  BY DEF Inv, TypeOK
<1>4. HandlerSound'
  BY <1>2 DEF Inv, HandlerSound, TypeOK, Handlers
<1>5. Applied' /\ Deactivating' /\ AbsentHasNoJob'
  BY DEF Inv, Applied, Deactivating, AbsentHasNoJob
<1>6. JobsSound'
  BY <1>1 DEF Inv, JobsSound, Owed
<1>7. SyncSound'
  BY <1>1 DEF Inv, SyncSound, SitesOf
<1> QED BY <1>3, <1>4, <1>5, <1>6, <1>7 DEF Inv

LEMMA ScanKeepsInv ==
  ASSUME Inv, [ScanNext]_scanVars
  PROVE  Inv'
<1>1. ASSUME Next PROVE Inv'
  BY <1>1, NextKeepsInv
<1>2. ASSUME UNCHANGED vars PROVE Inv'
  BY <1>2, Dequeue DEF vars, SubscriptionState
<1>3. ASSUME NEW s \in Sites, StartScan(s) PROVE Inv'
  BY <1>3, Dequeue DEF StartScan, SubscriptionState, accounts, process
<1> QED BY <1>1, <1>2, <1>3 DEF ScanNext, scanVars, CrashScan, Next, ReachGate, RejectTests,
           RunActiveTests

-----------------------------------------------------------------------------
(* The scan.                                                               *)

Stages == {"none", "started", "paused", "done"}

ScanTyped ==
  /\ scan \in [stage: Stages, site: Sites \cup {None}, meta: Meta,
               login: Usernames \cup {None}, excluded: SUBSET Paths]
  /\ scan.stage # "none" => scan.site \in Sites

LEMMA MetaFacts ==
  ASSUME TypeOK, NEW s \in Sites, NEW extra \in SUBSET Paths
  PROVE  /\ PublicMeta(s, extra) \in Meta
         /\ PublicMeta(s, extra).configured <=> cred[s] # NoCredentials
         /\ PublicMeta(s, extra).configured =>
              /\ PublicMeta(s, extra).user = cred[s].user
              /\ PublicMeta(s, extra).excluded = cred[s].excluded \cup extra
         /\ PublicMeta(s, extra).enabled =>
              cred[s] # NoCredentials /\ AuthenticatedScanning(plan[SiteOrg[s]])
         /\ ~PublicMeta(s, extra).configured => PublicMeta(s, extra).excluded = {}
<1>1. cred[s] \in Credentials
  BY DEF TypeOK
<1>2. CASE cred[s] = NoCredentials
  BY <1>2 DEF PublicMeta, NoMeta, Meta
<1>3. CASE cred[s] # NoCredentials
  <2>1. cred[s] \in [user: Usernames, excluded: SUBSET Paths]
    BY <1>1, <1>3 DEF Credentials
  <2> DEFINE allowed == AuthenticatedScanning(plan[SiteOrg[s]])
             m == [configured |-> TRUE, enabled |-> allowed, user |-> cred[s].user,
                   excluded |-> cred[s].excluded \cup extra]
  <2>2. PublicMeta(s, extra) = m
    BY <1>3 DEF PublicMeta
  <2>3. allowed \in BOOLEAN
    BY DEF AuthenticatedScanning
  <2>4. cred[s].user \in Usernames \cup {None} /\ cred[s].excluded \cup extra \in SUBSET Paths
    BY <2>1
  <2> HIDE DEF allowed
  <2>5. m \in Meta
    BY <2>3, <2>4 DEF Meta
  <2>6. /\ m.configured = TRUE /\ m.user = cred[s].user
        /\ m.excluded = cred[s].excluded \cup extra /\ m.enabled = allowed
    OBVIOUS
  <2> HIDE DEF m
  <2> QED BY <1>3, <2>2, <2>5, <2>6 DEF allowed
<1> QED BY <1>2, <1>3

LEMMA NoScanFacts ==
  ASSUME NEW s \in Sites, NEW m \in Meta
  PROVE  /\ NoScan \in [stage: Stages, site: Sites \cup {None}, meta: Meta,
                        login: Usernames \cup {None}, excluded: SUBSET Paths]
         /\ NoScan.stage = "none" /\ NoScan.login = None
BY DEF NoScan, NoMeta, Meta, Stages

LEMMA ScanTypedStep ==
  ASSUME TypeOK, ScanTyped, [ScanNext]_scanVars
  PROVE  ScanTyped'
<1>1. CASE scan' = scan
  BY <1>1 DEF ScanTyped
<1>2. CASE scan' = NoScan
  BY <1>2 DEF ScanTyped, NoScan, NoMeta, Meta, Stages
<1>3. ASSUME NEW s \in Sites, StartScan(s) PROVE ScanTyped'
  <2>1. PublicMeta(s, {}) \in Meta
    BY MetaFacts
  <2>2. CASE scan' = [NoScan EXCEPT !.stage = "started", !.site = s, !.meta = PublicMeta(s, {})]
    BY <2>1, <2>2 DEF ScanTyped, NoScan, Stages
  <2> QED BY <1>1, <1>3, <2>2 DEF StartScan
<1>4. ASSUME NEW D \in SUBSET Paths, ReachGate(D) PROVE ScanTyped'
  <2>1. scan.site \in Sites
    BY <1>4 DEF ReachGate, ScanTyped
  <2>2. PublicMeta(scan.site, {}) \in Meta
    BY <2>1, MetaFacts
  <2>3. [PublicMeta(scan.site, {}) EXCEPT !.excluded = @ \cup D] \in Meta
    BY <2>2 DEF Meta
  <2> QED BY <1>4, <2>1, <2>3 DEF ReachGate, ScanTyped, Stages
<1>5. ASSUME NEW decrypts \in BOOLEAN, RunActiveTests(decrypts) PROVE ScanTyped'
  <2>1. scan.site \in Sites /\ scan.meta.excluded \in SUBSET Paths
    BY <1>5 DEF RunActiveTests, ScanTyped, Meta
  <2> DEFINE m == PublicMeta(scan.site, scan.meta.excluded)
  <2>2. m \in Meta
    BY <2>1, MetaFacts
  <2> HIDE DEF m
  <2>3. /\ RuntimeLogin(m, decrypts) \in Usernames \cup {None}
        /\ m.excluded \in SUBSET Paths
    BY <2>2 DEF RuntimeLogin, Meta
  <2>4. scan' = [scan EXCEPT !.stage = "done", !.login = RuntimeLogin(m, decrypts),
                   !.excluded = IF m.excluded # {} THEN m.excluded ELSE scan.meta.excluded]
    BY <1>5 DEF RunActiveTests, m
  <2> QED BY <2>1, <2>3, <2>4 DEF ScanTyped, Stages
<1>6. CASE CrashScan \/ RejectTests
  BY <1>1, <1>2, <1>6 DEF CrashScan, RejectTests
<1> QED BY <1>1, <1>3, <1>4, <1>5, <1>6 DEF ScanNext, scanVars

-----------------------------------------------------------------------------

LEMMA ScanInvariance == ScanSpec => [](Inv /\ ScanTyped)
<1>1. ScanInit => Inv /\ ScanTyped
  <2>1. ScanInit => Inv
    BY InitInv DEF ScanInit
  <2>2. ScanInit => ScanTyped
    BY DEF ScanInit, ScanTyped, NoScan, NoMeta, Meta, Stages
  <2> QED BY <2>1, <2>2
<1>2. Inv /\ ScanTyped /\ [ScanNext]_scanVars => (Inv /\ ScanTyped)'
  BY ScanKeepsInv, ScanTypedStep DEF Inv
<1> QED BY <1>1, <1>2, PTL DEF ScanSpec

\* With the scans composed, every reachable state is well typed.
THEOREM ScanTypeCorrect == ScanSpec => []ScanTypeOK
<1>1. Inv /\ ScanTyped => ScanTypeOK
  BY DEF Inv, ScanTyped, ScanTypeOK, Stages
<1> QED BY <1>1, ScanInvariance, PTL

\* The active tests log in only as the user stored when they run, under a
\* plan that allows it then (load_runtime_auth reads both again).
THEOREM LoginStaysCurrent == ScanSpec => LoginIsCurrent
<1>1. Inv /\ ScanTyped /\ [ScanNext]_scanVars
        => [scan'.login # None /\ scan.login # scan'.login
              => /\ cred[scan.site].user = scan'.login
                 /\ AuthenticatedScanning(plan[SiteOrg[scan.site]])]_scanVars
  <2> SUFFICES ASSUME Inv, ScanTyped, ScanNext, scan'.login # None,
                      scan.login # scan'.login
               PROVE  /\ cred[scan.site].user = scan'.login
                      /\ AuthenticatedScanning(plan[SiteOrg[scan.site]])
    OBVIOUS
  <2>1. ASSUME NEW s \in Sites, StartScan(s) PROVE FALSE
    <3>1. scan' = scan \/ scan'.login = None
      BY <2>1 DEF StartScan, NoScan
    <3> QED BY <3>1
  <2>2. ASSUME NEW D \in SUBSET Paths, ReachGate(D) PROVE FALSE
    BY <2>2 DEF ReachGate, ScanTyped
  <2>3. CASE CrashScan \/ RejectTests
    BY <2>3 DEF CrashScan, RejectTests, NoScan
  <2>4. ASSUME NEW decrypts \in BOOLEAN, RunActiveTests(decrypts)
        PROVE  /\ cred[scan.site].user = scan'.login
               /\ AuthenticatedScanning(plan[SiteOrg[scan.site]])
    <3>1. scan.site \in Sites /\ scan.meta.excluded \in SUBSET Paths
      BY <2>4 DEF RunActiveTests, ScanTyped, Meta
    <3> DEFINE m == PublicMeta(scan.site, scan.meta.excluded)
    <3>2. scan'.login = RuntimeLogin(m, decrypts)
      BY <2>4 DEF RunActiveTests, m, ScanTyped
    <3>3. /\ m.enabled => cred[scan.site] # NoCredentials
                          /\ AuthenticatedScanning(plan[SiteOrg[scan.site]])
          /\ m.configured <=> cred[scan.site] # NoCredentials
          /\ m.configured => m.user = cred[scan.site].user
      BY <3>1, MetaFacts DEF Inv
    <3> HIDE DEF m
    <3> QED BY <3>2, <3>3 DEF RuntimeLogin
  <2> QED BY <2>1, <2>2, <2>3, <2>4 DEF ScanNext
<1> QED BY <1>1, ScanInvariance, PTL DEF ScanSpec, LoginIsCurrent

\* No exclusion the reviewer saw or the customer has added since is dropped
\* when the tests begin (run_active_tools).
THEOREM ExclusionsStay == ScanSpec => ExclusionsKept
<1>1. Inv /\ ScanTyped /\ [ScanNext]_scanVars
        => [scan.stage = "paused" /\ scan'.stage = "done"
              => scan.meta.excluded \cup cred[scan.site].excluded
                   \subseteq scan'.excluded]_scanVars
  <2> SUFFICES ASSUME Inv, ScanTyped, ScanNext, scan.stage = "paused", scan'.stage = "done"
               PROVE  scan.meta.excluded \cup cred[scan.site].excluded \subseteq scan'.excluded
    OBVIOUS
  <2>1. ASSUME NEW s \in Sites, StartScan(s) PROVE FALSE
    BY <2>1 DEF StartScan
  <2>2. ASSUME NEW D \in SUBSET Paths, ReachGate(D) PROVE FALSE
    BY <2>2 DEF ReachGate
  <2>3. CASE CrashScan \/ RejectTests
    BY <2>3 DEF CrashScan, RejectTests, NoScan
  <2>4. ASSUME NEW decrypts \in BOOLEAN, RunActiveTests(decrypts)
        PROVE  scan.meta.excluded \cup cred[scan.site].excluded \subseteq scan'.excluded
    <3>1. scan.site \in Sites /\ scan.meta.excluded \in SUBSET Paths
      BY <2>4 DEF RunActiveTests, ScanTyped, Meta
    <3> DEFINE m == PublicMeta(scan.site, scan.meta.excluded)
    <3>2. scan'.excluded = IF m.excluded # {} THEN m.excluded ELSE scan.meta.excluded
      BY <2>4 DEF RunActiveTests, m, ScanTyped
    <3>3. /\ m.configured <=> cred[scan.site] # NoCredentials
          /\ m.configured => m.excluded = cred[scan.site].excluded \cup scan.meta.excluded
          /\ ~m.configured => m.excluded = {}
      BY <3>1, MetaFacts DEF Inv
    <3>4. cred[scan.site] = NoCredentials => cred[scan.site].excluded = {}
      BY DEF NoCredentials
    <3> HIDE DEF m
    <3> QED BY <3>2, <3>3, <3>4
  <2> QED BY <2>1, <2>2, <2>3, <2>4 DEF ScanNext
<1> QED BY <1>1, ScanInvariance, PTL DEF ScanSpec, ExclusionsKept

\* What Subscriptions guarantees holds while its scans run.
THEOREM ScanKeepsSubscriptions ==
  ScanSpec => []JobsFollowPlan /\ []WebhookAppliedOnce
<1>1. Inv => JobsFollowPlan /\ WebhookAppliedOnce
  BY InvImplies
<1> QED BY <1>1, ScanInvariance, PTL

=============================================================================
