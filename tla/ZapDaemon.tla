----------------------------- MODULE ZapDaemon -----------------------------
(***************************************************************************)
(* Active scans with OWASP ZAP: scans share one daemon behind a process-   *)
(* wide semaphore (backend/tools/zap_tool.py).  The daemon has one session *)
(* at a time, with its alerts and its forced user; what it was told to     *)
(* scan goes on when the client stops waiting.  Any API call may fail, and *)
(* the scan's task may be cancelled at any await, the tear-down included.  *)
(*                                                                         *)
(* The daemon is external: newSession drops session, contexts with their   *)
(* users, alerts and running scans, as the code's comments expect of it.   *)
(***************************************************************************)
EXTENDS Naturals, FiniteSets

CONSTANTS
  Scans,      \* runs of ZAP for the scans whose reviewers approved it, of one
              \* target; a retry is a run of its own
  WithLogin,  \* those that log in
  ZapLimit,   \* zap_max_concurrent
  Nobody

ASSUME ScansAssumption == WithLogin \subseteq Scans /\ Nobody \notin Scans
ASSUME ZapLimitAssumption == ZapLimit \in Nat \ {0}

VARIABLES
  zap,      \* where each scan's run of ZAP is
  free,     \* the semaphore
  owner,    \* the scan whose session the daemon holds
  forced,   \* the scan as whose user the daemon sends all requests
  remote,   \* scans whose spider or active scan runs on the daemon
  alerts,   \* what the session found: who scanned, and as whose user
  outcome   \* what each run returned

zapVars == <<zap, free, owner, forced, remote, alerts, outcome>>

Alert == [by: Scans, as: Scans \cup {Nobody}]

ZapInit ==
  /\ zap = [s \in Scans |-> "idle"]
  /\ free = ZapLimit
  /\ owner = Nobody /\ forced = Nobody
  /\ remote = {}
  /\ alerts = {}
  /\ outcome = [s \in Scans |-> [kind |-> "none", found |-> {}]]

Goes(s, to) == zap' = [zap EXCEPT ![s] = to]

daemon == <<owner, forced, remote, alerts>>

-----------------------------------------------------------------------------

\* run_active_tools probes the daemon before the tool is queued.
Enqueue(s) ==
  /\ zap[s] = "idle"
  /\ Goes(s, "queued")
  /\ UNCHANGED <<free, daemon, outcome>>

AcquireZap(s) ==
  /\ zap[s] = "queued" /\ free > 0
  /\ free' = free - 1
  /\ Goes(s, "probe")
  /\ UNCHANGED <<daemon, outcome>>

ProbeReady(s) ==
  /\ zap[s] = "probe"
  /\ Goes(s, "session")
  /\ UNCHANGED <<free, daemon, outcome>>

NewSession(s) ==
  /\ owner' = s /\ forced' = Nobody
  /\ remote' = {} /\ alerts' = {}

\* Mutant: the session of the scan before is used on.
BeginIsolatedSession_Reuses(s) ==
  /\ zap[s] = "session"
  /\ owner' = s
  /\ Goes(s, IF s \in WithLogin THEN "login" ELSE "spider")
  /\ UNCHANGED <<free, forced, remote, alerts, outcome>>

BeginIsolatedSession(s) ==
  /\ zap[s] = "session"
  /\ NewSession(s)
  /\ Goes(s, IF s \in WithLogin THEN "login" ELSE "spider")
  /\ UNCHANGED <<free, outcome>>

\* Forced-user mode is switched on before the login is tried; a login that
\* fails is reported and the scan goes on.
ConfigureLogin(s) ==
  /\ zap[s] = "login"
  /\ forced' = s
  /\ Goes(s, "spider")
  /\ UNCHANGED <<free, owner, remote, alerts, outcome>>

\* The spiders and the active scan, each started and waited for.
StartRemote(s, from, to) ==
  /\ zap[s] = from
  /\ remote' = remote \cup {s}
  /\ Goes(s, to)
  /\ UNCHANGED <<free, owner, forced, alerts, outcome>>

StartSpider(s) == StartRemote(s, "spider", "spidering")

\* Polled until it has ended: the daemon is done with it.
WaitForSpider(s) ==
  /\ zap[s] = "spidering"
  /\ remote' = remote \ {s}
  /\ Goes(s, "scan")
  /\ UNCHANGED <<free, owner, forced, alerts, outcome>>

StartActiveScan(s) == StartRemote(s, "scan", "scanning")

WaitForActiveScan(s) ==
  /\ zap[s] = "scanning"
  /\ remote' = remote \ {s}
  /\ Goes(s, "alerts")
  /\ UNCHANGED <<free, owner, forced, alerts, outcome>>

GetAlerts(s) ==
  /\ zap[s] = "alerts"
  /\ outcome' = [outcome EXCEPT ![s] = [kind |-> "ok", found |-> alerts]]
  /\ Goes(s, "contexts")
  /\ UNCHANGED <<free, daemon>>

InTry(s) == zap[s] \in {"probe", "session", "login", "spider", "spidering",
                        "scan", "scanning", "alerts"}

\* A call that fails, a scan the daemon does not finish in time, or the
\* cancellation of the task leads to the tear-down.  A failed newSession may
\* have been carried out.
RunFails(s) ==
  /\ InTry(s)
  /\ Goes(s, "contexts")
  /\ outcome' = [outcome EXCEPT ![s].kind = "failed"]
  /\ UNCHANGED <<free, owner, forced, remote, alerts>>

SessionAnswerLost(s) ==
  /\ zap[s] = "session"
  /\ NewSession(s)
  /\ Goes(s, "contexts")
  /\ outcome' = [outcome EXCEPT ![s].kind = "failed"]
  /\ UNCHANGED free

LoginAnswerLost(s) ==
  /\ zap[s] = "login"
  /\ forced' = s
  /\ Goes(s, "contexts")
  /\ outcome' = [outcome EXCEPT ![s].kind = "failed"]
  /\ UNCHANGED <<free, owner, remote, alerts>>

\* Cancelled before the semaphore was acquired: nothing to release.
CancelQueued(s) ==
  /\ zap[s] = "queued"
  /\ Goes(s, "ended")
  /\ outcome' = [outcome EXCEPT ![s].kind = "failed"]
  /\ UNCHANGED <<free, daemon>>

-----------------------------------------------------------------------------
(* _teardown_session: its calls may fail, each is tried.  It ends before   *)
(* the semaphore is released.                                              *)

RemoveContexts(s) ==
  /\ zap[s] = "contexts"
  /\ Goes(s, "forced")
  /\ UNCHANGED <<free, daemon, outcome>>

DisableForcedUser(s) ==
  /\ zap[s] = "forced"
  /\ forced' \in {forced, Nobody}
  /\ Goes(s, "idling")
  /\ UNCHANGED <<free, owner, remote, alerts, outcome>>

ResetSession(s) ==
  /\ zap[s] = "idling"
  /\ NewSession(Nobody) \/ UNCHANGED daemon
  /\ Goes(s, "release")
  /\ UNCHANGED <<free, outcome>>

\* A second cancellation: the rest of the tear-down is skipped.
TeardownCancelled(s) ==
  /\ zap[s] \in {"contexts", "forced", "idling"}
  /\ Goes(s, "release")
  /\ UNCHANGED <<free, daemon, outcome>>

\* Mutant: a run that failed keeps its place.
ReleaseZap_OnlySuccess(s) ==
  /\ zap[s] = "release"
  /\ free' = IF outcome[s].kind = "ok" THEN free + 1 ELSE free
  /\ Goes(s, "ended")
  /\ UNCHANGED <<daemon, outcome>>

ReleaseZap(s) ==
  /\ zap[s] = "release"
  /\ free' = free + 1
  /\ Goes(s, "ended")
  /\ UNCHANGED <<daemon, outcome>>

-----------------------------------------------------------------------------

\* A running spider or scan finds something, with the user it is forced to.
DaemonFinds ==
  /\ \E s \in remote : alerts' = alerts \cup {[by |-> s, as |-> forced]}
  /\ UNCHANGED <<zap, free, owner, forced, remote, outcome>>

Progress(s) ==
  \/ ProbeReady(s) \/ BeginIsolatedSession(s) \/ ConfigureLogin(s)
  \/ StartSpider(s) \/ WaitForSpider(s) \/ StartActiveScan(s)
  \/ WaitForActiveScan(s) \/ GetAlerts(s)
  \/ RunFails(s) \/ SessionAnswerLost(s) \/ LoginAnswerLost(s)
  \/ RemoveContexts(s) \/ DisableForcedUser(s) \/ ResetSession(s)
  \/ TeardownCancelled(s) \/ ReleaseZap(s)

ZapNext ==
  \/ \E s \in Scans : Enqueue(s) \/ AcquireZap(s) \/ CancelQueued(s) \/ Progress(s)
  \/ DaemonFinds

ZapSpec == ZapInit /\ [][ZapNext]_zapVars

\* Calls are answered or time out, waits end after zap_timeout, and the
\* semaphore serves its waiters in the order they came.
ZapFairness ==
  \A s \in Scans : WF_zapVars(Progress(s)) /\ SF_zapVars(AcquireZap(s))

-----------------------------------------------------------------------------

Places == {"idle", "queued", "probe", "session", "login", "spider", "spidering", "scan",
           "scanning", "alerts", "contexts", "forced", "idling", "release", "ended"}

ZapTypeOK ==
  /\ zap \in [Scans -> Places]
  /\ free \in 0..ZapLimit
  /\ owner \in Scans \cup {Nobody} /\ forced \in Scans \cup {Nobody}
  /\ remote \subseteq Scans
  /\ alerts \subseteq Alert
  /\ outcome \in [Scans -> [kind: {"none", "ok", "failed"}, found: SUBSET Alert]]

\* With one scan at a time, what a scan returns was found by that scan, in
\* the session it began, as its own user or as nobody, whatever failed, was
\* cancelled or is still running for the scan before it.
OwnFindings ==
  ZapLimit = 1 =>
    \A s \in Scans : /\ zap[s] \in {"login", "spider", "spidering", "scan", "scanning", "alerts"}
                          => owner = s
                     /\ \A a \in outcome[s].found :
                          a.by = s /\ a.as \in {Nobody, s} /\ (s \in WithLogin => a.as = s)

\* Every scan that waits for the daemon gets its turn or is cancelled, and
\* its run ends: no failure and no cancellation keeps the place.
EveryScanGetsItsTurn == \A s \in Scans : zap[s] = "queued" ~> zap[s] = "ended"
=============================================================================
