--------------------------- MODULE ScanAdmission ---------------------------
(***************************************************************************)
(* What POST /scan does before a scan runs: InflightScanRegistry's lookup  *)
(* of a duplicate, ScanRateLimiter's slots, the quota reservation in       *)
(* accounts.db, and the done-callback that gives registry entry and slot   *)
(* back when the scan's start task ends (backend/app/main.py).             *)
(*                                                                         *)
(* The asyncio locks guard code without an await, so they never suspend:   *)
(* the only point at which create_scan lets others run is the summary of   *)
(* the scan it found in flight.  All else of the handler is one step.      *)
(***************************************************************************)
EXTENDS Naturals, FiniteSets

CONSTANTS
  Requests,       \* POST /scan requests; a request's scan has its name
  Clients,        \* client identities: organisations and API keys
  Accounts,       \* the clients that are organisations and have quotas
  Targets,        \* normalized targets
  MaxPerClient,   \* scan_rate_limit_max_concurrent_per_client
  MaxGlobal,      \* scan_rate_limit_max_concurrent_global
  MaxRequests,    \* scan_rate_limit_max_requests
  MaxTargets,     \* the plan's max_targets
  ScansPerMonth,  \* the plan's scans_per_month
  MaxCrashes,     \* bound: how often the process is killed
  None            \* no scan

ASSUME RequestsAssumption == IsFiniteSet(Requests) /\ None \notin Requests
ASSUME AccountsAssumption == Accounts \subseteq Clients
ASSUME LimitsAssumption ==
  {MaxPerClient, MaxGlobal, MaxRequests, MaxTargets, ScansPerMonth, MaxCrashes}
    \subseteq Nat

VARIABLES
  key,           \* the client and target of each request
  pc,            \* where each request's handler is
  existing,      \* the scan the handler found in flight
  byKey,         \* InflightScanRegistry._by_key
  keyed,         \* the scan ids in InflightScanRegistry._scan_keys
  events,        \* requests of each client in the sliding window
  activeClient,  \* ScanRateLimiter._active_per_client
  activeGlobal,  \* ScanRateLimiter._active_global
  task,          \* the start task of each scan and its done-callback
  graph,         \* how far the scan's graph is
  rows,          \* the scans with a row in accounts.db
  month,         \* those of them created this month
  crashes

vars == <<key, pc, existing, byKey, keyed, events, activeClient, activeGlobal,
          task, graph, rows, month, crashes>>

registry == <<byKey, keyed>>
limiter  == <<events, activeClient, activeGlobal>>
handlers == <<key, pc, existing>>
database == <<rows, month>>

\* _dedup_key.
Keys == [client: Clients, target: Targets]

-----------------------------------------------------------------------------
(* The registry, the limiter and the quota.                                *)

\* Faulty: the entry is removed even if it is another scan's by now.
IndexWithout_Unchecked(scan) == [byKey EXCEPT ![key[scan]] = None]

\* InflightScanRegistry.release: the entry goes only if it is the scan's own.
IndexWithout(scan) ==
  IF scan \in keyed /\ byKey[key[scan]] = scan
  THEN [byKey EXCEPT ![key[scan]] = None]
  ELSE byKey

\* Faulty: a client at its limit gets one more slot.
SlotFree_OffByOne(c) ==
  /\ events[c] < MaxRequests
  /\ activeClient[c] <= MaxPerClient
  /\ activeGlobal < MaxGlobal

\* ScanRateLimiter.acquire succeeds.
SlotFree(c) ==
  /\ events[c] < MaxRequests
  /\ activeClient[c] < MaxPerClient
  /\ activeGlobal < MaxGlobal

ScansOf(c, scans) == {q \in scans : key[q].client = c}

TargetsOf(c) == {key[q].target : q \in ScansOf(c, rows)}

\* Faulty: the row to be inserted is not counted.
QuotaFree_OffByOne(k) ==
  k.client \in Accounts =>
    /\ k.target \in TargetsOf(k.client) \/ Cardinality(TargetsOf(k.client)) < MaxTargets
    /\ Cardinality(ScansOf(k.client, month)) <= ScansPerMonth

\* reserve_scan_quota_and_create_records finds room for the scan.
QuotaFree(k) ==
  k.client \in Accounts =>
    /\ k.target \in TargetsOf(k.client) \/ Cardinality(TargetsOf(k.client)) < MaxTargets
    /\ Cardinality(ScansOf(k.client, month)) < ScansPerMonth

-----------------------------------------------------------------------------
(* create_scan.                                                            *)

\* get_inflight finds a scan: the handler awaits its status summary.
FindInFlight(q) ==
  /\ pc[q] = "idle"
  /\ byKey[key[q]] # None
  /\ pc' = [pc EXCEPT ![q] = "summary"]
  /\ existing' = [existing EXCEPT ![q] = byKey[key[q]]]
  /\ UNCHANGED <<key, registry, limiter, task, graph, database, crashes>>

\* The summary is read: 409 unless the scan is complete.
ReadSummary(q) ==
  /\ pc[q] = "summary"
  /\ pc' = [pc EXCEPT ![q] = IF graph[existing[q]] = "complete" THEN "complete"
                             ELSE "refused"]
  /\ UNCHANGED <<key, existing, registry, limiter, task, graph, database, crashes>>

\* The handler goes on to acquire: no duplicate was found, or it is complete
\* and its entry is released.
Proceeds(q) ==
  \/ pc[q] = "idle" /\ byKey[key[q]] = None
  \/ pc[q] = "complete"

IndexBefore(q) == IF pc[q] = "complete" THEN IndexWithout(existing[q]) ELSE byKey

KeyedBefore(q) == IF pc[q] = "complete" THEN keyed \ {existing[q]} ELSE keyed

Ends(q, how) ==
  /\ pc' = [pc EXCEPT ![q] = how]
  /\ existing' = [existing EXCEPT ![q] = None]
  /\ UNCHANGED <<key, crashes>>

\* 429 of the limiter.
RefuseSlot(q) ==
  /\ Proceeds(q) /\ ~SlotFree(key[q].client)
  /\ byKey' = IndexBefore(q) /\ keyed' = KeyedBefore(q)
  /\ Ends(q, "refused")
  /\ UNCHANGED <<limiter, task, graph, database>>

\* Faulty: the entry is left behind.
GiveUp_KeepsEntry(q) ==
  /\ byKey' = [IndexBefore(q) EXCEPT ![key[q]] = q]
  /\ keyed' = KeyedBefore(q) \cup {q}
  /\ events' = [events EXCEPT ![key[q].client] = @ + 1]
  /\ Ends(q, "refused")
  /\ UNCHANGED <<activeClient, activeGlobal, task, graph>>

\* register overwrites the entry for the key; the handler's except clause
\* releases it again, together with the slot.
GiveUp(q) ==
  /\ byKey' = [IndexBefore(q) EXCEPT ![key[q]] = None]
  /\ keyed' = KeyedBefore(q)
  /\ events' = [events EXCEPT ![key[q].client] = @ + 1]
  /\ Ends(q, "refused")
  /\ UNCHANGED <<activeClient, activeGlobal, task, graph>>

\* Faulty: the slot is kept when the quota is exceeded.
RefuseQuota_KeepsSlot(q) ==
  /\ Proceeds(q) /\ SlotFree(key[q].client) /\ ~QuotaFree(key[q])
  /\ byKey' = [IndexBefore(q) EXCEPT ![key[q]] = None]
  /\ keyed' = KeyedBefore(q)
  /\ events' = [events EXCEPT ![key[q].client] = @ + 1]
  /\ activeClient' = [activeClient EXCEPT ![key[q].client] = @ + 1]
  /\ activeGlobal' = activeGlobal + 1
  /\ Ends(q, "refused")
  /\ UNCHANGED <<task, graph, database>>

\* 429 of the quota.
RefuseQuota(q) ==
  /\ Proceeds(q) /\ SlotFree(key[q].client) /\ ~QuotaFree(key[q])
  /\ GiveUp(q)
  /\ UNCHANGED database

Reserved(q) ==
  IF key[q].client \in Accounts
  THEN rows' = rows \cup {q} /\ month' = month \cup {q}
  ELSE UNCHANGED database

\* on_site_added raises after the reservation has been committed: the row
\* and the quota it uses up stay.
FailAfterReservation(q) ==
  /\ Proceeds(q) /\ SlotFree(key[q].client) /\ QuotaFree(key[q])
  /\ key[q].client \in Accounts
  /\ GiveUp(q)
  /\ Reserved(q)

\* The scan is scheduled.
Admit(q) ==
  /\ Proceeds(q) /\ SlotFree(key[q].client) /\ QuotaFree(key[q])
  /\ byKey' = [IndexBefore(q) EXCEPT ![key[q]] = q]
  /\ keyed' = KeyedBefore(q) \cup {q}
  /\ events' = [events EXCEPT ![key[q].client] = @ + 1]
  /\ activeClient' = [activeClient EXCEPT ![key[q].client] = @ + 1]
  /\ activeGlobal' = activeGlobal + 1
  /\ Reserved(q)
  /\ task' = [task EXCEPT ![q] = "running"]
  /\ graph' = [graph EXCEPT ![q] = "working"]
  /\ Ends(q, "accepted")

Handler(q) ==
  \/ ReadSummary(q)
  \/ pc[q] = "complete" /\ (RefuseSlot(q) \/ RefuseQuota(q) \/ Admit(q))

-----------------------------------------------------------------------------
(* The scan's graph and its start task, as ScanPipeline has them.          *)

\* The graph stops at the approval gate, or ends.
GraphStops(q) ==
  /\ task[q] = "running" /\ graph[q] = "working"
  /\ \E how \in {"paused", "complete"} : graph' = [graph EXCEPT ![q] = how]
  /\ UNCHANGED <<handlers, registry, limiter, task, database, crashes>>

\* start_scan returns, or raises out of _finalize_failed_scan.
TaskEnds(q) ==
  /\ task[q] = "running"
  /\ task' = [task EXCEPT ![q] = "ended"]
  /\ UNCHANGED <<handlers, registry, limiter, graph, database, crashes>>

\* _cleanup, the task that the done-callback creates.
Cleanup(q) ==
  /\ task[q] = "ended"
  /\ task' = [task EXCEPT ![q] = "cleaned"]
  /\ byKey' = IndexWithout(q) /\ keyed' = keyed \ {q}
  /\ activeClient' = [activeClient EXCEPT ![key[q].client] = IF @ > 0 THEN @ - 1 ELSE @]
  /\ activeGlobal' = IF activeGlobal > 0 THEN activeGlobal - 1 ELSE activeGlobal
  /\ UNCHANGED <<handlers, events, graph, database, crashes>>

\* POST /approve resumes the graph in a task without a done-callback.
Resume(q) ==
  /\ graph[q] = "paused"
  /\ graph' = [graph EXCEPT ![q] = "resumed"]
  /\ UNCHANGED <<handlers, registry, limiter, task, database, crashes>>

ResumeEnds(q) ==
  /\ graph[q] = "resumed"
  /\ graph' = [graph EXCEPT ![q] = "complete"]
  /\ UNCHANGED <<handlers, registry, limiter, task, database, crashes>>

-----------------------------------------------------------------------------
(* Time, and crash with restart.                                           *)

\* A request leaves the sliding window.
WindowSlides(c) ==
  /\ events[c] > 0
  /\ events' = [events EXCEPT ![c] = @ - 1]
  /\ UNCHANGED <<handlers, registry, activeClient, activeGlobal, task, graph,
                 database, crashes>>

MonthTurns ==
  /\ month # {} /\ month' = {}
  /\ UNCHANGED <<handlers, registry, limiter, task, graph, rows, crashes>>

\* Registry, limiter, handlers and tasks are in memory only.
CrashAndRestart ==
  /\ crashes < MaxCrashes /\ crashes' = crashes + 1
  /\ pc' = [q \in Requests |-> IF pc[q] \in {"summary", "complete"} THEN "refused"
                               ELSE pc[q]]
  /\ existing' = [q \in Requests |-> None]
  /\ byKey' = [k \in Keys |-> None] /\ keyed' = {}
  /\ events' = [c \in Clients |-> 0]
  /\ activeClient' = [c \in Clients |-> 0] /\ activeGlobal' = 0
  /\ task' = [q \in Requests |-> IF task[q] = "none" THEN "none" ELSE "cleaned"]
  /\ graph' = [q \in Requests |-> IF graph[q] = "resumed" THEN "working" ELSE graph[q]]
  /\ UNCHANGED <<key, database>>

-----------------------------------------------------------------------------
(* The specification.                                                      *)

Init ==
  /\ key \in [Requests -> Keys]
  /\ pc = [q \in Requests |-> "idle"]
  /\ existing = [q \in Requests |-> None]
  /\ byKey = [k \in Keys |-> None] /\ keyed = {}
  /\ events = [c \in Clients |-> 0]
  /\ activeClient = [c \in Clients |-> 0] /\ activeGlobal = 0
  /\ task = [q \in Requests |-> "none"]
  /\ graph = [q \in Requests |-> "none"]
  /\ rows = {} /\ month = {}
  /\ crashes = 0

CreateScan(q) ==
  \/ FindInFlight(q) \/ ReadSummary(q)
  \/ RefuseSlot(q) \/ RefuseQuota(q) \/ FailAfterReservation(q) \/ Admit(q)

ScanRuns(q) ==
  GraphStops(q) \/ TaskEnds(q) \/ Cleanup(q) \/ Resume(q) \/ ResumeEnds(q)

Next ==
  \/ \E q \in Requests : CreateScan(q) \/ ScanRuns(q)
  \/ \E c \in Clients : WindowSlides(c)
  \/ MonthTurns
  \/ CrashAndRestart

\* Handlers that have begun and tasks are run by the event loop; wait_for
\* bounds the start task.  Clients and reviewers owe nothing.
Fairness ==
  \A q \in Requests : WF_vars(TaskEnds(q)) /\ WF_vars(Cleanup(q)) /\ WF_vars(Handler(q))

SafetySpec == Init /\ [][Next]_vars

Spec == SafetySpec /\ Fairness

-----------------------------------------------------------------------------
(* Properties.                                                             *)

\* The types of the variables.
TypeOK ==
  /\ key \in [Requests -> Keys]
  /\ pc \in [Requests -> {"idle", "summary", "complete", "refused", "accepted"}]
  /\ existing \in [Requests -> Requests \cup {None}]
  /\ byKey \in [Keys -> Requests \cup {None}]
  /\ keyed \in SUBSET Requests
  /\ events \in [Clients -> 0..MaxRequests]
  /\ activeClient \in [Clients -> Nat] /\ activeGlobal \in Nat
  /\ task \in [Requests -> {"none", "running", "ended", "cleaned"}]
  /\ graph \in [Requests -> {"none", "working", "paused", "resumed", "complete"}]
  /\ rows \in SUBSET Requests /\ month \in SUBSET rows
  /\ crashes \in 0..MaxCrashes

\* The scans whose start task has not been cleaned up.
Holders == {q \in Requests : task[q] \in {"running", "ended"}}

\* Every slot that is taken belongs to one start task that has yet to give
\* it back, whatever way its request and task go; so the counters' limits
\* are limits on start tasks, and no slot leaks.
SlotsAreHeld ==
  /\ activeGlobal = Cardinality(Holders)
  /\ \A c \in Clients : activeClient[c] = Cardinality(ScansOf(c, Holders))
  /\ activeGlobal <= MaxGlobal
  /\ \A c \in Clients : activeClient[c] <= MaxPerClient

\* An entry of the registry can always be removed by the task it belongs to:
\* no target stays locked by a scan that is gone.
EntriesAreOwned ==
  \A k \in Keys :
    byKey[k] # None => /\ byKey[k] \in keyed /\ byKey[k] \in Holders
                       /\ key[byKey[k]] = k

\* With one slot per client, the default, a scan stays in the registry for
\* as long as it works towards the gate: a late release for an earlier scan
\* of the same target does not remove it.
WorkingScansAreTracked ==
  MaxPerClient = 1 =>
    \A q \in Requests : task[q] = "running" /\ graph[q] = "working"
                          => byKey[key[q]] = q

\* No interleaving of requests takes an organisation over its quotas.
QuotasHold ==
  \A c \in Accounts :
    /\ Cardinality(ScansOf(c, month)) <= ScansPerMonth
    /\ Cardinality(TargetsOf(c)) <= MaxTargets

\* Once the clients stop, all slots and entries come back.
SlotsReturn ==
  <>[](activeGlobal = 0 /\ \A k \in Keys : byKey[k] = None)

\* core/config.py: "Maximum concurrently running scans per client identity."
RunningScansBounded ==
  \A c \in Clients :
    Cardinality({q \in Requests : /\ key[q].client = c
                                  /\ \/ task[q] = "running"
                                     \/ graph[q] = "resumed"}) <= MaxPerClient
=============================================================================
