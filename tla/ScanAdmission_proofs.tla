------------------------ MODULE ScanAdmission_proofs ------------------------
(***************************************************************************)
(* The safety properties of ScanAdmission for any finite set of requests,  *)
(* any clients, targets, limits and quotas.  None is inductive alone: the  *)
(* counters stay right because a request is admitted only once (Fresh),    *)
(* and a working scan keeps its entry because the handler that releases an *)
(* entry before its slot is free holds a completed scan (Found).           *)
(***************************************************************************)
EXTENDS ScanAdmission, FiniteSetTheorems, TLAPS

\* A request that has not been answered has neither a task nor a row.
Fresh ==
  \A q \in Requests :
    pc[q] \in {"idle", "summary", "complete"} => task[q] = "none" /\ q \notin rows

\* A handler past its summary holds a scan whose graph is complete.
Found ==
  \A q \in Requests :
    /\ pc[q] = "complete" => /\ existing[q] # None
                             /\ graph[existing[q]] = "complete"
    /\ pc[q] = "summary" => existing[q] # None
    /\ task[q] = "none" => graph[q] = "none"

FiniteTargets == \A c \in Accounts : IsFiniteSet(TargetsOf(c))

\* The inductive invariant.
Inv ==
  /\ TypeOK /\ Fresh /\ Found /\ FiniteTargets
  /\ SlotsAreHeld /\ EntriesAreOwned /\ WorkingScansAreTracked /\ QuotasHold

USE RequestsAssumption, AccountsAssumption, LimitsAssumption
  DEF RequestsAssumption, AccountsAssumption, LimitsAssumption

Index == [Keys -> Requests \cup {None}]

LEMMA NatLimits ==
  /\ MaxPerClient \in Nat /\ MaxGlobal \in Nat /\ MaxRequests \in Nat
  /\ MaxTargets \in Nat /\ ScansPerMonth \in Nat /\ MaxCrashes \in Nat
OBVIOUS

LEMMA KeyType ==
  ASSUME TypeOK, NEW q \in Requests
  PROVE  key[q] \in Keys /\ key[q].client \in Clients /\ key[q].target \in Targets
BY DEF TypeOK, Keys

\* Releasing a scan removes no entry but its own, and that one if it has it.
LEMMA IndexWithoutFacts ==
  ASSUME TypeOK, EntriesAreOwned, NEW q \in Requests
  PROVE  /\ IndexWithout(q) \in Index
         /\ \A k \in Keys :
              /\ IndexWithout(q)[k] \in {None, byKey[k]}
              /\ IndexWithout(q)[k] # q
              /\ byKey[k] # q => IndexWithout(q)[k] = byKey[k]
<1>1. byKey \in Index
  BY DEF TypeOK, Index
<1>2. \A k \in Keys : byKey[k] = q => k = key[q] /\ q \in keyed
  BY DEF EntriesAreOwned
<1> QED BY <1>1, <1>2, KeyType DEF Index, IndexWithout

\* The registry as the handler finds it when it acquires its slot.
LEMMA IndexBeforeFacts ==
  ASSUME Inv, NEW q \in Requests
  PROVE  /\ IndexBefore(q) \in Index /\ KeyedBefore(q) \in SUBSET Requests
         /\ \A k \in Keys :
              /\ IndexBefore(q)[k] \in {None, byKey[k]}
              /\ IndexBefore(q)[k] # None => IndexBefore(q)[k] \in KeyedBefore(q)
              /\ byKey[k] # None /\ graph[byKey[k]] = "working"
                   => IndexBefore(q)[k] = byKey[k]
<1> USE DEF Inv
<1>0. byKey \in Index /\ keyed \in SUBSET Requests
  BY DEF TypeOK, Index
<1>1. CASE pc[q] = "complete"
  <2>1. existing[q] \in Requests /\ graph[existing[q]] = "complete"
    BY <1>1 DEF Found, TypeOK
  <2>2. /\ IndexBefore(q) = IndexWithout(existing[q])
        /\ KeyedBefore(q) = keyed \ {existing[q]}
    BY <1>1 DEF IndexBefore, KeyedBefore
  <2>3. \A k \in Keys : byKey[k] # None => byKey[k] \in keyed
    BY DEF EntriesAreOwned
  <2> QED BY <1>0, <2>1, <2>2, <2>3, IndexWithoutFacts
<1>2. CASE pc[q] # "complete"
  <2>1. IndexBefore(q) = byKey /\ KeyedBefore(q) = keyed
    BY <1>2 DEF IndexBefore, KeyedBefore
  <2> QED BY <1>0, <2>1 DEF EntriesAreOwned
<1> QED BY <1>1, <1>2

LEMMA HoldersFinite ==
  ASSUME TypeOK, NEW c
  PROVE  /\ IsFiniteSet(Holders) /\ IsFiniteSet(ScansOf(c, Holders))
         /\ IsFiniteSet(ScansOf(c, month))
         /\ Cardinality(Holders) \in Nat /\ Cardinality(ScansOf(c, Holders)) \in Nat
         /\ Cardinality(ScansOf(c, month)) \in Nat
<1>1. /\ Holders \in SUBSET Requests
      /\ ScansOf(c, Holders) \in SUBSET Requests /\ ScansOf(c, month) \in SUBSET Requests
  BY DEF TypeOK, Holders, ScansOf
<1>2. IsFiniteSet(Holders) /\ IsFiniteSet(ScansOf(c, Holders)) /\ IsFiniteSet(ScansOf(c, month))
  BY <1>1, FS_Subset
<1> QED BY <1>2, FS_CardinalityType

LEMMA Initialised == Init => Inv
<1> SUFFICES ASSUME Init PROVE Inv
  OBVIOUS
<1>1. byKey \in Index /\ \A k \in Keys : byKey[k] = None
  BY DEF Init, Index
<1>2. TypeOK
  BY <1>1, NatLimits DEF Init, TypeOK, Index
<1>3. Holders = {} /\ \A c : ScansOf(c, Holders) = {} /\ ScansOf(c, month) = {} /\ TargetsOf(c) = {}
  BY DEF Init, Holders, ScansOf, TargetsOf
<1>4. SlotsAreHeld
  BY <1>3, FS_EmptySet, NatLimits DEF Init, SlotsAreHeld
<1>5. QuotasHold /\ FiniteTargets
  BY <1>3, FS_EmptySet, NatLimits DEF QuotasHold, FiniteTargets
<1>6. EntriesAreOwned
  BY <1>1 DEF EntriesAreOwned, Index
<1>7. Fresh /\ Found /\ WorkingScansAreTracked
  BY DEF Init, Fresh, Found, WorkingScansAreTracked
<1> QED BY <1>2, <1>4, <1>5, <1>6, <1>7 DEF Inv

-----------------------------------------------------------------------------
(* One lemma per part of the invariant, and in it one step per action that *)
(* can disturb the part.                                                   *)

\* The handler's actions by what they do to the registry.
Answers(q) ==
  RefuseSlot(q) \/ RefuseQuota(q) \/ FailAfterReservation(q) \/ Admit(q)

LEMMA AnswersType ==
  ASSUME Inv, NEW q \in Requests, Answers(q)
  PROVE  TypeOK'
<1> USE DEF Inv
<1>1. /\ IndexBefore(q) \in Index /\ KeyedBefore(q) \in SUBSET Requests
      /\ key[q] \in Keys /\ key[q].client \in Clients
  BY IndexBeforeFacts, KeyType
<1>2. \A how \in {"refused", "accepted"} :
        Ends(q, how) => /\ key' = key /\ crashes' = crashes
                        /\ pc' \in [Requests -> {"idle", "summary", "complete", "refused", "accepted"}]
                        /\ existing' \in [Requests -> Requests \cup {None}]
  BY DEF Ends, TypeOK
<1>3. CASE RefuseSlot(q)
  BY <1>1, <1>2, <1>3 DEF RefuseSlot, TypeOK, limiter, database, Index
<1>4. ASSUME SlotFree(key[q].client),
             events' = [events EXCEPT ![key[q].client] = @ + 1]
      PROVE  events' \in [Clients -> 0..MaxRequests]
  BY <1>1, <1>4, NatLimits DEF SlotFree, TypeOK
<1>5. ASSUME SlotFree(key[q].client), GiveUp(q),
             rows' \in SUBSET Requests, month' \in SUBSET rows'
      PROVE  TypeOK'
  BY <1>1, <1>2, <1>4, <1>5 DEF GiveUp, TypeOK, Index
<1>6. Reserved(q) => rows' \in SUBSET Requests /\ month' \in SUBSET rows'
  BY DEF Reserved, TypeOK, database
<1>7. CASE RefuseQuota(q)
  BY <1>5, <1>7 DEF RefuseQuota, TypeOK, database
<1>8. CASE FailAfterReservation(q)
  BY <1>5, <1>6, <1>8 DEF FailAfterReservation
<1>9. CASE Admit(q)
  <2>1. byKey' \in Index /\ keyed' \in SUBSET Requests
    BY <1>1, <1>9 DEF Admit, Index
  <2>2. activeClient' \in [Clients -> Nat] /\ activeGlobal' \in Nat
    BY <1>1, <1>9 DEF Admit, TypeOK
  <2>3. /\ task' \in [Requests -> {"none", "running", "ended", "cleaned"}]
        /\ graph' \in [Requests -> {"none", "working", "paused", "resumed", "complete"}]
    BY <1>9 DEF Admit, TypeOK
  <2>4. events' \in [Clients -> 0..MaxRequests]
    BY <1>4, <1>9 DEF Admit
  <2>5. Ends(q, "accepted") /\ Reserved(q)
    BY <1>9 DEF Admit
  <2> QED BY <2>1, <2>2, <2>3, <2>4, <2>5, <1>2, <1>6 DEF TypeOK, Index
<1> QED BY <1>3, <1>7, <1>8, <1>9 DEF Answers

LEMMA TypeStep ==
  ASSUME Inv, Next
  PROVE  TypeOK'
<1> USE DEF Inv, handlers, registry, limiter, database
<1>1. ASSUME NEW q \in Requests, FindInFlight(q) PROVE TypeOK'
  BY <1>1, KeyType DEF FindInFlight, TypeOK
<1>2. ASSUME NEW q \in Requests, ReadSummary(q) PROVE TypeOK'
  BY <1>2 DEF ReadSummary, TypeOK
<1>3. ASSUME NEW q \in Requests, Answers(q) PROVE TypeOK'
  BY <1>3, AnswersType
<1>4. ASSUME NEW q \in Requests, GraphStops(q) PROVE TypeOK'
  BY <1>4 DEF GraphStops, TypeOK
<1>5. ASSUME NEW q \in Requests, TaskEnds(q) PROVE TypeOK'
  BY <1>5 DEF TaskEnds, TypeOK
<1>6. ASSUME NEW q \in Requests, Cleanup(q) PROVE TypeOK'
  <2>1. byKey' \in Index
    BY <1>6, IndexWithoutFacts DEF Cleanup
  <2> QED BY <1>6, <2>1, KeyType DEF Cleanup, TypeOK, Index
<1>7. ASSUME NEW q \in Requests, Resume(q) \/ ResumeEnds(q) PROVE TypeOK'
  BY <1>7 DEF Resume, ResumeEnds, TypeOK
<1>8. ASSUME NEW c \in Clients, WindowSlides(c) PROVE TypeOK'
  BY <1>8, NatLimits DEF WindowSlides, TypeOK
<1>9. CASE MonthTurns
  BY <1>9 DEF MonthTurns, TypeOK
<1>10. CASE CrashAndRestart
  <2>1. pc' \in [Requests -> {"idle", "summary", "complete", "refused", "accepted"}]
    BY <1>10 DEF CrashAndRestart, TypeOK
  <2>2. /\ task' \in [Requests -> {"none", "running", "ended", "cleaned"}]
        /\ graph' \in [Requests -> {"none", "working", "paused", "resumed", "complete"}]
    BY <1>10 DEF CrashAndRestart, TypeOK
  <2>3. crashes' \in 0..MaxCrashes
    BY <1>10, NatLimits DEF CrashAndRestart, TypeOK
  <2> QED BY <1>10, <2>1, <2>2, <2>3, NatLimits DEF CrashAndRestart, TypeOK
<1> QED BY <1>1, <1>2, <1>3, <1>4, <1>5, <1>6, <1>7, <1>8, <1>9, <1>10
        DEF Next, CreateScan, ScanRuns, Answers

LEMMA FreshStep ==
  ASSUME Inv, Next
  PROVE  Fresh'
<1> USE DEF Inv, handlers, registry, limiter, database
<1>1. ASSUME NEW q \in Requests, FindInFlight(q) \/ ReadSummary(q) PROVE Fresh'
  BY <1>1 DEF FindInFlight, ReadSummary, Fresh, TypeOK
<1>2. ASSUME NEW q \in Requests, Answers(q) PROVE Fresh'
  <2>1. /\ pc' \in [Requests -> {"idle", "summary", "complete", "refused", "accepted"}]
        /\ pc'[q] \notin {"idle", "summary", "complete"}
        /\ \A p \in Requests : p # q => pc'[p] = pc[p]
    BY <1>2 DEF Answers, RefuseSlot, RefuseQuota, FailAfterReservation, Admit, GiveUp,
                Ends, TypeOK
  <2>2. \A p \in Requests : p # q => task'[p] = task[p] /\ (p \in rows' <=> p \in rows)
    BY <1>2 DEF Answers, RefuseSlot, RefuseQuota, FailAfterReservation, Admit, GiveUp,
                Reserved, TypeOK
  <2> QED BY <2>1, <2>2 DEF Fresh
<1>3. ASSUME NEW q \in Requests, ScanRuns(q) PROVE Fresh'
  BY <1>3 DEF ScanRuns, GraphStops, TaskEnds, Cleanup, Resume, ResumeEnds, Fresh, TypeOK
<1>4. CASE MonthTurns \/ \E c \in Clients : WindowSlides(c)
  BY <1>4 DEF MonthTurns, WindowSlides, Fresh, TypeOK
<1>5. CASE CrashAndRestart
  BY <1>5 DEF CrashAndRestart, Fresh, TypeOK
<1> QED BY <1>1, <1>2, <1>3, <1>4, <1>5 DEF Next, CreateScan, Answers

LEMMA FoundStep ==
  ASSUME Inv, Next
  PROVE  Found'
<1> USE DEF Inv, handlers, registry, limiter, database
<1>1. ASSUME NEW q \in Requests, FindInFlight(q) PROVE Found'
  BY <1>1, KeyType DEF FindInFlight, Found, TypeOK
<1>2. ASSUME NEW q \in Requests, ReadSummary(q) PROVE Found'
  BY <1>2 DEF ReadSummary, Found, TypeOK
<1>3. ASSUME NEW q \in Requests, Answers(q) PROVE Found'
  <2>1. /\ pc'[q] \notin {"summary", "complete"}
        /\ \A p \in Requests : p # q => pc'[p] = pc[p] /\ existing'[p] = existing[p]
    BY <1>3 DEF Answers, RefuseSlot, RefuseQuota, FailAfterReservation, Admit, GiveUp,
                Ends, TypeOK
  <2>2. \/ UNCHANGED <<task, graph>>
        \/ /\ task' = [task EXCEPT ![q] = "running"]
           /\ graph' = [graph EXCEPT ![q] = "working"]
    BY <1>3 DEF Answers, RefuseSlot, RefuseQuota, FailAfterReservation, Admit, GiveUp
  <2>3. graph[q] = "none"
    BY <1>3 DEF Answers, RefuseSlot, RefuseQuota, FailAfterReservation, Admit, Proceeds,
                Fresh, Found
  <2> QED BY <2>1, <2>2, <2>3 DEF Found, TypeOK
<1>4. ASSUME NEW q \in Requests, ScanRuns(q) PROVE Found'
  BY <1>4 DEF ScanRuns, GraphStops, TaskEnds, Cleanup, Resume, ResumeEnds, Found, TypeOK
<1>5. CASE MonthTurns \/ \E c \in Clients : WindowSlides(c)
  BY <1>5 DEF MonthTurns, WindowSlides, Found, TypeOK
<1>6. CASE CrashAndRestart
  BY <1>6 DEF CrashAndRestart, Found, TypeOK
<1> QED BY <1>1, <1>2, <1>3, <1>4, <1>5, <1>6 DEF Next, CreateScan, Answers

\* The counters change with the set of start tasks: by one task, and only in
\* its client's counter.
LEMMA SlotsStep ==
  ASSUME Inv, Next
  PROVE  SlotsAreHeld'
<1> USE DEF Inv, handlers, registry, limiter, database
<1>1. ASSUME UNCHANGED <<key, activeClient, activeGlobal>>, Holders' = Holders
      PROVE  SlotsAreHeld'
  BY <1>1 DEF SlotsAreHeld, ScansOf
<1>2. ASSUME NEW q \in Requests, CreateScan(q), ~Admit(q) PROVE SlotsAreHeld'
  BY <1>1, <1>2 DEF CreateScan, FindInFlight, ReadSummary, RefuseSlot, RefuseQuota,
                    FailAfterReservation, GiveUp, Ends, Holders
<1>3. ASSUME NEW q \in Requests, Admit(q) PROVE SlotsAreHeld'
  <2>1. q \notin Holders /\ key' = key
    BY <1>3 DEF Admit, Proceeds, Fresh, Ends, Holders
  <2>2. Holders' = Holders \cup {q}
    BY <1>3 DEF Admit, Holders, TypeOK
  <2>3. \A c \in Clients :
          ScansOf(c, Holders)' = IF c = key[q].client THEN ScansOf(c, Holders) \cup {q}
                                 ELSE ScansOf(c, Holders)
    BY <2>1, <2>2 DEF ScansOf
  <2>4. /\ Cardinality(Holders') = Cardinality(Holders) + 1
        /\ \A c : q \notin ScansOf(c, Holders)
        /\ \A c : Cardinality(ScansOf(c, Holders) \cup {q})
                    = Cardinality(ScansOf(c, Holders)) + 1
    <3>1. \A c : q \notin ScansOf(c, Holders)
      BY <2>1 DEF ScansOf
    <3>2. \A c : IsFiniteSet(ScansOf(c, Holders)) /\ IsFiniteSet(Holders)
      BY HoldersFinite
    <3> QED BY <2>1, <2>2, <3>1, <3>2, FS_AddElement
  <2>5. /\ \A c \in Clients : activeClient'[c] = IF c = key[q].client THEN activeClient[c] + 1
                                                 ELSE activeClient[c]
        /\ activeGlobal' = activeGlobal + 1
    BY <1>3, KeyType DEF Admit, TypeOK
  <2>6. activeClient[key[q].client] < MaxPerClient /\ activeGlobal < MaxGlobal
    BY <1>3 DEF Admit, SlotFree
  <2>7. activeClient \in [Clients -> Nat] /\ activeGlobal \in Nat
    BY DEF TypeOK
  <2>8. /\ activeGlobal' = Cardinality(Holders')
        /\ \A c \in Clients : activeClient'[c] = Cardinality(ScansOf(c, Holders)')
    BY <2>3, <2>4, <2>5 DEF SlotsAreHeld
  <2>9. /\ activeGlobal' <= MaxGlobal
        /\ \A c \in Clients : activeClient'[c] <= MaxPerClient
    BY <2>5, <2>6, <2>7, NatLimits, KeyType DEF SlotsAreHeld
  <2> QED BY <2>8, <2>9 DEF SlotsAreHeld
<1>4. ASSUME NEW q \in Requests, GraphStops(q) \/ TaskEnds(q) \/ Resume(q) \/ ResumeEnds(q)
      PROVE  SlotsAreHeld'
  BY <1>1, <1>4 DEF GraphStops, TaskEnds, Resume, ResumeEnds, Holders, TypeOK
<1>5. ASSUME NEW q \in Requests, Cleanup(q) PROVE SlotsAreHeld'
  <2>1. q \in Holders /\ key' = key
    BY <1>5 DEF Cleanup, Holders
  <2>2. Holders' = Holders \ {q}
    BY <1>5 DEF Cleanup, Holders, TypeOK
  <2>3. \A c \in Clients :
          ScansOf(c, Holders)' = IF c = key[q].client THEN ScansOf(c, Holders) \ {q}
                                 ELSE ScansOf(c, Holders)
    BY <2>1, <2>2 DEF ScansOf
  <2>4. /\ Cardinality(Holders') = Cardinality(Holders) - 1
        /\ Cardinality(ScansOf(key[q].client, Holders) \ {q})
             = Cardinality(ScansOf(key[q].client, Holders)) - 1
    <3>1. q \in ScansOf(key[q].client, Holders)
      BY <2>1 DEF ScansOf
    <3>2. IsFiniteSet(ScansOf(key[q].client, Holders)) /\ IsFiniteSet(Holders)
      BY HoldersFinite
    <3> QED BY <2>1, <2>2, <3>1, <3>2, FS_RemoveElement
  <2>5. Cardinality(Holders') \in Nat /\ Cardinality(ScansOf(key[q].client, Holders) \ {q}) \in Nat
    BY <2>1, <2>2, HoldersFinite, FS_RemoveElement, FS_CardinalityType
  <2>6. /\ Cardinality(Holders) \in Nat /\ Cardinality(ScansOf(key[q].client, Holders)) \in Nat
        /\ key[q].client \in Clients
    BY HoldersFinite, KeyType
  <2>7. activeGlobal > 0 /\ activeClient[key[q].client] > 0
    BY <2>4, <2>5, <2>6 DEF SlotsAreHeld
  <2>8. /\ activeGlobal' = activeGlobal - 1
        /\ \A c \in Clients : activeClient'[c] = IF c = key[q].client THEN activeClient[c] - 1
                                                 ELSE activeClient[c]
    BY <1>5, <2>7 DEF Cleanup, TypeOK
  <2>9. /\ activeGlobal' = Cardinality(Holders')
        /\ \A c \in Clients : activeClient'[c] = Cardinality(ScansOf(c, Holders)')
    BY <2>3, <2>4, <2>8 DEF SlotsAreHeld
  <2>10. /\ activeGlobal' <= MaxGlobal
         /\ \A c \in Clients : activeClient'[c] <= MaxPerClient
    BY <2>7, <2>8, NatLimits DEF SlotsAreHeld, TypeOK
  <2> QED BY <2>9, <2>10 DEF SlotsAreHeld
<1>6. CASE MonthTurns \/ \E c \in Clients : WindowSlides(c)
  BY <1>1, <1>6 DEF MonthTurns, WindowSlides, Holders
<1>7. CASE CrashAndRestart
  <2>1. Holders' = {}
    BY <1>7 DEF CrashAndRestart, Holders, TypeOK
  <2>2. \A c : ScansOf(c, Holders)' = {}
    BY <2>1 DEF ScansOf
  <2>3. /\ Cardinality(Holders') = 0
        /\ \A c \in Clients : Cardinality(ScansOf(c, Holders)') = 0
    BY <2>1, <2>2, FS_EmptySet
  <2>4. activeGlobal' = 0 /\ \A c \in Clients : activeClient'[c] = 0
    BY <1>7 DEF CrashAndRestart
  <2> QED BY <2>3, <2>4, NatLimits DEF SlotsAreHeld
<1> QED BY <1>2, <1>3, <1>4, <1>5, <1>6, <1>7 DEF Next, CreateScan, ScanRuns

LEMMA EntriesStep ==
  ASSUME Inv, Next
  PROVE  EntriesAreOwned'
<1> USE DEF Inv, handlers, registry, limiter, database
<1>0. byKey \in Index
  BY DEF TypeOK, Index
<1>1. ASSUME UNCHANGED <<key, byKey, keyed>>, Holders' = Holders
      PROVE  EntriesAreOwned'
  BY <1>1 DEF EntriesAreOwned
<1>2. ASSUME NEW q \in Requests, FindInFlight(q) \/ ReadSummary(q) PROVE EntriesAreOwned'
  BY <1>1, <1>2 DEF FindInFlight, ReadSummary, Holders
<1>3. ASSUME NEW q \in Requests, Answers(q), ~Admit(q) PROVE EntriesAreOwned'
  <2>1. /\ key' = key /\ Holders' = Holders /\ keyed' = KeyedBefore(q)
        /\ \/ byKey' = IndexBefore(q)
           \/ byKey' = [IndexBefore(q) EXCEPT ![key[q]] = None]
    BY <1>3 DEF Answers, RefuseSlot, RefuseQuota, FailAfterReservation, GiveUp, Ends, Holders
  <2>2. /\ IndexBefore(q) \in Index
        /\ \A k \in Keys :
             /\ IndexBefore(q)[k] \in {None, byKey[k]}
             /\ IndexBefore(q)[k] # None => IndexBefore(q)[k] \in KeyedBefore(q)
    BY IndexBeforeFacts
  <2>3. \A k \in Keys : byKey'[k] # None => byKey'[k] = byKey[k] /\ byKey[k] \in keyed'
    BY <2>1, <2>2 DEF Index
  <2> QED BY <2>1, <2>3 DEF EntriesAreOwned
<1>4. ASSUME NEW q \in Requests, Admit(q) PROVE EntriesAreOwned'
  <2>1. /\ key' = key /\ keyed' = KeyedBefore(q) \cup {q}
        /\ byKey' = [IndexBefore(q) EXCEPT ![key[q]] = q]
    BY <1>4 DEF Admit, Ends
  <2>2. /\ IndexBefore(q) \in Index
        /\ \A k \in Keys :
             /\ IndexBefore(q)[k] \in {None, byKey[k]}
             /\ IndexBefore(q)[k] # None => IndexBefore(q)[k] \in KeyedBefore(q)
    BY IndexBeforeFacts
  <2>3. Holders' = Holders \cup {q}
    BY <1>4 DEF Admit, Holders, TypeOK
  <2>4. \A k \in Keys : byKey'[k] # None =>
          \/ byKey'[k] = q /\ k = key[q]
          \/ byKey'[k] = byKey[k] /\ byKey[k] \in KeyedBefore(q)
    BY <2>1, <2>2 DEF Index
  <2> QED BY <2>1, <2>3, <2>4 DEF EntriesAreOwned
<1>5. ASSUME NEW q \in Requests, GraphStops(q) \/ TaskEnds(q) \/ Resume(q) \/ ResumeEnds(q)
      PROVE  EntriesAreOwned'
  BY <1>1, <1>5 DEF GraphStops, TaskEnds, Resume, ResumeEnds, Holders, TypeOK
<1>6. ASSUME NEW q \in Requests, Cleanup(q) PROVE EntriesAreOwned'
  <2>1. key' = key /\ keyed' = keyed \ {q} /\ byKey' = IndexWithout(q)
    BY <1>6 DEF Cleanup
  <2>2. Holders' = Holders \ {q}
    BY <1>6 DEF Cleanup, Holders, TypeOK
  <2>3. \A k \in Keys : byKey'[k] # None => byKey'[k] = byKey[k] /\ byKey[k] # q
    BY <2>1, IndexWithoutFacts
  <2> QED BY <2>1, <2>2, <2>3 DEF EntriesAreOwned
<1>7. CASE MonthTurns \/ \E c \in Clients : WindowSlides(c)
  BY <1>1, <1>7 DEF MonthTurns, WindowSlides, Holders
<1>8. CASE CrashAndRestart
  BY <1>8 DEF CrashAndRestart, EntriesAreOwned
<1> QED BY <1>2, <1>3, <1>4, <1>5, <1>6, <1>7, <1>8 DEF Next, CreateScan, ScanRuns, Answers

\* A client with a single slot that is free has no start task.
LEMMA FreeSlotNoTask ==
  ASSUME Inv, MaxPerClient = 1, NEW c \in Clients, SlotFree(c)
  PROVE  \A p \in Holders : key[p].client # c
<1>1. activeClient[c] = Cardinality(ScansOf(c, Holders)) /\ activeClient[c] < 1
  BY DEF Inv, SlotsAreHeld, SlotFree
<1>2. IsFiniteSet(ScansOf(c, Holders)) /\ Cardinality(ScansOf(c, Holders)) \in Nat
  BY HoldersFinite DEF Inv
<1>3. Cardinality(ScansOf(c, Holders)) = 0
  BY <1>1, <1>2
<1>4. ScansOf(c, Holders) = {}
  BY <1>2, <1>3, FS_EmptySet
<1> QED BY <1>4 DEF ScansOf

Working == {q \in Requests : task[q] = "running" /\ graph[q] = "working"}

LEMMA TrackedStep ==
  ASSUME Inv, Next
  PROVE  WorkingScansAreTracked'
<1> USE DEF Inv, handlers, registry, limiter, database
<1> SUFFICES ASSUME MaxPerClient = 1, NEW p \in Working'
             PROVE  byKey'[key'[p]] = p
  BY DEF WorkingScansAreTracked, Working
<1>0. p \in Requests /\ p # None
  BY DEF Working
<1>1. p \in Working => byKey[key[p]] = p /\ p \in Holders
  BY DEF WorkingScansAreTracked, Working, Holders
<1>2. ASSUME NEW q \in Requests, FindInFlight(q) \/ ReadSummary(q) PROVE byKey'[key'[p]] = p
  BY <1>1, <1>2 DEF FindInFlight, ReadSummary, Working
<1>3. ASSUME NEW q \in Requests, Answers(q) PROVE byKey'[key'[p]] = p
  <2>1. key' = key /\ key[p] \in Keys /\ key[q] \in Keys /\ key[q].client \in Clients
    BY <1>0, <1>3, KeyType
       DEF Answers, RefuseSlot, RefuseQuota, FailAfterReservation, Admit, GiveUp, Ends
  <2>2. p \in Working => IndexBefore(q)[key[p]] = p
    BY <1>0, <1>1, <2>1, IndexBeforeFacts DEF Working
  <2>3. SlotFree(key[q].client) /\ p \in Working => key[p] # key[q]
    BY <1>1, <2>1, FreeSlotNoTask
  <2>4. IndexBefore(q) \in Index
    BY IndexBeforeFacts
  <2>5. CASE RefuseSlot(q)
    BY <2>1, <2>2, <2>5 DEF RefuseSlot, Working
  <2>6. CASE RefuseQuota(q) \/ FailAfterReservation(q)
    <3>1. p \in Working
      BY <2>6 DEF RefuseQuota, FailAfterReservation, GiveUp, Working
    <3>2. byKey' = [IndexBefore(q) EXCEPT ![key[q]] = None]
      BY <2>6 DEF RefuseQuota, FailAfterReservation, GiveUp
    <3>3. SlotFree(key[q].client)
      BY <2>6 DEF RefuseQuota, FailAfterReservation
    <3> QED BY <2>1, <2>2, <2>3, <2>4, <3>1, <3>2, <3>3 DEF Index
  <2>7. CASE Admit(q)
    <3>1. p # q => p \in Working
      BY <2>7 DEF Admit, Working, TypeOK
    <3>2. byKey' = [IndexBefore(q) EXCEPT ![key[q]] = q] /\ SlotFree(key[q].client)
      BY <2>7 DEF Admit
    <3> QED BY <2>1, <2>2, <2>3, <2>4, <3>1, <3>2 DEF Index
  <2> QED BY <1>3, <2>5, <2>6, <2>7 DEF Answers
<1>4. ASSUME NEW q \in Requests, GraphStops(q) \/ TaskEnds(q) \/ Resume(q) \/ ResumeEnds(q)
      PROVE  byKey'[key'[p]] = p
  BY <1>1, <1>4 DEF GraphStops, TaskEnds, Resume, ResumeEnds, Working, TypeOK
<1>5. ASSUME NEW q \in Requests, Cleanup(q) PROVE byKey'[key'[p]] = p
  <2>1. p # q /\ p \in Working
    BY <1>5 DEF Cleanup, Working, TypeOK
  <2>2. key' = key /\ byKey' = IndexWithout(q) /\ key[p] \in Keys
    BY <1>0, <1>5, KeyType DEF Cleanup
  <2> QED BY <1>1, <2>1, <2>2, IndexWithoutFacts
<1>6. CASE MonthTurns \/ \E c \in Clients : WindowSlides(c)
  BY <1>1, <1>6 DEF MonthTurns, WindowSlides, Working
<1>7. CASE CrashAndRestart
  BY <1>0, <1>7 DEF CrashAndRestart, Working, TypeOK
<1> QED BY <1>2, <1>3, <1>4, <1>5, <1>6, <1>7 DEF Next, CreateScan, ScanRuns, Answers

\* Counting and inserting are one transaction: a new row is counted for its
\* organisation only, and takes it at most to its limits.
LEMMA ReservedQuotas ==
  ASSUME Inv, NEW q \in Requests, Proceeds(q), QuotaFree(key[q]), Reserved(q), key' = key
  PROVE  QuotasHold' /\ FiniteTargets'
<1> USE DEF Inv
<1>1. CASE key[q].client \notin Accounts
  <2>1. rows' = rows /\ month' = month
    BY <1>1 DEF Reserved, database
  <2> QED BY <2>1 DEF QuotasHold, FiniteTargets, ScansOf, TargetsOf
<1>2. CASE key[q].client \in Accounts
  <2>1. rows' = rows \cup {q} /\ month' = month \cup {q} /\ q \notin month
    BY <1>2 DEF Reserved, Proceeds, Fresh, TypeOK
  <2>2. \A c : /\ ScansOf(c, month)' = IF c = key[q].client THEN ScansOf(c, month) \cup {q}
                                       ELSE ScansOf(c, month)
               /\ q \notin ScansOf(c, month)
    BY <2>1 DEF ScansOf
  <2>3. \A c : TargetsOf(c)' = IF c = key[q].client THEN TargetsOf(c) \cup {key[q].target}
                               ELSE TargetsOf(c)
    BY <2>1 DEF ScansOf, TargetsOf
  <2> DEFINE c0 == key[q].client
             M  == ScansOf(c0, month)
             T  == TargetsOf(c0)
  <2>4. /\ Cardinality(M) < ScansPerMonth
        /\ key[q].target \in T \/ Cardinality(T) < MaxTargets
    BY <1>2 DEF QuotaFree
  <2>5. /\ IsFiniteSet(M) /\ Cardinality(M) \in Nat
        /\ IsFiniteSet(T) /\ Cardinality(T) \in Nat
    BY <1>2, HoldersFinite, FS_CardinalityType DEF FiniteTargets
  <2>6. q \notin M /\ Cardinality(T) <= MaxTargets
    BY <1>2, <2>2 DEF QuotasHold
  <2> HIDE DEF M, T
  <2>7. /\ Cardinality(M \cup {q}) <= ScansPerMonth
        /\ IsFiniteSet(T \cup {key[q].target})
        /\ Cardinality(T \cup {key[q].target}) <= MaxTargets
    <3>1. Cardinality(M \cup {q}) = Cardinality(M) + 1
      BY <2>5, <2>6, FS_AddElement
    <3>2. /\ IsFiniteSet(T \cup {key[q].target})
          /\ Cardinality(T \cup {key[q].target})
               = IF key[q].target \in T THEN Cardinality(T) ELSE Cardinality(T) + 1
      BY <2>5, FS_AddElement
    <3> QED BY <2>4, <2>5, <2>6, <3>1, <3>2, NatLimits
  <2>8. QuotasHold'
    BY <2>2, <2>3, <2>7 DEF QuotasHold, M, T
  <2>9. FiniteTargets'
    BY <2>3, <2>7 DEF FiniteTargets, T
  <2> QED BY <2>8, <2>9
<1> QED BY <1>1, <1>2

LEMMA QuotaStep ==
  ASSUME Inv, Next
  PROVE  QuotasHold' /\ FiniteTargets'
<1> USE DEF Inv, handlers, registry, limiter, database
<1>1. ASSUME UNCHANGED <<key, rows, month>> PROVE QuotasHold' /\ FiniteTargets'
  BY <1>1 DEF QuotasHold, FiniteTargets, ScansOf, TargetsOf
<1>2. ASSUME NEW q \in Requests, FindInFlight(q) \/ ReadSummary(q) \/ RefuseSlot(q) \/ RefuseQuota(q)
      PROVE  QuotasHold' /\ FiniteTargets'
  BY <1>1, <1>2 DEF FindInFlight, ReadSummary, RefuseSlot, RefuseQuota, GiveUp, Ends
<1>3. ASSUME NEW q \in Requests, FailAfterReservation(q) \/ Admit(q)
      PROVE  QuotasHold' /\ FiniteTargets'
  BY <1>3, ReservedQuotas DEF FailAfterReservation, Admit, GiveUp, Ends
<1>4. ASSUME NEW q \in Requests, ScanRuns(q) PROVE QuotasHold' /\ FiniteTargets'
  BY <1>1, <1>4 DEF ScanRuns, GraphStops, TaskEnds, Cleanup, Resume, ResumeEnds
<1>5. ASSUME NEW c \in Clients, WindowSlides(c) PROVE QuotasHold' /\ FiniteTargets'
  BY <1>1, <1>5 DEF WindowSlides
<1>6. CASE CrashAndRestart
  BY <1>1, <1>6 DEF CrashAndRestart
<1>7. CASE MonthTurns
  <2>1. /\ \A c : ScansOf(c, month)' = {} /\ TargetsOf(c)' = TargetsOf(c)
    BY <1>7 DEF MonthTurns, ScansOf, TargetsOf
  <2> QED BY <2>1, FS_EmptySet, NatLimits DEF QuotasHold, FiniteTargets
<1> QED BY <1>2, <1>3, <1>4, <1>5, <1>6, <1>7 DEF Next, CreateScan, ScanRuns

-----------------------------------------------------------------------------
(* The theorems.                                                           *)

LEMMA Stuttering ==
  ASSUME Inv, UNCHANGED vars
  PROVE  Inv'
<1> USE DEF Inv, vars
<1>1. TypeOK' /\ Fresh' /\ Found'
  BY DEF TypeOK, Fresh, Found
<1>2. Holders' = Holders /\ \A c : TargetsOf(c)' = TargetsOf(c)
  BY DEF Holders, TargetsOf, ScansOf
<1>3. /\ \A c : ScansOf(c, Holders)' = ScansOf(c, Holders)
      /\ \A c : ScansOf(c, month)' = ScansOf(c, month)
  BY <1>2 DEF ScansOf
<1>4. SlotsAreHeld' /\ EntriesAreOwned'
  BY <1>2, <1>3 DEF SlotsAreHeld, EntriesAreOwned
<1>5. WorkingScansAreTracked' /\ QuotasHold' /\ FiniteTargets'
  BY <1>2, <1>3 DEF WorkingScansAreTracked, QuotasHold, FiniteTargets
<1> QED BY <1>1, <1>4, <1>5

LEMMA Invariance == SafetySpec => []Inv
<1>1. Inv /\ [Next]_vars => Inv'
  BY Stuttering, TypeStep, FreshStep, FoundStep, SlotsStep, EntriesStep, TrackedStep,
     QuotaStep DEF Inv
<1> QED BY Initialised, <1>1, PTL DEF SafetySpec

\* The state of every reachable step is well typed (app/main.py, the limiter
\* and the registry).
THEOREM TypeCorrect == SafetySpec => []TypeOK
<1>1. Inv => TypeOK
  BY DEF Inv
<1> QED BY Invariance, <1>1, PTL

\* ScanRateLimiter's counters count the start tasks, within both limits.
THEOREM SlotsNeverLeak == SafetySpec => []SlotsAreHeld
<1>1. Inv => SlotsAreHeld
  BY DEF Inv
<1> QED BY Invariance, <1>1, PTL

\* Every entry of InflightScanRegistry belongs to a task that removes it.
THEOREM EntriesNeverStale == SafetySpec => []EntriesAreOwned
<1>1. Inv => EntriesAreOwned
  BY DEF Inv
<1> QED BY Invariance, <1>1, PTL

\* With one slot per client the registry knows every scan that works towards
\* the approval gate.
THEOREM WorkingScansStayTracked == SafetySpec => []WorkingScansAreTracked
<1>1. Inv => WorkingScansAreTracked
  BY DEF Inv
<1> QED BY Invariance, <1>1, PTL

\* reserve_scan_quota_and_create_records keeps both quotas, however requests
\* interleave and whatever happens after the reservation.
THEOREM QuotasAlwaysHold == SafetySpec => []QuotasHold
<1>1. Inv => QuotasHold
  BY DEF Inv
<1> QED BY Invariance, <1>1, PTL
=============================================================================
