-------------------------- MODULE ZapDaemon_proofs --------------------------
(***************************************************************************)
(* ZapDaemon for any set of scans and any limit: the semaphore never gives *)
(* out more places than it has, and with one place each scan returns what  *)
(* it found itself.  OwnFindings alone is not inductive: it needs to know  *)
(* that no second scan is past the semaphore (SlotsCounted), and what the  *)
(* daemon has been told and has found since the session began.             *)
(***************************************************************************)
EXTENDS ZapDaemon, FiniteSetTheorems, TLAPS

HoldingPlaces == {"probe", "session", "login", "spider", "spidering", "scan",
                  "scanning", "alerts", "contexts", "forced", "idling", "release"}

Holding == {s \in Scans : zap[s] \in HoldingPlaces}

\* The places of the semaphore are free or held.
SlotsCounted == IsFiniteSet(Holding) /\ free = ZapLimit - Cardinality(Holding)

\* From newSession to the alerts.
SessionPlaces == {"login", "spider", "spidering", "scan", "scanning", "alerts"}

Visitor(s) == IF s \in WithLogin THEN s ELSE Nobody

\* The session of a scan that has one: only it runs there, as its own user.
SessionSound(s) ==
  /\ owner = s
  /\ remote \subseteq {s}
  /\ zap[s] = "login" => s \in WithLogin /\ remote = {} /\ alerts = {}
  /\ zap[s] # "login" => /\ forced = Visitor(s)
                         /\ \A a \in alerts : a.by = s /\ a.as = Visitor(s)

OutcomeSound(s) == \A a \in outcome[s].found : a.by = s /\ a.as = Visitor(s)

Sound ==
  ZapLimit = 1 => \A s \in Scans : /\ zap[s] \in SessionPlaces => SessionSound(s)
                                   /\ OutcomeSound(s)

\* The inductive invariant.
ZapInv == ZapTypeOK /\ SlotsCounted /\ Sound

USE ScansAssumption, ZapLimitAssumption DEF ScansAssumption, ZapLimitAssumption

\* With a limit of one, a scan that holds the place is the only one.
LEMMA Alone ==
  ASSUME SlotsCounted, free \in Nat, ZapLimit = 1, NEW s \in Holding, NEW t \in Holding
  PROVE  s = t /\ free = 0
<1>1. Cardinality(Holding) \in Nat
  BY FS_CardinalityType DEF SlotsCounted
<1>2. Cardinality(Holding) <= 1
  BY <1>1 DEF SlotsCounted
<1>3. ASSUME s # t PROVE FALSE
  <2>1. Cardinality({s, t}) = 2
    <3>1. IsFiniteSet({s}) /\ Cardinality({s}) = 1
      BY FS_Singleton
    <3>2. {s} \cup {t} = {s, t} /\ t \notin {s}
      BY <1>3
    <3>3. Cardinality({s} \cup {t}) = 1 + 1
      BY <3>1, <3>2, FS_AddElement
    <3> QED BY <3>2, <3>3
  <2>2. Cardinality({s, t}) <= Cardinality(Holding)
    BY FS_Subset DEF SlotsCounted
  <2> QED BY <1>1, <1>2, <2>1, <2>2
<1>4. Cardinality(Holding) # 0
  BY FS_EmptySet DEF SlotsCounted
<1> QED BY <1>1, <1>2, <1>3, <1>4 DEF SlotsCounted

-----------------------------------------------------------------------------
(* Types and places.                                                       *)

\* Steps that leave the semaphore alone.
KeepsPlace(s) ==
  \/ Enqueue(s) \/ CancelQueued(s)
  \/ ProbeReady(s) \/ BeginIsolatedSession(s) \/ ConfigureLogin(s)
  \/ StartSpider(s) \/ WaitForSpider(s) \/ StartActiveScan(s)
  \/ WaitForActiveScan(s) \/ GetAlerts(s)
  \/ RunFails(s) \/ SessionAnswerLost(s) \/ LoginAnswerLost(s)
  \/ RemoveContexts(s) \/ DisableForcedUser(s) \/ ResetSession(s)
  \/ TeardownCancelled(s)

LEMMA StepKinds ==
  ASSUME ZapNext
  PROVE  \/ \E s \in Scans : KeepsPlace(s) \/ AcquireZap(s) \/ ReleaseZap(s)
         \/ DaemonFinds
BY DEF ZapNext, Progress, KeepsPlace

\* They move the scan from one place to another on the same side of it.
LEMMA KeepsPlaceMoves ==
  ASSUME ZapTypeOK, NEW s \in Scans, KeepsPlace(s)
  PROVE  /\ free' = free
         /\ \E to \in Places : /\ zap' = [zap EXCEPT ![s] = to]
                               /\ zap[s] \in HoldingPlaces <=> to \in HoldingPlaces
<1> USE DEF Places, HoldingPlaces, Goes, ZapTypeOK
<1>1. CASE Enqueue(s) \/ CancelQueued(s)
  BY <1>1 DEF Enqueue, CancelQueued
<1>2. CASE ProbeReady(s) \/ ConfigureLogin(s) \/ GetAlerts(s)
  BY <1>2 DEF ProbeReady, ConfigureLogin, GetAlerts
<1>3. CASE BeginIsolatedSession(s)
  BY <1>3 DEF BeginIsolatedSession
<1>4. CASE StartSpider(s) \/ StartActiveScan(s)
  BY <1>4 DEF StartSpider, StartActiveScan, StartRemote
<1>5. CASE WaitForSpider(s) \/ WaitForActiveScan(s)
  BY <1>5 DEF WaitForSpider, WaitForActiveScan
<1>6. CASE RunFails(s)
  BY <1>6 DEF RunFails, InTry
<1>7. CASE SessionAnswerLost(s) \/ LoginAnswerLost(s)
  BY <1>7 DEF SessionAnswerLost, LoginAnswerLost
<1>8. CASE RemoveContexts(s) \/ DisableForcedUser(s) \/ ResetSession(s) \/ TeardownCancelled(s)
  BY <1>8 DEF RemoveContexts, DisableForcedUser, ResetSession, TeardownCancelled
<1> QED BY <1>1, <1>2, <1>3, <1>4, <1>5, <1>6, <1>7, <1>8 DEF KeepsPlace

LEMMA SlotsStep ==
  ASSUME ZapTypeOK, SlotsCounted, ZapNext
  PROVE  SlotsCounted' /\ free' \in 0..ZapLimit
<1>0. free \in Nat /\ Cardinality(Holding) \in Nat
  BY FS_CardinalityType DEF ZapTypeOK, SlotsCounted
<1>1. ASSUME NEW s \in Scans, KeepsPlace(s) PROVE SlotsCounted' /\ free' \in 0..ZapLimit
  <2>1. Holding' = Holding
    BY <1>1, KeepsPlaceMoves DEF Holding, ZapTypeOK
  <2> QED BY <1>1, <2>1, KeepsPlaceMoves DEF SlotsCounted, ZapTypeOK
<1>2. ASSUME NEW s \in Scans, AcquireZap(s) PROVE SlotsCounted' /\ free' \in 0..ZapLimit
  <2>1. Holding' = Holding \cup {s} /\ s \notin Holding
    BY <1>2 DEF Holding, HoldingPlaces, AcquireZap, Goes, ZapTypeOK
  <2>2. IsFiniteSet(Holding') /\ Cardinality(Holding') = Cardinality(Holding) + 1
    BY <2>1, FS_AddElement DEF SlotsCounted
  <2>3. free \in 0..ZapLimit /\ free > 0 /\ free' = free - 1
    BY <1>2 DEF AcquireZap, ZapTypeOK
  <2>4. free' \in 0..ZapLimit
    BY <2>3
  <2>5. free' = ZapLimit - Cardinality(Holding')
    BY <1>0, <2>2, <2>3 DEF SlotsCounted
  <2> QED BY <2>2, <2>4, <2>5 DEF SlotsCounted
<1>3. ASSUME NEW s \in Scans, ReleaseZap(s) PROVE SlotsCounted' /\ free' \in 0..ZapLimit
  <2>1. Holding' = Holding \ {s} /\ s \in Holding
    BY <1>3 DEF Holding, HoldingPlaces, ReleaseZap, Goes, ZapTypeOK
  <2>2. IsFiniteSet(Holding') /\ Cardinality(Holding') = Cardinality(Holding) - 1
    BY <2>1, FS_RemoveElement DEF SlotsCounted
  <2>3. Cardinality(Holding') \in Nat
    BY <2>2, FS_CardinalityType
  <2> QED BY <1>0, <1>3, <2>2, <2>3 DEF ReleaseZap, SlotsCounted, ZapTypeOK
<1>4. CASE DaemonFinds
  <2>1. Holding' = Holding
    BY <1>4 DEF Holding, DaemonFinds
  <2> QED BY <1>4, <2>1 DEF DaemonFinds, SlotsCounted, ZapTypeOK
<1> QED BY <1>1, <1>2, <1>3, <1>4, StepKinds

LEMMA TypeStep ==
  ASSUME ZapTypeOK, SlotsCounted, ZapNext
  PROVE  ZapTypeOK'
<1>1. free' \in 0..ZapLimit
  BY SlotsStep
<1>2. ASSUME NEW s \in Scans, KeepsPlace(s) PROVE ZapTypeOK'
  <2>1. zap' \in [Scans -> Places]
    BY <1>2, KeepsPlaceMoves DEF ZapTypeOK
  <2>2. /\ owner' \in Scans \cup {Nobody} /\ forced' \in Scans \cup {Nobody}
        /\ remote' \subseteq Scans /\ alerts' \subseteq Alert
    BY <1>2 DEF ZapTypeOK, KeepsPlace, Enqueue, CancelQueued, ProbeReady,
      BeginIsolatedSession, ConfigureLogin, StartSpider, StartActiveScan, StartRemote,
      WaitForSpider, WaitForActiveScan, GetAlerts, RunFails, SessionAnswerLost,
      LoginAnswerLost, RemoveContexts, DisableForcedUser, ResetSession,
      TeardownCancelled, NewSession, daemon
  <2>3. outcome' \in [Scans -> [kind: {"none", "ok", "failed"}, found: SUBSET Alert]]
    BY <1>2 DEF ZapTypeOK, KeepsPlace, Enqueue, CancelQueued, ProbeReady,
      BeginIsolatedSession, ConfigureLogin, StartSpider, StartActiveScan, StartRemote,
      WaitForSpider, WaitForActiveScan, GetAlerts, RunFails, SessionAnswerLost,
      LoginAnswerLost, RemoveContexts, DisableForcedUser, ResetSession,
      TeardownCancelled
  <2> QED BY <1>1, <2>1, <2>2, <2>3 DEF ZapTypeOK
<1>3. ASSUME NEW s \in Scans, AcquireZap(s) \/ ReleaseZap(s) PROVE ZapTypeOK'
  BY <1>1, <1>3 DEF ZapTypeOK, Places, AcquireZap, ReleaseZap, Goes, daemon
<1>4. CASE DaemonFinds
  <2>1. alerts' \subseteq Alert
    BY <1>4 DEF DaemonFinds, ZapTypeOK, Alert
  <2> QED BY <1>4, <2>1 DEF DaemonFinds, ZapTypeOK
<1> QED BY <1>2, <1>3, <1>4, StepKinds

-----------------------------------------------------------------------------
(* Sessions.                                                               *)

\* What a step of the only holder has to show.
LEMMA HolderStep ==
  ASSUME ZapInv, ZapLimit = 1, NEW s \in Holding, NEW to \in Places,
         zap' = [zap EXCEPT ![s] = to],
         to \in SessionPlaces => SessionSound(s)',
         OutcomeSound(s)',
         \A t \in Scans \ {s} : outcome'[t] = outcome[t]
  PROVE  Sound'
<1>1. ASSUME NEW t \in Scans \ {s}
      PROVE  (zap[t] \in SessionPlaces => SessionSound(t))' /\ OutcomeSound(t)'
  <2>1. zap[t] \notin SessionPlaces
    BY Alone DEF ZapInv, Holding, HoldingPlaces, SessionPlaces, ZapTypeOK
  <2>2. zap'[t] = zap[t]
    BY DEF ZapInv, ZapTypeOK
  <2>3. OutcomeSound(t)'
    BY DEF ZapInv, Sound, OutcomeSound
  <2> QED BY <2>1, <2>2, <2>3
<1>2. s \in Scans /\ zap'[s] = to
  BY DEF ZapInv, Holding, ZapTypeOK
<1> QED BY <1>1, <1>2 DEF Sound

\* Steps in which the scan holds nothing and touches neither the daemon nor
\* what others returned.
LEMMA OutsideStep ==
  ASSUME ZapInv, NEW s \in Scans, Enqueue(s) \/ CancelQueued(s) \/ AcquireZap(s) \/ ReleaseZap(s)
  PROVE  Sound'
<1> USE DEF Enqueue, CancelQueued, AcquireZap, ReleaseZap, Goes, daemon
<1>1. UNCHANGED <<owner, forced, remote, alerts>>
  OBVIOUS
<1>2. \A t \in Scans : outcome'[t].found = outcome[t].found
  BY DEF ZapInv, ZapTypeOK
<1>3. \A t \in Scans : zap'[t] \in SessionPlaces => zap'[t] = zap[t]
  BY DEF ZapInv, ZapTypeOK, SessionPlaces
<1> QED BY <1>1, <1>2, <1>3 DEF ZapInv, Sound, SessionSound, OutcomeSound

\* Steps that give up the session, or never had one.
Ending(s) ==
  \/ ProbeReady(s) \/ RunFails(s) \/ SessionAnswerLost(s) \/ LoginAnswerLost(s)
  \/ RemoveContexts(s) \/ DisableForcedUser(s) \/ ResetSession(s) \/ TeardownCancelled(s)

LEMMA EndingStep ==
  ASSUME ZapInv, ZapLimit = 1, NEW s \in Scans, Ending(s)
  PROVE  Sound'
<1> USE DEF Ending, ProbeReady, RunFails, InTry, SessionAnswerLost, LoginAnswerLost,
            RemoveContexts, DisableForcedUser, ResetSession, TeardownCancelled, Goes
<1>1. s \in Holding
  BY DEF Holding, HoldingPlaces
<1>2. \E to \in Places \ SessionPlaces : zap' = [zap EXCEPT ![s] = to]
  BY DEF Places, SessionPlaces
<1>3. \A t \in Scans : outcome'[t].found = outcome[t].found
  BY DEF ZapInv, ZapTypeOK
<1>4. \A t \in Scans \ {s} : outcome'[t] = outcome[t]
  BY DEF ZapInv, ZapTypeOK
<1>5. OutcomeSound(s)'
  BY <1>3 DEF ZapInv, Sound, OutcomeSound
<1> QED BY <1>1, <1>2, <1>4, <1>5, HolderStep

\* Steps of a session.
LEMMA SessionStep ==
  ASSUME ZapInv, ZapLimit = 1, NEW s \in Scans,
         \/ BeginIsolatedSession(s) \/ ConfigureLogin(s)
         \/ StartSpider(s) \/ WaitForSpider(s) \/ StartActiveScan(s)
         \/ WaitForActiveScan(s) \/ GetAlerts(s)
  PROVE  Sound'
<1> USE DEF Goes
<1>0. zap \in [Scans -> Places] /\ OutcomeSound(s)
  BY DEF ZapInv, ZapTypeOK, Sound
<1>1. CASE BeginIsolatedSession(s)
  <2>1. s \in Holding
    BY <1>1 DEF BeginIsolatedSession, Holding, HoldingPlaces
  <2>2. PICK to \in Places : /\ zap' = [zap EXCEPT ![s] = to]
                             /\ to = IF s \in WithLogin THEN "login" ELSE "spider"
    BY <1>1 DEF BeginIsolatedSession, Places
  <2>3. SessionSound(s)'
    BY <1>0, <1>1, <2>2 DEF BeginIsolatedSession, NewSession, SessionSound, Visitor
  <2> QED BY <1>0, <1>1, <2>1, <2>2, <2>3, HolderStep DEF BeginIsolatedSession, OutcomeSound
<1>2. CASE GetAlerts(s)
  <2>1. s \in Holding /\ SessionSound(s) /\ zap[s] = "alerts"
    BY <1>2 DEF GetAlerts, ZapInv, Sound, Holding, HoldingPlaces, SessionPlaces
  <2>2. OutcomeSound(s)' /\ \A t \in Scans \ {s} : outcome'[t] = outcome[t]
    BY <1>2, <2>1 DEF GetAlerts, SessionSound, OutcomeSound, ZapInv, ZapTypeOK
  <2>3. zap' = [zap EXCEPT ![s] = "contexts"] /\ "contexts" \in Places \ SessionPlaces
    BY <1>2 DEF GetAlerts, Places, SessionPlaces
  <2> QED BY <2>1, <2>2, <2>3, HolderStep
<1>3. CASE \/ ConfigureLogin(s) \/ StartSpider(s) \/ WaitForSpider(s)
           \/ StartActiveScan(s) \/ WaitForActiveScan(s)
  <2> USE DEF ConfigureLogin, StartSpider, WaitForSpider, StartActiveScan,
              WaitForActiveScan, StartRemote
  <2>1. s \in Holding /\ SessionSound(s)
    BY <1>3 DEF ZapInv, Sound, Holding, HoldingPlaces, SessionPlaces
  <2>2. PICK to \in SessionPlaces \ {"login"} : zap' = [zap EXCEPT ![s] = to]
    BY <1>3 DEF SessionPlaces
  <2>3. to \in Places
    BY DEF SessionPlaces, Places
  <2>4. SessionSound(s)'
    BY <1>0, <1>3, <2>1, <2>2 DEF SessionSound, Visitor
  <2>5. outcome' = outcome
    BY <1>3
  <2> QED BY <1>0, <2>1, <2>2, <2>3, <2>4, <2>5, HolderStep DEF OutcomeSound
<1> QED BY <1>1, <1>2, <1>3

LEMMA DaemonStep ==
  ASSUME ZapInv, DaemonFinds
  PROVE  Sound'
<1> SUFFICES ASSUME ZapLimit = 1, NEW t \in Scans
             PROVE  /\ (zap[t] \in SessionPlaces => SessionSound(t))'
                    /\ OutcomeSound(t)'
  BY DEF Sound
<1>1. PICK s \in remote : alerts' = alerts \cup {[by |-> s, as |-> forced]}
  BY DEF DaemonFinds
<1>2. UNCHANGED <<zap, owner, forced, remote, outcome>>
  BY DEF DaemonFinds
<1>3. OutcomeSound(t)'
  BY <1>2 DEF ZapInv, Sound, OutcomeSound
<1>4. ASSUME zap[t] \in SessionPlaces PROVE SessionSound(t)'
  <2>1. SessionSound(t)
    BY <1>4 DEF ZapInv, Sound
  <2>2. s = t /\ zap[t] # "login" /\ forced = Visitor(t)
    BY <1>1, <2>1 DEF SessionSound
  <2>3. \A a \in alerts' : a.by = t /\ a.as = Visitor(t)
    BY <1>1, <2>1, <2>2 DEF SessionSound
  <2> QED BY <1>2, <2>1, <2>2, <2>3 DEF SessionSound, Visitor
<1> QED BY <1>2, <1>3, <1>4

LEMMA SoundStep ==
  ASSUME ZapInv, ZapNext
  PROVE  Sound'
<1> SUFFICES ASSUME ZapLimit = 1 PROVE Sound'
  BY DEF Sound
<1> QED BY StepKinds, OutsideStep, EndingStep, SessionStep, DaemonStep
         DEF KeepsPlace, Ending

-----------------------------------------------------------------------------

LEMMA ZapInvariance == ZapSpec => []ZapInv
<1>1. ZapInit => ZapInv
  <2> SUFFICES ASSUME ZapInit PROVE ZapInv
    OBVIOUS
  <2>1. Holding = {}
    BY DEF ZapInit, Holding, HoldingPlaces
  <2>2. SlotsCounted
    BY <2>1, FS_EmptySet DEF SlotsCounted, ZapInit
  <2> QED BY <2>2 DEF ZapInv, ZapInit, ZapTypeOK, Places, Sound, OutcomeSound, SessionPlaces
<1>2. ZapInv /\ [ZapNext]_zapVars => ZapInv'
  <2>1. ASSUME ZapInv, ZapNext PROVE ZapInv'
    BY <2>1, TypeStep, SlotsStep, SoundStep DEF ZapInv
  <2>2. ASSUME ZapInv, UNCHANGED zapVars PROVE ZapInv'
    BY <2>2 DEF ZapInv, zapVars, ZapTypeOK, SlotsCounted, Holding, Sound, SessionSound,
                OutcomeSound
  <2> QED BY <2>1, <2>2
<1> QED BY <1>1, <1>2, PTL DEF ZapSpec

\* Every reachable state of the daemon and its clients is well typed; the
\* semaphore's counter stays within its limit (_get_zap_semaphore, run).
THEOREM ZapTypeCorrect == ZapSpec => []ZapTypeOK
<1>1. ZapInv => ZapTypeOK
  BY DEF ZapInv
<1> QED BY <1>1, ZapInvariance, PTL

\* At the default zap_max_concurrent of one, whatever fails and whoever is
\* cancelled, a scan returns only what it found itself, as its own user
\* (_begin_isolated_session, _teardown_session).
THEOREM FindingsStayOwn == ZapSpec => []OwnFindings
<1>1. ZapInv => OwnFindings
  BY DEF ZapInv, Sound, OwnFindings, SessionPlaces, SessionSound, OutcomeSound, Visitor
<1> QED BY <1>1, ZapInvariance, PTL

=============================================================================
