----------------------- MODULE LiveVerification_proofs -----------------------
(***************************************************************************)
(* FixedMeansGone for any findings, requests, URLs and limits, however the *)
(* site changes.  It is not inductive: an answer is judged long after the  *)
(* check began, so it has to be known of every running check that, if the  *)
(* page lacks its condition now, that has been noted (Noted).              *)
(***************************************************************************)
EXTENDS LiveVerification, TLAPS

PagesTyped == page \in [Urls -> UNION {Pages(u) : u \in Urls}]

PageOf(c) == page[Url[FindingOf(c)]]

\* What a running check may still see, and what an ended one has seen.
Noted(c) ==
  /\ Running(c) /\ Absent(c, PageOf(c)) => c \in gone
  /\ check[c].verdict = "refuted" => c \in gone

FixesNoted == \A r \in Requests : fix[r] = "fixed" => r \in gone

\* The inductive invariant.
LiveInv == PagesTyped /\ LiveTypeOK /\ (\A c \in Checks : Noted(c)) /\ FixesNoted

USE FindingsAssumption, RequestsAssumption, RetestAssumption, VerifierLimits
  DEF FindingsAssumption, RequestsAssumption, RetestAssumption, VerifierLimits

LEMMA FindingOfFacts ==
  ASSUME NEW c \in Checks
  PROVE  /\ FindingOf(c) \in Findings /\ Url[FindingOf(c)] \in Urls
         /\ c \in Findings => FindingOf(c) = c
BY DEF Checks, FindingOf, Urls

LEMMA VerdictFacts ==
  ASSUME NEW c \in Checks, NEW p, p.answers \in {"ok", "error"}
  PROVE  /\ Verdict(c, p) \in Verdicts
         /\ Verdict(c, p) = "refuted" => Absent(c, p)
BY DEF Verdict, Verdicts, Absent

\* What a check holds before it is queued, or without being fetched.
LEMMA StartFacts ==
  ASSUME NEW f \in Findings
  PROVE  Started(f) \in {Ended("tool_attested"), Ended("unreachable"), Queued}
BY DEF Started

CheckRecords ==
  [at: {"none", "queued", "getting", "backoff", "done"}, tries: 0..(MaxAttempts - 1),
   verdict: Verdicts]

LEMMA RecordFacts ==
  /\ Queued \in CheckRecords /\ Queued.verdict = "none"
  /\ \A v \in Verdicts : /\ Ended(v) \in CheckRecords
                         /\ Ended(v).verdict = v /\ Ended(v).at = "done"
BY DEF Queued, Ended, CheckRecords, Verdicts

-----------------------------------------------------------------------------

\* A step that leaves the site alone and moves one check on.
LEMMA CheckStep ==
  ASSUME LiveInv, NEW c \in Checks, NEW rec \in CheckRecords,
         check' = [check EXCEPT ![c] = rec],
         UNCHANGED <<page, changes, cooling>>, gone \subseteq gone', gone' \subseteq Checks,
         node' \in {"idle", "running", "done", "failed"},
         \/ rec.at = "done"
         \/ Running(c)
         \/ Absent(c, PageOf(c)) => c \in gone',
         rec.verdict = "refuted" => c \in gone',
         \/ fix' = fix
         \/ \E r \in Requests, to \in {"checking", "raised", "changed", "still_present"} :
              fix' = [fix EXCEPT ![r] = to]
  PROVE  LiveInv'
<1>1. PagesTyped' /\ PageOf(c)' = PageOf(c)
  BY DEF LiveInv, PagesTyped, PageOf
<1>2. check' \in [Checks -> CheckRecords]
  BY DEF LiveInv, LiveTypeOK, CheckRecords
<1>3. LiveTypeOK'
  BY <1>2 DEF LiveInv, LiveTypeOK, CheckRecords
<1>4. Noted(c)'
  BY <1>1 DEF LiveInv, LiveTypeOK, Noted, Running, Absent, PageOf
<1>5. ASSUME NEW d \in Checks \ {c} PROVE Noted(d)'
  <2>1. check'[d] = check[d] /\ page' = page
    BY DEF LiveInv, LiveTypeOK
  <2> QED BY <2>1 DEF LiveInv, Noted, Running, PageOf
<1>6. FixesNoted'
  BY DEF LiveInv, FixesNoted, LiveTypeOK
<1> QED BY <1>1, <1>3, <1>4, <1>5, <1>6 DEF LiveInv

LEMMA FetchSteps ==
  ASSUME LiveInv, NEW c \in Checks, FetchStep(c) \/ CheckRaises(c)
  PROVE  LiveInv'
<1>0. check \in [Checks -> CheckRecords] /\ gone \subseteq Checks
      /\ node \in {"idle", "running", "done", "failed"}
  BY DEF LiveInv, LiveTypeOK, CheckRecords
<1>1. CASE AcquireFetch(c)
  <2> DEFINE rec == [check[c] EXCEPT !.at = "getting"]
  <2>1. rec \in CheckRecords /\ rec.verdict = check[c].verdict
    BY <1>0 DEF CheckRecords
  <2>2. check' = [check EXCEPT ![c] = rec] /\ Running(c)
    BY <1>0, <1>1 DEF AcquireFetch, Running, CheckRecords
  <2>3. rec.verdict = "refuted" => c \in gone
    BY <2>1 DEF LiveInv, Noted
  <2> HIDE DEF rec
  <2> QED BY <1>0, <1>1, <2>1, <2>2, <2>3, CheckStep DEF AcquireFetch
<1>2. CASE GetAnswered(c)
  <2> DEFINE rec == Ended(Verdict(c, PageOf(c)))
  <2>1. PageOf(c) \in Pages(Url[FindingOf(c)]) /\ PageOf(c).answers # "down"
    BY <1>2, FindingOfFacts DEF GetAnswered, PageOf, LiveInv, LiveTypeOK
  <2>2. PageOf(c).answers \in {"ok", "error"}
    BY <2>1 DEF Pages
  <2>3. /\ Verdict(c, PageOf(c)) \in Verdicts
        /\ Verdict(c, PageOf(c)) = "refuted" => Absent(c, PageOf(c))
    BY <2>2, VerdictFacts
  <2>4. rec \in CheckRecords /\ rec.at = "done" /\ rec.verdict = Verdict(c, PageOf(c))
    BY <2>3, RecordFacts
  <2>5. Running(c)
    BY <1>2 DEF GetAnswered, Running
  <2>6. rec.verdict = "refuted" => c \in gone
    BY <2>3, <2>4, <2>5 DEF LiveInv, Noted
  <2>7. check' = [check EXCEPT ![c] = rec]
    BY <1>2 DEF GetAnswered, PageOf
  <2> HIDE DEF rec
  <2> QED BY <1>0, <1>2, <2>4, <2>5, <2>6, <2>7, CheckStep DEF GetAnswered
<1>3. CASE GetFails(c)
  <2>1. CASE check' = [check EXCEPT ![c] = Ended("unreachable")]
    <3>1. Ended("unreachable") \in CheckRecords /\ Ended("unreachable").at = "done"
          /\ Ended("unreachable").verdict # "refuted"
      BY RecordFacts DEF Verdicts
    <3> QED BY <1>0, <1>3, <2>1, <3>1, CheckStep DEF GetFails
  <2>2. CASE /\ check[c].tries + 1 < MaxAttempts
             /\ check' = [check EXCEPT ![c].at = "backoff", ![c].tries = @ + 1]
    <3> DEFINE rec == [check[c] EXCEPT !.at = "backoff", !.tries = @ + 1]
    <3>1. rec \in CheckRecords /\ rec.verdict = check[c].verdict
      BY <1>0, <2>2 DEF CheckRecords
    <3>2. check' = [check EXCEPT ![c] = rec] /\ Running(c)
      BY <1>0, <1>3, <2>2 DEF GetFails, Running, CheckRecords
    <3>3. rec.verdict = "refuted" => c \in gone
      BY <3>1 DEF LiveInv, Noted
    <3> HIDE DEF rec
    <3> QED BY <1>0, <1>3, <3>1, <3>2, <3>3, CheckStep DEF GetFails
  <2> QED BY <1>3, <2>1, <2>2 DEF GetFails
<1>4. CASE BackoffEnds(c)
  <2> DEFINE rec == [check[c] EXCEPT !.at = "queued"]
  <2>1. rec \in CheckRecords /\ rec.verdict = check[c].verdict
    BY <1>0 DEF CheckRecords
  <2>2. check' = [check EXCEPT ![c] = rec] /\ Running(c)
    BY <1>0, <1>4 DEF BackoffEnds, Running, CheckRecords
  <2>3. rec.verdict = "refuted" => c \in gone
    BY <2>1 DEF LiveInv, Noted
  <2> HIDE DEF rec
  <2> QED BY <1>0, <1>4, <2>1, <2>2, <2>3, CheckStep DEF BackoffEnds
<1>5. CASE CheckRaises(c)
  <2>1. Ended("none") \in CheckRecords /\ Ended("none").at = "done"
        /\ Ended("none").verdict # "refuted"
    BY RecordFacts DEF Verdicts
  <2>2. fix' = fix \/ \E r \in Requests : fix' = [fix EXCEPT ![r] = "raised"]
    BY <1>5 DEF CheckRaises, Checks
  <2>3. node' \in {"idle", "running", "done", "failed"}
    BY <1>0, <1>5 DEF CheckRaises
  <2> QED BY <1>0, <1>5, <2>1, <2>2, <2>3, CheckStep DEF CheckRaises
<1> QED BY <1>1, <1>2, <1>3, <1>4, <1>5 DEF FetchStep

LEMMA BeginStep ==
  ASSUME LiveInv, NEW r \in Requests, BeginVerifyFix(r)
  PROVE  LiveInv'
<1>0. r \in Checks /\ r \notin Findings /\ FindingOf(r) = Target[r] /\ Target[r] \in Findings
  BY DEF Checks, FindingOf
<1>1. CASE Target[r] \in cooling
  <2>1. fix' = [fix EXCEPT ![r] = "refused"] /\ UNCHANGED <<page, changes, node, check, gone, cooling>>
    BY <1>1 DEF BeginVerifyFix
  <2> QED BY <2>1 DEF LiveInv, PagesTyped, LiveTypeOK, Noted, Running, PageOf, FixesNoted
<1>2. CASE Target[r] \notin cooling
  <2>1. PICK rec \in {Ended("tool_attested"), Ended("unreachable"), Queued} :
          check' = [check EXCEPT ![r] = rec]
    BY <1>2 DEF BeginVerifyFix
  <2>2. rec \in CheckRecords /\ rec.verdict # "refuted"
    BY RecordFacts DEF Verdicts
  <2>3. /\ fix' = [fix EXCEPT ![r] = "checking"]
        /\ gone' = gone \cup {c \in {r} : Absent(c, page[Url[Target[r]]])}
        /\ UNCHANGED <<page, changes, node, cooling>>
    BY <1>2 DEF BeginVerifyFix
  <2>4. Absent(r, PageOf(r)) => r \in gone'
    BY <1>0, <2>3 DEF PageOf
  <2>5. gone \subseteq gone' /\ gone' \subseteq Checks /\ node \in {"idle", "running", "done", "failed"}
    BY <1>0, <2>3 DEF LiveInv, LiveTypeOK
  <2> QED BY <1>0, <2>1, <2>2, <2>3, <2>4, <2>5, CheckStep
<1> QED BY <1>1, <1>2

LEMMA StartStep ==
  ASSUME LiveInv, StartVerification
  PROVE  LiveInv'
<1>1. check' = [c \in Checks |-> IF c \in Findings THEN Started(c) ELSE check[c]]
  BY DEF StartVerification
<1>2. /\ gone' = gone \cup {f \in Findings : Absent(f, page[Url[f]])}
      /\ UNCHANGED <<page, changes, fix, cooling>> /\ node' = "running"
  BY DEF StartVerification
<1>3. \A f \in Findings : Started(f) \in CheckRecords /\ Started(f).verdict # "refuted"
  BY StartFacts, RecordFacts DEF Verdicts
<1>4. check' \in [Checks -> CheckRecords]
  BY <1>1, <1>3 DEF LiveInv, LiveTypeOK, CheckRecords
<1>5. gone' \subseteq Checks
  BY <1>2 DEF LiveInv, LiveTypeOK, Checks
<1>6. LiveTypeOK' /\ PagesTyped' /\ FixesNoted'
  BY <1>2, <1>4, <1>5 DEF LiveInv, LiveTypeOK, PagesTyped, FixesNoted, CheckRecords
<1>7. ASSUME NEW c \in Checks PROVE Noted(c)'
  <2>1. CASE c \in Findings
    BY <1>1, <1>2, <1>3, <2>1, FindingOfFacts DEF Noted, PageOf
  <2>2. CASE c \notin Findings
    BY <1>1, <1>2, <2>2 DEF LiveInv, Noted, Running, PageOf
  <2> QED BY <2>1, <2>2
<1> QED BY <1>6, <1>7 DEF LiveInv

LEMMA RecordStep ==
  ASSUME LiveInv, NEW r \in Requests, RecordFix(r)
  PROVE  LiveInv'
<1>1. /\ fix' = [fix EXCEPT ![r] = FixResult(check[r].verdict)]
      /\ cooling' = cooling \cup {Target[r]}
      /\ UNCHANGED <<page, changes, node, check, gone>>
  BY DEF RecordFix
<1>2. FixResult(check[r].verdict) = "fixed" => r \in gone
  BY DEF FixResult, LiveInv, Noted, Checks
<1>3. FixResult(check[r].verdict) \in {"fixed", "still_present", "changed"}
  BY DEF FixResult
<1>4. FixesNoted'
  BY <1>1, <1>2 DEF LiveInv, FixesNoted, LiveTypeOK
<1>5. LiveTypeOK' /\ PagesTyped'
  BY <1>1, <1>3 DEF LiveInv, LiveTypeOK, PagesTyped
<1>6. \A c \in Checks : Noted(c)'
  BY <1>1 DEF LiveInv, Noted, Running, PageOf
<1> QED BY <1>4, <1>5, <1>6 DEF LiveInv

LEMMA PageStep ==
  ASSUME LiveInv, PageChanges
  PROVE  LiveInv'
<1>1. PICK u \in Urls : \E p \in Pages(u) :
        /\ page' = [page EXCEPT ![u] = p]
        /\ gone' = gone \cup {c \in Checks : /\ Running(c) /\ Url[FindingOf(c)] = u
                                             /\ Absent(c, p)}
  BY DEF PageChanges
<1>2. PICK p \in Pages(u) :
        /\ page' = [page EXCEPT ![u] = p]
        /\ gone' = gone \cup {c \in Checks : /\ Running(c) /\ Url[FindingOf(c)] = u
                                             /\ Absent(c, p)}
  BY <1>1
<1>3. UNCHANGED <<node, check, fix, cooling>> /\ changes' = changes + 1 /\ changes < MaxChanges
  BY DEF PageChanges
<1>4. PagesTyped' /\ page'[u] = p /\ \A v \in Urls \ {u} : page'[v] = page[v]
  BY <1>2 DEF LiveInv, PagesTyped
<1>5. LiveTypeOK'
  BY <1>2, <1>3, <1>4 DEF LiveInv, LiveTypeOK
<1>6. ASSUME NEW c \in Checks PROVE Noted(c)'
  <2>1. Running(c)' <=> Running(c)
    BY <1>3 DEF Running
  <2>2. CASE Url[FindingOf(c)] = u
    BY <1>2, <1>3, <1>4, <2>1, <2>2 DEF LiveInv, Noted, PageOf
  <2>3. CASE Url[FindingOf(c)] # u
    <3>1. PageOf(c)' = PageOf(c)
      BY <1>4, <2>3, FindingOfFacts DEF PageOf
    <3> QED BY <1>2, <1>3, <2>1, <3>1 DEF LiveInv, Noted, Absent
  <2> QED BY <2>2, <2>3
<1>7. FixesNoted'
  BY <1>2, <1>3 DEF LiveInv, FixesNoted
<1> QED BY <1>4, <1>5, <1>6, <1>7 DEF LiveInv

\* The node's end, the end of a cooldown, and steps of nobody.
LEMMA QuietStep ==
  ASSUME LiveInv, VerificationEnds \/ CooldownEnds \/ UNCHANGED liveVars
  PROVE  LiveInv'
<1>1. /\ UNCHANGED <<page, changes, check, gone, fix>>
      /\ cooling' \in {cooling, {}} /\ node' \in {node, "done"}
  BY DEF VerificationEnds, CooldownEnds, liveVars
<1>2. LiveTypeOK' /\ PagesTyped' /\ FixesNoted'
  BY <1>1 DEF LiveInv, LiveTypeOK, PagesTyped, FixesNoted
<1>3. \A c \in Checks : Noted(c)'
  BY <1>1 DEF LiveInv, Noted, Running, PageOf
<1> QED BY <1>2, <1>3 DEF LiveInv

-----------------------------------------------------------------------------

LEMMA LiveInvariance == LiveSpec => []LiveInv
<1>1. LiveInit => LiveInv
  <2> SUFFICES ASSUME LiveInit PROVE LiveInv
    OBVIOUS
  <2>1. NoCheck \in CheckRecords
    BY DEF NoCheck, CheckRecords, Verdicts
  <2>2. LiveTypeOK /\ PagesTyped /\ FixesNoted
    BY <2>1 DEF LiveInit, LiveTypeOK, PagesTyped, FixesNoted, CheckRecords
  <2>3. \A c \in Checks : Noted(c)
    BY DEF LiveInit, NoCheck, Noted, Running
  <2> QED BY <2>2, <2>3 DEF LiveInv
<1>2. LiveInv /\ [LiveNext]_liveVars => LiveInv'
  BY FetchSteps, BeginStep, StartStep, RecordStep, PageStep, QuietStep DEF LiveNext
<1> QED BY <1>1, <1>2, PTL DEF LiveSpec

\* Every reachable state of the checks and requests is well typed; attempts
\* stay below tool_retry_attempts (run_with_retries).
THEOREM LiveTypeCorrect == LiveSpec => []LiveTypeOK
<1>1. LiveInv => LiveTypeOK
  BY DEF LiveInv
<1> QED BY <1>1, LiveInvariance, PTL

\* Whatever the site does and however checks and requests interleave, nothing
\* is called refuted or fixed that was not seen gone (_verify_one,
\* map_verifier_to_fix_result).
THEOREM OnlyGoneIsFixed == LiveSpec => []FixedMeansGone
<1>1. LiveInv => FixedMeansGone
  BY DEF LiveInv, Noted, FixesNoted, FixedMeansGone, Checks
<1> QED BY <1>1, LiveInvariance, PTL

=============================================================================
