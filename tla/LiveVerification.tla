-------------------------- MODULE LiveVerification --------------------------
(***************************************************************************)
(* Re-testing findings on the live site: the verification node of a scan   *)
(* (ActiveVerifier in backend/agents/verification.py) and the customer's   *)
(* Verify Fix (backend/core/verify_fix.py, POST .../verify-fix).           *)
(*                                                                         *)
(* A check re-tests one finding.  The checks of a scan share a verifier    *)
(* and its semaphore; a Verify Fix has a verifier of its own.  The site    *)
(* changes meanwhile, answers with an error page, or not at all.           *)
(***************************************************************************)
EXTENDS Naturals, FiniteSets

CONSTANTS
  Findings,     \* what the scan found, in the order of its state: 1..n
  Url,          \* the URL of each finding
  Retest,       \* how it is re-tested: "attested" by its tool, by a "rule"
                \* that looks for its condition, or "none"
  Unsafe,       \* URLs the SSRF check refuses
  Requests,     \* Verify Fix requests
  Target,       \* the finding each of them names
  MaxAttempts,  \* tool_retry_attempts
  Concurrency,  \* verification_max_concurrency
  MaxUrls,      \* verification_max_urls
  MaxChanges    \* bound: how often the site changes

ASSUME FindingsAssumption == IsFiniteSet(Findings) /\ Findings = 1..Cardinality(Findings)
ASSUME RequestsAssumption == Requests \cap Findings = {} /\ Target \in [Requests -> Findings]
ASSUME RetestAssumption == Retest \in [Findings -> {"attested", "rule", "none"}]
ASSUME VerifierLimits ==
  MaxAttempts \in Nat \ {0} /\ Concurrency \in Nat \ {0} /\ MaxUrls \in Nat /\ MaxChanges \in Nat

VARIABLES
  page,      \* what each URL answers: "ok" with the conditions on it, "error"
             \* with a page for errors, or, being "down", nothing
  changes,
  node,      \* the scan's verification node
  check,     \* every check, of a finding by the scan or of a request
  gone,      \* history: the check's condition was absent since it began
  fix,       \* each Verify Fix: "idle", "checking", its result, or why none
  cooling    \* findings with a Verify Fix recorded within the cooldown

liveVars == <<page, changes, node, check, gone, fix, cooling>>

Checks == Findings \cup Requests

FindingOf(c) == IF c \in Requests THEN Target[c] ELSE c

Urls == {Url[f] : f \in Findings}

On(u) == {f \in Findings : Url[f] = u}

Pages(u) == [answers: {"ok"}, with: SUBSET On(u)] \cup [answers: {"error", "down"}, with: {{}}]

NoCheck == [at |-> "none", tries |-> 0, verdict |-> "none"]

LiveInit ==
  /\ page \in [Urls -> UNION {Pages(u) : u \in Urls}]
  /\ \A u \in Urls : page[u] \in Pages(u)
  /\ changes = 0
  /\ node = "idle"
  /\ check = [c \in Checks |-> NoCheck]
  /\ gone = {}
  /\ fix = [r \in Requests |-> "idle"]
  /\ cooling = {}

-----------------------------------------------------------------------------

Absent(c, p) == p.answers = "ok" /\ FindingOf(c) \notin p.with

\* Mutant: an error page is inspected like any other.
Verdict_AnyStatus(c, p) ==
  IF Retest[FindingOf(c)] = "none" THEN "tool_attested"
  ELSE IF FindingOf(c) \in p.with THEN "confirmed" ELSE "refuted"

\* _verify_one on a response; what "rule" does for the headers is HeaderRules.
Verdict(c, p) ==
  IF p.answers = "error" THEN "unreachable"
  ELSE IF Retest[FindingOf(c)] = "none" THEN "tool_attested"
  ELSE IF FindingOf(c) \in p.with THEN "confirmed" ELSE "refuted"

Ended(verdict) == [at |-> "done", tries |-> 0, verdict |-> verdict]

Queued == [at |-> "queued", tries |-> 0, verdict |-> "none"]

\* gather starts all checks before any of them gets an answer, so the cache
\* that the limit of URLs counts holds only what was refused by then.
Refused(f) ==
  LET refused == {Url[g] : g \in {h \in 1..(f - 1) : Retest[h] # "attested"}} \cap Unsafe
  IN  Url[f] \in Unsafe \/ Cardinality(refused) >= MaxUrls

Started(f) ==
  IF Retest[f] = "attested" THEN Ended("tool_attested")
  ELSE IF Refused(f) THEN Ended("unreachable") ELSE Queued

StartVerification ==
  /\ node = "idle"
  /\ node' = "running"
  /\ check' = [c \in Checks |-> IF c \in Findings THEN Started(c) ELSE check[c]]
  /\ gone' = gone \cup {f \in Findings : Absent(f, page[Url[f]])}
  /\ UNCHANGED <<page, changes, fix, cooling>>

\* The request passes the cooldown; another may have passed it before it and
\* not been recorded yet.
BeginVerifyFix(r) ==
  /\ fix[r] = "idle"
  /\ LET f == Target[r] IN
     IF f \in cooling
     THEN fix' = [fix EXCEPT ![r] = "refused"] /\ UNCHANGED <<check, gone>>
     ELSE /\ fix' = [fix EXCEPT ![r] = "checking"]
          /\ check' = [check EXCEPT ![r] =
               IF Retest[f] = "attested" THEN Ended("tool_attested")
               ELSE IF Url[f] \in Unsafe \/ MaxUrls = 0 THEN Ended("unreachable") ELSE Queued]
          /\ gone' = gone \cup {c \in {r} : Absent(c, page[Url[f]])}
  /\ UNCHANGED <<page, changes, node, cooling>>

-----------------------------------------------------------------------------
(* Fetching.                                                               *)

Verifier(c) == IF c \in Findings THEN Findings ELSE {c}

Getting(V) == {c \in V : check[c].at = "getting"}

AcquireFetch(c) ==
  /\ check[c].at = "queued"
  /\ Cardinality(Getting(Verifier(c))) < Concurrency
  /\ check' = [check EXCEPT ![c].at = "getting"]
  /\ UNCHANGED <<page, changes, node, gone, fix, cooling>>

GetAnswered(c) ==
  LET u == Url[FindingOf(c)]
  IN  /\ check[c].at = "getting" /\ page[u].answers # "down"
      /\ check' = [check EXCEPT ![c] = Ended(Verdict(c, page[u]))]
      /\ UNCHANGED <<page, changes, node, gone, fix, cooling>>

\* Mutant: the attempts are not counted.
GetFails_Uncounted(c) ==
  /\ check[c].at = "getting"
  /\ check' = [check EXCEPT ![c].at = "backoff"]
  /\ UNCHANGED <<page, changes, node, gone, fix, cooling>>

\* A timeout or a lost connection is retried, another error is not; the
\* semaphore is free while the next attempt waits.
GetFails(c) ==
  /\ check[c].at = "getting"
  /\ \/ /\ check[c].tries + 1 < MaxAttempts
        /\ check' = [check EXCEPT ![c].at = "backoff", ![c].tries = @ + 1]
     \/ check' = [check EXCEPT ![c] = Ended("unreachable")]
  /\ UNCHANGED <<page, changes, node, gone, fix, cooling>>

BackoffEnds(c) ==
  /\ check[c].at = "backoff"
  /\ check' = [check EXCEPT ![c].at = "queued"]
  /\ UNCHANGED <<page, changes, node, gone, fix, cooling>>

\* An exception that is neither an httpx.HTTPError nor an SSRFError ends the
\* node, or the request with status 500, without a result; the other checks
\* of a scan run on and nobody reads them.
CheckRaises(c) ==
  /\ check[c].at = "getting"
  /\ check' = [check EXCEPT ![c] = Ended("none")]
  /\ IF c \in Findings
     THEN node' = "failed" /\ UNCHANGED fix
     ELSE fix' = [fix EXCEPT ![c] = "raised"] /\ UNCHANGED node
  /\ UNCHANGED <<page, changes, gone, cooling>>

-----------------------------------------------------------------------------

VerificationEnds ==
  /\ node = "running"
  /\ \A f \in Findings : check[f].at = "done"
  /\ node' = "done"
  /\ UNCHANGED <<page, changes, check, gone, fix, cooling>>

FixResult(verdict) ==
  CASE verdict = "refuted"   -> "fixed"
    [] verdict = "confirmed" -> "still_present"
    [] OTHER                 -> "changed"

\* After the client is closed, another await.
RecordFix(r) ==
  /\ fix[r] = "checking" /\ check[r].at = "done"
  /\ fix' = [fix EXCEPT ![r] = FixResult(check[r].verdict)]
  /\ cooling' = cooling \cup {Target[r]}
  /\ UNCHANGED <<page, changes, node, check, gone>>

CooldownEnds ==
  /\ cooling # {}
  /\ cooling' = {}
  /\ UNCHANGED <<page, changes, node, check, gone, fix>>

Running(c) == check[c].at \in {"queued", "getting", "backoff"}

PageChanges ==
  /\ changes < MaxChanges
  /\ changes' = changes + 1
  /\ \E u \in Urls : \E p \in Pages(u) :
       /\ page' = [page EXCEPT ![u] = p]
       /\ gone' = gone \cup {c \in Checks : /\ Running(c) /\ Url[FindingOf(c)] = u
                                            /\ Absent(c, p)}
  /\ UNCHANGED <<node, check, fix, cooling>>

FetchStep(c) == AcquireFetch(c) \/ GetAnswered(c) \/ GetFails(c) \/ BackoffEnds(c)

LiveNext ==
  \/ StartVerification \/ VerificationEnds
  \/ \E r \in Requests : BeginVerifyFix(r) \/ RecordFix(r)
  \/ \E c \in Checks : FetchStep(c) \/ CheckRaises(c)
  \/ CooldownEnds \/ PageChanges

LiveSpec == LiveInit /\ [][LiveNext]_liveVars

\* The HTTP client answers or gives up, sleeps end, and a coroutine that can
\* go on is resumed.
LiveFairness ==
  /\ \A c \in Checks : WF_liveVars(FetchStep(c))
  /\ WF_liveVars(VerificationEnds)
  /\ \A r \in Requests : WF_liveVars(RecordFix(r))

-----------------------------------------------------------------------------

Verdicts == {"none", "confirmed", "refuted", "tool_attested", "unreachable"}

LiveTypeOK ==
  /\ \A u \in Urls : page[u] \in Pages(u)
  /\ changes \in 0..MaxChanges
  /\ node \in {"idle", "running", "done", "failed"}
  /\ check \in [Checks -> [at: {"none", "queued", "getting", "backoff", "done"},
                           tries: 0..(MaxAttempts - 1), verdict: Verdicts]]
  /\ gone \subseteq Checks
  /\ fix \in [Requests -> {"idle", "checking", "refused", "raised", "fixed",
                           "still_present", "changed"}]
  /\ cooling \subseteq Findings

\* A finding is called a likely false positive, and a fix is called done, only
\* if the site really served the page without the condition at some moment
\* since the check began: neither an error page, nor a site that is down, nor
\* attempts used up while the page changed back and forth count as a fix.
FixedMeansGone ==
  /\ \A f \in Findings : check[f].verdict = "refuted" => f \in gone
  /\ \A r \in Requests : fix[r] = "fixed" => r \in gone

\* Every verification and every Verify Fix comes to an end, whatever the site
\* does: attempts are limited and a failed one frees its place.
EveryCheckEnds ==
  /\ node = "running" ~> node # "running"
  /\ \A r \in Requests : fix[r] = "checking" ~> fix[r] # "checking"
=============================================================================
