--------------------------- MODULE FindingsReport ---------------------------
(***************************************************************************)
(* What becomes of the findings of one scan between its tools and the      *)
(* customer: detection merges them, verification judges them, scoring      *)
(* gives them severity, identity and weight, the AI synthesis writes about *)
(* them, reporting collapses and truncates them (backend/agents:           *)
(* detection, scoring, ai_synthesis, reporting; core/llm_providers).       *)
(*                                                                         *)
(* The nodes run one after the other, see ScanPipeline for their crashes;  *)
(* what is hard is that they rely on each other's order and identities.    *)
(* A score is in tenths, a weight in halves, a confidence in hundredths.   *)
(***************************************************************************)
EXTENDS Integers, FiniteSets, SequencesExt

CONSTANTS
  Raw,            \* what a tool can report
  MaxRaw,         \* bound: findings the passive, and the active, tools report
  LlmSettings,    \* deployments: the LLM providers with a key, in the order
                  \* they are tried, and ai_synthesis_max_llm_calls
  Ghost,          \* an id of no finding
  MaxRendered,    \* report_max_findings
  MaxPriorities,  \* how many findings the executive summary names
  Disabled        \* the verdict of a scan whose verification is disabled

VARIABLES
  llm,       \* the deployment's LLM settings
  stage,     \* the next node
  planned,   \* the tools the reviewer was asked about
  module,    \* history: what became of each detection module
  meta,      \* detection_metadata
  findings,
  unscored,  \* history: the findings as verification left them
  coverage,  \* scan_coverage
  synthesis, \* ai_synthesis
  report

reportVars == <<llm, stage, planned, module, meta, findings, unscored, coverage, synthesis, report>>

Passive == {"nuclei", "testssl", "retirejs", "header-checks"}
Active == {"zap", "sqlmap"}

\* gather returns the results in the order the tools were queued.
ModuleOrder == [m \in Passive \cup Active |->
  CASE m = "nuclei" -> 1 [] m = "testssl" -> 2 [] m = "retirejs" -> 3
    [] m = "header-checks" -> 4 [] m = "zap" -> 5 [] m = "sqlmap" -> 6]

SeverityRank == [s \in {"info", "low", "medium", "high", "critical"} |->
  CASE s = "info" -> 0 [] s = "low" -> 1 [] s = "medium" -> 2 [] s = "high" -> 3
    [] s = "critical" -> 4]

NoScore == -1

\* A finding as its tool reports it, before anything judges it.
RawFinding == [tool: Passive \cup Active, type: STRING, url: STRING,
               severity: DOMAIN SeverityRank, native: {NoScore} \cup 0..100,
               verdict: {"none"}, score: {NoScore}, id: {<<>>}]

ASSUME RawAssumption == Raw \subseteq RawFinding /\ MaxRaw \in Nat
ASSUME LlmAssumption == LlmSettings \subseteq [providers: Seq(STRING \ {"none"}), calls: Nat]
ASSUME RenderedAssumption == MaxRendered \in Nat /\ MaxPriorities \in Nat
ASSUME DisabledAssumption ==
  Disabled \notin {"confirmed", "tool_attested", "refuted", "unreachable"}

NoCoverage == [run |-> {}, failed |-> {}, notApplicable |-> {}, rejected |-> {}]

NoSynthesis == [status |-> "none", source |-> "none", cited |-> {}, calls |-> 0,
                graded |-> FALSE, provider |-> "none"]

ReportInit ==
  /\ llm \in LlmSettings
  /\ stage = "passive"
  /\ planned \in {Active, {}}     \* {}: the firecrawl profile plans nothing
  /\ module = [m \in Passive \cup Active |-> "not asked"]
  /\ meta = [errors |-> {}, notApplicable |-> {}, executed |-> {}, rejected |-> {}]
  /\ findings = <<>> /\ unscored = <<>>
  /\ coverage = NoCoverage
  /\ synthesis = NoSynthesis
  /\ report = [groups |-> <<>>, rows |-> <<>>]

-----------------------------------------------------------------------------
(* Detection.                                                              *)

\* Results of these tools, in order; a tool that failed may have found some.
Results(tools) ==
  {s \in UNION {[1..n -> {r \in Raw : r.tool \in tools}] : n \in 0..MaxRaw} :
     \A i, j \in DOMAIN s : i < j => ModuleOrder[s[i].tool] <= ModuleOrder[s[j].tool]}

\* Mutant: findings of different tools are different findings.
SameFinding_PerTool(f, g) == f.url = g.url /\ f.type = g.type /\ f.tool = g.tool

SameFinding(f, g) == f.url = g.url /\ f.type = g.type

\* One more finding: at the place of the one with its URL and type, if it is
\* more severe; at the end, if there is none.
Keep(seen, f) ==
  LET places == {i \in DOMAIN seen : SameFinding(seen[i], f)}
      i == CHOOSE i \in places : TRUE
  IN  CASE places = {} -> Append(seen, f)
        [] places # {} /\ SeverityRank[f.severity] > SeverityRank[seen[i].severity] ->
             [seen EXCEPT ![i] = f]
        [] OTHER -> seen

\* deduplicate_findings.
Deduplicate(s) == FoldLeft(Keep, <<>>, s)

Reports(m, failed, notApplicable) ==
  CASE m \in failed -> "failed" [] m \in notApplicable -> "not applicable" [] OTHER -> "ran"

\* retirejs is not run when recon found no script.
PassiveDetection ==
  /\ stage = "passive" /\ stage' = "active"
  /\ \E notApplicable \in SUBSET {"retirejs"} :
       \E failed \in SUBSET (Passive \ notApplicable) :
       \E raw \in Results(Passive \ notApplicable) :
         /\ findings' = Deduplicate(raw)
         /\ meta' = [meta EXCEPT !.errors = failed, !.notApplicable = notApplicable]
         /\ module' = [m \in DOMAIN module |->
              IF m \in Passive THEN Reports(m, failed, notApplicable) ELSE module[m]]
  /\ UNCHANGED <<llm, planned, unscored, coverage, synthesis, report>>

\* _resolve_active_tool_selection: without a plan, both tools were planned.
PlannedOrDefault == IF planned = {} THEN Active ELSE planned

\* sqlmap has nothing to test when recon found no URL with parameters.
ActiveDetection ==
  /\ stage = "active" /\ stage' = "verify"
  /\ \E approved \in SUBSET planned :
     \E notApplicable \in SUBSET (approved \cap {"sqlmap"}) :
     \E failed \in SUBSET (approved \ notApplicable) :
     \E raw \in Results(approved \ notApplicable) :
       /\ findings' = IF approved = {} THEN findings ELSE Deduplicate(findings \o raw)
       /\ meta' = [errors |-> meta.errors \cup failed,
                   notApplicable |-> meta.notApplicable \cup notApplicable,
                   executed |-> approved \ (failed \cup notApplicable),
                   rejected |-> PlannedOrDefault \ approved]
       /\ module' = [m \in DOMAIN module |->
            CASE m \in approved              -> Reports(m, failed, notApplicable)
              [] m \in planned \ approved    -> "rejected"
              [] OTHER                       -> module[m]]
  /\ UNCHANGED <<llm, planned, unscored, coverage, synthesis, report>>

\* Any verdicts (LiveVerification says which are right); none when disabled.
Verification ==
  /\ stage = "verify" /\ stage' = "score"
  /\ \E verdict \in [DOMAIN findings -> {"confirmed", "tool_attested", "refuted", "unreachable"}]
                      \cup {[i \in DOMAIN findings |-> Disabled]} :
       findings' = [i \in DOMAIN findings |-> [findings[i] EXCEPT !.verdict = verdict[i]]]
  /\ unscored' = findings'
  /\ UNCHANGED <<llm, planned, module, meta, coverage, synthesis, report>>

-----------------------------------------------------------------------------
(* Scoring.                                                                *)

Confidence(f) ==
  CASE f.verdict = "confirmed"     -> 99
    [] f.verdict = "tool_attested" -> 95
    [] f.verdict = "unreachable"   -> 50
    [] f.verdict = "refuted"       -> 10
    [] f.verdict = Disabled        -> 100

LikelyFalsePositive(f) == f.verdict = "refuted"

TypicalScore == [s \in DOMAIN SeverityRank |->
  CASE s = "info" -> 10 [] s = "low" -> 30 [] s = "medium" -> 55 [] s = "high" -> 80
    [] s = "critical" -> 95]

SeverityFromScore(n) ==
  CASE n >= 90      -> "critical"
    [] n \in 70..89 -> "high"
    [] n \in 40..69 -> "medium"
    [] n \in 10..39 -> "low"
    [] OTHER        -> "info"

\* The declared severity stands unless the tool's own score says more; "info"
\* gives way to any score.
Graded(f) ==
  IF \/ f.native = NoScore
     \/ /\ f.severity # "info"
        /\ SeverityRank[f.severity] > SeverityRank[SeverityFromScore(f.native)]
  THEN [severity |-> f.severity, score |-> TypicalScore[f.severity]]
  ELSE [severity |-> SeverityFromScore(f.native), score |-> f.native]

\* finding_identity, also what scoring assigns: the tool, and the finding's
\* place in the list.
Identity(s, i) == <<s[i].tool, i>>

\* Python's sort is stable, in reverse order too.
SortBy(s, Before(_, _)) ==
  LET Place(i) == Cardinality({j \in DOMAIN s : \/ Before(s[j], s[i])
                                                \/ j <= i /\ ~Before(s[i], s[j])})
  IN  [k \in DOMAIN s |-> s[CHOOSE i \in DOMAIN s : Place(i) = k]]

\* A set of places, in their order.
InOrder(I) ==
  [k \in 1..Cardinality(I) |-> CHOOSE i \in I : Cardinality({j \in I : j <= i}) = k]

Worse(f, g) ==
  \/ SeverityRank[f.severity] > SeverityRank[g.severity]
  \/ f.severity = g.severity /\ f.score > g.score

Scores(f) == [f EXCEPT !.severity = Graded(f).severity, !.score = Graded(f).score]

\* Mutant: identities are assigned after the sort.
Scored_NumberedLate(s) ==
  LET sorted == SortBy([i \in DOMAIN s |-> Scores(s[i])], Worse)
  IN  [i \in DOMAIN s |-> [sorted[i] EXCEPT !.id = Identity(sorted, i)]]

\* Mutant: the list is sorted the other way around.
Scored_Ascending(s) ==
  SortBy([i \in DOMAIN s |-> [Scores(s[i]) EXCEPT !.id = Identity(s, i)]],
         LAMBDA f, g : Worse(g, f))

Scored(s) ==
  SortBy([i \in DOMAIN s |-> [Scores(s[i]) EXCEPT !.id = Identity(s, i)]], Worse)

RiskWeight == [s \in DOMAIN SeverityRank |->
  CASE s = "info" -> 1 [] s = "low" -> 2 [] s = "medium" -> 6 [] s = "high" -> 12
    [] s = "critical" -> 20]

Weighted(f) == RiskWeight[f.severity] * Confidence(f)

Total(s, Value(_)) == FoldLeft(LAMBDA sum, f : sum + Value(f), 0, s)

\* A fraction, of numerator and positive denominator.
AtMost(p, q) == p[1] * q[2] <= q[1] * p[2]

\* Mutant: the findings count as far as they are trusted.
OverallRisk_PerTrust(s, failed) ==
  LET weighted == IF s = <<>> THEN <<0, 1>>
                  ELSE <<Total(s, Weighted), 2 * Total(s, Confidence)>>
      floor == <<IF failed > 4 THEN 4 ELSE failed, 2>>
  IN  IF AtMost(weighted, floor) THEN floor ELSE weighted

\* The weighted mean of the findings, at least 0.5 for every failed module
\* up to 2; before it is rounded.
OverallRisk(s, failed) ==
  LET weighted == IF s = <<>> THEN <<0, 1>>
                  ELSE <<Total(s, Weighted), 200 * Len(s)>>
      floor == <<IF failed > 4 THEN 4 ELSE failed, 2>>
  IN  IF AtMost(weighted, floor) THEN floor ELSE weighted

\* Mutant: a failed module that was approved counts as run.
Covered_Approved(d) ==
  [run |-> (Passive \ (d.errors \cup d.notApplicable)) \cup (Active \ (d.rejected \cup d.notApplicable)),
   failed |-> d.errors, notApplicable |-> d.notApplicable, rejected |-> d.rejected]

Covered(d) ==
  [run |-> (Passive \ (d.errors \cup d.notApplicable)) \cup d.executed,
   failed |-> d.errors, notApplicable |-> d.notApplicable, rejected |-> d.rejected]

Scoring ==
  /\ stage = "score" /\ stage' = "synthesise"
  /\ findings' = Scored(findings)
  /\ coverage' = Covered(meta)
  /\ UNCHANGED <<llm, planned, module, meta, unscored, synthesis, report>>

-----------------------------------------------------------------------------
(* AI synthesis.                                                           *)

\* call_with_fallback: the first provider that answers.
CallWithFallback(answering) ==
  LET answers == {i \in DOMAIN llm.providers : llm.providers[i] \in answering}
  IN  IF answers = {} THEN "none" ELSE llm.providers[Min(answers)]

\* Mutant: every finding that was not refuted enters the prompt.
Eligible_NotRefuted == {i \in DOMAIN findings : ~LikelyFalsePositive(findings[i])}

\* filter_llm_eligible_findings: which findings enter the prompt.
Eligible == {i \in DOMAIN findings : findings[i].verdict \in {"confirmed", "tool_attested"}}

Ids(I) == {findings[i].id : i \in I}

Actionable(I) == {i \in I : findings[i].severity # "info"}

\* The deterministic template, which counts every finding as confirmed.
Template(status, calls, provider) ==
  [NoSynthesis EXCEPT !.status = status, !.source = "template", !.calls = calls,
                      !.provider = provider]

Synthesised(s) ==
  /\ synthesis' = s
  /\ UNCHANGED <<llm, planned, module, meta, findings, unscored, coverage, report>>

\* Without a key the summary is left out of the report.
SynthesisSkipped ==
  /\ llm.providers = <<>>
  /\ Synthesised([NoSynthesis EXCEPT !.status = "skipped"])

NothingToSay ==
  /\ llm.providers # <<>> /\ Actionable(Eligible) = {}
  /\ Synthesised([NoSynthesis EXCEPT !.status = "succeeded", !.source = "no risks"])

Asks == llm.providers # <<>> /\ Actionable(Eligible) # {}

NoBudget == Asks /\ llm.calls = 0 /\ Synthesised(Template("unavailable", 0, "none"))

NoAnswer == Asks /\ llm.calls > 0 /\ Synthesised(Template("unavailable", 1, CallWithFallback({})))

\* The ids of an answer are cited in a field for ids, or in the text behind
\* "finding", "id" or "finding_id".  An id that stands alone in the text is
\* cited only if it was in the prompt: an unknown or refuted one is not
\* recognised there, and an answer may hold any of them unseen.
Answer == [cited: SUBSET (Ids(DOMAIN findings) \cup {Ghost}), complete: BOOLEAN]

\* An answer that is no JSON object, lacks a part, or cites an id that was not
\* in the prompt is dropped as a whole.
Usable(answer) == answer.complete /\ answer.cited \subseteq Ids(Eligible)

\* Any of the providers may answer, each of the others raises an error: by
\* status, timeout, transport or a body without text.
SomeAnswer == (SUBSET ToSet(llm.providers)) \ {{}}

\* The grader is an LLM too: it does not answer, answers something else than
\* it was asked for, says yes or no, or puts its no into words.
Grades == {"none", "schema", "yes", "no", "words"}

\* bool(supported): words are a yes, whatever they say.
Supported(grade) == grade \in {"yes", "words"}

\* The grader is asked when a call is left; what does not count as its yes
\* drops the answer.
LlmAnswers ==
  /\ Asks /\ llm.calls > 0
  /\ \E answering \in SomeAnswer, answer \in Answer, grade \in Grades :
       LET provider == CallWithFallback(answering)
           kept == [status |-> "succeeded", source |-> "llm", cited |-> answer.cited,
                    calls |-> 1, graded |-> FALSE, provider |-> provider]
       IN  Synthesised(
             CASE ~Usable(answer) -> Template("unavailable", 1, provider)
               [] Usable(answer) /\ llm.calls = 1 -> kept
               [] Usable(answer) /\ llm.calls > 1 /\ Supported(grade) ->
                    [kept EXCEPT !.calls = 2, !.graded = TRUE]
               [] OTHER -> Template("unavailable", 2, provider))

\* _node_ai_synthesis catches everything.
SynthesisRaises == Synthesised([NoSynthesis EXCEPT !.status = "unavailable"])

Synthesis ==
  /\ stage = "synthesise" /\ stage' = "report"
  /\ \/ SynthesisSkipped \/ NothingToSay \/ NoBudget \/ NoAnswer \/ LlmAnswers
     \/ SynthesisRaises

-----------------------------------------------------------------------------
(* Reporting.                                                              *)

SameGroup(f, g) == f.type = g.type /\ f.tool = g.tool

\* _deduplicate_findings: one group for a type and tool, described by its
\* first finding.
Groups(s) ==
  LET firsts == InOrder({i \in DOMAIN s : \A j \in 1..(i - 1) : ~SameGroup(s[j], s[i])})
  IN  [k \in DOMAIN firsts |->
         LET instances == InOrder({i \in DOMAIN s : SameGroup(s[i], s[firsts[k]])})
         IN  [finding |-> s[firsts[k]],
              urls |-> [i \in DOMAIN instances |-> s[instances[i]].url]]]

GroupBefore(g, h) ==
  \/ SeverityRank[g.finding.severity] > SeverityRank[h.finding.severity]
  \/ g.finding.severity = h.finding.severity /\ Len(g.urls) > Len(h.urls)

\* Sorted only if there are too many.
TruncateGroups(s) ==
  IF Len(s) <= MaxRendered THEN s ELSE SubSeq(SortBy(s, GroupBefore), 1, MaxRendered)

TruncateFindings(s) ==
  IF Len(s) <= MaxRendered THEN s ELSE SubSeq(SortBy(s, Worse), 1, MaxRendered)

\* One row for every URL of a group, all described like its first finding.
RowsOf(group) ==
  [i \in DOMAIN group.urls |-> [group.finding EXCEPT !.url = group.urls[i]]]

Rows(groups) == FoldLeft(LAMBDA done, g : done \o RowsOf(g), <<>>, groups)

Reporting ==
  LET groups == TruncateGroups(Groups(findings))
  IN  /\ stage = "report" /\ stage' = "done"
      /\ report' = [groups |-> groups, rows |-> TruncateFindings(Rows(groups))]
      /\ UNCHANGED <<llm, planned, module, meta, findings, unscored, coverage, synthesis>>

MoreSevere(f, g) == SeverityRank[f.severity] > SeverityRank[g.severity]

\* _executive_summary: the first rows by severity, without notes and what
\* looks like a false positive.
Priorities(rows) ==
  LET bySeverity == SortBy(rows, MoreSevere)
      worthwhile == InOrder({k \in DOMAIN bySeverity : /\ bySeverity[k].severity # "info"
                                                       /\ ~LikelyFalsePositive(bySeverity[k])})
  IN  [k \in 1 .. (IF Len(worthwhile) < MaxPriorities THEN Len(worthwhile) ELSE MaxPriorities) |->
         bySeverity[worthwhile[k]]]

ReportNext ==
  PassiveDetection \/ ActiveDetection \/ Verification \/ Scoring \/ Synthesis \/ Reporting

ReportSpec == ReportInit /\ [][ReportNext]_reportVars

-----------------------------------------------------------------------------

ReportTypeOK ==
  /\ stage \in {"passive", "active", "verify", "score", "synthesise", "report", "done"}
  /\ meta.errors \cup meta.executed \cup meta.rejected \cup meta.notApplicable
       \subseteq Passive \cup Active
  /\ \A i, j \in DOMAIN findings :
       findings[i].url = findings[j].url /\ findings[i].type = findings[j].type => i = j
  /\ synthesis.calls \in 0..llm.calls
  /\ Len(report.rows) <= MaxRendered /\ Len(report.groups) <= MaxRendered

\* Truncation and collapsing never hide the worse behind the harmless: every
\* finding has its group in the report, at its own severity or above, unless
\* all the groups shown are at least as severe; the same of the rows; and the
\* priorities pass a finding over only for others at least as severe, or when
\* the finding that describes its group looks like a false positive.
ReportKeepsWorst ==
  stage = "done" =>
    \A i \in DOMAIN findings :
      LET f == findings[i]
          NoMilder(shown) == \A k \in DOMAIN shown :
            SeverityRank[shown[k].severity] >= SeverityRank[f.severity]
          Shows(shown) == \E k \in DOMAIN shown : SameGroup(shown[k], f)
          Kept(shown) ==
            /\ \A k \in DOMAIN shown : SameGroup(shown[k], f) =>
                 SeverityRank[shown[k].severity] >= SeverityRank[f.severity]
            /\ Shows(shown) \/ (Len(shown) = MaxRendered /\ NoMilder(shown))
          urgent == Priorities(report.rows)
          described == [k \in DOMAIN report.groups |-> report.groups[k].finding]
      IN  /\ Kept(described)
          /\ \/ \E k \in DOMAIN report.rows :
                  SameGroup(report.rows[k], f) /\ report.rows[k].url = f.url
             \/ NoMilder(report.rows)
          /\ \/ f.severity = "info"
             \/ Shows(urgent)
             \/ NoMilder(urgent) /\ (Len(urgent) = MaxPriorities \/ Len(report.rows) = MaxRendered)
             \/ \E k \in DOMAIN findings : /\ SameGroup(findings[k], f)
                                           /\ LikelyFalsePositive(findings[k])

\* Verify Fix takes the id of a row and looks it up in the list of findings:
\* the finding it re-tests is the one the row describes, by type, tool and,
\* unless the row was unfolded from a group, by URL.  And an id read before
\* scoring names the same finding after it.
IdsResolve ==
  /\ stage = "done" =>
       \A k \in DOMAIN report.rows :
         LET row == report.rows[k]
             matches == {i \in DOMAIN findings : findings[i].id = row.id}
         IN  /\ Cardinality(matches) = 1
             /\ \A i \in matches :
                  /\ SameGroup(findings[i], row)
                  /\ \/ findings[i].url = row.url
                     \/ \E j \in DOMAIN findings \ {i} : SameGroup(findings[j], row)
  /\ stage \in {"synthesise", "report", "done"} =>
       \A i \in DOMAIN unscored : \E j \in DOMAIN findings :
         /\ findings[j].id = Identity(unscored, i)
         /\ findings[j].url = unscored[i].url /\ findings[j].type = unscored[i].type

\* The coverage section says of every module what became of it, and of no
\* module two things; only a tool that nobody was asked about, in a profile
\* without active tests, is listed as rejected as well.
CoverageHonest ==
  stage \in {"synthesise", "report", "done"} =>
    \A m \in Passive \cup Active :
      /\ m \in coverage.run <=> module[m] = "ran"
      /\ m \in coverage.failed <=> module[m] = "failed"
      /\ m \in coverage.notApplicable <=> module[m] = "not applicable"
      /\ m \in coverage.rejected <=> module[m] \in {"rejected", "not asked"}

\* What the customer reads as written by the AI cites only findings that were
\* confirmed or attested, in its roadmap, its top risk and its text alike, where
\* it names them as ids; it passed the grader, whose words count as a yes, unless
\* the budget had no call left for it, and cost no more calls than allowed; "no
\* significant risks" is said only if no finding above a note was confirmed or
\* attested.  An unknown id that stands alone in the text is no citation.
SummaryGrounded ==
  /\ synthesis.source = "llm" =>
       /\ \A id \in synthesis.cited : \E i \in DOMAIN findings :
            findings[i].id = id /\ findings[i].verdict \in {"confirmed", "tool_attested"}
       /\ synthesis.graded \/ llm.calls = 1
       /\ synthesis.provider # "none"
  /\ synthesis.calls <= llm.calls
  /\ synthesis.source = "no risks" =>
       \A i \in DOMAIN findings : findings[i].severity # "info" =>
         findings[i].verdict \notin {"confirmed", "tool_attested"}

\* Verifying never makes a site look worse than not verifying, and to refute
\* one finding never raises the score: the confidence weighs a finding
\* against all of them, not against the confidence in the others.
RefutationNeverRaisesRisk ==
  stage = "synthesise" =>
    LET failed == Cardinality(coverage.failed)
        risk == OverallRisk(findings, failed)
        Judged(i, verdict) == [findings EXCEPT ![i].verdict = verdict]
        unverified == [i \in DOMAIN findings |-> [findings[i] EXCEPT !.verdict = Disabled]]
    IN  /\ AtMost(risk, OverallRisk(unverified, failed))
        /\ \A i \in DOMAIN findings : AtMost(OverallRisk(Judged(i, "refuted"), failed), risk)
=============================================================================
