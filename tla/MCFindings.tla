----------------------------- MODULE MCFindings -----------------------------
(***************************************************************************)
(* The life of a scan's findings for TLC, in slices: the rules of the      *)
(* headers on one response; the verification node of a scan; concurrent    *)
(* requests of Verify Fix; the shared ZAP daemon; the way of the findings  *)
(* to the report; and the bookkeeping of the modules, with few findings.   *)
(***************************************************************************)
EXTENDS HeaderRules, LiveVerification, ZapDaemon, FindingsReport

CONSTANTS fix1, fix2

VARIABLES slice, sample

-----------------------------------------------------------------------------
(* Rules: every value of every header, and those a rule combines together. *)

CspParts == {"self", "unsafe-inline", "unsafe-eval", "wildcard", "frame-ancestors"}

Responses ==
  {[Hardened EXCEPT !.csp = x.csp, !.xfo = x.xfo] :
     x \in [csp: SUBSET CspParts, xfo: {"", "deny", "sameorigin", "allow-from", "other"}]}
  \cup {[Hardened EXCEPT !.hsts = hsts] :
     hsts \in {NoHsts} \cup [sent: {TRUE}, age: {"none", "short", "long"}, sub: BOOLEAN,
                             preload: BOOLEAN]}
  \cup {[Hardened EXCEPT !.acao = x.acao, !.acac = x.acac, !.xcto = x.xcto] :
     x \in [acao: {"", "*", "null", "own", "echo"}, acac: BOOLEAN,
            xcto: {"", "nosniff", "other"}]}
  \cup {[Hardened EXCEPT !.server = x.server, !.poweredBy = x.poweredBy,
                         !.referrer = x.referrer] :
     x \in [server: {"", "name", "version"}, poweredBy: BOOLEAN,
            referrer: {"", "strict", "unsafe-url", "other"}]}
  \cup {[Hardened EXCEPT !.cookies = cookies] :
     cookies \in {S \in SUBSET Cookie : /\ Cardinality(S) <= Cardinality(CookieNames)
                                        /\ \A c, d \in S : c.name = d.name => c = d}}

\* One origin answers with the response, well or with an error; the other is
\* hardened or down.
Site(origin, answers, r, other) ==
  [o \in Origins |-> IF o = origin THEN [answers |-> answers, response |-> r]
                     ELSE [answers |-> other, response |-> Hardened]]

Crawled == [scheme: Origins, path: {"/", "/shop"}]

NoSample == [o \in Origins |-> [answers |-> "ok", response |-> Hardened]]

\* What header-checks reports is what the verifier confirms.  Of any finding
\* of an origin that answers, re-tested at the URL it is attributed to, it says
\* that it is still there exactly when the rule that reported it would report
\* it again, so nothing is refuted at once, and ZAP's alerts about the same
\* header get the same answer; a page of errors settles nothing; and the tool
\* counts as failed only if it has nothing to report.
RulesAgree ==
  slice = "rules" =>
    LET batch == RunBatch(Crawled, sample)
        At(o) == {f.of : f \in {g \in batch.findings : g.url = o}}
        r(o)  == sample[o].response
    IN  /\ ~batch.success => batch.findings = {}
        /\ \A f \in batch.findings : \A u \in f.seenAt : NormalizeOrigin(u) = f.url
        /\ \A o \in Origins : \A f \in HeaderFindings(o = "https") :
             \/ KnownDifference(o = "https", f, r(o))
             \/ ReTested(o, f, sample) = IF sample[o].answers # "ok" THEN "unreachable"
                                         ELSE IF f \in At(o) THEN "confirmed" ELSE "refuted"
        /\ \A o \in Origins : \A alert \in DOMAIN Counterparts :
             \/ sample[o].answers = "down"
             \/ o = "http" /\ alert = "zapHsts"
             \/ ZapDifference(alert, r(o))
             \/ ZapConfirms(alert, r(o)) = (\E f \in At(o) : f.type \in Counterparts[alert])

-----------------------------------------------------------------------------
(* Live verification: a page with two findings, one attested by its tool;  *)
(* a page whose finding has no re-test; a URL that must not be fetched.    *)

MCUrl == <<"a", "a", "b", "c">>

MCRetest == <<"rule", "attested", "none", "rule">>

MCTarget == [r \in {fix1, fix2} |-> 1]

-----------------------------------------------------------------------------
(* Reports.                                                                *)

RawOf(tool, type, urls, severities, natives) ==
  [tool: {tool}, type: {type}, url: urls, severity: severities, native: natives,
   verdict: {"none"}, score: {NoScore}, id: {<<>>}]

Full == [providers |-> <<"primary", "fallback">>, calls |-> 2]

MCLlmSettings ==
  {Full, [Full EXCEPT !.calls = 1], [Full EXCEPT !.calls = 0], [Full EXCEPT !.providers = <<>>]}

MCRaw ==
  RawOf("nuclei", "xss", {"a", "b"}, {"low", "high"}, {NoScore})
    \cup RawOf("zap", "xss", {"a"}, {"medium"}, {90})
    \cup RawOf("zap", "leak", {"b"}, {"info"}, {NoScore})

-----------------------------------------------------------------------------

findingsVars == <<liveVars, zapVars, reportVars, slice, sample>>

\* Each module has one initial state in the slices of the others.
MCInit ==
  /\ slice \in {"rules", "verify", "fix", "zap", "report", "modules"}
  /\ LiveInit /\ page["c"].answers = "down"
  /\ slice \notin {"verify", "fix"} => page["a"].answers = "down"
  /\ slice # "verify" => page["b"].answers = "down"
  /\ ZapInit
  /\ ReportInit
  /\ slice \notin {"report", "modules"} => planned = {} /\ llm = Full
  /\ IF slice = "rules"
     THEN \E origin \in Origins, answers \in {"ok", "error"}, r \in Responses, other \in {"ok", "down"} :
            sample = Site(origin, answers, r, other)
     ELSE sample = NoSample

\* The usual course: everything is approved, only ZAP may fail; few findings,
\* and an answer of the LLM that cites one of them.
Usual ==
  /\ Len(findings') + Cardinality(meta'.errors) <= (IF llm = Full THEN 3 ELSE 1)
  /\ Cardinality(synthesis'.cited) <= 1
  /\ planned = Active /\ meta'.errors \subseteq {"zap"} /\ meta'.rejected = {}
  /\ "retirejs" \in meta'.notApplicable
  /\ stage' # "active" => "sqlmap" \in meta'.notApplicable

MCNext ==
  /\ UNCHANGED <<slice, sample>>
  /\ \/ /\ slice \in {"verify", "fix"} /\ LiveNext /\ UNCHANGED <<zapVars, reportVars>>
        /\ page'["c"].answers = "down"
        /\ IF slice = "verify" THEN \A r \in Requests : fix'[r] = "idle"
           ELSE node' = "idle" /\ page'["b"].answers = "down"
     \/ slice = "zap" /\ ZapNext /\ UNCHANGED <<liveVars, reportVars>>
     \/ /\ slice \in {"report", "modules"} /\ ReportNext /\ UNCHANGED <<liveVars, zapVars>>
        /\ IF slice = "modules" THEN findings' = <<>> ELSE Usual

MCSpec ==
  /\ MCInit /\ [][MCNext]_findingsVars
  /\ LiveFairness /\ ZapFairness

TypeOK == LiveTypeOK /\ ZapTypeOK /\ ReportTypeOK
=============================================================================
