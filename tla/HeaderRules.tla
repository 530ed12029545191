---------------------------- MODULE HeaderRules ----------------------------
(***************************************************************************)
(* One response of a site, read by two components: header-checks reports   *)
(* what is wrong with it (backend/tools/header_checks.py), and the         *)
(* verifier, in the scan and in Verify Fix, re-tests each reported finding *)
(* by its type (backend/agents/verification.py).  Alerts of ZAP about the  *)
(* same headers are re-tested by rules of their own.                       *)
(*                                                                         *)
(* header-checks asks each origin of a host once, whatever was crawled     *)
(* there; here an origin is named by its scheme.  A response is what the   *)
(* two look at: csp is the set of what the policy contains, {} when there  *)
(* is none; "" stands for a header that is absent; cookies have distinct   *)
(* names, up to case.                                                      *)
(***************************************************************************)
EXTENDS FiniteSets

CONSTANT CookieNames

Cookie == [name: CookieNames, secure: BOOLEAN, httponly: BOOLEAN,
           samesite: {"", "lax", "none"}]

NoHsts == [sent |-> FALSE, age |-> "none", sub |-> FALSE, preload |-> FALSE]

\* A response with nothing to report.
Hardened ==
  [csp |-> {"self", "frame-ancestors"},
   hsts |-> [sent |-> TRUE, age |-> "long", sub |-> TRUE, preload |-> TRUE],
   xfo |-> "deny", xcto |-> "nosniff", acao |-> "", acac |-> FALSE,
   cookies |-> {}, server |-> "", poweredBy |-> FALSE, referrer |-> "strict"]

Type(b, t) == IF b THEN {t} ELSE {}

-----------------------------------------------------------------------------
(* header-checks.                                                          *)

CheckCsp(r) ==
  IF r.csp = {} THEN {"missing-csp"}
  ELSE Type("unsafe-inline" \in r.csp, "csp-unsafe-inline")
       \cup Type("unsafe-eval" \in r.csp, "csp-unsafe-eval")
       \cup Type("wildcard" \in r.csp, "csp-overly-permissive")

\* Two branches report the missing directive, for a strong and a weak max-age.
CheckHsts(https, r) ==
  CASE ~https                -> {}
    [] https /\ ~r.hsts.sent -> {"missing-hsts"}
    [] OTHER                 -> Type(r.hsts.age # "long", "weak-hsts-max-age")
                                \cup Type(~r.hsts.sub, "missing-hsts-includesubdomains")
                                \cup Type(~r.hsts.preload, "missing-hsts-preload")

CheckXFrameOptions(r) ==
  CASE r.xfo = "" -> Type("frame-ancestors" \notin r.csp, "missing-x-frame-options")
    [] r.xfo = "allow-from" -> {"deprecated-x-frame-options"}
    [] r.xfo \in {"deny", "sameorigin"} -> {}
    [] OTHER -> {"invalid-x-frame-options"}

CheckXContentTypeOptions(r) ==
  CASE r.xcto = ""        -> {"missing-x-content-type-options"}
    [] r.xcto = "nosniff" -> {}
    [] OTHER              -> {"invalid-x-content-type-options"}

CheckCors(r) ==
  CASE r.acao = "*" /\ r.acac  -> {"cors-wildcard-with-credentials"}
    [] r.acao = "*" /\ ~r.acac -> {"cors-wildcard"}
    [] r.acao = "null"         -> {"cors-null-origin"}
    [] OTHER                   -> {}

\* The attributes whose absence both components look for.
MissingAttributes(https, c) ==
  Type(https /\ ~c.secure, "Secure") \cup Type(~c.httponly, "HttpOnly")
    \cup Type(c.samesite = "", "SameSite")

CookieIssues(https, c) ==
  MissingAttributes(https, c)
    \cup Type(c.samesite = "none" /\ ~c.secure, "SameSite=None requires Secure")

\* Mutant: a Referrer-Policy that is not strict counts as weak.
CheckOtherHeaders_AnyReferrer(r) ==
  Type(r.server = "version", "server-version-disclosure")
    \cup Type(r.poweredBy, "x-powered-by-disclosure")
    \cup CASE r.referrer = ""       -> {"missing-referrer-policy"}
           [] r.referrer = "strict" -> {}
           [] OTHER                 -> {"weak-referrer-policy"}

CheckOtherHeaders(r) ==
  Type(r.server = "version", "server-version-disclosure")
    \cup Type(r.poweredBy, "x-powered-by-disclosure")
    \cup CASE r.referrer = ""           -> {"missing-referrer-policy"}
           [] r.referrer = "unsafe-url" -> {"weak-referrer-policy"}
           [] OTHER                     -> {}

\* _analyze_response: the findings, by type and, for cookies, by name; the
\* status of the response does not matter.
Reported(https, r) ==
  [type: CheckCsp(r) \cup CheckHsts(https, r) \cup CheckXFrameOptions(r)
           \cup CheckXContentTypeOptions(r) \cup CheckCors(r) \cup CheckOtherHeaders(r),
   cookie: {"-"}]
  \cup {[type |-> "insecure-cookie", cookie |-> c.name] :
          c \in {d \in r.cookies : CookieIssues(https, d) # {}}}

Origins == {"http", "https"}

NormalizeOrigin(url) == url.scheme

\* run: an origin that does not answer, after its retries, is a failure.
CheckOrigin(o, site) ==
  [failed |-> site[o].answers = "down",
   findings |-> IF site[o].answers = "down" THEN {}
                ELSE Reported(o = "https", site[o].response)]

\* run_batch: the tool has failed only when every origin has; a finding is of
\* its origin, with the URLs it was seen at.
RunBatch(urls, site) ==
  LET origins == {NormalizeOrigin(u) : u \in urls}
      failed  == {o \in origins : CheckOrigin(o, site).failed}
  IN  [success  |-> origins = {} \/ failed # origins,
       findings |-> UNION {{[url |-> o, of |-> f,
                             seenAt |-> {u \in urls : NormalizeOrigin(u) = o}] :
                              f \in CheckOrigin(o, site).findings} : o \in origins}]

-----------------------------------------------------------------------------
(* The verifier: is the condition of a reported finding still there?       *)

CspConfirms(type, r) ==
  CASE type = "missing-csp"           -> r.csp = {}
    [] type = "csp-unsafe-inline"     -> "unsafe-inline" \in r.csp
    [] type = "csp-unsafe-eval"       -> "unsafe-eval" \in r.csp
    [] type = "csp-overly-permissive" -> "wildcard" \in r.csp

\* It does not ask for the scheme.
HstsConfirms(type, r) ==
  CASE type = "missing-hsts"                   -> ~r.hsts.sent
    [] type = "weak-hsts-max-age"              -> r.hsts.sent /\ r.hsts.age # "long"
    [] type = "missing-hsts-includesubdomains" -> r.hsts.sent /\ ~r.hsts.sub
    [] type = "missing-hsts-preload"           -> r.hsts.sent /\ ~r.hsts.preload

FramingConfirms(type, r) ==
  CASE type = "missing-x-frame-options" -> r.xfo = "" /\ "frame-ancestors" \notin r.csp
    [] type = "deprecated-x-frame-options" -> r.xfo = "allow-from"
    [] type = "invalid-x-frame-options" ->
         r.xfo \notin {"", "deny", "sameorigin", "allow-from"}
    [] type = "missing-x-content-type-options" -> r.xcto = ""
    [] type = "invalid-x-content-type-options" -> r.xcto \notin {"", "nosniff"}

CorsConfirms(type, r) ==
  CASE type = "cors-wildcard"                  -> r.acao = "*"
    [] type = "cors-wildcard-with-credentials" -> r.acao = "*" /\ r.acac
    [] type = "cors-null-origin"               -> r.acao = "null"

OthersConfirm(type, r) ==
  CASE type = "server-version-disclosure" -> r.server = "version"
    [] type = "x-powered-by-disclosure"   -> r.poweredBy
    [] type = "missing-referrer-policy"   -> r.referrer = ""
    [] type = "weak-referrer-policy"      -> r.referrer = "unsafe-url"

\* The types of findings, by the family that re-tests them.
CspTypes == {"missing-csp", "csp-unsafe-inline", "csp-unsafe-eval", "csp-overly-permissive"}
HstsTypes == {"missing-hsts", "weak-hsts-max-age", "missing-hsts-includesubdomains",
              "missing-hsts-preload"}
FramingTypes == {"missing-x-frame-options", "deprecated-x-frame-options",
                 "invalid-x-frame-options", "missing-x-content-type-options",
                 "invalid-x-content-type-options"}
CorsTypes == {"cors-wildcard", "cors-wildcard-with-credentials", "cors-null-origin"}
OtherTypes == {"server-version-disclosure", "x-powered-by-disclosure",
               "missing-referrer-policy", "weak-referrer-policy"}

Confirms(https, f, r) ==
  CASE f.type \in CspTypes     -> CspConfirms(f.type, r)
    [] f.type \in HstsTypes    -> HstsConfirms(f.type, r)
    [] f.type \in FramingTypes -> FramingConfirms(f.type, r)
    [] f.type \in CorsTypes    -> CorsConfirms(f.type, r)
    [] f.type \in OtherTypes   -> OthersConfirm(f.type, r)
    [] f.type = "insecure-cookie" ->
         \E c \in r.cookies : c.name = f.cookie /\ MissingAttributes(https, c) # {}

\* _verify_one for a finding of header-checks, on its own URL.
ReTested(url, f, site) ==
  IF site[url].answers # "ok" THEN "unreachable"
  ELSE IF Confirms(url = "https", f, site[url].response) THEN "confirmed" ELSE "refuted"

HeaderFindings(https) ==
  [type: (CspTypes \cup FramingTypes \cup CorsTypes \cup OtherTypes)
           \cup (IF https THEN HstsTypes ELSE {}),
   cookie: {"-"}]
  \cup [type: {"insecure-cookie"}, cookie: CookieNames]

\* The two tables differ for a cookie with SameSite=None and without Secure on
\* http, which the verifier takes for fixed, and for a wildcard that now comes
\* with credentials, which has become another finding.
KnownDifference(https, f, r) ==
  \/ /\ ~https /\ f.type = "insecure-cookie"
     /\ \E c \in r.cookies : c.name = f.cookie /\ c.samesite = "none" /\ ~c.secure
  \/ f.type = "cors-wildcard" /\ r.acac

-----------------------------------------------------------------------------
(* ZAP's alerts about these headers.                                       *)

\* What the alert says, and what header-checks calls the same.
Counterparts ==
  [zapCors         |-> CorsTypes,
   zapWildcard     |-> {"csp-overly-permissive"},
   zapNoCsp        |-> {"missing-csp"},
   zapUnsafeInline |-> {"csp-unsafe-inline"},
   zapNoSniff      |-> {"missing-x-content-type-options", "invalid-x-content-type-options"},
   zapFraming      |-> {"missing-x-frame-options"},
   zapHsts         |-> {"missing-hsts"}]

\* _check_zap_finding, by the plugin or the words of the alert.  The verifier
\* sends an Origin, and "echo" is an answer that allows whoever asks.  Of any
\* alert about the policy but the wildcard it asks only whether one is sent.
ZapConfirms(alert, r) ==
  CASE alert = "zapCors"     -> r.acao \in {"*", "null", "echo"}
    [] alert = "zapWildcard" -> "wildcard" \in r.csp
    [] alert \in {"zapNoCsp", "zapUnsafeInline"} -> r.csp # {}
    [] alert = "zapNoSniff"  -> r.xcto # "nosniff"
    [] alert = "zapFraming"  -> r.xfo = "" /\ "frame-ancestors" \notin r.csp
    [] alert = "zapHsts"     -> ~r.hsts.sent

\* header-checks sends no Origin.  A policy that is missing refutes the alert
\* that says so, and one that is there confirms it and any other complaint.
ZapDifference(alert, r) ==
  \/ alert = "zapCors" /\ r.acao = "echo"
  \/ alert = "zapNoCsp"
  \/ alert = "zapUnsafeInline" /\ r.csp # {} /\ "unsafe-inline" \notin r.csp
=============================================================================
