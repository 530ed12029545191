\* Two cookies; four findings on three pages, two requests, two attempts; three
\* scans on one daemon; up to two findings from the passive tools and two from ZAP.
SPECIFICATION MCSpec
CONSTANTS
  CookieNames = {sid, csrf}
  Findings = {1, 2, 3, 4}
  Url <- MCUrl
  Retest <- MCRetest
  Unsafe = {"c"}
  fix1 = fix1
  fix2 = fix2
  Requests = {fix1, fix2}
  Target <- MCTarget
  MaxAttempts = 2
  Concurrency = 1
  MaxUrls = 2
  MaxChanges = 2
  Scans = {s1, s2, s3}
  WithLogin = {s1}
  ZapLimit = 1
  Nobody = Nobody
  Raw <- MCRaw
  MaxRaw = 2
  LlmSettings <- MCLlmSettings
  Ghost = Ghost
  MaxRendered = 2
  MaxPriorities = 2
  Disabled = Disabled
INVARIANTS
  TypeOK
  RulesAgree
  FixedMeansGone
  ReportKeepsWorst
  IdsResolve
  CoverageHonest
  SummaryGrounded
  RefutationNeverRaisesRisk
  OwnFindings
PROPERTIES
  EveryCheckEnds
  EveryScanGetsItsTurn
CHECK_DEADLOCK FALSE
