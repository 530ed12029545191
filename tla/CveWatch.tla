------------------------------ MODULE CveWatch ------------------------------
(***************************************************************************)
(* The daily CVE check of one site, beside its watch scans: it asks the    *)
(* NVD about each product of the site's fingerprint, records what is new   *)
(* in site_cve_alerts, moves the site's window on and queues one alert     *)
(* (backend/core/watch_agent/cve_job.py).                                  *)
(*                                                                         *)
(* The window is what it lets through: fresh holds the CVEs modified since *)
(* last_cve_check_at, but none older than the NVD's range of 120 days, and *)
(* the first check looks back a week only.  Each product's query awaits    *)
(* the NVD, which searches the descriptions for the product's name.        *)
(***************************************************************************)
EXTENDS WatchScan, NvdRanges

CONSTANTS
  Cves,        \* CVE records of the NVD
  Named,       \* the products each of them names in its description
  CpeMatches,  \* their CPE matches, in order
  Version      \* the version of each product, Absent when it is unknown

ASSUME CvesAssumption == Issues \cup Cves = News /\ Issues \cap Cves = {}

VARIABLES
  fresh,    \* the CVEs modified since the site's last check, within the range
  aged,     \* those of them that are older than a week
  checked,  \* last_cve_check_at is set: the site was checked before
  alerted,  \* site_cve_alerts
  cve,      \* the check at work: products left, products answered, new alerts
  known,    \* history: the CVEs modified so far
  lost      \* history: CVEs passed over or recorded without an email

window == <<fresh, aged, checked>>

cveVars == <<window, alerted, cve, known, lost>>

NoCheck == [on |-> FALSE, todo |-> {}, answered |-> {}, new |-> {}]

CveInit ==
  /\ fresh = {} /\ aged = {}
  /\ checked = FALSE
  /\ alerted = {}
  /\ cve = NoCheck
  /\ known = {}
  /\ lost = {}

Verdict(c, p) == CveAffects(CpeMatches[c], p, Version[p])

Affects(c, p) == Verdict(c, p) = "yes"

\* The query of the product returns the CVE and its ranges match.
Hits(c, p) == p \in Named[c] /\ Affects(c, p)

-----------------------------------------------------------------------------

\* The NVD publishes or modifies a CVE.  A product already asked about in
\* the check at work is not asked about again before the window moves.
CveModified(c) ==
  /\ known' = known \cup {c}
  /\ fresh' = fresh \cup {c} /\ aged' = aged \ {c}
  /\ lost' = IF \E p \in cve.answered : Hits(c, p) THEN lost \cup {c} ELSE lost
  /\ UNCHANGED <<outboxVars, scanVars, checked, alerted, cve>>

\* The CVEs of S that a product was not asked about in time.
Unasked(S) == {c \in S : \E p \in Products \ cve.answered : Hits(c, p)}

\* The window moves beyond the CVEs of S.
PassOver(S) ==
  /\ fresh' = fresh \ S /\ aged' = aged \ S
  /\ lost' = lost \cup Unasked(S)

\* A CVE stays in the window unmodified: for a week, and for 119 days.
WeekPasses(c) ==
  /\ c \in fresh \ aged
  /\ aged' = aged \cup {c}
  /\ UNCHANGED <<outboxVars, scanVars, fresh, checked, alerted, cve, known, lost>>

RangePasses(c) ==
  /\ c \in aged
  /\ PassOver({c})
  /\ UNCHANGED <<outboxVars, scanVars, checked, alerted, cve, known>>

\* The products are those of the fingerprint now; without any the window
\* moves on at once.  The first check looks back a week.
BeginCveCheck ==
  /\ up /\ active /\ ~cve.on /\ RoomForAlert
  /\ \/ /\ fingerprint = {}
        /\ PassOver(fresh) /\ checked' = TRUE
        /\ UNCHANGED cve
     \/ /\ fingerprint # {}
        /\ PassOver(IF checked THEN {} ELSE aged)
        /\ cve' = [NoCheck EXCEPT !.on = TRUE, !.todo = fingerprint]
        /\ UNCHANGED checked
  /\ UNCHANGED <<outboxVars, scanVars, alerted, known>>

\* The next product of the list; its order is the fingerprint's.
Asking(p) == up /\ cve.on /\ p \in cve.todo

\* keywordSearch, then the CPE ranges of what it returns.
Searched(p) == {c \in fresh : p \in Named[c]}

Matching(p) == {c \in Searched(p) : Affects(c, p)}

\* Mutant: the alerts of the last product replace those of the ones before.
ProductAnswered_Replaces(p) ==
  /\ Asking(p)
  /\ \A c \in Searched(p) : Verdict(c, p) # "raise"
  /\ alerted' = alerted \cup Matching(p)
  /\ cve' = [cve EXCEPT !.todo = @ \ {p}, !.answered = @ \cup {p},
                        !.new = Matching(p) \ alerted]
  /\ UNCHANGED <<outboxVars, scanVars, window, known, lost>>

\* Mutant: neither has_cve_alert nor the result of the insert is looked at.
ProductAnswered_NoDedup(p) ==
  /\ Asking(p)
  /\ \A c \in Searched(p) : Verdict(c, p) # "raise"
  /\ alerted' = alerted \cup Matching(p)
  /\ cve' = [cve EXCEPT !.todo = @ \ {p}, !.answered = @ \cup {p},
                        !.new = @ \cup Matching(p)]
  /\ UNCHANGED <<outboxVars, scanVars, window, known, lost>>

\* The rows are recorded as they are matched; only new ones are alerted.
ProductAnswered(p) ==
  /\ Asking(p)
  /\ \A c \in Searched(p) : Verdict(c, p) # "raise"
  /\ alerted' = alerted \cup Matching(p)
  /\ cve' = [cve EXCEPT !.todo = @ \ {p}, !.answered = @ \cup {p},
                        !.new = @ \cup (Matching(p) \ alerted)]
  /\ UNCHANGED <<outboxVars, scanVars, window, known, lost>>

\* The version is unknown, the NVD fails, or one of its ranges cannot be
\* compared with the version: the product is skipped.
ProductSkipped(p) ==
  /\ Asking(p)
  /\ cve' = [cve EXCEPT !.todo = @ \ {p}]
  /\ UNCHANGED <<outboxVars, scanVars, window, alerted, known, lost>>

\* Recording fails or the process dies after the rows of S: what is recorded
\* will not be alerted any more.
CutShort(S) ==
  /\ alerted' = alerted \cup S
  /\ lost' = lost \cup cve.new \cup (S \ alerted)
  /\ cve' = NoCheck
  /\ UNCHANGED <<window, known>>

RecordingRaises(p) ==
  /\ Asking(p)
  /\ \E S \in SUBSET Matching(p) : CutShort(S)
  /\ UNCHANGED <<outboxVars, scanVars>>

Checked == up /\ cve.on /\ cve.todo = {}

\* What the first n commits leave: 1 the window, then one email per member.
CveCommits(n) ==
  LET mails == IF n = 0 \/ cve.new = {} THEN 0 ELSE n - 1
      moved == IF n = 0 THEN {} ELSE fresh
  IN  /\ fresh' = fresh \ moved /\ aged' = aged \ moved
      /\ checked' = (checked \/ n > 0)
      /\ outbox' = Queued(cve.new, mails)
      /\ lost' = lost \cup Unasked(moved)
                      \cup (IF mails < Len(Members) THEN cve.new ELSE {})
      /\ cve' = NoCheck
      /\ UNCHANGED <<alerted, known>>

FinishCveCheck ==
  /\ Checked
  /\ \E n \in 0..(1 + Recipients) : CveCommits(n)
  /\ UNCHANGED <<batch, process, scanVars>>

CrashInCveCommits ==
  /\ Killed /\ Checked
  /\ \E n \in 0..(1 + Recipients) : CveCommits(n)
  /\ ScanForgotten

CveStep ==
  \/ \E c \in Cves : CveModified(c) \/ WeekPasses(c) \/ RangePasses(c)
  \/ BeginCveCheck
  \/ \E p \in Products : ProductAnswered(p) \/ ProductSkipped(p) \/ RecordingRaises(p)
  \/ FinishCveCheck

Mentions(e, c) == c \in outbox[e].news

\* No member is told twice of the same CVE: not when it is modified again,
\* matches two products, or the check is cut short and repeated.
AlertedOnce ==
  \A c \in Cves, e, f \in Emails :
    Mentions(e, c) /\ Mentions(f, c) /\ outbox[e].to = outbox[f].to => e = f

\* Every CVE that names and affects a fingerprinted product is still in the
\* window, on its way to an email or in one, unless it was passed over: it was
\* older than a week at the first check or than 119 days at a later one, its
\* product was not in the fingerprint or its lookup failed when the window
\* moved on, it was modified behind its product's lookup, or its alert was
\* recorded and not queued (emails off, no members, a check cut short).
CveAccounted ==
  \A c \in known, p \in fingerprint :
    Hits(c, p) => c \in fresh \cup cve.new \cup lost
                     \cup UNION {outbox[e].news : e \in Emails}
=============================================================================
