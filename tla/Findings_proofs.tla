--------------------------- MODULE Findings_proofs ---------------------------
(***************************************************************************)
(* The findings of a scan, for any findings the tools report, any number   *)
(* of them, any verdicts and any answers of the LLM; the two readings of a *)
(* response's headers, for any response; and, with the proofs about live   *)
(* verification and the ZAP daemon, the types of all three.                *)
(*                                                                         *)
(* Three invariants carry the way to the report.  CoverageInv: until       *)
(* scoring turns it into the coverage, the bookkeeping of each module says *)
(* what became of it.  FindingsInv: no two findings have the same type and *)
(* URL; until they are judged they are as a tool reported them, and after  *)
(* scoring they are numbered without repetition, worst first, and are      *)
(* those it was given, re-graded.  SynthesisInv: what the LLM was asked    *)
(* with and what the answer refers to.  ReportInv adds that the report     *)
(* was rendered from the findings (Rendered).                              *)
(*                                                                         *)
(* Deduplication, the risk, the groups and the rows of the report are      *)
(* folds, and the ranking, the groups and the truncation are sorts.  Both  *)
(* are reasoned about over the sets they are defined on: a fold visits the *)
(* set of indices upwards (Iterated), and the place of an index in a sort  *)
(* is its rank in a linear order, so that every place is taken (Ranks).    *)
(***************************************************************************)
EXTENDS MCFindings, LiveVerification_proofs, ZapDaemon_proofs, FiniteSetTheorems,
        WellFoundedInduction, TLAPS

-----------------------------------------------------------------------------
(* The coverage.                                                           *)

Modules == Passive \cup Active

MetaTyped ==
  /\ meta \in [errors: SUBSET Modules, notApplicable: SUBSET Modules,
               executed: SUBSET Modules, rejected: SUBSET Modules]
  /\ module \in [Modules -> {"not asked", "failed", "not applicable", "ran", "rejected"}]
  /\ planned \in {Active, {}}
  /\ coverage.failed \subseteq Modules

\* What the coverage c says of a module is what became of it.
Says(c, m) ==
  /\ m \in c.run <=> module[m] = "ran"
  /\ m \in c.failed <=> module[m] = "failed"
  /\ m \in c.notApplicable <=> module[m] = "not applicable"
  /\ m \in c.rejected <=> module[m] \in {"rejected", "not asked"}

\* The bookkeeping of the modules before scoring turns it into the coverage.
MetaSound ==
  /\ stage = "passive" =>
       /\ meta.errors = {} /\ meta.notApplicable = {} /\ meta.executed = {} /\ meta.rejected = {}
       /\ \A m \in Modules : module[m] = "not asked"
  /\ stage = "active" =>
       /\ meta.errors \cup meta.notApplicable \subseteq Passive
       /\ meta.executed = {} /\ meta.rejected = {}
       /\ \A m \in Passive : Says(Covered(meta), m)
       /\ \A m \in Active : module[m] = "not asked"
  /\ stage \in {"verify", "score"} => \A m \in Modules : Says(Covered(meta), m)

CoverageInv == MetaTyped /\ MetaSound /\ CoverageHonest

LEMMA CoverageInit == ReportInit => CoverageInv
<1> SUFFICES ASSUME ReportInit PROVE CoverageInv
  OBVIOUS
<1>1. /\ stage = "passive" /\ planned \in {Active, {}}
      /\ module = [m \in Modules |-> "not asked"]
      /\ meta = [errors |-> {}, notApplicable |-> {}, executed |-> {}, rejected |-> {}]
  BY DEF ReportInit, Modules
<1>2. MetaTyped
  <2>1. coverage.failed = {}
    BY DEF ReportInit, NoCoverage
  <2> QED BY <1>1, <2>1 DEF MetaTyped
<1> QED BY <1>1, <1>2 DEF CoverageInv, MetaSound, CoverageHonest

\* What passive detection books of its modules is what became of them.
LEMMA PassiveCovers ==
  ASSUME CoverageInv, PassiveDetection
  PROVE  CoverageInv'
<1>1. PICK notApplicable \in SUBSET {"retirejs"} : \E failed \in SUBSET (Passive \ notApplicable) :
        /\ meta' = [meta EXCEPT !.errors = failed, !.notApplicable = notApplicable]
        /\ module' = [m \in DOMAIN module |->
              IF m \in Passive THEN Reports(m, failed, notApplicable) ELSE module[m]]
  BY DEF PassiveDetection
<1>0. PICK failed \in SUBSET (Passive \ notApplicable) :
        /\ meta' = [meta EXCEPT !.errors = failed, !.notApplicable = notApplicable]
        /\ module' = [m \in DOMAIN module |->
              IF m \in Passive THEN Reports(m, failed, notApplicable) ELSE module[m]]
  BY <1>1
<1>2. /\ meta'.errors = failed /\ meta'.notApplicable = notApplicable
      /\ meta'.executed = {} /\ meta'.rejected = {}
  BY <1>0 DEF PassiveDetection, CoverageInv, MetaTyped, MetaSound
<1>3. MetaTyped'
  BY <1>0 DEF PassiveDetection, CoverageInv, MetaTyped, Modules, Passive, Reports
<1>4. \A m \in Passive : Says(Covered(meta), m)'
  BY <1>0, <1>2 DEF Says, Covered, CoverageInv, MetaTyped, Modules, Passive, Active, Reports
<1>5. \A m \in Active : module'[m] = "not asked"
  BY <1>0 DEF CoverageInv, MetaTyped, MetaSound, PassiveDetection, Modules, Passive, Active
<1>6. MetaSound'
  BY <1>2, <1>4, <1>5 DEF MetaSound, PassiveDetection, Passive
<1> QED BY <1>3, <1>6 DEF CoverageInv, CoverageHonest, PassiveDetection

\* What active detection notes of these tools.
Booked(approved, notApplicable, failed) ==
  /\ meta' = [errors |-> meta.errors \cup failed,
              notApplicable |-> meta.notApplicable \cup notApplicable,
              executed |-> approved \ (failed \cup notApplicable),
              rejected |-> PlannedOrDefault \ approved]
  /\ module' = [m \in DOMAIN module |->
       CASE m \in approved           -> Reports(m, failed, notApplicable)
         [] m \in planned \ approved -> "rejected"
         [] OTHER                    -> module[m]]

\* And so for active detection, which asks ZAP and sqlmap if they were approved.
LEMMA ActiveCovers ==
  ASSUME CoverageInv, ActiveDetection
  PROVE  CoverageInv'
<1>1. PICK approved \in SUBSET planned :
        \E notApplicable \in SUBSET (approved \cap {"sqlmap"}) :
        \E failed \in SUBSET (approved \ notApplicable) :
        \E raw \in Results(approved \ notApplicable) :
          /\ findings' = IF approved = {} THEN findings ELSE Deduplicate(findings \o raw)
          /\ meta' = [errors |-> meta.errors \cup failed,
                      notApplicable |-> meta.notApplicable \cup notApplicable,
                      executed |-> approved \ (failed \cup notApplicable),
                      rejected |-> PlannedOrDefault \ approved]
          /\ module' = [m \in DOMAIN module |->
               CASE m \in approved           -> Reports(m, failed, notApplicable)
                 [] m \in planned \ approved -> "rejected"
                 [] OTHER                    -> module[m]]
  BY DEF ActiveDetection
<1>1a. PICK notApplicable \in SUBSET (approved \cap {"sqlmap"}) :
        \E failed \in SUBSET (approved \ notApplicable) : Booked(approved, notApplicable, failed)
  BY <1>1 DEF Booked
<1>1b. PICK failed \in SUBSET (approved \ notApplicable) : Booked(approved, notApplicable, failed)
  BY <1>1a
<1>1c. Booked(approved, notApplicable, failed)
  BY <1>1b
<1>2. planned' = planned /\ stage = "active" /\ stage' = "verify" /\ planned \in {Active, {}}
  BY DEF ActiveDetection, CoverageInv, MetaTyped
<1>3. MetaTyped'
  <2>1. meta' \in [errors: SUBSET Modules, notApplicable: SUBSET Modules,
                    executed: SUBSET Modules, rejected: SUBSET Modules]
    <3>1. approved \subseteq Modules /\ PlannedOrDefault \subseteq Modules
      BY <1>2 DEF Modules, PlannedOrDefault
    <3>2. meta.errors \subseteq Modules /\ meta.notApplicable \subseteq Modules
      BY DEF CoverageInv, MetaTyped
    <3> QED BY <1>1c, <3>1, <3>2 DEF Booked
  <2>2. module' \in [Modules -> {"not asked", "failed", "not applicable", "ran", "rejected"}]
    BY <1>1c DEF CoverageInv, MetaTyped, Reports, Booked
  <2>3. coverage' = coverage /\ coverage.failed \subseteq Modules
    BY DEF ActiveDetection, CoverageInv, MetaTyped
  <2> QED BY <1>2, <2>1, <2>2, <2>3 DEF MetaTyped
<1>4. ASSUME NEW m \in Passive PROVE Says(Covered(meta), m)'
  <2>1. module'[m] = module[m] /\ m \notin approved /\ m \notin PlannedOrDefault
    BY <1>1c, <1>2 DEF Booked, CoverageInv, MetaTyped, Modules, Passive, Active, PlannedOrDefault
  <2>2. Says(Covered(meta), m) /\ meta.executed = {} /\ meta.rejected = {}
    BY <1>2 DEF CoverageInv, MetaSound
  <2> QED BY <1>1c, <2>1, <2>2 DEF Says, Covered, Booked
<1>5. ASSUME NEW m \in Active PROVE Says(Covered(meta), m)'
  <2>1. m \notin Passive /\ m \notin meta.errors /\ m \notin meta.notApplicable /\ module[m] = "not asked"
    BY <1>2 DEF CoverageInv, MetaSound, Passive, Active
  <2>2. module'[m] = CASE m \in approved           -> Reports(m, failed, notApplicable)
                       [] m \in planned \ approved -> "rejected"
                       [] OTHER                    -> "not asked"
    BY <1>1c, <2>1 DEF CoverageInv, MetaTyped, Modules, Booked
  <2>3. /\ m \in meta'.errors <=> m \in failed
        /\ m \in meta'.notApplicable <=> m \in notApplicable
        /\ m \in meta'.executed <=> m \in approved /\ m \notin failed /\ m \notin notApplicable
        /\ m \in meta'.rejected <=> m \notin approved
    BY <1>1c, <1>2, <2>1 DEF PlannedOrDefault, Booked
  <2>4. /\ m \in Covered(meta').run <=> m \in meta'.executed
        /\ m \in Covered(meta').failed <=> m \in meta'.errors
        /\ m \in Covered(meta').notApplicable <=> m \in meta'.notApplicable
        /\ m \in Covered(meta').rejected <=> m \in meta'.rejected
    BY <2>1 DEF Covered
  <2>5. CASE m \in approved
    <3>1. module'[m] = Reports(m, failed, notApplicable)
      BY <2>2, <2>5
    <3> QED BY <2>3, <2>4, <2>5, <3>1 DEF Says, Reports
  <2>6. CASE m \notin approved
    <3>1. module'[m] \in {"rejected", "not asked"}
      BY <2>2, <2>6
    <3> QED BY <2>3, <2>4, <2>6, <3>1 DEF Says
  <2> QED BY <2>5, <2>6
<1>6. \A m \in Modules : Says(Covered(meta), m)'
  BY <1>4, <1>5 DEF Modules
<1> QED BY <1>2, <1>3, <1>6 DEF CoverageInv, MetaSound, CoverageHonest

LEMMA CoverageStep ==
  ASSUME CoverageInv, [ReportNext]_reportVars
  PROVE  CoverageInv'
<1>1. CASE Verification
  BY <1>1 DEF Verification, CoverageInv, MetaTyped, MetaSound, CoverageHonest, Says
<1>2. CASE Scoring
  BY <1>2 DEF Scoring, CoverageInv, MetaTyped, MetaSound, CoverageHonest, Says, Covered, Modules
<1>3. CASE Synthesis \/ Reporting
  <2>1. /\ UNCHANGED <<planned, module, meta, coverage>>
        /\ stage \in {"synthesise", "report"} /\ stage' \in {"report", "done"}
    BY <1>3 DEF Synthesis, Reporting, SynthesisSkipped, NothingToSay, NoBudget, NoAnswer,
         LlmAnswers, SynthesisRaises, Synthesised
  <2> QED BY <2>1 DEF CoverageInv, MetaTyped, MetaSound, CoverageHonest
<1>4. CASE UNCHANGED reportVars
  BY <1>4 DEF reportVars, CoverageInv, MetaTyped, MetaSound, CoverageHonest, Says
<1> QED BY <1>1, <1>2, <1>3, <1>4, PassiveCovers, ActiveCovers DEF ReportNext


-----------------------------------------------------------------------------
(* The summary.                                                            *)

Less == {p \in Nat \X Nat : p[1] < p[2]}

\* A set of numbers has a least element.
LEMMA Least ==
  ASSUME NEW I \in SUBSET Nat, I # {}
  PROVE  \E i \in I : \A j \in I : i <= j
<1>1. IsWellFoundedOn(Less, Nat)
  BY NatLessThanWellFounded DEF OpToRel, Less
<1>2. PICK i \in I : \A j \in I : <<j, i>> \notin Less
  <2>1. I \subseteq Nat
    OBVIOUS
  <2> QED BY <1>1, <2>1, WFMin
<1>3. ASSUME NEW j \in I PROVE i <= j
  <2>1. <<j, i>> \in Less <=> j < i
    BY DEF Less
  <2>2. i \in Nat /\ j \in Nat
    OBVIOUS
  <2> QED BY <1>2, <2>1, <2>2
<1> QED BY <1>3

\* It is the Min of the community modules.
LEMMA MinTaken ==
  ASSUME NEW I \in SUBSET Nat, I # {}
  PROVE  Min(I) \in I /\ \A i \in I : Min(I) <= i
BY Least DEF Min

SynthesisInv ==
  /\ llm \in LlmSettings
  /\ stage \notin {"report", "done"} => synthesis = NoSynthesis
  /\ synthesis.calls \in Nat
  /\ SummaryGrounded

\* Some provider is named for an answer.
LEMMA ProviderFacts ==
  ASSUME llm \in LlmSettings, NEW answering \in SomeAnswer
  PROVE  CallWithFallback(answering) # "none"
<1> USE LlmAssumption
<1>1. llm.providers \in Seq(STRING \ {"none"})
  BY DEF LlmAssumption
<1> DEFINE answers == {i \in DOMAIN llm.providers : llm.providers[i] \in answering}
<1>2. \E i \in DOMAIN llm.providers : llm.providers[i] \in answering
  BY DEF SomeAnswer, ToSet
<1>3. answers \in SUBSET Nat /\ answers # {}
  BY <1>1, <1>2
<1>4. Min(answers) \in DOMAIN llm.providers
  <2> HIDE DEF answers
  <2>1. Min(answers) \in answers
    BY <1>3, MinTaken
  <2> QED BY <2>1 DEF answers
<1>5. CallWithFallback(answering) = llm.providers[Min(answers)]
  BY <1>3, Zenon DEF CallWithFallback
<1> HIDE DEF answers
<1> QED BY <1>1, <1>4, <1>5

LEMMA SynthesisInit == ReportInit => SynthesisInv
<1> USE LlmAssumption DEF LlmAssumption
<1> SUFFICES ASSUME ReportInit PROVE SynthesisInv
  OBVIOUS
<1>1. llm \in LlmSettings /\ llm.calls \in Nat
  BY DEF ReportInit
<1>2. stage = "passive" /\ synthesis = NoSynthesis
  BY DEF ReportInit
<1>3. synthesis.source = "none" /\ synthesis.calls = 0
  BY <1>2 DEF NoSynthesis
<1> QED BY <1>1, <1>2, <1>3 DEF SynthesisInv, SummaryGrounded

\* An answer that is kept refers to findings that were sent.
LEMMA SynthesisGrounds ==
  ASSUME SynthesisInv, Synthesis
  PROVE  SynthesisInv'
<1> USE LlmAssumption DEF LlmAssumption
<1>1. llm' = llm /\ findings' = findings /\ llm.calls \in Nat /\ llm \in LlmSettings /\ stage' = "report"
  BY DEF Synthesis, SynthesisSkipped, NothingToSay, NoBudget, NoAnswer, LlmAnswers, SynthesisRaises,
     Synthesised, SynthesisInv
<1>2. ASSUME synthesis'.source \notin {"llm", "no risks"}, synthesis'.calls \in Nat /\ synthesis'.calls <= llm.calls
      PROVE  SynthesisInv'
  BY <1>1, <1>2 DEF SynthesisInv, SummaryGrounded
<1>3. CASE SynthesisSkipped \/ SynthesisRaises
  <2>1. synthesis'.source = "none" /\ synthesis'.calls = 0
    BY <1>3 DEF SynthesisSkipped, SynthesisRaises, Synthesised, NoSynthesis
  <2> QED BY <1>1, <1>2, <2>1
<1>4. CASE NothingToSay
  <2>1. /\ synthesis'.source = "no risks" /\ synthesis'.calls = 0
        /\ Actionable(Eligible) = {}
    BY <1>4 DEF NothingToSay, Synthesised, NoSynthesis
  <2>2. \A i \in DOMAIN findings : findings[i].severity # "info" =>
          findings[i].verdict \notin {"confirmed", "tool_attested"}
    BY <2>1 DEF Actionable, Eligible
  <2>3. synthesis'.source # "llm" /\ synthesis'.calls \in Nat /\ synthesis'.calls <= llm.calls
    <3>1. 0 \in Nat /\ 0 <= llm.calls
      BY <1>1
    <3>2. synthesis'.source # "llm"
      BY <2>1
    <3> QED BY <2>1, <3>1, <3>2
  <2> QED BY <1>1, <2>2, <2>3 DEF SynthesisInv, SummaryGrounded
<1>5. CASE NoBudget \/ NoAnswer
  <2>1. synthesis'.source = "template" /\ synthesis'.calls \in Nat /\ synthesis'.calls <= llm.calls
    <3>1. CASE NoBudget
      <4>1. synthesis' = Template("unavailable", 0, "none")
        BY <3>1 DEF NoBudget, Synthesised
      <4> QED BY <1>1, <4>1 DEF Template, NoSynthesis
    <3>2. CASE NoAnswer
      <4>1. synthesis' = Template("unavailable", 1, CallWithFallback({})) /\ llm.calls > 0
        BY <3>2 DEF NoAnswer, Synthesised
      <4> QED BY <1>1, <4>1 DEF Template, NoSynthesis
    <3> QED BY <1>5, <3>1, <3>2
  <2> QED BY <1>1, <1>2, <2>1
<1>6. CASE LlmAnswers
  <2>1. PICK answering \in SomeAnswer, answer \in Answer, grade \in Grades :
          LET provider == CallWithFallback(answering)
              kept == [status |-> "succeeded", source |-> "llm", cited |-> answer.cited,
                       calls |-> 1, graded |-> FALSE, provider |-> provider]
          IN  Synthesised(
                CASE ~Usable(answer) -> Template("unavailable", 1, provider)
                  [] Usable(answer) /\ llm.calls = 1 -> kept
                  [] Usable(answer) /\ llm.calls > 1 /\ Supported(grade) ->
                       [kept EXCEPT !.calls = 2, !.graded = TRUE]
                  [] OTHER -> Template("unavailable", 2, provider))
    BY <1>6 DEF LlmAnswers
  <2> DEFINE provider == CallWithFallback(answering)
             kept == [status |-> "succeeded", source |-> "llm", cited |-> answer.cited,
                      calls |-> 1, graded |-> FALSE, provider |-> provider]
  <2>2. provider # "none" /\ llm.calls > 0
    BY <1>1, <1>6, ProviderFacts DEF LlmAnswers
  <2> HIDE DEF provider
  <2>3. CASE ~Usable(answer)
    <3>1. synthesis' = Template("unavailable", 1, provider)
      BY <2>1, <2>3 DEF provider, Synthesised
    <3> QED BY <1>1, <1>2, <2>2, <3>1 DEF Template, NoSynthesis
  <2>4. CASE Usable(answer) /\ (llm.calls = 1 \/ Supported(grade))
    <3>1. \A id \in answer.cited : \E i \in DOMAIN findings :
            findings[i].id = id /\ findings[i].verdict \in {"confirmed", "tool_attested"}
      BY <2>4 DEF Usable, Ids, Eligible
    <3>2. /\ synthesis'.source = "llm" /\ synthesis'.cited = answer.cited
          /\ synthesis'.provider = provider /\ synthesis'.calls \in Nat /\ synthesis'.calls <= llm.calls
          /\ synthesis'.graded \/ llm.calls = 1
      <4>1. CASE llm.calls = 1
        <5>1. synthesis' = kept
          BY <2>1, <2>4, <4>1 DEF provider, Synthesised
        <5> QED BY <4>1, <5>1
      <4>2. CASE llm.calls # 1
        <5>1. synthesis' = [kept EXCEPT !.calls = 2, !.graded = TRUE]
          BY <1>1, <2>1, <2>2, <2>4, <4>2 DEF provider, Synthesised
        <5> QED BY <1>1, <2>2, <4>2, <5>1
      <4> QED BY <4>1, <4>2
    <3> QED BY <1>1, <2>2, <3>1, <3>2 DEF SynthesisInv, SummaryGrounded
  <2>5. CASE Usable(answer) /\ llm.calls # 1 /\ ~Supported(grade)
    <3>1. synthesis' = Template("unavailable", 2, provider)
      BY <2>1, <2>5 DEF provider, Synthesised
    <3> QED BY <1>1, <1>2, <2>2, <2>5, <3>1 DEF Template, NoSynthesis
  <2> QED BY <2>3, <2>4, <2>5
<1> QED BY <1>3, <1>4, <1>5, <1>6 DEF Synthesis

LEMMA SynthesisStep ==
  ASSUME SynthesisInv, [ReportNext]_reportVars
  PROVE  SynthesisInv'
<1>1. CASE PassiveDetection \/ ActiveDetection \/ Verification \/ Scoring
  <2>1. /\ llm' = llm /\ synthesis' = synthesis
        /\ stage \notin {"report", "done"} /\ stage' \notin {"report", "done"}
    BY <1>1 DEF PassiveDetection, ActiveDetection, Verification, Scoring
  <2>2. synthesis = NoSynthesis /\ synthesis.calls <= llm.calls
    BY <2>1 DEF SynthesisInv, SummaryGrounded
  <2>3. synthesis.source = "none"
    BY <2>2 DEF NoSynthesis
  <2> QED BY <2>1, <2>2, <2>3 DEF SynthesisInv, SummaryGrounded
<1>2. CASE Reporting \/ UNCHANGED reportVars
  <2>1. /\ llm' = llm /\ synthesis' = synthesis /\ findings' = findings
        /\ stage' \in {"report", "done"} <=> stage \in {"report", "done"}
    BY <1>2 DEF Reporting, reportVars
  <2> QED BY <2>1 DEF SynthesisInv, SummaryGrounded
<1> QED BY <1>1, <1>2, SynthesisGrounds DEF ReportNext

-----------------------------------------------------------------------------
(* Folds.                                                                  *)

\* Induction, over a set of numbers instead of a predicate.
LEMMA Upward ==
  ASSUME NEW n \in Nat, NEW P, 0 \in P, \A k \in 1..n : k - 1 \in P => k \in P
  PROVE  \A k \in 0..n : k \in P
<1> DEFINE I == {k \in 0..n : k \notin P}
<1>1. SUFFICES ASSUME I # {} PROVE FALSE
  OBVIOUS
<1>2. PICK i \in I : \A j \in I : i <= j
  <2> HIDE DEF I
  <2>1. I \in SUBSET Nat
    BY DEF I
  <2> QED BY <1>1, <2>1, Least
<1>3. i \in 1..n /\ i - 1 \in 0..n
  BY <1>2
<1>4. i - 1 \in P
  BY <1>2, <1>3
<1> QED BY <1>2, <1>3, <1>4

\* The greatest of some of the numbers to n is their Max.
LEMMA MaxOf ==
  ASSUME NEW n \in Nat, NEW I \in SUBSET (1..n), I # {}
  PROVE  Max(I) \in I /\ \A i \in I : i <= Max(I)
<1> DEFINE J == {n - i : i \in I}
<1>0. \A i \in I : i \in Int /\ n - i \in Nat
  OBVIOUS
<1>1. J \in SUBSET Nat /\ J # {}
  BY <1>0
<1> HIDE DEF J
<1>2. PICK j \in J : \A k \in J : j <= k
  BY <1>1, Least
<1>3. PICK m \in I : j = n - m
  BY DEF J
<1>4. ASSUME NEW i \in I PROVE i <= m
  <2>1. n - i \in J /\ i \in Int /\ m \in Int
    BY <1>0 DEF J
  <2> QED BY <1>2, <1>3, <2>1
<1>5. \E i \in I : \A k \in I : i >= k
  BY <1>4
<1> QED BY <1>5 DEF Max

\* What a fold from the left asks of the function that Folds defines.
Iterates(iter, n, base, step) ==
  iter = [t \in SUBSET (1..n) |->
            IF t = {} THEN base ELSE step[<<iter[t \ {Max(t)}], Max(t)>>]]

Iterable(n, A, base, step) ==
  \E iter \in [SUBSET (1..n) -> A] : Iterates(iter, n, base, step)

\* Folding a set of indices one by one, the greatest last, gives the values of a
\* function that unrolls the fold.
LEMMA Iterated ==
  ASSUME NEW n \in Nat, NEW A, NEW base \in A, NEW step \in [A \X (1..n) -> A]
  PROVE  Iterable(n, A, base, step)
<1> DEFINE P == {m \in 0..n : \E iter \in [SUBSET (1..m) -> A] : Iterates(iter, m, base, step)}
<1>1. 0 \in P
  <2> DEFINE iter == [t \in SUBSET (1..0) |-> base]
  <2>1. SUBSET (1..0) = {{}}
    OBVIOUS
  <2>2. iter \in [SUBSET (1..0) -> A] /\ Iterates(iter, 0, base, step)
    BY <2>1 DEF Iterates
  <2> QED BY <2>2
<1>2. ASSUME NEW m \in 1..n, m - 1 \in P PROVE m \in P
  <2>0. m \in Nat /\ m \in 0..n
    OBVIOUS
  <2>1. PICK iter \in [SUBSET (1..(m - 1)) -> A] : Iterates(iter, m - 1, base, step)
    BY <1>2
  <2> DEFINE next == [t \in SUBSET (1..m) |->
                        IF m \in t THEN step[<<iter[t \ {m}], m>>] ELSE iter[t]]
  <2>2. \A t \in SUBSET (1..m) : /\ m \in t => t \ {m} \in SUBSET (1..(m - 1))
                                 /\ m \notin t => t \in SUBSET (1..(m - 1))
    OBVIOUS
  <2>3. next \in [SUBSET (1..m) -> A]
    BY <2>2
  <2>4. ASSUME NEW t \in SUBSET (1..m)
        PROVE  next[t] = IF t = {} THEN base ELSE step[<<next[t \ {Max(t)}], Max(t)>>]
    <3>1. CASE t = {}
      <4>1. iter[t] = base
        BY <2>1, <2>2, <3>1 DEF Iterates
      <4> QED BY <3>1, <4>1
    <3>2. CASE m \in t
      <4>1. Max(t) = m
        <5>1. Max(t) \in t /\ \A i \in t : i <= Max(t)
          BY <2>0, <3>2, MaxOf
        <5>2. Max(t) \in 1..m
          BY <5>1
        <5> QED BY <2>0, <3>2, <5>1, <5>2
      <4>2. next[t \ {m}] = iter[t \ {m}] /\ next[t] = step[<<iter[t \ {m}], m>>]
        BY <3>2
      <4> QED BY <3>2, <4>1, <4>2
    <3>3. CASE m \notin t /\ t # {}
      <4>1. Max(t) \in t
        BY <2>0, <3>3, MaxOf
      <4>2. t \in SUBSET (1..(m - 1)) /\ t \ {Max(t)} \in SUBSET (1..(m - 1)) /\ t \ {Max(t)} \in SUBSET (1..m)
        BY <2>2, <3>3
      <4>3. next[t] = iter[t] /\ next[t \ {Max(t)}] = iter[t \ {Max(t)}]
        BY <3>3, <4>2
      <4>4. iter[t] = step[<<iter[t \ {Max(t)}], Max(t)>>]
        BY <2>1, <3>3, <4>2 DEF Iterates
      <4> QED BY <3>3, <4>3, <4>4
    <3> QED BY <3>1, <3>2, <3>3
  <2>5. Iterates(next, m, base, step)
    <3> HIDE DEF next
    <3> QED BY <2>3, <2>4 DEF Iterates
  <2> HIDE DEF next
  <2> QED BY <2>0, <2>3, <2>5
<1> HIDE DEF P
<1>3. n \in P
  BY <1>1, <1>2, Upward
<1> QED BY <1>3 DEF P, Iterable

\* The prefixes of the indices, visited upwards.
LEMMA UpTo ==
  ASSUME NEW n \in Nat, NEW k \in 1..n
  PROVE  /\ 1..k \in SUBSET (1..n) /\ 1..k # {}
         /\ Max(1..k) = k /\ (1..k) \ {k} = 1..(k - 1)
<1>1. 1..k \in SUBSET (1..n) /\ k \in 1..k
  OBVIOUS
<1>2. Max(1..k) \in 1..k /\ \A i \in 1..k : i <= Max(1..k)
  BY <1>1, MaxOf
<1> QED BY <1>1, <1>2

-----------------------------------------------------------------------------
(* Sorting.                                                                *)

LinearOrder(R, I) ==
  /\ \A i, j \in I : <<i, j>> \in R \/ <<j, i>> \in R
  /\ \A i, j \in I : <<i, j>> \in R /\ <<j, i>> \in R => i = j
  /\ \A i, j, k \in I : <<i, j>> \in R /\ <<j, k>> \in R => <<i, k>> \in R

Rank(R, I) == [i \in I |-> Cardinality({j \in I : <<j, i>> \in R})]

\* The number of elements up to one, in a linear order of a finite set, is a
\* bijection onto the places.
LEMMA Ranks ==
  ASSUME NEW I, IsFiniteSet(I), NEW R, LinearOrder(R, I)
  PROVE  /\ Rank(R, I) \in Bijection(I, 1..Cardinality(I))
         /\ \A i, j \in I : Rank(R, I)[i] <= Rank(R, I)[j] <=> <<i, j>> \in R
<1> DEFINE Upto(i) == {j \in I : <<j, i>> \in R}
           n == Cardinality(I)
           rank == Rank(R, I)
<1>1. \A i \in I : IsFiniteSet(Upto(i)) /\ Cardinality(Upto(i)) \in 1..n
  <2> SUFFICES ASSUME NEW i \in I PROVE IsFiniteSet(Upto(i)) /\ Cardinality(Upto(i)) \in 1..n
    OBVIOUS
  <2>1. IsFiniteSet(Upto(i)) /\ Cardinality(Upto(i)) <= n
    <3> HIDE DEF Upto
    <3>1. Upto(i) \in SUBSET I
      BY DEF Upto
    <3> QED BY <3>1, FS_Subset
  <2>2. Cardinality(Upto(i)) \in Nat /\ n \in Nat
    BY <2>1, FS_CardinalityType
  <2>3. Upto(i) # {}
    BY DEF LinearOrder
  <2>4. Cardinality(Upto(i)) # 0
    BY <2>1, <2>3, FS_EmptySet
  <2> QED BY <2>1, <2>2, <2>4
<1>2. \A i \in I : rank[i] = Cardinality(Upto(i))
  BY DEF Rank
<1>3. ASSUME NEW i \in I, NEW j \in I, <<i, j>> \in R, i # j
      PROVE  rank[i] < rank[j]
  <2>1. Upto(i) \in SUBSET Upto(j) /\ j \in Upto(j) /\ j \notin Upto(i)
    BY <1>3 DEF LinearOrder
  <2>2. Cardinality(Upto(i)) <= Cardinality(Upto(j)) /\ Cardinality(Upto(i)) # Cardinality(Upto(j))
    <3> HIDE DEF Upto
    <3> QED BY <1>1, <2>1, FS_Subset
  <2>3. Cardinality(Upto(i)) \in Nat /\ Cardinality(Upto(j)) \in Nat
    <3> HIDE DEF Upto
    <3> QED BY <1>1, FS_CardinalityType
  <2>4. Cardinality(Upto(i)) < Cardinality(Upto(j))
    <3> HIDE DEF Upto
    <3> QED BY <2>2, <2>3
  <2> QED BY <1>2, <2>4
<1>4. \A i, j \in I : rank[i] <= rank[j] <=> <<i, j>> \in R
  <2> SUFFICES ASSUME NEW i \in I, NEW j \in I PROVE rank[i] <= rank[j] <=> <<i, j>> \in R
    OBVIOUS
  <2>1. rank[i] \in Int /\ rank[j] \in Int
    <3> HIDE DEF Upto, rank
    <3> QED BY <1>1, <1>2, FS_CardinalityType
  <2>2. CASE i = j
    BY <2>1, <2>2 DEF LinearOrder
  <2>3. CASE i # j
    <3> HIDE DEF Upto, rank
    <3>1. CASE <<i, j>> \in R
      BY <1>3, <2>1, <2>3, <3>1
    <3>2. CASE <<i, j>> \notin R
      <4>1. <<j, i>> \in R
        BY <3>2 DEF LinearOrder
      <4> QED BY <1>3, <2>1, <2>3, <3>2, <4>1
    <3> QED BY <3>1, <3>2
  <2> QED BY <2>2, <2>3
<1>5. rank \in [I -> 1..n]
  BY <1>1, <1>2 DEF Rank
<1> HIDE DEF rank, Upto
<1>6. rank \in Injection(I, 1..n)
  <2>1. \A i, j \in I : rank[i] = rank[j] => i = j
    <3> SUFFICES ASSUME NEW i \in I, NEW j \in I, rank[i] = rank[j] PROVE i = j
      OBVIOUS
    <3>1. rank[i] \in Int
      BY <1>5, FS_CardinalityType
    <3> QED BY <1>4, <3>1 DEF LinearOrder
  <2> QED BY <1>5, <2>1 DEF Injection, IsInjective
<1>7. n \in Nat /\ IsFiniteSet(1..n) /\ Cardinality(1..n) = n
  BY FS_CardinalityType, FS_Interval
<1>8. rank \in Surjection(I, 1..n)
  BY <1>6, <1>7, FS_Injection
<1> QED BY <1>4, <1>6, <1>8 DEF Bijection, rank

\* Every place is taken.
LEMMA RankTaken ==
  ASSUME NEW I, IsFiniteSet(I), NEW R, LinearOrder(R, I), NEW n \in Nat, n = Cardinality(I)
  PROVE  \A k \in 1..n : \E i \in I : Rank(R, I)[i] = k
BY Ranks, FS_CardinalityType DEF Bijection, Surjection

Follows(q, n, R, I) ==
  /\ \A i \in I : \E k \in 1..n : q[k] = i
  /\ \A k, l \in 1..n : k <= l <=> <<q[k], q[l]>> \in R

\* Once each entry has its rank, the order is there.
LEMMA Arranged ==
  ASSUME NEW I, IsFiniteSet(I), NEW R, LinearOrder(R, I), NEW n \in Nat, n = Cardinality(I),
         NEW q \in [1..n -> I], \A k \in 1..n : Rank(R, I)[q[k]] = k
  PROVE  Follows(q, n, R, I)
<1> DEFINE rank == Rank(R, I)
<1> HIDE DEF rank
<1>1. rank \in Bijection(I, 1..n) /\ \A i, j \in I : rank[i] <= rank[j] <=> <<i, j>> \in R
  BY Ranks DEF rank
<1>2. rank \in [I -> 1..n] /\ \A i, j \in I : rank[i] = rank[j] => i = j
  BY <1>1 DEF Bijection, Injection, IsInjective
<1>3. n \in Nat
  BY FS_CardinalityType
<1>4. \A k \in 1..n : rank[q[k]] = k
  BY DEF rank
<1>5. \A i \in I : rank[i] \in 1..n /\ q[rank[i]] = i
  BY <1>2, <1>4
<1>6. \A k, l \in 1..n : k <= l <=> <<q[k], q[l]>> \in R
  <2> SUFFICES ASSUME NEW k \in 1..n, NEW l \in 1..n PROVE k <= l <=> <<q[k], q[l]>> \in R
    OBVIOUS
  <2>1. q[k] \in I /\ q[l] \in I /\ rank[q[k]] = k /\ rank[q[l]] = l
    BY <1>4
  <2> QED BY <1>1, <1>3, <2>1
<1> QED BY <1>5, <1>6 DEF Follows

\* InOrder lists each index of a set once, upwards.
LEMMA InOrderFacts ==
  ASSUME NEW I \in SUBSET Nat, IsFiniteSet(I)
  PROVE  /\ Cardinality(I) \in Nat
         /\ InOrder(I) \in [1..Cardinality(I) -> I]
         /\ \A i \in I : \E k \in 1..Cardinality(I) : InOrder(I)[k] = i
         /\ \A k, l \in 1..Cardinality(I) : k <= l <=> InOrder(I)[k] <= InOrder(I)[l]
<1> DEFINE R == {p \in I \X I : p[1] <= p[2]}
           n == Cardinality(I)
<1>1. \A i, j \in I : <<i, j>> \in R <=> i <= j
  OBVIOUS
<1> HIDE DEF R, n
<1>0. n \in Nat /\ n = Cardinality(I)
  BY FS_CardinalityType DEF n
<1>2. LinearOrder(R, I)
  BY <1>1 DEF LinearOrder
<1>3. \A i \in I : Rank(R, I)[i] = Cardinality({j \in I : j <= i})
  <2>1. \A i \in I : {j \in I : <<j, i>> \in R} = {j \in I : j <= i}
    BY <1>1
  <2> QED BY <2>1 DEF Rank
<1>4. \A k \in 1..n : InOrder(I)[k] \in I /\ Rank(R, I)[InOrder(I)[k]] = k
  <2> SUFFICES ASSUME NEW k \in 1..n PROVE InOrder(I)[k] \in I /\ Rank(R, I)[InOrder(I)[k]] = k
    OBVIOUS
  <2>1. \E i \in I : Rank(R, I)[i] = k
    BY <1>0, <1>2, RankTaken
  <2>2. InOrder(I)[k] = CHOOSE i \in I : Cardinality({j \in I : j <= i}) = k
    BY DEF InOrder, n
  <2>3. \E i \in I : Cardinality({j \in I : j <= i}) = k
    BY <1>3, <2>1
  <2> QED BY <1>3, <2>2, <2>3
<1>5. InOrder(I) \in [1..n -> I]
  BY <1>4 DEF InOrder, n
<1>6. /\ \A i \in I : \E k \in 1..n : InOrder(I)[k] = i
      /\ \A k, l \in 1..n : k <= l <=> <<InOrder(I)[k], InOrder(I)[l]>> \in R
  <2> DEFINE q == InOrder(I)
  <2>1. q \in [1..n -> I] /\ \A k \in 1..n : Rank(R, I)[q[k]] = k
    BY <1>4, <1>5
  <2> HIDE DEF q
  <2>2. /\ \A i \in I : \E k \in 1..n : q[k] = i
        /\ \A k, l \in 1..n : k <= l <=> <<q[k], q[l]>> \in R
    BY <1>0, <1>2, <2>1, Arranged DEF Follows
  <2> QED BY <2>2 DEF q
<1>7. \A k, l \in 1..n : k <= l <=> InOrder(I)[k] <= InOrder(I)[l]
  BY <1>1, <1>4, <1>6
<1> QED BY <1>5, <1>6, <1>7, FS_CardinalityType DEF n

\* The order of sorted(): by two keys, the greatest first, and otherwise as before.
Ahead(a, b, j, i) == a[j] > a[i] \/ (a[j] = a[i] /\ b[j] > b[i])

PlaceOf(a, b, n, i) ==
  Cardinality({j \in 1..n : Ahead(a, b, j, i) \/ (j <= i /\ ~Ahead(a, b, i, j))})

\* The order of a sort by two numbers and then by place is transitive.
LEMMA AheadOrder ==
  ASSUME NEW x \in Int, NEW y \in Int, NEW z \in Int,
         NEW u \in Int, NEW v \in Int, NEW w \in Int,
         NEW i \in Int, NEW j \in Int, NEW k \in Int,
         \/ x > y \/ (x = y /\ u > v)
         \/ i <= j /\ ~(y > x \/ (x = y /\ v > u)),
         \/ y > z \/ (y = z /\ v > w)
         \/ j <= k /\ ~(z > y \/ (y = z /\ w > v))
  PROVE  \/ x > z \/ (x = z /\ u > w)
         \/ i <= k /\ ~(z > x \/ (x = z /\ w > u))
OBVIOUS

Behind(a, b, n) ==
  {p \in (1..n) \X (1..n) : Ahead(a, b, p[1], p[2]) \/ (p[1] <= p[2] /\ ~Ahead(a, b, p[2], p[1]))}

\* It is a linear order of the indices, and PlaceOf is the rank in it.
LEMMA BehindOrder ==
  ASSUME NEW n \in Nat, NEW a \in [1..n -> Int], NEW b \in [1..n -> Int]
  PROVE  /\ IsFiniteSet(1..n) /\ n = Cardinality(1..n)
         /\ LinearOrder(Behind(a, b, n), 1..n)
         /\ \A i \in 1..n : Rank(Behind(a, b, n), 1..n)[i] = PlaceOf(a, b, n, i)
         /\ \A i, j \in 1..n : <<i, j>> \in Behind(a, b, n) => a[i] >= a[j]
<1> DEFINE R == Behind(a, b, n)
<1>1. \A i, j \in 1..n :
        <<i, j>> \in R <=> Ahead(a, b, i, j) \/ (i <= j /\ ~Ahead(a, b, j, i))
  BY DEF Behind
<1> HIDE DEF R
<1>2. LinearOrder(R, 1..n)
  <2>1. ASSUME NEW i \in 1..n, NEW j \in 1..n
        PROVE  /\ <<i, j>> \in R \/ <<j, i>> \in R
               /\ <<i, j>> \in R /\ <<j, i>> \in R => i = j
    <3>1. i \in Int /\ j \in Int /\ a[i] \in Int /\ b[i] \in Int /\ a[j] \in Int /\ b[j] \in Int
      OBVIOUS
    <3> QED BY <1>1, <3>1 DEF Ahead
  <2>2. ASSUME NEW i \in 1..n, NEW j \in 1..n, NEW k \in 1..n, <<i, j>> \in R, <<j, k>> \in R
        PROVE  <<i, k>> \in R
    <3>1. a[i] \in Int /\ b[i] \in Int /\ a[j] \in Int /\ b[j] \in Int /\ a[k] \in Int /\ b[k] \in Int
      OBVIOUS
    <3>2. /\ Ahead(a, b, i, j) \/ (i <= j /\ ~Ahead(a, b, j, i))
          /\ Ahead(a, b, j, k) \/ (j <= k /\ ~Ahead(a, b, k, j))
      BY <1>1, <2>2
    <3>3. Ahead(a, b, i, k) \/ (i <= k /\ ~Ahead(a, b, k, i))
      BY <3>1, <3>2, AheadOrder DEF Ahead
    <3> QED BY <1>1, <3>3
  <2> QED BY <2>1, <2>2 DEF LinearOrder
<1>3. ASSUME NEW i \in 1..n PROVE Rank(R, 1..n)[i] = PlaceOf(a, b, n, i)
  <2>1. {j \in 1..n : <<j, i>> \in R}
          = {j \in 1..n : Ahead(a, b, j, i) \/ (j <= i /\ ~Ahead(a, b, i, j))}
    BY <1>1
  <2> QED BY <2>1 DEF Rank, PlaceOf
<1>4. ASSUME NEW i \in 1..n, NEW j \in 1..n, <<i, j>> \in R PROVE a[i] >= a[j]
  <2>1. Ahead(a, b, i, j) \/ ~Ahead(a, b, j, i)
    BY <1>1, <1>4
  <2>2. a[i] \in Int /\ a[j] \in Int
    OBVIOUS
  <2> QED BY <2>1, <2>2 DEF Ahead
<1> QED BY <1>2, <1>3, <1>4, FS_Interval DEF R

\* So every place of a sorted sequence is taken by an index.
LEMMA PlaceTaken ==
  ASSUME NEW n \in Nat, NEW a \in [1..n -> Int], NEW b \in [1..n -> Int]
  PROVE  \A k \in 1..n : \E i \in 1..n : PlaceOf(a, b, n, i) = k
<1> DEFINE I == 1..n
           R == Behind(a, b, n)
<1>1. /\ IsFiniteSet(I) /\ n = Cardinality(I) /\ LinearOrder(R, I)
      /\ \A i \in I : Rank(R, I)[i] = PlaceOf(a, b, n, i)
  BY BehindOrder
<1>2. \A k \in 1..n : \E i \in I : Rank(R, I)[i] = k
  <2> HIDE DEF I, R
  <2> QED BY <1>1, RankTaken
<1> QED BY <1>1, <1>2

Greatest(q, n, a) ==
  /\ \A i \in 1..n : \E k \in 1..n : q[k] = i
  /\ \A k, l \in 1..n : q[k] = q[l] => k = l
  /\ \A k, l \in 1..n : k <= l => a[q[k]] >= a[q[l]]

\* And at a later place the first number is not greater.
LEMMA PlacesSorted ==
  ASSUME NEW n \in Nat, NEW a \in [1..n -> Int], NEW b \in [1..n -> Int],
         NEW q \in [1..n -> 1..n], \A k \in 1..n : PlaceOf(a, b, n, q[k]) = k
  PROVE  Greatest(q, n, a)
<1> DEFINE R == Behind(a, b, n)
           I == 1..n
<1>1. /\ IsFiniteSet(I) /\ n = Cardinality(I) /\ LinearOrder(R, I)
      /\ \A i \in I : Rank(R, I)[i] = PlaceOf(a, b, n, i)
      /\ \A i, j \in I : <<i, j>> \in R => a[i] >= a[j]
  BY BehindOrder
<1>2. \A k \in 1..n : Rank(R, I)[q[k]] = k
  BY <1>1
<1>3. q \in [1..n -> I]
  OBVIOUS
<1>4. \A k, l \in 1..n : q[k] = q[l] => k = l
  BY <1>2
<1>5. \A k \in 1..n : q[k] \in I
  OBVIOUS
<1>6. /\ \A i \in I : \E k \in 1..n : q[k] = i
      /\ \A k, l \in 1..n : k <= l <=> <<q[k], q[l]>> \in R
  <2> HIDE DEF I, R
  <2>1. IsFiniteSet(I) /\ n = Cardinality(I) /\ LinearOrder(R, I)
    BY <1>1
  <2>2. q \in [1..n -> I] /\ \A k \in 1..n : Rank(R, I)[q[k]] = k
    BY <1>2, <1>3
  <2>3. Follows(q, n, R, I)
    BY <2>1, <2>2, Arranged
  <2> QED BY <2>3 DEF Follows
<1>7. \A k, l \in 1..n : k <= l => a[q[k]] >= a[q[l]]
  BY <1>1, <1>5, <1>6
<1> QED BY <1>4, <1>6, <1>7 DEF Greatest

Picks(p, n, a, b) ==
  \A k \in 1..n : (\E i \in 1..n : PlaceOf(a, b, n, i) = k)
                     => p[k] \in 1..n /\ PlaceOf(a, b, n, p[k]) = k

Arranges(p, n, a) ==
  \E q \in [1..n -> 1..n] : (\A k \in 1..n : q[k] = p[k]) /\ Greatest(q, n, a)

\* Whatever picks the entry of each place arranges all of them, the greatest first.
LEMMA SortedByKeys ==
  ASSUME NEW n \in Nat, NEW a \in [1..n -> Int], NEW b \in [1..n -> Int],
         NEW p, Picks(p, n, a, b)
  PROVE  Arranges(p, n, a)
<1> DEFINE q == [k \in 1..n |-> p[k]]
<1>1. ASSUME NEW k \in 1..n PROVE p[k] \in 1..n /\ PlaceOf(a, b, n, p[k]) = k
  <2>1. \E i \in 1..n : PlaceOf(a, b, n, i) = k
    BY PlaceTaken
  <2> QED BY <2>1 DEF Picks
<1>2. q \in [1..n -> 1..n] /\ \A k \in 1..n : q[k] = p[k]
  BY <1>1
<1> HIDE DEF q
<1>3. \A k \in 1..n : PlaceOf(a, b, n, q[k]) = k
  BY <1>1, <1>2
<1>4. Greatest(q, n, a)
  BY <1>2, <1>3, PlacesSorted
<1> QED BY <1>2, <1>4 DEF Arranges

-----------------------------------------------------------------------------
Severities == DOMAIN SeverityRank

\* The severities are ranked from info, 0, to critical, 4.
LEMMA RankTyped ==
  /\ SeverityRank \in [Severities -> 0..4]
  /\ \A s, t \in Severities : SeverityRank[s] = SeverityRank[t] <=> s = t
  /\ \A s \in Severities : s # "info" <=> SeverityRank[s] > 0
BY DEF Severities, SeverityRank

\* The list t is the list s sorted by the keys a.
Sorts(t, s, n, a) ==
  /\ t = [k \in 1..n |-> t[k]]
  /\ \E q \in [1..n -> 1..n] : (\A k \in 1..n : t[k] = s[q[k]]) /\ Greatest(q, n, a)

RanksOf(s, n) == [i \in 1..n |-> SeverityRank[s[i].severity]]

\* The ranking of findings has the same findings, the most severe first.
LEMMA SortedFindings ==
  ASSUME NEW n \in Nat, NEW s, DOMAIN s = 1..n,
         \A i \in 1..n : s[i].severity \in Severities /\ s[i].score \in Int
  PROVE  Sorts(SortBy(s, Worse), s, n, RanksOf(s, n))
<1> DEFINE a == RanksOf(s, n)
           b == [i \in 1..n |-> s[i].score]
           place(i) == Cardinality({j \in DOMAIN s : \/ Worse(s[j], s[i])
                                                     \/ j <= i /\ ~Worse(s[i], s[j])})
           q == [k \in 1..n |-> CHOOSE i \in DOMAIN s : place(i) = k]
           t == SortBy(s, Worse)
<1>1. a \in [1..n -> Int] /\ b \in [1..n -> Int]
  BY RankTyped DEF RanksOf
<1>2. \A i, j \in 1..n : Worse(s[j], s[i]) <=> Ahead(a, b, j, i)
  BY RankTyped DEF Worse, Ahead, RanksOf
<1>3. t = [k \in 1..n |-> s[q[k]]]
  BY DEF SortBy
<1>4. \A i \in 1..n : place(i) = PlaceOf(a, b, n, i)
  <2> SUFFICES ASSUME NEW i \in 1..n PROVE place(i) = PlaceOf(a, b, n, i)
    OBVIOUS
  <2>1. {j \in DOMAIN s : Worse(s[j], s[i]) \/ (j <= i /\ ~Worse(s[i], s[j]))}
          = {j \in 1..n : Ahead(a, b, j, i) \/ (j <= i /\ ~Ahead(a, b, i, j))}
    BY <1>2
  <2> QED BY <2>1 DEF PlaceOf
<1>5. \A k \in 1..n : q[k] = CHOOSE i \in DOMAIN s : place(i) = k
  OBVIOUS
<1> HIDE DEF a, b, q, place, t
<1>6. Picks(q, n, a, b)
  <2>1. ASSUME NEW k \in 1..n, \E i \in 1..n : PlaceOf(a, b, n, i) = k
        PROVE  q[k] \in 1..n /\ PlaceOf(a, b, n, q[k]) = k
    <3>1. \E i \in DOMAIN s : place(i) = k
      BY <1>4, <2>1
    <3> QED BY <1>4, <1>5, <3>1
  <2> QED BY <2>1 DEF Picks
<1>7. Arranges(q, n, a)
  BY <1>1, <1>6, SortedByKeys
<1>8. Sorts(t, s, n, a)
  BY <1>3, <1>7 DEF Arranges, Sorts
<1> QED BY <1>8 DEF a, t

-----------------------------------------------------------------------------
(* Merging the findings of the tools.                                      *)

Distinct(s) == \A i, j \in DOMAIN s : SameFinding(s[i], s[j]) => i = j

\* One more finding after the first k - 1.
Kept(g, n, s) == g[0] = <<>> /\ \A k \in 1..n : g[k] = Keep(g[k - 1], s[k])

\* One more finding keeps types and URLs distinct.
LEMMA KeepTyped ==
  ASSUME NEW R \in SUBSET RawFinding, NEW seen \in Seq(R), NEW f \in R
  PROVE  /\ Keep(seen, f) \in Seq(R)
         /\ Distinct(seen) => Distinct(Keep(seen, f))
<1> DEFINE places == {i \in DOMAIN seen : SameFinding(seen[i], f)}
           i == CHOOSE i \in places : TRUE
<1>1. CASE places = {}
  <2>1. Keep(seen, f) = Append(seen, f)
    BY <1>1 DEF Keep
  <2>2. \A k \in DOMAIN seen : ~SameFinding(seen[k], f) /\ ~SameFinding(f, seen[k])
    BY <1>1 DEF SameFinding
  <2> QED BY <2>1, <2>2 DEF Distinct
<1>2. CASE places # {} /\ SeverityRank[f.severity] > SeverityRank[seen[i].severity]
  <2>1. Keep(seen, f) = [seen EXCEPT ![i] = f] /\ i \in places
    BY <1>2 DEF Keep
  <2> HIDE DEF i
  <2>2. i \in DOMAIN seen /\ SameFinding(seen[i], f)
    BY <2>1
  <2>3. Keep(seen, f) \in Seq(R)
    BY <2>1, <2>2
  <2>4. ASSUME Distinct(seen), NEW k \in DOMAIN seen, NEW l \in DOMAIN seen,
               SameFinding(Keep(seen, f)[k], Keep(seen, f)[l])
        PROVE  k = l
    <3>1. SameFinding(seen[k], seen[l])
      BY <2>1, <2>2, <2>4 DEF SameFinding
    <3> QED BY <2>4, <3>1 DEF Distinct
  <2> QED BY <2>1, <2>3, <2>4 DEF Distinct
<1>3. CASE places # {} /\ ~(SeverityRank[f.severity] > SeverityRank[seen[i].severity])
  BY <1>3 DEF Keep
<1> QED BY <1>1, <1>2, <1>3

\* deduplicate_findings takes the findings one by one.
LEMMA DeduplicateUnrolls ==
  ASSUME NEW R \in SUBSET RawFinding, NEW n \in Nat, NEW s \in [1..n -> R]
  PROVE  \E g : Kept(g, n, s) /\ Deduplicate(s) = g[n]
<1> DEFINE step == [p \in Seq(R) \X (1..n) |-> Keep(p[1], s[p[2]])]
           body(iter) == [t \in SUBSET (1..n) |->
             IF t = {} THEN <<>> ELSE Keep(iter[t \ {Max(t)}], s[Max(t)])]
           iter == CHOOSE iter : iter = body(iter)
<1>1. \E i : i = body(i)
  <2>1. step \in [Seq(R) \X (1..n) -> Seq(R)]
    BY KeepTyped
  <2>2. PICK i \in [SUBSET (1..n) -> Seq(R)] : Iterates(i, n, <<>>, step)
    <3> HIDE DEF step
    <3>1. Iterable(n, Seq(R), <<>>, step)
      <4>1. <<>> \in Seq(R)
        OBVIOUS
      <4> QED BY <2>1, <4>1, Iterated, Zenon
    <3> QED BY <3>1 DEF Iterable
  <2>3. ASSUME NEW t \in SUBSET (1..n), t # {}
        PROVE  step[<<i[t \ {Max(t)}], Max(t)>>] = Keep(i[t \ {Max(t)}], s[Max(t)])
    <3>1. Max(t) \in 1..n
      BY <2>3, MaxOf
    <3> QED BY <3>1
  <2>4. i = body(i)
    <3> HIDE DEF step
    <3> QED BY <2>2, <2>3 DEF Iterates
  <2> QED BY <2>4
<1>2. iter = body(iter)
  <2> HIDE DEF body
  <2> QED BY <1>1
<1>3. Deduplicate(s) = iter[1..n]
  <2>1. DOMAIN s = 1..n
    OBVIOUS
  <2> QED BY <2>1 DEF Deduplicate, FoldLeft, MapThenFoldSet
<1> HIDE DEF iter
<1> DEFINE g == [k \in 0..n |-> iter[1..k]]
<1>4. g[0] = <<>>
  BY <1>2
<1>5. ASSUME NEW k \in 1..n PROVE g[k] = Keep(g[k - 1], s[k])
  <2>1. /\ 1..k \in SUBSET (1..n) /\ 1..k # {}
        /\ Max(1..k) = k /\ (1..k) \ {k} = 1..(k - 1)
    BY UpTo
  <2>2. iter[1..k] = Keep(iter[(1..k) \ {Max(1..k)}], s[Max(1..k)])
    BY <1>2, <2>1
  <2>3. g[k] = iter[1..k] /\ g[k - 1] = iter[1..(k - 1)]
    OBVIOUS
  <2> HIDE DEF g, body
  <2> QED BY <2>1, <2>2, <2>3
<1>6. g[n] = iter[1..n]
  OBVIOUS
<1> HIDE DEF g
<1> QED BY <1>3, <1>4, <1>5, <1>6 DEF Kept

\* What it leaves are findings of the tools, of distinct type and URL.
LEMMA Deduplicated ==
  ASSUME NEW R \in SUBSET RawFinding, NEW s \in Seq(R)
  PROVE  Deduplicate(s) \in Seq(R) /\ Distinct(Deduplicate(s))
<1> DEFINE n == Len(s)
<1>1. n \in Nat /\ s \in [1..n -> R]
  OBVIOUS
<1> HIDE DEF n
<1>2. PICK g : Kept(g, n, s) /\ Deduplicate(s) = g[n]
  BY <1>1, DeduplicateUnrolls
<1> DEFINE P == {k \in 0..n : g[k] \in Seq(R) /\ Distinct(g[k])}
<1>3. 0 \in P
  <2>1. g[0] = <<>> /\ 0 \in 0..n
    BY <1>1, <1>2 DEF Kept
  <2>2. <<>> \in Seq(R) /\ DOMAIN <<>> = {}
    OBVIOUS
  <2>3. Distinct(<<>>)
    BY <2>2 DEF Distinct
  <2> QED BY <2>1, <2>2, <2>3
<1>4. ASSUME NEW k \in 1..n, k - 1 \in P PROVE k \in P
  <2>1. g[k] = Keep(g[k - 1], s[k]) /\ s[k] \in R /\ g[k - 1] \in Seq(R) /\ Distinct(g[k - 1])
    BY <1>1, <1>2, <1>4 DEF Kept
  <2>2. g[k] \in Seq(R) /\ Distinct(g[k])
    BY <2>1, KeepTyped
  <2>3. k \in 0..n
    BY <1>1
  <2> QED BY <2>2, <2>3
<1> HIDE DEF P
<1>5. \A k \in 0..n : k \in P
  BY <1>1, <1>3, <1>4, Upward
<1> QED BY <1>1, <1>2, <1>5 DEF P

-----------------------------------------------------------------------------
(* The risk.                                                               *)

\* The sum of the first k values.
Sums(g, n, v) == g[0] = 0 /\ \A k \in 1..n : g[k] = g[k - 1] + v[k]

\* A sum of natural numbers is one.
LEMMA SumsTyped ==
  ASSUME NEW n \in Nat, NEW v \in [1..n -> Nat], NEW g, Sums(g, n, v)
  PROVE  \A k \in 0..n : g[k] \in Nat
<1> DEFINE P == {k \in 0..n : g[k] \in Nat}
<1>1. 0 \in P
  BY DEF Sums
<1>2. ASSUME NEW k \in 1..n, k - 1 \in P PROVE k \in P
  BY <1>2 DEF Sums
<1> HIDE DEF P
<1>3. \A k \in 0..n : k \in P
  BY <1>1, <1>2, Upward
<1> QED BY <1>3 DEF P

\* A sum of greater numbers is greater.
LEMMA SumsGrow ==
  ASSUME NEW n \in Nat, NEW v \in [1..n -> Nat], NEW w \in [1..n -> Nat],
         \A k \in 1..n : v[k] <= w[k], NEW g, Sums(g, n, v), NEW h, Sums(h, n, w)
  PROVE  g[n] <= h[n]
<1>1. \A k \in 0..n : g[k] \in Nat /\ h[k] \in Nat
  BY SumsTyped
<1> DEFINE P == {k \in 0..n : g[k] <= h[k]}
<1>2. 0 \in P
  BY <1>1 DEF Sums
<1>3. ASSUME NEW k \in 1..n, k - 1 \in P PROVE k \in P
  <2>1. g[k] = g[k - 1] + v[k] /\ h[k] = h[k - 1] + w[k] /\ g[k - 1] <= h[k - 1] /\ v[k] <= w[k]
    BY <1>3 DEF Sums
  <2>2. g[k - 1] \in Nat /\ h[k - 1] \in Nat /\ v[k] \in Nat /\ w[k] \in Nat
    BY <1>1, <1>3
  <2> QED BY <2>1, <2>2
<1> HIDE DEF P
<1>4. \A k \in 0..n : k \in P
  BY <1>2, <1>3, Upward
<1> QED BY <1>4 DEF P

\* The risk adds up the weighted findings.
LEMMA TotalIsSum ==
  ASSUME NEW n \in Nat, NEW s, DOMAIN s = 1..n, NEW v \in [1..n -> Nat],
         \A i \in 1..n : Weighted(s[i]) = v[i]
  PROVE  \E g : Sums(g, n, v) /\ Total(s, Weighted) = g[n]
<1> DEFINE step == [p \in Int \X (1..n) |-> p[1] + v[p[2]]]
           body(iter) == [t \in SUBSET (1..n) |->
             IF t = {} THEN 0 ELSE iter[t \ {Max(t)}] + Weighted(s[Max(t)])]
           iter == CHOOSE iter : iter = body(iter)
<1>1. \E i : i = body(i)
  <2>1. step \in [Int \X (1..n) -> Int]
    OBVIOUS
  <2>2. PICK i \in [SUBSET (1..n) -> Int] : Iterates(i, n, 0, step)
    <3> HIDE DEF step
    <3>1. Iterable(n, Int, 0, step)
      <4>1. 0 \in Int
        OBVIOUS
      <4> QED BY <2>1, <4>1, Iterated, Zenon
    <3> QED BY <3>1 DEF Iterable
  <2>3. ASSUME NEW t \in SUBSET (1..n), t # {}
        PROVE  step[<<i[t \ {Max(t)}], Max(t)>>] = i[t \ {Max(t)}] + Weighted(s[Max(t)])
    <3>1. Max(t) \in 1..n
      BY <2>3, MaxOf
    <3> QED BY <3>1
  <2>4. i = body(i)
    <3> HIDE DEF step
    <3> QED BY <2>2, <2>3 DEF Iterates
  <2> QED BY <2>4
<1>2. iter = body(iter)
  <2> HIDE DEF body
  <2> QED BY <1>1
<1>3. Total(s, Weighted) = iter[1..n]
  BY DEF Total, FoldLeft, MapThenFoldSet
<1> HIDE DEF iter
<1> DEFINE g == [k \in 0..n |-> iter[1..k]]
<1>4. g[0] = 0
  BY <1>2
<1>5. ASSUME NEW k \in 1..n PROVE g[k] = g[k - 1] + v[k]
  <2>1. /\ 1..k \in SUBSET (1..n) /\ 1..k # {}
        /\ Max(1..k) = k /\ (1..k) \ {k} = 1..(k - 1)
    BY UpTo
  <2>2. iter[1..k] = iter[(1..k) \ {Max(1..k)}] + Weighted(s[Max(1..k)])
    BY <1>2, <2>1
  <2>3. g[k] = iter[1..k] /\ g[k - 1] = iter[1..(k - 1)]
    OBVIOUS
  <2> HIDE DEF g, body
  <2> QED BY <2>1, <2>2, <2>3
<1>6. g[n] = iter[1..n]
  OBVIOUS
<1> HIDE DEF g
<1> QED BY <1>3, <1>4, <1>5, <1>6 DEF Sums

Judgements == {"confirmed", "tool_attested", "refuted", "unreachable", Disabled}

\* What is refuted has the least confidence, and what nobody judged the most.
LEMMA ConfidenceFacts ==
  ASSUME NEW f, f.verdict \in Judgements
  PROVE  /\ Confidence(f) \in 10..100
         /\ f.verdict = "refuted" => Confidence(f) = 10
         /\ f.verdict = Disabled => Confidence(f) = 100
BY DisabledAssumption DEF Confidence, Judgements, DisabledAssumption

\* Multiplication preserves the order.
LEMMA Scaled ==
  ASSUME NEW w \in Nat, NEW x \in Nat, NEW y \in Nat, x <= y
  PROVE  w * x \in Nat /\ w * y \in Nat /\ w * x <= w * y
OBVIOUS

\* Refuting a finding lowers its part of the risk.
LEMMA WeightFacts ==
  ASSUME NEW f, NEW g, f.severity \in Severities, g.severity = f.severity,
         f.verdict \in Judgements, g.verdict \in Judgements,
         \/ f.verdict = g.verdict \/ f.verdict = "refuted" \/ g.verdict = Disabled
  PROVE  /\ Weighted(f) \in Nat /\ Weighted(g) \in Nat
         /\ Weighted(f) <= Weighted(g)
<1>1. RiskWeight[f.severity] \in Nat
  BY DEF RiskWeight, Severities, SeverityRank
<1>2. Confidence(f) \in Nat /\ Confidence(g) \in Nat /\ Confidence(f) <= Confidence(g)
  <2>1. Confidence(f) \in 10..100 /\ Confidence(g) \in 10..100
    BY ConfidenceFacts
  <2>2. f.verdict = g.verdict => Confidence(f) = Confidence(g)
    BY DEF Confidence
  <2> QED BY <2>1, <2>2, ConfidenceFacts
<1> QED BY <1>1, <1>2, Scaled DEF Weighted

\* A greater total makes no smaller risk, whatever the modules that failed add.
LEMMA RiskGrows ==
  ASSUME NEW a \in Nat, NEW b \in Nat, a <= b, NEW d \in Nat, d > 0, NEW c \in Nat
  PROVE  LET floor == <<c, 2>>
             risk(t) == IF AtMost(<<t, d>>, floor) THEN floor ELSE <<t, d>>
         IN  AtMost(risk(a), risk(b))
<1> DEFINE floor == <<c, 2>>
           risk(t) == IF AtMost(<<t, d>>, floor) THEN floor ELSE <<t, d>>
<1>1. d * a <= d * b /\ c * d \in Nat
  BY Scaled
<1>2. AtMost(<<a, d>>, <<b, d>>)
  BY <1>1 DEF AtMost
<1>3. AtMost(floor, floor)
  BY DEF AtMost
<1>4. ~AtMost(<<b, d>>, floor) => AtMost(floor, <<b, d>>)
  BY <1>1 DEF AtMost
<1>5. AtMost(<<b, d>>, floor) => AtMost(<<a, d>>, floor)
  BY <1>1 DEF AtMost
<1> QED BY <1>2, <1>3, <1>4, <1>5

\* The overall risk grows with the weight of each finding.
LEMMA OverallRiskGrows ==
  ASSUME NEW n \in Nat, NEW A, NEW s \in [1..n -> A], NEW t \in [1..n -> A],
         \A i \in 1..n : Weighted(s[i]) \in Nat /\ Weighted(t[i]) \in Nat /\ Weighted(s[i]) <= Weighted(t[i]),
         NEW failed \in Nat
  PROVE  AtMost(OverallRisk(s, failed), OverallRisk(t, failed))
<1> DEFINE c == IF failed > 4 THEN 4 ELSE failed
           v == [i \in 1..n |-> Weighted(s[i])]
           w == [i \in 1..n |-> Weighted(t[i])]
           d == 200 * n
<1>1. DOMAIN s = 1..n /\ DOMAIN t = 1..n /\ Len(s) = n /\ Len(t) = n /\ (s = <<>> <=> n = 0) /\ (t = <<>> <=> n = 0)
  OBVIOUS
<1>2. /\ v \in [1..n -> Nat] /\ w \in [1..n -> Nat] /\ \A i \in 1..n : v[i] <= w[i]
      /\ \A i \in 1..n : Weighted(s[i]) = v[i] /\ Weighted(t[i]) = w[i]
  OBVIOUS
<1> HIDE DEF v, w
<1>3. PICK g : Sums(g, n, v) /\ Total(s, Weighted) = g[n]
  BY <1>1, <1>2, TotalIsSum
<1>4. PICK h : Sums(h, n, w) /\ Total(t, Weighted) = h[n]
  BY <1>1, <1>2, TotalIsSum
<1>5. g[n] <= h[n] /\ g[n] \in Nat /\ h[n] \in Nat
  <2>1. Sums(g, n, v) /\ Sums(h, n, w) /\ n \in 0..n
    BY <1>3, <1>4
  <2>2. g[n] \in Nat
    BY <1>2, <2>1, SumsTyped
  <2>3. h[n] \in Nat
    BY <1>2, <2>1, SumsTyped
  <2>4. g[n] <= h[n]
    BY <1>2, <2>1, SumsGrow
  <2> QED BY <2>2, <2>3, <2>4
<1>6. c \in Nat
  OBVIOUS
<1>7. CASE n = 0
  <2>1. OverallRisk(s, failed) = OverallRisk(t, failed)
    BY <1>1, <1>7 DEF OverallRisk
  <2>2. s = <<>>
    BY <1>1, <1>7
  <2>3. OverallRisk(s, failed) \in {<<0, 1>>, <<c, 2>>}
    BY <2>2 DEF OverallRisk
  <2> HIDE DEF c
  <2> QED BY <1>6, <2>1, <2>3 DEF AtMost
<1>8. CASE n # 0
  <2> DEFINE floor == <<c, 2>>
             risk(x) == IF AtMost(<<x, d>>, floor) THEN floor ELSE <<x, d>>
  <2>1. OverallRisk(s, failed) = risk(g[n]) /\ OverallRisk(t, failed) = risk(h[n])
    BY <1>1, <1>3, <1>4, <1>8 DEF OverallRisk
  <2>2. d \in Nat /\ d > 0
    BY <1>8
  <2> HIDE DEF d, c
  <2> QED BY <1>5, <1>6, <2>1, <2>2, RiskGrows
<1> QED BY <1>7, <1>8

Finding ==
  [tool: Passive \cup Active, type: STRING, url: STRING, severity: Severities,
   native: {NoScore} \cup 0..100, verdict: {"none"} \cup Judgements, score: Int,
   id: {<<>>} \cup ((Passive \cup Active) \X Nat)]

Judged(s) == \A i \in DOMAIN s : s[i].verdict \in Judgements

\* A verdict changes nothing else.
LEMMA Rejudged ==
  ASSUME NEW f \in Finding, NEW v \in {"none"} \cup Judgements
  PROVE  /\ [f EXCEPT !.verdict = v] \in Finding
         /\ [f EXCEPT !.verdict = v].severity = f.severity
         /\ [f EXCEPT !.verdict = v].verdict = v
         /\ [f EXCEPT !.verdict = v].url = f.url /\ [f EXCEPT !.verdict = v].type = f.type
BY DEF Finding

LEMMA ModulesFinite == IsFiniteSet(Passive \cup Active)
<1>1. IsFiniteSet({"nuclei"}) /\ IsFiniteSet({"testssl"}) /\ IsFiniteSet({"retirejs"})
  BY FS_Singleton
<1>2. IsFiniteSet({"header-checks"}) /\ IsFiniteSet({"zap"}) /\ IsFiniteSet({"sqlmap"})
  BY FS_Singleton
<1>3. IsFiniteSet({"nuclei"} \cup {"testssl"}) /\ IsFiniteSet({"retirejs"} \cup {"header-checks"})
  BY <1>1, <1>2, FS_Union
<1>4. IsFiniteSet(({"nuclei"} \cup {"testssl"}) \cup ({"retirejs"} \cup {"header-checks"}))
  BY <1>3, FS_Union
<1>5. IsFiniteSet({"zap"} \cup {"sqlmap"})
  BY <1>2, FS_Union
<1>6. /\ Passive = ({"nuclei"} \cup {"testssl"}) \cup ({"retirejs"} \cup {"header-checks"})
      /\ Active = {"zap"} \cup {"sqlmap"}
  BY DEF Passive, Active
<1> QED BY <1>4, <1>5, <1>6, FS_Union

\* The property, of any list that verification has judged.
LEMMA RefutationLowers ==
  ASSUME findings \in Seq(Finding), Judged(findings), coverage.failed \subseteq Passive \cup Active
  PROVE  RefutationNeverRaisesRisk
<1> DEFINE n == Len(findings)
           failed == Cardinality(coverage.failed)
           unverified == [i \in DOMAIN findings |-> [findings[i] EXCEPT !.verdict = Disabled]]
           refuted(i) == [findings EXCEPT ![i].verdict = "refuted"]
<1>1. n \in Nat /\ DOMAIN findings = 1..n /\ \A i \in 1..n : findings[i] \in Finding
  OBVIOUS
<1>2. failed \in Nat
  BY ModulesFinite, FS_Subset, FS_CardinalityType
<1>3. \A i \in 1..n : findings[i].severity \in Severities /\ findings[i].verdict \in Judgements
  BY <1>1 DEF Finding, Judged
<1>4. /\ unverified \in [1..n -> Finding]
      /\ \A i \in 1..n : /\ unverified[i].severity = findings[i].severity
                        /\ unverified[i].verdict = Disabled
  <2>1. \A i \in 1..n : LET f == [findings[i] EXCEPT !.verdict = Disabled]
                       IN  f \in Finding /\ f.severity = findings[i].severity /\ f.verdict = Disabled
    BY <1>1, Rejudged DEF Judgements
  <2>2. unverified = [i \in 1..n |-> [findings[i] EXCEPT !.verdict = Disabled]]
    BY <1>1
  <2> QED BY <2>1, <2>2
<1>5. ASSUME NEW i \in 1..n
      PROVE  /\ refuted(i) \in [1..n -> Finding]
             /\ refuted(i)[i].severity = findings[i].severity
             /\ refuted(i)[i].verdict = "refuted"
             /\ \A j \in 1..n : j # i => refuted(i)[j] = findings[j]
  <2> DEFINE f == [findings[i] EXCEPT !.verdict = "refuted"]
  <2>1. f \in Finding /\ f.severity = findings[i].severity /\ f.verdict = "refuted"
    BY <1>1, Rejudged DEF Judgements
  <2>2. refuted(i) = [findings EXCEPT ![i] = f]
    BY <1>1
  <2> HIDE DEF f, refuted
  <2> QED BY <1>1, <2>1, <2>2
<1>6. AtMost(OverallRisk(findings, failed), OverallRisk(unverified, failed))
  <2>1. \A i \in 1..n : /\ Weighted(findings[i]) \in Nat /\ Weighted(unverified[i]) \in Nat
                       /\ Weighted(findings[i]) <= Weighted(unverified[i])
    <3> HIDE DEF unverified
    <3> QED BY <1>3, <1>4, WeightFacts DEF Judgements
  <2>2. findings \in [1..n -> Finding] /\ unverified \in [1..n -> Finding]
    BY <1>1, <1>4
  <2> HIDE DEF unverified, failed, n
  <2> QED BY <1>1, <1>2, <2>1, <2>2, OverallRiskGrows
<1>7. ASSUME NEW i \in DOMAIN findings
      PROVE  AtMost(OverallRisk(refuted(i), failed), OverallRisk(findings, failed))
  <2> DEFINE r == refuted(i)
  <2>1. \A j \in 1..n : /\ Weighted(r[j]) \in Nat /\ Weighted(findings[j]) \in Nat
                       /\ Weighted(r[j]) <= Weighted(findings[j])
    <3> HIDE DEF refuted
    <3> QED BY <1>1, <1>3, <1>5, WeightFacts DEF Judgements
  <2>2. r \in [1..n -> Finding] /\ findings \in [1..n -> Finding]
    BY <1>1, <1>5
  <2> HIDE DEF r, refuted, failed, n
  <2>3. AtMost(OverallRisk(r, failed), OverallRisk(findings, failed))
    BY <1>1, <1>2, <2>1, <2>2, OverallRiskGrows
  <2> QED BY <2>3 DEF r
<1> QED BY <1>6, <1>7 DEF RefutationNeverRaisesRisk

-----------------------------------------------------------------------------
(* The way to scoring.                                                     *)

\* Every finding is graded.
LEMMA GradedTyped ==
  ASSUME NEW f \in Finding
  PROVE  Graded(f).severity \in Severities /\ Graded(f).score \in Int
<1>1. f.severity \in Severities /\ f.native \in Int
  <2>1. NoScore \in Int
    BY DEF NoScore
  <2>2. f.severity \in Severities /\ f.native \in {NoScore} \cup 0..100
    BY DEF Finding
  <2> QED BY <2>1, <2>2
<1>2. SeverityFromScore(f.native) \in Severities
  BY <1>1 DEF SeverityFromScore, Severities, SeverityRank
<1>3. TypicalScore[f.severity] \in Int
  BY <1>1 DEF TypicalScore, Severities, SeverityRank
<1> QED BY <1>1, <1>2, <1>3 DEF Graded

\* Scores and numbers leave what was found, where and by whom.
LEMMA Rescored ==
  ASSUME NEW f \in Finding, NEW v \in {<<>>} \cup ((Passive \cup Active) \X Nat)
  PROVE  LET g == [Scores(f) EXCEPT !.id = v]
         IN  /\ g \in Finding /\ g.id = v
             /\ g.tool = f.tool /\ g.type = f.type /\ g.url = f.url /\ g.verdict = f.verdict
<1>1. Graded(f).severity \in Severities /\ Graded(f).score \in Int
  BY GradedTyped
<1> QED BY <1>1 DEF Scores, Finding

\* The list t is the list s scored, and q tells where each entry was.
Numbered(t, s, q) ==
  /\ DOMAIN t = DOMAIN s /\ q \in [DOMAIN s -> DOMAIN s]
  /\ \A k \in DOMAIN s : /\ t[k].id = <<s[q[k]].tool, q[k]>>
                         /\ t[k].url = s[q[k]].url /\ t[k].type = s[q[k]].type
                         /\ t[k].tool = s[q[k]].tool /\ t[k].verdict = s[q[k]].verdict
  /\ \A i \in DOMAIN s : \E k \in DOMAIN s : q[k] = i
  /\ \A k, l \in DOMAIN s : q[k] = q[l] => k = l

WorstFirst(s) ==
  \A k, l \in DOMAIN s : k <= l => SeverityRank[s[k].severity] >= SeverityRank[s[l].severity]

\* Scoring ranks all the findings and numbers each by its place before.
LEMMA ScoredFacts ==
  ASSUME NEW s \in Seq(Finding)
  PROVE  /\ Scored(s) \in Seq(Finding) /\ DOMAIN Scored(s) = DOMAIN s
         /\ WorstFirst(Scored(s))
         /\ \E q : Numbered(Scored(s), s, q)
<1> DEFINE n == Len(s)
           u == [i \in DOMAIN s |-> [Scores(s[i]) EXCEPT !.id = Identity(s, i)]]
           t == Scored(s)
<1>1. n \in Nat /\ DOMAIN s = 1..n /\ \A i \in 1..n : s[i] \in Finding
  OBVIOUS
<1>2. \A i \in 1..n : /\ u[i] \in Finding /\ u[i].id = <<s[i].tool, i>>
                      /\ u[i].tool = s[i].tool /\ u[i].type = s[i].type /\ u[i].url = s[i].url
                      /\ u[i].verdict = s[i].verdict
  <2> SUFFICES ASSUME NEW i \in 1..n
               PROVE  /\ u[i] \in Finding /\ u[i].id = <<s[i].tool, i>>
                      /\ u[i].tool = s[i].tool /\ u[i].type = s[i].type /\ u[i].url = s[i].url
                      /\ u[i].verdict = s[i].verdict
    OBVIOUS
  <2>1. Identity(s, i) = <<s[i].tool, i>> /\ s[i].tool \in Passive \cup Active
    BY <1>1 DEF Identity, Finding
  <2>2. Identity(s, i) \in {<<>>} \cup ((Passive \cup Active) \X Nat)
    BY <1>1, <2>1
  <2>3. u[i] = [Scores(s[i]) EXCEPT !.id = Identity(s, i)]
    BY <1>1
  <2> QED BY <1>1, <2>1, <2>2, <2>3, Rescored
<1>3. DOMAIN u = 1..n /\ t = SortBy(u, Worse)
  BY <1>1 DEF Scored
<1> HIDE DEF u, t, n
<1>4. \A i \in 1..n : u[i].severity \in Severities /\ u[i].score \in Int
  BY <1>2 DEF Finding
<1>5. Sorts(t, u, n, RanksOf(u, n))
  BY <1>1, <1>3, <1>4, SortedFindings
<1>6. PICK q \in [1..n -> 1..n] : (\A k \in 1..n : t[k] = u[q[k]]) /\ Greatest(q, n, RanksOf(u, n))
  BY <1>5 DEF Sorts
<1>7. /\ \A k \in 1..n : t[k] = u[q[k]] /\ q[k] \in 1..n
      /\ t = [k \in 1..n |-> t[k]]
  BY <1>5, <1>6 DEF Sorts
<1>8. t \in [1..n -> Finding]
  BY <1>2, <1>7
<1>9. t \in Seq(Finding) /\ DOMAIN t = 1..n
  BY <1>1, <1>8
<1>10. WorstFirst(t)
  <2>1. \A k \in 1..n : RanksOf(u, n)[q[k]] = SeverityRank[t[k].severity]
    BY <1>7 DEF RanksOf
  <2>2. \A k, l \in 1..n : k <= l => RanksOf(u, n)[q[k]] >= RanksOf(u, n)[q[l]]
    BY <1>6 DEF Greatest
  <2> QED BY <1>9, <2>1, <2>2 DEF WorstFirst
<1>11. Numbered(t, s, q)
  <2>1. \A k \in 1..n : /\ t[k].id = <<s[q[k]].tool, q[k]>>
                        /\ t[k].url = s[q[k]].url /\ t[k].type = s[q[k]].type
                        /\ t[k].tool = s[q[k]].tool /\ t[k].verdict = s[q[k]].verdict
    BY <1>2, <1>7
  <2> QED BY <1>1, <1>6, <1>7, <1>9, <2>1 DEF Greatest, Numbered
<1> QED BY <1>1, <1>9, <1>10, <1>11 DEF t

\* The findings on their way: as their tools report them until they are
\* judged, then as verification left them, then scored, worst first.
FindingsInv ==
  /\ stage \in {"passive", "active", "verify", "score", "synthesise", "report", "done"}
  /\ findings \in Seq(Finding) /\ Distinct(findings)
  /\ stage \in {"passive", "active", "verify"} => findings \in Seq(RawFinding)
  /\ stage \notin {"passive", "active", "verify"} =>
       unscored \in Seq(Finding) /\ Judged(findings)
  /\ stage = "score" => unscored = findings
  /\ stage \in {"synthesise", "report", "done"} =>
       WorstFirst(findings) /\ \E q : Numbered(findings, unscored, q)

LEMMA RawIsFinding == RawFinding \subseteq Finding
<1> SUFFICES ASSUME NEW f \in RawFinding PROVE f \in Finding
  OBVIOUS
<1>1. NoScore \in Int
  BY DEF NoScore
<1> QED BY <1>1 DEF RawFinding, Finding, Severities

\* So are sequences of them.
LEMMA RawSequences ==
  ASSUME NEW s \in Seq(RawFinding)
  PROVE  s \in Seq(Finding)
BY RawIsFinding

\* What the tools return together are findings of theirs.
LEMMA ResultsTyped ==
  ASSUME NEW tools, NEW raw \in Results(tools)
  PROVE  raw \in Seq(RawFinding)
<1>1. PICK n \in 0..MaxRaw : raw \in [1..n -> {r \in Raw : r.tool \in tools}]
  BY DEF Results
<1>2. \A i \in 1..n : raw[i] \in RawFinding
  BY <1>1, RawAssumption DEF RawAssumption
<1>3. n \in Nat /\ raw \in [1..n -> RawFinding]
  BY <1>1, <1>2, RawAssumption DEF RawAssumption
<1> QED BY <1>3

LEMMA FindingsInit == ReportInit => FindingsInv
<1> SUFFICES ASSUME ReportInit PROVE FindingsInv
  OBVIOUS
<1>1. stage = "passive" /\ findings = <<>>
  BY DEF ReportInit
<1>2. <<>> \in Seq(RawFinding) /\ <<>> \in Seq(Finding) /\ DOMAIN <<>> = {}
  OBVIOUS
<1>3. Distinct(<<>>)
  BY <1>2 DEF Distinct
<1> QED BY <1>1, <1>2, <1>3 DEF FindingsInv

\* Detection merges what the tools report.
LEMMA DetectionFinds ==
  ASSUME FindingsInv, PassiveDetection \/ ActiveDetection
  PROVE  FindingsInv'
<1>1. stage \in {"passive", "active"} /\ stage' \in {"active", "verify"} /\ findings \in Seq(RawFinding)
  BY DEF PassiveDetection, ActiveDetection, FindingsInv
<1>2. findings' \in Seq(RawFinding) /\ Distinct(findings')
  <2>1. CASE PassiveDetection
    <3>1. PICK tools : \E raw \in Results(tools) : findings' = Deduplicate(raw)
      BY <2>1 DEF PassiveDetection
    <3>2. PICK raw \in Results(tools) : findings' = Deduplicate(raw)
      BY <3>1
    <3> QED BY <3>2, ResultsTyped, Deduplicated
  <2>2. CASE ActiveDetection
    <3>1. PICK tools : \E raw \in Results(tools) :
            findings' = findings \/ findings' = Deduplicate(findings \o raw)
      BY <2>2 DEF ActiveDetection
    <3>2. PICK raw \in Results(tools) :
            findings' = findings \/ findings' = Deduplicate(findings \o raw)
      BY <3>1
    <3>3. findings \o raw \in Seq(RawFinding)
      BY <1>1, <3>2, ResultsTyped
    <3> QED BY <1>1, <3>2, <3>3, Deduplicated DEF FindingsInv
  <2> QED BY <2>1, <2>2
<1> QED BY <1>1, <1>2, RawSequences DEF FindingsInv

\* Verification judges each finding and drops none.
LEMMA VerificationJudges ==
  ASSUME FindingsInv, Verification
  PROVE  FindingsInv'
<1> DEFINE WithVerdict(v) == [i \in DOMAIN findings |-> [findings[i] EXCEPT !.verdict = v[i]]]
<1>1. stage = "verify" /\ stage' = "score" /\ findings \in Seq(Finding) /\ Distinct(findings)
  BY DEF Verification, FindingsInv
<1>2. PICK v : (\A i \in DOMAIN findings : v[i] \in Judgements) /\ findings' = WithVerdict(v) /\ unscored' = findings'
  <2>1. PICK v \in [DOMAIN findings -> {"confirmed", "tool_attested", "refuted", "unreachable"}]
                     \cup {[i \in DOMAIN findings |-> Disabled]} :
          findings' = WithVerdict(v)
    BY DEF Verification
  <2>2. \A i \in DOMAIN findings : v[i] \in Judgements
    BY DEF Judgements
  <2> QED BY <2>1, <2>2 DEF Verification
<1>3. \A i \in DOMAIN findings :
        /\ findings[i] \in Finding /\ findings'[i] \in Finding /\ findings'[i].verdict \in Judgements
        /\ findings'[i].url = findings[i].url /\ findings'[i].type = findings[i].type
  <2> SUFFICES ASSUME NEW i \in DOMAIN findings
               PROVE  /\ findings[i] \in Finding /\ findings'[i] \in Finding
                      /\ findings'[i].verdict \in Judgements
                      /\ findings'[i].url = findings[i].url /\ findings'[i].type = findings[i].type
    OBVIOUS
  <2>1. findings[i] \in Finding /\ v[i] \in Judgements
    BY <1>1, <1>2
  <2>2. findings'[i] = [findings[i] EXCEPT !.verdict = v[i]]
    BY <1>2
  <2> QED BY <2>1, <2>2, Rejudged
<1>4. DOMAIN findings' = DOMAIN findings
  BY <1>2
<1>5. findings' \in Seq(Finding)
  <2>1. findings' = [i \in DOMAIN findings |-> findings'[i]]
    BY <1>2
  <2>2. Len(findings) \in Nat /\ DOMAIN findings = 1..Len(findings)
    BY <1>1
  <2>3. findings' \in [1..Len(findings) -> Finding]
    BY <1>3, <2>1, <2>2
  <2> QED BY <2>2, <2>3
<1>6. Distinct(findings') /\ Judged(findings')
  BY <1>1, <1>3, <1>4 DEF Distinct, SameFinding, Judged
<1> QED BY <1>1, <1>2, <1>5, <1>6 DEF FindingsInv

\* Scoring ranks what was judged.
LEMMA ScoringRanks ==
  ASSUME FindingsInv, Scoring
  PROVE  FindingsInv'
<1>1. /\ stage = "score" /\ stage' = "synthesise" /\ findings' = Scored(findings)
      /\ unscored' = unscored /\ unscored = findings /\ findings \in Seq(Finding)
      /\ Distinct(findings) /\ Judged(findings)
  BY DEF Scoring, FindingsInv
<1>2. /\ findings' \in Seq(Finding) /\ DOMAIN findings' = DOMAIN findings
      /\ WorstFirst(findings')
      /\ \E q : Numbered(findings', findings, q)
  BY <1>1, ScoredFacts
<1>3. PICK q : Numbered(findings', findings, q)
  BY <1>2
<1>4. \A k \in DOMAIN findings' : q[k] \in DOMAIN findings
  BY <1>2, <1>3 DEF Numbered
<1>5. Distinct(findings')
  BY <1>1, <1>2, <1>3, <1>4 DEF Distinct, SameFinding, Numbered
<1>6. Judged(findings')
  <2>1. \A k \in DOMAIN findings' : findings'[k].verdict = findings[q[k]].verdict
    BY <1>2, <1>3 DEF Numbered
  <2> QED BY <1>1, <1>4, <2>1 DEF Judged
<1> QED BY <1>1, <1>2, <1>5, <1>6 DEF FindingsInv

LEMMA FindingsStep ==
  ASSUME FindingsInv, [ReportNext]_reportVars
  PROVE  FindingsInv'
<1>1. CASE Synthesis \/ Reporting
  <2>1. /\ UNCHANGED <<findings, unscored>>
        /\ stage \in {"synthesise", "report"} /\ stage' \in {"report", "done"}
    BY <1>1 DEF Synthesis, Reporting, SynthesisSkipped, NothingToSay, NoBudget, NoAnswer,
         LlmAnswers, SynthesisRaises, Synthesised
  <2> QED BY <2>1 DEF FindingsInv
<1>2. CASE UNCHANGED reportVars
  BY <1>2 DEF reportVars, FindingsInv
<1> QED BY <1>1, <1>2, DetectionFinds, VerificationJudges, ScoringRanks DEF ReportNext

-----------------------------------------------------------------------------
(* Truncation.                                                             *)

\* The groups are sorted by severity before they are cut.
LEMMA SortedGroups ==
  ASSUME NEW n \in Nat, NEW s, DOMAIN s = 1..n,
         \A i \in 1..n : s[i].finding.severity \in Severities /\ Len(s[i].urls) \in Int
  PROVE  Sorts(SortBy(s, GroupBefore), s, n, [i \in 1..n |-> SeverityRank[s[i].finding.severity]])
<1> DEFINE a == [i \in 1..n |-> SeverityRank[s[i].finding.severity]]
           b == [i \in 1..n |-> Len(s[i].urls)]
           place(i) == Cardinality({j \in DOMAIN s : \/ GroupBefore(s[j], s[i])
                                                     \/ j <= i /\ ~GroupBefore(s[i], s[j])})
           q == [k \in 1..n |-> CHOOSE i \in DOMAIN s : place(i) = k]
           t == SortBy(s, GroupBefore)
<1>1. a \in [1..n -> Int] /\ b \in [1..n -> Int]
  BY RankTyped
<1>2. \A i, j \in 1..n : GroupBefore(s[j], s[i]) <=> Ahead(a, b, j, i)
  BY RankTyped DEF GroupBefore, Ahead
<1>3. t = [k \in 1..n |-> s[q[k]]]
  BY DEF SortBy
<1>4. \A i \in 1..n : place(i) = PlaceOf(a, b, n, i)
  <2> SUFFICES ASSUME NEW i \in 1..n PROVE place(i) = PlaceOf(a, b, n, i)
    OBVIOUS
  <2>1. {j \in DOMAIN s : GroupBefore(s[j], s[i]) \/ (j <= i /\ ~GroupBefore(s[i], s[j]))}
          = {j \in 1..n : Ahead(a, b, j, i) \/ (j <= i /\ ~Ahead(a, b, i, j))}
    BY <1>2
  <2> QED BY <2>1 DEF PlaceOf
<1>5. \A k \in 1..n : q[k] = CHOOSE i \in DOMAIN s : place(i) = k
  OBVIOUS
<1> HIDE DEF a, b, q, place, t
<1>6. Picks(q, n, a, b)
  <2>1. ASSUME NEW k \in 1..n, \E i \in 1..n : PlaceOf(a, b, n, i) = k
        PROVE  q[k] \in 1..n /\ PlaceOf(a, b, n, q[k]) = k
    <3>1. \E i \in DOMAIN s : place(i) = k
      BY <1>4, <2>1
    <3> QED BY <1>4, <1>5, <3>1
  <2> QED BY <2>1 DEF Picks
<1>7. Arranges(q, n, a)
  BY <1>1, <1>6, SortedByKeys
<1>8. Sorts(t, s, n, a)
  BY <1>3, <1>7 DEF Arranges, Sorts
<1> QED BY <1>8 DEF a, t

\* The rows are sorted by severity before they are cut.
LEMMA SortedRows ==
  ASSUME NEW n \in Nat, NEW s, DOMAIN s = 1..n, \A i \in 1..n : s[i].severity \in Severities
  PROVE  Sorts(SortBy(s, MoreSevere), s, n, RanksOf(s, n))
<1> DEFINE a == RanksOf(s, n)
           b == [i \in 1..n |-> 0]
           place(i) == Cardinality({j \in DOMAIN s : \/ MoreSevere(s[j], s[i])
                                                     \/ j <= i /\ ~MoreSevere(s[i], s[j])})
           q == [k \in 1..n |-> CHOOSE i \in DOMAIN s : place(i) = k]
           t == SortBy(s, MoreSevere)
<1>1. a \in [1..n -> Int] /\ b \in [1..n -> Int]
  BY RankTyped DEF RanksOf
<1>2. \A i, j \in 1..n : MoreSevere(s[j], s[i]) <=> Ahead(a, b, j, i)
  BY RankTyped DEF MoreSevere, Ahead, RanksOf
<1>3. t = [k \in 1..n |-> s[q[k]]]
  BY DEF SortBy
<1>4. \A i \in 1..n : place(i) = PlaceOf(a, b, n, i)
  <2> SUFFICES ASSUME NEW i \in 1..n PROVE place(i) = PlaceOf(a, b, n, i)
    OBVIOUS
  <2>1. {j \in DOMAIN s : MoreSevere(s[j], s[i]) \/ (j <= i /\ ~MoreSevere(s[i], s[j]))}
          = {j \in 1..n : Ahead(a, b, j, i) \/ (j <= i /\ ~Ahead(a, b, i, j))}
    BY <1>2
  <2> QED BY <2>1 DEF PlaceOf
<1>5. \A k \in 1..n : q[k] = CHOOSE i \in DOMAIN s : place(i) = k
  OBVIOUS
<1> HIDE DEF a, b, q, place, t
<1>6. Picks(q, n, a, b)
  <2>1. ASSUME NEW k \in 1..n, \E i \in 1..n : PlaceOf(a, b, n, i) = k
        PROVE  q[k] \in 1..n /\ PlaceOf(a, b, n, q[k]) = k
    <3>1. \E i \in DOMAIN s : place(i) = k
      BY <1>4, <2>1
    <3> QED BY <1>4, <1>5, <3>1
  <2> QED BY <2>1 DEF Picks
<1>7. Arranges(q, n, a)
  BY <1>1, <1>6, SortedByKeys
<1>8. Sorts(t, s, n, a)
  BY <1>3, <1>7 DEF Arranges, Sorts
<1> QED BY <1>8 DEF a, t

\* What is left of the list s: at most as many entries as are rendered, and
\* what is missing is no greater than any of them.
CutTo(t, s, n, a) ==
  \E m \in 0..MaxRendered : \E p \in [1..m -> 1..n] :
    /\ m = n \/ m = MaxRendered
    /\ t = [k \in 1..m |-> s[p[k]]]
    /\ \A i \in 1..n : \/ \E k \in 1..m : p[k] = i
                       \/ m = MaxRendered /\ \A k \in 1..m : a[p[k]] >= a[i]

\* What is short enough is not cut.
LEMMA Whole ==
  ASSUME NEW n \in Nat, NEW s, s = [k \in 1..n |-> s[k]], n <= MaxRendered, NEW a
  PROVE  CutTo(s, s, n, a)
<1> DEFINE p == [k \in 1..n |-> k]
<1>1. n \in 0..MaxRendered /\ p \in [1..n -> 1..n]
  BY RenderedAssumption DEF RenderedAssumption
<1>2. s = [k \in 1..n |-> s[p[k]]] /\ \A i \in 1..n : p[i] = i
  OBVIOUS
<1> HIDE DEF p
<1>3. \A i \in 1..n : \E k \in 1..n : p[k] = i
  BY <1>2
<1> QED BY <1>1, <1>2, <1>3 DEF CutTo

\* The first elements of a sequence.
LEMMA Beginning ==
  ASSUME NEW n \in Nat, NEW t, t = [k \in 1..n |-> t[k]], NEW m \in Nat, m <= n
  PROVE  SubSeq(t, 1, m) = [k \in 1..m |-> t[k]]
<1> DEFINE S == {t[k] : k \in 1..n}
<1>1. \A k \in 1..n : t[k] \in S
  OBVIOUS
<1> HIDE DEF S
<1>2. t \in [1..n -> S]
  BY <1>1
<1>3. t \in Seq(S) /\ Len(t) = n
  BY <1>2
<1>4. /\ SubSeq(t, 1, m) \in Seq(S) /\ Len(SubSeq(t, 1, m)) = m
      /\ \A k \in 1..m : SubSeq(t, 1, m)[k] = t[k]
  BY <1>3
<1> QED BY <1>4

\* A cut of a sort has the first ones, and each one left out is no more severe.
LEMMA Foremost ==
  ASSUME NEW n \in Nat, NEW s, NEW a, NEW t, Sorts(t, s, n, a), n > MaxRendered
  PROVE  CutTo(SubSeq(t, 1, MaxRendered), s, n, a)
<1> DEFINE m == MaxRendered
<1>0. m \in Nat /\ m \in 0..MaxRendered
  BY RenderedAssumption DEF RenderedAssumption
<1>1. PICK q \in [1..n -> 1..n] : (\A k \in 1..n : t[k] = s[q[k]]) /\ Greatest(q, n, a)
  BY DEF Sorts
<1> DEFINE p == [k \in 1..m |-> q[k]]
<1>2. \A k \in 1..m : k \in 1..n
  BY <1>0
<1>3. p \in [1..m -> 1..n]
  BY <1>2
<1>4. SubSeq(t, 1, m) = [k \in 1..m |-> t[k]]
  <2>1. t = [k \in 1..n |-> t[k]]
    BY DEF Sorts
  <2>2. m \in Nat /\ m <= n
    BY <1>0
  <2> HIDE DEF m
  <2> QED BY <2>1, <2>2, Beginning
<1>5. SubSeq(t, 1, m) = [k \in 1..m |-> s[p[k]]]
  BY <1>1, <1>2, <1>4
<1>6. ASSUME NEW i \in 1..n, \A k \in 1..m : p[k] # i, NEW k \in 1..m PROVE a[p[k]] >= a[i]
  <2>1. PICK l \in 1..n : q[l] = i
    BY <1>1 DEF Greatest
  <2>2. l \notin 1..m
    BY <1>6, <2>1
  <2>3. k <= l /\ k \in 1..n
    BY <1>0, <1>2, <2>2
  <2> QED BY <1>1, <2>1, <2>3 DEF Greatest
<1> HIDE DEF p
<1>7. \A i \in 1..n : \/ \E k \in 1..m : p[k] = i
                      \/ m = MaxRendered /\ \A k \in 1..m : a[p[k]] >= a[i]
  BY <1>6
<1>8. /\ MaxRendered = n \/ MaxRendered = MaxRendered
      /\ MaxRendered \in 0..MaxRendered /\ p \in [1..MaxRendered -> 1..n]
      /\ SubSeq(t, 1, MaxRendered) = [k \in 1..MaxRendered |-> s[p[k]]]
      /\ \A i \in 1..n : \/ \E k \in 1..MaxRendered : p[k] = i
                         \/ MaxRendered = MaxRendered /\ \A k \in 1..MaxRendered : a[p[k]] >= a[i]
  BY <1>0, <1>3, <1>5, <1>7
<1> HIDE DEF m
<1> QED BY <1>8 DEF CutTo

\* The same, told of the list that is left.
Keeps(t, s, n, a) ==
  /\ Len(t) \in 0..MaxRendered /\ DOMAIN t = 1..Len(t)
  /\ t = [k \in 1..Len(t) |-> t[k]]
  /\ Len(t) = n \/ Len(t) = MaxRendered
  /\ \A k \in DOMAIN t : \E i \in 1..n : t[k] = s[i]
  /\ \A i \in 1..n :
       \/ \E k \in DOMAIN t : t[k] = s[i]
       \/ /\ Len(t) = MaxRendered
          /\ \A k \in DOMAIN t : \E j \in 1..n : t[k] = s[j] /\ a[j] >= a[i]

\* So each element is there, or what is there is at least as severe.
LEMMA CutKeeps ==
  ASSUME NEW n \in Nat, NEW s, NEW a, NEW t, CutTo(t, s, n, a)
  PROVE  Keeps(t, s, n, a)
<1>1. PICK m \in 0..MaxRendered : \E p \in [1..m -> 1..n] :
        /\ m = n \/ m = MaxRendered
        /\ t = [k \in 1..m |-> s[p[k]]]
        /\ \A i \in 1..n : \/ \E k \in 1..m : p[k] = i
                           \/ m = MaxRendered /\ \A k \in 1..m : a[p[k]] >= a[i]
  BY DEF CutTo
<1>2. PICK p \in [1..m -> 1..n] :
        /\ m = n \/ m = MaxRendered
        /\ t = [k \in 1..m |-> s[p[k]]]
        /\ \A i \in 1..n : \/ \E k \in 1..m : p[k] = i
                           \/ m = MaxRendered /\ \A k \in 1..m : a[p[k]] >= a[i]
  BY <1>1
<1>3. m \in Nat
  BY RenderedAssumption DEF RenderedAssumption
<1>4. DOMAIN t = 1..m /\ Len(t) = m /\ t = [k \in 1..m |-> t[k]]
  BY <1>2, <1>3
<1>5. \A k \in 1..m : p[k] \in 1..n /\ t[k] = s[p[k]]
  BY <1>2
<1>6. ASSUME NEW i \in 1..n
      PROVE  \/ \E k \in DOMAIN t : t[k] = s[i]
             \/ /\ Len(t) = MaxRendered
                /\ \A k \in DOMAIN t : \E j \in 1..n : t[k] = s[j] /\ a[j] >= a[i]
  BY <1>2, <1>4, <1>5
<1> QED BY <1>2, <1>4, <1>5, <1>6 DEF Keeps

GroupRanks(gs, n) == [k \in 1..n |-> SeverityRank[gs[k].finding.severity]]

\* _truncate_groups keeps the worst groups.
LEMMA GroupsKept ==
  ASSUME NEW n \in Nat, NEW gs, gs = [k \in 1..n |-> gs[k]], Len(gs) = n,
         \A k \in 1..n : gs[k].finding.severity \in Severities /\ Len(gs[k].urls) \in Int
  PROVE  Keeps(TruncateGroups(gs), gs, n, GroupRanks(gs, n))
<1>1. DOMAIN gs = 1..n
  OBVIOUS
<1>2. CASE n <= MaxRendered
  BY <1>2, Whole, CutKeeps DEF TruncateGroups
<1>3. CASE ~(n <= MaxRendered)
  <2>1. Sorts(SortBy(gs, GroupBefore), gs, n, GroupRanks(gs, n))
    BY <1>1, SortedGroups DEF GroupRanks
  <2>2. n > MaxRendered
    BY <1>3, RenderedAssumption DEF RenderedAssumption
  <2>3. TruncateGroups(gs) = SubSeq(SortBy(gs, GroupBefore), 1, MaxRendered)
    BY <1>3 DEF TruncateGroups
  <2> DEFINE t == SortBy(gs, GroupBefore)
             a == GroupRanks(gs, n)
  <2> HIDE DEF t, a
  <2>4. CutTo(SubSeq(t, 1, MaxRendered), gs, n, a)
    BY <2>1, <2>2, Foremost DEF t, a
  <2> QED BY <2>3, <2>4, CutKeeps DEF t, a
<1> QED BY <1>2, <1>3

\* _truncate_findings keeps the worst rows.
LEMMA RowsKept ==
  ASSUME NEW s \in Seq(Finding)
  PROVE  Keeps(TruncateFindings(s), s, Len(s), RanksOf(s, Len(s)))
<1> DEFINE n == Len(s)
<1>1. n \in Nat /\ DOMAIN s = 1..n /\ s = [k \in 1..n |-> s[k]] /\ \A i \in 1..n : s[i] \in Finding
  OBVIOUS
<1>0. n = Len(s)
  OBVIOUS
<1> HIDE DEF n
<1>2. CASE n <= MaxRendered
  BY <1>0, <1>1, <1>2, Whole, CutKeeps DEF TruncateFindings
<1>3. CASE ~(n <= MaxRendered)
  <2>0. \A i \in 1..n : s[i].severity \in Severities /\ s[i].score \in Int
    BY <1>1 DEF Finding
  <2>1. Sorts(SortBy(s, Worse), s, n, RanksOf(s, n))
    BY <1>1, <2>0, SortedFindings
  <2>2. n > MaxRendered
    BY <1>1, <1>3, RenderedAssumption DEF RenderedAssumption
  <2>3. TruncateFindings(s) = SubSeq(SortBy(s, Worse), 1, MaxRendered)
    BY <1>0, <1>3 DEF TruncateFindings
  <2> DEFINE t == SortBy(s, Worse)
             a == RanksOf(s, n)
  <2> HIDE DEF t, a
  <2>4. CutTo(SubSeq(t, 1, MaxRendered), s, n, a)
    BY <1>1, <2>1, <2>2, Foremost DEF t, a
  <2> QED BY <1>0, <1>1, <2>3, <2>4, CutKeeps DEF t, a
<1> QED BY <1>2, <1>3

Worthwhile(f) == f.severity # "info" /\ ~LikelyFalsePositive(f)

\* The priorities are rows, and pass over no worthwhile one for a milder one.
Urgent(urgent, rows) ==
  /\ DOMAIN urgent = 1..Len(urgent)
  /\ \A k \in DOMAIN urgent : \E i \in DOMAIN rows : urgent[k] = rows[i]
  /\ \A i \in DOMAIN rows : Worthwhile(rows[i]) =>
       \/ \E k \in DOMAIN urgent : urgent[k] = rows[i]
       \/ /\ Len(urgent) = MaxPriorities
          /\ \A k \in DOMAIN urgent :
               SeverityRank[urgent[k].severity] >= SeverityRank[rows[i].severity]

\* The priorities are the first rows that are not for information only.
LEMMA PriorityFacts ==
  ASSUME NEW n \in Nat, NEW rows, DOMAIN rows = 1..n, \A i \in 1..n : rows[i] \in Finding
  PROVE  Urgent(Priorities(rows), rows)
<1> DEFINE t == SortBy(rows, MoreSevere)
           a == RanksOf(rows, n)
           W == {k \in DOMAIN t : t[k].severity # "info" /\ ~LikelyFalsePositive(t[k])}
           w == InOrder(W)
           m == IF Len(w) < MaxPriorities THEN Len(w) ELSE MaxPriorities
           urgent == [k \in 1..m |-> t[w[k]]]
<1>1. urgent = Priorities(rows)
  BY DEF Priorities
<1>2. Sorts(t, rows, n, a)
  <2>1. \A i \in 1..n : rows[i].severity \in Severities
    BY DEF Finding
  <2> QED BY <2>1, SortedRows
<1>3. PICK q \in [1..n -> 1..n] : (\A k \in 1..n : t[k] = rows[q[k]]) /\ Greatest(q, n, a)
  BY <1>2 DEF Sorts
<1>4. t = [k \in 1..n |-> t[k]]
  BY <1>2 DEF Sorts
<1> HIDE DEF t
<1>5. DOMAIN t = 1..n
  BY <1>4
<1>6. W \in SUBSET Nat /\ IsFiniteSet(W)
  <2>1. W \in SUBSET (1..n)
    BY <1>5
  <2>2. IsFiniteSet(1..n)
    BY FS_Interval
  <2> HIDE DEF W
  <2>3. IsFiniteSet(W)
    BY <2>1, <2>2, FS_Subset
  <2>4. W \in SUBSET Nat
    BY <2>1
  <2> QED BY <2>3, <2>4
<1>7. \A k \in 1..n : t[k].severity # "info" /\ ~LikelyFalsePositive(t[k]) => k \in W
  BY <1>5
<1>8. W \subseteq 1..n
  BY <1>5
<1> HIDE DEF W
<1> DEFINE c == Cardinality(W)
<1>9. /\ c \in Nat /\ w \in [1..c -> W]
      /\ \A i \in W : \E k \in 1..c : w[k] = i
      /\ \A k, l \in 1..c : k <= l <=> w[k] <= w[l]
  BY <1>6, InOrderFacts
<1> HIDE DEF w, c
<1>10. Len(w) = c
  BY <1>9
<1>11. /\ m \in Nat /\ m <= c
       /\ m = c \/ m = MaxPriorities
  BY <1>9, <1>10, RenderedAssumption DEF RenderedAssumption
<1> HIDE DEF m
<1>12. DOMAIN urgent = 1..m /\ Len(urgent) = m /\ \A k \in 1..m : urgent[k] = t[w[k]]
  BY <1>11
<1> HIDE DEF urgent
<1>13. \A k \in 1..m : k \in 1..c /\ w[k] \in 1..n /\ q[w[k]] \in 1..n /\ urgent[k] = rows[q[w[k]]]
  <2> SUFFICES ASSUME NEW k \in 1..m
               PROVE  k \in 1..c /\ w[k] \in 1..n /\ q[w[k]] \in 1..n /\ urgent[k] = rows[q[w[k]]]
    OBVIOUS
  <2>1. k \in 1..c
    BY <1>9, <1>11
  <2>2. w[k] \in 1..n
    BY <1>8, <1>9, <2>1
  <2>3. q[w[k]] \in 1..n /\ t[w[k]] = rows[q[w[k]]]
    BY <1>3, <2>2
  <2> QED BY <1>12, <2>1, <2>2, <2>3
<1>14. ASSUME NEW i \in 1..n, Worthwhile(rows[i]), ~\E k \in 1..m : urgent[k] = rows[i]
       PROVE  /\ m = MaxPriorities
              /\ \A k \in 1..m : SeverityRank[urgent[k].severity] >= SeverityRank[rows[i].severity]
  <2>1. PICK l \in 1..n : q[l] = i
    BY <1>3 DEF Greatest
  <2>2. l \in W
    BY <1>3, <1>7, <1>14, <2>1 DEF Worthwhile
  <2>3. PICK j \in 1..c : w[j] = l
    BY <1>9, <2>2
  <2>4. ~(j \in 1..m)
    BY <1>13, <1>14, <2>1, <2>3
  <2>5. j > m /\ m # c
    BY <1>9, <1>11, <2>4
  <2>6. ASSUME NEW k \in 1..m
        PROVE  SeverityRank[urgent[k].severity] >= SeverityRank[rows[i].severity]
    <3>1. k \in 1..c /\ k <= j
      BY <1>9, <1>11, <1>13, <2>5
    <3>2. w[k] <= l /\ w[k] \in 1..n /\ q[w[k]] \in 1..n
      BY <1>9, <1>13, <2>3, <3>1
    <3>3. a[q[w[k]]] >= a[i]
      BY <1>3, <2>1, <3>2 DEF Greatest
    <3> QED BY <1>13, <3>2, <3>3 DEF RanksOf
  <2> QED BY <1>11, <2>5, <2>6
<1>15. Urgent(urgent, rows)
  BY <1>12, <1>13, <1>14 DEF Urgent
<1> QED BY <1>1, <1>15

-----------------------------------------------------------------------------
(* Groups, rows and priorities.                                            *)

\* A group is described by its first finding and has the URLs of all of them.
Collapsed(g, s) ==
  \E i \in DOMAIN s :
    /\ g.finding = s[i]
    /\ g.urls \in Seq(STRING)
    /\ \A l \in DOMAIN g.urls : \E j \in DOMAIN s : SameGroup(s[j], s[i]) /\ g.urls[l] = s[j].url
    /\ \A j \in DOMAIN s : SameGroup(s[j], s[i]) =>
         i <= j /\ \E l \in DOMAIN g.urls : g.urls[l] = s[j].url

\* The URLs of a group are those of its findings.
LEMMA Instances ==
  ASSUME NEW n \in Nat, NEW s \in [1..n -> Finding], NEW I \in SUBSET (1..n)
  PROVE  LET w == InOrder(I)
             urls == [k \in DOMAIN w |-> s[w[k]].url]
         IN  /\ urls \in Seq(STRING)
             /\ \A l \in DOMAIN urls : \E j \in I : urls[l] = s[j].url
             /\ \A j \in I : \E l \in DOMAIN urls : urls[l] = s[j].url
<1> DEFINE w == InOrder(I)
           urls == [k \in DOMAIN w |-> s[w[k]].url]
           c == Cardinality(I)
<1>1. I \in SUBSET Nat /\ IsFiniteSet(I)
  <2>1. IsFiniteSet(1..n)
    BY FS_Interval
  <2>2. IsFiniteSet(I)
    BY <2>1, FS_Subset
  <2> QED BY <2>2
<1>2. /\ c \in Nat /\ w \in [1..c -> I]
      /\ \A i \in I : \E k \in 1..c : w[k] = i
  BY <1>1, InOrderFacts
<1> HIDE DEF w, c
<1>3. \A j \in I : s[j] \in Finding /\ s[j].url \in STRING
  BY DEF Finding
<1>4. \A k \in 1..c : w[k] \in I /\ urls[k] = s[w[k]].url
  BY <1>2
<1>5. DOMAIN urls = 1..c /\ urls \in [1..c -> STRING]
  BY <1>2, <1>3, <1>4
<1>6. urls \in Seq(STRING)
  BY <1>2, <1>5
<1>7. \A j \in I : \E l \in DOMAIN urls : urls[l] = s[j].url
  BY <1>2, <1>4, <1>5
<1>8. \A l \in DOMAIN urls : \E j \in I : urls[l] = s[j].url
  BY <1>4, <1>5
<1> QED BY <1>6, <1>7, <1>8 DEF w

\* Each finding has a group, which stands for the worst of it.
LEMMA GroupFacts ==
  ASSUME NEW n \in Nat, NEW s \in [1..n -> Finding]
  PROVE  LET gs == Groups(s)
         IN  /\ Len(gs) \in Nat /\ gs = [k \in 1..Len(gs) |-> gs[k]]
             /\ \A k \in DOMAIN gs : Collapsed(gs[k], s)
             /\ \A i \in DOMAIN s : \E k \in DOMAIN gs : SameGroup(gs[k].finding, s[i])
<1> DEFINE F == {i \in DOMAIN s : \A j \in 1..(i - 1) : ~SameGroup(s[j], s[i])}
           firsts == InOrder(F)
           I(k) == {i \in DOMAIN s : SameGroup(s[i], s[firsts[k]])}
           urls(k) == [i \in DOMAIN InOrder(I(k)) |-> s[InOrder(I(k))[i]].url]
           gs == [k \in DOMAIN firsts |-> [finding |-> s[firsts[k]], urls |-> urls(k)]]
           c == Cardinality(F)
<1>1. gs = Groups(s)
  BY DEF Groups
<1>2. DOMAIN s = 1..n
  OBVIOUS
<1>3. F \in SUBSET (1..n) /\ F \in SUBSET Nat /\ IsFiniteSet(F)
  <2>1. IsFiniteSet(1..n) /\ F \in SUBSET (1..n)
    BY <1>2, FS_Interval
  <2> HIDE DEF F
  <2>2. IsFiniteSet(F)
    BY <2>1, FS_Subset
  <2> QED BY <2>1, <2>2
<1>4. \A i \in F : \A j \in 1..(i - 1) : ~SameGroup(s[j], s[i])
  OBVIOUS
<1>5. \A i \in 1..n : (\A j \in 1..(i - 1) : ~SameGroup(s[j], s[i])) => i \in F
  BY <1>2
<1> HIDE DEF F
<1>6. /\ c \in Nat /\ firsts \in [1..c -> F]
      /\ \A i \in F : \E k \in 1..c : firsts[k] = i
  BY <1>3, InOrderFacts
<1> HIDE DEF firsts, c
<1>7. ASSUME NEW k \in 1..c
      PROVE  /\ firsts[k] \in 1..n
             /\ gs[k].finding = s[firsts[k]] /\ gs[k].urls = urls(k)
             /\ urls(k) \in Seq(STRING)
             /\ \A l \in DOMAIN urls(k) : \E j \in I(k) : urls(k)[l] = s[j].url
             /\ \A j \in I(k) : \E l \in DOMAIN urls(k) : urls(k)[l] = s[j].url
  <2>1. I(k) \in SUBSET (1..n)
    BY <1>2
  <2>2. firsts[k] \in 1..n
    BY <1>3, <1>6
  <2>3. gs[k] = [finding |-> s[firsts[k]], urls |-> urls(k)]
    BY <1>6
  <2> HIDE DEF I
  <2>4. /\ urls(k) \in Seq(STRING)
        /\ \A l \in DOMAIN urls(k) : \E j \in I(k) : urls(k)[l] = s[j].url
        /\ \A j \in I(k) : \E l \in DOMAIN urls(k) : urls(k)[l] = s[j].url
    BY <2>1, Instances
  <2> HIDE DEF urls, gs
  <2> QED BY <2>2, <2>3, <2>4
<1>8. Len(gs) = c /\ gs = [k \in 1..c |-> gs[k]] /\ DOMAIN gs = 1..c
  BY <1>6
<1>9. \A k \in 1..c : \A j \in DOMAIN s : j \in I(k) <=> SameGroup(s[j], s[firsts[k]])
  OBVIOUS
<1>9a. \A k \in 1..c : I(k) \subseteq DOMAIN s
  OBVIOUS
<1> HIDE DEF gs, I, urls
<1>10. ASSUME NEW k \in 1..c PROVE Collapsed(gs[k], s)
  <2> DEFINE i == firsts[k]
  <2>1. i \in DOMAIN s /\ gs[k].finding = s[i] /\ gs[k].urls \in Seq(STRING)
    BY <1>2, <1>7
  <2>2. \A l \in DOMAIN gs[k].urls : \E j \in DOMAIN s : SameGroup(s[j], s[i]) /\ gs[k].urls[l] = s[j].url
    <3> SUFFICES ASSUME NEW l \in DOMAIN gs[k].urls
                 PROVE  \E j \in DOMAIN s : SameGroup(s[j], s[i]) /\ gs[k].urls[l] = s[j].url
      OBVIOUS
    <3>1. gs[k].urls = urls(k) /\ l \in DOMAIN urls(k)
      BY <1>7
    <3>2. PICK j \in I(k) : urls(k)[l] = s[j].url
      BY <1>7, <3>1
    <3>3. j \in DOMAIN s /\ SameGroup(s[j], s[firsts[k]])
      BY <1>9, <1>9a, <3>2
    <3> QED BY <3>1, <3>2, <3>3
  <2>3. ASSUME NEW j \in DOMAIN s, SameGroup(s[j], s[i])
        PROVE  i <= j /\ \E l \in DOMAIN gs[k].urls : gs[k].urls[l] = s[j].url
    <3>1. i <= j
      <4>1. i \in F /\ i \in 1..n /\ j \in 1..n
        BY <1>2, <1>6, <1>7
      <4>2. ~(j \in 1..(i - 1))
        BY <1>4, <2>3, <4>1
      <4> QED BY <4>1, <4>2
    <3>2. j \in I(k)
      BY <1>9, <2>3
    <3> QED BY <1>7, <3>1, <3>2
  <2> HIDE DEF i
  <2> QED BY <2>1, <2>2, <2>3 DEF Collapsed
<1>11. ASSUME NEW i \in DOMAIN s PROVE \E k \in 1..c : SameGroup(gs[k].finding, s[i])
  <2> DEFINE J == {j \in 1..n : SameGroup(s[j], s[i])}
  <2>1. J \in SUBSET Nat /\ J # {}
    <3>1. i \in J
      BY <1>2 DEF SameGroup
    <3> QED BY <3>1
  <2>2. \A j \in 1..n : j \in J <=> SameGroup(s[j], s[i])
    OBVIOUS
  <2> HIDE DEF J
  <2>3. PICK j \in J : \A k \in J : j <= k
    BY <2>1, Least
  <2>4. j \in 1..n /\ SameGroup(s[j], s[i])
    BY <2>2, <2>3 DEF J
  <2>5. ASSUME NEW h \in 1..(j - 1) PROVE ~SameGroup(s[h], s[j])
    <3>1. h \in 1..n /\ h < j
      BY <2>4
    <3>2. h \notin J
      BY <2>3, <2>4, <3>1
    <3> QED BY <2>2, <2>4, <3>1, <3>2 DEF SameGroup
  <2>6. j \in F
    BY <1>5, <2>4, <2>5
  <2>7. PICK k \in 1..c : firsts[k] = j
    BY <1>6, <2>6
  <2> QED BY <1>7, <2>4, <2>7
<1> HIDE DEF c
<1>12. c \in Nat
  BY <1>6
<1>13. /\ Len(gs) \in Nat /\ gs = [k \in 1..Len(gs) |-> gs[k]]
       /\ \A k \in DOMAIN gs : Collapsed(gs[k], s)
       /\ \A i \in DOMAIN s : \E k \in DOMAIN gs : SameGroup(gs[k].finding, s[i])
  BY <1>8, <1>10, <1>11, <1>12
<1> QED BY <1>1, <1>13

GroupRecord == [finding: Finding, urls: Seq(STRING) \ {<<>>}]

\* The rows after the first k groups.
Listed(g, n, gs) == g[0] = <<>> /\ \A k \in 1..n : g[k] = g[k - 1] \o RowsOf(gs[k])

\* A group has a row per URL, and at least one.
LEMMA RowsOfTyped ==
  ASSUME NEW g \in GroupRecord
  PROVE  /\ RowsOf(g) \in Seq(Finding) /\ Len(RowsOf(g)) > 0
         /\ DOMAIN RowsOf(g) = DOMAIN g.urls
<1>1. g.finding \in Finding /\ g.urls \in Seq(STRING) /\ g.urls # <<>>
  BY DEF GroupRecord
<1> DEFINE n == Len(g.urls)
<1>2. n \in Nat /\ n > 0 /\ DOMAIN g.urls = 1..n /\ \A i \in 1..n : g.urls[i] \in STRING
  BY <1>1
<1> HIDE DEF n
<1>3. \A i \in 1..n : [g.finding EXCEPT !.url = g.urls[i]] \in Finding
  BY <1>1, <1>2 DEF Finding
<1>4. RowsOf(g) = [i \in 1..n |-> [g.finding EXCEPT !.url = g.urls[i]]]
  BY <1>2 DEF RowsOf
<1>5. RowsOf(g) \in [1..n -> Finding]
  BY <1>3, <1>4
<1> QED BY <1>2, <1>5

\* run_reporting lists the rows group by group.
LEMMA RowsUnroll ==
  ASSUME NEW n \in Nat, NEW gs \in [1..n -> GroupRecord]
  PROVE  \E g : Listed(g, n, gs) /\ Rows(gs) = g[n]
<1> DEFINE step == [p \in Seq(Finding) \X (1..n) |-> p[1] \o RowsOf(gs[p[2]])]
           body(iter) == [t \in SUBSET (1..n) |->
             IF t = {} THEN <<>> ELSE iter[t \ {Max(t)}] \o RowsOf(gs[Max(t)])]
           iter == CHOOSE iter : iter = body(iter)
<1>1. \E i : i = body(i)
  <2>1. step \in [Seq(Finding) \X (1..n) -> Seq(Finding)]
    <3>1. ASSUME NEW s \in Seq(Finding), NEW k \in 1..n PROVE s \o RowsOf(gs[k]) \in Seq(Finding)
      <4>1. RowsOf(gs[k]) \in Seq(Finding)
        BY RowsOfTyped
      <4> QED BY <4>1
    <3> QED BY <3>1
  <2>2. PICK i \in [SUBSET (1..n) -> Seq(Finding)] : Iterates(i, n, <<>>, step)
    <3> HIDE DEF step
    <3>1. Iterable(n, Seq(Finding), <<>>, step)
      <4>1. <<>> \in Seq(Finding)
        OBVIOUS
      <4> QED BY <2>1, <4>1, Iterated, Zenon
    <3> QED BY <3>1 DEF Iterable
  <2>3. ASSUME NEW t \in SUBSET (1..n), t # {}
        PROVE  step[<<i[t \ {Max(t)}], Max(t)>>] = i[t \ {Max(t)}] \o RowsOf(gs[Max(t)])
    <3>1. Max(t) \in 1..n
      BY <2>3, MaxOf
    <3> QED BY <3>1
  <2>4. i = body(i)
    <3> HIDE DEF step
    <3> QED BY <2>2, <2>3 DEF Iterates
  <2> QED BY <2>4
<1>2. iter = body(iter)
  <2> HIDE DEF body
  <2> QED BY <1>1
<1>3. Rows(gs) = iter[1..n]
  <2>1. DOMAIN gs = 1..n
    OBVIOUS
  <2> QED BY <2>1 DEF Rows, FoldLeft, MapThenFoldSet
<1> HIDE DEF iter
<1> DEFINE g == [k \in 0..n |-> iter[1..k]]
<1>4. g[0] = <<>>
  BY <1>2
<1>5. ASSUME NEW k \in 1..n PROVE g[k] = g[k - 1] \o RowsOf(gs[k])
  <2>1. /\ 1..k \in SUBSET (1..n) /\ 1..k # {}
        /\ Max(1..k) = k /\ (1..k) \ {k} = 1..(k - 1)
    BY UpTo
  <2>2. iter[1..k] = iter[(1..k) \ {Max(1..k)}] \o RowsOf(gs[Max(1..k)])
    BY <1>2, <2>1
  <2>3. g[k] = iter[1..k] /\ g[k - 1] = iter[1..(k - 1)]
    OBVIOUS
  <2> HIDE DEF g, body
  <2> QED BY <2>1, <2>2, <2>3
<1>6. g[n] = iter[1..n]
  OBVIOUS
<1> HIDE DEF g
<1> QED BY <1>3, <1>4, <1>5, <1>6 DEF Listed

\* The rows are those of the first k groups, at least one of each.
Carries(rows, gs, k) ==
  /\ rows \in Seq(Finding) /\ Len(rows) >= k
  /\ \A r \in DOMAIN rows : \E l \in 1..k : \E i \in DOMAIN RowsOf(gs[l]) : rows[r] = RowsOf(gs[l])[i]
  /\ \A l \in 1..k : \A i \in DOMAIN RowsOf(gs[l]) : \E r \in DOMAIN rows : rows[r] = RowsOf(gs[l])[i]

\* Every row is one of a group, and every row of a group is listed.
LEMMA RowsCarry ==
  ASSUME NEW n \in Nat, NEW gs \in [1..n -> GroupRecord]
  PROVE  Carries(Rows(gs), gs, n)
<1>1. PICK g : Listed(g, n, gs) /\ Rows(gs) = g[n]
  BY RowsUnroll
<1> DEFINE P == {k \in 0..n : Carries(g[k], gs, k)}
<1>2. 0 \in P
  <2>1. g[0] = <<>> /\ 0 \in 0..n
    BY <1>1 DEF Listed
  <2>2. <<>> \in Seq(Finding) /\ DOMAIN <<>> = {} /\ Len(<<>>) >= 0 /\ 1..0 = {}
    OBVIOUS
  <2>3. Carries(<<>>, gs, 0)
    BY <2>2 DEF Carries
  <2> QED BY <2>1, <2>3
<1>3. ASSUME NEW k \in 1..n, k - 1 \in P PROVE k \in P
  <2> DEFINE a == g[k - 1]
             b == RowsOf(gs[k])
  <2>1. g[k] = a \o b /\ Carries(a, gs, k - 1)
    BY <1>1, <1>3 DEF Listed
  <2>2. b \in Seq(Finding) /\ Len(b) > 0
    BY RowsOfTyped
  <2>3. a \in Seq(Finding) /\ Len(a) >= k - 1
    BY <2>1 DEF Carries
  <2> DEFINE c == a \o b
  <2>b. b = RowsOf(gs[k])
    OBVIOUS
  <2> HIDE DEF a, b
  <2>4. /\ c \in Seq(Finding) /\ Len(c) >= k
        /\ DOMAIN c = 1..(Len(a) + Len(b)) /\ DOMAIN a = 1..Len(a) /\ DOMAIN b = 1..Len(b)
        /\ \A r \in DOMAIN a : r \in DOMAIN c /\ c[r] = a[r]
        /\ \A r \in DOMAIN b : r + Len(a) \in DOMAIN c /\ c[r + Len(a)] = b[r]
    BY <2>2, <2>3
  <2>5. ASSUME NEW r \in DOMAIN c
        PROVE  \E l \in 1..k : \E i \in DOMAIN RowsOf(gs[l]) : c[r] = RowsOf(gs[l])[i]
    <3>1. CASE r \in DOMAIN a
      <4>1. c[r] = a[r]
        BY <2>4, <3>1
      <4>2. PICK l \in 1..(k - 1) : \E i \in DOMAIN RowsOf(gs[l]) : a[r] = RowsOf(gs[l])[i]
        BY <2>1, <3>1 DEF Carries
      <4>3. l \in 1..k
        OBVIOUS
      <4> QED BY <4>1, <4>2, <4>3
    <3>2. CASE r \notin DOMAIN a
      <4>1. r - Len(a) \in DOMAIN b /\ c[r] = b[r - Len(a)]
        BY <2>2, <2>3, <2>4, <3>2
      <4>2. k \in 1..k
        OBVIOUS
      <4> QED BY <2>b, <4>1, <4>2
    <3> QED BY <3>1, <3>2
  <2>6. ASSUME NEW l \in 1..k, NEW i \in DOMAIN RowsOf(gs[l])
        PROVE  \E r \in DOMAIN c : c[r] = RowsOf(gs[l])[i]
    <3>1. CASE l = k
      BY <2>b, <2>4, <3>1
    <3>2. CASE l # k
      <4>1. l \in 1..(k - 1)
        BY <3>2
      <4>2. PICK r \in DOMAIN a : a[r] = RowsOf(gs[l])[i]
        BY <2>1, <4>1 DEF Carries
      <4> QED BY <2>4, <4>2
    <3> QED BY <3>1, <3>2
  <2>7. c \in Seq(Finding) /\ Len(c) >= k /\ g[k] = c
    BY <2>1, <2>4
  <2> HIDE DEF c
  <2>8. Carries(c, gs, k)
    BY <2>5, <2>6, <2>7 DEF Carries
  <2> QED BY <2>7, <2>8
<1> HIDE DEF P
<1>4. \A k \in 0..n : k \in P
  BY <1>2, <1>3, Upward
<1>5. n \in 0..n
  OBVIOUS
<1> QED BY <1>1, <1>4, <1>5 DEF P

\* The group of findings is a group of the report.
LEMMA CollapsedTyped ==
  ASSUME NEW s \in Seq(Finding), NEW g, g = [finding |-> g.finding, urls |-> g.urls], Collapsed(g, s)
  PROVE  g \in GroupRecord
<1>1. PICK i \in DOMAIN s :
        /\ g.finding = s[i] /\ g.urls \in Seq(STRING)
        /\ \A j \in DOMAIN s : SameGroup(s[j], s[i]) => \E l \in DOMAIN g.urls : g.urls[l] = s[j].url
  BY DEF Collapsed
<1>2. s[i] \in Finding
  OBVIOUS
<1>3. PICK l \in DOMAIN g.urls : g.urls[l] = s[i].url
  BY <1>1 DEF SameGroup
<1>4. g.urls # <<>>
  BY <1>3
<1> QED BY <1>1, <1>2, <1>4 DEF GroupRecord

\* The finding that describes a group is the worst of it.
LEMMA LeaderWorst ==
  ASSUME NEW s, WorstFirst(s), NEW g, Collapsed(g, s), NEW i \in DOMAIN s, SameGroup(g.finding, s[i])
  PROVE  /\ SeverityRank[g.finding.severity] >= SeverityRank[s[i].severity]
         /\ \E l \in DOMAIN g.urls : g.urls[l] = s[i].url
BY DEF WorstFirst, Collapsed, SameGroup

\* Every finding has its group, and every URL of a group its row, unless what
\* is there instead is as severe and there is no more room.
Rendered(groups, rows, s) ==
  /\ groups \in Seq(GroupRecord) /\ Len(groups) \in 0..MaxRendered
  /\ \A k \in DOMAIN groups : Collapsed(groups[k], s)
  /\ \A i \in DOMAIN s :
       \/ \E k \in DOMAIN groups : SameGroup(groups[k].finding, s[i])
       \/ /\ Len(groups) = MaxRendered
          /\ \A k \in DOMAIN groups :
               SeverityRank[groups[k].finding.severity] >= SeverityRank[s[i].severity]
  /\ rows \in Seq(Finding) /\ Len(rows) \in 0..MaxRendered
  /\ Len(groups) = MaxRendered => Len(rows) = MaxRendered
  /\ \A r \in DOMAIN rows : \E k \in DOMAIN groups : \E l \in DOMAIN groups[k].urls :
       rows[r] = RowsOf(groups[k])[l]
  /\ \A k \in DOMAIN groups : \A l \in DOMAIN groups[k].urls :
       \/ \E r \in DOMAIN rows : rows[r] = RowsOf(groups[k])[l]
       \/ /\ Len(rows) = MaxRendered
          /\ \A r \in DOMAIN rows :
               SeverityRank[rows[r].severity] >= SeverityRank[groups[k].finding.severity]

\* What rendering does to the groups of ranked findings.
LEMMA GroupsRendered ==
  ASSUME NEW s \in Seq(Finding), WorstFirst(s)
  PROVE  LET groups == TruncateGroups(Groups(s))
         IN  /\ groups \in Seq(GroupRecord) /\ Len(groups) \in 0..MaxRendered
             /\ \A k \in DOMAIN groups : Collapsed(groups[k], s)
             /\ \A i \in DOMAIN s :
                  \/ \E k \in DOMAIN groups : SameGroup(groups[k].finding, s[i])
                  \/ /\ Len(groups) = MaxRendered
                     /\ \A k \in DOMAIN groups :
                          SeverityRank[groups[k].finding.severity] >= SeverityRank[s[i].severity]
<1> DEFINE gs == Groups(s)
           n == Len(gs)
           groups == TruncateGroups(gs)
<1>0. Len(s) \in Nat /\ s \in [1..Len(s) -> Finding]
  OBVIOUS
<1>1. /\ n \in Nat /\ gs = [k \in 1..n |-> gs[k]]
      /\ \A k \in DOMAIN gs : Collapsed(gs[k], s)
      /\ \A i \in DOMAIN s : \E k \in DOMAIN gs : SameGroup(gs[k].finding, s[i])
  BY <1>0, GroupFacts
<1>2. DOMAIN gs = 1..n
  BY <1>1
<1>3. ASSUME NEW k \in 1..n PROVE gs[k] \in GroupRecord
  <2>1. gs[k] = [finding |-> gs[k].finding, urls |-> gs[k].urls]
    <3>1. k \in DOMAIN gs
      BY <1>2
    <3> QED BY <3>1 DEF Groups
  <2> HIDE DEF gs
  <2> QED BY <1>1, <1>2, <2>1, CollapsedTyped
<1>n. n = Len(gs)
  OBVIOUS
<1> HIDE DEF gs, n
<1>4. Keeps(groups, gs, n, GroupRanks(gs, n))
  <2>1. \A k \in 1..n : gs[k].finding.severity \in Severities /\ Len(gs[k].urls) \in Int
    <3> SUFFICES ASSUME NEW k \in 1..n
                 PROVE  gs[k].finding.severity \in Severities /\ Len(gs[k].urls) \in Int
      OBVIOUS
    <3>1. gs[k].finding \in Finding /\ gs[k].urls \in Seq(STRING)
      BY <1>3 DEF GroupRecord
    <3>2. gs[k].finding.severity \in Severities
      BY <3>1 DEF Finding
    <3> QED BY <3>1, <3>2
  <2> QED BY <1>1, <1>n, <2>1, GroupsKept
<1> HIDE DEF groups
<1>5. DOMAIN groups = 1..Len(groups) /\ Len(groups) \in 0..MaxRendered
  BY <1>4 DEF Keeps
<1>5a. \A k \in DOMAIN groups : groups[k] \in GroupRecord /\ Collapsed(groups[k], s)
  BY <1>1, <1>2, <1>3, <1>4 DEF Keeps
<1>6. groups \in Seq(GroupRecord)
  <2>1. groups = [k \in 1..Len(groups) |-> groups[k]] /\ Len(groups) \in Nat
    BY <1>4, RenderedAssumption DEF Keeps, RenderedAssumption
  <2>2. groups \in [1..Len(groups) -> GroupRecord]
    BY <1>5, <1>5a, <2>1
  <2> QED BY <2>1, <2>2
<1>7. ASSUME NEW i \in DOMAIN s, ~\E k \in DOMAIN groups : SameGroup(groups[k].finding, s[i])
      PROVE  /\ Len(groups) = MaxRendered
             /\ \A k \in DOMAIN groups :
                  SeverityRank[groups[k].finding.severity] >= SeverityRank[s[i].severity]
  <2>1. PICK l \in 1..n : SameGroup(gs[l].finding, s[i])
    BY <1>1, <1>2
  <2>2. SeverityRank[gs[l].finding.severity] >= SeverityRank[s[i].severity]
    BY <1>1, <1>2, <2>1, LeaderWorst
  <2>3. /\ Len(groups) = MaxRendered
        /\ \A k \in DOMAIN groups : \E j \in 1..n :
             groups[k] = gs[j] /\ GroupRanks(gs, n)[j] >= GroupRanks(gs, n)[l]
    <3>1. ~\E k \in DOMAIN groups : groups[k] = gs[l]
      BY <1>7, <2>1
    <3> QED BY <1>4, <3>1 DEF Keeps
  <2>4. \A j \in 1..n : /\ GroupRanks(gs, n)[j] = SeverityRank[gs[j].finding.severity]
                        /\ SeverityRank[gs[j].finding.severity] \in Int
    <3> SUFFICES ASSUME NEW j \in 1..n
                 PROVE  /\ GroupRanks(gs, n)[j] = SeverityRank[gs[j].finding.severity]
                        /\ SeverityRank[gs[j].finding.severity] \in Int
      OBVIOUS
    <3>1. gs[j].finding.severity \in Severities
      BY <1>3 DEF GroupRecord, Finding
    <3> QED BY <3>1, RankTyped DEF GroupRanks
  <2>5. SeverityRank[s[i].severity] \in Int
    <3>0. s[i] \in Finding
      OBVIOUS
    <3>1. s[i].severity \in Severities
      BY <3>0 DEF Finding
    <3> QED BY <3>1, RankTyped
  <2>6. ASSUME NEW k \in DOMAIN groups
        PROVE  SeverityRank[groups[k].finding.severity] >= SeverityRank[s[i].severity]
    <3>1. PICK j \in 1..n : groups[k] = gs[j] /\ GroupRanks(gs, n)[j] >= GroupRanks(gs, n)[l]
      BY <2>3
    <3> QED BY <2>2, <2>4, <2>5, <3>1
  <2> QED BY <2>3, <2>6
<1> QED BY <1>5, <1>5a, <1>6, <1>7 DEF groups, gs

\* What rendering does to ranked findings.
LEMMA ReportRendered ==
  ASSUME NEW s \in Seq(Finding), WorstFirst(s)
  PROVE  LET groups == TruncateGroups(Groups(s))
         IN  Rendered(groups, TruncateFindings(Rows(groups)), s)
<1> DEFINE groups == TruncateGroups(Groups(s))
           m == Len(groups)
           all == Rows(groups)
           rows == TruncateFindings(all)
<1>1. /\ groups \in Seq(GroupRecord) /\ m \in 0..MaxRendered
      /\ \A k \in DOMAIN groups : Collapsed(groups[k], s)
      /\ \A i \in DOMAIN s :
           \/ \E k \in DOMAIN groups : SameGroup(groups[k].finding, s[i])
           \/ /\ m = MaxRendered
              /\ \A k \in DOMAIN groups :
                   SeverityRank[groups[k].finding.severity] >= SeverityRank[s[i].severity]
  BY GroupsRendered
<1> HIDE DEF groups
<1>2. m \in Nat /\ groups \in [1..m -> GroupRecord]
  BY <1>1
<1>m. m = Len(groups)
  OBVIOUS
<1> HIDE DEF m
<1>3. Carries(all, groups, m)
  BY <1>2, RowsCarry
<1>4. ASSUME NEW k \in 1..m
      PROVE  /\ DOMAIN RowsOf(groups[k]) = DOMAIN groups[k].urls
             /\ groups[k].finding.severity \in Severities
             /\ \A l \in DOMAIN groups[k].urls :
                  RowsOf(groups[k])[l] = [groups[k].finding EXCEPT !.url = groups[k].urls[l]]
  <2>1. groups[k] \in GroupRecord
    BY <1>2
  <2>2. groups[k].finding.severity \in Severities
    BY <2>1 DEF GroupRecord, Finding
  <2> QED BY <2>1, <2>2, RowsOfTyped DEF RowsOf
<1> HIDE DEF all
<1>5. all \in Seq(Finding) /\ Len(all) >= m
  BY <1>3 DEF Carries
<1>6. Keeps(rows, all, Len(all), RanksOf(all, Len(all)))
  BY <1>5, RowsKept
<1>7. Len(all) \in Nat /\ DOMAIN all = 1..Len(all) /\ \A i \in 1..Len(all) : all[i] \in Finding
  BY <1>5
<1> HIDE DEF rows
<1>8. rows \in Seq(Finding) /\ Len(rows) \in 0..MaxRendered
  <2>1. rows = [k \in 1..Len(rows) |-> rows[k]] /\ Len(rows) \in Nat
    BY <1>6, RenderedAssumption DEF Keeps, RenderedAssumption
  <2>2. \A k \in 1..Len(rows) : rows[k] \in Finding
    BY <1>6, <1>7 DEF Keeps
  <2>3. rows \in [1..Len(rows) -> Finding]
    BY <2>1, <2>2
  <2> QED BY <1>6, <2>1, <2>3 DEF Keeps
<1>9. m = MaxRendered => Len(rows) = MaxRendered
  <2>1. Len(rows) = Len(all) \/ Len(rows) = MaxRendered
    BY <1>6 DEF Keeps
  <2> QED BY <1>2, <1>5, <1>7, <1>8, <2>1
<1>10. ASSUME NEW r \in DOMAIN rows
       PROVE  \E k \in DOMAIN groups : \E l \in DOMAIN groups[k].urls :
                rows[r] = RowsOf(groups[k])[l]
  <2>1. PICK i \in 1..Len(all) : rows[r] = all[i]
    BY <1>6 DEF Keeps
  <2>2. PICK k \in 1..m : \E l \in DOMAIN RowsOf(groups[k]) : all[i] = RowsOf(groups[k])[l]
    BY <1>3, <1>7 DEF Carries
  <2> QED BY <1>2, <1>4, <2>1, <2>2
<1>11. ASSUME NEW k \in DOMAIN groups, NEW l \in DOMAIN groups[k].urls,
              ~\E r \in DOMAIN rows : rows[r] = RowsOf(groups[k])[l]
       PROVE  /\ Len(rows) = MaxRendered
              /\ \A r \in DOMAIN rows :
                   SeverityRank[rows[r].severity] >= SeverityRank[groups[k].finding.severity]
  <2> DEFINE row == RowsOf(groups[k])[l]
             a == RanksOf(all, Len(all))
  <2>1. k \in 1..m
    BY <1>2
  <2>2. PICK i \in 1..Len(all) : all[i] = row
    <3>1. l \in DOMAIN RowsOf(groups[k])
      BY <1>4, <2>1
    <3>2. \E i \in DOMAIN all : all[i] = RowsOf(groups[k])[l]
      BY <1>3, <2>1, <3>1 DEF Carries
    <3> QED BY <1>7, <3>2
  <2>3. row.severity = groups[k].finding.severity
    <3>1. groups[k].finding \in Finding
      BY <1>2, <2>1 DEF GroupRecord
    <3>2. RowsOf(groups[k])[l] = [groups[k].finding EXCEPT !.url = groups[k].urls[l]]
      BY <1>4, <2>1
    <3> QED BY <3>1, <3>2 DEF Finding
  <2>4. /\ Len(rows) = MaxRendered
        /\ \A r \in DOMAIN rows : \E j \in 1..Len(all) : rows[r] = all[j] /\ a[j] >= a[i]
    <3>1. ~\E r \in DOMAIN rows : rows[r] = all[i]
      BY <1>11, <2>2
    <3> HIDE DEF a, row
    <3>2. Keeps(rows, all, Len(all), a)
      BY <1>6 DEF a
    <3> QED BY <3>1, <3>2 DEF Keeps
  <2>5. \A j \in 1..Len(all) : a[j] = SeverityRank[all[j].severity]
    BY DEF RanksOf
  <2> HIDE DEF a, row
  <2> QED BY <2>2, <2>3, <2>4, <2>5
<1>12. DOMAIN groups = 1..m
  BY <1>2
<1>13. Rendered(groups, rows, s)
  BY <1>1, <1>m, <1>8, <1>9, <1>10, <1>11 DEF Rendered
<1> QED BY <1>13 DEF rows, all, groups

-----------------------------------------------------------------------------
(* The report.                                                             *)

ReportInv ==
  /\ FindingsInv
  /\ IF stage = "done" THEN Rendered(report.groups, report.rows, findings)
     ELSE report = [groups |-> <<>>, rows |-> <<>>]

LEMMA ReportInvInit == ReportInit => ReportInv
BY FindingsInit DEF ReportInit, ReportInv

LEMMA ReportInvStep ==
  ASSUME ReportInv, [ReportNext]_reportVars
  PROVE  ReportInv'
<1>1. FindingsInv'
  BY FindingsStep DEF ReportInv
<1>2. CASE Reporting
  <2>1. stage = "report" /\ findings' = findings
    BY <1>2 DEF Reporting
  <2>2. findings \in Seq(Finding) /\ WorstFirst(findings)
    BY <2>1 DEF ReportInv, FindingsInv
  <2> DEFINE groups == TruncateGroups(Groups(findings))
             rows == TruncateFindings(Rows(groups))
  <2>3. report' = [groups |-> groups, rows |-> rows]
    BY <1>2 DEF Reporting
  <2>4. Rendered(groups, rows, findings)
    BY <2>2, ReportRendered
  <2> HIDE DEF groups, rows
  <2>5. report'.groups = groups /\ report'.rows = rows
    BY <2>3
  <2>6. Rendered(report'.groups, report'.rows, findings')
    BY <2>1, <2>4, <2>5
  <2>7. stage' = "done"
    BY <1>2 DEF Reporting
  <2> QED BY <1>1, <2>6, <2>7 DEF ReportInv
<1>3. CASE PassiveDetection \/ ActiveDetection \/ Verification \/ Scoring \/ Synthesis
  <2>1. stage # "done" /\ stage' # "done" /\ report' = report
    BY <1>3 DEF PassiveDetection, ActiveDetection, Verification, Scoring, Synthesis,
         SynthesisSkipped, NothingToSay, NoBudget, NoAnswer, LlmAnswers, SynthesisRaises, Synthesised
  <2> QED BY <1>1, <2>1 DEF ReportInv
<1>4. CASE UNCHANGED reportVars
  <2>1. UNCHANGED <<stage, report, findings>>
    BY <1>4 DEF reportVars
  <2> QED BY <1>1, <2>1 DEF ReportInv
<1> QED BY <1>2, <1>3, <1>4 DEF ReportNext

\* A row is the finding that describes its group, at one of the group's URLs.
LEMMA RowFacts ==
  ASSUME NEW groups \in Seq(GroupRecord), NEW k \in DOMAIN groups, NEW l \in DOMAIN groups[k].urls
  PROVE  LET row == RowsOf(groups[k])[l]
             f == groups[k].finding
         IN  /\ f \in Finding /\ groups[k].urls[l] \in STRING
             /\ row.url = groups[k].urls[l]
             /\ row.tool = f.tool /\ row.type = f.type /\ row.id = f.id
             /\ row.severity = f.severity /\ row.verdict = f.verdict
<1>1. groups[k] \in GroupRecord
  OBVIOUS
<1>2. groups[k].finding \in Finding /\ groups[k].urls \in Seq(STRING)
  BY <1>1 DEF GroupRecord
<1>3. groups[k].urls[l] \in STRING
  BY <1>2
<1>4. RowsOf(groups[k])[l] = [groups[k].finding EXCEPT !.url = groups[k].urls[l]]
  BY DEF RowsOf
<1> QED BY <1>2, <1>3, <1>4 DEF Finding

\* What ReportKeepsWorst says of the groups, the rows and the priorities.
NoMilder(shown, f) ==
  \A k \in DOMAIN shown : SeverityRank[shown[k].severity] >= SeverityRank[f.severity]

\* The description of a group is as severe as each of its findings, and a group
\* left out is no more severe than those described.
LEMMA GroupsKeepWorst ==
  ASSUME NEW s \in Seq(Finding), WorstFirst(s), NEW groups, NEW rows, Rendered(groups, rows, s),
         NEW i \in DOMAIN s
  PROVE  LET described == [k \in DOMAIN groups |-> groups[k].finding]
         IN  /\ \A k \in DOMAIN described : SameGroup(described[k], s[i]) =>
                  SeverityRank[described[k].severity] >= SeverityRank[s[i].severity]
             /\ \/ \E k \in DOMAIN described : SameGroup(described[k], s[i])
                \/ Len(described) = MaxRendered /\ NoMilder(described, s[i])
<1> DEFINE described == [k \in DOMAIN groups |-> groups[k].finding]
<1>0. DOMAIN groups = 1..Len(groups) /\ Len(groups) \in Nat
  BY DEF Rendered
<1>1. DOMAIN described = DOMAIN groups /\ Len(described) = Len(groups)
  BY <1>0
<1>2. \A k \in DOMAIN groups : described[k] = groups[k].finding
  OBVIOUS
<1> HIDE DEF described
<1>3. \A k \in DOMAIN groups : Collapsed(groups[k], s)
  BY DEF Rendered
<1>4. \A k \in DOMAIN groups : SameGroup(groups[k].finding, s[i]) =>
        SeverityRank[groups[k].finding.severity] >= SeverityRank[s[i].severity]
  BY <1>3, LeaderWorst
<1>5. \/ \E k \in DOMAIN groups : SameGroup(groups[k].finding, s[i])
      \/ /\ Len(groups) = MaxRendered
         /\ \A k \in DOMAIN groups :
              SeverityRank[groups[k].finding.severity] >= SeverityRank[s[i].severity]
  BY DEF Rendered
<1>6. /\ \A k \in DOMAIN described : SameGroup(described[k], s[i]) =>
           SeverityRank[described[k].severity] >= SeverityRank[s[i].severity]
      /\ \/ \E k \in DOMAIN described : SameGroup(described[k], s[i])
         \/ Len(described) = MaxRendered /\ NoMilder(described, s[i])
  BY <1>1, <1>2, <1>4, <1>5 DEF NoMilder
<1> QED BY <1>6 DEF described

\* A row for the finding, by the group it belongs to.
HasRow(rows, groups, f) ==
  \E r \in DOMAIN rows : \E k \in DOMAIN groups :
    /\ SameGroup(groups[k].finding, f)
    /\ rows[r].severity = groups[k].finding.severity
    /\ rows[r].verdict = groups[k].finding.verdict
    /\ SameGroup(rows[r], f) /\ rows[r].url = f.url

\* A finding has a row, unless it was cut for rows at least as severe.
LEMMA RowsKeepWorst ==
  ASSUME NEW s \in Seq(Finding), WorstFirst(s), NEW groups, NEW rows, Rendered(groups, rows, s),
         NEW i \in DOMAIN s
  PROVE  \/ HasRow(rows, groups, s[i])
         \/ Len(rows) = MaxRendered /\ NoMilder(rows, s[i])
<1>1. /\ groups \in Seq(GroupRecord) /\ rows \in Seq(Finding)
      /\ \A k \in DOMAIN groups : Collapsed(groups[k], s)
      /\ Len(groups) = MaxRendered => Len(rows) = MaxRendered
  BY DEF Rendered
<1>2. \A f \in Finding : SeverityRank[f.severity] \in Int
  BY RankTyped DEF Finding
<1>3. \A r \in DOMAIN rows : rows[r] \in Finding
  BY <1>1
<1>4. \A k \in DOMAIN groups : groups[k].finding \in Finding
  <2>1. \A k \in DOMAIN groups : groups[k] \in GroupRecord
    BY <1>1
  <2> QED BY <2>1 DEF GroupRecord
<1>5. s[i] \in Finding
  OBVIOUS
<1>6. CASE \E k \in DOMAIN groups : SameGroup(groups[k].finding, s[i])
  <2>1. PICK k \in DOMAIN groups : SameGroup(groups[k].finding, s[i])
    BY <1>6
  <2>2. /\ SeverityRank[groups[k].finding.severity] >= SeverityRank[s[i].severity]
        /\ \E l \in DOMAIN groups[k].urls : groups[k].urls[l] = s[i].url
    BY <1>1, <2>1, LeaderWorst
  <2>3. PICK l \in DOMAIN groups[k].urls : groups[k].urls[l] = s[i].url
    BY <2>2
  <2>4. CASE \E r \in DOMAIN rows : rows[r] = RowsOf(groups[k])[l]
    <3>1. PICK r \in DOMAIN rows : rows[r] = RowsOf(groups[k])[l]
      BY <2>4
    <3>2. /\ rows[r].severity = groups[k].finding.severity
          /\ rows[r].verdict = groups[k].finding.verdict
          /\ rows[r].tool = groups[k].finding.tool /\ rows[r].type = groups[k].finding.type
          /\ rows[r].url = s[i].url
      BY <1>1, <2>3, <3>1, RowFacts
    <3> QED BY <2>1, <3>2 DEF SameGroup, HasRow
  <2>5. CASE ~\E r \in DOMAIN rows : rows[r] = RowsOf(groups[k])[l]
    <3>1. /\ Len(rows) = MaxRendered
          /\ \A r \in DOMAIN rows :
               SeverityRank[rows[r].severity] >= SeverityRank[groups[k].finding.severity]
      BY <2>5 DEF Rendered
    <3>2. NoMilder(rows, s[i])
      BY <1>2, <1>3, <1>4, <1>5, <2>2, <3>1 DEF NoMilder
    <3> QED BY <3>1, <3>2
  <2> QED BY <2>4, <2>5
<1>7. CASE ~\E k \in DOMAIN groups : SameGroup(groups[k].finding, s[i])
  <2>1. /\ Len(groups) = MaxRendered
        /\ \A k \in DOMAIN groups :
             SeverityRank[groups[k].finding.severity] >= SeverityRank[s[i].severity]
    BY <1>7 DEF Rendered
  <2>2. ASSUME NEW r \in DOMAIN rows
        PROVE  SeverityRank[rows[r].severity] >= SeverityRank[s[i].severity]
    <3>1. PICK k \in DOMAIN groups : \E l \in DOMAIN groups[k].urls : rows[r] = RowsOf(groups[k])[l]
      BY DEF Rendered
    <3>2. PICK l \in DOMAIN groups[k].urls : rows[r] = RowsOf(groups[k])[l]
      BY <3>1
    <3>3. rows[r].severity = groups[k].finding.severity
      BY <1>1, <3>2, RowFacts
    <3> QED BY <2>1, <3>3
  <2> QED BY <1>1, <2>1, <2>2 DEF NoMilder
<1> QED BY <1>6, <1>7

\* The rows and the priorities, of which the first show every finding or
\* something as severe, and the others what the rows show.
Prioritised(urgent, rows, s, i) ==
  \/ s[i].severity = "info"
  \/ \E k \in DOMAIN urgent : SameGroup(urgent[k], s[i])
  \/ /\ NoMilder(urgent, s[i])
     /\ Len(urgent) = MaxPriorities \/ Len(rows) = MaxRendered
  \/ \E k \in DOMAIN s : SameGroup(s[k], s[i]) /\ LikelyFalsePositive(s[k])

\* A finding of weight is among the priorities, unless they are at least as
\* severe.
LEMMA PrioritiesKeepWorst ==
  ASSUME NEW s \in Seq(Finding), WorstFirst(s), NEW groups, NEW rows, Rendered(groups, rows, s),
         NEW i \in DOMAIN s
  PROVE  Prioritised(Priorities(rows), rows, s, i)
<1> DEFINE urgent == Priorities(rows)
<1>1. rows \in Seq(Finding)
  BY DEF Rendered
<1>2. Urgent(urgent, rows)
  <2>1. Len(rows) \in Nat /\ DOMAIN rows = 1..Len(rows) /\ \A k \in 1..Len(rows) : rows[k] \in Finding
    BY <1>1
  <2> QED BY <2>1, PriorityFacts
<1> SUFFICES Prioritised(urgent, rows, s, i)
  BY DEF urgent
<1> HIDE DEF urgent
<1>3. \A f \in Finding : f.severity \in Severities /\ SeverityRank[f.severity] \in Int
  BY RankTyped DEF Finding
<1>4. s[i] \in Finding /\ \A k \in DOMAIN rows : rows[k] \in Finding
  BY <1>1
<1>5. CASE Len(rows) = MaxRendered /\ NoMilder(rows, s[i])
  <2>1. NoMilder(urgent, s[i])
    <3> SUFFICES ASSUME NEW k \in DOMAIN urgent
                 PROVE  SeverityRank[urgent[k].severity] >= SeverityRank[s[i].severity]
      BY DEF NoMilder
    <3>1. PICK r \in DOMAIN rows : urgent[k] = rows[r]
      BY <1>2 DEF Urgent
    <3> QED BY <1>5, <3>1 DEF NoMilder
  <2> QED BY <1>5, <2>1 DEF Prioritised
<1>6. CASE HasRow(rows, groups, s[i])
  <2>1. PICK r \in DOMAIN rows : \E k \in DOMAIN groups :
              /\ SameGroup(groups[k].finding, s[i])
              /\ rows[r].severity = groups[k].finding.severity
              /\ rows[r].verdict = groups[k].finding.verdict
              /\ SameGroup(rows[r], s[i])
    BY <1>6 DEF HasRow
  <2>2. PICK k \in DOMAIN groups :
              /\ SameGroup(groups[k].finding, s[i])
              /\ rows[r].severity = groups[k].finding.severity
              /\ rows[r].verdict = groups[k].finding.verdict
    BY <2>1
  <2>3. Collapsed(groups[k], s)
    BY DEF Rendered
  <2>4. PICK j \in DOMAIN s : groups[k].finding = s[j]
    BY <2>3 DEF Collapsed
  <2>5. SeverityRank[groups[k].finding.severity] >= SeverityRank[s[i].severity]
    BY <2>2, <2>3, LeaderWorst
  <2>6. CASE s[i].severity = "info" \/ LikelyFalsePositive(s[j])
    BY <2>2, <2>4, <2>6 DEF Prioritised
  <2>7. CASE s[i].severity # "info" /\ ~LikelyFalsePositive(s[j])
    <3>1. SeverityRank[rows[r].severity] >= SeverityRank[s[i].severity]
      BY <2>2, <2>5
    <3>2. rows[r].severity # "info"
      <4>1. SeverityRank[s[i].severity] > 0
        BY <1>3, <1>4, <2>7, RankTyped
      <4>2. SeverityRank[rows[r].severity] > 0
        BY <1>3, <1>4, <3>1, <4>1
      <4> QED BY <1>3, <1>4, <4>2, RankTyped
    <3>3. Worthwhile(rows[r])
      BY <2>2, <2>4, <2>7, <3>2 DEF Worthwhile, LikelyFalsePositive
    <3>4. CASE \E h \in DOMAIN urgent : urgent[h] = rows[r]
      BY <2>1, <3>4 DEF Prioritised
    <3>5. CASE /\ Len(urgent) = MaxPriorities
               /\ \A h \in DOMAIN urgent :
                    SeverityRank[urgent[h].severity] >= SeverityRank[rows[r].severity]
      <4>1. \A h \in DOMAIN urgent : urgent[h] \in Finding
        BY <1>2, <1>4 DEF Urgent
      <4>2. \A h \in DOMAIN urgent : SeverityRank[urgent[h].severity] \in Int
        BY <1>3, <4>1
      <4>3. SeverityRank[rows[r].severity] \in Int /\ SeverityRank[s[i].severity] \in Int
        BY <1>3, <1>4
      <4>4. NoMilder(urgent, s[i])
        BY <3>1, <3>5, <4>2, <4>3 DEF NoMilder
      <4> QED BY <3>5, <4>4 DEF Prioritised
    <3> QED BY <1>2, <3>3, <3>4, <3>5 DEF Urgent
  <2> QED BY <2>6, <2>7
<1>7. HasRow(rows, groups, s[i]) \/ (Len(rows) = MaxRendered /\ NoMilder(rows, s[i]))
  BY RowsKeepWorst
<1> QED BY <1>5, <1>6, <1>7

LEMMA WorstKept == ReportInv => ReportKeepsWorst
<1> SUFFICES ASSUME ReportInv, stage = "done", NEW i \in DOMAIN findings
             PROVE  LET f == findings[i]
                        Milder(shown) == \A k \in DOMAIN shown :
                          SeverityRank[shown[k].severity] >= SeverityRank[f.severity]
                        Shows(shown) == \E k \in DOMAIN shown : SameGroup(shown[k], f)
                        KeptIn(shown) ==
                          /\ \A k \in DOMAIN shown : SameGroup(shown[k], f) =>
                               SeverityRank[shown[k].severity] >= SeverityRank[f.severity]
                          /\ Shows(shown) \/ (Len(shown) = MaxRendered /\ Milder(shown))
                        urgent == Priorities(report.rows)
                        described == [k \in DOMAIN report.groups |-> report.groups[k].finding]
                    IN  /\ KeptIn(described)
                        /\ \/ \E k \in DOMAIN report.rows :
                                SameGroup(report.rows[k], f) /\ report.rows[k].url = f.url
                           \/ Milder(report.rows)
                        /\ \/ f.severity = "info"
                           \/ Shows(urgent)
                           \/ Milder(urgent) /\ (Len(urgent) = MaxPriorities \/ Len(report.rows) = MaxRendered)
                           \/ \E k \in DOMAIN findings : /\ SameGroup(findings[k], f)
                                                         /\ LikelyFalsePositive(findings[k])
  BY DEF ReportKeepsWorst
<1>1. findings \in Seq(Finding) /\ WorstFirst(findings)
  BY DEF ReportInv, FindingsInv
<1>2. Rendered(report.groups, report.rows, findings)
  BY DEF ReportInv
<1> DEFINE described == [k \in DOMAIN report.groups |-> report.groups[k].finding]
           urgent == Priorities(report.rows)
<1>3. /\ \A k \in DOMAIN described : SameGroup(described[k], findings[i]) =>
           SeverityRank[described[k].severity] >= SeverityRank[findings[i].severity]
      /\ \/ \E k \in DOMAIN described : SameGroup(described[k], findings[i])
         \/ Len(described) = MaxRendered /\ NoMilder(described, findings[i])
  BY <1>1, <1>2, GroupsKeepWorst
<1>4. \/ \E k \in DOMAIN report.rows :
           SameGroup(report.rows[k], findings[i]) /\ report.rows[k].url = findings[i].url
      \/ NoMilder(report.rows, findings[i])
  BY <1>1, <1>2, RowsKeepWorst DEF HasRow
<1>5. Prioritised(urgent, report.rows, findings, i)
  BY <1>1, <1>2, PrioritiesKeepWorst
<1> HIDE DEF described, urgent
<1>6. QED
  BY <1>3, <1>4, <1>5 DEF Prioritised, NoMilder, described, urgent

\* No two findings have the same id once they are scored.
LEMMA IdsUnique ==
  ASSUME FindingsInv, stage \in {"synthesise", "report", "done"}
  PROVE  \A i, j \in DOMAIN findings : findings[i].id = findings[j].id => i = j
<1>1. PICK q : Numbered(findings, unscored, q)
  BY DEF FindingsInv
<1> QED BY <1>1 DEF Numbered

\* A row has the id of one finding, of its group, at its URL or at that of
\* another of the group.
LEMMA RowsResolve ==
  ASSUME ReportInv, stage = "done", NEW r \in DOMAIN report.rows
  PROVE  LET row == report.rows[r]
             matches == {i \in DOMAIN findings : findings[i].id = row.id}
         IN  /\ Cardinality(matches) = 1
             /\ \A i \in matches :
                  /\ SameGroup(findings[i], row)
                  /\ \/ findings[i].url = row.url
                     \/ \E j \in DOMAIN findings \ {i} : SameGroup(findings[j], row)
<1> DEFINE row == report.rows[r]
           matches == {i \in DOMAIN findings : findings[i].id = row.id}
<1>1. Rendered(report.groups, report.rows, findings) /\ FindingsInv
  BY DEF ReportInv
<1>2. PICK k \in DOMAIN report.groups : \E l \in DOMAIN report.groups[k].urls :
        row = RowsOf(report.groups[k])[l]
  BY <1>1 DEF Rendered
<1>3. PICK l \in DOMAIN report.groups[k].urls : row = RowsOf(report.groups[k])[l]
  BY <1>2
<1>4. report.groups \in Seq(GroupRecord) /\ Collapsed(report.groups[k], findings)
  BY <1>1 DEF Rendered
<1>5. PICK i \in DOMAIN findings :
        /\ report.groups[k].finding = findings[i]
        /\ \A h \in DOMAIN report.groups[k].urls : \E j \in DOMAIN findings :
             SameGroup(findings[j], findings[i]) /\ report.groups[k].urls[h] = findings[j].url
  BY <1>4 DEF Collapsed
<1>6. /\ row.url = report.groups[k].urls[l] /\ row.id = findings[i].id
      /\ row.tool = findings[i].tool /\ row.type = findings[i].type
  BY <1>3, <1>4, <1>5, RowFacts
<1>7. PICK j \in DOMAIN findings : SameGroup(findings[j], findings[i]) /\ row.url = findings[j].url
  BY <1>5, <1>6
<1> HIDE DEF row
<1>8. matches = {i}
  <2>1. \A h \in DOMAIN findings : findings[h].id = row.id <=> h = i
    BY <1>1, <1>6, IdsUnique
  <2> QED BY <2>1
<1>9. Cardinality({i}) = 1
  BY FS_Singleton
<1>10. SameGroup(findings[i], row) /\ (findings[i].url = row.url \/ \E h \in DOMAIN findings \ {i} : SameGroup(findings[h], row))
  BY <1>6, <1>7 DEF SameGroup
<1> HIDE DEF matches
<1>11. /\ Cardinality(matches) = 1
       /\ \A h \in matches :
            /\ SameGroup(findings[h], row)
            /\ \/ findings[h].url = row.url
               \/ \E g \in DOMAIN findings \ {h} : SameGroup(findings[g], row)
  BY <1>8, <1>9, <1>10
<1> QED BY <1>11 DEF row, matches

LEMMA IdsFound == ReportInv => IdsResolve
<1> SUFFICES ASSUME ReportInv PROVE IdsResolve
  OBVIOUS
<1>1. ASSUME stage \in {"synthesise", "report", "done"}, NEW i \in DOMAIN unscored
      PROVE  \E j \in DOMAIN findings :
               /\ findings[j].id = Identity(unscored, i)
               /\ findings[j].url = unscored[i].url /\ findings[j].type = unscored[i].type
  <2>1. PICK q : Numbered(findings, unscored, q)
    BY <1>1 DEF ReportInv, FindingsInv
  <2>2. PICK j \in DOMAIN findings : q[j] = i
    BY <2>1 DEF Numbered
  <2> QED BY <2>1, <2>2 DEF Numbered, Identity
<1> QED BY <1>1, RowsResolve DEF IdsResolve

\* The inductive invariant of the way to the report.
LEMMA ReportInvariant == ReportSpec => [](ReportInv /\ CoverageInv /\ SynthesisInv)
<1> DEFINE Inv == ReportInv /\ CoverageInv /\ SynthesisInv
<1>1. ReportInit => Inv
  BY ReportInvInit, CoverageInit, SynthesisInit
<1>2. Inv /\ [ReportNext]_reportVars => Inv'
  BY ReportInvStep, CoverageStep, SynthesisStep
<1> QED BY <1>1, <1>2, PTL DEF ReportSpec

LEMMA ReportTyped == ReportInv /\ CoverageInv /\ SynthesisInv => ReportTypeOK
<1> SUFFICES ASSUME ReportInv, CoverageInv, SynthesisInv PROVE ReportTypeOK
  OBVIOUS
<1>1. /\ stage \in {"passive", "active", "verify", "score", "synthesise", "report", "done"}
      /\ \A i, j \in DOMAIN findings :
           findings[i].url = findings[j].url /\ findings[i].type = findings[j].type => i = j
  BY DEF ReportInv, FindingsInv, Distinct, SameFinding
<1>2. meta.errors \cup meta.executed \cup meta.rejected \cup meta.notApplicable
        \subseteq Passive \cup Active
  BY DEF CoverageInv, MetaTyped, Modules
<1>3. synthesis.calls \in 0..llm.calls
  <2>1. synthesis.calls \in Nat /\ synthesis.calls <= llm.calls /\ llm \in LlmSettings
    BY DEF SynthesisInv, SummaryGrounded
  <2>2. llm.calls \in Nat
    BY <2>1, LlmAssumption DEF LlmAssumption
  <2> QED BY <2>1, <2>2
<1>4. Len(report.rows) <= MaxRendered /\ Len(report.groups) <= MaxRendered
  <2>0. MaxRendered \in Nat
    BY RenderedAssumption DEF RenderedAssumption
  <2>1. CASE stage = "done"
    BY <2>0, <2>1 DEF ReportInv, Rendered
  <2>2. CASE stage # "done"
    <3>1. report.groups = <<>> /\ report.rows = <<>>
      BY <2>2 DEF ReportInv
    <3>2. Len(<<>>) = 0
      OBVIOUS
    <3> QED BY <2>0, <3>1, <3>2
  <2> QED BY <2>1, <2>2
<1> QED BY <1>1, <1>2, <1>3, <1>4 DEF ReportTypeOK

LEMMA RefutationBounded == ReportInv /\ CoverageInv => RefutationNeverRaisesRisk
<1> SUFFICES ASSUME ReportInv, CoverageInv, stage = "synthesise" PROVE RefutationNeverRaisesRisk
  BY DEF RefutationNeverRaisesRisk
<1>1. findings \in Seq(Finding) /\ Judged(findings) /\ coverage.failed \subseteq Passive \cup Active
  BY DEF ReportInv, FindingsInv, CoverageInv, MetaTyped, Modules
<1> QED BY <1>1, RefutationLowers

\* The state of a scan between its detection and its report has its type.
THEOREM ReportTypeCorrect == ReportSpec => []ReportTypeOK
BY ReportInvariant, ReportTyped, PTL

\* Reporting (run_reporting, with its caps on groups, rows and priorities) never
\* leaves out a finding for a milder one.
THEOREM ReportShowsTheWorst == ReportSpec => []ReportKeepsWorst
BY ReportInvariant, WorstKept, PTL

\* The id of a row of the report, by which Verify Fix looks the finding up, is
\* that of one finding, of the type, the tool and, unless the row was unfolded
\* from a group, the URL of the row; and scoring keeps the ids that are read.
THEOREM RowsAreFound == ReportSpec => []IdsResolve
BY ReportInvariant, IdsFound, PTL

\* The coverage that scoring writes says of each module what happened to it:
\* ran, failed, had nothing to do, or was rejected.
THEOREM CoverageIsHonest == ReportSpec => []CoverageHonest
<1>1. CoverageInv => CoverageHonest
  BY DEF CoverageInv
<1> QED BY <1>1, ReportInvariant, PTL

\* The summary an LLM wrote (run_ai_synthesis) cites only findings that were
\* confirmed or attested, and was graded within the budget of calls; and no
\* report says there are no risks when one above a note was confirmed or attested.
THEOREM SummaryIsGrounded == ReportSpec => []SummaryGrounded
<1>1. SynthesisInv => SummaryGrounded
  BY DEF SynthesisInv
<1> QED BY <1>1, ReportInvariant, PTL

\* Live verification never makes the overall risk greater than it is with
\* verification disabled, and to refute one more finding never raises it.
THEOREM RefutationLowersRisk == ReportSpec => []RefutationNeverRaisesRisk
BY ReportInvariant, RefutationBounded, PTL

-----------------------------------------------------------------------------
(* The rules of the headers.                                               *)

\* Every response, whatever the combination of its headers.
AnyHsts == [sent: BOOLEAN, age: {"none", "short", "long"}, sub: BOOLEAN, preload: BOOLEAN]

AnyResponse ==
  [csp: SUBSET CspParts, xfo: {"", "deny", "sameorigin", "allow-from", "other"},
   xcto: {"", "nosniff", "other"}, acao: {"", "*", "null", "own", "echo"}, acac: BOOLEAN,
   hsts: AnyHsts, cookies: SUBSET Cookie, server: {"", "name", "version"},
   poweredBy: BOOLEAN, referrer: {"", "strict", "unsafe-url", "other"}]

AnySite == [Origins -> [answers: {"ok", "error", "down"}, response: AnyResponse]]

ReportedTypes(https, r) ==
  CheckCsp(r) \cup CheckHsts(https, r) \cup CheckXFrameOptions(r)
    \cup CheckXContentTypeOptions(r) \cup CheckCors(r) \cup CheckOtherHeaders(r)

\* When a check reports a type.
LEMMA TypesReported ==
  ASSUME NEW https \in BOOLEAN, NEW r \in AnyResponse, NEW t
  PROVE  /\ t \in CheckCsp(r) <=>
              \/ t = "missing-csp" /\ r.csp = {}
              \/ t = "csp-unsafe-inline" /\ "unsafe-inline" \in r.csp
              \/ t = "csp-unsafe-eval" /\ "unsafe-eval" \in r.csp
              \/ t = "csp-overly-permissive" /\ "wildcard" \in r.csp
         /\ t \in CheckHsts(https, r) <=>
              https /\ \/ t = "missing-hsts" /\ ~r.hsts.sent
                       \/ t = "weak-hsts-max-age" /\ r.hsts.sent /\ r.hsts.age # "long"
                       \/ t = "missing-hsts-includesubdomains" /\ r.hsts.sent /\ ~r.hsts.sub
                       \/ t = "missing-hsts-preload" /\ r.hsts.sent /\ ~r.hsts.preload
         /\ t \in CheckXFrameOptions(r) <=>
              \/ t = "missing-x-frame-options" /\ r.xfo = "" /\ "frame-ancestors" \notin r.csp
              \/ t = "deprecated-x-frame-options" /\ r.xfo = "allow-from"
              \/ /\ t = "invalid-x-frame-options"
                 /\ r.xfo \notin {"", "deny", "sameorigin", "allow-from"}
         /\ t \in CheckXContentTypeOptions(r) <=>
              \/ t = "missing-x-content-type-options" /\ r.xcto = ""
              \/ t = "invalid-x-content-type-options" /\ r.xcto \notin {"", "nosniff"}
         /\ t \in CheckCors(r) <=>
              \/ t = "cors-wildcard-with-credentials" /\ r.acao = "*" /\ r.acac
              \/ t = "cors-wildcard" /\ r.acao = "*" /\ ~r.acac
              \/ t = "cors-null-origin" /\ r.acao = "null"
         /\ t \in CheckOtherHeaders(r) <=>
              \/ t = "server-version-disclosure" /\ r.server = "version"
              \/ t = "x-powered-by-disclosure" /\ r.poweredBy
              \/ t = "missing-referrer-policy" /\ r.referrer = ""
              \/ t = "weak-referrer-policy" /\ r.referrer = "unsafe-url"
<1>1. \A b, u : t \in Type(b, u) <=> b /\ t = u
  BY DEF Type
<1>2. t \in CheckCsp(r) <=>
              \/ t = "missing-csp" /\ r.csp = {}
              \/ t = "csp-unsafe-inline" /\ "unsafe-inline" \in r.csp
              \/ t = "csp-unsafe-eval" /\ "unsafe-eval" \in r.csp
              \/ t = "csp-overly-permissive" /\ "wildcard" \in r.csp
  BY DEF CheckCsp, Type
<1>3. t \in CheckHsts(https, r) <=>
              https /\ \/ t = "missing-hsts" /\ ~r.hsts.sent
                       \/ t = "weak-hsts-max-age" /\ r.hsts.sent /\ r.hsts.age # "long"
                       \/ t = "missing-hsts-includesubdomains" /\ r.hsts.sent /\ ~r.hsts.sub
                       \/ t = "missing-hsts-preload" /\ r.hsts.sent /\ ~r.hsts.preload
  <2>1. CASE ~https
    <3>1. CheckHsts(https, r) = {}
      BY <2>1, Zenon DEF CheckHsts
    <3> QED BY <2>1, <3>1
  <2>2. CASE https /\ ~r.hsts.sent
    BY <2>2 DEF CheckHsts
  <2>3. CASE https /\ r.hsts.sent
    <3>1. CheckHsts(https, r) = Type(r.hsts.age # "long", "weak-hsts-max-age")
                       \cup Type(~r.hsts.sub, "missing-hsts-includesubdomains")
                       \cup Type(~r.hsts.preload, "missing-hsts-preload")
      BY <2>3 DEF CheckHsts
    <3> QED BY <1>1, <2>3, <3>1
  <2> QED BY <2>1, <2>2, <2>3
<1>4. t \in CheckXFrameOptions(r) <=>
              \/ t = "missing-x-frame-options" /\ r.xfo = "" /\ "frame-ancestors" \notin r.csp
              \/ t = "deprecated-x-frame-options" /\ r.xfo = "allow-from"
              \/ /\ t = "invalid-x-frame-options"
                 /\ r.xfo \notin {"", "deny", "sameorigin", "allow-from"}
  BY DEF CheckXFrameOptions, Type
<1>5. t \in CheckXContentTypeOptions(r) <=>
              \/ t = "missing-x-content-type-options" /\ r.xcto = ""
              \/ t = "invalid-x-content-type-options" /\ r.xcto \notin {"", "nosniff"}
  BY DEF CheckXContentTypeOptions
<1>6. t \in CheckCors(r) <=>
              \/ t = "cors-wildcard-with-credentials" /\ r.acao = "*" /\ r.acac
              \/ t = "cors-wildcard" /\ r.acao = "*" /\ ~r.acac
              \/ t = "cors-null-origin" /\ r.acao = "null"
  BY DEF CheckCors
<1>7. t \in CheckOtherHeaders(r) <=>
              \/ t = "server-version-disclosure" /\ r.server = "version"
              \/ t = "x-powered-by-disclosure" /\ r.poweredBy
              \/ t = "missing-referrer-policy" /\ r.referrer = ""
              \/ t = "weak-referrer-policy" /\ r.referrer = "unsafe-url"
  BY DEF CheckOtherHeaders, Type
<1> QED BY <1>2, <1>3, <1>4, <1>5, <1>6, <1>7

TableTypes == CspTypes \cup HstsTypes \cup FramingTypes \cup CorsTypes \cup OtherTypes

\* Of a type but that of cookies, the check and the re-test agree.
LEMMA TypeAgrees ==
  ASSUME NEW https \in BOOLEAN, NEW r \in AnyResponse, NEW f, f.type \in TableTypes,
         f.type \in HstsTypes => https, ~(f.type = "cors-wildcard" /\ r.acac)
  PROVE  f.type \in ReportedTypes(https, r) <=> Confirms(https, f, r)
<1>1. CASE f.type \in CspTypes
  <2>0. f.type \in CspTypes /\ f.type \notin HstsTypes /\ f.type \notin FramingTypes
        /\ f.type \notin CorsTypes /\ f.type \notin OtherTypes /\ f.type # "insecure-cookie"
    BY <1>1 DEF CspTypes, HstsTypes, FramingTypes, CorsTypes, OtherTypes
  <2>1. Confirms(https, f, r) = CspConfirms(f.type, r)
    BY <2>0, Zenon DEF Confirms
  <2>2. f.type \in ReportedTypes(https, r) <=> f.type \in CheckCsp(r)
    BY <1>1, TypesReported DEF ReportedTypes, CspTypes
  <2> QED BY <1>1, <2>1, <2>2, TypesReported DEF CspTypes, CspConfirms
<1>2. CASE f.type \in HstsTypes
  <2>0. f.type \in HstsTypes /\ f.type \notin CspTypes /\ f.type \notin FramingTypes
        /\ f.type \notin CorsTypes /\ f.type \notin OtherTypes /\ f.type # "insecure-cookie"
    BY <1>2 DEF CspTypes, HstsTypes, FramingTypes, CorsTypes, OtherTypes
  <2>1. Confirms(https, f, r) = HstsConfirms(f.type, r)
    BY <2>0, Zenon DEF Confirms
  <2>2. f.type \in ReportedTypes(https, r) <=> f.type \in CheckHsts(https, r)
    BY <1>2, TypesReported DEF ReportedTypes, HstsTypes
  <2> QED BY <1>2, <2>1, <2>2, TypesReported DEF HstsTypes, HstsConfirms
<1>3. CASE f.type \in FramingTypes
  <2>0. f.type \in FramingTypes /\ f.type \notin CspTypes /\ f.type \notin HstsTypes
        /\ f.type \notin CorsTypes /\ f.type \notin OtherTypes /\ f.type # "insecure-cookie"
    BY <1>3 DEF CspTypes, HstsTypes, FramingTypes, CorsTypes, OtherTypes
  <2>1. Confirms(https, f, r) = FramingConfirms(f.type, r)
    BY <2>0, Zenon DEF Confirms
  <2>2. f.type \in ReportedTypes(https, r) <=>
          f.type \in CheckXFrameOptions(r) \/ f.type \in CheckXContentTypeOptions(r)
    BY <1>3, TypesReported DEF ReportedTypes, FramingTypes
  <2> QED BY <1>3, <2>1, <2>2, TypesReported DEF FramingTypes, FramingConfirms
<1>4. CASE f.type \in CorsTypes
  <2>0. f.type \in CorsTypes /\ f.type \notin CspTypes /\ f.type \notin HstsTypes
        /\ f.type \notin FramingTypes /\ f.type \notin OtherTypes /\ f.type # "insecure-cookie"
    BY <1>4 DEF CspTypes, HstsTypes, FramingTypes, CorsTypes, OtherTypes
  <2>1. Confirms(https, f, r) = CorsConfirms(f.type, r)
    BY <2>0, Zenon DEF Confirms
  <2>2. f.type \in ReportedTypes(https, r) <=> f.type \in CheckCors(r)
    BY <1>4, TypesReported DEF ReportedTypes, CorsTypes
  <2> QED BY <1>4, <2>1, <2>2, TypesReported DEF CorsTypes, CorsConfirms
<1>5. CASE f.type \in OtherTypes
  <2>0. f.type \in OtherTypes /\ f.type \notin CspTypes /\ f.type \notin HstsTypes
        /\ f.type \notin FramingTypes /\ f.type \notin CorsTypes /\ f.type # "insecure-cookie"
    BY <1>5 DEF CspTypes, HstsTypes, FramingTypes, CorsTypes, OtherTypes
  <2>1. Confirms(https, f, r) = OthersConfirm(f.type, r)
    BY <2>0, Zenon DEF Confirms
  <2>2. f.type \in ReportedTypes(https, r) <=> f.type \in CheckOtherHeaders(r)
    BY <1>5, TypesReported DEF ReportedTypes, OtherTypes
  <2> QED BY <1>5, <2>1, <2>2, TypesReported DEF OtherTypes, OthersConfirm
<1> QED BY <1>1, <1>2, <1>3, <1>4, <1>5 DEF TableTypes

\* And of a cookie, by its name.
LEMMA CookieAgrees ==
  ASSUME NEW https \in BOOLEAN, NEW r \in AnyResponse, NEW f \in HeaderFindings(https),
         f.type = "insecure-cookie", ~KnownDifference(https, f, r)
  PROVE  /\ Confirms(https, f, r) <=> \E c \in r.cookies : c.name = f.cookie /\ CookieIssues(https, c) # {}
         /\ f \in Reported(https, r) <=> \E c \in r.cookies : c.name = f.cookie /\ CookieIssues(https, c) # {}
<1>1. f.type \notin CspTypes /\ f.type \notin HstsTypes
      /\ f.type \notin FramingTypes /\ f.type \notin CorsTypes /\ f.type \notin OtherTypes
  BY DEF CspTypes, HstsTypes, FramingTypes, CorsTypes, OtherTypes
<1>2. Confirms(https, f, r) = (\E c \in r.cookies : c.name = f.cookie /\ MissingAttributes(https, c) # {})
  BY <1>1, Zenon DEF Confirms
<1>3. ASSUME NEW c \in r.cookies, c.name = f.cookie
      PROVE  MissingAttributes(https, c) # {} <=> CookieIssues(https, c) # {}
  <2>1. ~(~https /\ c.samesite = "none" /\ ~c.secure)
    BY <1>3 DEF KnownDifference
  <2>2. https /\ ~c.secure => "Secure" \in MissingAttributes(https, c)
    BY DEF MissingAttributes, Type
  <2>3. ~(c.samesite = "none" /\ ~c.secure) =>
          CookieIssues(https, c) = MissingAttributes(https, c)
    BY DEF CookieIssues, Type
  <2>4. MissingAttributes(https, c) \subseteq CookieIssues(https, c)
    BY DEF CookieIssues
  <2> QED BY <2>1, <2>2, <2>3, <2>4
<1>4. f = [type |-> "insecure-cookie", cookie |-> f.cookie]
  BY <1>1 DEF HeaderFindings
<1>5. f \notin [type: ReportedTypes(https, r), cookie: {"-"}]
  <2>1. "insecure-cookie" \notin ReportedTypes(https, r)
    BY TypesReported DEF ReportedTypes
  <2> QED BY <2>1
<1>6. Reported(https, r) = [type: ReportedTypes(https, r), cookie: {"-"}]
        \cup {[type |-> "insecure-cookie", cookie |-> c.name] :
                c \in {d \in r.cookies : CookieIssues(https, d) # {}}}
  BY DEF Reported, ReportedTypes
<1>7. f \in Reported(https, r) <=>
        \E c \in {d \in r.cookies : CookieIssues(https, d) # {}} :
          f = [type |-> "insecure-cookie", cookie |-> c.name]
  BY <1>5, <1>6
<1>8. \A c \in r.cookies : f = [type |-> "insecure-cookie", cookie |-> c.name] <=> c.name = f.cookie
  BY <1>4
<1> QED BY <1>2, <1>3, <1>7, <1>8

\* Of any response the two components say the same, but for what is known.
LEMMA FindingAgrees ==
  ASSUME NEW https \in BOOLEAN, NEW r \in AnyResponse, NEW f \in HeaderFindings(https),
         ~KnownDifference(https, f, r)
  PROVE  f \in Reported(https, r) <=> Confirms(https, f, r)
<1>1. CASE f.type = "insecure-cookie"
  BY <1>1, CookieAgrees
<1>2. CASE f.type # "insecure-cookie"
  <2>1. f.cookie = "-" /\ f = [type |-> f.type, cookie |-> "-"]
    BY <1>2 DEF HeaderFindings
  <2>2. f.type \in TableTypes /\ (f.type \in HstsTypes => https)
    BY <1>2 DEF HeaderFindings, TableTypes, CspTypes, HstsTypes, FramingTypes, CorsTypes, OtherTypes
  <2>3. ~(f.type = "cors-wildcard" /\ r.acac)
    BY DEF KnownDifference
  <2>4. f \in Reported(https, r) <=> f.type \in ReportedTypes(https, r)
    <3>1. Reported(https, r) = [type: ReportedTypes(https, r), cookie: {"-"}]
            \cup {[type |-> "insecure-cookie", cookie |-> c.name] :
                    c \in {d \in r.cookies : CookieIssues(https, d) # {}}}
      BY DEF Reported, ReportedTypes
    <3>2. f \in [type: ReportedTypes(https, r), cookie: {"-"}] <=> f.type \in ReportedTypes(https, r)
      BY <2>1
    <3>3. \A c : f # [type |-> "insecure-cookie", cookie |-> c]
      BY <1>2
    <3> QED BY <3>1, <3>2, <3>3
  <2> QED BY <2>2, <2>3, <2>4, TypeAgrees
<1> QED BY <1>1, <1>2

-----------------------------------------------------------------------------
(* The alerts of ZAP.                                                      *)

\* An alert of ZAP is confirmed exactly when header-checks reports a counterpart.
LEMMA AlertAgrees ==
  ASSUME NEW https \in BOOLEAN, NEW r \in AnyResponse, NEW alert \in DOMAIN Counterparts,
         https \/ alert # "zapHsts", ~ZapDifference(alert, r)
  PROVE  /\ ZapConfirms(alert, r) \in BOOLEAN
         /\ ZapConfirms(alert, r) <=> \E f \in Reported(https, r) : f.type \in Counterparts[alert]
<1>1. (\E f \in Reported(https, r) : f.type \in Counterparts[alert])
        <=> \E t \in Counterparts[alert] : t \in ReportedTypes(https, r)
  <2>0. "insecure-cookie" \notin Counterparts[alert]
    BY DEF Counterparts, CorsTypes
  <2>1. Reported(https, r) = [type: ReportedTypes(https, r), cookie: {"-"}]
          \cup {[type |-> "insecure-cookie", cookie |-> c.name] :
                  c \in {d \in r.cookies : CookieIssues(https, d) # {}}}
    BY DEF Reported, ReportedTypes
  <2>2. ASSUME NEW f \in Reported(https, r), f.type \in Counterparts[alert]
        PROVE  f.type \in ReportedTypes(https, r)
    BY <2>0, <2>1, <2>2
  <2>3. ASSUME NEW t \in ReportedTypes(https, r), t \in Counterparts[alert]
        PROVE  \E f \in Reported(https, r) : f.type \in Counterparts[alert]
    <3>1. [type |-> t, cookie |-> "-"] \in Reported(https, r)
      BY <2>1
    <3> QED BY <2>3, <3>1
  <2> QED BY <2>2, <2>3
<1>2. CASE alert = "zapCors"
  <2>1. Counterparts[alert] = CorsTypes /\ r.acao # "echo"
    BY <1>2 DEF Counterparts, ZapDifference
  <2>0. (r.acao \in {"*", "null", "echo"}) \in BOOLEAN
    OBVIOUS
  <2>2. ZapConfirms(alert, r) = (r.acao \in {"*", "null", "echo"})
    BY <1>2, Zenon DEF ZapConfirms
  <2>3. (\E t \in CorsTypes : t \in ReportedTypes(https, r)) <=> r.acao \in {"*", "null"}
    BY TypesReported DEF CorsTypes, ReportedTypes
  <2>4. ZapConfirms(alert, r) \in BOOLEAN
    BY <2>0, <2>2, Zenon
  <2> QED BY <1>1, <2>1, <2>2, <2>3, <2>4
<1>3. CASE alert = "zapWildcard"
  <2>1. Counterparts[alert] = {"csp-overly-permissive"}
    BY <1>3 DEF Counterparts, ZapDifference
  <2>0. ("wildcard" \in r.csp) \in BOOLEAN
    OBVIOUS
  <2>2. ZapConfirms(alert, r) = ("wildcard" \in r.csp)
    BY <1>3, Zenon DEF ZapConfirms
  <2>3. (\E t \in {"csp-overly-permissive"} : t \in ReportedTypes(https, r)) <=> "wildcard" \in r.csp
    BY <1>3, TypesReported DEF ReportedTypes
  <2>4. ZapConfirms(alert, r) \in BOOLEAN
    BY <2>0, <2>2, Zenon
  <2> QED BY <1>1, <2>1, <2>2, <2>3, <2>4
<1>4. CASE alert = "zapUnsafeInline"
  <2>1. Counterparts[alert] = {"csp-unsafe-inline"} /\ (r.csp = {} \/ "unsafe-inline" \in r.csp)
    BY <1>4 DEF Counterparts, ZapDifference
  <2>2. ZapConfirms(alert, r) = (r.csp # {})
    BY <1>4, Zenon DEF ZapConfirms
  <2>3. (\E t \in {"csp-unsafe-inline"} : t \in ReportedTypes(https, r)) <=> "unsafe-inline" \in r.csp
    BY <1>4, TypesReported DEF ReportedTypes
  <2>4. ZapConfirms(alert, r) \in BOOLEAN
    BY <2>2, Zenon
  <2> QED BY <1>1, <2>1, <2>2, <2>3, <2>4
<1>5. CASE alert = "zapNoSniff"
  <2>1. Counterparts[alert] = {"missing-x-content-type-options", "invalid-x-content-type-options"}
    BY <1>5 DEF Counterparts, ZapDifference
  <2>2. ZapConfirms(alert, r) = (r.xcto # "nosniff")
    BY <1>5, Zenon DEF ZapConfirms
  <2>3. (\E t \in {"missing-x-content-type-options", "invalid-x-content-type-options"} : t \in ReportedTypes(https, r)) <=> r.xcto # "nosniff"
    BY <1>5, TypesReported DEF ReportedTypes
  <2>4. ZapConfirms(alert, r) \in BOOLEAN
    BY <2>2, Zenon
  <2> QED BY <1>1, <2>1, <2>2, <2>3, <2>4
<1>6. CASE alert = "zapFraming"
  <2>1. Counterparts[alert] = {"missing-x-frame-options"}
    BY <1>6 DEF Counterparts, ZapDifference
  <2>2. ZapConfirms(alert, r) = (r.xfo = "" /\ "frame-ancestors" \notin r.csp)
    BY <1>6, Zenon DEF ZapConfirms
  <2>3. (\E t \in {"missing-x-frame-options"} : t \in ReportedTypes(https, r)) <=> r.xfo = "" /\ "frame-ancestors" \notin r.csp
    BY <1>6, TypesReported DEF ReportedTypes
  <2>4. ZapConfirms(alert, r) \in BOOLEAN
    BY <2>2, Zenon
  <2> QED BY <1>1, <2>1, <2>2, <2>3, <2>4
<1>7. CASE alert = "zapHsts"
  <2>1. Counterparts[alert] = {"missing-hsts"}
    BY <1>7 DEF Counterparts, ZapDifference
  <2>2. ZapConfirms(alert, r) = (~r.hsts.sent)
    BY <1>7, Zenon DEF ZapConfirms
  <2>3. (\E t \in {"missing-hsts"} : t \in ReportedTypes(https, r)) <=> ~r.hsts.sent
    BY <1>7, TypesReported DEF ReportedTypes
  <2>4. ZapConfirms(alert, r) \in BOOLEAN
    BY <2>2, Zenon
  <2> QED BY <1>1, <2>1, <2>2, <2>3, <2>4
<1> QED BY <1>2, <1>3, <1>4, <1>5, <1>6, <1>7 DEF Counterparts, ZapDifference

-----------------------------------------------------------------------------
(* Whole sites.                                                            *)

\* What the tool found at an origin.
FoundAt(o) == {f.of : f \in {g \in RunBatch(Crawled, sample).findings : g.url = o}}

\* A run asks both origins, and finds at each what its response shows.
LEMMA BatchFacts ==
  ASSUME sample \in AnySite
  PROVE  LET batch == RunBatch(Crawled, sample)
         IN  /\ ~batch.success => batch.findings = {}
             /\ \A f \in batch.findings : \A u \in f.seenAt : NormalizeOrigin(u) = f.url
             /\ \A o \in Origins :
                  FoundAt(o) = IF sample[o].answers = "down" THEN {}
                               ELSE Reported(o = "https", sample[o].response)
<1> DEFINE batch == RunBatch(Crawled, sample)
           origins == {NormalizeOrigin(u) : u \in Crawled}
           failed == {o \in origins : CheckOrigin(o, sample).failed}
           Of(o) == {[url |-> o, of |-> f, seenAt |-> {u \in Crawled : NormalizeOrigin(u) = o}] :
                       f \in CheckOrigin(o, sample).findings}
<1>1. origins = Origins
  <2>1. \A o \in Origins : [scheme |-> o, path |-> "/"] \in Crawled
    BY DEF Crawled
  <2>2. \A o \in Origins : NormalizeOrigin([scheme |-> o, path |-> "/"]) = o
    BY DEF NormalizeOrigin
  <2>3. \A u \in Crawled : NormalizeOrigin(u) \in Origins
    BY DEF Crawled, NormalizeOrigin
  <2> QED BY <2>1, <2>2, <2>3
<1>2. /\ batch.success = (origins = {} \/ failed # origins)
      /\ batch.findings = UNION {Of(o) : o \in origins}
  BY DEF RunBatch
<1>3. \A o \in Origins : CheckOrigin(o, sample).findings
                           = IF sample[o].answers = "down" THEN {}
                             ELSE Reported(o = "https", sample[o].response)
  BY DEF CheckOrigin
<1>4. \A o \in Origins : CheckOrigin(o, sample).failed = (sample[o].answers = "down")
  BY DEF CheckOrigin
<1>5. ~batch.success => batch.findings = {}
  <2>1. SUFFICES ASSUME ~batch.success PROVE \A o \in origins : Of(o) = {}
    BY <1>2
  <2>2. \A o \in Origins : CheckOrigin(o, sample).failed
    BY <1>1, <1>2, <2>1
  <2> QED BY <1>1, <1>3, <1>4, <2>2
<1>6. \A g \in batch.findings : \E o \in Origins : g \in Of(o)
  BY <1>1, <1>2
<1>7. \A f \in batch.findings : \A u \in f.seenAt : NormalizeOrigin(u) = f.url
  BY <1>6
<1>8. ASSUME NEW o \in Origins
      PROVE  FoundAt(o) = CheckOrigin(o, sample).findings
  <2>1. \A f \in FoundAt(o) : f \in CheckOrigin(o, sample).findings
    <3>1. SUFFICES ASSUME NEW g \in batch.findings, g.url = o
                   PROVE  g.of \in CheckOrigin(o, sample).findings
      BY DEF FoundAt
    <3>2. PICK p \in Origins : g \in Of(p)
      BY <1>6
    <3>3. p = o
      BY <3>1, <3>2
    <3> QED BY <3>2, <3>3
  <2>2. ASSUME NEW f \in CheckOrigin(o, sample).findings
        PROVE  f \in FoundAt(o)
    <3> DEFINE g == [url |-> o, of |-> f, seenAt |-> {u \in Crawled : NormalizeOrigin(u) = o}]
    <3>1. g \in Of(o)
      OBVIOUS
    <3>2. g \in batch.findings
      BY <1>1, <1>2, <3>1
    <3>3. g.url = o /\ g.of = f
      OBVIOUS
    <3> HIDE DEF g, batch
    <3> QED BY <3>2, <3>3 DEF FoundAt, batch
  <2> QED BY <2>1, <2>2
<1> QED BY <1>3, <1>5, <1>7, <1>8

\* So the rules agree on every site, not only on those TLC enumerates.
LEMMA RulesAgreeAnywhere ==
  ASSUME sample \in AnySite
  PROVE  RulesAgree
<1> DEFINE r(o) == sample[o].response
<1>1. \A o \in Origins : r(o) \in AnyResponse /\ (o = "https") \in BOOLEAN
  BY DEF AnySite
<1>2. ASSUME NEW o \in Origins, NEW f \in HeaderFindings(o = "https"),
             ~KnownDifference(o = "https", f, r(o))
      PROVE  ReTested(o, f, sample) = IF sample[o].answers # "ok" THEN "unreachable"
                                      ELSE IF f \in FoundAt(o) THEN "confirmed" ELSE "refuted"
  <2>1. f \in Reported(o = "https", r(o)) <=> Confirms(o = "https", f, r(o))
    BY <1>1, <1>2, FindingAgrees
  <2>2. sample[o].answers = "ok" => FoundAt(o) = Reported(o = "https", r(o))
    BY BatchFacts
  <2> QED BY <2>1, <2>2 DEF ReTested
<1>3. ASSUME NEW o \in Origins, NEW alert \in DOMAIN Counterparts, sample[o].answers # "down",
             ~(o = "http" /\ alert = "zapHsts"), ~ZapDifference(alert, r(o))
      PROVE  ZapConfirms(alert, r(o)) = (\E f \in FoundAt(o) : f.type \in Counterparts[alert])
  <2>1. o = "https" \/ alert # "zapHsts"
    BY <1>3 DEF Origins
  <2>2. ZapConfirms(alert, r(o))
          <=> \E f \in Reported(o = "https", r(o)) : f.type \in Counterparts[alert]
    BY <1>1, <1>3, <2>1, AlertAgrees
  <2>3. FoundAt(o) = Reported(o = "https", r(o))
    BY <1>3, BatchFacts
  <2>4. ZapConfirms(alert, r(o)) \in BOOLEAN
    BY <1>1, <1>3, <2>1, AlertAgrees
  <2> QED BY <2>2, <2>3, <2>4
<1> QED BY <1>2, <1>3, BatchFacts DEF RulesAgree, FoundAt

\* What TLC enumerates are such sites.
LEMMA SitesAreSites ==
  /\ \A origin \in Origins, answers \in {"ok", "error"}, r \in Responses, other \in {"ok", "down"} :
       Site(origin, answers, r, other) \in AnySite
  /\ NoSample \in AnySite
<1>1. Hardened \in AnyResponse
  <2>1. {"self", "frame-ancestors"} \in SUBSET CspParts
    BY DEF CspParts
  <2>2. [sent |-> TRUE, age |-> "long", sub |-> TRUE, preload |-> TRUE] \in AnyHsts
    BY DEF AnyHsts
  <2> QED BY <2>1, <2>2 DEF Hardened, AnyResponse
<1>2. ASSUME NEW x \in [csp: SUBSET CspParts,
                          xfo: {"", "deny", "sameorigin", "allow-from", "other"}]
      PROVE  [Hardened EXCEPT !.csp = x.csp, !.xfo = x.xfo] \in AnyResponse
  BY <1>1 DEF AnyResponse
<1>3. ASSUME NEW hsts \in {NoHsts} \cup [sent: {TRUE}, age: {"none", "short", "long"}, sub: BOOLEAN,
                                        preload: BOOLEAN]
      PROVE  [Hardened EXCEPT !.hsts = hsts] \in AnyResponse
  <2>1. CASE hsts = NoHsts
    BY <2>1, <1>1 DEF NoHsts, AnyHsts, AnyResponse
  <2>2. CASE hsts \in [sent: {TRUE}, age: {"none", "short", "long"}, sub: BOOLEAN, preload: BOOLEAN]
    <3>1. hsts \in AnyHsts
      BY <2>2 DEF AnyHsts
    <3> QED BY <1>1, <3>1 DEF AnyResponse
  <2> QED BY <1>3, <2>1, <2>2
<1>4. ASSUME NEW x \in [acao: {"", "*", "null", "own", "echo"}, acac: BOOLEAN,
                          xcto: {"", "nosniff", "other"}]
      PROVE  [Hardened EXCEPT !.acao = x.acao, !.acac = x.acac, !.xcto = x.xcto] \in AnyResponse
  BY <1>1 DEF AnyResponse
<1>5. ASSUME NEW x \in [server: {"", "name", "version"}, poweredBy: BOOLEAN,
                          referrer: {"", "strict", "unsafe-url", "other"}]
      PROVE  [Hardened EXCEPT !.server = x.server, !.poweredBy = x.poweredBy,
                              !.referrer = x.referrer] \in AnyResponse
  BY <1>1 DEF AnyResponse
<1>6. ASSUME NEW cookies \in SUBSET Cookie
      PROVE  [Hardened EXCEPT !.cookies = cookies] \in AnyResponse
  BY <1>1 DEF AnyResponse
<1>7. ASSUME NEW r \in Responses
      PROVE  r \in AnyResponse
  BY <1>2, <1>3, <1>4, <1>5, <1>6 DEF Responses
<1>8. ASSUME NEW origin, NEW answers \in {"ok", "error"}, NEW r \in Responses,
             NEW other \in {"ok", "down"}
      PROVE  Site(origin, answers, r, other) \in AnySite
  <2>1. r \in AnyResponse
    BY <1>7
  <2> QED BY <1>1, <2>1 DEF Site, AnySite
<1>9. NoSample \in AnySite
  <2> QED BY <1>1 DEF NoSample, AnySite
<1> QED BY <1>8, <1>9

\* The tables of header-checks and of the verifier, and the rules for the alerts
\* of ZAP, agree on every state of the model.
THEOREM RulesAlwaysAgree == MCSpec => []RulesAgree
<1>1. MCInit => sample \in AnySite
  BY SitesAreSites DEF MCInit
<1>2. sample \in AnySite /\ [MCNext]_findingsVars => (sample \in AnySite)'
  BY DEF MCNext, findingsVars
<1>3. sample \in AnySite => RulesAgree
  BY RulesAgreeAnywhere
<1> QED BY <1>1, <1>2, <1>3, PTL DEF MCSpec

-----------------------------------------------------------------------------
(* The slices together.                                                    *)

\* Each slice moves one of the three parts.
LEMMA Parts == MCSpec => LiveSpec /\ ZapSpec /\ ReportSpec
<1>1. MCInit => LiveInit /\ ZapInit /\ ReportInit
  BY DEF MCInit
<1>2. [MCNext]_findingsVars => [LiveNext]_liveVars
  BY DEF MCNext, findingsVars
<1>3. [MCNext]_findingsVars => [ZapNext]_zapVars
  BY DEF MCNext, findingsVars
<1>4. [MCNext]_findingsVars => [ReportNext]_reportVars
  BY DEF MCNext, findingsVars
<1> QED BY <1>1, <1>2, <1>3, <1>4, PTL DEF MCSpec, LiveSpec, ZapSpec, ReportSpec

\* Live verification, the ZAP daemon and the way to the report keep their types.
THEOREM FindingsTypeCorrect == MCSpec => []TypeOK
BY Parts, ReportTypeCorrect, LiveTypeCorrect, ZapTypeCorrect, PTL DEF TypeOK
=============================================================================
