----------------------------- MODULE NvdRanges -----------------------------
(***************************************************************************)
(* How the Watch Agent decides that a CVE affects a version: the pure part *)
(* of backend/core/watch_agent/nvd_client.py.                              *)
(*                                                                         *)
(* parse_version_tuple splits a version into numbers and words.  A token   *)
(* is <<0, n>> for the number n and <<1, k>> for the k-th word of the      *)
(* alphabet.  Absent stands for a bound that is not given, "*" and         *)
(* "unknown": no token at all.                                             *)
(***************************************************************************)
EXTENDS Naturals, Sequences, FiniteSets

Absent == <<>>

Token(v, i) == IF i <= Len(v) THEN v[i] ELSE <<0, 0>>

\* Mutant: the shorter version is not padded with zeros.
CmpVersions_NotPadded(a, b) ==
  LET n    == IF Len(a) < Len(b) THEN Len(a) ELSE Len(b)
      diff == {i \in 1..n : a[i] # b[i]}
  IN  IF diff = {}
      THEN CASE Len(a) < Len(b) -> "less" [] Len(a) > Len(b) -> "greater" [] OTHER -> "equal"
      ELSE LET i == CHOOSE i \in diff : \A j \in diff : i <= j
           IN  IF a[i][1] # b[i][1] THEN "raise"
               ELSE IF a[i][2] < b[i][2] THEN "less" ELSE "greater"

\* Python compares the padded tuples: the first tokens that differ decide,
\* and comparing a number with a word raises TypeError.
CmpVersions(a, b) ==
  LET n    == IF Len(a) < Len(b) THEN Len(b) ELSE Len(a)
      diff == {i \in 1..n : Token(a, i) # Token(b, i)}
  IN  IF a = Absent \/ b = Absent \/ diff = {} THEN "equal"
      ELSE LET i == CHOOSE i \in diff : \A j \in diff : i <= j
               x == Token(a, i)
               y == Token(b, i)
           IN  IF x[1] # y[1] THEN "raise" ELSE IF x[2] < y[2] THEN "less" ELSE "greater"

\* The comparisons that reject a version, bound by bound.
Rejects == [startIncluding |-> {"less"},
            startExcluding |-> {"less", "equal"},
            endIncluding   |-> {"greater"},
            endExcluding   |-> {"greater", "equal"}]

Bounds == <<"startIncluding", "startExcluding", "endIncluding", "endExcluding">>

\* What the first given bound that does not accept the version says of it.
FirstObjection(v, r) ==
  LET cmp(i)    == CmpVersions(v, r[Bounds[i]])
      objects   == {i \in 1..4 : /\ r[Bounds[i]] # Absent
                                 /\ cmp(i) \in Rejects[Bounds[i]] \cup {"raise"}}
  IN  IF objects = {} THEN "none"
      ELSE cmp(CHOOSE i \in objects : \A j \in objects : i <= j)

\* version_in_range; the CPE's own version counts when no bound is given.
VersionInRange(v, r) ==
  LET given   == {i \in 1..4 : r[Bounds[i]] # Absent}
      said    == IF given = {} THEN CmpVersions(v, r.exact) ELSE FirstObjection(v, r)
      accepts == IF given = {} THEN "equal" ELSE "none"
  IN  IF v = Absent \/ (given = {} /\ r.exact = Absent) THEN "no"
      ELSE IF said = "raise" THEN "raise" ELSE IF said = accepts THEN "yes" ELSE "no"

\* cve_affects_version: the first CPE match of the product that accepts the
\* version or raises decides; matches marked not vulnerable are passed over.
CveAffects(matches, product, v) ==
  LET verdict(i) == VersionInRange(v, matches[i].range)
      decides    == {i \in DOMAIN matches : /\ matches[i].vulnerable
                                            /\ matches[i].product = product
                                            /\ verdict(i) # "no"}
  IN  IF decides = {} THEN "no"
      ELSE verdict(CHOOSE i \in decides : \A j \in decides : i <= j)

-----------------------------------------------------------------------------

\* Versions of up to three components, each a number below 10.
Weight(v) == Token(v, 1)[2] * 100 + Token(v, 2)[2] * 10 + Token(v, 3)[2]

InRangeByWeight(v, r) ==
  /\ \E b \in {Bounds[i] : i \in 1..4} : r[b] # Absent
  /\ r.startIncluding # Absent => Weight(v) >= Weight(r.startIncluding)
  /\ r.startExcluding # Absent => Weight(v) >  Weight(r.startExcluding)
  /\ r.endIncluding   # Absent => Weight(v) <= Weight(r.endIncluding)
  /\ r.endExcluding   # Absent => Weight(v) <  Weight(r.endExcluding)
=============================================================================
