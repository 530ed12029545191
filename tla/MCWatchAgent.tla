---------------------------- MODULE MCWatchAgent ----------------------------
(***************************************************************************)
(* WatchAgent for TLC, in slices of its state space: the outbox, filled by  *)
(* the scans of a site that does not change; the scans of a changing site, *)
(* with no drain; the CVE check, with no findings.  A last slice, without  *)
(* steps, has a state for every version and range to compare.              *)
(***************************************************************************)
EXTENDS WatchAgent, TLC

CONSTANTS hsts, env, wordpress, plugin, cve1, cve2

VARIABLES slice, sample

MCMembers == <<"owner", "admin">>

MCCheckOf == hsts :> "headers" @@ env :> "exposed"

V(a, b) == <<<<0, a>>, <<0, b>>>>

Beta == <<<<0, 6>>, <<1, 2>>>>

MCVersion == wordpress :> V(6, 3) @@ plugin :> V(1, 0)

AnyVersion == [exact |-> Absent, startIncluding |-> Absent, startExcluding |-> Absent,
               endIncluding |-> Absent, endExcluding |-> Absent]

Match(p, r) == [product |-> p, vulnerable |-> TRUE, range |-> r]

\* cve1 affects both products; cve2 affects the plugin, and its range for
\* wordpress, up to 6-b, cannot be compared with 6.3.
MCCpeMatches ==
  cve1 :> <<Match(wordpress, [AnyVersion EXCEPT !.startIncluding = V(6, 0),
                                               !.endExcluding = V(6, 4)]),
            Match(plugin, [AnyVersion EXCEPT !.exact = <<<<0, 1>>>>])>>
  @@
  cve2 :> <<Match(wordpress, [AnyVersion EXCEPT !.endIncluding = Beta]),
            Match(plugin, [AnyVersion EXCEPT !.endIncluding = V(2, 0)])>>

\* The description of cve2 names wordpress alone: the keyword search for the
\* plugin, which it affects, does not return it.
MCNamed == cve1 :> {wordpress, plugin} @@ cve2 :> {wordpress}

InSlice ==
  \/ /\ slice = "outbox" /\ fresh = {} /\ ~checked
     /\ installed = {} /\ active /\ live = [Nothing EXCEPT ![hsts] = 1]
     /\ Len(outbox) = 2 => scan = NoScan
     /\ crashes + faults <= 1
  \/ /\ slice = "scan" /\ fresh = {} /\ ~checked /\ batch = {}
     /\ installed = {} /\ live[env] <= 1 /\ active /\ crashes = 0
  \/ /\ slice = "cve" /\ batch = {}
     /\ live = Nothing /\ enabled

Bound == {<<>>} \cup {<<<<0, a>>>> : a \in 0..1} \cup {V(a, b) : a, b \in 0..1}

NoSample == [version |-> Absent, range |-> AnyVersion]

Samples == [version: Bound \ {Absent},
            range: [exact: {Absent}, startIncluding: Bound, startExcluding: Bound,
                    endIncluding: Bound, endExcluding: Bound]]

MCInit ==
  /\ Init
  /\ \/ slice \in {"outbox", "scan", "cve"} /\ sample = NoSample /\ InSlice
     \/ /\ slice = "ranges" /\ live = Nothing /\ installed = {}
        /\ sample \in Samples

MCNext == Next /\ UNCHANGED <<slice, sample>> /\ InSlice'

MCSpec == MCInit /\ [][MCNext]_<<agentVars, slice, sample>> /\ Fairness

-----------------------------------------------------------------------------

\* version_in_range agrees with the order of the numbers: on versions of any
\* length made of numbers it never raises, pads the shorter version with
\* zeros, and takes a version exactly when every bound that is given allows it.
RangesAgree ==
  slice = "ranges" =>
    VersionInRange(sample.version, sample.range)
      = IF InRangeByWeight(sample.version, sample.range) THEN "yes" ELSE "no"
=============================================================================
