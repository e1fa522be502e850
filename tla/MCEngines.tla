----------------------------- MODULE MCEngines ------------------------------
(***************************************************************************)
(* The in-process engines and the cache, which share no state, one at a    *)
(* time: focus says which of them a behaviour exercises.                   *)
(***************************************************************************)
EXTENDS ResponseCache, CircuitBreaker, LoginLockout, FindingMerge, Coverage,
        Roadmap, ScanReport, RulePull, TLC

CONSTANTS b1, b2, s1, s2, c1, c2, e1, e2, e3

TwoBrowsers == {b1, b2}
TwoSavers == {s1, s2}
TwoCalls == {c1, c2}
ThreeEmails == {e1, e2, e3}

\* T1 with its sub-technique, a revoked technique it replaces, a deprecated
\* one, a mobile one and one whose successor is gone.
Register5 == {"T1", "T1.1", "Old", "Gone", "Mobile"}
Domains == [t \in Register5 |-> IF t = "Mobile" THEN "mobile" ELSE "enterprise"]
Parents == [t \in Register5 |-> IF t = "T1.1" THEN "T1" ELSE t]
Successors == [t \in Register5 |-> IF t = "Old" THEN "T1.1" ELSE t]
GoneOnes == {"Gone"}
RunsOn == [t \in Register5 |->
              CASE t = "T1" -> {"windows", "linux"}
                [] t = "T1.1" -> {"windows"}
                [] t = "Old" -> {"linux"}
                [] t = "Gone" -> {"windows"}
                [] OTHER -> {}]

\* A host-only gap, a gap that is mostly endpoint, and one with no telemetry.
GapWants == [host |-> <<"identity", "endpoint">>, mixed |-> <<"identity", "endpoint", "endpoint">>,
             bare |-> <<>>]

VARIABLE focus

Engines == {"cache", "breaker", "lockout", "merge", "coverage", "roadmap", "scan", "pull"}
\* Only the focused engine starts in more than one state.
Init ==
    /\ focus \in Engines
    /\ CacheInit /\ BreakerInit /\ LockInit /\ RoadInit
    /\ MergeInit /\ (focus # "merge" =>
           short = {} /\ alike = {} /\ \A i, j \in Items : author[i] = author[j])
    /\ CovInit /\ (focus # "coverage" => exclusion = {} /\ gated = {} /\ ~policy)
    /\ ScanInit /\ (focus # "scan" =>
           base = 1 /\ steps = <<>> /\ \A p \in Positions : entry[p] = 0)
    /\ PullInit /\ (focus # "pull" => platform = "splunk" /\ listed = {})

NotCache == <<breakervars, lockvars, mergevars, covvars, roadvars, scanvars, pullvars, focus>>
NotBreaker == <<cachevars, lockvars, mergevars, covvars, roadvars, scanvars, pullvars, focus>>
NotLockout == <<cachevars, breakervars, mergevars, covvars, roadvars, scanvars, pullvars, focus>>
NotMerge == <<cachevars, breakervars, lockvars, covvars, roadvars, scanvars, pullvars, focus>>
NotCoverage == <<cachevars, breakervars, lockvars, mergevars, roadvars, scanvars, pullvars, focus>>
NotRoadmap == <<cachevars, breakervars, lockvars, mergevars, covvars, scanvars, pullvars, focus>>
NotScan == <<cachevars, breakervars, lockvars, mergevars, covvars, roadvars, pullvars, focus>>
NotPull == <<cachevars, breakervars, lockvars, mergevars, covvars, roadvars, scanvars, focus>>

Next ==
    \/ focus = "cache" /\ CacheNext /\ UNCHANGED NotCache
    \/ focus = "breaker" /\ BreakerNext /\ UNCHANGED NotBreaker
    \/ focus = "lockout" /\ LockNext /\ UNCHANGED NotLockout
    \/ focus = "merge" /\ MergeNext /\ UNCHANGED NotMerge
    \/ focus = "coverage" /\ CovNext /\ UNCHANGED NotCoverage
    \/ focus = "roadmap" /\ RoadNext /\ UNCHANGED NotRoadmap
    \/ focus = "scan" /\ ScanNext /\ UNCHANGED NotScan
    \/ focus = "pull" /\ PullNext /\ UNCHANGED NotPull

vars == <<cachevars, breakervars, lockvars, mergevars, covvars, roadvars, scanvars, pullvars, focus>>

\* Time passes for the cache and the breaker; nothing else need happen.
Spec ==
    /\ Init /\ [][Next]_vars
    /\ WF_vars(focus = "cache" /\ CacheTick /\ UNCHANGED NotCache)
    /\ WF_vars(focus = "breaker" /\ BreakerTick /\ UNCHANGED NotBreaker)
============================================================================
