------------------------------ MODULE Coverage -------------------------------
(***************************************************************************)
(* What a set of detection rules covers of the ATT&CK techniques in scope  *)
(* (app/mitre/coverage.py, applicability.py, resolve in attack_data.py).   *)
(*                                                                         *)
(* Both are pure functions, recomputed when the rules or the environment   *)
(* are edited: the state is their input, edited row by row.  A reason is   *)
(* its kind, a confidence is its band.  An unknown status counts as        *)
(* enabled.  Tactic rollups count the states and are left out.             *)
(***************************************************************************)
EXTENDS Naturals, FiniteSets

CONSTANTS
    Techniques, \* ids of the register, revoked ones included
    Domain,     \* Domain[t]
    ParentOf,   \* ParentOf[t]: itself if it is no sub-technique
    Successor,  \* Successor[t]: superseded_by; itself if not revoked
    Deprecated, \* deprecated techniques
    PlatformsOf,\* PlatformsOf[t], without the markers PRE and None
    Platforms,
    RuleRows    \* rows of the rule sheet

ASSUME RegisterAssumption ==
    /\ ParentOf \in [Techniques -> Techniques] /\ Successor \in [Techniques -> Techniques]
    /\ Deprecated \subseteq Techniques
    /\ PlatformsOf \in [Techniques -> SUBSET Platforms]

VARIABLES
    rule,      \* rule[r]: the mapping of a row
    inventory, \* platforms of the asset inventory
    exclusion, \* scope exclusions: techniques, domains and platforms
    gated,     \* domains without assets
    policy     \* disabled_counts_as_coverage

covvars == <<rule, inventory, exclusion, gated, policy>>

NoRule == [on |-> "nothing"]
Bands == {"high", "mid", "low"}
Rules == [on : Techniques, confidence : Bands, enabled : BOOLEAN]

Revoked == {t \in Techniques : Successor[t] # t}
Register == Techniques \ Revoked

\* resolve: follow superseded_by (five hops there, two are enough for the
\* registers explored); unknown if that ends in a revoked technique.
Resolved(t) == LET s == Successor[Successor[t]] IN IF s \in Revoked THEN {} ELSE {s}

----------------------------------------------------------------------------
(* compute_applicability *)

PlatformFiltering == inventory # {}
Present(t) == IF PlatformFiltering THEN PlatformsOf[t] \cap inventory ELSE PlatformsOf[t]
DomainOut(t) == Domain[t] \in gated \cup exclusion

SomeGone(t) == Present(t) \cap exclusion # {}
AllGone(t) == Present(t) \subseteq exclusion

PlatformOut(t) ==
    /\ PlatformsOf[t] # {} /\ ~DomainOut(t)
    /\ Present(t) = {} \/ AllGone(t)

NotApplicable(t) ==
    \/ t \in exclusion \/ ParentOf[t] \in exclusion
    \/ t \in Deprecated \/ DomainOut(t) \/ PlatformOut(t)

----------------------------------------------------------------------------
(* compute_coverage *)

Hits(t) == {r \in RuleRows : rule[r] # NoRule /\ t \in Resolved(rule[r].on)}

\* _state_from_hits
Counts(r) == rule[r].enabled \/ policy
DirectState(t) ==
    IF \E r \in Hits(t) : rule[r].confidence = "high" /\ Counts(r) THEN "covered"
    ELSE IF \E r \in Hits(t) : rule[r].confidence \in {"high", "mid"} THEN "partial"
    ELSE "not_covered"

OwnState(t) == IF NotApplicable(t) THEN "not_applicable" ELSE DirectState(t)

CoveredSub(t) ==
    \E s \in Register : s # t /\ ParentOf[s] = t /\ OwnState(s) = "covered"

StateOf(t) ==
    IF OwnState(t) = "not_covered" /\ ParentOf[t] = t /\ CoveredSub(t)
    THEN "partial" ELSE OwnState(t)

----------------------------------------------------------------------------
CovInit ==
    /\ rule = [r \in RuleRows |-> NoRule]
    /\ inventory = {}
    /\ exclusion \in {{}} \cup {{x} : x \in Techniques \cup Platforms
                                            \cup {Domain[t] : t \in Techniques}}
    /\ gated \in SUBSET {"mobile"}
    /\ policy \in BOOLEAN

AddRule(r, new) ==
    /\ rule[r] = NoRule
    /\ rule' = [rule EXCEPT ![r] = new]
    /\ UNCHANGED <<inventory, exclusion, gated, policy>>

RemoveRule(r) ==
    /\ rule[r] # NoRule
    /\ rule' = [rule EXCEPT ![r] = NoRule]
    /\ UNCHANGED <<inventory, exclusion, gated, policy>>

DeclarePlatform(p) ==
    /\ p \notin inventory
    /\ inventory' = inventory \cup {p}
    /\ UNCHANGED <<rule, exclusion, gated, policy>>

CovNext ==
    \/ \E r \in RuleRows : RemoveRule(r) \/ \E new \in Rules : AddRule(r, new)
    \/ \E p \in Platforms : DeclarePlatform(p)

CovSpec == CovInit /\ [][CovNext]_covvars

----------------------------------------------------------------------------
Order == [not_applicable |-> 0, not_covered |-> 1, partial |-> 2, covered |-> 3]
Added == \/ \E r \in RuleRows : rule[r] = NoRule /\ rule'[r] # NoRule
         \/ inventory # {} /\ inventory' # inventory

\* One more rule, or one more platform after the first (which turns platform
\* filtering on), neither lowers the state of a technique nor takes it out of
\* scope, whatever the revocations, roll-ups, exclusions and policy.
MoreIsNeverWorse ==
    [][Added => \A t \in Register : Order[StateOf(t)] <= Order[StateOf(t)']]_covvars
============================================================================
