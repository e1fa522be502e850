---------------------------- MODULE FindingMerge -----------------------------
(***************************************************************************)
(* Collapsing the findings that several agents report for one passage      *)
(* (_dedupe_findings in app/ai/orchestrator.py).                           *)
(*                                                                         *)
(* The loops run pair by pair, and every find of the union-find link by    *)
(* link, halving the path behind it.  The similarity of two quotes is      *)
(* given; it need not be transitive.                                       *)
(***************************************************************************)
EXTENDS Naturals, Sequences

CONSTANTS
    Reports,    \* number of findings
    Reviewers   \* agents

ASSUME MergeAssumption == Reports \in Nat \ {0}

VARIABLES
    author,  \* author[i]: source_agent
    short,   \* findings with too little evidence to compare
    alike,   \* pairs whose quotes reach the threshold
    parent,  \* the forest
    pair,    \* the next pair <<i, j>> of the two loops; i = Reports at the end
    walk,    \* the find under way: what it is for, where it is, what was found before
    group    \* group[i]: find(i) when the groups are formed

mergevars == <<author, short, alike, parent, pair, walk, group>>

Items == 1..Reports
Pairs == {p \in Items \X Items : p[1] < p[2]}
NoWalk == [goal |-> "none"]

MergeInit ==
    /\ author \in [Items -> Reviewers]
    /\ short \in {{}} \cup {{i} : i \in Items}
    /\ alike \in SUBSET Pairs
    /\ parent = [i \in Items |-> i]
    /\ pair = <<1, 2>>
    /\ walk = NoWalk
    /\ group = <<>>

Anyone(i, j) == {i, j} \cap short = {} /\ <<i, j>> \in alike
Comparable(i, j) == Anyone(i, j) /\ author[i] # author[j]

NextPair == IF pair[2] < Reports THEN <<pair[1], pair[2] + 1>> ELSE <<pair[1] + 1, pair[1] + 2>>

\* The body of the loops: nothing to do, or union begins with find(i).
ComparePair ==
    LET i == pair[1]
    IN  /\ walk = NoWalk /\ i < Reports
        /\ IF Comparable(i, pair[2])
           THEN walk' = [goal |-> "left", at |-> i] /\ UNCHANGED pair
           ELSE pair' = NextPair /\ UNCHANGED walk
        /\ UNCHANGED <<author, short, alike, parent, group>>

\* One round of find: the item is hung below its grandparent, where find goes on.
Halve ==
    LET i == walk.at
    IN  /\ walk # NoWalk /\ parent[i] # i
        /\ parent' = [parent EXCEPT ![i] = parent[parent[i]]]
        /\ walk' = [walk EXCEPT !.at = parent[parent[i]]]
        /\ UNCHANGED <<author, short, alike, pair, group>>

AtRoot(goal) == walk.goal = goal /\ parent[walk.at] = walk.at

LeftFound ==
    /\ AtRoot("left")
    /\ walk' = [goal |-> "right", at |-> pair[2], left |-> walk.at]
    /\ UNCHANGED <<author, short, alike, parent, pair, group>>

Joined(i, j) == IF i = j THEN parent ELSE [parent EXCEPT ![i] = j]

RightFound ==
    /\ AtRoot("right")
    /\ parent' = Joined(walk.left, walk.at)
    /\ pair' = NextPair
    /\ walk' = NoWalk
    /\ UNCHANGED <<author, short, alike, group>>

\* The loop that forms the groups, one find for each finding.
NextItem ==
    /\ walk = NoWalk /\ pair[1] = Reports /\ Len(group) < Reports
    /\ walk' = [goal |-> "group", at |-> Len(group) + 1]
    /\ UNCHANGED <<author, short, alike, parent, pair, group>>

GroupFound ==
    /\ AtRoot("group")
    /\ group' = Append(group, walk.at)
    /\ walk' = NoWalk
    /\ UNCHANGED <<author, short, alike, parent, pair>>

MergeNext == ComparePair \/ Halve \/ LeftFound \/ RightFound \/ NextItem \/ GroupFound
MergeSpec == MergeInit /\ [][MergeNext]_mergevars

GroupOf(i) == {j \in Items : group[j] = group[i]}

----------------------------------------------------------------------------
\* The pairs the loops have looked at and found to be one issue.
Linked == {p \in alike : /\ {p[1], p[2]} \cap short = {} /\ author[p[1]] # author[p[2]]
                         /\ p[1] < pair[1] \/ (p[1] = pair[1] /\ p[2] < pair[2])}
Closed(S) == \A p \in Linked : p[1] \in S <=> p[2] \in S

\* No set of findings passes find on for ever: following the parents out of any
\* of them one meets a root.
FindEnds ==
    \A S \in SUBSET Items :
        S # {} /\ (\A i \in S : parent[i] \in S) => \E i \in S : parent[i] = i

\* Two findings are collapsed exactly if a chain of similar quotes of different
\* agents leads from one to the other: a group is closed under the links and
\* no proper part of it is.  Which pair is compared first does not matter, nor
\* what the finds do to the paths; and every find ends.
GroupsAreConnected ==
    /\ FindEnds
    /\ Len(group) = Reports =>
        \A i \in Items :
            /\ Closed(GroupOf(i))
            /\ \A S \in SUBSET GroupOf(i) : (i \in S /\ Closed(S)) => S = GroupOf(i)
============================================================================
