----------------------------- MODULE ScanReport ------------------------------
(***************************************************************************)
(* Importing a scan's findings.json (_from_findings_json and _finalize in  *)
(* app/codereview/ingest.py): malformed entries are skipped, the rest is   *)
(* sorted, cut at MAX_FINDINGS and renumbered, and the steps of the        *)
(* exploit chains, which count in the scanner's order, are renumbered too. *)
(* A step that is no number becomes a zero, and a zero is taken for the    *)
(* sign of a scanner that counts from zero.                                *)
(*                                                                         *)
(* One chain stands for all: they are told apart nowhere but in the search *)
(* for a zero, which looks at the steps of every chain.                    *)
(***************************************************************************)
EXTENDS Integers, FiniteSets, Sequences

CONSTANTS
    Entries,     \* number of entries in the file
    Severities,  \* ranks, 1 the most severe
    MaxFindings, \* MAX_FINDINGS
    MaxSteps     \* bound on the steps of the chains

NotANumber == 0 - 1   \* stands for a step that is null or text

ASSUME ScanAssumption ==
    /\ Entries \in Nat /\ MaxFindings \in Nat /\ MaxSteps \in Nat
    /\ Severities \subseteq Nat \ {0}

VARIABLES
    entry,  \* entry[p]: the entry at position p, from 0: its severity, or 0 if malformed
    base,   \* the number the scanner gives to its first finding
    steps,  \* the chain's steps as they stand in the file
    shown   \* what the import keeps: findings as positions in display order, and the steps

scanvars == <<entry, base, steps, shown>>

NotImported == [findings |-> <<>>, steps |-> <<>>, done |-> FALSE]
Positions == 0..(Entries - 1)

ScanInit ==
    /\ entry \in [Positions -> Severities \cup {0}]
    /\ base \in {0, 1}
    /\ steps \in UNION {[1..n -> {NotANumber} \cup 0..Entries] : n \in 0..MaxSteps}
    /\ shown = NotImported

Kept == {p \in Positions : entry[p] # 0}
\* The sort is stable: equal severities stay in the scanner's order.
Ahead(p, q) == entry[p] < entry[q] \/ (entry[p] = entry[q] /\ p < q)
Rank(p) == Cardinality({q \in Kept : Ahead(q, p)}) + 1
Displayed == {p \in Kept : Rank(p) <= MaxFindings}
AtRank(i) == CHOOSE p \in Kept : Rank(p) = i

\* _pos, stamped on an entry before it is sorted.
PosOfKept(p) == Cardinality({q \in Kept : q < p})
Pos(p) == p

\* _int: what does not convert becomes the default.
Step(i) == IF steps[i] = NotANumber THEN 0 ELSE steps[i]

Offset == IF \E i \in DOMAIN steps : Step(i) = 0 THEN 0 ELSE 1
\* A step that names no displayed finding is kept as it is.
Remapped(s) ==
    IF \E p \in Displayed : Pos(p) = s - Offset
    THEN Rank(CHOOSE p \in Displayed : Pos(p) = s - Offset)
    ELSE s

Import ==
    /\ ~shown.done
    /\ shown' = [findings |-> [i \in 1..Cardinality(Displayed) |-> AtRank(i)],
                 steps |-> [i \in DOMAIN steps |->
                               IF Displayed = {} THEN Step(i) ELSE Remapped(Step(i))],
                 done |-> TRUE]
    /\ UNCHANGED <<entry, base, steps>>

ScanNext == Import
ScanSpec == ScanInit /\ [][ScanNext]_scanvars

----------------------------------------------------------------------------
Shows(i, meant) ==
    meant \in Displayed =>
        /\ shown.steps[i] \in DOMAIN shown.findings
        /\ shown.findings[shown.steps[i]] = meant

\* What the chains say of the scanner's base is right: one that counts from
\* zero names its first finding, one that counts from one has neither a zero
\* nor a step that is no number.
BaseShows ==
    base = 0 <=> \E i \in DOMAIN steps : steps[i] \in {0, NotANumber}

\* After skipping, sorting and cutting, the chain steps that are numbers show
\* the findings the scanner meant, as far as these are displayed: each of them
\* in a file whose BaseShows, and all of them off by the same one place in any
\* other, where _finalize takes a wrong base from the absence of a zero or from
\* a step that is no number.
ChainsFollowFindings ==
    shown.done =>
        \E off \in -1..1 :
            /\ BaseShows => off = 0
            /\ \A i \in DOMAIN steps :
                   steps[i] # NotANumber => Shows(i, steps[i] - base + off)
============================================================================
