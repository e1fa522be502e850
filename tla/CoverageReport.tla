--------------------------- MODULE CoverageReport ---------------------------
(***************************************************************************)
(* What an assessment promises those who read and correct its report (the  *)
(* docstrings of app/mitre/service.py and app/mitre/router.py): a run maps *)
(* only what nobody has mapped, and publishes the table it leaves; a       *)
(* correction changes one row of the published table and the report with   *)
(* it, as if no other were under way; a failure and a new run touch        *)
(* neither.                                                                *)
(*                                                                         *)
(* Once two runs have been alive together nothing is promised.             *)
(***************************************************************************)
CONSTANTS
    Rows,   \* keys of the use-case rows
    Rules,  \* what a row may hold
    Open    \* the rules among them that a run may replace

VARIABLES
    phase,   \* pending, running, completed or failed
    table,   \* table[r]: the rule of a row
    report,  \* the table the results were computed from
    crossed  \* two runs have been alive at once

reportvars == <<phase, table, report, crossed>>

Tables == [Rows -> Rules]

ReportInit ==
    /\ phase = "pending" /\ ~crossed
    /\ table \in Tables /\ report \in Tables

\* The dump is parsed anew under other columns.
Remap ==
    /\ phase = "pending"
    /\ table' \in Tables
    /\ UNCHANGED <<phase, report, crossed>>

Start ==
    /\ phase' = "running"
    /\ UNCHANGED <<table, report, crossed>>

\* A run that was given up may still be at work.
MapOpen ==
    /\ phase \in {"running", "failed"}
    /\ table' \in Tables
    /\ \A r \in Rows : table'[r] # table[r] => table[r] \in Open
    /\ UNCHANGED <<phase, report, crossed>>

Publish ==
    /\ phase \in {"running", "failed"} /\ phase' = "completed"
    /\ report' = table
    /\ UNCHANGED <<table, crossed>>

Correct ==
    /\ phase = "completed"
    /\ table' \in Tables
    /\ \E r \in Rows : \A q \in Rows \ {r} : table'[q] = table[q]
    /\ report' = table'
    /\ UNCHANGED <<phase, crossed>>

Fail ==
    /\ phase # "pending" /\ phase' = "failed"
    /\ UNCHANGED <<table, report, crossed>>

Cross ==
    /\ phase' = "running" /\ crossed'
    /\ UNCHANGED <<table, report>>

Unpromised == crossed /\ crossed'

ReportNext ==
    Remap \/ Start \/ MapOpen \/ Publish \/ Correct \/ Fail \/ Cross \/ Unpromised

ReportSpec == ReportInit /\ [][ReportNext]_reportvars
============================================================================
