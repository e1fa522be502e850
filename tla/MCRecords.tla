----------------------------- MODULE MCRecords ------------------------------
(***************************************************************************)
(* The record stores that share no table, one at a time: focus says which  *)
(* of them the requests of a behaviour go to, the others stay as they were *)
(* created.  Their states add up instead of multiplying.                   *)
(***************************************************************************)
EXTENDS DocumentStore, Accounts, Logins, Teams, Discussion, Projects,
        MitreConfig, TLC

CONSTANTS r1, r2, d1, d2, u1, u2, acme, acmeLtd, zenith
TwoRequests == {r1, r2}
TwoDocs == {d1, d2}
TwoUsers == {u1, u2}
OneReactor == {u1}
ThreeNames == {acme, acmeLtd, zenith}
SameFirm == {<<n, n>> : n \in ThreeNames}
            \cup {<<acme, acmeLtd>>, <<acmeLtd, acme>>, <<zenith, acme>>}

VARIABLE focus

Init ==
    /\ focus \in {"documents", "accounts", "logins", "teams", "discussion", "projects",
                 "config"}
    /\ DocInit /\ AccInit /\ LoginInit /\ TeamInit /\ TalkInit /\ ProjectInit
    /\ ConfigInit /\ (focus # "config" => tunable = [floor |-> 1, covered |-> 2])

Next ==
    /\ UNCHANGED focus
    /\ \/ focus = "documents" /\ DocNext
          /\ UNCHANGED <<accvars, loginvars, teamvars, talkvars, projectvars, configvars>>
       \/ focus = "accounts" /\ AccNext
          /\ UNCHANGED <<docvars, loginvars, teamvars, talkvars, projectvars, configvars>>
       \/ focus = "logins" /\ LoginNext
          /\ UNCHANGED <<docvars, accvars, teamvars, talkvars, projectvars, configvars>>
       \/ focus = "teams" /\ TeamNext
          /\ UNCHANGED <<docvars, accvars, loginvars, talkvars, projectvars, configvars>>
       \/ focus = "discussion" /\ TalkNext
          /\ UNCHANGED <<docvars, accvars, loginvars, teamvars, projectvars, configvars>>
       \/ focus = "projects" /\ ProjectNext
          /\ UNCHANGED <<docvars, accvars, loginvars, teamvars, talkvars, configvars>>
       \/ focus = "config" /\ ConfigNext
          /\ UNCHANGED <<docvars, accvars, loginvars, teamvars, talkvars, projectvars>>

vars == <<docvars, accvars, loginvars, teamvars, talkvars, projectvars, configvars, focus>>
Spec == Init /\ [][Next]_vars

Symmetry == Permutations(TwoRequests) \cup Permutations(TwoDocs)
============================================================================
