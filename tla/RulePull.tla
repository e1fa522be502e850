------------------------------ MODULE RulePull ------------------------------
(***************************************************************************)
(* Pulling the detection rules out of a customer's SIEM, page by page      *)
(* (pull in app/mitre/connectors/splunk.py and sentinel.py, fetch_json in  *)
(* egress.py).                                                             *)
(*                                                                         *)
(* The SIEM lists its rules by name and sends pages of any size up to the  *)
(* one asked for; its users add and delete rules while the pull goes on.   *)
(* A continuation link of Sentinel is a position in the list.  Statuses,   *)
(* secrets and the CSV made of the rules are left out.                     *)
(***************************************************************************)
EXTENDS Naturals, FiniteSets, Sequences, SequencesExt

CONSTANTS
    SiemRules,    \* names a rule may have
    PageSize,
    MaxPages,     \* MAX_PAGES
    MaxRules,     \* MAX_USE_CASE_ROWS
    MaxAttempts,  \* MAX_ATTEMPTS of a request
    MaxEdits      \* bound on the changes made during a pull

ASSUME PullAssumption ==
    /\ SiemRules \subseteq Nat /\ IsFiniteSet(SiemRules)
    /\ {PageSize, MaxPages, MaxRules, MaxAttempts} \subseteq Nat \ {0} /\ MaxEdits \in Nat

VARIABLES
    platform,
    listed,   \* rules the SIEM holds
    pull,     \* the connector's local variables
    added,    \* history: rules added during the pull
    removed,  \* history: rules deleted during the pull
    unsized   \* history: Splunk sent a page without the total

pullvars == <<platform, listed, pull, added, removed, unsized>>

PullInit ==
    /\ platform \in {"splunk", "sentinel"} /\ listed \in SUBSET SiemRules
    /\ pull = [pc |-> IF platform = "splunk" THEN "page" ELSE "token",
               got |-> <<>>, offset |-> 0, pages |-> 0, attempt |-> 1, cut |-> FALSE]
    /\ added = {} /\ removed = {} /\ unsized = FALSE

Position(x) == Cardinality({y \in listed : y < x}) + 1
Listing == [i \in 1..Cardinality(listed) |-> CHOOSE x \in listed : Position(x) = i]
Pulling == pull.pc \in {"token", "page", "inventory"}

----------------------------------------------------------------------------
(* fetch_json *)

\* 429, 502, 503, 504
Retry ==
    /\ Pulling /\ pull.attempt < MaxAttempts
    /\ pull' = [pull EXCEPT !.attempt = @ + 1]
    /\ UNCHANGED <<platform, listed, added, removed, unsized>>

\* No sign-in, no connection, another status, no JSON; the last attempt's 429.
PullFails ==
    /\ pull.pc \in {"token", "page"}
    /\ pull' = [pull EXCEPT !.pc = "failed"]
    /\ UNCHANGED <<platform, listed, added, removed, unsized>>

----------------------------------------------------------------------------
(* pull *)

GetToken ==
    /\ pull.pc = "token"
    /\ pull' = [pull EXCEPT !.pc = "page", !.attempt = 1]
    /\ UNCHANGED <<platform, listed, added, removed, unsized>>

\* An empty list fails; Sentinel's data connectors are looked at last.
AfterPages(got) ==
    IF got = <<>> THEN "failed" ELSE IF platform = "sentinel" THEN "inventory" ELSE "done"

TooManyPages ==
    /\ pull.pc = "page" /\ pull.pages = MaxPages
    /\ pull' = [pull EXCEPT !.pc = AfterPages(pull.got), !.cut = TRUE]
    /\ UNCHANGED <<platform, listed, added, removed, unsized>>

Capped(got) == IF Len(got) > MaxRules THEN SubSeq(got, 1, MaxRules) ELSE got
NextAsked(page) == pull.offset + PageSize
NextOffset(page) == pull.offset + Len(page)

\* Splunk's total may be absent, Sentinel's page may be empty but for a link.
GetPage(n, sized) ==
    LET page == SubSeq(Listing, pull.offset + 1, pull.offset + n)
        got == pull.got \o page
        full == Len(got) >= MaxRules
        more == NextOffset(page) < Len(Listing) /\ (platform = "splunk" => page # <<>> /\ sized)
    IN  /\ pull.pc = "page" /\ pull.pages < MaxPages
        /\ pull.offset + n <= Len(Listing) \/ n = 0
        /\ (platform = "splunk" /\ n = 0) => pull.offset >= Len(Listing)
        /\ pull' = [pull EXCEPT !.got = Capped(got), !.offset = NextOffset(page),
                                !.pages = @ + 1, !.attempt = 1, !.cut = full,
                                !.pc = IF more /\ ~full THEN "page" ELSE AfterPages(got)]
        /\ unsized' = (unsized \/ (platform = "splunk" /\ ~sized))
        /\ UNCHANGED <<platform, listed, added, removed>>

\* _pull_data_connectors: read or degraded, it fails nothing.
Inventory ==
    /\ pull.pc = "inventory"
    /\ pull' = [pull EXCEPT !.pc = "done"]
    /\ UNCHANGED <<platform, listed, added, removed, unsized>>

----------------------------------------------------------------------------
(* The SIEM's users *)

Edits == Cardinality(added) + Cardinality(removed)

SaveRule(x) ==
    /\ Pulling /\ x \notin listed /\ Edits < MaxEdits
    /\ listed' = listed \cup {x} /\ added' = added \cup {x}
    /\ UNCHANGED <<platform, pull, removed, unsized>>

DeleteRule(x) ==
    /\ Pulling /\ x \in listed /\ Edits < MaxEdits
    /\ listed' = listed \ {x} /\ removed' = removed \cup {x}
    /\ UNCHANGED <<platform, pull, added, unsized>>

PullNext ==
    \/ Retry \/ PullFails \/ GetToken \/ TooManyPages \/ Inventory
    \/ \E n \in 0..PageSize, sized \in BOOLEAN : GetPage(n, sized)
    \/ \E x \in SiemRules : SaveRule(x) \/ DeleteRule(x)

PullSpec == PullInit /\ [][PullNext]_pullvars

----------------------------------------------------------------------------
\* A pull that says nothing of a limit has every rule the SIEM held throughout,
\* each once: only a deletion beside it, or a page of unknown total, hides one
\* that stayed, and only an addition brings one twice.
PullsMissForAReason ==
    pull.pc = "done" =>
        /\ pull.cut \/ unsized \/ removed # {} \/ listed \ added \subseteq ToSet(pull.got)
        /\ added # {} \/ IsInjective(pull.got)
=============================================================================
