-------------------------- MODULE ReviewLifecycle --------------------------
(***************************************************************************)
(* Document reviews of one organisation: the run allowance gate of         *)
(* app/entitlements.py, POST /reviews/{doc}/trigger and its verification   *)
(* of the previous version's findings (app/routers/reviews.py,             *)
(* app/insights/fix_verification.py), one document of POST                 *)
(* /documents/bulk-review (app/routers/documents_bulk.py), and the         *)
(* reviewers' PATCH of a finding.                                          *)
(*                                                                         *)
(* A request runs in one database session.  What it has written and not    *)
(* committed is invisible, and the uncommitted decrement of run_allowance  *)
(* locks the organisation's row.  Findings are told apart by the issue     *)
(* they match on; the agents are an arbitrary choice of issues.            *)
(***************************************************************************)
EXTENDS Integers

CONSTANTS
    Requests,      \* trigger requests; each creates at most one review
    Bulk,          \* documents reviewed by bulk requests
    Issues,        \* what findings are matched on: category and section
    Patchers,      \* concurrent PATCH requests on the old findings
    MaxAllowance,  \* bound on the runs an administrator grants
    Nobody

Reviews == Requests \cup Bulk

ASSUME BoundAssumption == MaxAllowance \in Nat
ASSUME NamesAssumption == Requests \cap Bulk = {} /\ Nobody \notin Reviews \cup Issues

VARIABLES
    org,       \* the organizations row: tier, run_allowance, and its row lock
    review,    \* the committed reviews rows with their findings
    finding,   \* the findings of the previous version's completed review
    req,       \* req[r]: a trigger request, or a document of a bulk request
    patch,     \* patch[c]: a PATCH between its SELECT and its commit
    granted,   \* history: the allowance last set by the administrator
    spent      \* history: reviews it has paid for since

vars == <<org, review, finding, req, patch, granted, spent>>

FindingStatuses == {"open", "acknowledged", "resolved", "dismissed"}
Finding == [status : FindingStatuses,
            verdict : {"none", "verified", "still_present"},
            by : Requests \cup {Nobody}]
Review == [status : {"none", "pending", "running", "completed", "failed"},
           found : SUBSET Issues]
Organization == [tier : {"free", "paid"}, allowance : 0..MaxAllowance,
                 lock : Requests \cup {Nobody}]

\* "lost": the process died or the session broke, and nothing was recorded.
InFlight == {"gate", "consume", "load", "created", "agents", "commit"}
Request == [pc : {"new", "done", "lost"} \cup InFlight,
            found : SUBSET Issues,
            seen : [Issues -> FindingStatuses]]     \* statuses as selected
Patch == [issue : Issues \cup {Nobody}, seen : FindingStatuses]

NoReview == [status |-> "none", found |-> {}]
AllOpen == [i \in Issues |-> "open"]
RequestAt(pc) == [pc |-> pc, found |-> {}, seen |-> AllOpen]
IdlePatch == [issue |-> Nobody, seen |-> "open"]

Init ==
    /\ \E tier \in {"free", "paid"}, n \in 0..MaxAllowance :
        /\ org = [tier |-> tier, allowance |-> n, lock |-> Nobody]
        /\ granted = n
    /\ spent = 0
    /\ review = [r \in Reviews |-> NoReview]
    /\ finding = [i \in Issues |-> [status |-> "open", verdict |-> "none", by |-> Nobody]]
    /\ req = [r \in Reviews |-> RequestAt("new")]
    /\ patch = [c \in Patchers |-> IdlePatch]

At(r, pc) == req[r].pc = pc
Goto(r, pc) == req' = [req EXCEPT ![r] = RequestAt(pc)]
Record(r, status, found) ==
    review' = [review EXCEPT ![r] = [status |-> status, found |-> found]]

KeepsLock(r) == org
\* Closing the session rolls the transaction back.
RolledBack(r) == [org EXCEPT !.lock = IF @ = r THEN Nobody ELSE @]

----------------------------------------------------------------------------
(* require_runs_enabled *)

GateRead(r) ==
    /\ At(r, "new")
    /\ \/ org.tier = "paid" /\ Goto(r, "load")
       \/ org.tier = "free" /\ org.allowance > 0 /\ Goto(r, "consume")
       \/ org.tier = "free" /\ org.allowance = 0 /\ Goto(r, "done")
    /\ UNCHANGED <<org, review, finding, patch, granted, spent>>

GrantSeen == TRUE
\* UPDATE ... WHERE run_allowance > 0, evaluated once the row lock is had.
GrantLeft == org.allowance > 0

GateConsume(r) ==
    /\ At(r, "consume") /\ org.lock = Nobody
    /\ \/ GrantLeft /\ org' = [org EXCEPT !.lock = r] /\ Goto(r, "load")
       \/ ~GrantLeft /\ UNCHANGED org /\ Goto(r, "done")
    /\ UNCHANGED <<review, finding, patch, granted, spent>>

----------------------------------------------------------------------------
(* trigger_review *)

\* Unknown, foreign or unreadable document.
Refuse(r) ==
    /\ At(r, "load")
    /\ org' = RolledBack(r)
    /\ Goto(r, "done")
    /\ UNCHANGED <<review, finding, patch, granted, spent>>

\* The handler's first commit lands the pending review and the decrement.
Create(r) ==
    /\ At(r, "load")
    /\ Record(r, "pending", {})
    /\ IF org.lock = r
       THEN /\ org' = [org EXCEPT !.allowance = @ - 1, !.lock = Nobody]
            /\ spent' = spent + 1
       ELSE UNCHANGED <<org, spent>>
    /\ Goto(r, "created")
    /\ UNCHANGED <<finding, patch, granted>>

Start(r) ==
    /\ At(r, "created")
    /\ Record(r, "running", {})
    /\ Goto(r, "agents")
    /\ UNCHANGED <<org, finding, patch, granted, spent>>

\* The agents answered; SELECT of the previous version's findings.
VerifyRead(r, found) ==
    /\ At(r, "agents") /\ r \in Requests
    /\ req' = [req EXCEPT ![r] = [pc |-> "commit", found |-> found,
                                  seen |-> [i \in Issues |-> finding[i].status]]]
    /\ UNCHANGED <<org, review, finding, patch, granted, spent>>

NotFlushed(r) == {}
\* The session does not autoflush: the new findings are flushed to be found.
Flushed(r) == req[r].found

\* apply_verification: the session writes a status back only where it differs
\* from the one it selected.
Verified(r, i) ==
    LET seen == req[r].seen[i]
        gone == i \notin Flushed(r)
    IN  [status |-> IF gone /\ seen # "resolved" THEN "resolved"
                    ELSE IF ~gone /\ seen = "resolved" THEN "open"
                    ELSE finding[i].status,
         verdict |-> IF gone THEN "verified" ELSE "still_present",
         by |-> r]

VerifyCommit(r) ==
    /\ At(r, "commit")
    /\ Record(r, "completed", req[r].found)
    /\ finding' = [i \in Issues |-> Verified(r, i)]
    /\ Goto(r, "done")
    /\ UNCHANGED <<org, patch, granted, spent>>

Unlisted == "error"
Failed == "failed"

\* The except clause commits without a rollback, and with it the findings
\* added before the exception.
Fail(r, found) ==
    /\ At(r, "agents") /\ r \in Requests
    /\ Record(r, Failed, found)
    /\ Goto(r, "done")
    /\ UNCHANGED <<org, finding, patch, granted, spent>>

\* After a failed statement the session accepts nothing but a rollback, and
\* the commit of the except clause raises in turn.
SessionBreaks(r) ==
    /\ req[r].pc \in InFlight
    /\ org' = RolledBack(r)
    /\ Goto(r, "lost")
    /\ UNCHANGED <<review, finding, patch, granted, spent>>

----------------------------------------------------------------------------
(* bulk_trigger_review: one transaction per document, no allowance, and no *)
(* verification of the previous version                                    *)

BulkStart(b) ==
    /\ At(b, "new") /\ org.tier = "paid"
    /\ Goto(b, "agents")
    /\ UNCHANGED <<org, review, finding, patch, granted, spent>>

\* With an agent's answer at hand the loop over its keys raises; only rule
\* violations are ever stored.
BulkEnds(b, answered, violations) ==
    /\ b \in Bulk /\ At(b, "agents")
    /\ IF answered THEN Record(b, Failed, {}) ELSE Record(b, "completed", violations)
    /\ Goto(b, "done")
    /\ UNCHANGED <<org, finding, patch, granted, spent>>

----------------------------------------------------------------------------
(* update_finding_status, and the platform administrator *)

PatchRead(c, i) ==
    /\ patch[c] = IdlePatch
    /\ patch' = [patch EXCEPT ![c] = [issue |-> i, seen |-> finding[i].status]]
    /\ UNCHANGED <<org, review, finding, req, granted, spent>>

PatchCommit(c, status) ==
    LET i == patch[c].issue
    IN  /\ i # Nobody
        /\ finding' = IF status = patch[c].seen THEN finding
                      ELSE [finding EXCEPT ![i].status = status]
        /\ patch' = [patch EXCEPT ![c] = IdlePatch]
        /\ UNCHANGED <<org, review, req, granted, spent>>

\* One step for SELECT and commit: the value written is absolute, and writing
\* the value it has read is no UPDATE at all.
Grant(n) ==
    /\ org.lock = Nobody /\ n # org.allowance
    /\ org' = [org EXCEPT !.allowance = n]
    /\ granted' = n /\ spent' = 0
    /\ UNCHANGED <<review, finding, req, patch>>

SetTier(tier) ==
    /\ org.lock = Nobody /\ tier # org.tier
    /\ org' = [org EXCEPT !.tier = tier]
    /\ UNCHANGED <<review, finding, req, patch, granted, spent>>

\* The API process dies with every request; the database rolls back.
Crash ==
    /\ req' = [r \in Reviews |->
                IF req[r].pc \in InFlight THEN RequestAt("lost") ELSE req[r]]
    /\ patch' = [c \in Patchers |-> IdlePatch]
    /\ org' = [org EXCEPT !.lock = Nobody]
    /\ UNCHANGED <<review, finding, granted, spent>>

----------------------------------------------------------------------------
TriggerStep(r) ==
    \/ GateRead(r) \/ GateConsume(r) \/ Refuse(r) \/ Create(r) \/ Start(r)
    \/ \E found \in SUBSET Issues : VerifyRead(r, found) \/ Fail(r, found)
    \/ VerifyCommit(r)

BulkStep(b) ==
    \/ BulkStart(b)
    \/ \E answered \in BOOLEAN, violations \in SUBSET Issues :
        BulkEnds(b, answered, violations)

PatchStep(c) ==
    \/ \E i \in Issues : PatchRead(c, i)
    \/ \E status \in FindingStatuses : PatchCommit(c, status)

Next ==
    \/ \E r \in Requests : TriggerStep(r)
    \/ \E b \in Bulk : BulkStep(b)
    \/ \E r \in Reviews : SessionBreaks(r)
    \/ \E c \in Patchers : PatchStep(c)
    \/ \E n \in 0..MaxAllowance : Grant(n)
    \/ \E tier \in {"free", "paid"} : SetTier(tier)
    \/ Crash

Spec == Init /\ [][Next]_vars

\* Every call of a handler returns or times out, and PostgreSQL serves the
\* waiters of a row lock in turn.
FairSpec == Spec /\ \A r \in Requests : SF_vars(TriggerStep(r))

----------------------------------------------------------------------------
TypeOK ==
    /\ org \in Organization
    /\ review \in [Reviews -> Review]
    /\ finding \in [Issues -> Finding]
    /\ req \in [Reviews -> Request]
    /\ patch \in [Patchers -> Patch]
    /\ granted \in 0..MaxAllowance
    /\ spent \in Nat

\* However many requests pass the gate together, the organisation is never
\* charged for a run it was not granted, nor for one that was refused before
\* its review was recorded.
AllowanceConserved == spent <= granted /\ org.allowance = granted - spent

\* A verdict on an old finding is the work of a completed review and agrees
\* with what that review found; failed, broken and bulk reviews leave none.
VerdictMatchesReview ==
    \A i \in Issues :
        LET f == finding[i]
        IN  f.by # Nobody =>
                /\ review[f.by].status = "completed"
                /\ f.verdict = IF i \in review[f.by].found
                               THEN "still_present" ELSE "verified"

\* The row lock that the gate takes never outlives its request: a request that
\* waits for its run is admitted or refused.
GateAnswers == \A r \in Requests : At(r, "consume") ~> ~At(r, "consume")

\* "The re-review's result always wins over the manual claim": when a review
\* commits, an old finding is resolved exactly if the review verified it.
VerificationWins ==
    [][\A r \in Requests : VerifyCommit(r) =>
        \A i \in Issues :
            finding'[i].status = "resolved" <=> finding'[i].verdict = "verified"]_vars
============================================================================
