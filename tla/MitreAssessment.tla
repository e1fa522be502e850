-------------------------- MODULE MitreAssessment --------------------------
(***************************************************************************)
(* The life of one MITRE coverage assessment: the HTTP handlers of         *)
(* app/mitre/router.py that write its row and its use-case rows, and the   *)
(* fire-and-forget pipelines of app/mitre/service.py that run it.          *)
(*                                                                         *)
(* PostgreSQL runs at READ COMMITTED.  A handler that reads, awaits and    *)
(* writes later is two actions (XxxRead, XxxCommit); what it read in       *)
(* between is kept in client[c].  SELECT ... FOR UPDATE and an uncommitted *)
(* UPDATE hold rowLock until the commit; every other UPDATE of the         *)
(* assessment row waits for it.  SQLAlchemy writes only the attributes the *)
(* session changed, so a commit changes exactly the fields named here.     *)
(*                                                                         *)
(* The coverage engines are pure functions of the use-case rows, so a      *)
(* stored result is modelled by the rows it was computed from.  Elapsed    *)
(* time is one Boolean: asmt.aged holds once updated_at lies more than     *)
(* STALE_RUN_MINUTES back.                                                 *)
(***************************************************************************)
EXTENDS Naturals, FiniteSets

CONSTANTS
    FileRows,     \* rows of the uploaded dump
    DocRows,      \* rows the AI can extract from a pdf/docx dump
    Layouts,      \* column mappings a dump can be parsed with
    Parsed,       \* Parsed[l][r]: the status the parser gives row r under l
    KeywordHits,  \* rows whose text the keyword pre-pass recognises
    Pipelines,    \* pipeline tasks: bounds how often the assessment is run
    Clients,      \* concurrent HTTP requests of reviewers
    Patchers,     \* the clients among them that send PATCH requests: a bound
    Techniques,   \* techniques credited to a matched tool that no rule detects
    PipelineCap,  \* _PIPELINE_CAP
    Nobody        \* no client, no writer, no argument

\* A row's identity is its primary key: the dump's row, the pipeline that
\* extracted it, or the client that attested it.
RowIds == FileRows \cup (Pipelines \X DocRows) \cup (Clients \X Techniques)

FileStatus == {"customer_tagged", "unmapped"}

\* Provenance stands for the mapping's content: two writers map differently.
Rule == [status : FileStatus \cup
             {"absent", "keyword_tagged", "ai_tagged", "manual", "tool_attested"},
         by : Layouts \cup Pipelines \cup Clients \cup Techniques \cup {Nobody}]
Absent == [status |-> "absent", by |-> Nobody]
NoRules == [r \in RowIds |-> Absent]

ASSUME ParsedAssumption ==
    /\ Parsed \in [Layouts -> [FileRows -> FileStatus \cup {"absent"}]]
    /\ KeywordHits \subseteq RowIds
ASSUME BoundAssumption == Patchers \subseteq Clients /\ PipelineCap \in Nat \ {0}
ASSUME NamesAssumption ==
    /\ FileRows \cap (Pipelines \X DocRows) = {}
    /\ FileRows \cap (Clients \X Techniques) = {}
    /\ Pipelines \cap Clients = {}
    /\ Layouts \cap (Pipelines \cup Clients \cup Techniques) = {}
    /\ Nobody \notin Layouts \cup Pipelines \cup Clients \cup Techniques

VARIABLES
    asmt,      \* the mitre_assessments row
    rules,     \* the live mitre_use_cases rows
    pipe,      \* pipe[p]: a pipeline's program counter, row objects, params copy
    client,    \* client[c]: a request in flight and what it has read
    poll,      \* the GET poller: TRUE between its stale check and its commit
    rowLock,   \* the client holding the assessment's row lock
    overlap    \* history: a pipeline was started while another was alive

vars == <<asmt, rules, pipe, client, poll, rowLock, overlap>>

Params == [archived : BOOLEAN, stamped : BOOLEAN, columns : Layouts \cup {Nobody}]
NoParams == [archived |-> FALSE, stamped |-> FALSE, columns |-> Nobody]

Assessment ==
    [status : {"pending", "running", "completed", "failed"},
     params : Params,
     results : [RowIds -> Rule],
     aged : BOOLEAN, deleted : BOOLEAN]

\* Before each stage, in order; then the stages after the completing commit.
Stages == {"extract", "keyword", "tag", "finish"}
Working == Stages \cup {"log", "failing"}
Alive == Working \cup {"queued"}

Pipeline == [pc : Alive \cup {"idle", "done"}, mem : [RowIds -> Rule], params : Params]
IdlePipe == [pc |-> "idle", mem |-> NoRules, params |-> NoParams]
EndedPipe == [IdlePipe EXCEPT !.pc = "done"]

Request == [op : {"idle", "run", "remap", "patch", "edit", "attest"},
            arg : RowIds \cup Techniques \cup Layouts \cup {Nobody},
            params : Params, view : [RowIds -> Rule]]
IdleRequest == [op |-> "idle", arg |-> Nobody, params |-> NoParams, view |-> NoRules]

\* An empty dump carries extraction_text instead of rows (pdf/docx).
IsDocument == asmt.params.columns = Nobody

ParsedRows(l) ==
    [r \in RowIds |->
        IF r \in FileRows /\ Parsed[l][r] # "absent"
        THEN [status |-> Parsed[l][r], by |-> l] ELSE Absent]

Init ==
    /\ \E l \in Layouts \cup {Nobody} :
        /\ asmt = [status |-> "pending", params |-> [NoParams EXCEPT !.columns = l],
                   results |-> NoRules, aged |-> FALSE, deleted |-> FALSE]
        /\ rules = IF l = Nobody THEN NoRules ELSE ParsedRows(l)
    /\ pipe = [p \in Pipelines |-> IdlePipe]
    /\ client = [c \in Clients |-> IdleRequest]
    /\ poll = FALSE
    /\ rowLock = Nobody
    /\ overlap = FALSE

Unlocked == rowLock = Nobody
MayWrite(c) == rowLock \in {c, Nobody}

----------------------------------------------------------------------------
(* POST /assessments/{id}/run *)

RunAllowed == asmt.status \notin {"running", "completed"}

RunRead(c) ==
    /\ client[c].op = "idle" /\ ~asmt.deleted
    /\ RunAllowed
    /\ client' = [client EXCEPT ![c].op = "run"]
    /\ UNCHANGED <<asmt, rules, pipe, poll, rowLock, overlap>>

\* The commit starts the pipeline task; nothing re-checks the status.
RunCommit(c, p) ==
    /\ client[c].op = "run" /\ Unlocked
    /\ pipe[p].pc = "idle"
    /\ asmt' = [asmt EXCEPT !.status = "running", !.aged = FALSE]
    /\ pipe' = [pipe EXCEPT ![p].pc = "queued"]
    /\ overlap' = (overlap \/ \E q \in Pipelines : pipe[q].pc \in Alive)
    /\ client' = [client EXCEPT ![c] = IdleRequest]
    /\ UNCHANGED <<rules, poll, rowLock>>

----------------------------------------------------------------------------
(* POST /assessments/{id}/remap *)

RemapRead(c, l) ==
    /\ client[c].op = "idle" /\ ~asmt.deleted
    /\ asmt.status = "pending" /\ ~IsDocument
    /\ client' = [client EXCEPT ![c] =
                    [IdleRequest EXCEPT !.op = "remap", !.arg = l, !.params = asmt.params]]
    /\ UNCHANGED <<asmt, rules, pipe, poll, rowLock, overlap>>

\* UPDATE ... WHERE status = 'pending': re-asserts the status in the
\* transaction that replaces the rows.
UnguardedRemap == TRUE
RemapGuard == asmt.status = "pending"

RemapCommit(c) ==
    /\ client[c].op = "remap" /\ Unlocked
    /\ client' = [client EXCEPT ![c] = IdleRequest]
    /\ IF RemapGuard
       THEN /\ rules' = ParsedRows(client[c].arg)
            /\ asmt' = [asmt EXCEPT !.aged = FALSE, !.params =
                            [client[c].params EXCEPT !.columns = client[c].arg]]
       ELSE UNCHANGED <<asmt, rules>>
    /\ UNCHANGED <<pipe, poll, rowLock, overlap>>

----------------------------------------------------------------------------
(* PATCH /assessments/{id}: rename, or toggle params.archived *)

Rename ==
    /\ ~asmt.deleted /\ Unlocked
    /\ asmt' = [asmt EXCEPT !.aged = FALSE]
    /\ UNCHANGED <<rules, pipe, client, poll, rowLock, overlap>>

PatchRead(c) ==
    /\ c \in Patchers
    /\ client[c].op = "idle" /\ ~asmt.deleted
    /\ client' = [client EXCEPT ![c].op = "patch", ![c].params = asmt.params]
    /\ UNCHANGED <<asmt, rules, pipe, poll, rowLock, overlap>>

\* The whole params document is written back.
PatchCommit(c) ==
    /\ client[c].op = "patch" /\ Unlocked
    /\ asmt' = [asmt EXCEPT !.aged = FALSE, !.params =
                    [client[c].params EXCEPT !.archived = ~client[c].params.archived]]
    /\ client' = [client EXCEPT ![c] = IdleRequest]
    /\ UNCHANGED <<rules, pipe, poll, rowLock, overlap>>

----------------------------------------------------------------------------
(* PATCH .../use-cases/{id}/mappings and POST .../tool-attest *)

UnlockedRead(c) == UNCHANGED rowLock
\* SELECT ... FOR UPDATE, then the status check; every row is read under it.
LocksRow(c) == rowLock' = c

EditRead(c, r) ==
    /\ client[c].op = "idle" /\ Unlocked
    /\ ~asmt.deleted /\ asmt.status = "completed"
    /\ rules[r] # Absent
    /\ client' = [client EXCEPT ![c].op = "edit", ![c].arg = r, ![c].view = rules]
    /\ LocksRow(c)
    /\ UNCHANGED <<asmt, rules, pipe, poll, overlap>>

\* recompute_results: the pure engines over the rows as read.
Recomputed(rows) == [asmt EXCEPT !.results = rows, !.aged = FALSE]

EditCommit(c) ==
    LET r == client[c].arg
        edited == [status |-> "manual", by |-> c]
    IN  /\ client[c].op = "edit" /\ MayWrite(c)
        /\ rules' = [rules EXCEPT ![r] = edited]
        /\ asmt' = Recomputed([client[c].view EXCEPT ![r] = edited])
        /\ client' = [client EXCEPT ![c] = IdleRequest]
        /\ rowLock' = Nobody
        /\ UNCHANGED <<pipe, poll, overlap>>

AttestedIn(rows, t) == \E c \in Clients : rows[<<c, t>>].status = "tool_attested"

AttestByOverlay(t) == ~AttestedIn(asmt.results, t)
\* The overlay credits a technique its stored results leave open; the row
\* check skips what is attested already.
AttestAllowed(t) == ~AttestedIn(asmt.results, t) /\ ~AttestedIn(rules, t)

AttestRead(c, t) ==
    /\ client[c].op = "idle" /\ Unlocked
    /\ ~asmt.deleted /\ asmt.status = "completed"
    /\ AttestAllowed(t)
    /\ rules[<<c, t>>] = Absent          \* the new row's key; bounds c's attestations
    /\ client' = [client EXCEPT ![c].op = "attest", ![c].arg = t, ![c].view = rules]
    /\ LocksRow(c)
    /\ UNCHANGED <<asmt, rules, pipe, poll, overlap>>

AttestCommit(c) ==
    LET t == client[c].arg
        attested == [status |-> "tool_attested", by |-> t]
    IN  /\ client[c].op = "attest" /\ MayWrite(c)
        /\ rules' = [rules EXCEPT ![<<c, t>>] = attested]
        /\ asmt' = Recomputed([client[c].view EXCEPT ![<<c, t>>] = attested])
        /\ client' = [client EXCEPT ![c] = IdleRequest]
        /\ rowLock' = Nobody
        /\ UNCHANGED <<pipe, poll, overlap>>

----------------------------------------------------------------------------
(* DELETE /assessments/{id}, and the stale-run guard of GET *)

Delete ==
    /\ ~asmt.deleted /\ Unlocked
    /\ asmt' = [asmt EXCEPT !.deleted = TRUE, !.aged = FALSE]
    /\ UNCHANGED <<rules, pipe, client, poll, rowLock, overlap>>

\* Thirty minutes without a write to the row.
Age ==
    /\ asmt.status = "running" /\ ~asmt.aged
    /\ asmt' = [asmt EXCEPT !.aged = TRUE]
    /\ UNCHANGED <<rules, pipe, client, poll, rowLock, overlap>>

MarkedFailed == [asmt EXCEPT !.status = "failed", !.aged = FALSE]

NeverStale == FALSE
IsStale == asmt.status = "running" /\ asmt.aged

PollRead ==
    /\ ~poll /\ ~asmt.deleted
    /\ IsStale
    /\ poll' = TRUE
    /\ UNCHANGED <<asmt, rules, pipe, client, rowLock, overlap>>

PollFlip ==
    /\ poll /\ Unlocked
    /\ asmt' = MarkedFailed
    /\ poll' = FALSE
    /\ UNCHANGED <<rules, pipe, client, rowLock, overlap>>

----------------------------------------------------------------------------
(* run_assessment_pipeline *)

AtStage(p, s) == pipe[p].pc = s

LeakedHolders == {p \in Pipelines : pipe[p].pc \in Working \cup {"done"}}
\* Pipelines inside the semaphore.
Holders == {p \in Pipelines : pipe[p].pc \in Working}

\* A pipeline that returns or dies drops its objects and its slot.
PipeLoad(p) ==
    /\ AtStage(p, "queued")
    /\ Cardinality(Holders) < PipelineCap
    /\ pipe' = [pipe EXCEPT ![p] =
            IF asmt.deleted \/ asmt.status # "running"
            THEN EndedPipe
            ELSE [pc |-> IF IsDocument /\ rules = NoRules THEN "extract" ELSE "keyword",
                  mem |-> rules, params |-> asmt.params]]
    /\ UNCHANGED <<asmt, rules, client, poll, rowLock, overlap>>

\* Stage 0: insert what the AI extracted, then re-read every row.
PipeExtract(p, found) ==
    LET inserted == [r \in RowIds |->
            IF r \in {p} \X DocRows /\ found[r[2]] # "absent"
            THEN [status |-> found[r[2]], by |-> p] ELSE rules[r]]
        none == \A d \in DocRows : found[d] = "absent"
    IN  /\ AtStage(p, "extract")
        /\ IF none
           THEN /\ pipe' = [pipe EXCEPT ![p].pc = "failing"]
                /\ UNCHANGED rules
           ELSE /\ rules' = inserted
                /\ pipe' = [pipe EXCEPT ![p].pc = "keyword", ![p].mem = inserted]
        /\ UNCHANGED <<asmt, client, poll, rowLock, overlap>>

TagUnconfirmed(p) == {r \in RowIds : pipe[p].mem[r].status \in {"unmapped", "ai_tagged"}}
TagEveryRow(p) == {r \in RowIds : pipe[p].mem[r].status \notin {"absent", "keyword_tagged"}}
ToTag(p) == {r \in RowIds : pipe[p].mem[r].status = "unmapped"}

\* The session writes back exactly the rows this stage mapped.
WriteRows(p, mapped, value, next) ==
    /\ rules' = [r \in RowIds |-> IF r \in mapped THEN value ELSE rules[r]]
    /\ pipe' = [pipe EXCEPT ![p].pc = next, ![p].mem =
                    [r \in RowIds |-> IF r \in mapped THEN value ELSE pipe[p].mem[r]]]

\* Stage 1.5: deterministic, so its mapping names no writer.
PipeKeyword(p) ==
    /\ AtStage(p, "keyword")
    /\ WriteRows(p, ToTag(p) \cap KeywordHits,
                 [status |-> "keyword_tagged", by |-> Nobody], "tag")
    /\ UNCHANGED <<asmt, client, poll, rowLock, overlap>>

AlreadyMapped(p) ==
    \E r \in RowIds : pipe[p].mem[r].status \in {"customer_tagged", "keyword_tagged"}

\* Stage 2: any subset of the residue comes back mapped.
PipeTag(p, mapped) ==
    /\ AtStage(p, "tag")
    /\ WriteRows(p, mapped, [status |-> "ai_tagged", by |-> p], "finish")
    /\ UNCHANGED <<asmt, client, poll, rowLock, overlap>>

\* Stage 2 with every batch failed and no tag to fall back on.
PipeTagUnavailable(p) ==
    /\ AtStage(p, "tag")
    /\ ToTag(p) # {} /\ ~AlreadyMapped(p)
    /\ pipe' = [pipe EXCEPT ![p].pc = "failing"]
    /\ UNCHANGED <<asmt, rules, client, poll, rowLock, overlap>>

\* The final write: results of the rows in memory, and the params document
\* read at the start; the ORM skips params when a re-run leaves it equal.
PipeFinish(p) ==
    /\ AtStage(p, "finish") /\ Unlocked
    /\ \E written \in {[pipe[p].params EXCEPT !.stamped = TRUE]} \cup
            (IF pipe[p].params.stamped THEN {asmt.params} ELSE {}) :
        asmt' = [asmt EXCEPT !.status = "completed",
                             !.results = pipe[p].mem, !.params = written, !.aged = FALSE]
    /\ pipe' = [pipe EXCEPT ![p] = [IdlePipe EXCEPT !.pc = "log"]]
    /\ UNCHANGED <<rules, client, poll, rowLock, overlap>>

\* The audit entry and the cache purge after the completing commit.
PipeLog(p) ==
    /\ AtStage(p, "log")
    /\ pipe' = [pipe EXCEPT ![p] = EndedPipe]
    /\ UNCHANGED <<asmt, rules, client, poll, rowLock, overlap>>

\* A database error in any stage reaches the except clause.
PipeRaise(p) ==
    /\ pipe[p].pc \in Stages \cup {"log"}
    /\ pipe' = [pipe EXCEPT ![p] = [IdlePipe EXCEPT !.pc = "failing"]]
    /\ UNCHANGED <<asmt, rules, client, poll, rowLock, overlap>>

\* The except clause re-reads the row by key only, and may itself fail.
PipeFail(p) ==
    /\ AtStage(p, "failing") /\ Unlocked
    /\ \/ asmt' = MarkedFailed
       \/ UNCHANGED asmt
    /\ pipe' = [pipe EXCEPT ![p] = EndedPipe]
    /\ UNCHANGED <<rules, client, poll, rowLock, overlap>>

\* A container restart ends every task and request; transactions roll back.
Restart ==
    /\ pipe' = [p \in Pipelines |->
                    IF pipe[p].pc \in Alive THEN EndedPipe ELSE pipe[p]]
    /\ client' = [c \in Clients |-> IdleRequest]
    /\ poll' = FALSE
    /\ rowLock' = Nobody
    /\ UNCHANGED <<asmt, rules, overlap>>

----------------------------------------------------------------------------
ClientStep(c) ==
    \/ RunRead(c)
    \/ \E p \in Pipelines : RunCommit(c, p)
    \/ \E l \in Layouts : RemapRead(c, l)
    \/ RemapCommit(c)
    \/ PatchRead(c)
    \/ PatchCommit(c)
    \/ \E r \in RowIds : EditRead(c, r)
    \/ EditCommit(c)
    \/ \E t \in Techniques : AttestRead(c, t)
    \/ AttestCommit(c)

PipeStep(p) ==
    \/ PipeLoad(p)
    \/ \E found \in [DocRows -> {"absent", "unmapped", "ai_tagged"}] : PipeExtract(p, found)
    \/ PipeKeyword(p)
    \/ \E mapped \in SUBSET ToTag(p) : PipeTag(p, mapped)
    \/ PipeTagUnavailable(p)
    \/ PipeFinish(p)
    \/ PipeLog(p)
    \/ PipeRaise(p)
    \/ PipeFail(p)

Next ==
    \/ \E c \in Clients : ClientStep(c)
    \/ \E p \in Pipelines : PipeStep(p)
    \/ Rename
    \/ Delete
    \/ Age
    \/ PollRead
    \/ PollFlip
    \/ Restart

Spec == Init /\ [][Next]_vars

\* asyncio runs every task it holds and every LLM call has a timeout; waiters of
\* the semaphore and of a row lock are served in turn (hence SF); a request
\* that has read goes on to commit; the frontend polls a running assessment
\* every 5 s, so a stale run is seen however often the row is touched.
Fairness ==
    /\ \A p \in Pipelines : SF_vars(PipeStep(p))
    /\ \A c \in Clients : WF_vars(RemapCommit(c) \/ PatchCommit(c) \/
                                  EditCommit(c) \/ AttestCommit(c))
    /\ WF_vars(Age) /\ SF_vars(PollRead) /\ SF_vars(PollFlip)
FairSpec == Spec /\ Fairness

----------------------------------------------------------------------------
TypeOK ==
    /\ asmt \in Assessment
    /\ rules \in [RowIds -> Rule]
    /\ pipe \in [Pipelines -> Pipeline]
    /\ client \in [Clients -> Request]
    /\ poll \in BOOLEAN
    /\ rowLock \in Clients \cup {Nobody}
    /\ overlap \in BOOLEAN

\* "A run freezes the rows": once a run has started no column remap, however
\* long its download and parse took, replaces a row of the dump.
RunFreezesRows ==
    [][asmt.status # "pending" =>
        \A r \in FileRows :
            /\ rules[r] = Absent <=> rules'[r] = Absent
            /\ rules'[r].by \in Layouts => rules'[r] = rules[r]]_vars

\* "Customer truth wins": a rule the customer tagged is changed only by a
\* reviewer's edit or by a remap before the first run, whatever pipelines,
\* late ones included, write from the row objects they loaded.
CustomerTruthWins ==
    [][\A r \in RowIds :
        rules[r].status = "customer_tagged" /\ rules'[r] # rules[r]
            => asmt.status = "pending" \/ rules'[r].status = "manual"]_vars

\* As long as no two pipelines of the assessment were ever alive together, a
\* completed assessment shows results computed from exactly its current rows:
\* edits, attestations, a run's last write and its late failure never mix.
ResultsMatchRules ==
    asmt.status = "completed" /\ ~overlap => asmt.results = rules

OpenRule == {v \in Rule : v.status \in {"absent", "unmapped"}}

Report == INSTANCE CoverageReport WITH
    Rows <- RowIds, Rules <- Rule, Open <- OpenRule,
    phase <- asmt.status, table <- rules, report <- asmt.results, crossed <- overlap

\* The promises of CoverageReport, step by step: of overlapping edits,
\* attestations, remaps, stale-run flips and late writes each takes effect at
\* once and on the table as it is then, so none is lost; and a run changes no
\* row that a reviewer or an earlier run mapped.  Only overlapping runs break it.
ReportKeepsThePromise == Report!ReportSpec

\* A technique is attested by at most one row, even when a late pipeline has
\* put back results in which the attestation does not show.
AttestedOnce ==
    \A t \in Techniques, c, d \in Clients :
        /\ rules[<<c, t>>].status = "tool_attested"
        /\ rules[<<d, t>>].status = "tool_attested"
        => c = d

\* A run that is lost with its process, or whose failure could not be
\* recorded, does not stay running: the stale-run guard ends it.
RunSettles == asmt.status = "running" ~> asmt.status # "running" \/ asmt.deleted

\* Every way out of a pipeline frees its semaphore slot, so a queued run starts
\* or returns.
QueuedRunsDrain ==
    \A p \in Pipelines : pipe[p].pc = "queued" ~> pipe[p].pc # "queued"

\* The docstring of the mapping edit: edits are taken on completed assessments
\* only, because a running pipeline would overwrite them.
ManualEditSticks ==
    [][\A r \in RowIds :
        rules[r].status = "manual" => rules'[r].status = "manual"]_vars
============================================================================
