# Formal models of the document governance platform

TLA+ models, TLC runs and TLAPS proofs for the parts of the platform whose
correctness depends on the order in which requests, background pipelines,
worker processes and crashes act on shared rows. Paths below are relative to
`src/apps/api/app/`.

To check: `tlc -workers 2 -config <cfg> <MC module>` and `tlapm <X>_proofs.tla`
in this directory; `PROJECT.json` lists every run, mutant, theorem, hazard and
finding, and maps every definition to the lines it models.

## 1. The system

A FastAPI process (asyncio, PostgreSQL at READ COMMITTED through SQLAlchemy
sessions with `autoflush=False` and `expire_on_commit=False`), a Celery worker
with two prefork processes and an embedded beat (`docker-compose.vps.yml:95`),
Redis as broker and response cache, and a Next.js frontend. Everything the parts
share is rows; nothing holds a lock across an await except a few row locks.

| Component | State it keeps | Operations | What is hard | What makes it correct | Model |
|---|---|---|---|---|---|
| MITRE assessment lifecycle (`mitre/router.py`, `mitre/service.py`) | `mitre_assessments` row (status, params, results), `mitre_use_cases` rows, tasks and semaphore in the process | create, run, remap, rename, archive, edit a mapping, attest a tool, delete, stale guard, pipeline | fire-and-forget tasks that die with the process or outlive the stale guard; check-then-write handlers; whole-document writes of `params` | results agree with rows, a run freezes the rows, the customer's tags win, runs settle | `MitreAssessment` |
| Scheduled re-assessment (`mitre/tasks.py`) | `last_scheduled_at`, assessment rows, Celery queue | beat sweep, pull task, health streak, failure notice | crash between commit and enqueue, dead runs, overlapping sweeps, uncoordinated writers of the streak | an instant is pulled at most once and in the end taken, one notice per streak | `MitreSchedule` |
| Review lifecycle (`routers/reviews.py`, `insights/fix_verification.py`) | `reviews`, `findings` | trigger, verify the previous version, patch a finding | a request of minutes, errors in mid-transaction, manual claims against verification | a verdict is that of a completed review | `ReviewLifecycle` |
| Bulk review (`routers/documents_bulk.py`) | `reviews`, `findings` | one review per document | one session for many documents | it leaves verdicts alone | `ReviewLifecycle` |
| Run entitlements (`entitlements.py`, `routers/admin.py`) | `organizations.run_allowance`, tier, row lock | gate, grant, tier change | decrement committed later by another handler | the allowance is conserved, the gate answers | `ReviewLifecycle` |
| Orchestrator and agents (`ai/orchestrator.py`, `ai/agent.py`) | coroutines, calls in the thread pool | parallel agents, window, one retry, model chain, merge | late answers in abandoned threads, a pool shared with them, partial failure | only timely answers count, threads serve those who wait, the review ends | `ReviewAgents`, `FindingMerge` |
| Circuit breaker (`core/circuit_breaker.py`) | state, failure count, time of opening | insight calls | calls that overlap a change of state | an open breaker admits a call again | `CircuitBreaker` |
| Documents and versions (`routers/documents*.py`, `storage.py`, `compliance/data_retention.py`) | `documents`, link suggestions, stored files | upload, new version, suggest, accept, dismiss, link, delete, purge | version = maximum + 1 without a lock, two stores without a transaction | versions of a group are distinct, rows name what is there | `DocumentStore` |
| Projects (`routers/projects.py`) | `projects`, the documents under them | create, match-or-create | a match against rows that are not yet visible | one project per name | `Projects` |
| Accounts and sessions (`routers/auth.py`, `core/login_lockout.py`) | users, one-time codes, lockout tables | request and verify a code, Google, signup, password login | concurrent first logins, non-atomic attempts, evictions | one account per address, a code works once, the lockout holds | `Logins`, `LoginLockout` |
| Administration (`admin/`, `compliance/gdpr.py`) | users of an organisation | role, suspend, reactivate, anonymise, bulk import | last administrator counted before the commit | somebody administers | `Accounts` (settings and usage: not modelled) |
| Response cache (`core/cache.py`) | Redis entry, browser copies | read-through, invalidate | value computed before a commit and stored after | staleness has a reason and dies out | `ResponseCache` |
| Collaboration (`collab/`) | teams, invitations, comments, reactions, approvals | invite, accept, change roles; post, reply, delete, react | repeated and simultaneous decisions | an invitation admits once, toggles add up, a thread hides only what is below a deleted comment | `Teams`, `Discussion` (approvals, templates, digests: not modelled) |
| MITRE settings (`PATCH` of a connection and of `/settings`) | schedule trio, confidence thresholds | two PATCHes | validated on what was read, committed later or in parts | what is stored is what was validated | `MitreConfig` |
| MITRE engines (`mitre/coverage.py`, `applicability.py`, `ranking.py`) | none | coverage states, feasibility of a gap | cascades of first matches | more rules or telemetry never look worse | `Coverage`, `Roadmap` |
| SIEM connectors (`mitre/connectors/`) | local variables of a pull | paging, limits, retries | the list changes under the pages | a rule is missed or doubled only by such a change | `RulePull` |
| Code review import (`codereview/ingest.py`) | none | skip, sort, cut, renumber findings and chain steps | two numberings, a base that is guessed | a chain points at the finding that was meant | `ScanReport` |
| Rules, scoring, parsing, MITRE ingest, reports, analytics, search, PDF task, frontend | none of their own beyond single inserts | parsing, HTTP, layout, queries | | | see Not modelled |

The parts meet in the rows: the worker and the API write the same assessments;
`run_assessment` and `trigger_review` pass the same allowance gate; the pipeline
of a scheduled run is the pipeline of `MitreAssessment`.

## 2. Modules

| Kind | Modules |
|---|---|
| Concurrent cores | `MitreAssessment` (implements `CoverageReport`), `MitreSchedule` (implements `ScheduleSlots`), `ReviewLifecycle`, `ReviewAgents` |
| Record stores | `DocumentStore`, `Accounts`, `Logins`, `Teams`, `Discussion`, `Projects`, `MitreConfig`; composed by `MCRecords` |
| Engines, caches, connectors | `ResponseCache`, `CircuitBreaker`, `LoginLockout`, `FindingMerge`, `Coverage`, `Roadmap`, `ScanReport`, `RulePull`; composed by `MCEngines` |
| For TLC | `MC<X>` gives constants, symmetry and, for the two compositions, the focus |
| Theorems | `MitreAssessment_proofs`, `MitreSchedule_proofs`, `ReviewLifecycle_proofs`, `ReviewAgents_proofs`, `DocumentStore_proofs`, `Logins_proofs`; `Records_proofs` for the other record stores, `Engines_proofs` for the engines |

The record stores share no table with each other (but for `users`, which `Logins`
sees from one address and `Accounts` from one organisation), and the engines no
state. The two compositions therefore have a variable `focus`, chosen initially and kept: a
behaviour exercises one component while the others rest in an initial state, so
their states add up instead of multiplying. Nothing is lost by it: no property
relates two of them.

No module declares a RECURSIVE operator: where the code recurses or follows links the
model takes a step for each link (`FindingMerge`) or a smallest closed set (`Discussion`).

### MitreAssessment

One assessment, its rows, the requests in flight and its pipelines.

* A handler that reads, awaits and writes is a pair `XxxRead` / `XxxCommit`;
  `client[c]` keeps what it read. `/run` re-checks nothing at its commit
  (`RunCommit`); `/remap` does (`RemapGuard`, the conditional UPDATE); edit and
  attest take `SELECT ... FOR UPDATE` (`LocksRow`) and read every row under it;
  every other write of the row waits for the lock (`Unlocked`).
* `pipe[p]` is one task: queued at the semaphore (`Holders`, `PipelineCap`), then
  load, extraction, keyword pass, tagging, the completing commit, the audit
  entry, and the except clause. `mem` is the list of row objects it loaded,
  `params` its copy; both go stale on purpose. The ORM writes only what the
  session changed, so a tag is written to exactly the rows the stage mapped.
* The coverage engines are pure functions of the rows: a stored result *is* the
  rows it was computed from. A mapping's content is its writer (`by`). `invalid`
  rows behave as `unmapped` ones. Technique names, reports and narrative are left
  out; PATCH /settings is in `MitreConfig`.
* Time is one Boolean, `asmt.aged`: no write to the row for thirty minutes.
* `overlap` is a history variable: a pipeline was started while another of the
  same assessment was alive. The code allows it (`/run` is unguarded; the stale
  guard does not cancel the task).
* `CoverageReport` is what all of this amounts to for readers and reviewers: a status,
  a table and the report shown. Each request and each stage is one step there,
  or none, at the moment it commits.

### MitreSchedule

One connection, its assessment rows, the queue and the worker processes.

* Instants are numbered: `conn.due` is what `most_recent_due` returns now,
  `conn.last` what `last_scheduled_at` covers. `Tick` moves to the next instant.
* A sweep is `SweepStart`, `SweepDedup`, `SweepNotify`, `SweepAdvance`,
  `SweepEnqueue`, one per commit or call; a pull is `PullStart` ... `PipelineEnds`.
  Celery acknowledges early (`core/celery_app.py` sets no acks_late), so
  `TaskDies` loses the task at any point.
* `Failing` is the streak that `connection_health` counts among the newest
  `HealthWindow` rows, `Streak` its length; `Notify` sends on equality with
  `NotifyAt`. The sweep keeps the row that it flipped (`worker[w].row`).
* Reviewers pull by hand, run, delete and read rows, pause, resume and delete
  the connection; the API process restarts.
* Histories: `noticed` (notices since the streak last got shorter: by a completed
  run, or by a reviewer who deletes a failed row or runs it again), `enqueued` (both
  counted up to 2) and `overlap` (two sweeps executed at once).
* `ScheduleSlots` is what the comments of `_sweep_async` promise: instants come
  due, the newest is taken, and one is pulled at most once, between its taking
  and the next. `SweepsKeepThePromise` is its specification under the mapping
  due = `conn.due`, taken = `conn.last`, pulls = `enqueued`, crossed = `overlap`.

### ReviewLifecycle

The reviews of one organisation on a new version of one document, with the
findings of the previous version.

* `GateRead` / `GateConsume` are the SELECT and the guarded UPDATE of the gate;
  the decrement is uncommitted and locks the organisation's row until `Create`
  commits it or the session ends (`RolledBack`).
* `VerifyRead` selects the old findings after the agents answered (any set of
  issues); `VerifyCommit` writes back what `apply_verification` changed with
  respect to the *selected* status.
* `Fail` is the except clause (a commit without rollback); `SessionBreaks` the
  same clause after a database error, when its commit raises too; `Crash` the
  loss of the process.
* `BulkEnds`: a bulk review with an agent's answer at hand always fails (see
  Findings), one without stores rule violations.

### ReviewAgents

The inside of one triggered review: what `ReviewLifecycle` takes as an arbitrary
set of issues.

* `Send` moves a call from the executor's queue to a thread (`PoolSize`);
  `Answer` is the thread's end, with an answer the merge can use, one of the wrong
  shape (`malformed`), one that does not parse (`raw`) or an exception, which
  moves on along the chain of models. `Timeout` is `asyncio.wait_for`: it drops a
  call no thread has begun and abandons one that runs, which keeps its thread.
  `Cancelled` is the first of the two; the thread of the second stays busy until it answers.
* `Finish` is `gather`, `_merge_findings`, the commit and the verification.
* Histories: `given_up` and `heard`, the answers that came inside a window.

### The record stores

In each of them a handler that reads, decides, awaits and commits is two actions,
and the other requests act in between; a request may die at any await. `request`,
`change`, `signin`, `teamreq`, `post`, `naming` and `patch` hold what the requests
in flight have read.

* `DocumentStore`: rows (`doc`), bytes (`file`) and suggestions. Numbering reads the
  maximum of the group; an upload stores the file before the row commits, a
  deletion removes it before the row goes (`torn` if it dies there). `contested`
  marks documents numbered while their group was being numbered.
* `Accounts`: users of one organisation. `Spare` is the count behind "last active
  administrator"; `overlapped` says two departures were decided at once, `erased`
  that an administrator was anonymised, which no guard refuses.
* `Logins`: codes (issue, judge, consume), the search for an account, its creation,
  the binding of a Google identity, each its own transaction; signup, bulk import,
  suspension, reactivation and anonymisation beside them. `history` collects what
  excuses a second account, a lost count or a failed binding. For the accounts it is
  a relation, `apart`: one became active without a look at the other, which was
  active. Signup, import and reactivation look at nobody; a sign-in at whom it could
  see, and `missed` is whom it could not.
* `Teams`: membership and invitations. `uses` counts memberships made by one
  invitation, `coincided` the invitations two requests decided at once.
* `Discussion`: `Threaded` is `build_comment_tree` over the rows that are not deleted:
  what is below the top (`Below`), however deep. `toggles` is the parity of committed toggles,
  `crossed` the pairs two requests toggled at once, `bereft` the replies that were
  there, or being written, when their parent was deleted.
* `Projects`: `Alike` stands for normalisation and similarity. It need not be
  transitive, nor symmetric: `SequenceMatcher.ratio` depends on which name is the
  typed one. `older` holds who was there when a name was inserted, `blind` who came
  after its request had looked.
* `MitreConfig`: a PATCH validates the values it read with its body laid over them
  (`Over`, `Settled`, `Accepted`), then writes only what changed. The schedule is one
  UPDATE; each threshold is an upsert with a commit of its own. `frayed` holds the
  rows last written by an overtaken PATCH or by half of one.

### Engines, cache and connectors

* `ResponseCache`: look, compute and store are three awaits; a writer commits, then
  invalidates; some writers never invalidate (`CommitQuietly`). An entry carries
  the history `why`: raced, quiet or lost. Browsers hold a copy for another time
  to live. `CircuitBreaker` and `LoginLockout` have the awaits of their callers
  too: calls admitted in one state end in another.
* `FindingMerge` runs `_dedupe_findings` pair by pair, and `find` link by link (`walk`):
  `Halve` is a round of its loop, which moves the item below its grandparent;
  `LeftFound`, `RightFound` are `union`, `GroupFound` the loop that forms the groups.
  `Coverage` and `Roadmap` hold
  the input of pure functions as state, edited row by row, so that action
  properties can compare two inputs; `ScanReport` is one import, of steps as
  the scanner wrote them: a step that is no number becomes a zero (`Step`), and a
  zero decides from where all of them count (`Offset`). A confidence is its band, a
  score comparison its outcome.
* `RulePull`: both connectors' loops over pages. The SIEM lists by name, sends pages
  of any size up to the one asked for, and is edited meanwhile. `fetch_json`'s
  attempts are `Retry`, every refusal is `PullFails`; a pull says it stopped early
  (`cut`) when it hits `MaxPages` or `MaxRules`.

## 3. Runs

| Run | Question | Bounds | Why enough |
|---|---|---|---|
| `assessment_safety` | Do results, rows and attestations stay consistent? Does the assessment implement `CoverageReport`? | 2 clients, 2 pipelines, 2 rows, 2 layouts, 1 technique, cap 2; no PATCH of `archived` | every hazard needs two actors; two layouts tell a remap, two rows tell tagged from untagged; archiving only touches `params`, which no property of this run reads |
| `assessment_live` | Does every run settle, every queued pipeline drain? | document dump, 1 client (who also archives), 2 pipelines, cap 1 | one slot for two pipelines makes them wait for each other |
| `assessment_edits` (violation) | Does a manual edit survive pipelines? | 1 client, 2 pipelines | see Findings |
| `schedule_safety` | Is an instant pulled twice? Does the schedule implement `ScheduleSlots`? | 2 processes, 2 instants, 2 rows, queue of 2 | two sweeps, or a sweep and a pull, side by side, with a crash at every step |
| `schedule_live` | One notice per streak? Is a due instant always taken? | 1 process, 4 instants, 4 rows, no reviewers' rows | the streak passes the threshold of 2 twice over, and the schedule is switched off and on; reviewers' rows would let users re-run for ever and starve the sweep, and `NoticesGoOutOnce` proves the notices with them |
| `schedule_streak` (violation) | Is a long streak ever silent? | as above | see Findings |
| `review_verdicts` | Whose is a verdict? | 2 triggers, 1 bulk document, 2 issues, 1 patcher, allowance 0 | two re-reviews and a claim on the same finding, in every order |
| `review_allowance` | Is the allowance conserved, does the gate answer? | 3 triggers, allowance up to 2 | one more request than runs |
| `review_claims` (violation) | Does the verification always win? | 2 triggers, 1 patcher | see Findings |
| `review_agents` | Which answers count, which calls get a thread, and does the review end? | 2 agents and the conflict scan, 2 models, 2 threads, 1 issue | three callers with retries compete for two threads, so a call can be dropped while it queues |
| `records` | What survives two requests at once on each record store? | 2 requests everywhere; 2 documents up to version 3; 2 users; 2 codes, 1 guess, 2 rows; 2 invitations; 3 comments; 3 names; 3 levels, 2 weekdays | every race is one of two requests; three names make `Alike` intransitive and one-sided, three comments a chain of replies, three levels a pair that two PATCHes cross |
| `engines` | Do the engines keep their word on every small input? | 2 browsers, 2 savers, 3 commits; 2 calls; 3 addresses for 2 places; 4 findings of 2 agents; 5 techniques, 2 rules; 3 sources, 3 gaps; 4 entries, 2 shown; 4 rules in pages of 2, 2 pages, 2 edits | an eviction, a transitive group of three, a revoked, a deprecated and a rolled-up technique, a skip, a cut, a short page and an edit between two pages all occur |

What the properties say:

* `ResultsMatchRules` – completed and never overlapped implies that the stored
  results are those of the current rows; it fails without the row lock.
* `AttestedOnce` – holds even with overlapping pipelines, because the row check
  backs up the overlay check.
* `RunFreezesRows`, `CustomerTruthWins` – action properties: what a late remap or
  pipeline may never do to a row.
* `ReportKeepsThePromise` – the refinement: until two pipelines cross, every request
  and every late write takes effect at once and on the rows as they are then (no
  edit is lost), and a run maps only rows that are open.
* `RunSettles`, `QueuedRunsDrain` – a lost run ends, a semaphore slot is freed.
* `SlotPulledOnce`, `DueSlotTaken` – at most once, and in the end (by its own
  pull or a later one's).
* `OneNoticePerStreak` – an action property: the equality test keeps a growing streak
  quiet, so the only second notice is that of a sweep whose flip left the streak
  as it was.
* `AllowanceConserved`, `GateAnswers` – no overdraft, no charge for a refused
  request, no lock left behind.
* `VerdictMatchesReview` – no verdict from a failed, broken or bulk review, and
  none that disagrees with the findings of its review.

* `SweepsKeepThePromise` – the refinement: every step of the detailed schedule is
  one of `ScheduleSlots` or a stutter.
* `OnlyTimelyAnswers`, `ThreadsServeTheWaiting`, `ReviewEnds` – a completed review holds
  exactly what was reported within a window; who waits has its call in the queue or
  in a thread, no call given up in the queue gets one, and a thread that nobody
  waits for had begun before the window closed; the review ends although nothing is
  assumed of the provider.
* `VersionsCollideOnlyByOverlap`, `AdminsRunOutOnlyByOverlap`,
  `ProjectsForkOnlyByOverlap`, `InvitationsAreSpentOnce`, `CodesAreSpentOnce`,
  `AddressForksForAReason`, `GoogleFailsForAReason`, `TogglesAddUp`,
  `ValidatedIsStored` – the code serialises none of these requests. Each property
  names exactly the overlap (a history variable) that can break the rule and says
  that nothing else can: not a crash, not a third operation, not a long sequence.
  Of two active accounts of an address one came `apart` from the other; of two
  projects the later is none the matcher takes for the earlier, unless it was `blind` to it.
* `RowsHaveWhatTheyName` – two stores stay together whatever dies in between, but for
  the one row that a dead deletion leaves.
* `ThreadsHideOnlyUnderDeleted` – the threaded view leaves out of the flat list exactly
  what is below a deleted comment. A reply gets there in one of two ways: its parent
  was deleted after it, or while it was being written. The second is a reply its
  author never sees in the thread; the code allows it, and it is excused by name (`bereft`).
* `StaleForAReason`, `StalenessDiesOut` – an out-of-date answer has one of three
  causes, and disappears when the changes stop.
* `OpenBreakerLetsGo`, `LockoutHolds` – the breaker is never wedged by late results;
  an address gets no more failures than the threshold and the logins in flight.
* `GroupsAreConnected` – every find ends (`FindEnds`), and the groups are the connected
  components, however pairs are ordered and paths halved; `ChainsFollowFindings` – skipping, sorting, cutting and renumbering never point a chain
  elsewhere in a file whose steps tell the scanner's base right (`BaseShows`): one that
  counts from zero names its first finding, one that counts from one has neither a zero
  nor a step that is no number. In the others the importer takes the wrong base, and then
  all steps are off together, by one place.
* `MoreIsNeverWorse`, `BetterTelemetryNeverHurts` – monotonicity of the cascades.
* `PullsMissForAReason` – a pull that reports no limit has every rule that was there
  throughout, once, unless rules were deleted or added beside it.

The types of `MitreAssessment`, of the record stores and of the engines are proved
with their properties; their runs check no type invariants besides: the safety
properties read every variable.

Every property has a mutant of a mapped definition, in `PROJECT.json`, that
violates it. Deadlock is checked except where the system may stop: an
assessment that is deleted, or completed with every bounded pipeline used; a
review whose agents are done; stores and engines at their bounds.

Symmetry is used only in runs that check safety.

### Histories and restrictions

`ResultsMatchRules` excludes assessments whose pipelines overlapped, and
`SlotPulledOnce` schedules whose sweeps overlapped: the code guards against
neither, the models contain both, and the hazards list says so.

`OneNoticePerStreak` is checked for one process and a connection with no more rows
than `connection_health` looks at. `NoticesGoOutOnce` proves it for any number of
both, of every behaviour in which two things do not happen (`Undivided`): two processes
are about to look at the streak at once, and then both may send the notice; or the
window hides failures of a streak that is not past the threshold: in a long list twenty newer
rows, pending previews included, push failures out of it and let the streak reach the
threshold anew. `OneProcessNotifiesOnce` says that within the bounds of the run
neither happens. A streak that a reviewer cuts down, by deleting or re-running
a failed row, counts as another one.

The histories of the record stores (`contested`, `torn`, `overlapped`, `erased`,
`history`, `coincided`, `crossed`, `bereft`, `older`, `blind`, `frayed`, the `why` of a cache entry,
`evicted`, `added`, `removed`, `unsized`) are written by the action that causes the
excuse (`missed` of a request in flight with them), and read only to update a history
or to bound a run. They are excuses as narrow as the code allows;
what happens under them is real and is listed under Findings where a document,
comment or test promises otherwise.

### Fairness

* `MitreAssessment`: asyncio resumes every task and every model call has a
  timeout, so a pipeline's step is taken (strongly fair because waiters of the
  semaphore and of a row lock are served in turn). Requests that have read go on
  to commit. Time passes (`Age`). The guard of GET needs a reader: the frontend
  polls a running assessment every five seconds while its page is visible, so
  `RunSettles` holds for assessments somebody watches; for the others the sweep
  does it only if they belong to a schedule. Nothing is assumed of users, of
  restarts or of failures.
* `MitreSchedule`: beat fires for ever; a process ends the task it has and takes
  the next. Sweep steps are strongly fair: restarts may kill sweeps time and
  again, but not every sweep at the same point. No fairness for `TaskDies`,
  `Tick`, users or the API's pipelines.
* `ReviewLifecycle`: every call of a trigger returns or times out, and PostgreSQL
  serves the waiters of a row lock in turn.
* `ReviewAgents`: `Finish` and every `Timeout` are weakly fair: timers fire and the
  event loop goes on. `Answer` and `Send` are not: the provider may be silent and
  no thread free.
* `MCEngines`: the clocks of the cache and of the breaker tick (weak fairness).
  Nothing else need happen: nobody has to open the page or ask the breaker.

## 4. Proofs

TLAPS checks every proof for all values of the constants, from the assumptions named
in the modules. They are of four kinds: limits and thresholds are naturals, positive
where zero would switch the feature off (`PipelineCap`, `NotifyAt`, `MaxTries`,
`MaxFailures`, page sizes, times to live); sets of which the code takes a length are
finite (agents, logins in flight, rules of a SIEM); names that stand for nothing (`Nobody`,
`Top`, `"none"`, the conflict scan) are nobody's, and the keys of rows of different
origin differ; and the tables the engines are given have the shape of those in the
code (`Parsed`, `ParentOf`, `Wants`, `Alike` reflexive). TLC evaluates
all of them on the values of the runs. Only `NoticesGoOutOnce` has a hypothesis about
behaviours (`Undivided`, said above), and its corollary `OneProcessNotifiesOnce` trades
it for one about constants.

* `MitreAssessment_proofs` – `TypeCorrect`, `ResultsAreCurrent`,
  `AttestationsAreUnique`, `RowsAreFrozen`, `CustomerTagsPrevail`, `ReportPromiseIsKept`,
  `EditsStickUntilRunsCross`. The inductive
  invariant is `AssessmentInv`: types; what a request in flight has read is still
  true because it holds the lock (`RequestInv`); what a working pipeline
  remembers relates to the rows (`PipeInv`, `TagsInFile`); a pipeline that never
  had a companion is the only one alive (`AloneInv`); and the two invariants
  themselves. `ResultsMatchRules` alone is not inductive: a completing pipeline
  writes the rows it remembers, so one must know that nobody changed them since,
  which is so because edits need status completed, remaps need pending, and a
  lone pipeline runs while the row says running or failed. The refinement
  also takes that a document is extracted into an empty table only (`ExtractInv`) and
  a stale run found running (`PollInv`). From it follows that `ManualEditSticks`, which
  `assessment_edits` refutes, holds until two pipelines cross: for this an
  attestation takes a key no row has (`AttestFresh`) and a pending assessment has
  no edited row (`PendingUnedited`).
* `MitreSchedule_proofs` – `TypeCorrect`, `SlotsArePulledOnce`, `PromiseIsKept`. `SweepInv` says
  where a sweep may be relative to `conn.last`: before its advance the instant it
  holds was never enqueued, between advance and enqueue it is the one being
  enqueued, and without overlap there is one such sweep. From it every step
  maps to a step or a stutter of `ScheduleSlots`, which is `PromiseIsKept`.
  `NoticesGoOutOnce`, `OneProcessNotifiesOnce`: while a notice is out the streak, counted
  without a window, is as long as the threshold, and longer when a process looks at
  it again with one more failure in it (`NoticeInv`). The window shows a prefix of it,
  and the whole of it up to the threshold. One rewritten row adds rows to the streak or takes some from it,
  never both (`OneRowRewritten`), so a streak that did not get shorter lost nothing.
* `ReviewLifecycle_proofs` – `TypeCorrect`, `AllowanceIsConserved` (with
  `LockInv`: the holder of the row lock stands between gate and first commit, and
  then a run is left), `VerdictsAreJustified` (with `AuthorDone`: the author of a
  verdict has ended and can no longer change its review).
* `ReviewAgents_proofs` – `ReviewsHoldTimelyAnswers`, `TypeCorrect`, `ThreadsAreNotWasted`.
  A call is in the queue or in a thread, once, and never later than its caller's current one (`CallsAreApart`); one that is
  not given up is the one its caller waits for (`OnlyLiveCallsCount`), so that an
  answer counts just when it came inside the window; what was heard is what the
  callers hold (`HeardIsHeld`), and the review ends when nobody waits any more
  (`EndedAfterAll`). Who waits is never without its call (`CallsAreServed`): the queue is a
  sequence without repetitions, so cancelling takes that one call out of it.
* `Records_proofs`, a section for each store:
  * `AdministratorsRemain`. `SpareInv`: while no administrator left since it was
    decided, a change takes nothing away or somebody besides its user is an active
    administrator.
  * `ForksNeedOverlap`. `FreshInv`: what a request found is still so, the match is in
    the table, or nothing there matches but what it missed. No symmetry of the matcher
    is needed, since `older` says which of two names was there first.
  * `InvitationsWorkOnce`. `LoneDecider`: a request that decides an invitation alone
    still has the row as it read it, pending.
  * `DiscussionHolds`, `ThreadsLoseOnlyOrphans`. `LoneToggler`: who toggles a pair alone still finds what it read.
    `OrphansAreBereft`: a reply to a deleted comment, written or being written, is
    known, because the deletion saw it.
    `InsertsAreFresh`: one request inserts a comment, under one that was there; hence
    `Grounded`: of any set of comments one has its parent elsewhere, so there is no
    cycle for the tree to lose. The view is a smallest closed set, so nothing is
    needed about depth.
  * `ValidatedConfigIsStored`. `ValidatedIsWritten`: until another PATCH commits, what one
    is still to write makes of the row what it validated.
* `DocumentStore_proofs` – `CollisionsNeedOverlap`, `NamesResolve`. `FounderInv`: only the
  founder of a group has number one. `CarryInv`: what a session will not write,
  because it saw no change, is still unchanged. `FreshInv`: the number of a request
  that was not overtaken is nobody's in its group. `FileInv`: the bytes of a row
  about to be inserted are in the store.
* `Logins_proofs` – `CodesWorkOnce`, `AddressesForkForAReason`,
  `IdentitiesClashOnlyByRace`. `CodeInv`: a code no two sign-ins held at once was
  answered as often as it counts, and who holds it has read the row as it is.
  `ForkInv`: two active accounts came apart, and while a sign-in makes one, whoever is
  active is among those it missed. `GoogleInv`: without a race the one request that binds
  an identity finds it unbound.
* `Engines_proofs`, a section for each engine:
  * `StaleAnswersHaveAReason`. `AnswersAreFresh`: an answer no commit overtook is of the
    data as it is.
  * `LockoutsHold`. `GuessesAreCounted`: while it is open, an address that was never
    evicted has used up what is recorded of it; locked, no more than what is left to
    the logins in flight. `RemoveAtShifts` is what deleting from an ordered
    dictionary does to the places of the others.
  * `MoreRulesNeverHurt`, an action property: a rule or a platform more leaves the other
    rules alone and takes no technique out of scope (`Grows`), and a technique's state
    rises with the rules that hit it.
  * `BetterIsNearer`, an action property: what a gap is short of shrinks as sources are
    usable, and the order of its categories is an order (`BeforeIsAnOrder`), so the one
    chosen moves to the front at most.
  * `StepsFollowFindings`. A finding that stands ahead has a smaller rank (`RankRises`),
    so a rank names one finding, and the displayed ones have the first ranks. Under
    `BaseShows` the offset is the scanner's base, and never further from it than one.
  * `PullsAreComplete`. A position names one rule (`ListingIsByPosition`). Unless a rule
    was deleted, what stayed and is not pulled yet is ahead of the offset
    (`RestIsAhead`); unless one was added, what is pulled is behind it
    (`PulledIsBehind`).
  * `GroupsAreComponents`. The forest has a depth for every item that falls along
    its links and a root that is the same along them (`IsForest`): an invariant with
    existential witnesses in the place of an induction over the tree. Halving
    needs no other witness, a union moves one tree below the other. The depth gives
    `FindEnds`; linked items have one root (`LinksShareRoot`), and a set that no link
    leaves is left by no parent (`LinksCarry`), so the trees are the components.
  * `BreakerRunsDown`. The breaker is closed exactly while fewer failures than the
    threshold are counted (`OpensAtThreshold`), however the calls overlap. An action
    property: while it is open and its reset time has not passed, no call is admitted,
    and nothing puts the reset off but the end of a call admitted before, so at most
    once for each.

Every safety invariant and every action property that a run checks is a theorem.
Only model-checked are the liveness properties (`RunSettles`, `QueuedRunsDrain`,
`DueSlotTaken`, `GateAnswers`, `ReviewEnds`, `StalenessDiesOut`, `OpenBreakerLetsGo`):
fairness and ENABLED are out of this prover's reach. What each rests on is
proved where it is safety: `FindEnds` is the termination of `find` as a state
predicate, `BreakerRunsDown` the ranking by which an open breaker comes to try again, and `LockInv` (in `ReviewLifecycle_proofs`) says which request, which can go on,
has the lock that the gate waits for.

## 5. Findings

* `assessment_edits`: a mapping edit is taken on completed assessments only,
  because "a running pipeline would overwrite the edit" (`mitre/router.py:1735`).
  A pipeline given up by the stale guard is still running when its re-run
  completes, and overwrites the edit. `EditsStickUntilRunsCross` proves that this, two
  pipelines at once, is the only way.
* `schedule_streak`: failures recorded without the check – runs disabled, a failed
  pipeline, the stale flip of GET – carry the streak past 2 "without ever
  emailing" (`mitre/tasks.py:120`).
* "Exactly-at-2 => one notice per streak" (`mitre/tasks.py:184`): the sweep flips any stale
  run of the connection, and checks the streak after it although it did not grow.
  Two scheduled failures, the notice, a manual pull that dies with the API process:
  the next sweep sends the notice again. `OneNoticePerStreak` names this exception.
* `review_claims`: "the re-review's result always wins over the manual claim"
  (`insights/fix_verification.py:52`) does not hold for a claim committed between
  the re-review's SELECT and its commit.
* Bulk review fails whenever an agent answered: it iterates the keys of the
  agent's JSON, the bug `routers/reviews.py:313` describes as fixed there.
* A database error in a triggered review leaves it running for ever: the except
  clause commits without a rollback.
* The archive flag is lost to a running pipeline or a concurrent toggle, both of
  which write back the whole `params` document.
* The header of `mitre/tasks.py` describes advance-on-enqueue and a pending-aware
  dedup; the code advances before it enqueues and ignores pending rows.

Met while modelling, without a run of their own (all with lines in `PROJECT.json`):

* Review: an answer of the wrong shape fails the whole review (`Unmergeable`); two
  findings of one agent can be collapsed through a third (`GroupsAreConnected`);
  a merged finding's axis is "Other".
* Scores: a disabled rule can score "strong"; the greedy "fix first" set of a code
  review is not the smallest.
* Users: importing somebody who has an account in another organisation makes the
  address ambiguous, and that person can no longer sign in by code (`ImportUser`); one bad row of a
  bulk import loses the import (`FinishImport`); an
  anonymised user's Google identity blocks that person for ever (`BindGoogle`).
* Code review import: "treat as 0-based only when a 0 appears" (`codereview/ingest.py:750`).
  A step that is null or text has become a zero by then, so one of them makes every
  step of a scanner that counts from one show the next finding (`BaseShows`).
* Projects: a typo forks a project or does not according to which spelling was
  typed first (`Alike`).
* Documents: a suggestion can be accepted twice and leaves holes in the numbers
  (`Accept`); deletions, links and new versions leave the dashboard cache as it was
  (`CommitQuietly`).
* MITRE: `fetch_json` never raises for exhausted retries, so a throttled sign-in is
  reported as a wrong secret (`PullFails`); the thresholds are committed one by one,
  so a floor above the covered threshold can be stored; two overlapping PATCHes can
  leave a cadence without an hour, which is skipped in silence for ever (both are
  what `frayed` excuses).

## 6. Not modelled

* Rules and scoring (`rules/`, `scoring/`), rule quality, gap scores and keyword
  tagging (`mitre/quality.py`, `mitre/keyword_tag.py`): regular expressions over text
  and floating-point arithmetic (exponentials, rounding). A model would have to
  replace what they compute by a constant, and check that constant.
* Layout: `mitre/report*.py`, `codereview/report*.py`, `scoring/report.py`,
  `mitre/navigator.py`, `plain_language.py`, the PDF task, and everything under
  `scripts/` and `docs/design/` (generators of samples and screens). These are more
  than a quarter of the lines, stateless, and about wording and geometry.
* Parsing: `parser.py`, `mitre/ingest.py`, the formats of `codereview/ingest.py` other
  than `findings.json`, prompts and JSON repair in `ai/`.
* Addresses, TLS and encryption in `mitre/connectors/`, tokens and password hashing:
  stateless.
* Approvals, approval templates, notifications, digests, retention settings,
  framework mappings, branding, usage figures, audit entries: one statement per
  request, with no relation between two of them to state.
* Analytics, insights and search: read-only queries.
* The read-only endpoints of modelled components, and the web frontend, whose poll
  of a running assessment is the fairness assumed above.

For this reason the map covers about an eighth of the lines: the parts in which
order, failure or repetition matter are modelled, and the rest is text and layout.

## 7. Plan

1. `ReviewLifecycle` with `ReviewAgents` in the place of its free choice of issues, as a
   refinement, checked and then proved as `PromiseIsKept` and `ReportPromiseIsKept` were.
2. The run extras and the one-transaction insert of the code review module.

The two compositions and the liveness runs are the slow ones, one to two and a
half minutes each with two workers.
