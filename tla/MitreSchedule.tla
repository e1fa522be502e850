--------------------------- MODULE MitreSchedule ---------------------------
(***************************************************************************)
(* Scheduled SIEM re-assessment of one saved connection: the beat sweep    *)
(* and the pull task of app/mitre/tasks.py, run by the Celery worker's     *)
(* prefork processes, next to what reviewers do to the same rows through   *)
(* the API.                                                                *)
(*                                                                         *)
(* Scheduled instants are numbered: conn.due is the most recent one        *)
(* (most_recent_due), conn.last the one last_scheduled_at covers.  Celery  *)
(* acknowledges a message when the task starts (no acks_late), so a task   *)
(* that dies is gone.  The pipeline of a run and the races of the          *)
(* stale-run guard are those of MitreAssessment: here a run only ends.     *)
(* The few minutes by which a sweep's clock may lag are left out.          *)
(***************************************************************************)
EXTENDS Naturals, Sequences, FiniteSets

CONSTANTS
    Workers,       \* the worker's prefork processes (--concurrency)
    NotifyAt,      \* _NOTIFY_AT_STREAK
    HealthWindow,  \* rows connection_health looks at
    UserRows,      \* the rows reviewers create, run and delete: a bound
    MaxSlot,       \* bound on the scheduled instants
    MaxRuns,       \* bound on the connection's assessment rows
    QueueBound     \* bound on the messages waiting when the beat fires

ASSUME SettingsAssumption == NotifyAt \in Nat \ {0} /\ HealthWindow \in Nat \ {0}
ASSUME BoundAssumption ==
    /\ MaxSlot \in Nat /\ MaxRuns \in Nat /\ QueueBound \in Nat
    /\ UserRows \subseteq 1..MaxRuns

VARIABLES
    conn,      \* the mitre_connections row
    runs,      \* its mitre_assessments rows, in order of created_at
    queue,     \* the Celery queue in Redis
    worker,    \* worker[w]: the task a process executes and its locals
    noticed,   \* history: notices since the streak last got shorter, up to 2
    enqueued,  \* history: pulls enqueued for an instant, counted up to 2
    overlap    \* history: two sweeps were executing at once

vars == <<conn, runs, queue, worker, noticed, enqueued, overlap>>

Statuses == {"pending", "running", "completed", "failed"}
Run == [trigger : {"manual", "scheduled"}, status : Statuses,
        aged : BOOLEAN, deleted : BOOLEAN,
        api : BOOLEAN]                       \* a pipeline in the API process
Connection == [schedule : {"on", "paused", "deleted"},
               due : 0..MaxSlot, last : 0..MaxSlot]

Sweeping == {"dedup", "flipped", "advance", "enqueue"}
Pulling == {"pull", "failed", "created", "running", "working"}
Process == [pc : {"idle"} \cup Sweeping \cup Pulling,
            due : 0..MaxSlot, row : 0..MaxRuns]
IdleProcess == [pc |-> "idle", due |-> 0, row |-> 0]

Init ==
    /\ conn = [schedule |-> "on", due |-> 0, last |-> 0]
    /\ runs = <<>>
    /\ queue = <<>>
    /\ worker = [w \in Workers |-> IdleProcess]
    /\ noticed = 0
    /\ enqueued = [s \in 0..MaxSlot |-> 0]
    /\ overlap = FALSE

\* The histories need only tell none, one and several apart.
OneMore(n) == IF n = 0 THEN 1 ELSE 2

At(w, pc) == worker[w].pc = pc
Goto(w, pc) == worker' = [worker EXCEPT ![w].pc = pc]
EndTask(w) == worker' = [worker EXCEPT ![w] = IdleProcess]

Live(rs) == {i \in DOMAIN rs : ~rs[i].deleted}
Running == {i \in Live(runs) : runs[i].status = "running"}

NewRun(trigger, status) ==
    [trigger |-> trigger, status |-> status,
     aged |-> FALSE, deleted |-> FALSE, api |-> FALSE]

----------------------------------------------------------------------------
(* connection_health, and the notice it triggers *)

\* Failed scheduled runs since the last completed one among the newest rows;
\* pending and running rows are passed over.
Failing(rs) ==
    LET newest == {i \in Live(rs) :
                    Cardinality({j \in Live(rs) : j > i}) < HealthWindow}
        counted == {i \in newest : /\ rs[i].trigger = "scheduled"
                                   /\ rs[i].status \in {"failed", "completed"}}
    IN  {i \in counted : \A j \in counted : j >= i => rs[j].status = "failed"}
Streak(rs) == Cardinality(Failing(rs))

NoticePastThreshold == Streak(runs) >= NotifyAt
NoticeDue == Streak(runs) = NotifyAt

Notify == noticed' = IF NoticeDue THEN OneMore(noticed) ELSE noticed

\* A streak that a completed run ends, or a reviewer cuts down, is another one.
Reckon == noticed' = IF Streak(runs') < Streak(runs) THEN 0 ELSE noticed

SetStatus(i, status) ==
    /\ runs' = [runs EXCEPT ![i].status = status, ![i].aged = FALSE]
    /\ Reckon

----------------------------------------------------------------------------
(* schedule_sweep *)

Beat ==
    /\ Len(queue) < QueueBound
    /\ queue' = Append(queue, "sweep")
    /\ UNCHANGED <<conn, runs, worker, noticed, enqueued, overlap>>

\* The list of due connections; the row object is used to the end.
SweepStart(w) ==
    /\ At(w, "idle") /\ queue # <<>> /\ Head(queue) = "sweep"
    /\ queue' = Tail(queue)
    /\ IF conn.schedule = "on" /\ conn.last < conn.due
       THEN /\ worker' = [worker EXCEPT ![w].pc = "dedup", ![w].due = conn.due]
            /\ overlap' = (overlap \/ \E v \in Workers : worker[v].pc \in Sweeping)
       ELSE UNCHANGED <<worker, overlap>>
    /\ UNCHANGED <<conn, runs, noticed, enqueued>>

NeverStale(i) == FALSE
IsStale(i) == runs[i].aged

\* SELECT ... LIMIT 1, in no order: one of the running rows decides.
SweepDedup(w) ==
    /\ At(w, "dedup")
    /\ \/ /\ Running = {}
          /\ Goto(w, "advance")
          /\ UNCHANGED <<runs, noticed>>
       \/ \E i \in Running :
            /\ IsStale(i)
            /\ SetStatus(i, "failed")
            /\ worker' = [worker EXCEPT ![w].pc = "flipped", ![w].row = i]
       \/ \E i \in Running :
            /\ ~IsStale(i)
            /\ EndTask(w)
            /\ UNCHANGED <<runs, noticed>>
    /\ UNCHANGED <<conn, queue, enqueued, overlap>>

SweepNotify(w) ==
    /\ At(w, "flipped")
    /\ Notify
    /\ Goto(w, "advance")
    /\ UNCHANGED <<conn, runs, queue, enqueued, overlap>>

KeepSlot(w) == conn
Advanced(w) == [conn EXCEPT !.last = worker[w].due]

SweepAdvance(w) ==
    /\ At(w, "advance")
    /\ conn' = Advanced(w)
    /\ Goto(w, "enqueue")
    /\ UNCHANGED <<runs, queue, noticed, enqueued, overlap>>

SweepEnqueue(w) ==
    /\ At(w, "enqueue")
    /\ queue' = Append(queue, "pull")
    /\ enqueued' = [enqueued EXCEPT ![worker[w].due] = OneMore(@)]
    /\ EndTask(w)
    /\ UNCHANGED <<conn, runs, noticed, overlap>>

----------------------------------------------------------------------------
(* run_scheduled_pull *)

PullStart(w) ==
    /\ At(w, "idle") /\ queue # <<>> /\ Head(queue) = "pull"
    /\ queue' = Tail(queue)
    /\ IF conn.schedule # "deleted" THEN Goto(w, "pull") ELSE UNCHANGED worker
    /\ UNCHANGED <<conn, runs, noticed, enqueued, overlap>>

UnlistedFailure == NewRun("scheduled", "error")
FailedRecord == NewRun("scheduled", "failed")

\* _record_failed_assessment: runs are disabled for the organisation (the
\* task just returns), or the vault, the connector or the parser refused.
PullRecordsFailure(w) ==
    /\ At(w, "pull") /\ Len(runs) < MaxRuns
    /\ runs' = Append(runs, FailedRecord)
    /\ EndTask(w) \/ Goto(w, "failed")
    /\ UNCHANGED <<conn, queue, noticed, enqueued, overlap>>

PullNotify(w) ==
    /\ At(w, "failed")
    /\ Notify
    /\ EndTask(w)
    /\ UNCHANGED <<conn, runs, queue, enqueued, overlap>>

\* Any exception but HTTPException and VaultError leaves no row behind.
PullRaises(w) ==
    /\ At(w, "pull")
    /\ EndTask(w)
    /\ UNCHANGED <<conn, runs, queue, noticed, enqueued, overlap>>

PullCreates(w) ==
    /\ At(w, "pull") /\ Len(runs) < MaxRuns
    /\ runs' = Append(runs, NewRun("scheduled", "pending"))
    /\ worker' = [worker EXCEPT ![w].pc = "created", ![w].row = Len(runs) + 1]
    /\ UNCHANGED <<conn, queue, noticed, enqueued, overlap>>

MarkRunning(w) ==
    /\ At(w, "created")
    /\ SetStatus(worker[w].row, "running")
    /\ Goto(w, "running")
    /\ UNCHANGED <<conn, queue, enqueued, overlap>>

PipelineLoads(w) ==
    /\ At(w, "running")
    /\ IF worker[w].row \in Running THEN Goto(w, "working") ELSE EndTask(w)
    /\ UNCHANGED <<conn, runs, queue, noticed, enqueued, overlap>>

PipelineEnds(w) ==
    /\ At(w, "working")
    /\ \E outcome \in {"completed", "failed"} : SetStatus(worker[w].row, outcome)
    /\ EndTask(w)
    /\ UNCHANGED <<conn, queue, enqueued, overlap>>

\* The process is killed, or the task raises where nothing catches.
TaskDies(w) ==
    /\ ~At(w, "idle")
    /\ EndTask(w)
    /\ UNCHANGED <<conn, runs, queue, noticed, enqueued, overlap>>

----------------------------------------------------------------------------
(* The clock, and the API process *)

Tick ==
    /\ conn.due < MaxSlot
    /\ conn' = [conn EXCEPT !.due = @ + 1]
    /\ UNCHANGED <<runs, queue, worker, noticed, enqueued, overlap>>

\* Thirty minutes without a write to a running row.
Age(i) ==
    /\ i \in Running /\ ~runs[i].aged
    /\ runs' = [runs EXCEPT ![i].aged = TRUE]
    /\ UNCHANGED <<conn, queue, worker, noticed, enqueued, overlap>>

\* PATCH and DELETE /connections/{id}.
SetSchedule(s) ==
    /\ conn.schedule \notin {s, "deleted"}
    /\ conn' = [conn EXCEPT !.schedule = s]
    /\ UNCHANGED <<runs, queue, worker, noticed, enqueued, overlap>>

\* POST /assessments/from-connection/{id}.
ManualPull ==
    /\ Len(runs) + 1 \in UserRows /\ conn.schedule # "deleted"
    /\ runs' = Append(runs, NewRun("manual", "pending"))
    /\ UNCHANGED <<conn, queue, worker, noticed, enqueued, overlap>>

\* POST /assessments/{id}/run; one API pipeline at a time per row: a bound.
UserRun(i) ==
    /\ i \in UserRows \cap Live(runs)
    /\ runs[i].status \in {"pending", "failed"} /\ ~runs[i].api
    /\ runs' = [runs EXCEPT ![i].status = "running", ![i].aged = FALSE, ![i].api = TRUE]
    /\ Reckon
    /\ UNCHANGED <<conn, queue, worker, enqueued, overlap>>

UserRunEnds(i, outcome) ==
    /\ i \in DOMAIN runs /\ runs[i].api
    /\ runs' = [runs EXCEPT ![i].status = outcome, ![i].aged = FALSE, ![i].api = FALSE]
    /\ Reckon
    /\ UNCHANGED <<conn, queue, worker, enqueued, overlap>>

UserDelete(i) ==
    /\ i \in UserRows \cap Live(runs)
    /\ runs' = [runs EXCEPT ![i].deleted = TRUE, ![i].aged = FALSE]
    /\ Reckon
    /\ UNCHANGED <<conn, queue, worker, enqueued, overlap>>

\* GET /assessments/{id}: the lazy stale-run guard, which notifies nobody.
GetFlips(i) ==
    /\ i \in Running /\ IsStale(i)
    /\ SetStatus(i, "failed")
    /\ UNCHANGED <<conn, queue, worker, enqueued, overlap>>

ApiRestart ==
    /\ \E i \in DOMAIN runs : runs[i].api
    /\ runs' = [i \in DOMAIN runs |-> [runs[i] EXCEPT !.api = FALSE]]
    /\ UNCHANGED <<conn, queue, worker, noticed, enqueued, overlap>>

----------------------------------------------------------------------------
SweepStep(w) ==
    SweepStart(w) \/ SweepDedup(w) \/ SweepNotify(w) \/ SweepAdvance(w) \/ SweepEnqueue(w)

PullStep(w) ==
    \/ PullStart(w) \/ PullRecordsFailure(w) \/ PullNotify(w) \/ PullRaises(w)
    \/ PullCreates(w) \/ MarkRunning(w) \/ PipelineLoads(w) \/ PipelineEnds(w)

UserStep ==
    \/ ManualPull
    \/ \E i \in 1..MaxRuns :
        \/ UserRun(i)
        \/ \E outcome \in {"completed", "failed"} : UserRunEnds(i, outcome)
        \/ UserDelete(i)
        \/ GetFlips(i)

Next ==
    \/ \E w \in Workers : SweepStep(w) \/ PullStep(w) \/ TaskDies(w)
    \/ Beat \/ Tick \/ ApiRestart
    \/ \E i \in 1..MaxRuns : Age(i)
    \/ \E s \in {"on", "paused", "deleted"} : SetSchedule(s)
    \/ UserStep

Spec == Init /\ [][Next]_vars

\* The beat fires for ever and a process takes the next message when it has
\* ended its task.  Restarts may kill sweeps time and again, but not every
\* sweep at the same point (SF).
Fairness ==
    /\ WF_vars(Beat)
    /\ \A i \in 1..MaxRuns : WF_vars(Age(i))
    /\ \A w \in Workers :
        /\ WF_vars(PullStep(w))
        /\ SF_vars(PullStart(w)) /\ SF_vars(SweepStart(w))
        /\ SF_vars(SweepDedup(w)) /\ SF_vars(SweepNotify(w))
        /\ SF_vars(SweepAdvance(w)) /\ SF_vars(SweepEnqueue(w))
FairSpec == Spec /\ Fairness

----------------------------------------------------------------------------
TypeOK ==
    /\ conn \in Connection
    /\ runs \in Seq(Run) /\ Len(runs) <= MaxRuns
    /\ queue \in Seq({"sweep", "pull"})
    /\ worker \in [Workers -> Process]
    /\ noticed \in 0..2
    /\ enqueued \in [0..MaxSlot -> 0..2]
    /\ overlap \in BOOLEAN

\* "Advance BEFORE enqueue": as long as no two sweeps execute at once, no crash,
\* skipped sweep, failed pull or stale run makes an instant pull twice.
SlotPulledOnce == ~overlap => \A s \in 0..MaxSlot : enqueued[s] <= 1

\* The sweeps implement the schedule's promise: instants are taken in order and
\* never before they come, each is pulled at most once, after it was taken and
\* before another is, through crashes, skipped sweeps and edits of the schedule.
Slots == INSTANCE ScheduleSlots
         WITH due <- conn.due, taken <- conn.last, pulls <- enqueued, crossed <- overlap
SweepsKeepThePromise == Slots!SlotsSpec

\* "Exactly at 2, so one notice per streak": whatever mixture of refused pulls,
\* failed pipelines and stale flips a streak is made of, however reviewers re-run
\* and delete its rows, one process tells of it once.  Only a sweep may tell of
\* it again, and only one that flipped a run which the streak does not count.
OneNoticePerStreak ==
    [][noticed < 2 /\ noticed' = 2 =>
           \E w \in Workers : At(w, "flipped") /\ worker[w].row \notin Failing(runs)]_vars

\* "A dead run can never block the schedule forever": a due instant is taken,
\* by its own pull or a later one's, unless the schedule is switched off.
DueSlotTaken ==
    \A s \in 1..MaxSlot :
        conn.due >= s /\ conn.last < s ~> conn.last >= s \/ conn.schedule # "on"

\* The comment of the sweep: the threshold is checked "or a streak could pass 2
\* without ever emailing".
LongStreakIsNoticed == Streak(runs) > NotifyAt => noticed > 0
============================================================================
