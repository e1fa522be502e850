------------------------ MODULE MitreSchedule_proofs ------------------------
(***************************************************************************)
(* The scheduler for any number of processes, instants and rows.  A sweep  *)
(* carries the instant it has found due across two commits; SweepInv says  *)
(* that this instant is still free when the sweep is alone.  NoticeInv     *)
(* says how long the streak is when the process looks at it again.         *)
(***************************************************************************)
EXTENDS MitreSchedule, FiniteSetTheorems, SequenceTheorems, TLAPS

IsSweeping(w) == worker[w].pc \in Sweeping

\* Before its commit the sweep's instant is later than all that are covered,
\* after it the instant is the newest covered and no pull has been enqueued for it.
SlotFree(w) ==
    /\ worker[w].due <= conn.due
    /\ IF At(w, "enqueue") THEN worker[w].due = conn.last /\ enqueued[worker[w].due] = 0
       ELSE conn.last < worker[w].due

SweepInv ==
    ~overlap =>
        /\ \A v, w \in Workers : IsSweeping(v) /\ IsSweeping(w) => v = w
        /\ \A w \in Workers : IsSweeping(w) => SlotFree(w)
        /\ \A s \in 0..MaxSlot : conn.last < s => enqueued[s] = 0

ScheduleInv == TypeOK /\ SweepInv /\ SlotPulledOnce

----------------------------------------------------------------------------
(***************************************************************************)
(* Types                                                                   *)
(***************************************************************************)
LEMMA IdleType == IdleProcess \in Process
  BY BoundAssumption DEF IdleProcess, Process

LEMMA NewRunType ==
    \A trigger \in {"manual", "scheduled"}, status \in Statuses : NewRun(trigger, status) \in Run
  BY DEF NewRun, Run

\* The two ways the table changes: a row is added, or one is rewritten.
LEMMA AddedType ==
    ASSUME runs \in Seq(Run), Len(runs) < MaxRuns, NEW r \in Run
    PROVE  Append(runs, r) \in Seq(Run) /\ Len(Append(runs, r)) <= MaxRuns
  BY BoundAssumption

LEMMA RewrittenType ==
    ASSUME runs \in Seq(Run), NEW i, NEW r \in Run
    PROVE  /\ [runs EXCEPT ![i] = r] \in Seq(Run)
           /\ Len([runs EXCEPT ![i] = r]) = Len(runs)
<1>1. CASE i \in 1..Len(runs)
  BY <1>1, ExceptSeq
<1>2. CASE i \notin 1..Len(runs)
  <2>1. [runs EXCEPT ![i] = r] = runs
    BY <1>2
  <2> QED
    BY <2>1
<1> QED
  BY <1>1, <1>2

LEMMA ReckonType == noticed \in 0..2 /\ Reckon => noticed' \in 0..2
  BY DEF Reckon

\* SetStatus, whatever row it is given.
LEMMA SetStatusType ==
    ASSUME TypeOK, NEW i, NEW status \in Statuses, SetStatus(i, status)
    PROVE  runs' \in Seq(Run) /\ Len(runs') <= MaxRuns /\ noticed' \in 0..2
<1>1. CASE i \in 1..Len(runs)
  <2>1. runs[i] \in Run
    BY <1>1 DEF TypeOK
  <2>2. [runs[i] EXCEPT !.status = status, !.aged = FALSE] \in Run
    BY <2>1 DEF Run
  <2>3. runs' = [runs EXCEPT ![i] = [runs[i] EXCEPT !.status = status, !.aged = FALSE]]
    BY DEF SetStatus
  <2>4. runs' \in Seq(Run) /\ Len(runs') <= MaxRuns
    BY <2>2, <2>3, RewrittenType DEF TypeOK
  <2>5. noticed' \in 0..2
    BY ReckonType DEF SetStatus, TypeOK
  <2> QED
    BY <2>4, <2>5
<1>2. CASE i \notin 1..Len(runs)
  <2>1. runs' = runs
    BY <1>2 DEF SetStatus, TypeOK
  <2>2. noticed' \in 0..2
    BY ReckonType DEF SetStatus, TypeOK
  <2> QED
    BY <2>1, <2>2 DEF TypeOK
<1> QED
  BY <1>1, <1>2

LEMMA NotifyType == noticed \in 0..2 /\ Notify => noticed' \in 0..2
  BY DEF Notify, OneMore

LEMMA InitType == Init => TypeOK
<1> SUFFICES ASSUME Init PROVE TypeOK
  OBVIOUS
<1> USE BoundAssumption DEF Init
<1>1. conn \in Connection /\ worker \in [Workers -> Process]
  BY IdleType DEF Connection
<1>2. runs \in Seq(Run) /\ Len(runs) <= MaxRuns /\ queue \in Seq({"sweep", "pull"})
  OBVIOUS
<1>3. noticed \in 0..2 /\ enqueued \in [0..MaxSlot -> 0..2] /\ overlap \in BOOLEAN
  OBVIOUS
<1> QED
  BY <1>1, <1>2, <1>3 DEF TypeOK

LEMMA SweepType ==
    ASSUME TypeOK, NEW w \in Workers, SweepStep(w)
    PROVE  TypeOK'
<1>0. /\ conn \in Connection /\ worker \in [Workers -> Process] /\ worker[w] \in Process
      /\ queue \in Seq({"sweep", "pull"})
  BY DEF TypeOK
<1>1. ASSUME NEW pc \in Sweeping, Goto(w, pc) PROVE worker' \in [Workers -> Process]
  BY <1>0, <1>1 DEF Goto, Process
<1>2. ASSUME EndTask(w) PROVE worker' \in [Workers -> Process]
  BY <1>0, <1>2, IdleType DEF EndTask
<1>3. CASE SweepStart(w)
  <2>1. worker' \in [Workers -> Process]
    <3>1. conn.due \in 0..MaxSlot
      BY <1>0 DEF Connection
    <3>2. [worker[w] EXCEPT !.pc = "dedup", !.due = conn.due] \in Process
      BY <1>0, <3>1 DEF Process, Sweeping
    <3>3. worker' = worker \/ worker' = [worker EXCEPT ![w] =
                                [worker[w] EXCEPT !.pc = "dedup", !.due = conn.due]]
      BY <1>3 DEF SweepStart
    <3> QED
      BY <1>0, <3>2, <3>3
  <2>2. queue' \in Seq({"sweep", "pull"})
    BY <1>0, <1>3 DEF SweepStart
  <2> QED
    BY <1>3, <2>1, <2>2 DEF SweepStart, TypeOK
<1>4. CASE SweepDedup(w)
  <2>1. worker' \in [Workers -> Process]
    <3>1. ASSUME NEW i \in Running PROVE i \in 0..MaxRuns
      <4>1. i \in DOMAIN runs
        BY <3>1 DEF Running, Live
      <4>2. DOMAIN runs = 1..Len(runs) /\ Len(runs) \in Nat /\ Len(runs) <= MaxRuns
        BY DEF TypeOK
      <4> QED
        BY <4>1, <4>2, BoundAssumption
    <3>2. ASSUME NEW i \in 0..MaxRuns, worker' = [worker EXCEPT ![w].pc = "flipped", ![w].row = i]
          PROVE  worker' \in [Workers -> Process]
      BY <1>0, <3>2 DEF Process, Sweeping
    <3>3. \/ Goto(w, "advance")
          \/ EndTask(w)
          \/ \E i \in Running : worker' = [worker EXCEPT ![w].pc = "flipped", ![w].row = i]
      BY <1>4 DEF SweepDedup
    <3>4. "advance" \in Sweeping
      BY DEF Sweeping
    <3> QED
      BY <1>1, <1>2, <3>1, <3>2, <3>3, <3>4
  <2>2. runs' \in Seq(Run) /\ Len(runs') <= MaxRuns /\ noticed' \in 0..2
    BY <1>4, SetStatusType DEF SweepDedup, TypeOK, Statuses
  <2> QED
    BY <1>4, <2>1, <2>2 DEF SweepDedup, TypeOK
<1>5. CASE SweepNotify(w)
  BY <1>1, <1>5, NotifyType DEF SweepNotify, TypeOK, Sweeping
<1>6. CASE SweepAdvance(w)
  <2>1. conn' \in Connection
    BY <1>0, <1>6 DEF SweepAdvance, Advanced, Connection, Process
  <2> QED
    BY <1>1, <1>6, <2>1 DEF SweepAdvance, TypeOK, Sweeping
<1>7. CASE SweepEnqueue(w)
  <2>1. enqueued' \in [0..MaxSlot -> 0..2]
    <3>1. enqueued' = [enqueued EXCEPT ![worker[w].due] = OneMore(enqueued[worker[w].due])]
      BY <1>7 DEF SweepEnqueue
    <3>2. \A n : OneMore(n) \in 0..2
      BY DEF OneMore
    <3> QED
      BY <3>1, <3>2 DEF TypeOK
  <2>2. queue' \in Seq({"sweep", "pull"})
    BY <1>0, <1>7 DEF SweepEnqueue
  <2> QED
    BY <1>2, <1>7, <2>1, <2>2 DEF SweepEnqueue, TypeOK
<1> QED
  BY <1>3, <1>4, <1>5, <1>6, <1>7 DEF SweepStep

LEMMA PullType ==
    ASSUME TypeOK, NEW w \in Workers, PullStep(w) \/ TaskDies(w)
    PROVE  TypeOK'
<1>0. /\ worker \in [Workers -> Process] /\ worker[w] \in Process
      /\ queue \in Seq({"sweep", "pull"})
  BY DEF TypeOK
<1>1. ASSUME NEW pc \in Pulling, Goto(w, pc) PROVE worker' \in [Workers -> Process]
  BY <1>0, <1>1 DEF Goto, Process
<1>2. ASSUME EndTask(w) PROVE worker' \in [Workers -> Process]
  BY <1>0, <1>2, IdleType DEF EndTask
<1>3. CASE PullStart(w)
  <2>1. worker' \in [Workers -> Process]
    BY <1>0, <1>1, <1>3 DEF PullStart, Pulling
  <2>2. queue' \in Seq({"sweep", "pull"})
    BY <1>0, <1>3 DEF PullStart
  <2> QED
    BY <1>3, <2>1, <2>2 DEF PullStart, TypeOK
<1>4. CASE PullRecordsFailure(w)
  <2>1. worker' \in [Workers -> Process]
    BY <1>1, <1>2, <1>4 DEF PullRecordsFailure, Pulling
  <2>2. runs' \in Seq(Run) /\ Len(runs') <= MaxRuns
    BY <1>4, NewRunType, AddedType DEF PullRecordsFailure, FailedRecord, TypeOK, Statuses
  <2> QED
    BY <1>4, <2>1, <2>2 DEF PullRecordsFailure, TypeOK
<1>5. CASE PullNotify(w)
  BY <1>2, <1>5, NotifyType DEF PullNotify, TypeOK
<1>6. CASE PullRaises(w)
  BY <1>2, <1>6 DEF PullRaises, TypeOK
<1>7. CASE PullCreates(w)
  <2>1. Len(runs) + 1 \in 0..MaxRuns
    BY <1>7, BoundAssumption DEF PullCreates, TypeOK
  <2>2. worker' \in [Workers -> Process]
    BY <1>0, <1>7, <2>1 DEF PullCreates, Process, Pulling
  <2>3. runs' \in Seq(Run) /\ Len(runs') <= MaxRuns
    BY <1>7, NewRunType, AddedType DEF PullCreates, TypeOK, Statuses
  <2> QED
    BY <1>7, <2>2, <2>3 DEF PullCreates, TypeOK
<1>8. CASE MarkRunning(w)
  <2>1. runs' \in Seq(Run) /\ Len(runs') <= MaxRuns /\ noticed' \in 0..2
    BY <1>8, SetStatusType DEF MarkRunning, Statuses
  <2> QED
    BY <1>1, <1>8, <2>1 DEF MarkRunning, TypeOK, Pulling
<1>9. CASE PipelineLoads(w)
  BY <1>1, <1>2, <1>9 DEF PipelineLoads, TypeOK, Pulling
<1>10. CASE PipelineEnds(w)
  <2>1. runs' \in Seq(Run) /\ Len(runs') <= MaxRuns /\ noticed' \in 0..2
    BY <1>10, SetStatusType DEF PipelineEnds, Statuses
  <2> QED
    BY <1>2, <1>10, <2>1 DEF PipelineEnds, TypeOK
<1>11. CASE TaskDies(w)
  BY <1>2, <1>11 DEF TaskDies, TypeOK
<1> QED
  BY <1>3, <1>4, <1>5, <1>6, <1>7, <1>8, <1>9, <1>10, <1>11 DEF PullStep

LEMMA ApiType ==
    ASSUME TypeOK, \/ UserStep \/ ApiRestart \/ \E i \in 1..MaxRuns : Age(i)
    PROVE  TypeOK'
<1>1. ASSUME NEW i \in DOMAIN runs, NEW r \in Run, runs' = [runs EXCEPT ![i] = r]
      PROVE  runs' \in Seq(Run) /\ Len(runs') <= MaxRuns
  BY <1>1, RewrittenType DEF TypeOK
<1>0. \A i \in DOMAIN runs : runs[i] \in Run
  BY DEF TypeOK
<1>2. CASE ManualPull
  <2>1. Len(runs) < MaxRuns
    BY <1>2, BoundAssumption DEF ManualPull, TypeOK
  <2>2. runs' \in Seq(Run) /\ Len(runs') <= MaxRuns
    BY <1>2, <2>1, NewRunType, AddedType DEF ManualPull, TypeOK, Statuses
  <2> QED
    BY <1>2, <2>2 DEF ManualPull, TypeOK
<1>3. ASSUME NEW i \in 1..MaxRuns, UserRun(i) PROVE TypeOK'
  <2>1. /\ i \in DOMAIN runs
        /\ runs' = [runs EXCEPT ![i] = [runs[i] EXCEPT !.status = "running",
                                            !.aged = FALSE, !.api = TRUE]]
    BY <1>3 DEF UserRun, Live
  <2>2. runs' \in Seq(Run) /\ Len(runs') <= MaxRuns
    BY <1>0, <1>1, <2>1 DEF Run, Statuses
  <2> QED
    BY <1>3, <2>2, ReckonType DEF UserRun, TypeOK
<1>4. ASSUME NEW i \in 1..MaxRuns, NEW outcome \in {"completed", "failed"},
             UserRunEnds(i, outcome)
      PROVE  TypeOK'
  <2>1. /\ i \in DOMAIN runs
        /\ runs' = [runs EXCEPT ![i] = [runs[i] EXCEPT !.status = outcome,
                                            !.aged = FALSE, !.api = FALSE]]
    BY <1>4 DEF UserRunEnds
  <2>2. runs' \in Seq(Run) /\ Len(runs') <= MaxRuns
    BY <1>0, <1>1, <2>1 DEF Run, Statuses
  <2> QED
    BY <1>4, <2>2, ReckonType DEF UserRunEnds, TypeOK
<1>5. ASSUME NEW i \in 1..MaxRuns, UserDelete(i) PROVE TypeOK'
  <2>1. /\ i \in DOMAIN runs
        /\ runs' = [runs EXCEPT ![i] = [runs[i] EXCEPT !.deleted = TRUE, !.aged = FALSE]]
    BY <1>5 DEF UserDelete, Live
  <2>2. runs' \in Seq(Run) /\ Len(runs') <= MaxRuns
    BY <1>0, <1>1, <2>1 DEF Run
  <2> QED
    BY <1>5, <2>2, ReckonType DEF UserDelete, TypeOK
<1>6. ASSUME NEW i \in 1..MaxRuns, GetFlips(i) PROVE TypeOK'
  <2>1. runs' \in Seq(Run) /\ Len(runs') <= MaxRuns /\ noticed' \in 0..2
    BY <1>6, SetStatusType DEF GetFlips, Statuses
  <2> QED
    BY <1>6, <2>1 DEF GetFlips, TypeOK
<1>7. ASSUME NEW i \in 1..MaxRuns, Age(i) PROVE TypeOK'
  <2>1. i \in DOMAIN runs /\ runs' = [runs EXCEPT ![i] = [runs[i] EXCEPT !.aged = TRUE]]
    BY <1>7 DEF Age, Running, Live
  <2>2. runs' \in Seq(Run) /\ Len(runs') <= MaxRuns
    BY <1>0, <1>1, <2>1 DEF Run
  <2> QED
    BY <1>7, <2>2 DEF Age, TypeOK
<1>8. CASE ApiRestart
  <2>1. runs \in Seq(Run) /\ DOMAIN runs = 1..Len(runs) /\ Len(runs) \in Nat
    BY DEF TypeOK
  <2>2. runs' \in [1..Len(runs) -> Run]
    <3>1. \A i \in DOMAIN runs : [runs[i] EXCEPT !.api = FALSE] \in Run
      BY <1>0 DEF Run
    <3> QED
      BY <1>8, <2>1, <3>1 DEF ApiRestart
  <2>3. runs' \in Seq(Run) /\ Len(runs') = Len(runs)
    BY <2>1, <2>2
  <2> QED
    BY <1>8, <2>3 DEF ApiRestart, TypeOK
<1> QED
  BY <1>2, <1>3, <1>4, <1>5, <1>6, <1>7, <1>8 DEF UserStep

LEMMA NextType == TypeOK /\ [Next]_vars => TypeOK'
<1> SUFFICES ASSUME TypeOK, [Next]_vars PROVE TypeOK'
  OBVIOUS
<1>1. CASE Beat
  BY <1>1 DEF Beat, TypeOK
<1>2. CASE Tick
  BY <1>2, BoundAssumption DEF Tick, TypeOK, Connection
<1>3. ASSUME NEW s \in {"on", "paused", "deleted"}, SetSchedule(s) PROVE TypeOK'
  BY <1>3 DEF SetSchedule, TypeOK, Connection
<1>4. CASE UNCHANGED vars
  BY <1>4 DEF vars, TypeOK
<1> QED
  BY <1>1, <1>2, <1>3, <1>4, SweepType, PullType, ApiType DEF Next

----------------------------------------------------------------------------
(***************************************************************************)
(* The instants                                                            *)
(***************************************************************************)
LEMMA InitSweep == Init => SweepInv /\ SlotPulledOnce
<1> SUFFICES ASSUME Init PROVE SweepInv /\ SlotPulledOnce
  OBVIOUS
<1>1. \A w \in Workers : ~IsSweeping(w)
  BY DEF Init, IdleProcess, IsSweeping, Sweeping
<1>2. \A s \in 0..MaxSlot : enqueued[s] = 0
  BY DEF Init
<1> QED
  BY <1>1, <1>2 DEF SweepInv, SlotPulledOnce

\* Steps that only end sweeps, or do not concern them.
LEMMA IdleSweep ==
    ASSUME TypeOK, SweepInv, SlotPulledOnce, UNCHANGED <<enqueued, overlap>>,
           conn'.last = conn.last, conn'.due \in {conn.due, conn.due + 1},
           \A w \in Workers : \/ worker'[w] = worker[w]
                              \/ ~IsSweeping(w)'
                              \/ /\ IsSweeping(w) /\ worker'[w].due = worker[w].due
                                 /\ ~At(w, "enqueue") /\ ~At(w, "enqueue")'
    PROVE  SweepInv' /\ SlotPulledOnce'
<1>1. conn.due \in Nat /\ worker \in [Workers -> Process]
  BY DEF TypeOK, Connection
<1>2. \A w \in Workers : worker[w].due <= conn.due => worker[w].due <= conn'.due
  BY <1>1 DEF Process
<1> QED
  BY <1>2 DEF SweepInv, SlotPulledOnce, IsSweeping, SlotFree, At

LEMMA NextSweep == ScheduleInv /\ [Next]_vars => SweepInv' /\ SlotPulledOnce'
<1> SUFFICES ASSUME ScheduleInv, [Next]_vars PROVE SweepInv' /\ SlotPulledOnce'
  OBVIOUS
<1> USE DEF ScheduleInv
<1>0. /\ conn \in Connection /\ worker \in [Workers -> Process]
      /\ enqueued \in [0..MaxSlot -> 0..2]
  BY DEF TypeOK
<1>1. ASSUME NEW w \in Workers, SweepStart(w) PROVE SweepInv' /\ SlotPulledOnce'
  <2>1. CASE ~(conn.schedule = "on" /\ conn.last < conn.due)
    BY <1>1, <2>1, IdleSweep DEF SweepStart
  <2>2. CASE conn.schedule = "on" /\ conn.last < conn.due
    <3>1. /\ \A v \in Workers \ {w} : worker'[v] = worker[v]
          /\ worker'[w].pc = "dedup" /\ worker'[w].due = conn.due
      BY <1>0, <1>1, <2>2 DEF SweepStart, Process
    <3>2. /\ UNCHANGED <<conn, enqueued>>
          /\ overlap' = (overlap \/ \E v \in Workers : IsSweeping(v))
      BY <1>1, <2>2 DEF SweepStart, IsSweeping
    <3>3. ~overlap' => \A v \in Workers \ {w} : ~IsSweeping(v)'
      BY <3>1, <3>2 DEF IsSweeping
    <3>4. SlotFree(w)'
      BY <1>0, <2>2, <3>1, <3>2 DEF SlotFree, At, Connection
    <3> QED
      BY <3>2, <3>3, <3>4 DEF SweepInv, SlotPulledOnce
  <2> QED
    BY <2>1, <2>2
<1>2. ASSUME NEW w \in Workers, SweepDedup(w) PROVE SweepInv' /\ SlotPulledOnce'
  BY <1>0, <1>2, IdleSweep DEF SweepDedup, Goto, EndTask, At, IdleProcess, IsSweeping,
                               Sweeping, Process
<1>3. ASSUME NEW w \in Workers, SweepNotify(w) PROVE SweepInv' /\ SlotPulledOnce'
  BY <1>0, <1>3, IdleSweep DEF SweepNotify, Goto, At, IsSweeping, Sweeping, Process
<1>4. ASSUME NEW w \in Workers, SweepAdvance(w) PROVE SweepInv' /\ SlotPulledOnce'
  <2>1. /\ \A v \in Workers \ {w} : worker'[v] = worker[v]
        /\ worker'[w].pc = "enqueue" /\ worker'[w].due = worker[w].due
        /\ conn'.last = worker[w].due /\ conn'.due = conn.due /\ UNCHANGED <<enqueued, overlap>>
    BY <1>0, <1>4 DEF SweepAdvance, Advanced, Goto, Process, Connection
  <2>2. IsSweeping(w) /\ ~At(w, "enqueue")
    BY <1>4 DEF SweepAdvance, At, IsSweeping, Sweeping
  <2>3. CASE ~overlap
    <3>1. conn.last < worker[w].due /\ worker[w].due <= conn.due /\ \A v \in Workers \ {w} : ~IsSweeping(v)
      BY <2>2, <2>3 DEF SweepInv, SlotFree
    <3>2. \A s \in 0..MaxSlot : conn.last < s => enqueued[s] = 0
      BY <2>3 DEF SweepInv
    <3>3. conn.last \in Nat /\ worker[w].due \in 0..MaxSlot
      BY <1>0 DEF Connection, Process
    <3>4. enqueued[worker[w].due] = 0
      BY <3>1, <3>2, <3>3
    <3>5. SlotFree(w)'
      BY <2>1, <3>1, <3>3, <3>4 DEF SlotFree, At
    <3>6. \A s \in 0..MaxSlot : conn'.last < s => enqueued'[s] = 0
      BY <2>1, <3>1, <3>2, <3>3
    <3>7. \A v \in Workers \ {w} : ~IsSweeping(v)'
      BY <2>1, <3>1 DEF IsSweeping
    <3> QED
      BY <2>1, <3>5, <3>6, <3>7 DEF SweepInv, SlotPulledOnce
  <2>4. CASE overlap
    BY <2>1, <2>4 DEF SweepInv, SlotPulledOnce
  <2> QED
    BY <2>3, <2>4
<1>5. ASSUME NEW w \in Workers, SweepEnqueue(w) PROVE SweepInv' /\ SlotPulledOnce'
  <2>1. /\ \A v \in Workers \ {w} : worker'[v] = worker[v]
        /\ worker'[w].pc = "idle" /\ UNCHANGED <<conn, overlap>>
    BY <1>0, <1>5 DEF SweepEnqueue, EndTask, IdleProcess
  <2>2. \A s \in 0..MaxSlot :
            enqueued'[s] = IF s = worker[w].due THEN OneMore(enqueued[s]) ELSE enqueued[s]
    BY <1>0, <1>5 DEF SweepEnqueue
  <2>3. IsSweeping(w) /\ At(w, "enqueue")
    BY <1>5 DEF SweepEnqueue, At, IsSweeping, Sweeping
  <2>4. CASE ~overlap
    <3>1. /\ worker[w].due = conn.last /\ enqueued[worker[w].due] = 0
          /\ \A v \in Workers \ {w} : ~IsSweeping(v)
      BY <2>3, <2>4 DEF SweepInv, SlotFree
    <3>2. conn.last \in Nat /\ worker[w].due \in 0..MaxSlot
      BY <1>0 DEF Connection, Process
    <3>3. \A s \in 0..MaxSlot : enqueued'[s] <= 1
      BY <2>2, <2>4, <3>1 DEF SlotPulledOnce, OneMore
    <3>4. \A s \in 0..MaxSlot : conn'.last < s => enqueued'[s] = 0
      BY <2>1, <2>2, <2>4, <3>1, <3>2 DEF SweepInv
    <3>5. \A v \in Workers : ~IsSweeping(v)'
      BY <2>1, <3>1 DEF IsSweeping, Sweeping
    <3> QED
      BY <3>3, <3>4, <3>5 DEF SweepInv, SlotPulledOnce
  <2>5. CASE overlap
    BY <2>1, <2>5 DEF SweepInv, SlotPulledOnce
  <2> QED
    BY <2>4, <2>5
<1>6. ASSUME NEW w \in Workers, PullStep(w) PROVE SweepInv' /\ SlotPulledOnce'
  <2>1. UNCHANGED <<conn, enqueued, overlap>>
    BY <1>6 DEF PullStep, PullStart, PullRecordsFailure, PullNotify, PullRaises, PullCreates,
                MarkRunning, PipelineLoads, PipelineEnds
  <2>2. \/ UNCHANGED worker
        \/ EndTask(w)
        \/ \E pc \in Pulling : Goto(w, pc)
        \/ worker' = [worker EXCEPT ![w].pc = "created", ![w].row = Len(runs) + 1]
    BY <1>6 DEF PullStep, PullStart, PullRecordsFailure, PullNotify, PullRaises, PullCreates,
                MarkRunning, PipelineLoads, PipelineEnds, Pulling
  <2>3. \A v \in Workers : worker'[v] = worker[v] \/ ~IsSweeping(v)'
    BY <1>0, <2>2 DEF Goto, EndTask, IdleProcess, Pulling, IsSweeping, Sweeping, Process
  <2> QED
    BY <2>1, <2>3, IdleSweep
<1>7. ASSUME NEW w \in Workers, TaskDies(w) PROVE SweepInv' /\ SlotPulledOnce'
  BY <1>0, <1>7, IdleSweep DEF TaskDies, EndTask, IdleProcess, IsSweeping, Sweeping
<1>8. CASE Tick \/ \E s \in {"on", "paused", "deleted"} : SetSchedule(s)
  <2>1. /\ UNCHANGED <<worker, enqueued, overlap>> /\ conn'.last = conn.last
        /\ conn'.due \in {conn.due, conn.due + 1}
    BY <1>0, <1>8 DEF Tick, SetSchedule, Connection
  <2> QED
    BY <2>1, IdleSweep
<1>9. CASE Beat \/ ApiRestart \/ UserStep \/ \E i \in 1..MaxRuns : Age(i)
  <2>1. UNCHANGED <<conn, worker, enqueued, overlap>>
    BY <1>9 DEF Beat, ApiRestart, UserStep, ManualPull, UserRun, UserRunEnds, UserDelete,
                GetFlips, Age
  <2> QED
    BY <2>1, IdleSweep
<1>10. CASE UNCHANGED vars
  BY <1>10, IdleSweep DEF vars
<1> QED
  BY <1>1, <1>2, <1>3, <1>4, <1>5, <1>6, <1>7, <1>8, <1>9, <1>10 DEF Next, SweepStep

----------------------------------------------------------------------------
(***************************************************************************)
(* The theorems                                                            *)
(***************************************************************************)

\* No task, handler or restart stores a status outside the CHECK constraint
\* or more rows than were asked for.
THEOREM TypeCorrect == Spec => []TypeOK
  BY InitType, NextType, PTL DEF Spec

\* _sweep_async advances the schedule before it enqueues: for any number of
\* processes, crashes and skipped sweeps, sweeps that do not overlap enqueue
\* at most one pull for each scheduled instant.
THEOREM SlotsArePulledOnce == Spec => []SlotPulledOnce
<1>1. Init => ScheduleInv
  BY InitType, InitSweep DEF ScheduleInv
<1>2. ScheduleInv /\ [Next]_vars => ScheduleInv'
  BY NextType, NextSweep DEF ScheduleInv
<1>3. ScheduleInv => SlotPulledOnce
  BY DEF ScheduleInv
<1> QED
  BY <1>1, <1>2, <1>3, PTL DEF Spec

----------------------------------------------------------------------------
(***************************************************************************)
(* The schedule's promise                                                  *)
(***************************************************************************)
LEMMA InitPromise == Init => Slots!SlotsInit
  BY DEF Init, Slots!SlotsInit

LEMMA AdvancePromise ==
    ASSUME ScheduleInv, NEW w \in Workers, SweepAdvance(w)
    PROVE  [Slots!SlotsNext]_(Slots!slotvars)
<1>0. conn \in Connection /\ worker[w] \in Process
  BY DEF ScheduleInv, TypeOK
<1>1. conn' = [conn EXCEPT !.last = worker[w].due] /\ UNCHANGED <<enqueued, overlap>>
  BY DEF SweepAdvance, Advanced
<1>2. conn'.last = worker[w].due /\ conn'.due = conn.due
  BY <1>0, <1>1 DEF Connection
<1>3. CASE overlap
  BY <1>1, <1>3 DEF Slots!SlotsNext, Slots!Unpromised
<1>4. CASE ~overlap
  <2>1. SlotFree(w) /\ ~At(w, "enqueue")
    BY <1>4 DEF ScheduleInv, SweepInv, SweepAdvance, IsSweeping, Sweeping, At
  <2>2. conn'.last \in (conn.last + 1)..conn.due
    BY <1>0, <1>2, <2>1 DEF SlotFree, Connection, Process
  <2>3. Slots!Take
    BY <1>1, <1>2, <2>2 DEF Slots!Take
  <2> QED
    BY <2>3 DEF Slots!SlotsNext
<1> QED
  BY <1>3, <1>4

LEMMA EnqueuePromise ==
    ASSUME ScheduleInv, NEW w \in Workers, SweepEnqueue(w)
    PROVE  [Slots!SlotsNext]_(Slots!slotvars)
<1>1. /\ UNCHANGED <<conn, overlap>>
      /\ enqueued' = [enqueued EXCEPT ![worker[w].due] = OneMore(@)]
  BY DEF SweepEnqueue
<1>2. CASE overlap
  BY <1>1, <1>2 DEF Slots!SlotsNext, Slots!Unpromised
<1>3. CASE ~overlap
  <2>1. SlotFree(w) /\ At(w, "enqueue")
    BY <1>3 DEF ScheduleInv, SweepInv, SweepEnqueue, IsSweeping, Sweeping, At
  <2>2. worker[w].due = conn.last /\ enqueued[conn.last] = 0
    BY <2>1 DEF SlotFree
  <2>3. enqueued' = [enqueued EXCEPT ![conn.last] = 1]
    BY <1>1, <2>2 DEF OneMore
  <2>4. Slots!SendPull
    BY <1>1, <2>2, <2>3 DEF Slots!SendPull
  <2> QED
    BY <2>4 DEF Slots!SlotsNext
<1> QED
  BY <1>2, <1>3

LEMMA NextPromise ==
    ScheduleInv /\ [Next]_vars => [Slots!SlotsNext]_(Slots!slotvars)
<1> SUFFICES ASSUME ScheduleInv, [Next]_vars PROVE [Slots!SlotsNext]_(Slots!slotvars)
  OBVIOUS
<1>0. conn \in Connection /\ overlap \in BOOLEAN
  BY DEF ScheduleInv, TypeOK
<1>1. ASSUME NEW w \in Workers, SweepStart(w) PROVE [Slots!SlotsNext]_(Slots!slotvars)
  <2>1. UNCHANGED <<conn, enqueued>> /\ (overlap' = overlap \/ overlap')
    BY <1>0, <1>1 DEF SweepStart
  <2> QED
    BY <2>1 DEF Slots!SlotsNext, Slots!Cross, Slots!slotvars
<1>2. ASSUME NEW w \in Workers, SweepDedup(w) \/ SweepNotify(w) \/ PullStep(w) \/ TaskDies(w)
      PROVE  [Slots!SlotsNext]_(Slots!slotvars)
  <2>1. UNCHANGED <<conn, enqueued, overlap>>
    BY <1>2 DEF SweepDedup, SweepNotify, TaskDies, PullStep, PullStart, PullRecordsFailure,
                PullNotify, PullRaises, PullCreates, MarkRunning, PipelineLoads, PipelineEnds
  <2> QED
    BY <2>1 DEF Slots!slotvars
<1>3. CASE Tick
  <2>1. /\ conn.due < MaxSlot /\ conn'.due = conn.due + 1 /\ conn'.last = conn.last
        /\ UNCHANGED <<enqueued, overlap>>
    BY <1>0, <1>3 DEF Tick, Connection
  <2>2. Slots!ComeDue
    BY <2>1 DEF Slots!ComeDue
  <2> QED
    BY <2>2 DEF Slots!SlotsNext
<1>4. ASSUME NEW s \in {"on", "paused", "deleted"}, SetSchedule(s)
      PROVE  [Slots!SlotsNext]_(Slots!slotvars)
  BY <1>0, <1>4 DEF SetSchedule, Connection, Slots!slotvars
<1>5. CASE \/ Beat \/ ApiRestart \/ UserStep \/ \E i \in 1..MaxRuns : Age(i)
           \/ UNCHANGED vars
  <2>1. UNCHANGED <<conn, enqueued, overlap>>
    BY <1>5 DEF Beat, ApiRestart, UserStep, ManualPull, UserRun, UserRunEnds, UserDelete,
                GetFlips, Age, vars
  <2> QED
    BY <2>1 DEF Slots!slotvars
<1> QED
  BY <1>1, <1>2, <1>3, <1>4, <1>5, AdvancePromise, EnqueuePromise DEF Next, SweepStep

\* _sweep_async and the tasks around it implement the promise of its comments,
\* for any number of processes, instants and rows: every step is one of the
\* promise, or changes nothing of it.
THEOREM PromiseIsKept == Spec => SweepsKeepThePromise
<1>1. Init => ScheduleInv
  BY InitType, InitSweep DEF ScheduleInv
<1>2. ScheduleInv /\ [Next]_vars => ScheduleInv'
  BY NextType, NextSweep DEF ScheduleInv
<1>3. Init => Slots!SlotsInit
  BY InitPromise
<1>4. ScheduleInv /\ [Next]_vars => [Slots!SlotsNext]_(Slots!slotvars)
  BY NextPromise
<1> QED
  BY <1>1, <1>2, <1>3, <1>4, PTL DEF Spec, SweepsKeepThePromise, Slots!SlotsSpec

----------------------------------------------------------------------------
(***************************************************************************)
(* The notices.  Any number of processes and rows: what must not happen is *)
(* that two processes are about to look at the streak at once, and that    *)
(* the window of connection_health hides a failure of a streak that is not *)
(* past the threshold (Undivided).  A streak that was noticed is then as   *)
(* long as the threshold, and longer by the time a process looks at it     *)
(* again, unless what that process flipped is not of it (NoticeInv).       *)
(***************************************************************************)
Refused(rs) == {i \in Live(rs) : rs[i].trigger = "scheduled" /\ rs[i].status = "failed"}
Ended(rs) == {i \in Live(rs) : rs[i].trigger = "scheduled" /\ rs[i].status = "completed"}

\* The streak, had connection_health no window.
AllFailing(rs) == {i \in Refused(rs) : \A j \in Ended(rs) : j < i}
Length(rs) == Cardinality(AllFailing(rs))

Looking(w) == At(w, "failed") \/ At(w, "flipped")
Alone == \A v, w \in Workers : Looking(v) /\ Looking(w) => v = w
Seen == Streak(runs) > NotifyAt \/ Failing(runs) = AllFailing(runs)
Undivided == Alone /\ Seen

\* A process is about to look at the streak after it has made it longer.
Longer(w) == At(w, "failed") \/ (At(w, "flipped") /\ worker[w].row \in AllFailing(runs))

NoticeInv(w) ==
    noticed > 0 => Length(runs) >= NotifyAt /\ (Longer(w) => Length(runs) > NotifyAt)

LEMMA RowsFinite ==
    ASSUME NEW rs \in Seq(Run)
    PROVE  /\ DOMAIN rs = 1..Len(rs) /\ Len(rs) \in Nat
           /\ IsFiniteSet(1..Len(rs)) /\ Cardinality(1..Len(rs)) = Len(rs)
<1> DEFINE n == Len(rs)
<1>1. DOMAIN rs = 1..n /\ n \in Nat
  OBVIOUS
<1> HIDE DEF n
<1>2. n \in Int /\ 1 \in Int
  BY <1>1
<1>3. IsFiniteSet(1..n)
  BY <1>2, FS_Interval
<1>4. Cardinality(1..n) = IF 1 > n THEN 0 ELSE n - 1 + 1
  BY <1>2, FS_Interval
<1>5. Cardinality(1..n) = n
  BY <1>1, <1>4
<1> QED
  BY <1>1, <1>3, <1>5 DEF n

LEMMA AllFailingType ==
    ASSUME NEW rs \in Seq(Run)
    PROVE  /\ AllFailing(rs) \subseteq DOMAIN rs /\ IsFiniteSet(AllFailing(rs))
           /\ Length(rs) = Cardinality(AllFailing(rs)) /\ Length(rs) \in Nat
<1>1. AllFailing(rs) \subseteq DOMAIN rs
  BY DEF AllFailing, Refused, Live
<1>2. IsFiniteSet(AllFailing(rs))
  BY <1>1, RowsFinite, FS_Subset
<1> QED
  BY <1>1, <1>2, FS_CardinalityType DEF Length

\* A row in the window has the later ones in it: the window only cuts.
LEMMA WindowCuts ==
    ASSUME NEW rs \in Seq(Run)
    PROVE  Failing(rs) \subseteq AllFailing(rs) /\ Streak(rs) \in Nat /\ Streak(rs) <= Length(rs)
<1> DEFINE later(i) == {j \in Live(rs) : j > i}
           newest == {i \in Live(rs) : Cardinality(later(i)) < HealthWindow}
           counted == {i \in newest : /\ rs[i].trigger = "scheduled"
                                      /\ rs[i].status \in {"failed", "completed"}}
<1>1. DOMAIN rs = 1..Len(rs) /\ Len(rs) \in Nat /\ Live(rs) \subseteq 1..Len(rs)
  BY RowsFinite DEF Live
<1>2. Failing(rs) = {i \in counted : \A j \in counted : j >= i => rs[j].status = "failed"}
  BY DEF Failing
<1>3. ASSUME NEW i \in newest, NEW j \in Live(rs), j >= i PROVE j \in newest
  <2>1. later(j) \subseteq later(i) /\ later(i) \subseteq 1..Len(rs)
    BY <1>1, <1>3
  <2> HIDE DEF later
  <2>2. IsFiniteSet(later(i))
    BY <2>1, RowsFinite, FS_Subset
  <2>3. IsFiniteSet(later(j)) /\ Cardinality(later(j)) <= Cardinality(later(i))
    BY <2>1, <2>2, FS_Subset
  <2>4. Cardinality(later(i)) \in Nat /\ Cardinality(later(j)) \in Nat
    BY <2>2, <2>3, FS_CardinalityType
  <2>5. Cardinality(later(i)) < HealthWindow
    OBVIOUS
  <2> QED
    BY <2>3, <2>4, <2>5, SettingsAssumption
<1> HIDE DEF newest
<1>4. ASSUME NEW i \in Failing(rs) PROVE i \in AllFailing(rs)
  <2>1. i \in counted /\ i \in newest /\ \A j \in counted : j >= i => rs[j].status = "failed"
    BY <1>2, <1>4
  <2>2. i \in Live(rs) /\ i \in Int
    BY <1>1, <2>1 DEF newest
  <2>3. i >= i
    BY <2>2
  <2>4. i \in Refused(rs)
    BY <2>1, <2>2, <2>3 DEF Refused
  <2>5. ASSUME NEW j \in Ended(rs) PROVE j < i
    <3>1. j \in Live(rs) /\ j \in Int /\ rs[j].trigger = "scheduled" /\ rs[j].status = "completed"
      BY <1>1 DEF Ended
    <3> SUFFICES ASSUME j >= i PROVE FALSE
      BY <2>2, <3>1
    <3>2. j \in newest
      BY <1>3, <2>1, <3>1
    <3>3. j \in counted
      BY <3>1, <3>2
    <3> QED
      BY <2>1, <3>1, <3>3
  <2> QED
    BY <2>4, <2>5 DEF AllFailing
<1>5. IsFiniteSet(AllFailing(rs)) /\ Failing(rs) \subseteq AllFailing(rs)
  BY <1>4, AllFailingType
<1>6. IsFiniteSet(Failing(rs)) /\ Cardinality(Failing(rs)) <= Cardinality(AllFailing(rs))
  BY <1>5, FS_Subset
<1> QED
  BY <1>5, <1>6, FS_CardinalityType DEF Streak, Length

\* What one row more and none less makes of the length.
LEMMA LengthGrows ==
    ASSUME NEW rs \in Seq(Run), NEW ts \in Seq(Run), AllFailing(rs) \subseteq AllFailing(ts)
    PROVE  /\ Length(rs) <= Length(ts)
           /\ \A r \in AllFailing(ts) : r \notin AllFailing(rs) => Length(rs) < Length(ts)
<1> DEFINE F == AllFailing(rs)
           G == AllFailing(ts)
<1>1. IsFiniteSet(F) /\ IsFiniteSet(G) /\ Length(rs) = Cardinality(F) /\ Length(ts) = Cardinality(G)
  BY AllFailingType
<1>2. Length(rs) \in Nat /\ Length(ts) \in Nat
  BY AllFailingType
<1>3. F \subseteq G
  OBVIOUS
<1> HIDE DEF F, G
<1>4. Length(rs) <= Length(ts)
  BY <1>1, <1>3, FS_Subset
<1>5. ASSUME NEW r \in G, r \notin F PROVE Length(rs) < Length(ts)
  <2>1. F \subseteq G \ {r}
    BY <1>3, <1>5
  <2>2. IsFiniteSet(G \ {r}) /\ Cardinality(G \ {r}) = Cardinality(G) - 1
    BY <1>1, <1>5, FS_RemoveElement
  <2>3. Cardinality(F) <= Cardinality(G \ {r})
    BY <2>1, <2>2, FS_Subset
  <2> QED
    BY <1>1, <1>2, <2>2, <2>3
<1> QED
  BY <1>4, <1>5 DEF F, G

\* One row that is rewritten adds rows to the streak or takes some from it.
LEMMA OneRowRewritten ==
    ASSUME NEW rs \in Seq(Run), NEW ts \in Seq(Run), DOMAIN rs = DOMAIN ts,
           NEW k, \A i \in DOMAIN rs \ {k} : ts[i] = rs[i]
    PROVE  AllFailing(rs) \subseteq AllFailing(ts) \/ AllFailing(ts) \subseteq AllFailing(rs)
<1>1. \A i : i # k => (i \in Refused(rs) <=> i \in Refused(ts)) /\ (i \in Ended(rs) <=> i \in Ended(ts))
  BY DEF Refused, Ended, Live
<1>2. k \notin Refused(rs) \cap Ended(rs) /\ k \notin Refused(ts) \cap Ended(ts)
  BY DEF Refused, Ended
<1>3. CASE k \in Refused(ts)
  BY <1>1, <1>2, <1>3 DEF AllFailing
<1>4. CASE k \notin Refused(ts) /\ k \in Ended(ts)
  BY <1>1, <1>2, <1>4 DEF AllFailing
<1>5. CASE k \notin Refused(ts) /\ k \notin Ended(ts) /\ k \in Refused(rs)
  BY <1>1, <1>2, <1>5 DEF AllFailing
<1>6. CASE k \notin Refused(ts) /\ k \notin Ended(ts) /\ k \notin Refused(rs)
  BY <1>1, <1>6 DEF AllFailing
<1> QED
  BY <1>3, <1>4, <1>5, <1>6

\* A row that is added counts if it is a failure, and takes none from the streak.
LEMMA OneRowAdded ==
    ASSUME NEW rs \in Seq(Run),
           NEW trigger \in {"manual", "scheduled"}, NEW status \in {"pending", "failed"}
    PROVE  LET ts == Append(rs, NewRun(trigger, status))
           IN  /\ AllFailing(rs) \subseteq AllFailing(ts)
               /\ trigger = "scheduled" /\ status = "failed" =>
                    \E r \in AllFailing(ts) : r \notin AllFailing(rs)
<1> DEFINE new == NewRun(trigger, status)
           ts == Append(rs, new)
           n == Len(rs) + 1
<1>1. new \in Run /\ new.trigger = trigger /\ new.status = status /\ new.deleted = FALSE
  BY NewRunType DEF NewRun, Statuses
<1>2. DOMAIN rs = 1..Len(rs) /\ Len(rs) \in Nat
  BY RowsFinite
<1>3. ts \in Seq(Run) /\ Len(ts) = n /\ ts[n] = new /\ \A i \in 1..Len(rs) : ts[i] = rs[i]
  BY <1>1, <1>2
<1>4. DOMAIN ts = 1..n
  BY <1>3, RowsFinite
<1> HIDE DEF new, ts
<1>5. Live(ts) = Live(rs) \cup {n} /\ n \notin Live(rs) /\ \A i \in Live(rs) : i \in 1..Len(rs)
  BY <1>1, <1>2, <1>3, <1>4 DEF Live
<1>6. Ended(ts) = Ended(rs)
  BY <1>1, <1>3, <1>5 DEF Ended
<1>7. Refused(rs) \subseteq Refused(ts)
  BY <1>3, <1>5 DEF Refused
<1>8. AllFailing(rs) \subseteq AllFailing(ts)
  BY <1>6, <1>7 DEF AllFailing
<1>9. ASSUME trigger = "scheduled", status = "failed" PROVE n \in AllFailing(ts) /\ n \notin AllFailing(rs)
  <2>1. n \in Refused(ts)
    BY <1>1, <1>3, <1>5, <1>9 DEF Refused
  <2>2. \A j \in Ended(rs) : j < n
    BY <1>2, <1>5 DEF Ended
  <2> QED
    BY <1>5, <1>6, <2>1, <2>2 DEF AllFailing, Refused
<1> QED
  BY <1>8, <1>9 DEF ts, new


\* Steps that do not look at the streak, and what is known of those that change
\* it: rows are added to it and the history stays, or the history is reckoned.
RowsMove ==
    \/ AllFailing(runs) \subseteq AllFailing(runs') /\ noticed' = noticed
    \/ /\ AllFailing(runs) \subseteq AllFailing(runs') \/ AllFailing(runs') \subseteq AllFailing(runs)
       /\ Reckon

\* Whoever is about to look was so before, or one more row is of the streak.
LooksAtMore(w) == Longer(w)' => Longer(w) \/ \E r \in AllFailing(runs') : r \notin AllFailing(runs)

LEMMA NoticeKept ==
    ASSUME TypeOK, TypeOK', Seen, NEW w \in Workers, NoticeInv(w), RowsMove, LooksAtMore(w)
    PROVE  NoticeInv(w)'
<1> SUFFICES ASSUME noticed' > 0
             PROVE  Length(runs') >= NotifyAt /\ (Longer(w)' => Length(runs') > NotifyAt)
  BY DEF NoticeInv
<1>1. runs \in Seq(Run) /\ runs' \in Seq(Run) /\ NotifyAt \in Nat
  BY SettingsAssumption DEF TypeOK
<1>2. /\ Length(runs) \in Nat /\ Length(runs') \in Nat
      /\ Streak(runs) \in Nat /\ Streak(runs) <= Length(runs)
      /\ Streak(runs') \in Nat /\ Streak(runs') <= Length(runs')
  BY <1>1, AllFailingType, WindowCuts
<1>3. noticed > 0 /\ (Reckon => Streak(runs') >= Streak(runs))
  BY <1>2 DEF RowsMove, Reckon
<1>4. Length(runs) >= NotifyAt /\ (Longer(w) => Length(runs) > NotifyAt)
  BY <1>3 DEF NoticeInv
<1>5. CASE AllFailing(runs) \subseteq AllFailing(runs')
  BY <1>1, <1>2, <1>4, <1>5, LengthGrows DEF LooksAtMore
<1>6. CASE Reckon /\ AllFailing(runs') \subseteq AllFailing(runs) /\ AllFailing(runs') # AllFailing(runs)
  <2>1. Length(runs') < Length(runs)
    BY <1>1, <1>6, LengthGrows
  <2>2. Streak(runs) # Length(runs)
    BY <1>2, <1>3, <1>6, <2>1
  <2>3. Streak(runs) > NotifyAt
    BY <2>2 DEF Seen, Streak, Length
  <2> QED
    BY <1>1, <1>2, <1>3, <1>6, <2>3
<1> QED
  BY <1>5, <1>6 DEF RowsMove

\* A look at the streak tells of it when it is as long as the threshold.
LEMMA LookKeepsNotice ==
    ASSUME TypeOK, Seen, NEW w \in Workers, NoticeInv(w), Notify, runs' = runs, ~Longer(w)'
    PROVE  NoticeInv(w)'
<1>1. noticed \in 0..2 /\ NotifyAt \in Nat /\ Length(runs) \in Nat /\ Streak(runs) \in Nat
  BY AllFailingType, WindowCuts, SettingsAssumption DEF TypeOK
<1>2. NoticeDue => Length(runs) >= NotifyAt
  BY <1>1 DEF NoticeDue, Seen, Streak, Length
<1> QED
  BY <1>1, <1>2 DEF NoticeInv, Notify

LEMMA RewrittenRow ==
    ASSUME TypeOK, TypeOK', NEW i, NEW r, runs' = [runs EXCEPT ![i] = r], Reckon
    PROVE  RowsMove
<1>1. runs \in Seq(Run) /\ runs' \in Seq(Run)
  BY DEF TypeOK
<1>2. DOMAIN runs' = DOMAIN runs /\ \A j \in DOMAIN runs \ {i} : runs'[j] = runs[j]
  BY <1>1
<1> QED
  BY <1>1, <1>2, OneRowRewritten DEF RowsMove

LEMMA SetStatusRow ==
    ASSUME TypeOK, TypeOK', NEW i, NEW status, SetStatus(i, status)
    PROVE  RowsMove
<1>1. runs' = [runs EXCEPT ![i] = [runs[i] EXCEPT !.status = status, !.aged = FALSE]]
  BY DEF SetStatus
<1> QED
  BY <1>1, RewrittenRow DEF SetStatus

\* Ageing and restarts do not touch what the streak is counted from.
LEMMA SameRows ==
    ASSUME DOMAIN runs' = DOMAIN runs, noticed' = noticed,
           \A i \in DOMAIN runs : /\ runs'[i].trigger = runs[i].trigger
                                  /\ runs'[i].status = runs[i].status
                                  /\ runs'[i].deleted = runs[i].deleted
    PROVE  RowsMove
<1>1. Live(runs') = Live(runs)
  BY DEF Live
<1>2. Refused(runs') = Refused(runs) /\ Ended(runs') = Ended(runs)
  BY <1>1 DEF Refused, Ended, Live
<1> QED
  BY <1>2 DEF AllFailing, RowsMove

LEMMA InitNotice == ASSUME Init, NEW w \in Workers PROVE NoticeInv(w)
  BY DEF Init, NoticeInv

\* What a process does to the rows, and what it is about to look at then.
ProcessMoves(w) ==
    /\ RowsMove \/ (Looking(w) /\ Notify /\ runs' = runs /\ ~Longer(w)')
    /\ LooksAtMore(w)
    /\ \A v \in Workers \ {w} : worker'[v] = worker[v]

LEMMA SweepMoves ==
    ASSUME TypeOK, TypeOK', NEW w \in Workers, SweepStep(w)
    PROVE  ProcessMoves(w)
<1>0. worker \in [Workers -> Process]
  BY DEF TypeOK
<1>1. \A v \in Workers \ {w} : worker'[v] = worker[v]
  BY <1>0 DEF SweepStep, SweepStart, SweepDedup, SweepNotify, SweepAdvance, SweepEnqueue, Goto, EndTask
<1>2. ASSUME NEW pc \in {"idle", "dedup", "advance", "enqueue"}, worker'[w].pc = pc
      PROVE  ~Longer(w)'
  BY <1>2 DEF Longer, At
<1>3. ASSUME UNCHANGED <<runs, noticed>> PROVE RowsMove
  BY <1>3 DEF RowsMove
<1>4. CASE SweepStart(w)
  <2>1. Longer(w)' => Longer(w)
    BY <1>0, <1>4 DEF SweepStart, Longer, At, Process
  <2> QED
    BY <1>1, <1>3, <1>4, <2>1 DEF SweepStart, ProcessMoves, LooksAtMore
<1>5. CASE SweepDedup(w)
  <2>1. CASE Goto(w, "advance") /\ UNCHANGED <<runs, noticed>>
    <3>1. ~Longer(w)'
      BY <1>0, <1>2, <2>1 DEF Goto, Process
    <3> QED
      BY <1>1, <1>3, <2>1, <3>1 DEF ProcessMoves, LooksAtMore
  <2>2. CASE EndTask(w) /\ UNCHANGED <<runs, noticed>>
    <3>1. ~Longer(w)'
      BY <1>0, <1>2, <2>2 DEF EndTask, IdleProcess
    <3> QED
      BY <1>1, <1>3, <2>2, <3>1 DEF ProcessMoves, LooksAtMore
  <2>3. ASSUME NEW i \in Running, SetStatus(i, "failed"),
               worker' = [worker EXCEPT ![w].pc = "flipped", ![w].row = i]
        PROVE  ProcessMoves(w)
    <3>1. worker'[w].pc = "flipped" /\ worker'[w].row = i
      BY <1>0, <2>3 DEF Process
    <3>2. i \notin AllFailing(runs)
      BY DEF Running, AllFailing, Refused
    <3>3. Longer(w)' => i \in AllFailing(runs')
      BY <3>1 DEF Longer, At
    <3> QED
      BY <1>1, <2>3, <3>2, <3>3, SetStatusRow DEF ProcessMoves, LooksAtMore
  <2> QED
    BY <1>5, <2>1, <2>2, <2>3 DEF SweepDedup
<1>6. CASE SweepNotify(w)
  <2>1. ~Longer(w)'
    BY <1>0, <1>2, <1>6 DEF SweepNotify, Goto, Process
  <2> QED
    BY <1>1, <1>6, <2>1 DEF SweepNotify, ProcessMoves, LooksAtMore, Looking
<1>7. CASE SweepAdvance(w)
  <2>1. ~Longer(w)'
    BY <1>0, <1>2, <1>7 DEF SweepAdvance, Goto, Process
  <2> QED
    BY <1>1, <1>3, <1>7, <2>1 DEF SweepAdvance, ProcessMoves, LooksAtMore
<1>8. CASE SweepEnqueue(w)
  <2>1. ~Longer(w)'
    BY <1>0, <1>2, <1>8 DEF SweepEnqueue, EndTask, IdleProcess
  <2> QED
    BY <1>1, <1>3, <1>8, <2>1 DEF SweepEnqueue, ProcessMoves, LooksAtMore
<1> QED
  BY <1>4, <1>5, <1>6, <1>7, <1>8 DEF SweepStep

LEMMA PullMoves ==
    ASSUME TypeOK, TypeOK', NEW w \in Workers, PullStep(w) \/ TaskDies(w)
    PROVE  ProcessMoves(w)
<1>0. worker \in [Workers -> Process] /\ runs \in Seq(Run)
  BY DEF TypeOK
<1>1. \A v \in Workers \ {w} : worker'[v] = worker[v]
  BY <1>0 DEF PullStep, PullStart, PullRecordsFailure, PullNotify, PullRaises, PullCreates,
     MarkRunning, PipelineLoads, PipelineEnds, TaskDies, Goto, EndTask
<1>2. ASSUME NEW pc \in Pulling \ {"failed"}, Goto(w, pc) PROVE ~Longer(w)'
  BY <1>0, <1>2 DEF Longer, At, Goto, Process, Pulling
<1>3. ASSUME EndTask(w) PROVE ~Longer(w)'
  BY <1>0, <1>3 DEF Longer, At, EndTask, IdleProcess
<1>4. ASSUME UNCHANGED <<runs, noticed>> PROVE RowsMove
  BY <1>4 DEF RowsMove
<1>5. CASE PullStart(w)
  <2>1. Longer(w)' => Longer(w)
    BY <1>2, <1>5 DEF PullStart, Pulling, Longer, At
  <2> QED
    BY <1>1, <1>4, <1>5, <2>1 DEF PullStart, ProcessMoves, LooksAtMore
<1>6. CASE PullRecordsFailure(w)
  <2>1. runs' = Append(runs, NewRun("scheduled", "failed")) /\ noticed' = noticed
    BY <1>6 DEF PullRecordsFailure, FailedRecord
  <2>2. AllFailing(runs) \subseteq AllFailing(runs') /\ \E r \in AllFailing(runs') : r \notin AllFailing(runs)
    BY <1>0, <2>1, OneRowAdded
  <2> QED
    BY <1>1, <2>1, <2>2 DEF ProcessMoves, LooksAtMore, RowsMove
<1>7. CASE PullNotify(w)
  BY <1>1, <1>3, <1>7 DEF PullNotify, ProcessMoves, LooksAtMore, Looking
<1>8. CASE PullRaises(w) \/ TaskDies(w)
  BY <1>1, <1>3, <1>4, <1>8 DEF PullRaises, TaskDies, ProcessMoves, LooksAtMore
<1>9. CASE PullCreates(w)
  <2>1. runs' = Append(runs, NewRun("scheduled", "pending")) /\ noticed' = noticed
    BY <1>9 DEF PullCreates
  <2>2. AllFailing(runs) \subseteq AllFailing(runs')
    BY <1>0, <2>1, OneRowAdded
  <2>3. ~Longer(w)'
    BY <1>0, <1>9 DEF PullCreates, Longer, At, Process
  <2> QED
    BY <1>1, <2>1, <2>2, <2>3 DEF ProcessMoves, LooksAtMore, RowsMove
<1>10. CASE MarkRunning(w)
  <2>1. ~Longer(w)'
    BY <1>2, <1>10 DEF MarkRunning, Pulling
  <2> QED
    BY <1>1, <1>10, <2>1, SetStatusRow DEF MarkRunning, ProcessMoves, LooksAtMore
<1>11. CASE PipelineLoads(w)
  BY <1>1, <1>2, <1>3, <1>4, <1>11 DEF PipelineLoads, Pulling, ProcessMoves, LooksAtMore
<1>12. CASE PipelineEnds(w)
  BY <1>1, <1>3, <1>12, SetStatusRow DEF PipelineEnds, ProcessMoves, LooksAtMore
<1> QED
  BY <1>5, <1>6, <1>7, <1>8, <1>9, <1>10, <1>11, <1>12 DEF PullStep

LEMMA ApiMoves ==
    ASSUME TypeOK, TypeOK', UserStep \/ ApiRestart \/ \E i \in 1..MaxRuns : Age(i)
    PROVE  RowsMove
<1>0. runs \in Seq(Run)
  BY DEF TypeOK
<1>1. CASE ManualPull
  <2>1. runs' = Append(runs, NewRun("manual", "pending")) /\ noticed' = noticed
    BY <1>1 DEF ManualPull
  <2> QED
    BY <1>0, <2>1, OneRowAdded DEF RowsMove
<1>2. ASSUME NEW i \in 1..MaxRuns, UserRun(i) PROVE RowsMove
  <2>1. runs' = [runs EXCEPT ![i] = [runs[i] EXCEPT !.status = "running", !.aged = FALSE,
                                                    !.api = TRUE]]
    BY <1>2 DEF UserRun
  <2> QED
    BY <1>2, <2>1, RewrittenRow DEF UserRun
<1>3. ASSUME NEW i \in 1..MaxRuns, NEW outcome, UserRunEnds(i, outcome) PROVE RowsMove
  <2>1. runs' = [runs EXCEPT ![i] = [runs[i] EXCEPT !.status = outcome, !.aged = FALSE,
                                                    !.api = FALSE]]
    BY <1>3 DEF UserRunEnds
  <2> QED
    BY <1>3, <2>1, RewrittenRow DEF UserRunEnds
<1>4. ASSUME NEW i \in 1..MaxRuns, UserDelete(i) PROVE RowsMove
  <2>1. runs' = [runs EXCEPT ![i] = [runs[i] EXCEPT !.deleted = TRUE, !.aged = FALSE]]
    BY <1>4 DEF UserDelete
  <2> QED
    BY <1>4, <2>1, RewrittenRow DEF UserDelete
<1>5. ASSUME NEW i \in 1..MaxRuns, GetFlips(i) PROVE RowsMove
  BY <1>5, SetStatusRow DEF GetFlips
<1>6. CASE ApiRestart \/ \E i \in 1..MaxRuns : Age(i)
  <2>1. noticed' = noticed /\ DOMAIN runs' = DOMAIN runs
    BY <1>6 DEF ApiRestart, Age
  <2>2. \A i \in DOMAIN runs : runs[i] \in Run
    BY <1>0
  <2>3. ASSUME NEW j \in DOMAIN runs
        PROVE  \/ runs'[j] = runs[j]
               \/ runs'[j] = [runs[j] EXCEPT !.api = FALSE]
               \/ runs'[j] = [runs[j] EXCEPT !.aged = TRUE]
    <3>1. CASE ApiRestart
      BY <3>1 DEF ApiRestart
    <3>2. ASSUME NEW i \in 1..MaxRuns, Age(i)
          PROVE  runs'[j] = runs[j] \/ runs'[j] = [runs[j] EXCEPT !.aged = TRUE]
      <4>1. runs' = [runs EXCEPT ![i] = [runs[i] EXCEPT !.aged = TRUE]]
        BY <3>2 DEF Age
      <4> QED
        BY <4>1
    <3> QED
      BY <1>6, <3>1, <3>2
  <2>4. \A j \in DOMAIN runs : /\ runs'[j].trigger = runs[j].trigger
                               /\ runs'[j].status = runs[j].status
                               /\ runs'[j].deleted = runs[j].deleted
    BY <2>2, <2>3 DEF Run
  <2> QED
    BY <2>1, <2>4, SameRows
<1> QED
  BY <1>1, <1>2, <1>3, <1>4, <1>5, <1>6 DEF UserStep

\* A step of one process leaves the others where they are; and while it looks
\* no other is about to.
LEMMA NextNotice ==
    ASSUME TypeOK, TypeOK', Undivided, NEW w \in Workers, NoticeInv(w), [Next]_vars
    PROVE  NoticeInv(w)'
<1>0. Seen
  BY DEF Undivided
<1>1. ASSUME NEW v \in Workers, SweepStep(v) \/ PullStep(v) \/ TaskDies(v) PROVE NoticeInv(w)'
  <2>1. ProcessMoves(v)
    BY <1>1, SweepMoves, PullMoves
  <2>2. LooksAtMore(w)
    <3>1. CASE v = w
      BY <2>1, <3>1 DEF ProcessMoves
    <3>2. CASE v # w
      BY <2>1, <3>2 DEF ProcessMoves, LooksAtMore, Longer, At
    <3> QED
      BY <3>1, <3>2
  <2>3. CASE RowsMove
    BY <1>0, <2>2, <2>3, NoticeKept
  <2>4. CASE Looking(v) /\ Notify /\ runs' = runs /\ ~Longer(v)'
    <3>1. CASE v = w
      BY <1>0, <2>4, <3>1, LookKeepsNotice
    <3>2. CASE v # w
      <4>1. ~Looking(w)
        BY <2>4, <3>2 DEF Undivided, Alone
      <4>2. worker'[w] = worker[w]
        BY <2>1, <3>2 DEF ProcessMoves
      <4>3. ~Longer(w)'
        BY <4>1, <4>2 DEF Looking, Longer, At
      <4> QED
        BY <1>0, <2>4, <4>3, LookKeepsNotice
    <3> QED
      BY <3>1, <3>2
  <2> QED
    BY <2>1, <2>3, <2>4 DEF ProcessMoves
<1>2. CASE UserStep \/ ApiRestart \/ \E i \in 1..MaxRuns : Age(i)
  <2>1. UNCHANGED worker
    BY <1>2 DEF UserStep, ManualPull, UserRun, UserRunEnds, UserDelete, GetFlips, Age, ApiRestart
  <2>2. LooksAtMore(w)
    BY <2>1 DEF LooksAtMore, Longer, At
  <2> QED
    BY <1>0, <1>2, <2>2, ApiMoves, NoticeKept
<1>3. CASE Beat \/ Tick \/ (\E s \in {"on", "paused", "deleted"} : SetSchedule(s)) \/ UNCHANGED vars
  <2>1. UNCHANGED <<runs, worker, noticed>>
    BY <1>3 DEF Beat, Tick, SetSchedule, vars
  <2> QED
    BY <2>1 DEF NoticeInv, Longer, At
<1> QED
  BY <1>1, <1>2, <1>3 DEF Next

\* A process that tells of a streak again has flipped a run outside it.
LEMMA SecondNotice ==
    ASSUME TypeOK, Undivided, \A w \in Workers : NoticeInv(w), [Next]_vars,
           noticed < 2, noticed' = 2
    PROVE  \E w \in Workers : At(w, "flipped") /\ worker[w].row \notin Failing(runs)
<1>0. /\ noticed \in 0..2 /\ NotifyAt \in Nat
      /\ Streak(runs) \in Nat /\ Failing(runs) \subseteq AllFailing(runs)
  BY WindowCuts, SettingsAssumption DEF TypeOK
<1>1. ~Reckon /\ noticed' # noticed
  BY <1>0 DEF Reckon
<1>2. PICK w \in Workers : SweepNotify(w) \/ PullNotify(w)
  BY <1>1 DEF Next, vars, SweepStep, PullStep, UserStep, SweepStart, SweepDedup, SweepAdvance,
       SweepEnqueue, SetStatus, PullStart, PullRecordsFailure, PullRaises, PullCreates,
       MarkRunning, PipelineLoads, PipelineEnds, TaskDies, Beat, Tick, ApiRestart, Age,
       SetSchedule, ManualPull, UserRun, UserRunEnds, UserDelete, GetFlips
<1>3. Notify /\ (At(w, "flipped") \/ At(w, "failed"))
  BY <1>2 DEF SweepNotify, PullNotify
<1>4. noticed > 0 /\ Streak(runs) = NotifyAt
  BY <1>0, <1>1, <1>3 DEF Notify, NoticeDue, OneMore
<1>5. Failing(runs) = AllFailing(runs)
  BY <1>0, <1>4 DEF Undivided, Seen
<1>6. Length(runs) = NotifyAt
  BY <1>4, <1>5 DEF Streak, Length
<1>7. ~Longer(w)
  BY <1>0, <1>4, <1>6 DEF NoticeInv
<1> QED
  BY <1>0, <1>3, <1>7 DEF Longer

NoticesInv == TypeOK /\ \A w \in Workers : NoticeInv(w)

\* tasks.py tells the administrators of a streak when it is exactly two long.
\* For any threshold, number of processes and rows and mixture of failures, a
\* streak is told of again only after a sweep has flipped a run that the streak
\* does not count, as long as no two processes look at the streak at once and
\* connection_health sees all of a streak up to the threshold.
THEOREM NoticesGoOutOnce == Spec /\ []Undivided => OneNoticePerStreak
<1>1. Init => NoticesInv
  BY InitType, InitNotice DEF NoticesInv
<1>2. NoticesInv /\ Undivided /\ [Next]_vars => NoticesInv'
  BY NextType, NextNotice DEF NoticesInv
<1>3. NoticesInv /\ Undivided /\ [Next]_vars =>
          [noticed < 2 /\ noticed' = 2 =>
               \E w \in Workers : At(w, "flipped") /\ worker[w].row \notin Failing(runs)]_vars
  BY SecondNotice DEF NoticesInv
<1> QED
  BY <1>1, <1>2, <1>3, PTL DEF Spec, OneNoticePerStreak

\* No more rows than connection_health looks at: its window holds the streak.
LEMMA WindowOfAll ==
    ASSUME NEW rs \in Seq(Run), Len(rs) <= MaxRuns, MaxRuns <= HealthWindow
    PROVE  Failing(rs) = AllFailing(rs)
<1>1. DOMAIN rs = 1..Len(rs) /\ Len(rs) \in Nat /\ Live(rs) \subseteq 1..Len(rs)
  BY RowsFinite DEF Live
<1> DEFINE later(i) == {j \in Live(rs) : j > i}
<1>2. ASSUME NEW i \in Live(rs) PROVE Cardinality(later(i)) < HealthWindow
  <2> DEFINE S == (1..Len(rs)) \ {i}
             c == Cardinality(later(i))
             n == Len(rs)
  <2>1. later(i) \subseteq S
    BY <1>1
  <2>2. IsFiniteSet(S) /\ Cardinality(S) = Len(rs) - 1
    BY <1>1, <1>2, RowsFinite, FS_RemoveElement
  <2> HIDE DEF S, later
  <2>3. c <= Cardinality(S) /\ c \in Nat
    BY <2>1, <2>2, FS_Subset, FS_CardinalityType
  <2>4. n \in Nat /\ n <= MaxRuns /\ c <= n - 1
    BY <1>1, <2>2, <2>3
  <2> HIDE DEF c, n
  <2>5. c < HealthWindow
    BY <2>3, <2>4, BoundAssumption, SettingsAssumption
  <2> QED
    BY <2>5 DEF c
<1> DEFINE newest == {i \in Live(rs) : Cardinality(later(i)) < HealthWindow}
           counted == {i \in newest : /\ rs[i].trigger = "scheduled"
                                      /\ rs[i].status \in {"failed", "completed"}}
<1>3. newest = Live(rs)
  BY <1>2
<1> HIDE DEF later
<1>4. counted = Refused(rs) \cup Ended(rs) /\ Refused(rs) \cap Ended(rs) = {}
  BY <1>3 DEF Refused, Ended
<1>5. Failing(rs) = {i \in counted : \A j \in counted : j >= i => rs[j].status = "failed"}
  BY DEF Failing, later
<1>6. counted \subseteq Int
  BY <1>1, <1>3
<1>7. \A j \in counted : rs[j].status = "failed" <=> j \notin Ended(rs)
  BY <1>4 DEF Refused, Ended
<1>8. \A i \in counted : rs[i].status = "failed" <=> i \in Refused(rs)
  BY <1>4, <1>7
<1> HIDE DEF counted, newest
<1>9. ASSUME NEW i \in counted, \A j \in counted : j >= i => rs[j].status = "failed"
      PROVE  i \in Refused(rs) /\ \A j \in Ended(rs) : j < i
  <2>1. i >= i
    BY <1>6, <1>9
  <2> QED
    BY <1>4, <1>6, <1>7, <1>8, <1>9, <2>1
<1>10. ASSUME NEW i \in Refused(rs), \A j \in Ended(rs) : j < i
       PROVE  i \in counted /\ \A j \in counted : j >= i => rs[j].status = "failed"
  BY <1>4, <1>6, <1>7, <1>10
<1> QED
  BY <1>5, <1>9, <1>10 DEF AllFailing

\* In particular one process, with no more rows than connection_health looks at,
\* never leaves that condition: the runs check an instance of this.
THEOREM OneProcessNotifiesOnce ==
    Spec /\ (\E p \in Workers : Workers = {p}) /\ MaxRuns <= HealthWindow => OneNoticePerStreak
<1> SUFFICES ASSUME \E p \in Workers : Workers = {p}, MaxRuns <= HealthWindow
             PROVE  Spec => OneNoticePerStreak
  OBVIOUS
<1>1. TypeOK => Undivided
  BY WindowOfAll DEF TypeOK, Undivided, Alone, Seen
<1> QED
  BY <1>1, TypeCorrect, NoticesGoOutOnce, PTL
=============================================================================
