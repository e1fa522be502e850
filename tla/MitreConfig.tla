---------------------------- MODULE MitreConfig -----------------------------
(***************************************************************************)
(* What administrators configure of the MITRE module: the schedule of a    *)
(* saved connection and the two confidence thresholds of an organisation   *)
(* (update_connection and patch_settings in app/mitre/router.py).          *)
(*                                                                         *)
(* Each PATCH checks what it would make of the values it read, then writes *)
(* only what changed; another PATCH may commit in between.  The schedule   *)
(* is one UPDATE, the thresholds are one upsert and commit each.           *)
(***************************************************************************)
EXTENDS Naturals

CONSTANTS
    Hours, Weekdays,  \* values of schedule_hour_utc and schedule_weekday
    Levels,           \* values of a threshold
    Patches           \* PATCHes in flight at a time

ASSUME LevelsAssumption == Levels \subseteq Nat

VARIABLES
    schedule,  \* schedule_cadence, schedule_hour_utc, schedule_weekday
    tunable,   \* confidence_partial_floor, confidence_covered
    patch,     \* PATCHes in flight
    frayed     \* history: rows last written by an overtaken PATCH, or by half

configvars == <<schedule, tunable, patch, frayed>>

NoPatch == [of |-> "none"]
NoSchedule == [cadence |-> "none", hour |-> "none", weekday |-> "none"]
Maybe(S) == S \cup {"none"}
Tunables == [floor : Levels, covered : Levels]

ConfigInit ==
    /\ schedule = NoSchedule
    /\ tunable \in Tunables /\ tunable.floor < tunable.covered    \* SETTING_DEFAULTS
    /\ patch = [r \in Patches |-> NoPatch] /\ frayed = {}

\* A PATCH has read and validated, and will write.
PatchReads(r, of, writes) ==
    /\ patch[r] = NoPatch
    /\ patch' = [patch EXCEPT ![r] = [of |-> of, writes |-> writes, overtaken |-> FALSE]]
    /\ UNCHANGED <<schedule, tunable, frayed>>

\* The columns or keys in writes, over the row.
Over(row, writes) == [f \in DOMAIN row |-> IF f \in DOMAIN writes THEN writes[f] ELSE row[f]]

\* A PATCH commits and has left to write; it overtakes those that have read.
PatchCommits(r, left) ==
    LET of == patch[r].of
        ends == DOMAIN left = {}
    IN  /\ patch' = [s \in Patches |->
              IF s = r THEN IF ends THEN NoPatch ELSE [patch[r] EXCEPT !.writes = left]
              ELSE IF patch[s].of = of THEN [patch[s] EXCEPT !.overtaken = TRUE] ELSE patch[s]]
        /\ frayed' = IF ends /\ ~patch[r].overtaken THEN frayed \ {of} ELSE frayed \cup {of}

----------------------------------------------------------------------------
(* update_connection *)

DayKept(want) == IF want.cadence = "none" THEN NoSchedule ELSE want
\* _apply_schedule_fields: no cadence clears the trio, daily clears the weekday.
Settled(want) ==
    CASE want.cadence = "none" -> NoSchedule
      [] want.cadence = "daily" -> [want EXCEPT !.weekday = "none"]
      [] want.cadence = "weekly" -> want

\* 422 otherwise
Accepted(want) ==
    want.cadence # "none" =>
        want.hour # "none" /\ (want.cadence = "weekly" => want.weekday # "none")

\* asked: the fields of the body.  The session writes the columns that changed.
PatchSchedule(r, asked) ==
    LET want == Over(schedule, asked)
        new == Settled(want)
    IN  /\ Accepted(want)
        /\ PatchReads(r, "schedule", [f \in {g \in DOMAIN new : new[g] # schedule[g]} |-> new[f]])

CommitSchedule(r) ==
    /\ patch[r].of = "schedule"
    /\ schedule' = Over(schedule, patch[r].writes)
    /\ PatchCommits(r, <<>>)
    /\ UNCHANGED tunable

----------------------------------------------------------------------------
(* patch_settings *)

PatchTunables(r, asked) ==
    LET merged == Over(tunable, asked)
    IN  /\ merged.floor < merged.covered    \* 422 otherwise
        /\ PatchReads(r, "tunables", asked)

\* set_mitre_setting commits each key, in the order of the body.
WriteTunable(r, key) ==
    LET writes == patch[r].writes
    IN  /\ patch[r].of = "tunables" /\ key \in DOMAIN writes
        /\ tunable' = [tunable EXCEPT ![key] = writes[key]]
        /\ PatchCommits(r, [k \in DOMAIN writes \ {key} |-> writes[k]])
        /\ UNCHANGED schedule

PatchDies(r) ==
    /\ patch[r] # NoPatch
    /\ patch' = [patch EXCEPT ![r] = NoPatch]
    /\ UNCHANGED <<schedule, tunable, frayed>>

\* Bodies: some of the fields, each with a value.
Bodies(values) ==
    UNION {{b \in [F -> UNION {values[f] : f \in F}] : \A f \in F : b[f] \in values[f]} :
              F \in (SUBSET DOMAIN values) \ {{}}}
ScheduleValues ==
    [cadence |-> Maybe({"daily", "weekly"}), hour |-> Maybe(Hours), weekday |-> Maybe(Weekdays)]
TunableValues == [floor |-> Levels, covered |-> Levels]

ConfigNext ==
    \E r \in Patches :
        \/ \E asked \in Bodies(ScheduleValues) : PatchSchedule(r, asked)
        \/ CommitSchedule(r)
        \/ \E asked \in Bodies(TunableValues) : PatchTunables(r, asked)
        \/ \E key \in {"floor", "covered"} : WriteTunable(r, key)
        \/ PatchDies(r)

ConfigSpec == ConfigInit /\ [][ConfigNext]_configvars

----------------------------------------------------------------------------
\* most_recent_due finds an instant
Fires == /\ schedule.cadence # "none" /\ schedule.hour # "none"
         /\ schedule.cadence = "weekly" => schedule.weekday # "none"

\* What each PATCH validates holds of what is stored: a schedule that is on
\* fires and has a weekday only if it is weekly, and the partial floor is below
\* the covered threshold; unless the last PATCH was overtaken by another between
\* its read and its write, or stopped between its commits.
ValidatedIsStored ==
    /\ "schedule" \notin frayed =>
           /\ schedule.cadence # "none" => Fires
           /\ schedule.weekday # "none" => schedule.cadence = "weekly"
    /\ "tunables" \notin frayed => tunable.floor < tunable.covered
=============================================================================
