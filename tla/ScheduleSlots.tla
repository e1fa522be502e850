--------------------------- MODULE ScheduleSlots ----------------------------
(***************************************************************************)
(* What the schedule of a connection promises (the comments of             *)
(* _sweep_async in app/mitre/tasks.py): instants come due one after the    *)
(* other; the newest is taken, those it overtakes are skipped; an instant  *)
(* is pulled at most once, after it was taken and before the next one is.  *)
(*                                                                         *)
(* Once two sweeps have crossed nothing is promised about the instants.    *)
(***************************************************************************)
EXTENDS Naturals

CONSTANT MaxSlot \* bound on the scheduled instants

VARIABLES
    due,     \* the newest instant that has come
    taken,   \* the newest instant taken
    pulls,   \* pulls[s]: pulls sent for an instant
    crossed  \* two sweeps have run at once

slotvars == <<due, taken, pulls, crossed>>

SlotsInit ==
    /\ due = 0 /\ taken = 0 /\ ~crossed
    /\ pulls = [s \in 0..MaxSlot |-> 0]

ComeDue ==
    /\ due < MaxSlot
    /\ due' = due + 1
    /\ UNCHANGED <<taken, pulls, crossed>>

Take ==
    /\ taken' \in (taken + 1)..due
    /\ UNCHANGED <<due, pulls, crossed>>

SendPull ==
    /\ pulls[taken] = 0
    /\ pulls' = [pulls EXCEPT ![taken] = 1]
    /\ UNCHANGED <<due, taken, crossed>>

Cross ==
    /\ crossed'
    /\ UNCHANGED <<due, taken, pulls>>

Unpromised == crossed /\ crossed'

SlotsNext == ComeDue \/ Take \/ SendPull \/ Cross \/ Unpromised

SlotsSpec == SlotsInit /\ [][SlotsNext]_slotvars
============================================================================
