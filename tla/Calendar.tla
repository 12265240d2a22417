------------------------------ MODULE Calendar ------------------------------
(***************************************************************************)
(* tasks.py, next_scheduled_occurrence: the instants at which a Task is due.*)
(* An instant is an integer, a local date holds DayLength of them, and a    *)
(* zone is the offset it begins with and its later shifts: a daylight-      *)
(* saving hour, or a whole day where a country crosses the date line.  The  *)
(* conversions are those of datetime and zoneinfo with fold 0.              *)
(***************************************************************************)
EXTENDS Integers, Sequences, FiniteSetsExt

CONSTANTS
  DayLength,      \* instants in a local day
  Horizon         \* bound: dates that one search goes through

ASSUME CalendarAssumption ==
  /\ DayLength \in Nat \ {0}
  /\ Horizon \in Nat \ {0}

(* The offset after the shifts 1..k of a zone. *)
OffsetAfter(zone, k) == IF k = 0 THEN zone.base ELSE zone.shifts[k].offset

(* The last shift that has happened by an instant. *)
ShiftAt(zone, instant) ==
  Max({0} \cup {k \in DOMAIN zone.shifts : zone.shifts[k].at <= instant})

Local(zone, instant) == instant + OffsetAfter(zone, ShiftAt(zone, instant))

(* The first wall time that is read with the new offset: a wall time that   *)
(* occurs twice is its first occurrence, one that is skipped is read with   *)
(* the offset before it.                                                    *)
WallShift(zone, k) ==
  zone.shifts[k].at + Max({OffsetAfter(zone, k - 1), OffsetAfter(zone, k)})

Instant(zone, wall) ==
  wall - OffsetAfter(zone, Max({0} \cup
           {k \in DOMAIN zone.shifts : WallShift(zone, k) <= wall}))

Date(task, instant) == Local(task.zone, instant) \div DayLength

WallTime(task, instant) == Local(task.zone, instant) % DayLength

(* datetime.combine(next_date, schedule_time) and the round trip through UTC *)
At(task, date) == Instant(task.zone, date * DayLength + task.time)

Exists(task, date) ==
  Local(task.zone, At(task, date)) = date * DayLength + task.time

(* A turn of the loop ends it.                                             *)
Falls(task, next, current, k) ==
  LET date == Date(task, next) + k * task.days
  IN Exists(task, date) /\ At(task, date) > current

TurnsWithoutRoundTrip(task, next, current) ==   \* mutant: a shifted time is taken
  Min({k \in 1..Horizon : At(task, Date(task, next) + k * task.days) > current})

(* The turns of the loop up to the first date that has the time, after the  *)
(* current time.                                                            *)
Turns(task, next, current) ==
  Min({k \in 1..Horizon : Falls(task, next, current, k)})

NextOccurrence(task, next, current) ==
  At(task, Date(task, next) + Turns(task, next, current) * task.days)

(* mutant: only the dates before the current time count *)
MissedOnlyOverdue(task, next, current) ==
  Cardinality({k \in 1..(Turns(task, next, current) - 1) :
                 Exists(task, Date(task, next) + k * task.days)})

MissedOccurrences(task, next, current) == Turns(task, next, current) - 1
=============================================================================
