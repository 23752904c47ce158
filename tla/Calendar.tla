------------------------------ MODULE Calendar ------------------------------
(***************************************************************************)
(* The wall clock of a timed task and of a chat's days: the conversion     *)
(* between the local time of the operator's zone and instants              *)
(* (core/features/tasks/schedule.ts), the next run of a task, which the    *)
(* poller computes anew at each fire (scheduler.ts), and the bounds of a   *)
(* day (features/history/summary.ts).                                      *)
(*                                                                         *)
(* The unit is the hour; instants are hours of UTC.  A zone changes its    *)
(* clock by an hour once, forwards or back, or never.  A day has Hours     *)
(* hours and a week Week days, fewer than on earth.                        *)
(***************************************************************************)
EXTENDS Integers, FiniteSets, FiniteSetsExt

CONSTANTS
  Hours, Week,
  LastHour,    \* bound: the time the model runs to
  Zones,       \* each [before, after, at]: the offsets, and the instant of the change
  Elsewhere,   \* the zone the operator may move to
  UTC,         \* the zone of a tick that could not read the setting
  Triggers     \* [kind, hour, days, date, every], the fields its kind uses

VARIABLES
  zone,     \* the operator's time zone, a setting
  now,
  trigger, next, \* the task, and next_run_at, or Never
  tick,     \* what the poller's tick began with: [at, zone], or NoTick
  \* history
  asOf,     \* the instant and the zone `next` was computed from
  fires,    \* 1 once the task has come through
  moved     \* the zone was changed, or could not be read; bound: once

calendarVars == <<zone, now, trigger, next, tick, asOf, fires, moved>>

Never == -1
NoTick == [at |-> Never]

-----------------------------------------------------------------------------
\* zoneOffsetMs and zonedDate: the wall clock of an instant.
offset(t, z) == IF t < z.at THEN z.before ELSE z.after
wall(t, z) == t + offset(t, z)
zonedDate(t, z) == wall(t, z) \div Hours
hourOf(t, z) == wall(t, z) % Hours

\* Mutation: the offset of the first guess is kept.
GuessOnce(d, h, z) == d * Hours + h - offset(d * Hours + h, z)

\* zonedWallClockToUtc: guess with the offset at the naive instant, then refine once.
zonedWallClockToUtc(d, h, z) ==
  LET naive == d * Hours + h
  IN naive - offset(naive - offset(naive, z), z)

weekdayOf(d) == d % Week

\* computeNextScheduleRun.
NextOnce(s, from, z) ==
  LET instant == zonedWallClockToUtc(s.date, s.hour, z)
  IN IF instant > from THEN instant ELSE Never

NextDaily(s, from, z) ==
  LET today == zonedDate(from, z)
      instant == zonedWallClockToUtc(today, s.hour, z)
  IN IF instant > from THEN instant ELSE zonedWallClockToUtc(today + 1, s.hour, z)

NextWeekly(s, from, z) ==
  LET today == zonedDate(from, z)
      offsets == {o \in 0 .. Week :
                    /\ weekdayOf(today + o) \in s.days
                    /\ o = 0 => zonedWallClockToUtc(today, s.hour, z) > from}
  IN IF offsets = {} THEN Never ELSE zonedWallClockToUtc(today + Min(offsets), s.hour, z)

\* computeNextTriggerRun.
computeNextTriggerRun(s, from, z) ==
  CASE s.kind = "once"     -> NextOnce(s, from, z)
    [] s.kind = "daily"    -> NextDaily(s, from, z)
    [] s.kind = "weekly"   -> NextWeekly(s, from, z)
    [] s.kind = "interval" -> from + s.every
    [] s.kind = "timeout"  -> Never

\* resolveTrigger: the first run of a new task; a date in the past is refused.
FirstRun(s, from, z) ==
  IF s.kind = "timeout" THEN from + s.every ELSE computeNextTriggerRun(s, from, z)

-----------------------------------------------------------------------------
Init ==
  /\ zone \in Zones /\ trigger \in Triggers /\ now \in 0 .. Hours - 1
  /\ next = FirstRun(trigger, now, zone) /\ next # Never
  /\ asOf = [at |-> now, zone |-> zone] /\ tick = NoTick /\ fires = 0 /\ moved = FALSE

Pass ==
  /\ now < LastHour /\ now' = now + 1
  /\ UNCHANGED <<zone, trigger, next, tick, asOf, fires, moved>>

Move ==
  /\ ~moved /\ moved' = TRUE /\ zone' = Elsewhere
  /\ UNCHANGED <<now, trigger, next, tick, asOf, fires>>

\* runTick: the zone (or, if that fails, UTC) and the time are read once, and the due
\* task fires, for as long as it takes and behind the others of the tick.
StartTick ==
  /\ tick = NoTick /\ next # Never /\ next <= now
  /\ \/ tick' = [at |-> now, zone |-> zone] /\ UNCHANGED moved
     \/ tick' = [at |-> now, zone |-> UTC] /\ ~moved /\ moved' = TRUE
  /\ UNCHANGED <<zone, now, trigger, next, asOf, fires>>

\* The end of a fire.  A task with a next run advances, a one-shot is deleted ...
Settle ==
  /\ tick # NoTick
  /\ next' = computeNextTriggerRun(trigger, tick.at, tick.zone)
  /\ asOf' = tick /\ tick' = NoTick /\ fires' = 1
  /\ UNCHANGED <<zone, now, trigger, moved>>

\* ... or, if it failed, stays due.
SettleFailed ==
  /\ tick # NoTick /\ computeNextTriggerRun(trigger, tick.at, tick.zone) = Never
  /\ tick' = NoTick
  /\ UNCHANGED <<zone, now, trigger, next, asOf, fires, moved>>

Next == Pass \/ Move \/ StartTick \/ Settle \/ SettleFailed

Spec == Init /\ [][Next]_calendarVars

-----------------------------------------------------------------------------
CalendarTypeOK ==
  /\ zone \in Zones \cup {Elsewhere} /\ trigger \in Triggers
  /\ now \in 0 .. LastHour /\ next \in Int /\ fires \in {0, 1}
  /\ {asOf, tick} \subseteq {NoTick} \cup [at : 0 .. LastHour, zone : Zones \cup {Elsewhere, UTC}]

\* The local hour that a change of the clock skips, or shows twice.
ChangedHour(z) == z.at + z.before - (IF z.after < z.before THEN 1 ELSE 0)
Skips(z) == z.after > z.before
Repeats(z) == z.after < z.before
AtMidnight(z) == (Skips(z) \/ Repeats(z)) /\ ChangedHour(z) % Hours = 0

\* What the trigger asks for, without its arithmetic: the local days it means, and
\* the instants at which the wall clock of such a day shows its hour.
Asked(d) ==
  CASE trigger.kind = "once"   -> d = trigger.date
    [] trigger.kind = "daily"  -> TRUE
    [] trigger.kind = "weekly" -> weekdayOf(d) \in trigger.days
    [] OTHER -> FALSE
AskedAt(w) == Asked(w \div Hours) /\ w % Hours = trigger.hour

\* A task on the clock is due next at the first instant whose wall clock it asks for
\* (of two within an hour that the clock shows twice, maybe the other); and a run
\* asked for in an hour the clock skips comes within an hour of the change.
NextFits ==
  LET z == asOf.zone
      Skipped == Skips(z) /\ AskedAt(ChangedHour(z))
  IN trigger.kind \in {"once", "daily", "weekly"} /\ next # Never =>
       /\ AskedAt(wall(next, z)) \/ (Skipped /\ next \in {z.at - 1, z.at})
       /\ \A t \in asOf.at + 1 .. next - 1 :
            AskedAt(wall(t, z)) => Repeats(z) /\ wall(t, z) = ChangedHour(z)

\* A recurring task has a next run, and every next run is later than the moment it
\* was computed at (a task never spins), unless it is asked for in an hour that the
\* clock skips at midnight.
NextIsAhead ==
  /\ trigger.kind \in {"daily", "weekly", "interval"} => next # Never
  /\ next # Never =>
       \/ next > asOf.at
       \/ Skips(asOf.zone) /\ AtMidnight(asOf.zone) /\ AskedAt(ChangedHour(asOf.zone))

\* A one-shot that has come through "can never fire again" (scheduler.ts), unless the
\* operator moved to another zone meanwhile or the tick could not read the zone.
OneShotOnce ==
  trigger.kind \in {"once", "timeout"} /\ fires = 1 => next = Never \/ moved

\* summaryDayBounds: a message sent now is loaded with the day
\* listSourceChatDayCounts counts it in, unless the clock changes at midnight.
LoadedWhereCounted ==
  LET d == zonedDate(now, zone)
  IN \/ /\ zonedWallClockToUtc(d, 0, zone) <= now
        /\ now < zonedWallClockToUtc(d + 1, 0, zone)
     \/ AtMidnight(zone)

\* The calendar says what the wall clock says.
CalendarKept == NextFits /\ NextIsAhead /\ OneShotOnce /\ LoadedWhereCounted
=============================================================================
