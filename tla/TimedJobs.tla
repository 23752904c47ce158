----------------------------- MODULE TimedJobs -----------------------------
(***************************************************************************)
(* The jobs of the clock: the daily ticker, the poller of tasks, the wall  *)
(* clock of a task, the sweep of the day summaries.  They share no         *)
(* variable, so one instance explores each of them alone: `part` picks one *)
(* at the start, the others stay as they are.                              *)
(***************************************************************************)
EXTENDS Integers, FiniteSets

CONSTANTS
  NDays, NSlots, MaxRestarts, MaxChanges,                      \* of DailyJob
  Tasks, MaxAttempts, MaxEdits, MaxMishaps,                    \* of TaskPoller
  Hours, Week, LastHour, Zones, Elsewhere, UTC, Triggers,      \* of Calendar
  HistoryDays, PageSize, MaxDays, Busy, MaxCount               \* of DaySummaries

VARIABLES
  part,
  \* DailyJob
  day, slot, looked, runAt, armed, tick, forced, forceNext, lastDailyRunAt,
  restarts, changes, dueRuns, restartsToday, endedDay,
  \* TaskPoller
  rows, paused, silenced, batch, current, fired, edits, mishaps, spent, tries,
  raced, unsettled, eaten, stopped,
  \* Calendar
  zone, now, trigger, next, calendarTick, asOf, fires, moved,
  \* DaySummaries
  count, grown, topics, marker, today, at, page, atDay, read, done, bad, torn

dailyVars ==
  <<day, slot, looked, runAt, armed, tick, forced, forceNext, lastDailyRunAt,
    restarts, changes, dueRuns, restartsToday, endedDay>>
taskVars ==
  <<rows, paused, silenced, batch, current, fired, edits, mishaps, spent, tries,
    raced, unsettled, eaten, stopped>>
calendarVars == <<zone, now, trigger, next, calendarTick, asOf, fires, moved>>
summaryVars ==
  <<count, grown, topics, marker, today, at, page, atDay, read, done, bad, torn>>
allVars == <<part, dailyVars, taskVars, calendarVars, summaryVars>>

DJ == INSTANCE DailyJob
TP == INSTANCE TaskPoller
CA == INSTANCE Calendar WITH tick <- calendarTick
DS == INSTANCE DaySummaries WITH day <- atDay, NDays <- HistoryDays

\* A day has slots besides midnight.
ASSUME DailyAssumption ==
  /\ NDays \in Nat /\ NSlots \in Nat /\ 1 < NSlots
  /\ MaxRestarts \in Nat /\ MaxChanges \in Nat

ASSUME TaskAssumption == TP!NoTask \notin Tasks /\ MaxAttempts \in Nat \ {0}

\* A zone changes its clock by an hour, once, or never.
ZoneOK(z) == z \in [before : Int, after : Int, at : Int] /\ z.after - z.before \in -1 .. 1

\* What a task may ask for: an hour of the day, days of the week, a time to wait.
TriggerOK(s) ==
  /\ s.kind \in {"once", "daily", "weekly", "interval", "timeout"}
  /\ s.hour \in 0 .. Hours - 1 /\ s.date \in Int
  /\ s.kind = "weekly" => s.days \subseteq 0 .. Week - 1 /\ s.days # {}
  /\ s.kind \in {"interval", "timeout"} => s.every \in Nat \ {0}

ASSUME CalendarAssumption ==
  /\ Hours \in Nat /\ 1 < Hours /\ Week \in Nat \ {0} /\ LastHour \in Nat /\ Hours <= LastHour
  /\ \A z \in Zones \cup {Elsewhere, UTC} : ZoneOK(z)
  /\ \A s \in Triggers : TriggerOK(s)

ASSUME SummariesAssumption ==
  /\ HistoryDays \in Nat \ {0} /\ PageSize \in Nat /\ MaxDays \in Nat
  /\ Busy \subseteq DS!Days /\ MaxCount \in Nat \ {0}

Init ==
  /\ part \in {"daily", "tasks", "calendar", "summaries"}
  /\ DJ!Init /\ TP!Init /\ DS!Init /\ CA!Init
  /\ part # "calendar" =>
       now = 0 /\ zone = UTC /\ trigger = CHOOSE s \in Triggers : s.kind = "daily"

Next ==
  /\ UNCHANGED part
  /\ \/ part = "daily" /\ DJ!Next /\ UNCHANGED <<taskVars, calendarVars, summaryVars>>
     \/ part = "tasks" /\ TP!Next /\ UNCHANGED <<dailyVars, calendarVars, summaryVars>>
     \/ part = "calendar" /\ CA!Next /\ UNCHANGED <<dailyVars, taskVars, summaryVars>>
     \/ part = "summaries" /\ DS!Next /\ UNCHANGED <<dailyVars, taskVars, calendarVars>>

\* The fairness of each component, for the part that runs.
Fairness ==
  /\ WF_dailyVars(part = "daily" /\ DJ!DailyStep)
  /\ WF_taskVars(part = "tasks" /\ TP!TickStep)
  /\ WF_summaryVars(part = "summaries" /\ DS!RunStep)

Spec == Init /\ [][Next]_allVars /\ Fairness

-----------------------------------------------------------------------------
\* A run instant gets one run, plus one for every restart of the day, and no day
\* ends without its run (with the types of DailyJob).
OneRunADay == part = "daily" => DJ!DailyTypeOK /\ DJ!OneRunADay

\* A task that has come through is not due again, and one is deleted or stopped
\* only when its fires came to that; the next run is the first instant ahead at which
\* the wall clock shows what the task asks for, and a message is summarised with the
\* day it is counted in (with the types of TaskPoller and Calendar).
SettledAsItWent ==
  /\ part = "tasks" => TP!TaskTypeOK /\ TP!SettledAsItWent
  /\ part = "calendar" => CA!CalendarTypeOK /\ CA!CalendarKept

\* A marker that counts the day stands for topics built from it (with the types
\* of DaySummaries).
CountedDaysCovered == part = "summaries" => DS!SummariesTypeOK /\ DS!CountedDaysCovered

\* Whatever is owed comes about: a "Run now" during a tick, a due task, and the
\* sweep of the days, which ends and is blocked by no bad day.
ClockServesAll ==
  /\ DJ!ForcedRunComes /\ TP!DueIsServed
  /\ DS!BadDayBlocksNone /\ DS!SweepEnds

=============================================================================
