------------------------------ MODULE DailyJob -----------------------------
(***************************************************************************)
(* A daily job (core/server/jobs/daily-scheduler.ts, interval-scheduler.ts *)
(* and daily-due.ts): a ticker asks every minute whether today's run       *)
(* instant has passed without a run, and if so does the night's work.      *)
(* Everything it knows is in memory.                                       *)
(*                                                                         *)
(* Time goes by in slots (hours), a tick is shorter than a slot: an armed  *)
(* ticker that is not in a tick gets to look in every slot (`looked`).     *)
(***************************************************************************)
EXTENDS Integers

CONSTANTS
  NDays,        \* bound: days
  NSlots,       \* slots of a day
  MaxRestarts,  \* bound: restarts of the process
  MaxChanges    \* bound: changes of the setting

VARIABLES
  day, slot, looked,
  runAt,        \* daily_jobs_run_time: a slot
  armed,
  tick,         \* "none", "asking" (it awaits the settings), "body"
  forced,       \* the tick was asked for: it does not look at the clock
  forceNext,
  lastDailyRunAt,
  restarts, changes,
  \* history
  dueRuns,      \* runs of today at each instant
  restartsToday,
  endedDay      \* what became of the day that just ended: "covered", "excused", "missed"

clock == <<day, slot, looked>>
dailyVars == <<clock, runAt, armed, tick, forced, forceNext, lastDailyRunAt,
               restarts, changes, dueRuns, restartsToday, endedDay>>

Slots == 0 .. NSlots - 1
Never == -1
noRuns == [s \in Slots |-> 0]

Init ==
  /\ day = 0 /\ slot = 0 /\ looked = FALSE
  /\ runAt = 1
  /\ armed = TRUE /\ tick = "none" /\ forced = FALSE /\ forceNext = FALSE
  /\ lastDailyRunAt = Never
  /\ restarts = 0 /\ changes = 0
  /\ dueRuns = noRuns /\ restartsToday = 0 /\ endedDay = "covered"

-----------------------------------------------------------------------------
now == day * NSlots + slot

\* isDailyRunDue with todaysRunInstant: the time of the setting, today.
Due(last) ==
  /\ slot >= runAt
  /\ last = Never \/ last < day * NSlots + runAt

\* Time passes, but not over the head of a ticker that is free to look.
TimePasses ==
  /\ (armed /\ tick # "body") => looked
  /\ tick # "asking"
  /\ looked' = FALSE
  /\ IF slot < NSlots - 1
     THEN /\ slot' = slot + 1
          /\ UNCHANGED <<day, dueRuns, restartsToday, endedDay>>
     ELSE /\ day < NDays /\ day' = day + 1 /\ slot' = 0
          /\ dueRuns' = noRuns /\ restartsToday' = 0
          /\ endedDay' = IF \E s \in Slots : dueRuns[s] > 0 THEN "covered"
                         ELSE IF ~armed \/ tick = "body" THEN "excused" ELSE "missed"
  /\ UNCHANGED <<runAt, armed, tick, forced, forceNext, lastDailyRunAt, restarts, changes>>

\* The operator sets another time.
ChangeTime ==
  /\ changes < MaxChanges /\ changes' = changes + 1
  /\ \E s \in Slots \ {runAt} : runAt' = s
  /\ looked' = FALSE
  /\ UNCHANGED <<day, slot, armed, tick, forced, forceNext, lastDailyRunAt, restarts,
                 dueRuns, restartsToday, endedDay>>

-----------------------------------------------------------------------------
\* tick() and the head of runTick: the flag is taken, whoever set it.
BeginTick(flag) ==
  /\ tick = "none"
  /\ tick' = IF flag THEN "body" ELSE "asking"
  /\ forced' = flag /\ forceNext' = FALSE

\* The interval fires.
Interval ==
  /\ armed /\ BeginTick(forceNext)
  /\ UNCHANGED <<clock, runAt, armed, lastDailyRunAt, restarts, changes,
                 dueRuns, restartsToday, endedDay>>

\* runNow: the tick at once, or the flag for the next one.
RunNow ==
  /\ \/ BeginTick(TRUE)
     \/ tick # "none" /\ forceNext' = TRUE /\ UNCHANGED <<tick, forced>>
  /\ UNCHANGED <<clock, runAt, armed, lastDailyRunAt, restarts, changes,
                 dueRuns, restartsToday, endedDay>>

\* The settings are there: due, and stamped before the work, or back to waiting.
Ask ==
  /\ tick = "asking" /\ looked' = TRUE
  /\ IF Due(lastDailyRunAt)
     THEN /\ tick' = "body" /\ lastDailyRunAt' = now
          /\ dueRuns' = [dueRuns EXCEPT ![runAt] = IF @ < 3 THEN @ + 1 ELSE @]
     ELSE tick' = "none" /\ UNCHANGED <<lastDailyRunAt, dueRuns>>
  /\ UNCHANGED <<day, slot, runAt, armed, forced, forceNext, restarts,
                 changes, restartsToday, endedDay>>

\* Mutation: the flag is cleared at the end of the run.
EndBodyClears ==
  /\ tick = "body" /\ tick' = "none" /\ forced' = FALSE /\ forceNext' = FALSE
  /\ UNCHANGED <<clock, runAt, armed, lastDailyRunAt, restarts, changes,
                 dueRuns, restartsToday, endedDay>>

\* Mutation: the end of a run is when it ran.
EndBodyStamps ==
  /\ tick = "body" /\ tick' = "none" /\ forced' = FALSE /\ lastDailyRunAt' = now
  /\ UNCHANGED <<clock, runAt, armed, forceNext, restarts, changes,
                 dueRuns, restartsToday, endedDay>>

\* runJob returned or threw: it ran either way.
EndBody ==
  /\ tick = "body" /\ tick' = "none" /\ forced' = FALSE
  /\ UNCHANGED <<clock, runAt, armed, forceNext, lastDailyRunAt, restarts, changes,
                 dueRuns, restartsToday, endedDay>>

Stop ==
  /\ armed /\ armed' = FALSE
  /\ UNCHANGED <<clock, runAt, tick, forced, forceNext, lastDailyRunAt, restarts, changes,
                 dueRuns, restartsToday, endedDay>>

\* The process goes down and comes up: start() arms the ticker, nothing is remembered.
Restart ==
  /\ restarts < MaxRestarts /\ restarts' = restarts + 1
  /\ armed' = TRUE /\ tick' = "none" /\ forced' = FALSE /\ forceNext' = FALSE
  /\ lastDailyRunAt' = Never /\ looked' = FALSE
  /\ restartsToday' = restartsToday + 1
  /\ UNCHANGED <<day, slot, runAt, changes, dueRuns, endedDay>>

DailyStep == Interval \/ Ask \/ EndBody

Next == TimePasses \/ ChangeTime \/ RunNow \/ Stop \/ Restart \/ DailyStep

\* The timer fires again and again, and what a tick awaits returns.
Fairness == WF_dailyVars(DailyStep)

Spec == Init /\ [][Next]_dailyVars /\ Fairness

-----------------------------------------------------------------------------
DailyTypeOK ==
  /\ day \in 0 .. NDays /\ slot \in Slots /\ looked \in BOOLEAN /\ runAt \in Slots
  /\ armed \in BOOLEAN /\ tick \in {"none", "asking", "body"}
  /\ forced => tick = "body"
  /\ lastDailyRunAt \in Never .. now
  /\ restartsToday \in 0 .. MaxRestarts /\ changes \in 0 .. MaxChanges

\* daily-due.ts: at one run instant the day's work is done once, plus once for every
\* restart of that day (the stamp is in memory).
OncePerInstant == \A s \in Slots : dueRuns[s] <= 1 + restartsToday

\* No day ends without its run, unless the ticker is stopped then or a body that
\* is no run of today lasts until midnight, whatever ran or was re-timed before.
NoDayMissed == endedDay # "missed"

\* A day has its run, and has it once.
OneRunADay == OncePerInstant /\ NoDayMissed

\* "Run now" during a tick is not lost with it: a forced body follows, unless the
\* ticker is stopped or the process restarts: it is looked at after the last restart.
ForcedRunComes == forceNext /\ restarts = MaxRestarts ~> forced \/ ~armed
=============================================================================
