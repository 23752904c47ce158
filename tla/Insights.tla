------------------------------ MODULE Insights -----------------------------
(***************************************************************************)
(* The analytics insights of one chat: every finished hour with messages   *)
(* is scored once, and the scores are rolled up hour -> day -> all, each   *)
(* level from the stored rows of the one below; a watermark bounds the     *)
(* scan for hours still owed, and the operator may drop a period and have  *)
(* it computed again (core/features/analytics/server/insights.ts,          *)
(* repository.ts, watermark.ts, scheduler.ts).                             *)
(*                                                                         *)
(* A score is the number of the regeneration it belongs to; a roll-up is   *)
(* the set of scored hours it stands for (its mood is their weighted mean, *)
(* whatever the levels in between).  Weeks, months and years roll up like  *)
(* days and are left out.  One run at a time: the lock is in               *)
(* VisionBackfill, the timer in DailyJob.                                  *)
(***************************************************************************)
EXTENDS Naturals, FiniteSets

CONSTANTS
  NHours,      \* hours of the calendar
  HoursPerDay,
  Started,     \* the hour in progress at the start
  Seeded,      \* the hours that hold messages at the start
  Safety,      \* how late a message may arrive, in hours (25 in the code)
  MaxHours,    \* MAX_HOURS_PER_RUN (500 in the code)
  MaxPeriods,  \* MAX_PERIODS_PER_RUN (800 in the code)
  MaxDrops,    \* bound: regenerations
  MaxFaults    \* bound: failed calls and crashes

Hours == 1 .. NHours
dayOf(h) == (h - 1) \div HoursPerDay + 1
DaysOfAll == {dayOf(h) : h \in Hours}
Targets == {<<"hour", h>> : h \in Hours} \cup {<<"day", d>> : d \in DaysOfAll} \cup {<<"all", 0>>}
hoursOf(t) ==
  {h \in Hours : CASE t[1] = "hour" -> h = t[2] [] t[1] = "day" -> dayOf(h) = t[2] [] OTHER -> TRUE}
NoTarget == <<"none", 0>>
Cold == 0

VARIABLES
  now,       \* the hour in progress
  has,       \* the hours that hold messages
  score,     \* chat_hour_insights: an hour's score, 0 when there is none
  rollup,    \* period_insights
  floor,     \* the watermark, Cold when the next scan is unbounded
  request,   \* the queued regeneration
  drops,     \* bound: regenerations so far
  faults,    \* bound: failed calls and crashes so far
  importing, \* hours an import has written; the watermark is not reset yet
  \* the run
  step,      \* where it is
  from,      \* the watermark it read
  asOf,      \* the hour in progress when it did
  target,    \* the period it regenerates
  owed,      \* hours to score
  touched,   \* periods to roll up
  \* history
  unproven,  \* hours that got messages after the scan read and below its find
  spoiled,   \* periods a failure, a crash or a limit kept from being rebuilt
  narrowed   \* periods that lost the rows of hours nobody rescores

tables == <<now, has, score, rollup>>
control == <<floor, request, drops, faults, importing>>
pass == <<step, from, asOf, target, owed, touched>>
insightHistory == <<unproven, spoiled, narrowed>>
insightVars == <<tables, control, pass, insightHistory>>

Init ==
  /\ now = Started /\ has = Seeded
  /\ score = [h \in Hours |-> 0]
  /\ rollup = [t \in Targets |-> {}]
  /\ floor = Cold /\ request = NoTarget /\ drops = 0 /\ faults = 0 /\ importing = {}
  /\ step = "off" /\ from = Cold /\ asOf = 0 /\ target = NoTarget /\ owed = {} /\ touched = {}
  /\ unproven = {} /\ spoiled = {} /\ narrowed = {}

-----------------------------------------------------------------------------
\* owedHours: finished, with messages, without a score.
Owed(h) == h \in has /\ h < now /\ score[h] = 0

\* periodsForHour.
periodsOf(h) == {t \in Targets : h \in hoursOf(t)}

\* childBuckets: the rows of the level a period is built from.
below(t) ==
  CASE t[1] = "day" -> {<<"hour", h>> : h \in hoursOf(t)}
    [] t[1] = "all" -> {<<"day", d>> : d \in DaysOfAll}
    [] OTHER -> {}

\* loadChildren: the score itself for an hour, the rows of the level below else.
children(t) ==
  IF t[1] = "hour"
  THEN {<<h, score[h]>> : h \in {k \in hoursOf(t) : score[k] # 0}}
  ELSE UNION {rollup[c] : c \in below(t)}

\* What the period's row should stand for.
exact(t) == {<<h, score[h]>> : h \in {k \in hoursOf(t) : score[k] # 0}}

-----------------------------------------------------------------------------
HourEnds ==
  /\ now <= NHours
  /\ now' = now + 1
  /\ UNCHANGED <<has, score, rollup, control, pass, insightHistory>>

\* The hours a scan under way has missed, or will: it read an older watermark,
\* or has read the hours and not moved the watermark yet.
Missed(S) ==
  CASE step = "scan" -> {h \in S : h < from}
    [] step = "read" -> S \ owed
    [] OTHER -> {}

\* A message arrives, at most Safety hours late.
Arrive(h) ==
  /\ h \notin has /\ h <= now /\ h + Safety >= now
  /\ has' = has \cup {h}
  /\ UNCHANGED <<now, score, rollup, control, pass, insightHistory>>

\* importHistory: the rows first, then the watermark is forgotten.
ImportRows(h) ==
  /\ h \notin has /\ h < now /\ importing = {}
  /\ has' = has \cup {h} /\ importing' = {h}
  /\ UNCHANGED <<now, score, rollup, floor, request, drops, faults, pass, insightHistory>>

\* resetInsightScanFloor at the end of an import.  A scan that read before the
\* rows were there will set the watermark again.
ImportResets ==
  /\ importing # {}
  /\ importing' = {} /\ floor' = Cold
  /\ unproven' = unproven \cup Missed(importing)
  /\ UNCHANGED <<tables, request, drops, faults, pass, spoiled, narrowed>>

\* regenerateAnalyticsInsightsNow: a later request replaces a waiting one.
Request(t) ==
  /\ drops < MaxDrops /\ step # "drop"
  /\ request' = t
  /\ UNCHANGED <<tables, floor, drops, faults, importing, pass, insightHistory>>

-----------------------------------------------------------------------------
\* runJob claims the request; a regeneration drops first.
StartRun ==
  /\ step = "off"
  /\ target' = request /\ request' = NoTarget
  /\ step' = IF request = NoTarget THEN "floor" ELSE "drop"
  /\ UNCHANGED <<tables, floor, drops, faults, importing, from, asOf, owed, touched, insightHistory>>

\* The days of a period: periodDayRange.
daysOf(t) == {dayOf(h) : h \in hoursOf(t)}

\* periodOverlapFilter: the rows of every level whose days overlap the period's.
Overlaps(t, dropped) == t[1] = "all" \/ daysOf(t) \cap daysOf(dropped) # {}

\* deleteInsightsForPeriod: the scores of the period, and if there were any the
\* roll-ups that overlap it; then the watermark is forgotten.
toDrop == {h \in hoursOf(target) : score[h] # 0}

DropScores ==
  /\ score' = [h \in Hours |-> IF h \in toDrop THEN 0 ELSE score[h]]
  /\ drops' = drops + 1

Drop ==
  /\ step = "drop" /\ DropScores
  /\ LET lost == IF toDrop = {} THEN {} ELSE {t \in Targets : Overlaps(t, target)}
     IN /\ rollup' = [t \in Targets |-> IF t \in lost THEN {} ELSE rollup[t]]
        /\ narrowed' = narrowed \cup {t \in lost : t[1] = "hour" /\ t[2] \notin toDrop}
  /\ floor' = Cold
  /\ step' = "floor"
  /\ UNCHANGED <<now, has, request, importing, faults, from, asOf, target, owed, touched, unproven, spoiled>>

ReadFloor ==
  /\ step = "floor"
  /\ from' = floor /\ asOf' = now /\ step' = "scan"
  /\ UNCHANGED <<tables, control, target, owed, touched, insightHistory>>

\* listHoursNeedingInsight: the oldest ones, up to the limit; the rest is the next run's.
inScan(h) == Owed(h) /\ h < asOf /\ h >= from
older(h) == {k \in Hours : inScan(k) /\ k < h}

ReadHours ==
  /\ step = "scan"
  /\ owed' = {h \in Hours : inScan(h) /\ Cardinality(older(h)) < MaxHours}
  /\ step' = "read"
  /\ spoiled' = spoiled \cup UNION {periodsOf(h) : h \in {k \in Hours \ owed' : inScan(k)}}
  /\ UNCHANGED <<tables, control, from, asOf, target, touched, unproven, narrowed>>

least(S) == CHOOSE h \in S : \A k \in S : h <= k

\* Mutation: as far as the scan proved.
WatermarkProven == IF owed = {} THEN asOf ELSE least(owed)

\* advanceInsightScanFloor: never closer to the present than Safety.
Watermark ==
  LET proven == IF owed = {} THEN asOf ELSE least(owed)
      safe == IF asOf > Safety THEN asOf - Safety ELSE 1
  IN IF proven < safe THEN proven ELSE safe

Advance ==
  /\ step = "read"
  /\ floor' = Watermark
  /\ step' = "score"
  /\ UNCHANGED <<tables, request, drops, faults, importing, from, asOf, target, owed, touched, insightHistory>>

\* Pass 1, the oldest hour first.
ScoreHour ==
  /\ step = "score" /\ owed # {}
  /\ LET h == least(owed)
     IN /\ score' = [score EXCEPT ![h] = drops + 1]
        /\ touched' = touched \cup periodsOf(h)
        /\ owed' = owed \ {h}
  /\ UNCHANGED <<now, has, rollup, control, step, from, asOf, target, insightHistory>>

\* The call failed or its answer is unusable: the hour stays owed.
ScoreFails ==
  /\ step = "score" /\ owed # {} /\ faults < MaxFaults
  /\ faults' = faults + 1
  /\ owed' = owed \ {least(owed)}
  /\ spoiled' = spoiled \cup periodsOf(least(owed))
  /\ UNCHANGED <<tables, floor, request, drops, importing, step, from, asOf, target, touched, unproven, narrowed>>

\* Pass 2 goes from the finest level to the coarsest, and stops at the limit: the
\* periods behind it are not looked at again, their hours are scored.
rank(t) == CASE t[1] = "hour" -> 1 [] t[1] = "day" -> 2 [] OTHER -> 3
earlier(u, t) == rank(u) < rank(t) \/ (rank(u) = rank(t) /\ u[2] < t[2])

taken == {t \in touched : Cardinality({u \in touched : earlier(u, t)}) < MaxPeriods}

TakePeriods ==
  /\ step = "score" /\ owed = {}
  /\ step' = "roll"
  /\ touched' = taken
  /\ spoiled' = spoiled \cup (touched \ taken)
  /\ UNCHANGED <<tables, control, from, asOf, target, owed, unproven, narrowed>>

turnOf(t) == t \in touched /\ \A u \in touched : ~earlier(u, t)

\* A row is as good as the rows it was built from.
Inherit(S, t) == IF below(t) \cap S # {} THEN S \cup {t} ELSE S \ {t}

RollUp(t) ==
  /\ step = "roll" /\ turnOf(t)
  /\ touched' = touched \ {t}
  /\ rollup' = [rollup EXCEPT ![t] = IF children(t) = {} THEN @ ELSE children(t)]
  /\ spoiled' = Inherit(spoiled, t)
  /\ narrowed' = Inherit(narrowed, t)
  /\ UNCHANGED <<now, has, score, control, step, from, asOf, target, owed, unproven>>

\* The model is asked only when there is something to choose from.
RollUpFails(t) ==
  /\ step = "roll" /\ turnOf(t) /\ faults < MaxFaults
  /\ faults' = faults + 1
  /\ Cardinality({c \in below(t) : rollup[c] # {}}) > 1
  /\ touched' = touched \ {t}
  /\ spoiled' = spoiled \cup {t}
  /\ UNCHANGED <<tables, floor, request, drops, importing, step, from, asOf, target, owed, unproven, narrowed>>

Rest == step' = "off" /\ from' = Cold /\ asOf' = 0 /\ target' = NoTarget /\ owed' = {} /\ touched' = {}

EndRun ==
  /\ step = "roll" /\ touched = {}
  /\ Rest
  /\ UNCHANGED <<tables, control, insightHistory>>

\* A query throws, and with it the run.
RunFails ==
  /\ step # "off" /\ faults < MaxFaults
  /\ faults' = faults + 1
  /\ Rest
  /\ spoiled' = spoiled \cup touched \cup {t \in Targets : rollup[t] # exact(t)}
  /\ UNCHANGED <<tables, floor, request, importing, drops, unproven, narrowed>>

\* The core restarts: the watermark and the request were in memory.
Restarts ==
  /\ floor' = Cold /\ request' = NoTarget /\ importing' = {}
  /\ unproven' = {}

Crash ==
  /\ step # "off" /\ faults < MaxFaults
  /\ faults' = faults + 1
  /\ Rest /\ Restarts
  /\ spoiled' = spoiled \cup touched \cup {t \in Targets : rollup[t] # exact(t)}
  /\ UNCHANGED <<tables, drops, narrowed>>

\* The second deletion of a regeneration throws, or the core restarts before it: the
\* scores are gone and the roll-ups are still there; the watermark is only forgotten
\* by the restart.
DropFails ==
  /\ step = "drop" /\ faults < MaxFaults
  /\ faults' = faults + 1
  /\ DropScores /\ Rest
  /\ \/ unproven' = unproven \cup toDrop /\ UNCHANGED <<floor, request, importing>>
     \/ Restarts
  /\ spoiled' = spoiled \cup {t \in Targets : rollup[t] # exact(t)'}
  /\ UNCHANGED <<now, has, rollup, narrowed>>

RunStep ==
  \/ Drop \/ ReadFloor \/ ReadHours \/ Advance \/ ScoreHour \/ ScoreFails \/ TakePeriods
  \/ EndRun \/ RunFails \/ DropFails
  \/ \E t \in Targets : RollUp(t) \/ RollUpFails(t)

Next ==
  \/ HourEnds \/ StartRun \/ RunStep \/ Crash \/ ImportResets
  \/ \E h \in Hours : Arrive(h) \/ ImportRows(h)
  \/ \E t \in Targets : Request(t)

Spec == Init /\ [][Next]_insightVars

-----------------------------------------------------------------------------
InsightsTypeOK ==
  /\ now \in Hours \cup {NHours + 1} /\ has \subseteq Hours
  /\ score \in [Hours -> 0 .. MaxDrops + 1]
  /\ \A t \in Targets : rollup[t] \subseteq hoursOf(t) \X (1 .. MaxDrops + 1)
  /\ {floor, from, asOf} \subseteq 0 .. NHours + 1
  /\ {request, target} \subseteq Targets \cup {NoTarget}
  /\ step \in {"off", "drop", "floor", "scan", "read", "score", "roll"}
  /\ owed \subseteq Hours /\ touched \subseteq Targets
  /\ {unproven, importing} \subseteq SUBSET Hours /\ {spoiled, narrowed} \subseteq SUBSET Targets

\* No owed hour lies below the watermark, where no scan would look for it
\* (watermark.ts: "a late-delivered update can never land below it"), except while an
\* import is on its way, after one that fell into an open scan, and after a regeneration
\* that failed halfway.
OwedIsSeen ==
  \A h \in Hours : Owed(h) => h >= floor \/ h \in importing \cup unproven

\* Between runs a period's row stands for exactly the scored hours of the period,
\* with their current scores, unless a failed call, a failed run, a crash or one of the
\* limits kept it from being rebuilt, or an hour of its day was regenerated alone.
RollupsExact ==
  step = "off" => \A t \in Targets \ (spoiled \cup narrowed) : rollup[t] = exact(t)

\* The insights are complete, or will be: each owed hour is found by a scan, and each
\* period tells the hours it has.
InsightsComplete == OwedIsSeen /\ RollupsExact
=============================================================================
