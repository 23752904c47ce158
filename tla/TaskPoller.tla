----------------------------- MODULE TaskPoller ---------------------------
(***************************************************************************)
(* The poller of timed tasks (core/features/tasks/server/scheduler.ts,     *)
(* repository.ts, fire.ts): a tick reads the due tasks once and then fires *)
(* them one after the other, each fire a generation that may take minutes; *)
(* a task is settled by what the tick had read.  Meanwhile the dashboard   *)
(* and the chat edit and delete tasks (service.ts).                        *)
(*                                                                         *)
(* A task is "once" (a delay, a date) or "every" (an interval, a weekly    *)
(* plan).  "Fire now" of the dashboard touches none of these variables.    *)
(* One tick at a time: DailyJob has the guard of the timer.                *)
(***************************************************************************)
EXTENDS Naturals, FiniteSets

CONSTANTS
  Tasks,
  MaxAttempts,  \* MAX_ONE_SHOT_ATTEMPTS (5 in the code)
  MaxEdits,     \* bound: edits and deletions
  MaxMishaps    \* bound: failed writes, crashes, pauses, deactivations

Kinds == {"once", "every"}

\* What makes a whole tick fire nothing: the maintenance mode, no language model, the
\* advisory lock held elsewhere (another process, or a connection that kept it), a
\* database that answers none of the reads.
Pauses == {"maintenance", "unconfigured", "locked", "unreadable"}

VARIABLES
  rows,         \* the table: the record of every task there is
  paused,       \* the pauses that are on
  silenced,     \* tasks of an assistant whose account is deactivated
  \* the tick
  batch,        \* the due tasks it has not settled, as it read them
  current,      \* the task it has fired and not settled, NoTask for none
  fired,        \* how that fire ended: "ok", "failed"
  edits, mishaps,
  \* history
  spent,        \* tasks of which a fire came through since they were last written
  tries,        \* fires of a task that failed since then, up to MaxAttempts
  raced,        \* tasks last written between a read of the tick and its settle
  unsettled,    \* tasks whose fire was never settled
  eaten,        \* tasks the poller deleted as they had not fired
  stopped       \* tasks the poller switched off

NoTask == "none"
tick == <<batch, current, fired>>
bounds == <<edits, mishaps>>
books == <<spent, tries, raced, unsettled>>
taskVars == <<rows, paused, silenced, tick, bounds, books, eaten, stopped>>

exists == DOMAIN rows
Fresh(k, on) ==
  [kind |-> k, enabled |-> on, attempts |-> 0, next |-> IF on THEN "later" ELSE "none"]

Init ==
  /\ rows = [t \in Tasks |-> Fresh("once", TRUE)]
  /\ paused = {} /\ silenced = {}
  /\ batch = <<>> /\ current = NoTask /\ fired = "ok"
  /\ edits = 0 /\ mishaps = 0
  /\ spent = {} /\ tries = [t \in Tasks |-> 0] /\ raced = {} /\ unsettled = {}
  /\ eaten = {} /\ stopped = {}

-----------------------------------------------------------------------------
without(f, t) == [u \in DOMAIN f \ {t} |-> f[u]]

\* listDueTasks.
due(t) == t \in exists /\ rows[t].enabled /\ rows[t].next = "due"

TimePasses(t) ==
  /\ t \in exists /\ rows[t].next = "later"
  /\ rows' = [rows EXCEPT ![t].next = "due"]
  /\ UNCHANGED <<paused, silenced, tick, bounds, books, eaten, stopped>>

\* What an edit means for the books: a fresh start, raced if a tick has the task.
Written(t) ==
  /\ edits < MaxEdits /\ edits' = edits + 1
  /\ raced' = IF t \in DOMAIN batch THEN raced \cup {t} ELSE raced \ {t}
  /\ unsettled' = unsettled \ {t} /\ stopped' = stopped \ {t}
  /\ spent' = spent \ {t} /\ tries' = [tries EXCEPT ![t] = 0]

\* Mutation: an edit keeps the count of the failed fires.
EditKeepsAttempts(t) ==
  /\ t \in exists /\ Written(t)
  /\ \E k \in Kinds, on \in BOOLEAN :
       rows' = [rows EXCEPT ![t] = [Fresh(k, on) EXCEPT !.attempts = rows[t].attempts]]
  /\ UNCHANGED <<paused, silenced, tick, mishaps, eaten>>

\* editTaskService: a fresh start; a date in the past is refused.
Edit(t) ==
  /\ t \in exists /\ Written(t)
  /\ \E k \in Kinds, on \in BOOLEAN : rows' = [rows EXCEPT ![t] = Fresh(k, on)]
  /\ UNCHANGED <<paused, silenced, tick, mishaps, eaten>>

\* removeTaskService.
Remove(t) ==
  /\ t \in exists /\ Written(t)
  /\ rows' = without(rows, t)
  /\ UNCHANGED <<paused, silenced, tick, mishaps, eaten>>

Mishap == mishaps < MaxMishaps /\ mishaps' = mishaps + 1

Pause(h) ==
  /\ h \notin paused /\ paused' = paused \cup {h} /\ Mishap
  /\ UNCHANGED <<rows, silenced, tick, edits, books, eaten, stopped>>

Resume(h) ==
  /\ h \in paused /\ paused' = paused \ {h}
  /\ UNCHANGED <<rows, silenced, tick, bounds, books, eaten, stopped>>

\* The account of the task's assistant is deactivated, and reactivated.
Silence(t) ==
  /\ t \notin silenced /\ silenced' = silenced \cup {t} /\ Mishap
  /\ UNCHANGED <<rows, paused, tick, edits, books, eaten, stopped>>

Reactivate(t) ==
  /\ t \in silenced /\ silenced' = silenced \ {t}
  /\ UNCHANGED <<rows, paused, tick, bounds, books, eaten, stopped>>

-----------------------------------------------------------------------------
\* runDueTasks reads the due tasks once; those of a silenced assistant it leaves as
\* they are.
served(t) == due(t) /\ t \notin silenced

ReadsDue ==
  /\ batch = <<>> /\ \E t \in Tasks : served(t)
  /\ batch' = [t \in {u \in Tasks : served(u)} |-> rows[t]]
  /\ UNCHANGED <<rows, paused, silenced, current, fired, edits, books, eaten, stopped>>

\* runTick: a tick with nothing in its way.  The others end without a change.
StartTick == paused = {} /\ ReadsDue /\ UNCHANGED mishaps

\* The policy cannot be read: the tick takes maintenance as off.
StartTickBlind == paused = {"maintenance"} /\ ReadsDue /\ Mishap

\* fireTask: it came through (a quiet fire included), or it failed.  The row is not
\* looked at again: a task deleted or paused since the read fires all the same.
Fire(t) ==
  /\ current = NoTask /\ t \in DOMAIN batch
  /\ current' = t
  /\ \/ fired' = "ok" /\ spent' = spent \cup {t} /\ UNCHANGED tries
     \/ fired' = "failed" /\ UNCHANGED spent
        /\ tries' = [tries EXCEPT ![t] = IF @ < MaxAttempts THEN @ + 1 ELSE @]
  /\ UNCHANGED <<rows, paused, silenced, batch, bounds, raced, unsettled, eaten, stopped>>

Settles(kind) ==
  /\ current # NoTask /\ batch[current].kind = kind
  /\ batch' = without(batch, current) /\ current' = NoTask /\ fired' = "ok"
  /\ UNCHANGED <<paused, silenced, edits>>

\* markTaskRun: a recurring task advances, fired or not.
Advance ==
  /\ Settles("every")
  /\ rows' = IF current \in exists THEN [rows EXCEPT ![current].next = "later"] ELSE rows
  /\ UNCHANGED <<mishaps, books, eaten, stopped>>

\* The row goes, and with it what the books have of it.
Deleted ==
  /\ rows' = without(rows, current)
  /\ eaten' = IF current \in exists \ spent THEN eaten \cup {current} ELSE eaten
  /\ spent' = spent \ {current} /\ tries' = [tries EXCEPT ![current] = 0]
  /\ unsettled' = unsettled \ {current} /\ UNCHANGED <<raced, mishaps, stopped>>

\* A one-shot that fired is deleted.
DeleteSpent == Settles("once") /\ fired = "ok" /\ Deleted

GivesUp(n) == n >= MaxAttempts

\* markTaskFailedAttempt: it stays due, until the last attempt switches it off.
CountFailure ==
  /\ Settles("once") /\ fired = "failed"
  /\ LET n == batch[current].attempts + 1
     IN IF current \in exists
        THEN /\ rows' = [rows EXCEPT ![current].attempts = n,
                                     ![current].enabled = @ /\ ~GivesUp(n)]
             /\ stopped' = IF GivesUp(n) THEN stopped \cup {current} ELSE stopped
        ELSE UNCHANGED <<rows, stopped>>
  /\ UNCHANGED <<mishaps, books, eaten>>

\* The write fails, and the error is swallowed.
SettleFails ==
  /\ \E k \in Kinds : Settles(k)
  /\ Mishap /\ unsettled' = unsettled \cup {current}
  /\ UNCHANGED <<rows, spent, tries, raced, eaten, stopped>>

Crash ==
  /\ batch # <<>> /\ Mishap
  /\ unsettled' = IF current = NoTask THEN unsettled ELSE unsettled \cup {current}
  /\ batch' = <<>> /\ current' = NoTask /\ fired' = "ok"
  /\ UNCHANGED <<rows, paused, silenced, edits, spent, tries, raced, eaten, stopped>>

TickStep ==
  \/ StartTick \/ \E t \in Tasks : Fire(t)
  \/ Advance \/ DeleteSpent \/ CountFailure \/ SettleFails

Next ==
  \/ TickStep \/ StartTickBlind \/ Crash
  \/ \E h \in Pauses : Pause(h) \/ Resume(h)
  \/ \E t \in Tasks : \/ TimePasses(t) \/ Edit(t) \/ Remove(t)
                      \/ Silence(t) \/ Reactivate(t)

\* Every tick comes, and every await of it returns.
Fairness == WF_taskVars(TickStep)

Spec == Init /\ [][Next]_taskVars /\ Fairness

-----------------------------------------------------------------------------
TaskTypeOK ==
  /\ exists \subseteq Tasks /\ DOMAIN batch \subseteq Tasks
  /\ \A f \in {rows, batch} : \A t \in DOMAIN f :
       f[t] \in [kind : Kinds, enabled : BOOLEAN, attempts : 0 .. MaxAttempts,
                 next : {"none", "later", "due"}]
  /\ paused \subseteq Pauses /\ silenced \subseteq Tasks
  /\ current = NoTask \/ current \in DOMAIN batch
  /\ \A t \in exists : rows[t].enabled => rows[t].next # "none"

\* A one-shot that has come through is not due again (scheduler.ts: "it can never
\* fire again"), unless its settle failed or it was edited while the tick had it.
FiresOnce ==
  \A t \in Tasks : due(t) /\ rows[t].kind = "once" /\ t \in spent =>
    t \in unsettled \cup raced \/ t = current

\* "A transient outage cannot silently eat a reminder": the poller deletes a task
\* only when it has come through, unless it was edited while the tick had it.
NothingEaten == eaten \subseteq raced

\* ... and switches it off only after MaxAttempts failed fires since it was last
\* edited, with the same exception.
TriedBeforeStopped ==
  \A t \in stopped : tries[t] >= MaxAttempts \/ t \in raced

\* What becomes of a task is what its fires came to, however they interleave with
\* edits, failed settles and restarts.
SettledAsItWent == FiresOnce /\ NothingEaten /\ TriedBeforeStopped

\* Once no pause is on and the task's assistant is not silenced, for good, every due
\* task is fired or is no longer due, whatever crashed or was left due before.  The
\* tasks are interchangeable: one stands for all.
DueIsServed ==
  LET t == CHOOSE u \in Tasks : TRUE
  IN <>[](paused = {} /\ t \notin silenced) => (due(t) ~> ~due(t) \/ t = current)
=============================================================================
