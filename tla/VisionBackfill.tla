--------------------------- MODULE VisionBackfill ---------------------------
(***************************************************************************)
(* Describing the media of a chat: the live turn that needs a picture now, *)
(* and the backfill that describes the leftovers while the chat is quiet.  *)
(* The backfill runs under the idle scheduler and an advisory lock         *)
(* (core/server/jobs/idle-scheduler.ts, lock.ts, features/vision/server/   *)
(* backfill.ts, backfill-scheduler.ts, service.ts, source-store/media.ts). *)
(*                                                                         *)
(* A row is a message with a picture, numbered by arrival.  Its turn holds *)
(* it (source_messages.processed = false) until the turn settles.          *)
(***************************************************************************)
EXTENDS Naturals, FiniteSets

CONSTANTS
  NRows,        \* how many pictures arrive
  Slow,         \* bound: the rows whose turn may ask about a picture, or take
                \* so long that its hold no longer counts
  BatchSize,    \* rows per fetch (10 in the code)
  MaxRows,      \* rows attempted in one run (200 in the code)
  MaxRuns,      \* bound: runs of the job that overlap
  MaxCrashes    \* bound: restarts of the core

Rows == 1 .. NRows
Runs == 1 .. MaxRuns
None == 0

VARIABLES
  \* the store
  status,     \* a row's media: absent, pending or described
  stored,     \* who wrote its description
  hold,       \* the row's live-processing hold
  expired,    \* the hold is older than LIVE_HOLD_TIMEOUT
  \* the idle scheduler
  phase,      \* idle, scheduled or running
  timer,      \* the debounce is armed
  aborted,    \* the flag isAborted() reads
  stopped,    \* stop() was called
  \* the runs of the job
  pc,         \* where each run is
  attempted,  \* the rows a run has taken up
  batch,      \* what is left of the batch it fetched
  lock,       \* the run that holds the advisory lock
  \* the live turns, one per row
  turn,       \* where the turn of a row is
  target,     \* the row whose picture it asks about
  told,       \* what it was told: a row and whose description of it
  \* history
  excused,    \* rows the job tried and left pending, rows that became eligible
              \* when no run was to come, rows a run skipped: it had no model, or
              \* another run held the lock, or a query of its own failed
  misread,    \* turns that lost the race for a row and failed to read the winner's text
  crashes

store == <<status, stored, hold, expired>>
scheduler == <<phase, timer, aborted, stopped>>
job == <<pc, attempted, batch, lock>>
live == <<turn, target, told>>
history == <<excused, misread, crashes>>
vars == <<store, scheduler, job, live, history>>

InLock == {"scanning", "rows", "asking", "unlocking"}
UnderWay == InLock \cup {"starting", "ended"}
Nobody == <<"nobody">>
Authors == {<<"job">>} \cup {<<"turn", r>> : r \in Rows}

Init ==
  /\ status = [r \in Rows |-> "absent"]
  /\ stored = [r \in Rows |-> Nobody]
  /\ hold = [r \in Rows |-> FALSE]
  /\ expired = [r \in Rows |-> FALSE]
  /\ phase = "scheduled" /\ timer = TRUE
  /\ aborted = FALSE /\ stopped = FALSE
  /\ pc = [n \in Runs |-> "off"]
  /\ attempted = [n \in Runs |-> {}]
  /\ batch = [n \in Runs |-> {}]
  /\ lock = None
  /\ turn = [r \in Rows |-> "new"]
  /\ target = [r \in Rows |-> None]
  /\ told = [r \in Rows |-> <<None, Nobody>>]
  /\ excused = {} /\ misread = {} /\ crashes = 0

(***************************************************************************)
(* The idle scheduler.                                                     *)
(***************************************************************************)

\* schedule: the debounce starts over.
Schedule == phase' = "scheduled" /\ timer' = TRUE

\* onActivity: a run under way is told to yield, and the wait starts over.
OnActivity ==
  IF stopped
  THEN UNCHANGED scheduler
  ELSE /\ aborted' = (aborted \/ phase = "running")
       /\ Schedule
       /\ UNCHANGED stopped

\* Some other turn of the chat (or the boot) pokes the scheduler.
Poke ==
  /\ OnActivity
  /\ UNCHANGED <<store, job, live, history>>

\* runNow: the dashboard asks for a run.
RunNow ==
  /\ ~stopped /\ phase # "running"
  /\ Schedule
  /\ UNCHANGED <<aborted, stopped, store, job, live, history>>

Stop ==
  /\ ~stopped
  /\ stopped' = TRUE /\ aborted' = TRUE /\ timer' = FALSE /\ phase' = "idle"
  /\ UNCHANGED <<store, job, live, history>>

\* The timer fires runJob.
StartRun(n) ==
  /\ timer /\ phase # "running" /\ pc[n] = "off"
  /\ timer' = FALSE /\ aborted' = FALSE /\ phase' = "running"
  /\ pc' = [pc EXCEPT ![n] = "starting"]
  /\ UNCHANGED <<stopped, store, attempted, batch, lock, live, history>>

\* Mutation: a run that was interrupted settles like any other.
FinishRunIdle(n) ==
  /\ pc[n] = "ended"
  /\ pc' = [pc EXCEPT ![n] = "off"]
  /\ attempted' = [attempted EXCEPT ![n] = {}]
  /\ batch' = [batch EXCEPT ![n] = {}]
  /\ phase' = "idle" /\ timer' = FALSE
  /\ UNCHANGED <<aborted, stopped, store, lock, live, history>>

\* The finally of runJob: activity during the run arms the wait again.
FinishRun(n) ==
  /\ pc[n] = "ended"
  /\ pc' = [pc EXCEPT ![n] = "off"]
  /\ attempted' = [attempted EXCEPT ![n] = {}]
  /\ batch' = [batch EXCEPT ![n] = {}]
  /\ IF ~stopped /\ aborted THEN Schedule ELSE phase' = "idle" /\ UNCHANGED timer
  /\ UNCHANGED <<aborted, stopped, store, lock, live, history>>

(***************************************************************************)
(* One run of the job.                                                     *)
(***************************************************************************)
isAborted == aborted \/ stopped

\* Mutation: the hold is not asked for.
EligiblePending(r) == status[r] = "pending"

\* Rows the backfill may claim: pending, and not held by a live turn.
Eligible(r) == status[r] = "pending" /\ (~hold[r] \/ expired[r])

Go(n, where) == pc' = [pc EXCEPT ![n] = where]

\* No vision model is configured: the run skips every row it would have taken.
NotConfigured(n) ==
  /\ pc[n] = "starting"
  /\ Go(n, "ended")
  /\ excused' = excused \cup {r \in Rows : Eligible(r)}
  /\ UNCHANGED <<store, scheduler, attempted, batch, lock, live, misread, crashes>>

\* The pool, the lock query or a query of the scan fails: the run ends, without an
\* error for the scheduler, and leaves what it has not tried.
QueryFails(n) ==
  /\ pc[n] \in {"starting", "scanning"}
  /\ Go(n, IF pc[n] = "starting" THEN "ended" ELSE "unlocking")
  /\ excused' = excused \cup {r \in Rows : Eligible(r)}
  /\ UNCHANGED <<store, scheduler, attempted, batch, lock, live, misread, crashes>>

\* withAdvisoryLock: a lock held elsewhere makes the run a skip.
TryLock(n) ==
  /\ pc[n] = "starting"
  /\ IF lock = None
     THEN lock' = n /\ Go(n, "scanning") /\ UNCHANGED excused
     ELSE /\ Go(n, "ended") /\ UNCHANGED lock
          /\ excused' = excused \cup {r \in Rows : Eligible(r)}
  /\ UNCHANGED <<store, scheduler, attempted, batch, live, misread, crashes>>

\* The oldest BatchSize of them.
listPending ==
  {r \in Rows : Eligible(r) /\ Cardinality({q \in Rows : q < r /\ Eligible(q)}) < BatchSize}

\* Mutation: rows this run attempted are fetched again.
ScanAgain(n) ==
  /\ pc[n] = "scanning"
  /\ IF isAborted \/ Cardinality(attempted[n]) >= MaxRows \/ listPending = {}
     THEN Go(n, "unlocking") /\ UNCHANGED batch
     ELSE Go(n, "rows") /\ batch' = [batch EXCEPT ![n] = listPending]
  /\ UNCHANGED <<store, scheduler, attempted, lock, live, history>>

Scan(n) ==
  /\ pc[n] = "scanning"
  /\ LET fresh == listPending \ attempted[n]
     IN IF isAborted \/ Cardinality(attempted[n]) >= MaxRows \/ fresh = {}
        THEN Go(n, "unlocking") /\ UNCHANGED batch
        ELSE Go(n, "rows") /\ batch' = [batch EXCEPT ![n] = fresh]
  /\ UNCHANGED <<store, scheduler, attempted, lock, live, history>>

\* The next row of the batch; describeAndStore reads it first.
NextRow(n) ==
  /\ pc[n] = "rows"
  /\ IF isAborted \/ batch[n] = {}
     THEN /\ Go(n, IF isAborted THEN "unlocking" ELSE "scanning")
          /\ UNCHANGED <<attempted, batch>>
     ELSE LET r == CHOOSE x \in batch[n] : \A y \in batch[n] : x <= y
          IN /\ attempted' = [attempted EXCEPT ![n] = @ \cup {r}]
             /\ IF status[r] = "pending"
                THEN Go(n, "asking") /\ UNCHANGED batch
                ELSE batch' = [batch EXCEPT ![n] = @ \ {r}] /\ UNCHANGED pc
  /\ excused' = excused \ (attempted'[n] \ attempted[n])
  /\ UNCHANGED <<store, scheduler, lock, live, misread, crashes>>

asked(n) == CHOOSE x \in batch[n] : \A y \in batch[n] : x <= y

\* Mutation: the row takes every description.
MarkDescribedAlways(r, author) ==
  /\ status' = [status EXCEPT ![r] = "described"]
  /\ stored' = [stored EXCEPT ![r] = author]

\* markDescribed: only a row still pending takes the description.
MarkDescribed(r, author) ==
  IF status[r] = "pending"
  THEN /\ status' = [status EXCEPT ![r] = "described"]
       /\ stored' = [stored EXCEPT ![r] = author]
  ELSE UNCHANGED <<status, stored>>

RowDescribed(n) ==
  /\ pc[n] = "asking"
  /\ MarkDescribed(asked(n), <<"job">>)
  /\ batch' = [batch EXCEPT ![n] = @ \ {asked(n)}]
  /\ Go(n, "rows")
  /\ UNCHANGED <<hold, expired, scheduler, attempted, lock, live, history>>

\* The call failed or answered nothing: the row stays pending.
RowFails(n) ==
  /\ pc[n] = "asking"
  /\ excused' = excused \cup {asked(n)}
  /\ batch' = [batch EXCEPT ![n] = @ \ {asked(n)}]
  /\ Go(n, "rows")
  /\ UNCHANGED <<store, scheduler, attempted, lock, live, misread, crashes>>

Unlock(n) ==
  /\ pc[n] = "unlocking"
  /\ lock' = None
  /\ Go(n, "ended")
  /\ UNCHANGED <<store, scheduler, attempted, batch, live, history>>

(***************************************************************************)
(* The live turns.                                                         *)
(***************************************************************************)

\* A message with a picture is mirrored, held for its turn.
Arrive(r) ==
  /\ turn[r] = "new" /\ \A q \in Rows : q < r => turn[q] # "new"
  /\ status' = [status EXCEPT ![r] = "pending"]
  /\ hold' = [hold EXCEPT ![r] = TRUE]
  /\ turn' = [turn EXCEPT ![r] = "queued"]
  /\ UNCHANGED <<stored, expired, scheduler, job, target, told, history>>

\* The turn runs past the loop guard: it pokes the scheduler.
TurnStarts(r) ==
  /\ turn[r] = "queued"
  /\ turn' = [turn EXCEPT ![r] = "running"]
  /\ OnActivity
  /\ UNCHANGED <<store, job, target, told, history>>

\* It needs a picture: its own or the one it replies to.
TurnAsks(r, q) ==
  /\ r \in Slow /\ turn[r] = "running" /\ target[r] = None /\ status[q] # "absent"
  /\ target' = [target EXCEPT ![r] = q]
  /\ IF status[q] = "pending"
     THEN turn' = [turn EXCEPT ![r] = "asking"] /\ UNCHANGED told
     ELSE told' = [told EXCEPT ![r] = <<q, stored[q]>>] /\ UNCHANGED turn
  /\ UNCHANGED <<store, scheduler, job, history>>

\* Mutation: the loser of a race answers with its own text.
TurnDescribesItself(r) ==
  /\ turn[r] = "asking"
  /\ MarkDescribed(target[r], <<"turn", r>>)
  /\ told' = [told EXCEPT ![r] = <<target[r], <<"turn", r>>>>]
  /\ turn' = [turn EXCEPT ![r] = "running"]
  /\ UNCHANGED <<hold, expired, scheduler, job, target, history>>

\* storeDescription: the loser of a race answers with the winner's text, and with its
\* own when it cannot read that.
TurnDescribes(r) ==
  /\ turn[r] = "asking"
  /\ MarkDescribed(target[r], <<"turn", r>>)
  /\ \/ told' = [told EXCEPT ![r] = <<target[r], stored'[target[r]]>>] /\ UNCHANGED misread
     \/ /\ status[target[r]] # "pending"
        /\ told' = [told EXCEPT ![r] = <<target[r], <<"turn", r>>>>]
        /\ misread' = misread \cup {r}
  /\ turn' = [turn EXCEPT ![r] = "running"]
  /\ UNCHANGED <<hold, expired, scheduler, job, target, excused, crashes>>

TurnFails(r) ==
  /\ turn[r] = "asking"
  /\ turn' = [turn EXCEPT ![r] = "running"]
  /\ UNCHANGED <<store, scheduler, job, target, told, history>>

\* The turn settles; its row becomes the backfill's, whether a run is to come
\* or not.  A turn the loop guard silenced settles without having poked.
TurnSettles(r) ==
  /\ turn[r] \in {"queued", "running"}
  /\ turn' = [turn EXCEPT ![r] = "over"]
  /\ hold' = [hold EXCEPT ![r] = FALSE]
  /\ expired' = [expired EXCEPT ![r] = FALSE]
  /\ target' = [target EXCEPT ![r] = None]
  /\ excused' = IF timer THEN excused ELSE excused \cup {r}
  /\ UNCHANGED <<status, stored, scheduler, job, told, misread, crashes>>

\* Ten minutes pass: the hold no longer counts.
HoldExpires(r) ==
  /\ r \in Slow /\ hold[r] /\ ~expired[r]
  /\ expired' = [expired EXCEPT ![r] = TRUE]
  /\ excused' = IF timer THEN excused ELSE excused \cup {r}
  /\ UNCHANGED <<status, stored, hold, scheduler, job, live, misread, crashes>>

\* The core restarts: memory and the session's lock are gone, turns in flight
\* are queued again, and the boot arms the scheduler.
Crash ==
  /\ crashes < MaxCrashes
  /\ crashes' = crashes + 1
  /\ phase' = "scheduled" /\ timer' = TRUE /\ aborted' = FALSE /\ stopped' = FALSE
  /\ pc' = [n \in Runs |-> "off"]
  /\ attempted' = [n \in Runs |-> {}]
  /\ batch' = [n \in Runs |-> {}]
  /\ lock' = None
  /\ turn' = [r \in Rows |-> IF turn[r] \in {"running", "asking"} THEN "queued" ELSE turn[r]]
  /\ target' = [r \in Rows |-> None]
  /\ told' = [r \in Rows |-> IF turn[r] = "over" THEN told[r] ELSE <<None, Nobody>>]
  /\ misread' = misread \cap {r \in Rows : turn[r] = "over"}
  /\ UNCHANGED <<store, excused>>

RunStep(n) ==
  \/ FinishRun(n) \/ NotConfigured(n) \/ QueryFails(n) \/ TryLock(n) \/ Scan(n)
  \/ NextRow(n) \/ RowDescribed(n) \/ RowFails(n) \/ Unlock(n)

Next ==
  \/ Poke \/ RunNow \/ Stop \/ Crash
  \/ \E n \in Runs : StartRun(n) \/ RunStep(n)
  \/ \E r \in Rows :
       \/ Arrive(r) \/ TurnStarts(r) \/ TurnDescribes(r) \/ TurnFails(r)
       \/ TurnSettles(r) \/ HoldExpires(r)
       \/ \E q \in Rows : TurnAsks(r, q)

\* Every await of a run settles: a lock query, a fetch, a model call with its
\* timeout.  Nothing makes the timer fire or a turn come.
Fairness == \A n \in Runs : WF_vars(RunStep(n))

Spec == Init /\ [][Next]_vars /\ Fairness

-----------------------------------------------------------------------------
VisionTypeOK ==
  /\ status \in [Rows -> {"absent", "pending", "described"}]
  /\ stored \in [Rows -> Authors \cup {Nobody}]
  /\ hold \in [Rows -> BOOLEAN] /\ expired \in [Rows -> BOOLEAN]
  /\ phase \in {"idle", "scheduled", "running"}
  /\ timer \in BOOLEAN /\ aborted \in BOOLEAN /\ stopped \in BOOLEAN
  /\ pc \in [Runs -> UnderWay \cup {"off"}]
  /\ attempted \in [Runs -> SUBSET Rows] /\ batch \in [Runs -> SUBSET Rows]
  /\ lock # None => lock \in Runs /\ pc[lock] \in InLock
  /\ turn \in [Rows -> {"new", "queued", "running", "asking", "over"}]
  /\ target \in [Rows -> Rows \cup {None}]
  /\ excused \in SUBSET Rows /\ misread \in SUBSET Rows
  /\ crashes \in 0 .. MaxCrashes

\* Although the scheduler lets two runs overlap (activity during a run arms the
\* timer, and the timer fires before the run has noticed), the advisory lock
\* keeps their bodies apart.
OneBody == \A n, k \in Runs : pc[n] \in InLock /\ pc[k] \in InLock => n = k

\* The backfill takes only leftovers (media.ts: "not currently held by a live
\* turn"): a row it asks the model about has no turn still to settle, unless
\* the hold grew old.
SparesLiveTurns ==
  \A n \in Runs :
    pc[n] = "asking" => turn[asked(n)] = "over" \/ expired[asked(n)]

\* The backfill disturbs nobody: not a run of its own, and not a live turn.
AloneOnItsRows == OneBody /\ SparesLiveTurns

\* However many passes describe a row at once, every turn is told the text the
\* store keeps (service.ts: "never a stale null because a concurrent pass won"),
\* unless it lost the race and its read of the winner's text failed: then it is told
\* the text it paid for.
AnswersAgree ==
  \A r \in Rows : told[r][1] # None /\ r \notin misread => stored[told[r][1]] = told[r][2]

\* When the scheduler rests, a row that is still pending after its turn is one the
\* job tried, one behind a whole batch of such, one that became eligible when no run
\* was to come, or one that was there when a run was skipped or one of its own queries
\* failed: a run that yielded comes back for the rest.
Leftover(r) == status[r] = "pending" /\ (turn[r] = "over" \/ expired[r])
Resting == ~timer /\ ~stopped /\ \A n \in Runs : pc[n] = "off"
NothingForgotten ==
  Resting =>
    \A r \in Rows : Leftover(r) =>
      \/ r \in excused
      \/ Cardinality({q \in excused : q < r}) >= BatchSize

\* A run ends, also when no row of it can be described (backfill.ts: "so one run
\* can't spin forever").  The runs are interchangeable: one stands for all.
RunsEnd == pc[1] # "off" ~> pc[1] = "off"
=============================================================================
