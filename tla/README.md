# A verification project for ash-core

TLA+ models of the parts of ash-core in which something can go wrong between two
steps: the way of a message from a platform connection over the queues to a turn of
an assistant, the run of that turn and what it shares with others, the jobs that
work while a chat is quiet or at night, the agent runs, and the services whose
requests cross. TLC checks each model on small instances; TLAPS proves the theorems
listed below for every value of the constants. Every definition is translated from
the code in `src/`; the map in `PROJECT.json` names the lines each one stands for.
Paths below are relative to `src/core/server` unless they start with `features/` or
`components/` (in `src/core`), `packages/` or `docs/`.

Contents: [1 the system](#1-the-system), [2 modules](#2-the-modules),
[3 runs](#3-what-is-model-checked), [4 proofs](#4-what-is-proved),
[5 disagreements](#5-where-the-code-and-its-documents-disagree),
[6 known behaviour](#6-other-behaviour-met-on-the-way),
[7 not modelled](#7-what-is-not-modelled-and-why), [8 the plan](#8-the-plan).

## 1. The system

ash-core is a Next.js application that hosts assistants. One Node process runs the
dashboard, the schedulers, two queue workers and the platform connections
(transports) of every assistant; Postgres holds the mirror of the conversations
and all configuration, Redis holds the BullMQ queues and the pub/sub of refresh
pings. There is one process: concurrency is that of its event loop (every `await`
is a place where others run), of the two workers with 8 jobs each, of the platform
callbacks, and of the crash that loses everything in memory and nothing in Redis
and Postgres.

```
 platform --> connection (transports/host) --> queue "transport-updates"
                                                   |
                              ingest worker (ingest/consumer.ts)
                       mirror row, hold, presence, one turn per assistant
                                                   |
                                           queue "inbound-messages"
                                                   |
                               turn worker (turn/consume.ts)
              chain per chat -> run -> settle, retry policy, actions-started marker
                                                   |
          reply pipeline (features/bot-messaging): gate, tasks, generation, judges
                          |                                   |
             tool loop (llm/tool-loop.ts)            delivery (transports/host)
                          |                                   |
         priority gate (llm/priority.ts) --> LLM          platform; the sent message
                                                  comes back as an update ("delivered"),
                                                  and is fed to the other assistants

 beside the turns:  idle jobs (vision, search index)  <- activity of the chats
                    daily jobs (summaries, memory, insights, folds)  <- the clock
                    task poller, agent runner, trace store
                    dashboard: web chat, accounts and links, settings and backends
```

### Components

For each component: its state, its operations, with whom it interacts, what is
hard, and what makes it correct. `PROJECT.json` lists them all with what each
module covers; section 7 says what has none.

**Platform connections** (`transports/host/connections.ts`, `host.ts`).
*State*: per connection row a `Managed` entry (desired, startedWith, the live
connection, a retry timer, a status); a serialized queue of reconciles.
*Operations*: apply, start, stop, fail, retry, remove, closeAll, the status hook.
*Interacts* with the database (the desired state), the transport package
(`connect`, `close`, hooks) and ingest. *Hard*: a retry's start runs beside the
serialized reconciles; hooks carry no identity of the connection they come from;
every start has two awaits during which the row may change or go. *Correct when* a
wanted connection that is down is always being retried, an unwanted one never, an
open connection is one its entry can close, and the row's configuration wins.

**Edge of the host** (`transports/host/inbound.ts`, `updates.ts`). *State*: the
`SeenCache`. *Operations*: normalize, forward the first receipt of a message,
publish a presence for later ones. *Hard*: the same message reaches the process
once for every assistant in the group, and the cache is memory with a limit and a
time to live. *Correct when* every message opens each assistant's turn once.

**Ingest** (`ingest/consumer.ts`). *State*: the mirror (rows with a dedupe key),
the live-processing hold of a row, presence rows, a promise chain per chat.
*Operations*: message, presence, edit, reactions, delivered (with the cross-feed
to the other assistants), the settle of a turn (`releaseHold`). *Hard*: partial
failure between the row and its turns, redelivery after a crash, ordering against
the mirror. *Correct when* one turn is opened for each listener, in the order of
the mirror, and every hold has somebody to release it.

**Queues** (`packages/bus/src/queue.ts`; BullMQ is external). *State*: wait list,
delayed and active jobs, job ids, the stalled count. *Hard*: a stalled job is run
again after a crash whatever it had done.

**Turn consumer** (`turn/consume.ts`, `actions.ts`, `turn-events.ts`). *State*:
`chatChains`, the actions-started marker (`turn_actions`). *Operations*: run,
mark, act, settle, clear, check the marker, re-enqueue, give up. *Interacts* with
the queues, the pipeline, and, through the settled event, with ingest's hold.
*Hard*: a failure after the first outward action must not be retried; the retry
re-enters a chat that went on; every call the policy makes can fail itself; a
chained job holds a worker slot. *Correct when* a turn acts in one run, ends, is
settled when it ends, and keeps its hold until then.

**Reply pipeline** (`features/bot-messaging/server`). *State* of one turn: the
decision to answer, the task bindings the two matches share, the window, the tool
calls, the text, the trace. *Hard*: three judgements in a row, each with a retry
of its own that replaces the text the earlier ones saw; notices and fallbacks when
a send fails, perhaps after it arrived; bindings set by one match and read by
another. *Correct when* the chat gets one thing and never silence, the text it
gets was judged, and the run throws only while nothing has left the process.

**Tool loop** (`llm/tool-loop.ts`). *State*: rounds, the stall streak, the calls
seen, empty rounds. *Hard*: a `for(;;)` whose every exit depends on what a model
emits. *Correct when* it ends, stops a model that only repeats itself, and does
not replay work after a glitch.

**Priority gate** (`llm/priority.ts`). *State*: the number of interactive calls on
the wire, a flag for the single background call, two waiter lists. *Hard*: a
released waiter checks the gate again some microtasks after it was released, and a
newcomer may have taken the slot. *Correct when* no wake-up is lost and every call
gets through.

**Loop guard and cross-feed** (`turn/loop-guard.ts`, `handleDelivered` of
`ingest/consumer.ts`). *State*: none of its own: the trailing assistant messages in
the window a turn was opened with. *Hard*: several turns are opened on windows in
which the others' answers are not yet. *Correct when* assistants that hear each
other fall silent, with nobody writing at the limit.

**Typing loops** (`transports/host/delivery.ts`) and **run acknowledgements**
(`features/agents/server/ack.ts`). *State*: a loop per chat and message; an entry per
agent run. *Hard*: start and stop, register and take come in any order from parties
that do not know each other. *Correct when* no sign of work that somebody can still
take back outlives the work.

**Agent runner** (`features/agents/server/runner.ts`, `signal.ts`). *State*: the table
of runs, the drain loop, the advisory lock. *Operations*: enqueue, signal, drain,
claim, report, settle, sweep at boot. *Hard*: it has no timer, two processes overlap
in a redeploy, and a starting one fails what it finds running. *Correct when* a run
is executed at most once, its chat is told what the row says, and it ends.

**Task poller** (`features/tasks/server/scheduler.ts`, `repository.ts`). *State*: the
rows, the snapshot of a tick. *Hard*: a tick fires for minutes what it read at its
beginning while the rows are edited; a whole tick, or the tasks of one assistant, may
be held up. *Correct when* a task fires once per due instant, is settled as the fire
went, nothing that did not fire is deleted, and what was held up is served afterwards.

**Job primitives** (`jobs/idle-scheduler.ts`, `daily-scheduler.ts`,
`interval-scheduler.ts`, `lock.ts`). *State*: phase, timer and abort flag of an idle
job; the last run of a daily job. All in memory. *Hard*: activity during a run, "run
now" during a tick, restarts past the hour. *Correct when* a quiet chat gets its run
and a day its run, and never two where it matters.

**Vision** (`features/vision/server`, `source-store/media.ts`). *State*: the media
status, description and hold of a row. *Hard*: live turns and the backfill describe
the same picture, and any query may fail. *Correct when* all who asked are told one
description, the store's, live turns keep their pictures, and nothing the runs could
look for stays pending.

**Search index** (`features/history/server/index-messages.ts`,
`source-store/content.ts`). *State*: the index rows with their stamps. *Hard*: edits
and descriptions land between the fetch and the put; the stamps come from several
clocks. *Correct when* a stale row is due, and a rebuilt index has the vector of every
row with a text.

**Summaries** (`features/history/server/summarize.ts`), **memory**
(`features/memory/server`), **insights** (`features/analytics/server`). *State*: per day
topics and a marker in two stores; the queue of notes and the documents; scores,
roll-ups and the watermark. *Hard*: each reads, lets a model work for minutes, and
writes, while messages, notes, edits, imports and regenerations come in. *Correct
when* a counted day is covered, no fact that was told is lost and none removed comes
back, every owed hour stays above the watermark.

**Collections** (`features/collections/server`). *State*: rows with a key, cells, a
completeness flag and a vector; the list of columns. *Operations*: add, update,
delete, change of columns, import. *Hard*: a request writes cells of a copy it read
earlier, by columns that may have changed; a change of columns and an import go page
by page. *Correct when* the rows are what the requests told of, one per key, and flag
and vector are of the cells there are.

**Feedback** (`features/self-improvement/server`, `source-store/feedbacks.ts`). *State*:
one row per rated reply, the menus in the chat. *Operations*: reaction, menu, press,
free text, reflection, the two daily folds. *Hard*: presses come from the platform
directly, reactions over the chat's chain, folds from a job; all write by the row's
id. *Correct when* an answer stands, can be given, and is learnt once as it was said.

**Trace store** (`trace/store.ts`). *State*: open and settled traces, a file per month,
a cache of months in two tiers. *Hard*: flush, index, prune and scan all load months
and resume after the disk. *Correct when* a settled trace is never lost, and cache
and scan tell what the files hold.

**Web chat** (`features/web-chat/server`, `components/chat/ThreadsPage.tsx`,
`realtime`). *State*: thread, transcript, the turn under way, what a tab shows.
*Hard*: deliveries are detached from turns, reads of a tab overlap, pings get lost.
*Correct when* the tab shows the store, thinking means running, posts keep their
order, replies land, and a chosen name stays.

**Accounts and person links** (`features/accounts/server`,
`features/person-links/server`), **settings and backends** (`features/settings/server`,
`features/backends/server`). *State*: rows and caches. *Hard*: each request reads,
decides and writes in statements of its own, a save of a role after a listing of up
to ten seconds. *Correct when* an identity is in the link it was put in, an admin
stays, no role calls a model its backend does not serve.

### The hazards

`PROJECT.json` lists 40 hazards, each at its line, with the properties aimed at it
and what they exempt. The properties of section 3 were chosen from that list.
Hazards met beyond these are in sections 5 and 6.

## 2. The modules

One module per component, named after it. Compositions put components side by side
(`AgentWork`, `IdleJobs`, `TimedJobs`, `Services`), `MC*` modules give constants their
values where a `.cfg` cannot, `*_proofs` modules hold the theorems.

| module | code |
| --- | --- |
| `TurnConsumer` (proofs) | `turn/consume.ts` 858-936, `actions.ts`, `turn-events.ts`, `packages/bus/src/queue.ts`, `releaseHold` of `ingest/consumer.ts` |
| `TurnRun` | the contract between one run and the consumer (abstract) |
| `ReplyPipeline` (`Answers_proofs`) | `processInboundEvent`, `features/bot-messaging/server` |
| `ToolLoop` | `llm/tool-loop.ts` |
| `PriorityGate` (`Jobs_proofs`) | `llm/priority.ts` |
| `Ingest` (proofs) | `transports/host/inbound.ts`, `updates.ts`, `ingest/consumer.ts` |
| `ConnectionManager` (proofs) | `transports/host/connections.ts`, `host.ts` |
| `CrossFeed` | `turn/loop-guard.ts`, `handleDelivered` of `ingest/consumer.ts`, `transports/host/outbound.ts` |
| `TypingLoops` | `transports/host/delivery.ts` |
| `RunAcks`, `AgentRuns` | `features/agents/server/ack.ts`, `runner.ts`, `signal.ts`, `repository.ts` |
| `VisionBackfill` | `features/vision/server`, `jobs/idle-scheduler.ts`, `lock.ts`, `source-store/media.ts` |
| `SearchIndex` | `features/history/server/index-messages.ts`, `source-store/content.ts` |
| `DailyJob` | `jobs/daily-scheduler.ts`, `interval-scheduler.ts` |
| `TaskPoller` | `features/tasks/server/scheduler.ts`, `repository.ts`, `service.ts` |
| `Calendar` | `features/tasks/schedule.ts`, `scheduler.ts`, `features/history/summary.ts` |
| `DaySummaries` | `features/history/server/summarize.ts` |
| `MemoryNight` | `features/memory/server` |
| `Insights` | `features/analytics/server/insights.ts`, `repository.ts`, `watermark.ts`, `scheduler.ts` |
| `TraceStore` | `trace/store.ts` |
| `IdentityLinks` | `features/accounts/server`, `features/person-links/server` |
| `WebChat` | `features/web-chat/server`, `components/chat/ThreadsPage.tsx` |
| `ModelRoles` | `features/settings/server`, `features/backends/server` |
| `Feedback` | `features/self-improvement/server`, `source-store/feedbacks.ts` |
| `Collection` | `features/collections/server/service.ts`, `repository.ts`, `columns.ts` |
| `AgentWork` (proofs) | composes `ToolLoop` and `AgentRuns` |
| `IdleJobs` (`Jobs_proofs`) | composes `VisionBackfill` and `SearchIndex` |
| `TimedJobs` (`Jobs_proofs`), `MCTimedJobs` | composes `DailyJob`, `TaskPoller`, `Calendar`, `DaySummaries` |
| `ServiceRecords` (proofs) | puts `IdentityLinks`, `MemoryNight`, `Insights`, `ModelRoles` and `Feedback` side by side |
| `Services` (proofs), `MCServices` | composes these five with `WebChat` |
| `Answers` (proofs), `MCAnswers` | composes `ReplyPipeline`, `CrossFeed`, `RunAcks`, `TypingLoops`, `Collection` |
| `MCProcess` | composes `PriorityGate` and `TraceStore` |

How they meet. `ReplyPipeline` is one run of what `TurnConsumer` calls Run (Start,
Mark, Act, Return, Throw). The consumer's policy rests on two facts about a run:
it sets the marker before anything leaves the process, and it throws only while
nothing has left. `TurnRun` states them; `ReplyPipeline` is checked and proved to
implement it (`ImplementsTurnRun`, with `ended` mapped from the outcome).
`TurnConsumer` itself is more permissive: there a run may also throw after it
acted, since a bug or an out-of-memory error can make it, and the policy must
survive that. `Ingest` ends where `TurnConsumer` begins: its `turns` are the
arrivals, and the hold it takes is the `processed` of `TurnConsumer` and the `hold`
of `VisionBackfill`. `ToolLoop` and `PriorityGate` sit below one generation of
`ReplyPipeline`, which takes a generation as some number of tool calls, a text or a
failure. `CrossFeed`, `TypingLoops`, `RunAcks` and `WebChat` take the turns of a chat
one after another, as `TurnConsumer` runs them. The daily jobs run under `DailyJob`,
the idle ones under the scheduler and lock that `VisionBackfill` models.

Components that share no state are explored side by side in one instance: `part`
(`job` in `IdleJobs`) picks one at the start and the others stay as they are.
A property of such a module is a
conjunction by part, and the first one of each part carries its type invariant. The
five compositions with theorems leave the sizes of what is proved constants; the runs
give them values.

Some conventions. A variable marked *history* (or "what the properties remember")
records what happened for a property and is read by no action. A definition under a
comment *Mutation:* is not part of any specification: it is a plausible bug of the
definition below it, and the project's mutants substitute it to show that the
property it is aimed at would notice. Every bound is a CONSTANT whose comment says
*bound*. Reads that follow each other without anyone reacting in between are one
step; every write after an await is a step of its own.

**TurnConsumer.** A job `<<t, n>>` is attempt `n` of turn `t` (the BullMQ id is
`eventId` or `eventId:retry:n`). `Pick` is the worker's callback up to its chain:
the job occupies one of `Concurrency` slots from there on, also while it waits in
the chain. `Start`, `Mark`, `Act`, `Return`, `Throw` are the run; `Settle`, `Clear`
the success path of `handleInboundJob`; `CheckMarker`, `ReEnqueue`, `GiveUp` its
catch, each with the variant in which its own call fails and the code's default
for that (`CheckMarkerFails` takes the turn as acted, as `.catch(() => true)`
does). `Crash` empties the chains and turns the active jobs into stalled ones;
`Recover` and `Discard` are what BullMQ does with these under
`maxStalledCount = 1`, which `openWorker` leaves at its default.

**ReplyPipeline.** `turn` fixes what is known before the run (addressed or
undecided, content, voice, whose rights, which tasks are set) and never changes.
`pc` walks prepare, received, deciding, admitted, generating, judging, speak, send,
done; the verdicts of the analyzer, the matcher and the judges are choices. A text
is `plain`, `notes` (the model's deliberation) or `claim` (claims an action), the
only distinction the checks make. `Send`, `SendFails` and `ToolRuns` are the only
places where something leaves; `lost` counts the sends that reported a failure
although the message arrived. The web chat is handed its answer by a detached delivery
(`turn-events.ts` 51-59): here the hand-over counts as the arrival, and what may become
of it afterwards is in `WebChat`.

**ToolLoop.** One action per branch of the `for(;;)`: cap, a round that calls tools
(fresh or seen), an empty round re-asked, an answer, a failure, the forced last
answer. Calls without a name, which the code drops before it compares signatures,
are rounds of their own (`Malformed`).

**PriorityGate.** A call is `new` (about to check the gate), `waiting`, `woken` (its
promise resolved, its check still to come), `running` or `done`. `ReleaseNext` is
`releaseNext`, called when a call leaves the wire.

**Ingest.** A receipt `<<m, a, k>>` is message `m` as assistant `a`'s connection
gets it for the `k`-th time. `Forward` is the hook with the `SeenCache`, `Mirror`
/ `MirroredBefore` the insert with its dedupe key, `Resolve` the choice of the
receivers, `OpenTurn` one enqueue, `Consume` the two early returns that take a
message for something else (a feedback answer, a link code). `Over` takes a
message off its chat's chain, when its ingest ended or was cut short. A connection
receives a message twice at most (the `k` of a receipt): after a crash the platform may
give it again (`MaxRedeliveries`), as a job of its own, while the queue's own redelivery
runs the same job again (`Recover`). `broken` records which messages had their ingest cut
short, and by what.

**ConnectionManager.** One row. Attempt `n` is the `n`-th call of `start` and the
connection it may open; `Start` is everything up to its first await, `Stopped`,
`Connected`, `HandBack`, `ConnectFails` the continuations. `want` is the row;
reconciles are asked for by `Change` and run one at a time; `Retry` runs beside
them. `overlapped` records the entries two of whose starts ran at once.

**CrossFeed.** `opening` holds the turns enqueued and not composed, `turns` those that
have their window: the streak is read from that window, not from the chat. A send is
detached from its turn (`parts`), and its message reaches the others by a cross-feed
that may fail.

**TypingLoops, RunAcks.** A loop remembers which turn made it, so that the property can
tell whose work it shows. An acknowledgement goes out part by part (`Send`), and only
when the whole send has returned is it registered, by the id of its first part: that is
all `outbound.ts:68` returns. A send that throws (`SendFails`) returns no id, and a notice
of the error follows it; a voice bubble's id nobody registers (`Speak`). The run is the
one the turn registers for, the last it enqueued (`consume.ts:349`): earlier runs of the
turn find no entry. `Chunks` is a range `1 .. n`, the most messages a turn sends. The
entry of a run is "none", "ids" or "settled".

**AgentRuns.** Two processes, each with a drain loop (`pump`), one advisory lock, one
table. A run of a process goes through claim, report and settle; a kill stops it
anywhere. `left` are the runs an ending drain did not see.

**VisionBackfill.** Rows with a picture, live turns that hold them, up to two runs of
the idle job that overlap. Each run and each live describe reads, calls the model and
writes in steps of its own. A hold expires when its row is `Slow`. A query of a run may
fail (`QueryFails`): the run ends as if nothing were wrong, and its rows are `excused`. A
turn that lost the race for a row reads the text that won; when that read fails it is
told its own (`misread`).

**SearchIndex.** Time is left out, the comparisons of stamps are kept: whether a
description or an edit is later than the row, also for an edit whose platform stamp
is older than its arrival. A message may have nothing to index (`Wordless`, `Empty`): its
row is written without a vector, and a batch of such makes no call that could fail.

**DailyJob, TaskPoller, DaySummaries.** `DailyJob` lets time pass in slots; a tick is
shorter than a slot. `TaskPoller` keeps the snapshot of a tick beside the rows;
`raced` are the tasks written between a read and its settle. `paused` holds what makes a
tick end without firing: maintenance, no language model, the lock held elsewhere (or by
a pooled connection whose unlock failed, `lock.ts:59`), a database that does not answer;
`silenced` the tasks whose assistant belongs to a deactivated account, which a tick
passes over. A tick that cannot read the policy takes maintenance as off
(`StartTickBlind`); one that cannot read the accounts silences nobody (`ownership.ts:138`),
which here is a `Reactivate` before the read and a `Silence` after it. `DaySummaries` keeps the
number of messages a day's topics were built from beside the number its marker says.

**Calendar.** The unit is the hour, a day has four of them and a week two days; an
instant is an hour of UTC, and a zone is an offset that changes by an hour once. The
arithmetic is the code's: dates and weekdays are quotients and remainders, the
conversion guesses with one offset and refines once. The poller computes a run from
the instant and the zone its tick began with.

**MemoryNight.** A document is the set of facts it says; one person stands for all. The
fold keeps the copy it gave to the model (`base`, `folding`) while notes and edits
arrive.

**Insights.** A score is the number of the regeneration it belongs to, a roll-up the
set of hours it stands for: what matters is which hours are in, not their mood. One run
scores `MaxHours` hours, the oldest first, and rolls up `MaxPeriods` periods, the finest
first (500 and 800 in the code): hours beyond are the next run's, periods beyond are
nobody's (`spoiled`). The scan's cut spoils the periods of the hours it leaves out, until
the run that scores them rolls them up. A query that throws ends the run (`RunFails`), also
between the two deletions of a regeneration (`DropFails`).

**TraceStore.** Four loaders (the boot index, the flush, the prune, the scan), each
with the months it has before it, walk over a cache of two tiers and files whose
writes may fail or be cut short. The first load of the current month by
`startTraceStore` is left to the scan's loader, which does the same.

**IdentityLinks, ModelRoles.** Requests in flight: each has what it read and the write
it will make. `Befores` are the states there may be at the start, `Patches` the saves.
What crossed is remembered, so that a property can say what holds when nothing did.

**Collection.** One collection. A cell is empty or a value, a vector is the cells it was
made from, the ids of rows are in the order of creation. A request keeps the columns and
the row it read (in one step) until it writes; a column change goes page by page, an
import batch by batch. A page is the rows at some places of the order of creation, a batch
the records at some places of the document (`Before`, `First`, `Nth`): functions on ids
and places, where the code has arrays. `raced` are the keys written from a copy that was no longer true,
`torn` a column change that broke off or ran beside a write.

**WebChat.** A post is stored, named, answered and delivered in separate steps; a tab
reads on a debounced ping. Reads may answer in any order or fail; the stream may drop. A
day passes between two posts, and the window of the second leaves out what is older
(`aged`, `since`: the bound is computed from the time the post came). A delivery is detached from its turn and may fail
(`DeliveryFails`: its reply is lost, the turn settles all the same). A restart cuts
handlers, deliveries and reads; the turn that ran is run again or not (`TurnConsumer`
says when), before or after those that wait.

**Feedback.** One person, one chat. A row is a reaction's rating with its menu and its
answer; a press keeps the copy of the row it resolved until it writes. `crossedRows`,
`stale`, `astray` and `cutShort` remember which rows two handlers wrote across each
other, which changed under a fold, whose menu got lost, which fold was cut off.

## 3. What is model-checked

`PROJECT.json` lists twelve runs: ten that pass and two that TLC must find violated
(section 5). `CHECK_DEADLOCK` is off because every instance is bounded: once the
turns, calls, changes and faults are used up the system stops, and should.

| run | instance | states | properties |
| --- | --- | --- | --- |
| `turn_policy` | 3 turns of 2 chats, 2 slots, 2 attempts, any 2 faults short of a crash | 279,076 | `ActsInOneRun`, `SettledOrLost`, `HeldWhileLive`, `FirstRunsInOrder`, `EveryTurnEnds` |
| `turn_crash` | 2 turns of one chat, 2 crashes | 918,938 | `OneRunPerChat`, `RepeatsOnlyStalledJobs` |
| `ingest` | 2 messages, 2 assistants, 1 fault, 1 redelivery; assistants interchangeable | 1,787,119 | `TurnsAndHolds` |
| `conn` | 2 configurations, 2 changes, 2 failures, a shutdown | 1,149,684 | `RetryKept`, `NoRetryUnwanted`, `HeldAndConverges` |
| `process` | 4 interactive calls for 2 slots, 3 background calls; 2 traces of 2 months, 1 operation | 246,340 | `StoreAgrees`, `NoLostWakeup`, `TracesKept`, `CallsRunTracesLand` |
| `work` | 2 distinct calls and nameless ones, 8 rounds; 2 agent runs, 2 processes, 1 mishap | 397,379 | `StallGuard`, `NoReplayAfterGlitch`, `RowsTellTheRuns`, `WorkEnds` |
| `answers` | every kind of turn, 2 tool calls, window 2; 2 assistants at limit 2; up to 3 messages of an acknowledging turn; 3 turns at 2 messages; a collection with 3 requests, 2 at once, 1 failure | 626,647 | `TurnAccounted`, `HonestAnswer`, `TaskTurnActs`, `RetriesEndHarmless`, `ImplementsTurnRun`, `WorkTellsTrue`, `ExchangeEnds` |
| `idle` | 2 pictures, 2 overlapping runs, 1 crash; 2 messages, one empty, 2 edits | 450,218 | `OneDescriptionTold`, `NothingForgotten`, `IndexKeepsUp`, `JobsEnd` |
| `clock` | 2 days of 3 slots, 1 restart, 2 changes; 2 tasks, 2 attempts, 2 edits, 1 mishap or pause; 17 zones, 7 triggers, 1 change of zone; 3 days | 563,658 | `OneRunADay`, `SettledAsItWent`, `CountedDaysCovered`, `ClockServesAll` |
| `services` | below | 1,413,590 | `LinksKept`, `ChatKept`, `RolesKept`, `FeedbackKept`, `FactsAsTold`, `InsightsComplete` |
| `turn_rerun` | violated, section 5 | | `ActsInOneRun` |
| `memory_forget` | violated, section 5 | | `ForgetTakesNotes` |

### What each shows

**`turn_policy`.** Whatever single call fails (the marker cannot be written, read
or cleared, the retry cannot be enqueued, the settled event cannot be published),
a turn performs outward actions in one run at most; a turn whose last job is gone
was settled, or the call that would have settled it is the one that failed; a
group message's turn keeps its hold; the first attempts of a chat start in arrival
order; no turn is retried forever or starved by the slots and chains. Three turns
are the least with a pair in one chat, a stranger in another, and more turns than
slots; two attempts are the least with a retry and with a last attempt; two faults
let the second hit the handling of the first.

**`turn_crash`.** The chain is memory and the queue is not: after a crash the
recovered jobs still run one at a time per chat, and an action is repeated only by
a job BullMQ found stalled. Two crashes let one job be recovered and then
discarded, which `maxStalledCount = 1` distinguishes.

**`ingest`.** `TurnsAndHolds`: one turn for each assistant that listens
(`OneTurnEach`), in the order of the mirror (`TurnsFollowMirror`), and every hold has
somebody to release it (`HoldHasOwner`). With two assistants each message has two
receipts, in any order against those of the other; one fault is a crash, a failed
call, or a message the cache forgets; after a crash the platform may give one
receipt again. The assistants are interchangeable and only safety is checked, so the
symmetry is sound.

**`conn`.** A wanted connection that is down is always being retried, an unwanted one
never; what is open is held by its entry (`OpenIsHeld`, which leaves out the entries
that two starts overlapped in, section 5); and the entry converges to the row
(`Converges`). Two changes cover a row that goes and comes back (a new entry while
the old one's start is under way) and one that changes twice; two failures cover a
retry that fails.

**`process`.** The gate: more calls than twice the cap, so that releases meet waiters
and newcomers; three background calls, so that two wait while one runs. The traces:
`TracesKept` says that a settled trace is in the queue of the flush or in a file
(`SettledKept`), that a cached month says what its file says and the listing misses
no file (`CacheTellsFiles`), and that a scan returns each trace once
(`ScanTellsAll`), except where two loaders crossed, a line was cut, or a trace was
flushed meanwhile; `CallsRunTracesLand` is the liveness of both. Two
months are the least with an eviction when one is kept in full.

**`work`.** The loop: two distinct calls are enough to make progress after repeats and
to repeat after progress; eight rounds let the stall guard fire early or late, and
the cap fire without it. `StallGuard` is the guard as documented, for the streaks in
which every call has a name (section 6). The agent runs: `RowsTellTheRuns` says that
what is executed is running in the table, that a run waits only if an ending drain
left it behind (section 5), and that the chat was told what the row says. `WorkEnds`:
the loop is bounded, a run executes once, and ends.

**`answers`.** The data of a turn is finite once abstracted, so this is every turn:
only the tool calls and the window are bounded, and one call, respectively one
reduction of the window, more changes nothing the properties can tell apart.
`TurnAccounted` is four: the types, one text in the chat (`AtMostOneText`, one more
for every send that reported a failure and arrived all the same), never none
(`NeverSilent`), and a settled trace (`TraceSettled`). `RetriesEndHarmless`: the one
path on which deliberation reaches a chat is the one named (`NotesOnlyFromTheGate`),
an enforcement retry repeats nothing, and the turn ends. `WorkTellsTrue` is two.
`SignsFollowWork`: no acknowledgement the turn learned the id of stands after its run and
its turn are over, and none goes before (`NoAckStands`, with the exceptions of section 5);
a typing loop ends with the turn it shows, and the answerer is seen typing. Three messages
are the least with a split answer of two, cut by a failure, and a notice after it; the end
of the run falls before, between and after them. `RowsFollowTools`
(`Collection`): the rows are the keys and cells the requests told of (`RowsAsTold`,
`KeyTellsRow`), also after an import and a change of columns, `complete` and the vector
are of the cells there are (`CompleteTells`, `VectorTells`), and the cap holds
(`RoomKept`), each with what crossing requests can spoil named as its exception. Three
column lists trade a column or move the key; a cap of two rows is reached by two adds,
and a file has more keys than room; pages and batches are of one row, so that a request
comes between any two. `ExchangeEnds`: at the limit nobody adds
to a streak, beyond the turns already opened, and the chat falls silent.

**`idle`.** `OneDescriptionTold`: although the scheduler lets two runs overlap, the lock
keeps their bodies apart (`OneBody`); the backfill asks about no row a live turn still
holds, unless its hold grew old; and however many describe a row at once, every turn
is told the text the store keeps (`AnswersAgree`), but for a loser that could not read it.
`NothingForgotten`: when the scheduler rests, a row still pending after its turn is one
the job tried, one behind a whole batch of such, one that became eligible when no run
was to come, or one that was there when a run was skipped or a query of its own failed.
`IndexKeepsUp`: a row built from an older text is due (`StaleIsDue`, except a change
between fetch and put, section 5, or an edit slower than the rebuild), and after a
clearing every row with a text comes back with a vector, and a row without one never has
any (`RebuiltWithVectors`). `JobsEnd`: the runs end. Two runs are the
least that overlap; one picture is slow enough to lose its hold.

**`clock`.** `OneRunADay`: one run per run instant and no day without one, except after
a restart. `SettledAsItWent`: a task fires once, is deleted only after it fired, and
is switched off only after its attempts, except one edited while the tick had it; and
the calendar is kept (`Calendar`): the next run is the first instant ahead whose wall
clock shows the day and hour the task asks for (`NextFits`, `NextIsAhead`), a one-shot
comes through once (`OneShotOnce`), a message is summarised with the day it is counted
in (`LoadedWhereCounted`). The exemptions are the clock changes at midnight and the
moved or unreadable zone of section 5. The zones lie on both sides of UTC and change
at each hour of the day, so that a change meets every hour a task may ask for.
`CountedDaysCovered`: a day whose marker says its count has topics of that many
messages. `ClockServesAll`: a forced run comes, a due task is served once nothing holds it
up any more (no pause on, its assistant not silenced, for good), a bad day blocks no
other, the sweep ends. The mishap is a failed settle, a crash, a policy that cannot be
read, or a pause or silencing that may end at any time. Two days and three slots let the hour move before
and behind the present one.

**`services`**, by part:

- links: 2 accounts, 2 identities, 3 requests, 2 at once, from a link with or without
  the second identity. Memberships and rows agree (`LinksMakeSense`), what was joined
  is joined and what was parted is parted unless requests crossed (`LinksAsTold`), an
  active admin stays unless two changes crossed (`AdminStays`).
- web chat: 2 posts without a tab, with one event (a day among them) or one mishap; 1
  post and a tab with 2 reads, one of which may fail; 1 post and a stream that drops, a
  restart included. What is shown is stored, thinking is running, posts keep their order,
  replies land or are known to be lost, a chosen name stays.
- model roles: 2 requests that cross, or 3 one after the other, over 2 backends and a
  role the deletion check omits. A repointed role keeps no model its new backend does
  not list and loses none it does, and a cache tells the row, unless requests
  crossed; backends that a checked role names stand.
- feedback: 1 press slot, 2 reactions, 2 answers, 1 run; or 2 slots, 1 reaction, 2 runs
  and a mishap. An answer stands (`AnswerStands`), the menu in the chat can be
  answered (`StillAnswerable`), what is learnt is what was said (`LearntIsSaid`), once
  (`FoldedOnce`). A larger instance (2, 2, 2, 1: 4.4 million states) was checked by
  hand.
- memory: 2 facts of a person and 1 general, 2 notes a run, 2 edits. `FactsAsTold`: no
  noted fact is lost, none removed comes back.
- insights: 3 hours, 1 import, 1 regeneration, 1 fault; 2 hours and 4 periods a run.
  `InsightsComplete`: an owed hour is above the watermark, a roll-up is built from the
  rows there are. An import beside the seeded hour leaves more hours than a run scores,
  and two hours of two days touch five periods, more than a run rolls up.

### Fairness

- `TurnConsumer`: weak fairness of the queue as a whole, and per chat of the run and of
  the policy. BullMQ keeps serving while Redis lives, and every await of a run is
  bounded by a timeout (LLM requests, sends, tool calls), so a started run ends.
  Faults and crashes have no fairness.
- `ReplyPipeline`, `ToolLoop`: weak fairness of the whole next-state relation: an
  await settles, by success or by its timeout. No branch is promised, so
  termination does not rest on a model behaving well.
- `PriorityGate`: weak fairness per call: a call on the wire returns (its request
  has a timeout), and a resolved promise runs its continuation.
- `ConnectionManager`: weak fairness of the reconciles, of each start's
  continuations and of the retry timers. `Change`, failures, the hooks and the
  shutdown have none. `Converges` also assumes that in the end the row wants a
  connection, the host runs, and the last reconcile could read the database: the
  code does not retry a reconcile whose read failed.
- The jobs: weak fairness of what the process does by itself once it began: each
  step of a run (`VisionBackfill`, `DaySummaries`, `AgentRuns` per process), the fetch,
  put and failure of a batch (`SearchIndex`), the ticks and their steps (`DailyJob`,
  `TaskPoller`), the flush (`TraceStore`), the turns and sends of a chat (`CrossFeed`).
  A model call has a timeout, a timer that is armed fires. Messages, edits, faults,
  restarts and operators have none.
- `Ingest`, `Calendar`, `MemoryNight`, `Insights`, `RunAcks`, `TypingLoops`, `Collection`,
  `IdentityLinks`, `WebChat`, `ModelRoles` and `Feedback` are checked for safety only.

### Mutants

Every property of every passing run has a mutant in `PROJECT.json`, the merged ones
one for several of their parts: a definition of the module, changed as a plausible
bug would (a dropped guard, an off-by-one, a missing reset, a swapped order), that
makes TLC find this property violated under the run's own configuration.

## 4. What is proved

TLAPS checks these for every value of the constants, with no assumption but the
`ASSUME`s of the modules: bounds are natural numbers (positive where zero makes no
sense), sets of calls are finite and disjoint, `chatOf` and `msgOf` are functions on the
turns, a zone changes its clock by an hour at most, a weekly task names a day, a link
there is at the start joins two or more, one account at most, and leaves an account
out, the insights begin at one of the hours, no post is named 0, a turn answers one
message, a column list has its key among its columns, a document is a finite sequence of
records. TLC evaluates them in the runs.

| theorem | says |
| --- | --- |
| `TurnConsumer_proofs!TypeCorrect` | `Spec => []TypeOK` |
| `...!OneRunPerChatHolds` | two jobs of a chat are never in the handler at once, with any crashes |
| `...!ActsInOneRunHolds` | without a crash, a turn acts in at most one run |
| `...!SettledOrLostHolds` | a turn with no job left was settled, or a failed call or a crash lost it |
| `...!HeldWhileLiveHolds` | without a crash, and one turn per message, a hold lasts as long as its turn |
| `...!FirstRunsInOrderHolds` | without a crash, the first attempts of a chat start in arrival order |
| `...!RepeatsOnlyStalledJobsHolds` | with any crashes, a turn acts once more at most per job recovered |
| `AgentWork_proofs!StallGuardHolds` | the streak of rounds that ran nothing new stays under the bound |
| `...!NoReplayHolds` | no call runs after an empty round that followed work |
| `...!RowsTellTheRunsHolds` | the table says what is executed, who waits was left, nobody is settled in silence |
| `...!RunsOnceHolds` | a run is executed once, also by two processes |
| `Answers_proofs!PipelineImplementsTurnRun` | `Spec => ImplementsTurnRun`, the refinement |
| `...!HonestAnswerHolds` | a claimed action is backed by a tool call, or the gate missed it |
| `...!TaskTurnActsHolds` | a task's turn posts no text of its own and ends well only with a call |
| `...!TurnAccountedHolds` | one text, never silence, a settled trace |
| `...!RetriesHarmless` | deliberation comes only from the gate's retry, a retry repeats no tool call |
| `...!WorkTellsTrueHolds` | acknowledgements whose id the turn learned, and typing loops, end with the work; the rows of a collection are what was told |
| `Ingest_proofs!TurnsAndHoldsHold` | one turn for each listener, in the order of the mirror, no hold without an owner |
| `ConnectionManager_proofs!TypeCorrect` | `Spec => []TypeOK` |
| `...!NoRetryUnwantedHolds` | a removed entry's timer is off |
| `...!RetryKeptHolds` | a wanted connection that is down has a retry or a start under way |
| `...!OpenIsHeldHolds` | what is open is held, wanted and as configured, but for entries two starts overlapped in |
| `Jobs_proofs!OneRunADayHolds` | one run per run instant, one more per restart, no day without |
| `...!SettledAsItWentHolds` | a task fires once and is settled as it went; its next run is what the wall clock says |
| `...!CountedDaysCoveredHolds` | a day whose marker counts its messages has topics of that many |
| `...!BadDayBlocksNoneHolds` | a sweep that ends by itself leaves only failed days due |
| `...!OneDescriptionToldHolds` | one backfill at a time, away from live turns; a turn is told what is stored, unless its read of that failed |
| `...!NothingForgottenHolds` | at rest a pending picture was tried, or the activity since, a skipped run or a failed query accounts for it |
| `...!IndexKeepsUpHolds` | a stale row is due; in a rebuilt index every row with a text has its vector, and an empty one none |
| `...!TypeCorrect` | of the gate, `GateSpec`: the cap and the types of the two lists |
| `...!StoreAgreesHolds` | of the gate: the counters and lists agree with the calls |
| `...!NoLostWakeupHolds` | of the gate: nobody waits without somebody to wake them |
| `Services_proofs!FactsAsToldHolds` | no noted fact is lost, none removed comes back |
| `...!InsightsCompleteHolds` | an owed hour is above the watermark, a roll-up stands for the hours there are, unless a failure or a limit of a run kept it from that |
| `...!LinksKeptHolds` | links join what was joined and part what was parted, an admin stays |
| `...!RolesKeptHolds` | no role keeps a model its backend does not list or loses one it does; the caches tell the rows |
| `...!FeedbackKeptHolds` | an answer stands, a row that asks has its menu, what is learnt is what was said, once |
| `...!ChatKeptHolds` | what is shown is stored, posts are answered in order with the last day before them, an answer is stored once or its delivery failed, a chosen name stays |

### The arguments

**TurnConsumer.** `TypeOK` is inductive by itself; the work is in the sequences
(the tail and the append of a chain). For `OneRunPerChat`, `ChainInv` says that a
job in the handler is the head of the chain of its chat: two jobs of one chat in
the handler are then both that head. A crash empties the chains and takes every
active job out of the handler in the same step, which is why it keeps the invariant.
For `ActsInOneRun` the marker alone is not enough: it may be cleared while the turn is
not over, and another attempt of the turn may wait. `ActInv` adds that at most one job
of a turn is busy (`OneBusyJob`), that a turn which has not arrived has no job and did
nothing (`FreshInv`), that the wait list holds waiting jobs, each once (`WaitInv`), and
that a turn whose job is still before its action has not acted, while one that acted is
marked until its job is past the reading of the marker (`MarkInv`).

`Crashless` (no fault of the kind "crash") is a hypothesis of three theorems. With a
crash they are false: a recovered job starts over as if its turn had not acted
(section 5), a discarded one leaves its turn without an end, and a chat's chain is
built anew in the order of recovery.

- `SettledOrLost` follows a turn through its attempts: those it made are a beginning of
  the list (`AttemptsInv`), and one that is gone settled the turn, lost it to a failed
  call or a discard, or left a next attempt (`EndInv`). The last attempt that exists
  cannot have left one. No hypothesis: every crash is covered.
- `HeldWhileLive`: a settled turn has no job any more (`DoneInv`), and a hold is freed by
  a settled turn of its message (`FreedInv`). `OneTurnPerMessage` (`msgOf` injective)
  is a hypothesis because several assistants of a group share one hold, which the
  first of their turns frees (section 5).
- `FirstRunsInOrder` compares first attempts only, so it needs to know where the others
  are: the jobs that wait or are chained are where they should be (`PlacedInv`); first
  attempts are in arrival order in the wait list and in each chain (`QueueOrder`), and
  one that is past the wait list left no earlier one in it (`PassedInv`: the queue is
  first in, first out for all chats together).
- `RepeatsOnlyStalledJobs` is the one with crashes: `ChanceInv` bounds the runs that
  acted *and* the jobs that may still act by one more than the recoveries of the turn.
  A turn gets its chance when it arrives, hands it on when it is retried and spends it
  when it acts; a recovery adds to both sides. A run that acted cannot hand the chance
  on, because its turn is marked as long as the run is not settled (`MarkedInv`).

**ToolLoop.** `StreakInv` relates the history of rounds that ran nothing new to the
code's counter: the counter is at least as high as long as all calls of the streak
have names. `GlitchInv` says that after an empty round that followed work the loop
no longer runs tool rounds.

**AgentRuns.** A process that executes a run has the lock and the run in its hand
(`DrainInv`), so the other one executes nothing; before the last step of a run its chat
has been told, or that was tried (`ToldInv`). Both processes may have read the same
queue: what keeps a run from running twice is the claim, which takes only a row that is
still queued.

**PriorityGate.** `IInv` counts (`Counted`, `Flagged`), says what is queued
(`Queued`: each list holds exactly the waiting calls of its kind, once), and adds
the two halves of the wake-up argument: while an interactive call waits, the
running and the woken together fill the cap (`PeopleAwake`); while a background
call waits, something runs or is woken (`BackgroundAwake`). The hard step is a
release into a gate that a newcomer fills before the woken call looks: the woken
call goes back to the list, but the newcomer is on the wire and will release in
its turn.

**ReplyPipeline.** For the refinement, `RunStep` states what a step may do to the
mark, the actions and the end of the run, and is shown action by action; `RunInv`
says that a run that is not over has no outcome and that nothing is done before
`prepare` is left, the only place from which a run throws. For the answers, `AnswerInv`
carries the judgement along: from the moment an answer is about to be spoken until the
end, the text is not a claim or a tool was called or the gate let it pass, and neither
text nor count changes any more. `AccountInv` does the sums of `TurnAccounted`: until a
text is sent for good, the posts are those whose send was reported failed. `NotesInv`
says that deliberation in hand after the judges is the text of the gate's retry.

**RunAcks, TypingLoops.** `AcksTypes`: what an entry names or is being deleted is in the
chat under an id the turn learned, and a turn learns one id, with which its sending is
over. `AcksKept`: until something excused it, a message of such an id is in the entry,
being deleted or refused; a run that is taken left no entry, and a marker as long as the
turn may still register. `TypingInv`: only the turn that runs has asked for the
indicator, and a loop belongs to a turn that is not settled.

**Collection.** `CollectionInv` has four parts beside the cap. `RowsShape`: every row has
its own key. `RequestsInv`: a request agrees with itself (its key is that of its values,
its values are what it gives laid over what it read), and counted room right: what it saw,
what it is about to insert and the room it has left stay within the cap. `ToldInv`: a row
nobody wrote from a stale copy holds the cells last told, but those of a column that a
change under way drops and has passed it with (`Sound`); a change that has not come to it
will, and copied no cell as empty that was filled since (`Spared`), so that what it writes
there changes no cell that stays. `FlagsInv`: while nothing is torn, the one change there
is works on the rows as they are, and those it passed have the flag of the columns to
come. That a change has passed a row when its last page is written, and that a batch
inserts one row for each record, is counting: `EachPlace` says that a finite set of
numbers has one member at each place (no two at one, and as many places as members),
`LastPage` that a page not full is the last; `Least`, from the order of the numbers being
well-founded, finds the first of what is left.

**Ingest.** The wait list holds waiting jobs, each once, and a receipt still due has no
job (`JobInv`). Only the head of the chain ingests; its message is the last of the mirror
and has turns only for the receivers it is done with (`RunInv`), whatever receipts of it
come again. A message is mirrored once, and before it has turns (`TurnInv`).

**ConnectionManager.** The two retry properties are almost inductive: `RetryKept`
needs to know that a start under way is not ended by somebody else's step, which
holds because what an entry holds is never an attempt still being started
(`HeldIsUp`) and attempts not yet made are blank (`Fresh`). `TypeOK` needs `Rows`:
an entry is made only for a row that was new or off before, so there are never
more entries than changes. `OpenIsHeld` speaks of entries no two starts of which ran at
once: there a start under way is the only one and its entry holds nothing
(`StartsAlone`), and what is being closed for a wanted entry is awaited by the start that
replaces it (`ClosingAwaited`), so that a late hook of the old connection finds no new
one to let go of. An entry in the map is wanted until it is removed (`RowWanted`): no
start begins for one that was.

**DailyJob.** The stamp of the last run is the only memory of the code, and a restart
loses it. `StampInv` counts the runs of each instant of the day against the restarts
and the stamp; `LookInv` says that a stamp of today stands for a run of today, and that
a ticker that has looked left nothing undone, which the end of a day needs.

**TaskPoller.** What the tick settles by is its snapshot: a task not raced is in the
table as the tick read it (`ReadInv`). `SpentInv` keeps the books (a one-shot still in
the table came through only if its settle failed or is to come), `StoppedInv` says that
what the poller switched off had its attempts and did not come through. A pause (no LLM,
the lock elsewhere, a silenced assistant) starts no fire and writes no row, so it
disturbs neither; `PauseInv` is its type.

**Calendar.** This is arithmetic, proved for every zone, trigger, length of day and
week. Instants are written as a day and an hour (`Divided`, `DayAndHour`,
`DaysApart`), the conversion of a wall-clock time is computed for both offsets
(`Converts`), and `FirstAsked` says once for all kinds of task that the first day asked
for whose run is ahead gives the first instant ahead whose wall clock fits
(`FirstFits`); `WithinAWeek` finds that day for a weekly task. `NextRun` is the function,
`NextInv` its result in the row between two computations.

**DaySummaries.** `SweepInv` accounts for the days a run took up (done, failed, and what
is left of its page, `taken`) under its bound; `MarkerInv` relates marker and topics,
which are written one after the other: between the two, the topics are what the run
read. A sweep is fair to its days because of what a page is: the first due days
(`FirstFew`), full if it leaves one out (`PageIsFull`).

**VisionBackfill.** A run in its body has the lock (`LockInv`), what it fetched stays no
live turn's (`HoldInv`, `FetchInv`), and nothing that was stored changes (`Kept`), so
what a turn was told stays true (`ToldInv`), but for the turns whose read of the stored
text failed (`misread`): those answer with their own. `NothingForgotten` needs the books
of a run, its failures included (`TriedInv`), and says where the next run comes from
(`RestInv`): an abort leaves the timer armed, a run that ends by itself found every
row it lists among those it attempted (`LastScan`), and one whose lock, count or list
failed excuses the rows there were. Its hypothesis is that one run may
take up every picture (`NRows <= MaxRows`, 200 in the code): what is beyond waits for
the next activity.

**SearchIndex.** `StaleInv`: while a batch is being embedded, what was picked is the text
of now unless a change was missed; a row behind its message is due or its change was
missed. The missed changes are those of section 5. `VectorInv` follows the model: a
rebuilt index is rebuilt by runs that read one, and a row has no vector if its text is
empty, with a model or without.

**MemoryNight.** A document is read, given to the model and written, with notes and
edits between. `LossInv`: what it says beyond the copy given away was written meanwhile,
and what was folded in stands in it or was removed again; `RemovedInv`: a removed fact
that is anywhere again was on its way when it was removed. `PassInv` and `OwnInv` say
what one step of the night leaves to the next, and that nothing is anywhere that nobody
said.

**Insights.** A run reads the floor, scans from there to the present, scores what is
owed, moves the watermark and rolls up the periods it touched, while hours pass, an
import brings old ones and an hour is regenerated. `FloorInv`: the watermark, and the one
the run read, stay `Safety` hours behind the present, so an hour that has just passed is
above it. `ScanInv` follows an hour that is owed: it is on its way or came while a scan
was open, or it is above the floor, in what the scan under way still has to read, and in
its list or beyond what it may move the watermark past. An hour the limit of a run left
out of the list is later than all that are in it (`ScanTakesOldest`: the list is made of
the hours with fewer than `MaxHours` older ones), and the watermark stops at the first.
`RollupInv`: a period's row that does not stand for its scored hours was spoiled (by a
failure or by the limit of periods) or narrowed, is touched by the run, or holds an hour
the run scores or will find. At rest nothing is touched and nothing scored.

**IdentityLinks.** Each request in flight holds what it read and what it will write
(`LinkTypes` says what it can hold at which step). `SenseInv` needs nobody to be alone:
what a request is to write joins two or more and one account only, unless an operator
wrote that link, because a member taken from another link brings only itself. The rest
holds while nothing crosses. `CrossInv`: a matter (links, codes, accounts) that nothing
crossed has one request in flight. `FreshInv`: what this request read still stands, whom
it told so is linked, what was parted is apart, an account that is gone is in no link of
its own. `CodesInv`: a code about to link somebody has linked nobody, one that has is
burned or about to be, and a mint has retired the codes of its account. `AdminInv`:
whoever demotes, deactivates or deletes an admin leaves another.

**ModelRoles.** `JobsShaped` says what a request holds where it is: above all that the
roles a save has proven, has failed to prove and has still to check are all those it
repoints, also after its patch has grown by the models it clears (`RepointedLess`).
`Caches` needs nobody to be alone: a value on its way to a cache is the rows' or they
were written since (`OnTheWay`), and a backend about to be created has no row
(`CreatesNew`). `Uncrossed` is what one change at a time adds: what it read is what the
rows say, a proven role is cleared in its patch if and only if its backend does not
list its model (`UpToDate`, `Proven`), and every unlisted model is excused or pending in
an edit that moved the endpoint and has not come to its roles yet (`Pending`). A change
that meets no other finds nobody else's books to keep (`Alone`), so that its write can
be judged by itself (`UpsertSound`).

**Feedback.** Presses, a text, the reaction's own chain, a reflection and a fold each hold
an old copy of a row they write by its id. Three books carry the proof. Menus: an id is
issued to one row, and by one reaction (`IssuedInv`), so that whoever deletes a menu
that was answered deletes no other row's (`IsTold`), and a row that still asks has the
menu of its last reaction, sent or about to be (`MenuInv`). Handlers: one that is about
to write a row nobody crossed knows its sign and finds it unanswered (`HandlerInv`); the
answers under way leave room below the bound (`RoomInv`), and a row's answer is one that
was stored for it (`FeedbackRows`). Learning: what the run and the reflections work on
is the answer their rows have, unless the row changed since (`BatchInv`), and a version
with an answer was written once and its row is stamped, or is on the run's list of
stamps, or the run was cut off in between (`FoldInv`). A crash drops every handler and
the run in one step, which is why the three books survive it.

**WebChat.** What the tab shows is judged when all is quiet, so the invariant has to say
what holds before: the last read that was started has what is stored, as far as it got,
unless a ping armed the timer since, one was lost, or one is owed by a message stored
and not yet queued or by a deletion half done (`ViewTells`); an older read is marked
once a newer one was shown, and those that are marked come first (`OldReads`). For the
order, `HandlersAlone` says that a handler nobody overlapped is the only one, so that
its message is the last of the transcript until its turn is queued, its window is what
was there before it, and the turns in the queue have their messages in that order
(`InOrder`), and that window holds every line of the last day before the message
(`HasWindow`; lines only age, so what is older than a day now and was not when the post
came is in it). `Transcript` and `PostTurns` count: one line for a message, one for an
answer, one turn for a post. A restart cuts the handlers, the deliveries and the reads
in one step; the turn it cut off may be run again, after those that wait, and then
(`again`) its answer may be there twice. A failed delivery leaves no line, a failed read
leaves the tab behind if no newer read is to come. Whether the thread still exists is
asked at each of them, since its deletion takes the lines and leaves the turns.

**Only model-checked.** Of the safety properties: `TracesKept`. The
type invariants of `TurnConsumer`, `PriorityGate`
and `ConnectionManager` are proved, and no run repeats them. Liveness (`EveryTurnEnds`,
`CallsRunTracesLand`, `HeldAndConverges`, `WorkEnds`, `JobsEnd`, `ClockServesAll`,
`ExchangeEnds`, `RetriesEndHarmless`) needs ENABLED and stays with TLC; of
`HeldAndConverges`, `WorkEnds`, `ClockServesAll` and `RetriesEndHarmless` the safety half
is proved (`OpenIsHeldHolds`, `RunsOnceHolds`, `BadDayBlocksNoneHolds`,
`RetriesHarmless`). Anything that needs induction over data or
RECURSIVE operators would stay with TLC too; no module uses either.

## 5. Where the code and its documents disagree

Two of these are runs that TLC finds violated.

1. **A crash repeats what a turn did** (`turn_rerun`). `docs/architecture/data-model.md:607`
   says of the markers "nothing double-sends or double-executes", and
   `packages/bus/src/queue.ts:8` that the queue never retries a job on its own.
   `openWorker` (`queue.ts:44`) leaves `maxStalledCount` at BullMQ's default: a job
   active in a crash runs again, and `handleInboundJob` reads the marker only in
   its catch, after the second run acted.
2. **Forgetting a person leaves their notes** (`memory_forget`).
   `features/memory/server/repository.ts:180`: "Their pending notes cascade away with the
   row." (also `docs/features/memory.md:203`, `docs/api/README.md:232`). `memory_entries`
   refers to no row of `user_memories`: the queued notes stay, and the next night
   writes the document again.

The others were met while modelling. The models contain the behaviour; the property
named, if any, exempts exactly it.

*Turns and connections*

- The first of several turns frees the message's hold: one hold per row, one turn per
  assistant, `releaseHold` (`ingest/consumer.ts:721`) when any settles, against
  `features/vision/server/repository.ts:339` "never work in flight".
- A message cut short is taken for one handled: `ingest/consumer.ts:302` "already
  mirrored, and its turns already enqueued". The row is inserted first; the recovered
  job finds it and opens nothing.
- Two connections of one row: `docs/architecture/message-pipeline.md:49` promises one. A
  retry's start and a reconcile's start await `connect` at once; the one that resolves
  last overwrites the other, which stays open with nobody to close it (`OpenIsHeld`).
- A delivery tool on an ordinary turn: `turn-bindings.ts:166` says it is offered none;
  `applyStandingTasks` sets `taskOpenedTurn` also when somebody addressed the turn.
- The loop guard promises that every assistant stays silent; turns opened before the
  limit was reached answer past it.

*Jobs*

- `jobs/idle-scheduler.ts:100` "only ever ONE run at a time": a timer armed during a
  run may fire before the run noticed its abort.
- `daily-due.ts` calls the job idempotent across restarts; the stamp is in memory, and
  after a restart past the hour the day is run again.
- `features/tasks/types.ts:123`: a task paused or deleted while a tick has it in its
  snapshot still fires.
- `features/tasks/schedule.ts:152` "Next firing instant ... at or after `from`": where the
  clock skips the first hour of a day, west of UTC, the instant computed for that hour
  lies before the change, the daily and weekly branches do not compare it with `from`
  (192, 212), and the task fires at every tick of that hour, against
  `scheduler.ts:142` "so it doesn't busy-loop" (`NextIsAhead`).
- `scheduler.ts:141` "a spent one-shot ... can never fire again": it is spent when its
  instant, computed again with the zone of the tick, has passed. After a move to a zone
  further west, or in a tick that could not read the setting and takes UTC (264), it
  is moved to the later instant and fires again (`OneShotOnce`).
- `schedule.ts` 228-229 "an interval advances from the fire that just settled, so a slow
  fire drifts": it advances from the start of the tick (`scheduler.ts:184`), so after a
  fire slower than the period the task is due at once.
- Where the clock changes at midnight the bounds of a day (`history/summary.ts` 157-166)
  and the date a message is counted under (`content.ts:463`) differ by an hour: the
  count never equals the marker, and the day is summarised every night
  (`LoadedWhereCounted`).
- A change that lands between the fetch and the put of an index batch is older than
  the row and never indexed (`source-store/content.ts` 500-512).
- `features/agents/server/signal.ts` 6-8: a run inserted while a drain ends is not picked
  up until the next signal (`runner.ts` 595-627).
- `ack.ts` 60-61 "a reply may deliver several chunks, each registering": a send returns
  the id of its first part (`transports/host/outbound.ts:68`), and none when it throws;
  the later parts of a split acknowledgement, those of a send that failed and a voice
  bubble are never registered and stay in the chat. Of several runs of one turn only the
  last is registered for (`NoAckStands` speaks of the ids the turn learned).
- `features/vision/server/service.ts:402`: a turn that lost the race to describe a picture
  answers with the stored text, unless its read of that fails; then with its own, which
  nobody stored (`OneDescriptionTold`).
- A backfill run whose lock, count or list query fails ends like one that is done
  (`features/vision/server/backfill.ts` 156-160): nothing re-arms the timer, and the
  pending rows wait for the next activity (`NothingForgotten`).
- `features/analytics/server/insights.ts:389` cuts the list of periods at 800, the
  coarsest first: their hours are scored by then, so no later run touches them again
  until an hour of theirs is scored anew (`RollupsExact`).
- `features/analytics/server/repository.ts` 225-228: a regenerate that dies half-way "is
  picked up by the next nightly run". When its second deletion throws, the watermark was
  not reset: the dropped hours lie below it until a restart, an import or another
  regeneration (`OwedIsSeen`).
- Regenerating one hour drops the period rows of its day, those of the sibling hours
  too, and only what the owed hour touches is rolled up again, against "exactly the
  same number as averaging the underlying hours" (`features/analytics/server/insights.ts`
  66-68, `docs/features/analytics.md` 132-135). `RollupsExact` exempts these periods.

*Trace store*

- `store.ts:18` puts a trace in "exactly one of three places"; a stale install loses a
  flushed trace from the cache or holds it twice; a listing read before a flush is
  installed after it, against "cannot go stale behind us" (68-70); a scan counts a
  trace twice that is flushed meanwhile.
- A prune during a flush makes the flush throw (547), and its batch is written twice;
  a cut tail swallows the first line of the next append; any error of `readFile` is
  taken for a missing file (221-228).
- `stopTraceStore` returns at once when a flush is under way (506-508), against "a
  graceful shutdown flushes first" (21).

*Links, settings, web chat*

- Two redeems of one code at once link two identities; two edits of a link at once
  lose one of them; a redeem reports "linked" when the link vanished; two admins who
  demote each other leave none (`LinksAsTold`, `AdminStays`).
- `rolesUsingBackend` (`features/backends/server/service.ts` 67-80) leaves out the
  classifier and background roles, against "Refused (409) while any settings role
  points at it" (169-174): the database's restrict refuses with another error.
- Two crossing saves of a role clear a model just chosen or leave one its backend does
  not serve; a late install leaves a cache stale until its time to live, against
  settings `repository.ts` 109-116. An inherited chat model on a role's own backend,
  and a change of a backend's type, are not verified at all.
- Overlapping posts get windows with later messages and turns out of transcript order;
  a post whose enqueue fails leaves a stored message nobody answers; two first posts
  leave a thread unnamed.
- `delivery.ts` 32-34 and `turn/consume.ts` ~804: the settle ping, or the picture, may
  come before the reply is stored, since the delivery is detached
  (`turn-events.ts` 50-60). A stream that reconnects reads nothing again, and reads
  that overtake each other show the older answer (`ShownIsStored`).
- A delivery that throws, or is cut off by a restart, loses the reply: the error is the
  trace's, the turn has ended as answered (`turn-events.ts` 54-59; `RepliesLand`). A read
  of a thread that fails is not repeated, and the tab stays as it was until the next
  ping (`components/chat/ThreadsPage.tsx` 315-317).

*Collections*

- `store/schema.ts:1685` "`key_value` is the key column's value": an add that updates an
  existing row writes the cells and not `key_value` (`service.ts` 408-421), so beside a
  rename of the row the two part (`KeyTellsRow`).
- `schema.ts:1685` "a write with an existing key updates the row": of two adds of one new
  key at once the second fails on the unique index.
- `schema.ts:1687` "`complete` is derived on every write": a write by the columns read
  before a column change leaves the flag of the old columns. `reshapeRows` pages by
  offset, so a row deleted meanwhile makes it pass over another; and it writes the rows
  before the column list, so a failure between leaves the old columns without the cells
  the new ones dropped (`CompleteTells`, `RowsAsTold`).
- Crossing requests write the cells of a copy over each other's; inserts that count on
  the same room exceed the cap (`RoomKept`); an import counts an update of a row deleted
  meanwhile as done (`service.ts` 793-800).

*Feedback*

- `source-store/feedbacks.ts` 67-73 "a repeat reaction asks again and the fresh answer is
  reflected on": a reopened row answered while a fold or a reflection holds the old
  copy is stamped, or reflected on, for the old answer (`LearntIsSaid`).
- `collect-menu.ts` 19-21: a menu posted for one sign and pressed after a reaction of the
  other sign is decoded by the row's new sign. "Other" on an older menu asks for a
  text in reply to a menu the row does not know; a menu that cannot be sent leaves the
  row without one.
- A reaction is deduplicated by its content for ten minutes (`connections.ts` 257-264), so
  a return to an earlier one in that time is lost; after the cache forgot it,
  `updates.ts:47` ("deduped by the core's store ... anyway") is not so for reactions.
- `scheduler.ts:21` "The run is idempotent": a failure between the insert of a fold and
  its stamp folds an answer twice.

## 6. Other behaviour met on the way

- A retry re-enters its chat behind later turns; `turn/consume.ts:892` says turns of
  a chat are "strictly ordered". `FirstRunsInOrder` covers first attempts only.
- `llm/tool-loop.ts:398` drops a call without a name before its signature is added
  to the seen ones: a streak of such rounds is taken for progress and only the
  round cap ends it. `StallGuard` exempts these streaks (`streak = "odd"`).
- The text of the honesty gate's retry (`service.ts:1148`) is not checked for
  integrity: `NotesOnlyFromTheGate` says it is the only such path.
- A tool call that failed counts as a call (`service.ts:1129`): it satisfies
  `TaskTurnActs` and the honesty gate.
- The rights an unaddressed match lent stay when the addressed match after it fails
  (`service.ts:638`).
- A voice turn whose collaborators cannot be built throws with its trace running
  (`turn/consume.ts:781`).
- `host.ts:211`: `close()` does not wait for the reconcile under way.
- `updates.ts:57`: the cache remembers a message before it is published; a failed
  publish loses it for every connection (`PublishFails`).
- Hooks normalize and publish one by one, so an edit may overtake its message, which
  still downloads its media (`transports/host/connections.ts` 230); it finds no row and
  is lost.
- The receivers of a message are the connections that ran when it was received, the
  presence rows those of the moment it is handled (`ingest/consumer.ts` 235-251).
- `chains` and `chatChains` keep an entry for every chat there ever was: the finally
  compares with a promise the map never held (`ingest/consumer.ts:787`,
  `turn/consume.ts` 904-936).
- A one-shot task whose deletion fails after it fired, or that a crash finds there, fires
  again (`features/tasks/server/scheduler.ts:195`).
- `priority.ts:136`: a released call that finds the gate shut queues at the end, so
  the lists are FIFO only among calls that were never released.

## 7. What is not modelled, and why

Within the modelled components: the text of prompts and answers, traces other than
the reply trace's end, voice synthesis (a send that fails or not), retention in the
queues, media download, token refresh, time itself (delays are enabled from the
start, timeouts are choices). `Ingest` has no edits, reactions and delivered messages
(`CrossFeed` and `Feedback` take the last two from there on), nor private chats. Rows
of connections do not interact in `ConnectionManager`: in the code one reconcile
visits them one after the other, which only delays. `WebChat` leaves out media, voice,
files and the expiry of a stale turn; `IdentityLinks` leaves out sessions, passwords
and the creation of accounts; `ModelRoles` the settings that are plain values;
`TraceStore` the recorder and the queries.

Without a module, each with its reason in `PROJECT.json`: the assembly of MCP tools,
the HTTP of the LLM clients, the adapters of the core API, documents,
the tools of one call each, media conversion, the packages of schemas and types, the
pages of the dashboard other than the chat. They keep no state between calls, or one
row changed by one statement, or hand everything to an external program: a model of
them would restate the code. The map therefore stays well below the whole source:
most of what it leaves out is user interface, CRUD, conversion, schema and prompts.

## 8. The plan

Done first: `TurnConsumer`, `ToolLoop`, `ReplyPipeline` with `TurnRun`, `PriorityGate`,
`Ingest`, `ConnectionManager`, and the theorems of section 4, because a wrong reply, a
lost turn or a double action shows there. Then the jobs (`VisionBackfill`,
`SearchIndex`, `DailyJob`, `TaskPoller`, `Calendar`, `DaySummaries`, `MemoryNight`,
`Insights`), what surrounds a turn (`CrossFeed`, `TypingLoops`, `RunAcks`, `AgentRuns`,
`TraceStore`), and the services (`IdentityLinks`, `WebChat`, `ModelRoles`, `Feedback`, `Collection`).

Next theorem: `TracesKept` (`TraceStore`, in a composition with `PriorityGate`).

Next modules: the mirror of a chat with edits, reactions and delivered messages beside
`Ingest`; a composition of `Ingest` and `TurnConsumer` over the shared hold; the expiry
of a stale turn in `WebChat`; the retries of the LLM clients.

Abstract specifications worth stating beside `TurnRun`: a FIFO of turns per chat
that `TurnConsumer` without faults implements; a semaphore that `PriorityGate`
implements for the interactive calls.
