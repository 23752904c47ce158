---------------------------- MODULE TurnConsumer ----------------------------
(***************************************************************************)
(* The inbound-turn consumer: the queue "inbound-messages", the worker     *)
(* that picks its jobs, the promise chain that runs a chat's turns one     *)
(* after the other, and the retry policy of handleInboundJob with its      *)
(* actions-started markers (core/server/turn/consume.ts, actions.ts,       *)
(* turn-events.ts, packages/bus/src/queue.ts).                             *)
(*                                                                         *)
(* A turn is numbered by its arrival: turn t was enqueued before turn t+1. *)
(* A job is a turn with an attempt number, as its BullMQ id encodes it:    *)
(* "eventId" for attempt 1, "eventId:retry:n" for attempt n.               *)
(***************************************************************************)
EXTENDS Naturals, Sequences, FiniteSets

CONSTANTS
  NTurns,       \* how many turns arrive
  Chats,        \* the chats
  Messages,     \* the mirrored messages the turns are about
  chatOf,       \* the chat of a turn
  msgOf,        \* the message a turn answers (a group message opens several)
  Concurrency,  \* jobs the worker processes at once (8 in the code)
  MaxAttempts,  \* tries of a turn that performed no action (5 in the code)
  MaxStalls,    \* BullMQ's maxStalledCount, left at its default (1)
  Faults,       \* the kinds of infrastructure fault a run considers
  MaxFaults     \* bound: how many of them happen

Turns == 1 .. NTurns
Jobs == Turns \X (1 .. MaxAttempts)
FaultKinds == {"mark", "has", "clear", "add", "publish", "crash"}

ASSUME ConstantsAssumption ==
  /\ NTurns \in Nat
  /\ chatOf \in [Turns -> Chats]
  /\ msgOf \in [Turns -> Messages]
  /\ Concurrency \in Nat \ {0}
  /\ MaxAttempts \in Nat \ {0}
  /\ MaxStalls \in Nat
  /\ MaxFaults \in Nat
  /\ Faults \subseteq FaultKinds

VARIABLES
  arrived,    \* how many turns have been enqueued
  job,        \* the state of each job
  wait,       \* BullMQ's wait list, oldest first
  chain,      \* each chat's promise chain: the picked jobs, the running one first
  marks,      \* turns with a row in turn_actions
  settled,    \* turns whose "settled" lifecycle event was published
  processed,  \* messages whose live-processing hold is released
  runs,       \* history: how many runs of a turn performed an outward action
  lost,       \* history: turns whose settle was lost with a failed call
  stalls,     \* how often a job was found stalled
  faults      \* how many infrastructure faults happened

vars == <<arrived, job, wait, chain, marks, settled, processed, runs, lost,
          stalls, faults>>

(***************************************************************************)
(* The states of a job.  A picked job is chained behind the earlier turns  *)
(* of its chat; runTurn then runs, marks and acts until it returned or     *)
(* threw.  handleInboundJob either settles and clears, or reads the marker *)
(* and re-enqueues (retrying) or gives up (givingUp).  A leaving job has   *)
(* left the chain and only its completion in Redis is missing.             *)
(***************************************************************************)
Running == {"running", "marked", "acted"}
InHandler == Running \cup {"returned", "threw", "retrying", "givingUp", "settled"}
Active == InHandler \cup {"chained", "leaving"}
Pending == {"waiting", "delayed", "stalled"}
JobStates == {"absent", "over"} \cup Pending \cup Active

turnOf(j) == j[1]
attemptOf(j) == j[2]
chatOfJob(j) == chatOf[turnOf(j)]

\* A turn is live while one of its jobs is still to run or to be settled.
LiveStates == Pending \cup (Active \ {"settled", "leaving"})
Live(t) == \E j \in Jobs : turnOf(j) = t /\ job[j] \in LiveStates
Arrived(t) == t <= arrived

Init ==
  /\ arrived = 0
  /\ job = [j \in Jobs |-> "absent"]
  /\ wait = << >>
  /\ chain = [c \in Chats |-> << >>]
  /\ marks = {}
  /\ settled = {}
  /\ processed = {}
  /\ runs = [t \in Turns |-> 0]
  /\ lost = {}
  /\ stalls = [j \in Jobs |-> 0]
  /\ faults = 0

\* An infrastructure call of the given kind fails.
Fault(kind) ==
  /\ kind \in Faults
  /\ faults < MaxFaults
  /\ faults' = faults + 1

(***************************************************************************)
(* The queue.                                                              *)
(***************************************************************************)

\* Mutation: the queue is last in, first out.
ArriveInFront ==
  /\ arrived < NTurns
  /\ arrived' = arrived + 1
  /\ job' = [job EXCEPT ![<<arrived + 1, 1>>] = "waiting"]
  /\ wait' = <<<<arrived + 1, 1>>>> \o wait
  /\ UNCHANGED <<chain, marks, settled, processed, runs, lost, stalls, faults>>

\* enqueueInboundEvent: one job per turn, first in first out.
Arrive ==
  /\ arrived < NTurns
  /\ arrived' = arrived + 1
  /\ job' = [job EXCEPT ![<<arrived + 1, 1>>] = "waiting"]
  /\ wait' = Append(wait, <<arrived + 1, 1>>)
  /\ UNCHANGED <<chain, marks, settled, processed, runs, lost, stalls, faults>>

\* BullMQ: the delay of a re-enqueued job (RETRY_DELAY_MS) has passed.
Promote(j) ==
  /\ job[j] = "delayed"
  /\ job' = [job EXCEPT ![j] = "waiting"]
  /\ wait' = Append(wait, j)
  /\ UNCHANGED <<arrived, chain, marks, settled, processed, runs, lost, stalls, faults>>

\* The worker takes the oldest waiting job while it has a free slot, and its
\* callback appends the job to the promise chain of the chat.
Pick ==
  /\ wait # << >>
  /\ Cardinality({j \in Jobs : job[j] \in Active}) < Concurrency
  /\ LET j == Head(wait) IN
       /\ job' = [job EXCEPT ![j] = "chained"]
       /\ chain' = [chain EXCEPT ![chatOfJob(j)] = Append(@, j)]
  /\ wait' = Tail(wait)
  /\ UNCHANGED <<arrived, marks, settled, processed, runs, lost, stalls, faults>>

\* BullMQ moves the job to its completed or its failed set.
Finish(j) ==
  /\ job[j] = "leaving"
  /\ job' = [job EXCEPT ![j] = "over"]
  /\ UNCHANGED <<arrived, wait, chain, marks, settled, processed, runs, lost, stalls, faults>>

(***************************************************************************)
(* One turn: processInboundEvent as the policy around it sees it.          *)
(***************************************************************************)

\* The job at the head of chat c's chain is in state s and goes to state s2.
Step(c, s, s2) ==
  /\ chain[c] # << >>
  /\ job[Head(chain[c])] = s
  /\ job' = [job EXCEPT ![Head(chain[c])] = s2]

\* Mutation: a link that is done keeps the later links of its chain waiting.
LeaveChained(c, s) == Step(c, s, "leaving") /\ UNCHANGED chain

\* The job at the head of chat c's chain leaves the chain.
Leave(c, s) ==
  /\ Step(c, s, "leaving")
  /\ chain' = [chain EXCEPT ![c] = Tail(@)]

headTurn(c) == turnOf(Head(chain[c]))

\* Mutation: the previous link of the chain is not awaited.
StartUnchained(c) ==
  /\ \E i \in 1 .. Len(chain[c]) :
       /\ job[chain[c][i]] = "chained"
       /\ job' = [job EXCEPT ![chain[c][i]] = "running"]
  /\ UNCHANGED <<arrived, wait, chain, marks, settled, processed, runs, lost, stalls, faults>>

\* The previous link of the chain is done: handleInboundJob is called.
Start(c) ==
  /\ Step(c, "chained", "running")
  /\ UNCHANGED <<arrived, wait, chain, marks, settled, processed, runs, lost, stalls, faults>>

\* Mutation: the marker is not awaited before the action it stands for.
MarkTooLate(c) ==
  /\ Step(c, "running", "marked")
  /\ UNCHANGED <<arrived, wait, chain, marks, settled, processed, runs, lost, stalls, faults>>

\* markActed, awaited before a reply is sent or a tool is called.
Mark(c) ==
  /\ Step(c, "running", "marked")
  /\ marks' = marks \cup {headTurn(c)}
  /\ UNCHANGED <<arrived, wait, chain, settled, processed, runs, lost, stalls, faults>>

\* markActed failed: the send or the tool call it guards does not happen.
MarkFails(c) ==
  /\ Step(c, "running", "threw")
  /\ Fault("mark")
  /\ UNCHANGED <<arrived, wait, chain, marks, settled, processed, runs, lost, stalls>>

\* The first outward action of this run: a reply published, a tool executed.
Act(c) ==
  /\ Step(c, "marked", "acted")
  /\ runs' = [runs EXCEPT ![headTurn(c)] = @ + 1]
  /\ UNCHANGED <<arrived, wait, chain, marks, settled, processed, lost, stalls, faults>>

\* runTurn resolves with an outcome: ignored (nothing done), replied or error.
Return(c) ==
  /\ \E s \in Running : Step(c, s, "returned")
  /\ UNCHANGED <<arrived, wait, chain, marks, settled, processed, runs, lost, stalls, faults>>

\* runTurn throws: a failure around the service, before or after an action.
Throw(c) ==
  /\ \E s \in Running : Step(c, s, "threw")
  /\ UNCHANGED <<arrived, wait, chain, marks, settled, processed, runs, lost, stalls, faults>>

(***************************************************************************)
(* The job policy: handleInboundJob.                                       *)
(***************************************************************************)

\* publishTurnEvent of "settled": the owner hears of it and releaseHold frees
\* the message's row, whichever of its turns this one is.
PublishSettled(t) ==
  /\ settled' = settled \cup {t}
  /\ processed' = processed \cup {msgOf[t]}

\* try: the run returned, `settled` is published.
Settle(c) ==
  /\ Step(c, "returned", "settled")
  /\ PublishSettled(headTurn(c))
  /\ UNCHANGED <<arrived, wait, chain, marks, runs, lost, stalls, faults>>

\* try: publishing `settled` fails, which the catch takes for a failed turn.
SettleFails(c) ==
  /\ Step(c, "returned", "threw")
  /\ Fault("publish")
  /\ UNCHANGED <<arrived, wait, chain, marks, settled, processed, runs, lost, stalls>>

\* markers.clear after the settle; the job is handled, or failed for good.
Clear(c) ==
  /\ Leave(c, "settled")
  /\ marks' = marks \ {headTurn(c)}
  /\ UNCHANGED <<arrived, wait, settled, processed, runs, lost, stalls, faults>>

\* markers.clear failed: swallowed, the row stays.
ClearFails(c) ==
  /\ Leave(c, "settled")
  /\ Fault("clear")
  /\ UNCHANGED <<arrived, wait, marks, settled, processed, runs, lost, stalls>>

\* May the failed job j be tried again, given what markers.has said?
Retriable(j, acted) == ~acted /\ attemptOf(j) < MaxAttempts

\* catch: read the marker and decide.
CheckMarker(c) ==
  /\ \E s2 \in {"retrying", "givingUp"} :
       /\ Step(c, "threw", s2)
       /\ (s2 = "retrying") <=> Retriable(Head(chain[c]), headTurn(c) \in marks)
  /\ UNCHANGED <<arrived, wait, chain, marks, settled, processed, runs, lost, stalls, faults>>

\* catch: the marker cannot be read, which counts as "acted".
CheckMarkerFails(c) ==
  /\ Fault("has")
  /\ \E s2 \in {"retrying", "givingUp"} :
       /\ Step(c, "threw", s2)
       /\ (s2 = "retrying") <=> Retriable(Head(chain[c]), TRUE)
  /\ UNCHANGED <<arrived, wait, chain, marks, settled, processed, runs, lost, stalls>>

\* Mutation: a failed run is settled whether or not it is tried again.
ReEnqueueSettled(c) ==
  /\ chain[c] # << >>
  /\ LET j == Head(chain[c])
         next == <<turnOf(j), attemptOf(j) + 1>>
     IN /\ job[j] = "retrying"
        /\ job' = [job EXCEPT ![j] = "leaving", ![next] = "delayed"]
  /\ chain' = [chain EXCEPT ![c] = Tail(@)]
  /\ PublishSettled(headTurn(c))
  /\ UNCHANGED <<arrived, wait, marks, runs, lost, stalls, faults>>

\* reEnqueue: the next attempt, delayed.  BullMQ ignores an id it still knows.
ReEnqueue(c) ==
  /\ chain[c] # << >>
  /\ LET j == Head(chain[c])
         next == <<turnOf(j), attemptOf(j) + 1>>
         left == [job EXCEPT ![j] = "leaving"]
     IN /\ job[j] = "retrying"
        /\ job' = IF job[next] = "absent" THEN [left EXCEPT ![next] = "delayed"] ELSE left
  /\ chain' = [chain EXCEPT ![c] = Tail(@)]
  /\ UNCHANGED <<arrived, wait, marks, settled, processed, runs, lost, stalls, faults>>

\* reEnqueue throws out of the catch: the job fails and nothing settles it.
ReEnqueueFails(c) ==
  /\ Leave(c, "retrying")
  /\ Fault("add")
  /\ lost' = lost \cup {headTurn(c)}
  /\ UNCHANGED <<arrived, wait, marks, settled, processed, runs, stalls>>

\* Mutation: a turn that failed for good is not settled.
GiveUpUnsettled(c) ==
  /\ Step(c, "givingUp", "settled")
  /\ UNCHANGED <<arrived, wait, chain, marks, settled, processed, runs, lost, stalls, faults>>

\* catch: a turn that acted, or is out of tries, is settled all the same.
GiveUp(c) ==
  /\ Step(c, "givingUp", "settled")
  /\ PublishSettled(headTurn(c))
  /\ UNCHANGED <<arrived, wait, chain, marks, runs, lost, stalls, faults>>

\* catch: this `settled` cannot be published either; the failure is swallowed.
GiveUpFails(c) ==
  /\ Step(c, "givingUp", "settled")
  /\ Fault("publish")
  /\ lost' = lost \cup {headTurn(c)}
  /\ UNCHANGED <<arrived, wait, chain, marks, settled, processed, runs, stalls>>

(***************************************************************************)
(* A crash of the core: the chains are memory, the queue and the markers   *)
(* are not.  BullMQ finds the jobs whose lock expired: it puts each back   *)
(* to the front of the wait list, or fails it when that happened too often.*)
(***************************************************************************)
Crash ==
  /\ Fault("crash")
  /\ job' = [j \in Jobs |-> IF job[j] \in Active THEN "stalled" ELSE job[j]]
  /\ chain' = [c \in Chats |-> << >>]
  /\ UNCHANGED <<arrived, wait, marks, settled, processed, runs, lost, stalls>>

Recover(j) ==
  /\ job[j] = "stalled"
  /\ stalls[j] < MaxStalls
  /\ stalls' = [stalls EXCEPT ![j] = @ + 1]
  /\ job' = [job EXCEPT ![j] = "waiting"]
  /\ wait' = <<j>> \o wait
  /\ UNCHANGED <<arrived, chain, marks, settled, processed, runs, lost, faults>>

Discard(j) ==
  /\ job[j] = "stalled"
  /\ stalls[j] >= MaxStalls
  /\ job' = [job EXCEPT ![j] = "over"]
  /\ lost' = lost \cup {turnOf(j)}
  /\ UNCHANGED <<arrived, wait, chain, marks, settled, processed, runs, stalls, faults>>

(***************************************************************************)
(* The specification.                                                      *)
(***************************************************************************)
Queue == Arrive \/ Pick \/ \E j \in Jobs : Promote(j) \/ Finish(j) \/ Recover(j) \/ Discard(j)

Run(c) == Start(c) \/ Mark(c) \/ Act(c) \/ Return(c) \/ Throw(c)

Policy(c) == Settle(c) \/ Clear(c) \/ CheckMarker(c) \/ ReEnqueue(c) \/ GiveUp(c)

Broken(c) ==
  \/ MarkFails(c) \/ SettleFails(c) \/ ClearFails(c)
  \/ CheckMarkerFails(c) \/ ReEnqueueFails(c) \/ GiveUpFails(c)

Next ==
  \/ Queue
  \/ \E c \in Chats : Run(c) \/ Policy(c) \/ Broken(c)
  \/ Crash

\* Redis and the event loop keep going: the queue serves its jobs, and a turn
\* that runs ends, because every call in it is bounded by a timeout.
Fairness ==
  /\ WF_vars(Queue)
  /\ \A c \in Chats : WF_vars(Run(c)) /\ WF_vars(Policy(c))

Spec == Init /\ [][Next]_vars /\ Fairness

(***************************************************************************)
(* Properties.                                                             *)
(***************************************************************************)

\* Type correctness of the queue, the chains and the markers.
TypeOK ==
  /\ arrived \in 0 .. NTurns
  /\ job \in [Jobs -> JobStates]
  /\ wait \in Seq(Jobs)
  /\ chain \in [Chats -> Seq(Jobs)]
  /\ marks \subseteq Turns
  /\ settled \subseteq Turns
  /\ processed \subseteq Messages
  /\ runs \in [Turns -> Nat]
  /\ lost \subseteq Turns
  /\ stalls \in [Jobs -> Nat]
  /\ faults \in 0 .. MaxFaults

\* "Nothing double-sends or double-executes": whatever fails around it, a turn
\* performs outward actions in at most one of its runs (the marker's purpose).
ActsInOneRun == \A t \in Turns : runs[t] <= 1

\* A turn is repeated only because BullMQ found a job of it stalled: without
\* that, neither the attempts nor a re-enqueued twin of a job repeat an action.
RecoveredJobs(t) == {n \in 1 .. MaxAttempts : stalls[<<t, n>>] > 0}
RepeatsOnlyStalledJobs ==
  \A t \in Turns : runs[t] <= 1 + MaxStalls * Cardinality(RecoveredJobs(t))

\* A chat's turns run one after the other: no two jobs of one chat are inside
\* handleInboundJob at once (the per-chat promise chain).
OneRunPerChat ==
  \A j, k \in Jobs :
    job[j] \in InHandler /\ job[k] \in InHandler /\ chatOfJob(j) = chatOfJob(k) => j = k

\* The policy never drops a turn silently: one that has no job left was
\* settled, unless the call that would have kept or settled it failed.
SettledOrLost ==
  \A t \in Turns : Arrived(t) /\ ~Live(t) => t \in settled \cup lost

\* A turn that is still to run keeps its message's live-processing hold, so
\* the vision backfill "only ever picks up leftovers, never work in flight".
HeldWhileLive == \A t \in Turns : Live(t) => msgOf[t] \notin processed

\* A chat's first attempts start in arrival order, whatever was retried.
FirstRunsInOrder ==
  [][\A t, u \in Turns :
       /\ t < u /\ chatOf[t] = chatOf[u]
       /\ job[<<u, 1>>] = "chained" /\ job'[<<u, 1>>] = "running"
       => job[<<t, 1>>] \notin {"waiting", "chained"}]_vars

\* Every turn that arrives comes to its end: it is not retried forever, and no
\* chain or slot keeps it from running.
EveryTurnEnds == \A t \in Turns : Arrived(t) ~> ~Live(t)
=============================================================================
