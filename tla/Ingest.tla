------------------------------- MODULE Ingest -------------------------------
(***************************************************************************)
(* How the messages of one group chat become turns: the connections of the *)
(* transport host each receive every update and publish it once            *)
(* (core/server/transports/host), and the ingest consumer mirrors it, takes*)
(* the live-processing hold and opens a turn for every assistant that      *)
(* listens (core/server/ingest/consumer.ts).                               *)
(*                                                                         *)
(* A receipt <<m, a, k>> is message m as the connection of assistant a     *)
(* receives it the k-th time; a published receipt is a job of its name.    *)
(***************************************************************************)
EXTENDS Naturals, Sequences, FiniteSets

CONSTANTS
  Assistants,       \* the assistants in the chat, one connection each
  NMessages,        \* bound: messages people post
  Concurrency,      \* jobs the worker processes at once (8 in the code)
  MaxStalls,        \* BullMQ's maxStalledCount, left at its default (1)
  MaxFaults,        \* bound: crashes, failed calls of the bus or the store, and
                    \* messages the cache forgets
  MaxRedeliveries   \* bound: receipts the platform gives again after a crash

ASSUME IngestAssumption ==
  /\ IsFiniteSet(Assistants)
  /\ {NMessages, MaxStalls, MaxFaults, MaxRedeliveries} \subseteq Nat
  /\ Concurrency \in Nat \ {0}

Messages == 1 .. NMessages
Receipts == Messages \X Assistants \X (1 .. 2)

messageOf(r) == r[1]
receiverOf(r) == r[2]

VARIABLES
  posted,     \* messages posted so far
  due,        \* receipts a connection has not handled yet
  seen,       \* messages in the SeenCache of the host process
  job,        \* the state of each published receipt
  presence,   \* published receipts that only prove a presence
  wait,       \* the queue's wait list, oldest first
  chain,      \* the chat's promise chain: the picked jobs, the running one first
  todo,       \* the receivers the running job has still to open a turn for
  rows,       \* the mirrored messages, in the order of their rows
  processed,  \* messages whose live-processing hold is released
  present,    \* assistants with a presence row in the chat
  turns,      \* the turns opened, in order
  broken,     \* history: messages whose ingest was cut short, and by what
  stalls,     \* how often a job was found stalled
  crashed,    \* the core crashed before
  faults, redelivered

edge == <<posted, due, seen>>
queue == <<job, presence, wait, chain, todo>>
store == <<rows, processed, present>>
counters == <<stalls, crashed, faults, redelivered>>
vars == <<edge, queue, store, turns, broken, counters>>

\* Running a message's job: mirrored, then its turns are opened.
JobStates == {"absent", "waiting", "picked", "mirrored", "opening", "stalled", "over"}
Ingesting == {"mirrored", "opening"}
Active == Ingesting \cup {"picked"}

Init ==
  /\ posted = 0 /\ due = {} /\ seen = {}
  /\ job = [r \in Receipts |-> "absent"]
  /\ presence = {}
  /\ wait = <<>> /\ chain = <<>> /\ todo = {}
  /\ rows = <<>> /\ processed = {} /\ present = {}
  /\ turns = <<>>
  /\ broken = {}
  /\ stalls = [r \in Receipts |-> 0]
  /\ crashed = FALSE /\ faults = 0 /\ redelivered = 0

Fault == faults < MaxFaults /\ faults' = faults + 1
Failing == Fault /\ UNCHANGED <<stalls, crashed, redelivered>>

(***************************************************************************)
(* The platform and the connections.                                       *)
(***************************************************************************)
Post ==
  /\ posted < NMessages
  /\ posted' = posted + 1
  /\ due' = due \cup {<<posted + 1, a, 1>> : a \in Assistants}
  /\ UNCHANGED <<seen, queue, store, turns, broken, counters>>

\* The platform gives a receipt again that the crashed process had taken (and
\* that it did not publish from a second receipt already).
Redeliver(r) ==
  /\ crashed /\ redelivered < MaxRedeliveries
  /\ r[3] = 1 /\ messageOf(r) <= posted /\ r \notin due
  /\ job[<<r[1], r[2], 2>>] = "absent"
  /\ due' = due \cup {<<r[1], r[2], 2>>}
  /\ redelivered' = redelivered + 1
  /\ UNCHANGED <<posted, seen, queue, store, turns, broken, stalls, crashed, faults>>

\* hooks.message, once the message is normalized: the first receipt forwards the
\* message, a later one only proves a presence.
Forward(r) ==
  /\ r \in due
  /\ due' = due \ {r}
  /\ seen' = seen \cup {messageOf(r)}
  /\ presence' = IF messageOf(r) \in seen THEN presence \cup {r} ELSE presence
  /\ job' = [job EXCEPT ![r] = "waiting"]
  /\ wait' = Append(wait, r)
  /\ UNCHANGED <<posted, chain, todo, store, turns, broken, counters>>

\* The cache forgets a message: its time is up, or the cache is full.
Forget(m) ==
  /\ m \in seen /\ Failing
  /\ seen' = seen \ {m}
  /\ UNCHANGED <<posted, due, queue, store, turns, broken>>

\* The queue cannot be written: the failure is logged, and the message stays in
\* the cache, so no other connection's receipt of it is forwarded.
PublishFails(r) ==
  /\ r \in due /\ messageOf(r) \notin seen /\ Failing
  /\ due' = due \ {r}
  /\ seen' = seen \cup {messageOf(r)}
  /\ broken' = broken \cup {<<messageOf(r), "failure">>}
  /\ UNCHANGED <<posted, queue, store, turns>>

(***************************************************************************)
(* The ingest worker.                                                      *)
(***************************************************************************)

\* The worker takes the oldest job and appends it to the chat's chain.
Pick ==
  /\ wait # <<>> /\ Len(chain) < Concurrency
  /\ job' = [job EXCEPT ![Head(wait)] = "picked"]
  /\ chain' = Append(chain, Head(wait))
  /\ wait' = Tail(wait)
  /\ UNCHANGED <<edge, presence, todo, store, turns, broken, counters>>

\* Mutation: the chain is not awaited.
RunsUnchained(r, s) == r \in {chain[i] : i \in DOMAIN chain} /\ job[r] = s

\* Job r runs, and stands at s.
Runs(r, s) == chain # <<>> /\ r = Head(chain) /\ job[r] = s

\* Job r, the first of the chain, is over and leaves it.
Over(r) ==
  /\ job' = [job EXCEPT ![r] = "over"]
  /\ chain' = Tail(chain)
  /\ todo' = {}
  /\ UNCHANGED <<presence, wait>>

\* handlePresence
Present(r) ==
  /\ Runs(r, "picked") /\ r \in presence
  /\ present' = present \cup {receiverOf(r)}
  /\ Over(r)
  /\ UNCHANGED <<edge, rows, processed, turns, broken, counters>>

Mirrored == {rows[i] : i \in DOMAIN rows}

\* handleTransportMessage, a fresh message: its row, with the hold taken.
Mirror(r) ==
  /\ Runs(r, "picked") /\ r \notin presence
  /\ messageOf(r) \notin Mirrored
  /\ rows' = Append(rows, messageOf(r))
  /\ present' = present \cup {receiverOf(r)}
  /\ job' = [job EXCEPT ![r] = "mirrored"]
  /\ UNCHANGED <<edge, presence, wait, chain, todo, processed, turns, broken, counters>>

\* ... one that was mirrored before: only its presence counts.
MirroredBefore(r) ==
  /\ Runs(r, "picked") /\ r \notin presence
  /\ messageOf(r) \in Mirrored
  /\ present' = present \cup {receiverOf(r)}
  /\ Over(r)
  /\ UNCHANGED <<edge, rows, processed, turns, broken, counters>>

\* Mutation: a consumed message keeps its hold.
ConsumeHeld(r) ==
  /\ Runs(r, "mirrored")
  /\ Over(r)
  /\ UNCHANGED <<edge, store, turns, broken, counters>>

\* The answer to a feedback menu, or a link code: consumed, the hold released.
Consume(r) ==
  /\ Runs(r, "mirrored")
  /\ processed' = processed \cup {messageOf(r)}
  /\ Over(r)
  /\ UNCHANGED <<edge, rows, present, turns, broken, counters>>

\* resolveReceivers, of the connections that ran when the message was received
\* and are not silenced: those known to be in the chat, the read of which may
\* come back empty, and in any case the receiving one.
Listening(r, running, here) == {a \in running : a \in here \/ a = receiverOf(r)}

Resolve(r) ==
  /\ Runs(r, "mirrored")
  /\ \E running \in SUBSET Assistants, here \in {present, {}} :
       IF Listening(r, running, here) = {}
       THEN /\ Over(r)
            /\ broken' = broken \cup {<<messageOf(r), "unheard">>}
       ELSE /\ job' = [job EXCEPT ![r] = "opening"]
            /\ todo' = Listening(r, running, here)
            /\ UNCHANGED <<presence, wait, chain, broken>>
  /\ UNCHANGED <<edge, store, turns, counters>>

\* The turn of receiver `a` is put in the inbound queue.
OpenTurn(r, a) ==
  /\ Runs(r, "opening") /\ a \in todo
  /\ turns' = Append(turns, <<messageOf(r), a>>)
  /\ IF todo = {a} THEN Over(r)
     ELSE todo' = todo \ {a} /\ UNCHANGED <<job, presence, wait, chain>>
  /\ UNCHANGED <<edge, store, broken, counters>>

\* The store or the queue fails: the job does, and is not tried again.
JobFails(r) ==
  /\ \E s \in Active : Runs(r, s)
  /\ Failing
  /\ broken' = IF r \in presence THEN broken ELSE broken \cup {<<messageOf(r), "failure">>}
  /\ Over(r)
  /\ UNCHANGED <<edge, store, turns>>

(***************************************************************************)
(* A crash of the core, which is also the host of the connections.         *)
(***************************************************************************)

\* The chain and the cache are memory; BullMQ finds the active jobs stalled.
Crash ==
  /\ Fault
  /\ crashed' = TRUE
  /\ seen' = {}
  /\ chain' = <<>> /\ todo' = {}
  /\ job' = [r \in Receipts |-> IF job[r] \in Active THEN "stalled" ELSE job[r]]
  /\ broken' = broken \cup {<<messageOf(r), "crash">> : r \in {q \in Receipts : job[q] \in Ingesting}}
  /\ UNCHANGED <<posted, due, presence, wait, store, turns, stalls, redelivered>>

Recover(r) ==
  /\ job[r] = "stalled" /\ stalls[r] < MaxStalls
  /\ stalls' = [stalls EXCEPT ![r] = @ + 1]
  /\ job' = [job EXCEPT ![r] = "waiting"]
  /\ wait' = <<r>> \o wait
  /\ UNCHANGED <<edge, presence, chain, todo, store, turns, broken, crashed, faults,
                 redelivered>>

\* Handling what has been published, step by step.
Handle(r) ==
  \/ Present(r) \/ Mirror(r) \/ MirroredBefore(r) \/ Consume(r) \/ Resolve(r)
  \/ \E a \in Assistants : OpenTurn(r, a)

Next ==
  \/ Post
  \/ \E r \in Receipts : Redeliver(r) \/ Forward(r) \/ PublishFails(r) \/ JobFails(r) \/ Recover(r)
  \/ \E m \in Messages : Forget(m)
  \/ Pick
  \/ \E r \in Receipts : Handle(r)
  \/ Crash

Spec == Init /\ [][Next]_vars

(***************************************************************************)
(* Properties.                                                             *)
(***************************************************************************)

\* Type correctness.
TypeOK ==
  /\ posted \in 0 .. NMessages
  /\ due \subseteq Receipts /\ seen \subseteq Messages
  /\ job \in [Receipts -> JobStates]
  /\ presence \subseteq Receipts
  /\ wait \in Seq(Receipts) /\ chain \in Seq(Receipts) /\ Len(chain) <= Concurrency
  /\ todo \subseteq Assistants
  /\ rows \in Seq(Messages)
  /\ processed \subseteq Messages /\ present \subseteq Assistants
  /\ turns \in Seq(Messages \X Assistants)
  /\ broken \subseteq Messages \X {"failure", "crash", "unheard"}

\* A message opens one turn for an assistant at most, however often it is
\* received, published, or handled again after a crash.
OneTurnEach == \A i, j \in DOMAIN turns : turns[i] = turns[j] => i = j

\* Turns are opened in the order of the mirror, which is the order of the window
\* every turn is composed from.
TurnsFollowMirror ==
  \A i, j \in DOMAIN turns : \A k, l \in DOMAIN rows :
    i < j /\ turns[i][1] = rows[k] /\ turns[j][1] = rows[l] => k <= l

\* Whatever is received again, in parallel or after a crash, the turns of a chat
\* are one for each message and assistant, in the order of its mirror.
OneTurnEachInOrder == TypeOK /\ OneTurnEach /\ TurnsFollowMirror

Broken(m) == \E why \in {"failure", "crash", "unheard"} : <<m, why>> \in broken

\* The hold of a mirrored message is released, or somebody is still to release it:
\* its job, or a turn of it, which does so when it settles.  Otherwise its ingest
\* was cut short, and only the expiry of the hold frees it.
HoldHasOwner ==
  \A m \in Mirrored \ processed :
    \/ Broken(m)
    \/ \E i \in DOMAIN turns : turns[i][1] = m
    \/ \E r \in Receipts : messageOf(r) = m /\ job[r] \in Ingesting

\* A message that reaches an assistant opens one turn for it, in the order of the
\* mirror, and one still held has a job or a turn that will release it.
TurnsAndHolds == OneTurnEachInOrder /\ HoldHasOwner
=============================================================================
