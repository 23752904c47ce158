--------------------------- MODULE ConnectionManager ---------------------------
(***************************************************************************)
(* The platform connection of one connection row: the reconciles of        *)
(* core/server/transports/host/host.ts, one at a time, and the             *)
(* ConnectionManager of connections.ts that starts, stops, supervises and  *)
(* retries what they ask for.  A retry's start is not one of the           *)
(* serialized reconciles: it runs beside them.                             *)
(*                                                                         *)
(* Attempt n is the n-th call of start and the connection it may open.     *)
(***************************************************************************)
EXTENDS Naturals, FiniteSets

CONSTANTS
  Configs,      \* the configurations the row may have
  MaxChanges,   \* bound: changes of the row
  MaxFailures   \* bound: connections refused or lost, reconciles failed

ASSUME ManagerAssumption ==
  /\ MaxChanges \in Nat /\ MaxFailures \in Nat
  /\ "off" \notin Configs

\* Each change and each failure starts a connection once, as does the boot.
Attempts == 1 .. (1 + MaxChanges + MaxFailures)
Entries == 1 .. (1 + MaxChanges)

VARIABLES
  want,        \* the row: its configuration, or "off" (gone or disabled)
  queued,      \* reconciles asked for and not begun
  changes,     \* changes of the row so far
  failures,    \* failures so far
  closed,      \* the host is shut down
  reconciler,  \* "idle", "reading", "removing" or "starting"
  awaits,      \* the attempt whose close or start the reconcile awaits
  missed,      \* history: the last reconcile failed
  row,         \* the Managed entry in the map, 0 for none
  entries,     \* entries made so far
  desired, startedWith, timer, held, status,  \* of each entry
  attempts,    \* attempts made so far
  attempt,     \* what became of each
  entryOf, configOf, replaces,                \* of each attempt
  overlapped   \* history: entries two of whose starts ran at once

core == <<want, queued, changes, closed>>
recon == <<reconciler, awaits, missed>>
managed == <<row, entries, desired, startedWith, timer, held, status>>
made == <<attempts, attempt, entryOf, configOf, replaces, overlapped>>
vars == <<core, failures, recon, managed, made>>

Statuses == {"starting", "running", "stopped", "error"}

\* A start first closes the connection it replaces, then connects; what it opens
\* is kept, or handed straight back when nobody wants it any more.
InFlight == {"stopping", "connecting", "returning"}
AttemptStates == InFlight \cup {"none", "open", "closing", "closed", "failed", "dead"}

Init ==
  /\ want \in Configs \cup {"off"}
  /\ queued = 1 /\ changes = 0 /\ failures = 0 /\ closed = FALSE
  /\ reconciler = "idle" /\ awaits = 0 /\ missed = FALSE
  /\ row = 0 /\ entries = 0
  /\ desired = [e \in Entries |-> FALSE]
  /\ startedWith = [e \in Entries |-> "off"]
  /\ timer = [e \in Entries |-> FALSE]
  /\ held = [e \in Entries |-> 0]
  /\ status = [e \in Entries |-> "starting"]
  /\ attempts = 0
  /\ attempt = [n \in Attempts |-> "none"]
  /\ entryOf = [n \in Attempts |-> 0]
  /\ configOf = [n \in Attempts |-> "off"]
  /\ replaces = [n \in Attempts |-> 0]
  /\ overlapped = {}

Failing == failures < MaxFailures /\ failures' = failures + 1

\* The connection entry e holds, if any, is let go of and being closed.
LetGo(e) ==
  IF held[e] = 0 THEN attempt ELSE [attempt EXCEPT ![held[e]] = "closing"]

StartsOf(e) == {n \in Attempts : attempt[n] \in InFlight /\ entryOf[n] = e}

\* start(e, config), up to its first await.
Start(e, config) ==
  LET n == attempts + 1
  IN /\ attempts < 1 + MaxChanges + MaxFailures
     /\ attempts' = n
     /\ desired' = [desired EXCEPT ![e] = TRUE]
     /\ startedWith' = [startedWith EXCEPT ![e] = config]
     /\ timer' = [timer EXCEPT ![e] = FALSE]
     /\ held' = [held EXCEPT ![e] = 0]
     /\ attempt' = [LetGo(e) EXCEPT ![n] = IF held[e] = 0 THEN "connecting" ELSE "stopping"]
     /\ entryOf' = [entryOf EXCEPT ![n] = e]
     /\ configOf' = [configOf EXCEPT ![n] = config]
     /\ replaces' = [replaces EXCEPT ![n] = held[e]]
     /\ overlapped' = IF StartsOf(e) = {} THEN overlapped ELSE overlapped \cup {e}

\* Mutation: only the first failure of a streak schedules a retry.
FailOnce(e) ==
  /\ held' = [held EXCEPT ![e] = 0]
  /\ status' = [status EXCEPT ![e] = "error"]
  /\ timer' = [timer EXCEPT ![e] = desired[e] /\ status[e] # "error"]
  /\ UNCHANGED <<row, entries, desired, startedWith>>

\* fail: the entry lets go of its connection and, while wanted, retries later.
Fail(e) ==
  /\ held' = [held EXCEPT ![e] = 0]
  /\ status' = [status EXCEPT ![e] = "error"]
  /\ timer' = [timer EXCEPT ![e] = desired[e]]
  /\ UNCHANGED <<row, entries, desired, startedWith>>

(***************************************************************************)
(* The core: the row changes, and every change asks for a reconcile.       *)
(***************************************************************************)
Change(w) ==
  /\ changes < MaxChanges /\ w # want
  /\ want' = w /\ changes' = changes + 1 /\ queued' = queued + 1
  /\ UNCHANGED <<closed, failures, recon, managed, made>>

\* The host shuts down: every entry is stopped, whatever is still under way.
Shutdown ==
  /\ ~closed
  /\ closed' = TRUE
  /\ desired' = [e \in Entries |-> FALSE]
  /\ timer' = [e \in Entries |-> FALSE]
  /\ held' = [e \in Entries |-> 0]
  /\ attempt' = [n \in Attempts |-> IF \E e \in Entries : held[e] = n THEN "closing"
                                                                      ELSE attempt[n]]
  /\ status' = [e \in Entries |-> IF e = row THEN "stopped" ELSE status[e]]
  /\ UNCHANGED <<want, queued, changes, failures, recon, row, entries, startedWith,
                 attempts, entryOf, configOf, replaces, overlapped>>

(***************************************************************************)
(* The reconciles: serialized, each on the freshest desired state.         *)
(***************************************************************************)
BeginReconcile ==
  /\ reconciler = "idle" /\ queued > 0
  /\ queued' = queued - 1
  /\ reconciler' = IF closed THEN "idle" ELSE "reading"
  /\ UNCHANGED <<want, changes, closed, failures, awaits, missed, managed, made>>

\* The desired state cannot be read: the reconcile is over.
ReconcileFails ==
  /\ reconciler = "reading" /\ Failing
  /\ reconciler' = "idle" /\ missed' = TRUE
  /\ UNCHANGED <<core, awaits, managed, made>>

Reading == reconciler = "reading" /\ missed' = FALSE

\* Mutation: the configuration is not compared.
UpToDateOnceThere == row # 0 /\ held[row] # 0

\* The row is connected, with the configuration it was last started with.
UpToDate == row # 0 /\ held[row] # 0 /\ startedWith[row] = want

\* Unwanted and not there, or running as it should.
LeaveAlone ==
  /\ Reading
  /\ IF want = "off" THEN row = 0 ELSE UpToDate
  /\ reconciler' = "idle"
  /\ UNCHANGED <<core, failures, awaits, managed, made>>

\* Mutation: a removed entry's retry timer is left running.
RemoveTicking ==
  /\ Reading /\ want = "off" /\ row # 0
  /\ desired' = [desired EXCEPT ![row] = FALSE]
  /\ held' = [held EXCEPT ![row] = 0]
  /\ attempt' = LetGo(row)
  /\ reconciler' = "removing" /\ awaits' = held[row]
  /\ UNCHANGED <<core, failures, row, entries, startedWith, timer, status, attempts,
                 entryOf, configOf, replaces, overlapped>>

\* removeConnection, up to the close of the connection.
Remove ==
  /\ Reading /\ want = "off" /\ row # 0
  /\ desired' = [desired EXCEPT ![row] = FALSE]
  /\ timer' = [timer EXCEPT ![row] = FALSE]
  /\ held' = [held EXCEPT ![row] = 0]
  /\ attempt' = LetGo(row)
  /\ reconciler' = "removing" /\ awaits' = held[row]
  /\ UNCHANGED <<core, failures, row, entries, startedWith, status, attempts,
                 entryOf, configOf, replaces, overlapped>>

\* Is the connection the caller awaits the close of gone?
Gone(n) == n # 0 => attempt[n] \notin {"open", "closing"}

Removed ==
  /\ reconciler = "removing" /\ Gone(awaits)
  /\ status' = [status EXCEPT ![row] = "stopped"]
  /\ row' = 0
  /\ reconciler' = "idle" /\ awaits' = 0
  /\ UNCHANGED <<core, failures, missed, entries, desired, startedWith, timer, held, made>>

\* The row is to run, and does not, or with another configuration.
Apply ==
  /\ Reading /\ want # "off" /\ ~UpToDate
  /\ row' = IF row = 0 THEN entries + 1 ELSE row
  /\ entries' = IF row = 0 THEN entries + 1 ELSE entries
  /\ Start(row', want)
  /\ reconciler' = "starting" /\ awaits' = attempts + 1
  /\ UNCHANGED <<core, failures, status>>

Applied ==
  /\ reconciler = "starting" /\ attempt[awaits] \notin InFlight
  /\ reconciler' = "idle" /\ awaits' = 0
  /\ UNCHANGED <<core, failures, missed, managed, made>>

(***************************************************************************)
(* A start after its first await, and the retries.                         *)
(***************************************************************************)

\* The connection a start replaces is closed: it connects.
Stopped(n) ==
  /\ attempt[n] = "stopping" /\ Gone(replaces[n])
  /\ attempt' = [attempt EXCEPT ![n] = "connecting"]
  /\ status' = [status EXCEPT ![entryOf[n]] = "stopped"]
  /\ UNCHANGED <<core, failures, recon, row, entries, desired, startedWith, timer, held,
                 attempts, entryOf, configOf, replaces, overlapped>>

\* Mutation: nobody looks whether the connection is still wanted.
ConnectedUnasked(n) ==
  /\ attempt[n] = "connecting"
  /\ attempt' = [attempt EXCEPT ![n] = "open"]
  /\ held' = [held EXCEPT ![entryOf[n]] = n]
  /\ status' = [status EXCEPT ![entryOf[n]] = "running"]
  /\ UNCHANGED <<core, failures, recon, row, entries, desired, startedWith, timer,
                 attempts, entryOf, configOf, replaces, overlapped>>

\* connect resolved: the entry takes the connection, its platform ready or not.
Connected(n) ==
  /\ attempt[n] = "connecting" /\ desired[entryOf[n]]
  /\ attempt' = [attempt EXCEPT ![n] = "open"]
  /\ held' = [held EXCEPT ![entryOf[n]] = n]
  /\ \E s \in {"running", "starting"} : status' = [status EXCEPT ![entryOf[n]] = s]
  /\ UNCHANGED <<core, failures, recon, row, entries, desired, startedWith, timer,
                 attempts, entryOf, configOf, replaces, overlapped>>

\* connect resolved after the entry was stopped: handed straight back.
HandBack(n) ==
  /\ attempt[n] = "connecting" /\ ~desired[entryOf[n]]
  /\ attempt' = [attempt EXCEPT ![n] = "returning"]
  /\ UNCHANGED <<core, failures, recon, managed, attempts, entryOf, configOf, replaces,
                 overlapped>>

HandedBack(n) ==
  /\ attempt[n] = "returning"
  /\ attempt' = [attempt EXCEPT ![n] = "closed"]
  /\ status' = [status EXCEPT ![entryOf[n]] = "stopped"]
  /\ UNCHANGED <<core, failures, recon, row, entries, desired, startedWith, timer, held,
                 attempts, entryOf, configOf, replaces, overlapped>>

ConnectFails(n) ==
  /\ attempt[n] = "connecting" /\ Failing
  /\ attempt' = [attempt EXCEPT ![n] = "failed"]
  /\ Fail(entryOf[n])
  /\ UNCHANGED <<core, recon, attempts, entryOf, configOf, replaces, overlapped>>

Close(n) ==
  /\ attempt[n] = "closing"
  /\ attempt' = [attempt EXCEPT ![n] = "closed"]
  /\ UNCHANGED <<core, failures, recon, managed, attempts, entryOf, configOf, replaces,
                 overlapped>>

\* hooks.status of a connection that became ready.
HookReady(n) ==
  /\ attempt[n] \in {"connecting", "open"}
  /\ status[entryOf[n]] # "running"
  /\ status' = [status EXCEPT ![entryOf[n]] = "running"]
  /\ UNCHANGED <<core, failures, recon, row, entries, desired, startedWith, timer, held, made>>

\* hooks.status of a connection that failed: its entry fails, which connection
\* it may hold by now is not asked.
HookError(n) ==
  /\ attempt[n] \in {"connecting", "open", "closing"} /\ Failing
  /\ attempt' = IF attempt[n] = "open" THEN [attempt EXCEPT ![n] = "dead"] ELSE attempt
  /\ Fail(entryOf[n])
  /\ UNCHANGED <<core, recon, attempts, entryOf, configOf, replaces, overlapped>>

\* RECONNECT_DELAY_MS after a failure: start again, as it was last started.
Retry(e) ==
  /\ timer[e]
  /\ Start(e, startedWith[e])
  /\ UNCHANGED <<core, failures, recon, row, entries, status>>

\* What goes on by itself, as long as the process runs.
Settle(n) ==
  \/ Stopped(n) \/ Connected(n) \/ HandBack(n) \/ HandedBack(n) \/ ConnectFails(n)
  \/ Close(n)

Reconcile == BeginReconcile \/ LeaveAlone \/ Remove \/ Removed \/ Apply \/ Applied

Next ==
  \/ \E w \in Configs \cup {"off"} : Change(w)
  \/ Shutdown
  \/ Reconcile \/ ReconcileFails
  \/ \E n \in Attempts : Settle(n) \/ HookReady(n) \/ HookError(n)
  \/ \E e \in Entries : Retry(e)

\* Every connect and close settles, the timers run and so do the reconciles.
Fairness ==
  /\ WF_vars(Reconcile)
  /\ \A n \in Attempts : WF_vars(Settle(n))
  /\ \A e \in Entries : WF_vars(Retry(e))

Spec == Init /\ [][Next]_vars /\ Fairness

(***************************************************************************)
(* Properties.                                                             *)
(***************************************************************************)

\* Type correctness.
TypeOK ==
  /\ want \in Configs \cup {"off"}
  /\ queued \in 0 .. MaxChanges + 1 /\ changes \in 0 .. MaxChanges
  /\ failures \in 0 .. MaxFailures
  /\ closed \in BOOLEAN /\ missed \in BOOLEAN
  /\ reconciler \in {"idle", "reading", "removing", "starting"}
  /\ awaits \in Attempts \cup {0}
  /\ row \in Entries \cup {0} /\ entries \in 0 .. 1 + MaxChanges
  /\ desired \in [Entries -> BOOLEAN] /\ timer \in [Entries -> BOOLEAN]
  /\ startedWith \in [Entries -> Configs \cup {"off"}]
  /\ held \in [Entries -> Attempts \cup {0}]
  /\ status \in [Entries -> Statuses]
  /\ attempts \in 0 .. 1 + MaxChanges + MaxFailures
  /\ attempt \in [Attempts -> AttemptStates]
  /\ entryOf \in [Attempts -> Entries \cup {0}]
  /\ configOf \in [Attempts -> Configs \cup {"off"}]
  /\ replaces \in [Attempts -> Attempts \cup {0}]
  /\ overlapped \subseteq Entries

\* "A still-desired connection is restarted for as long as the core keeps asking
\* for it": one that is down has its retry scheduled, or a start under way.
RetryKept ==
  \A e \in Entries : desired[e] /\ status[e] = "error" => timer[e] \/ StartsOf(e) # {}

\* "... and stops the moment the core does not": a stopped entry never retries.
NoRetryUnwanted == \A e \in Entries : timer[e] => desired[e]

\* While the host runs, a connection that is open is the one its entry holds,
\* wanted, and opened with the configuration the entry is compared by, provided
\* that a retry and a reconcile never started the entry at once.
OpenIsHeld ==
  \A n \in Attempts : ~closed /\ attempt[n] = "open" /\ entryOf[n] \notin overlapped =>
    LET e == entryOf[n]
    IN held[e] = n /\ desired[e] /\ configOf[n] = startedWith[e]

\* Once nothing changes or fails any more, and the last reconcile could read the
\* desired state, a row that is to run has a connection in the end, and was last
\* started with the configuration it has.
Converges ==
  <>[](want # "off" /\ ~closed /\ ~missed) =>
    <>[](row # 0 /\ held[row] # 0 /\ startedWith[row] = want)
=============================================================================
