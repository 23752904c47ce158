----------------------------- MODULE AgentRuns ----------------------------
(***************************************************************************)
(* The queue of background agent runs (core/features/agents/server/        *)
(* runner.ts, signal.ts, repository.ts): a tool call inserts a run and     *)
(* signals the runner of its process; the runner drains the table one run  *)
(* at a time under an advisory lock; a run reports to its chat and is      *)
(* settled in the table.  The runner has no timer: a run nobody is         *)
(* signalled about waits.  Two processes overlap in a redeploy, and a      *)
(* process that starts fails the runs it finds running.                    *)
(*                                                                         *)
(* What an agent does (browser, tools) is the choice of its outcome.  The  *)
(* acknowledgement of a run is RunAcks.                                    *)
(***************************************************************************)
EXTENDS Naturals, FiniteSets

CONSTANTS
  Runs,        \* a range 1 .. n: the order in which they are enqueued
  Procs,       \* a range 1 .. n: the order in which the processes start
  MaxMishaps   \* bound: maintenance periods, killed processes and failed writes

VARIABLES
  row,         \* agent_runs.status, "none" before the run is enqueued
  host,        \* the process whose turn has inserted the run and not signalled it yet, or 0
  proc,        \* off, boot (listening, not swept yet), up, stopped, dead
  pump,        \* the drain loop of a process
  listed,      \* the oldest queued run it read, 0 when there was none
  holder,      \* who holds the advisory lock, 0 for nobody
  stage,       \* where the run of a process is
  maintenance,
  mishaps,     \* bound: so far
  \* history
  told,        \* runs whose chat heard of the outcome, or never will: see SettledIsTold
  swept,       \* runs a starting process failed
  orphaned,    \* runs whose process died or could not write the outcome
  left         \* queued runs the last drain that ended has left behind

queueVars == <<row, host>>
procVars == <<proc, pump, listed, holder, stage>>
limits == <<maintenance, mishaps>>
runHistory == <<told, swept, orphaned, left>>
agentVars == <<queueVars, procVars, limits, runHistory>>

queued == {r \in Runs : row[r] = "queued"}
started(p) == proc[p] \in {"boot", "up"}
alive(p) == proc[p] \in {"boot", "up", "stopped"}

Init ==
  /\ row = [r \in Runs |-> "none"] /\ host = [r \in Runs |-> 0]
  /\ proc = [p \in Procs |-> IF p = 1 THEN "boot" ELSE "off"]
  /\ pump = [p \in Procs |-> "off"] /\ listed = [p \in Procs |-> 0] /\ holder = 0
  /\ stage = [p \in Procs |-> "idle"]
  /\ maintenance = FALSE /\ mishaps = 0
  /\ told = {} /\ swept = {} /\ orphaned = {} /\ left = {}

\* Bound.
Mishap == mishaps < MaxMishaps /\ mishaps' = mishaps + 1

-----------------------------------------------------------------------------
\* enqueueAgentRun: the row, then (the insert awaited) the signal.
Insert(r, p) ==
  /\ row[r] = "none" /\ started(p)
  /\ \A q \in Runs : q < r => row[q] # "none"
  /\ row' = [row EXCEPT ![r] = "queued"] /\ host' = [host EXCEPT ![r] = p]
  /\ UNCHANGED <<procVars, limits, runHistory>>

\* A call of pump(): nothing when it is stopped or draining already.
Wake(p) ==
  IF started(p) /\ pump[p] = "off"
  THEN pump' = [pump EXCEPT ![p] = "check"] /\ left' = {}
  ELSE UNCHANGED <<pump, left>>

\* emitRunEnqueued.
Signal(r) ==
  /\ host[r] # 0 /\ host' = [host EXCEPT ![r] = 0]
  /\ IF started(host[r]) THEN Wake(host[r])
     ELSE left' = left \cup {r} /\ UNCHANGED pump
  /\ UNCHANGED <<row, proc, listed, holder, stage, limits,
                 told, swept, orphaned>>

-----------------------------------------------------------------------------
\* The drain ends: what is queued now waits for the next signal.
StopPump(p) ==
  /\ pump' = [pump EXCEPT ![p] = "off"] /\ listed' = [listed EXCEPT ![p] = 0]
  /\ left' = left \cup queued

\* The head of the loop, and listQueuedAgentRuns.  (Two reads with nothing that
\* depends on their distance: one step.)
PumpRead(p) ==
  /\ pump[p] = "check"
  /\ IF started(p) /\ ~maintenance
     THEN /\ pump' = [pump EXCEPT ![p] = "listed"] /\ UNCHANGED left
          /\ listed' = [listed EXCEPT ![p] =
               IF queued = {} THEN 0 ELSE CHOOSE r \in queued : \A q \in queued : r <= q]
     ELSE StopPump(p)
  /\ UNCHANGED <<queueVars, proc, holder, stage, limits, told, swept, orphaned>>

\* Nothing there or the lock is taken: the drain ends.
PumpTake(p) ==
  /\ pump[p] = "listed"
  /\ IF listed[p] # 0 /\ holder = 0
     THEN pump' = [pump EXCEPT ![p] = "claim"] /\ holder' = p /\ UNCHANGED <<listed, left>>
     ELSE StopPump(p) /\ UNCHANGED holder
  /\ UNCHANGED <<queueVars, proc, stage, limits, told, swept, orphaned>>

\* Mutation: whatever the row says.
ClaimsAnyway(r) == TRUE

\* claimAgentRun: only a row that is still queued.
Claims(r) == row[r] = "queued"

PumpClaim(p) ==
  /\ pump[p] = "claim"
  /\ LET r == listed[p]
     IN IF Claims(r)
        THEN /\ row' = [row EXCEPT ![r] = "running"]
             /\ pump' = [pump EXCEPT ![p] = "run"] /\ stage' = [stage EXCEPT ![p] = "start"]
             /\ left' = left \ {r} /\ UNCHANGED <<listed, holder>>
        ELSE StopPump(p) /\ holder' = 0 /\ UNCHANGED <<row, stage>>
  /\ UNCHANGED <<host, proc, limits, told, swept, orphaned>>

-----------------------------------------------------------------------------
Goes(p, to) == stage' = [stage EXCEPT ![p] = to]
Told(r) == told' = told \cup {r}

\* No LLM is configured: settled as failed, and not a word.
NoLlm(p) ==
  /\ stage[p] = "start" /\ Goes(p, "bail")
  /\ Told(listed[p])
  /\ UNCHANGED <<queueVars, proc, pump, listed, holder, limits, swept, orphaned, left>>

\* The agent ends with a report, or throws.
Work(p) ==
  /\ stage[p] = "start"
  /\ Goes(p, "report") \/ Goes(p, "amend")
  /\ UNCHANGED <<queueVars, proc, pump, listed, holder, limits, runHistory>>

\* deliverRunOutcome: the report is sent, or the send fails and is logged; or
\* shouldPostReport keeps a quiet run quiet.
Report(p) ==
  /\ stage[p] = "report" /\ Goes(p, "settle")
  /\ Told(listed[p])
  /\ UNCHANGED <<queueVars, proc, pump, listed, holder, limits, swept, orphaned, left>>

\* settleAgentRun, by the verdict on the report.
Settle(p) ==
  /\ stage[p] \in {"settle", "bail"} /\ Goes(p, "end")
  /\ \E verdict \in IF stage[p] = "bail" THEN {"failed"} ELSE {"done", "failed"} :
       row' = [row EXCEPT ![listed[p]] = verdict]
  /\ UNCHANGED <<host, proc, pump, listed, holder, limits, runHistory>>

\* The write fails: the catch takes the run for one that broke down.
SettleFails(p) ==
  /\ stage[p] \in {"settle", "bail"} /\ Mishap
  /\ Goes(p, "amend")
  /\ UNCHANGED <<queueVars, proc, pump, listed, holder, maintenance, runHistory>>

\* The catch: the row, whose failure is swallowed.
Amend(p) ==
  /\ stage[p] = "amend" /\ Goes(p, "sorry")
  /\ \/ /\ row' = [row EXCEPT ![listed[p]] = "failed"]
        /\ UNCHANGED <<mishaps, orphaned>>
     \/ /\ Mishap
        /\ orphaned' = orphaned \cup {listed[p]}
        /\ UNCHANGED row
  /\ UNCHANGED <<host, proc, pump, listed, holder, maintenance, told, swept, left>>

\* Then the apology.
Sorry(p) ==
  /\ stage[p] = "sorry" /\ Goes(p, "end")
  /\ Told(listed[p])
  /\ UNCHANGED <<queueVars, proc, pump, listed, holder, limits, swept, orphaned, left>>

\* Mutation: one run for each drain.
EndRunStops(p) ==
  /\ stage[p] = "end" /\ Goes(p, "idle")
  /\ holder' = 0 /\ pump' = [pump EXCEPT ![p] = "off"] /\ listed' = [listed EXCEPT ![p] = 0]
  /\ UNCHANGED <<queueVars, proc, limits, runHistory>>

\* The lock is released and the loop goes on.
EndRun(p) ==
  /\ stage[p] = "end" /\ Goes(p, "idle")
  /\ holder' = 0 /\ pump' = [pump EXCEPT ![p] = "check"] /\ listed' = [listed EXCEPT ![p] = 0]
  /\ UNCHANGED <<queueVars, proc, limits, runHistory>>

-----------------------------------------------------------------------------
\* startAgentRunner of the next process.
Start(p) ==
  /\ proc[p] = "off" /\ \A q \in Procs : q < p => proc[q] # "off"
  /\ proc' = [proc EXCEPT ![p] = "boot"]
  /\ UNCHANGED <<queueVars, pump, listed, holder, stage, limits, runHistory>>

\* failStaleRunningRuns, then the first drain.
Sweep(p) ==
  /\ proc[p] = "boot" /\ proc' = [proc EXCEPT ![p] = "up"]
  /\ LET stale == {r \in Runs : row[r] = "running"}
     IN /\ row' = [r \in Runs |-> IF r \in stale THEN "failed" ELSE row[r]]
        /\ swept' = swept \cup stale /\ told' = told \cup stale
  /\ Wake(p)
  /\ UNCHANGED <<host, listed, holder, stage, limits, orphaned>>

\* stopAgentRunner: the run in hand goes on.
Stop(p) ==
  /\ started(p) /\ proc' = [proc EXCEPT ![p] = "stopped"]
  /\ UNCHANGED <<queueVars, pump, listed, holder, stage, limits, runHistory>>

\* The process is gone, and its lock with its connection.
Kill(p) ==
  /\ alive(p) /\ Mishap
  /\ proc' = [proc EXCEPT ![p] = "dead"]
  /\ pump' = [pump EXCEPT ![p] = "off"] /\ stage' = [stage EXCEPT ![p] = "idle"]
  /\ listed' = [listed EXCEPT ![p] = 0]
  /\ holder' = IF holder = p THEN 0 ELSE holder
  /\ orphaned' = IF stage[p] # "idle" THEN orphaned \cup {listed[p]} ELSE orphaned
  /\ told' = IF stage[p] # "idle" THEN told \cup {listed[p]} ELSE told
  /\ left' = left \cup queued
  /\ host' = [r \in Runs |-> IF host[r] = p THEN 0 ELSE host[r]]
  /\ UNCHANGED <<row, maintenance, swept>>

\* The operator switches maintenance mode; nobody tells the runner.
Switch ==
  /\ maintenance' = ~maintenance
  /\ IF maintenance THEN UNCHANGED mishaps ELSE Mishap
  /\ UNCHANGED <<queueVars, procVars, runHistory>>

RunStep(p) ==
  \/ PumpRead(p) \/ PumpTake(p) \/ PumpClaim(p)
  \/ NoLlm(p) \/ Work(p) \/ Report(p) \/ Settle(p) \/ SettleFails(p)
  \/ Amend(p) \/ Sorry(p) \/ EndRun(p)

Next ==
  \/ \E p \in Procs : RunStep(p) \/ Start(p) \/ Sweep(p) \/ Stop(p) \/ Kill(p)
  \/ \E r \in Runs : Signal(r) \/ \E p \in Procs : Insert(r, p)
  \/ Switch

Fairness == \A p \in Procs : WF_agentVars(RunStep(p))

Spec == Init /\ [][Next]_agentVars /\ Fairness

-----------------------------------------------------------------------------
executing(r) == \E p \in Procs : stage[p] \notin {"idle", "end"} /\ listed[p] = r

AgentTypeOK ==
  /\ row \in [Runs -> {"none", "queued", "running", "done", "failed"}]
  /\ \A r \in Runs : host[r] # 0 => row[r] # "none"
  /\ proc \in [Procs -> {"off", "boot", "up", "stopped", "dead"}]
  /\ pump \in [Procs -> {"off", "check", "listed", "claim", "run"}]
  /\ \A p \in Procs : (stage[p] # "idle") = (pump[p] = "run")
  /\ listed \in [Procs -> Runs \cup {0}] /\ holder \in Procs \cup {0}
  /\ \A p \in Procs : pump[p] \in {"claim", "run"} <=> holder = p

\* A run is executed once, also when two processes read the same queue during a
\* redeploy and each gets the lock in turn: it is started from the queue only
\* (repository.ts, claimAgentRun: "the atomic guard against double-run").
RunsOnce == [][\A r \in Runs : row'[r] = "running" => row[r] \in {"queued", "running"}]_agentVars

\* A run that is being executed is shown as running, unless a process that started
\* beside it has failed it: the sweep cannot tell a dead run from a live one.
ExecutingIsRunning ==
  \A p \in Procs : stage[p] \notin {"idle", "sorry", "end"} /\ listed[p] \notin swept =>
    row[listed[p]] = "running"

\* A signalled run is never left queued with nobody draining, unless the last drain
\* ended with it already in the table: it was inserted after the drain had read an
\* empty queue, or the drain gave up (maintenance, stopped, lock or row taken).
WaitsOnlyIfLeft ==
  \A r \in queued : host[r] = 0 /\ r \notin left => \E p \in Procs : pump[p] # "off"

\* A run is not settled behind its chat's back ("so a user is never left waiting on
\* a promise"): the report or the apology is out or has been tried, unless the run
\* is quiet, no LLM was configured, or a restart cut it short.
SettledIsTold ==
  \A r \in Runs : row[r] \in {"done", "failed"} /\ ~executing(r) => r \in told

\* The table tells how the runs stand, to the process that drains it and to the chat.
RowsTellTheRuns == ExecutingIsRunning /\ WaitsOnlyIfLeft /\ SettledIsTold

\* A run that was started is settled, and nothing runs for a moment, unless its
\* process died or the table refused.
busyRuns == {r \in Runs : row[r] = "running"} \ orphaned
RunEnds == busyRuns # {} ~> busyRuns = {}

\* A run is executed once, and to its end.
RunsOnceToItsEnd == RunsOnce /\ RunEnds
=============================================================================
