--------------------------- MODULE AgentWork_proofs ---------------------------
(***************************************************************************)
(* Theorems about the two loops that work for an answer: the runs of the   *)
(* browser agents, for every set of runs and of processes, and the tool    *)
(* loop, for every set of calls, cap and retry bound.                      *)
(***************************************************************************)
EXTENDS AgentWork, FiniteSets, WellFoundedInduction, TLAPS

-----------------------------------------------------------------------------
\* The queue of background agent runs (AgentRuns).

Statuses == {"none", "queued", "running", "done", "failed"}
Stages == {"idle", "start", "report", "settle", "bail", "amend", "sorry", "end"}

\* The types; who drains has the lock from the claim to the end of the run, and a
\* run in its hand.
DrainInv ==
  /\ row \in [Runs -> Statuses] /\ host \in [Runs -> Procs \cup {0}]
  /\ proc \in [Procs -> {"off", "boot", "up", "stopped", "dead"}]
  /\ pump \in [Procs -> {"off", "check", "listed", "claim", "run"}]
  /\ stage \in [Procs -> Stages]
  /\ listed \in [Procs -> Runs \cup {0}] /\ holder \in Procs \cup {0}
  /\ told \subseteq Runs /\ swept \subseteq Runs /\ left \subseteq Runs
  /\ \A r \in Runs : host[r] # 0 => row[r] # "none"
  /\ \A p \in Procs : stage[p] # "idle" <=> pump[p] = "run"
  /\ \A p \in Procs : pump[p] \in {"claim", "run"} <=> holder = p
  /\ \A p \in Procs : holder = p => listed[p] # 0

\* Before the last step of a run its chat has been told, or has been tried to.
ToldInv == \A p \in Procs : stage[p] \in {"settle", "bail", "end"} => listed[p] \in told

RowsInv == AR!RowsTellTheRuns /\ ToldInv

\* A set of numbers that is not empty has a least element.
LEMMA Least ==
  ASSUME NEW T, T \subseteq Nat, T # {}
  PROVE  \E x \in T : \A y \in T : x <= y
<1> DEFINE R == OpToRel(<, Nat)
<1>1. \A x, y \in Nat : y < x => <<y, x>> \in R
  <2>1. R = {p \in Nat \X Nat : p[1] < p[2]}
    BY Zenon DEF OpToRel
  <2> HIDE DEF R
  <2> QED BY <2>1
<1>2. IsWellFoundedOn(R, Nat)
  BY Zenon, NatLessThanWellFounded
<1> HIDE DEF R
<1>3. PICK x \in T : \A y \in T : ~ (<<y, x>> \in R)
  BY <1>2, WFMin, Zenon
<1>4. \A y \in T : x <= y
  <2> TAKE y \in T
  <2>1. x \in Nat /\ y \in Nat
    OBVIOUS
  <2>2. ~ (y < x)
    BY <1>1, <1>3, <2>1, Zenon
  <2> QED  BY <2>1, <2>2
<1> QED BY <1>4

\* The oldest of the queued runs is one of them.
LEMMA Oldest ==
  ASSUME AR!queued # {}
  PROVE  (CHOOSE r \in AR!queued : \A q \in AR!queued : r <= q) \in Runs \ {0}
<1>1. AR!queued \subseteq Nat /\ AR!queued \subseteq Runs \ {0}
  BY AgentAssumption DEF AR!queued
<1>2. \E x \in AR!queued : \A y \in AR!queued : x <= y
  BY <1>1, Least
<1> QED  BY <1>1, <1>2

\* The queue of runs starts empty and unlocked.
LEMMA InitDrain == AR!Init => DrainInv
<1> SUFFICES ASSUME AR!Init PROVE DrainInv
  OBVIOUS
<1>1. \A p \in Procs : p # 0 /\ pump[p] = "off" /\ holder # p
  BY AgentAssumption DEF AR!Init
<1> QED  BY <1>1 DEF AR!Init, DrainInv, Statuses, Stages

\* Every step of the agent runs keeps the drain in order.
LEMMA StepDrain == DrainInv /\ [AR!Next]_(AR!agentVars) => DrainInv'
<1> SUFFICES ASSUME DrainInv, [AR!Next]_(AR!agentVars) PROVE DrainInv'
  OBVIOUS
<1> USE DEF DrainInv, Statuses, Stages, AR!procVars, AR!queueVars, AR!limits, AR!runHistory
<1>0. \A p \in Procs : p # 0
  BY AgentAssumption
<1>1. ASSUME NEW p \in Procs, AR!PumpRead(p) PROVE DrainInv'
  <2>1. CASE AR!started(p) /\ ~maintenance
    <3>1. listed'[p] \in Runs \cup {0} /\ listed' = [listed EXCEPT ![p] = listed'[p]]
      <4>1. CASE AR!queued = {}
        BY <1>1, <2>1, <4>1 DEF AR!PumpRead
      <4>2. CASE AR!queued # {}
        <5> DEFINE oldest == CHOOSE r \in AR!queued : \A q \in AR!queued : r <= q
        <5>1. oldest \in Runs
          BY <4>2, Oldest
        <5> HIDE DEF oldest
        <5>2. listed' = [listed EXCEPT ![p] = oldest]
          BY <1>1, <2>1, <4>2 DEF AR!PumpRead, oldest
        <5> QED  BY <5>1, <5>2
      <4> QED  BY <4>1, <4>2
    <3>2. pump[p] = "check" /\ pump' = [pump EXCEPT ![p] = "listed"]
          /\ UNCHANGED <<AR!queueVars, proc, holder, stage, AR!limits, told, swept, left>>
      BY <1>1, <2>1 DEF AR!PumpRead
    <3> QED  BY <3>1, <3>2
  <2>2. CASE ~ (AR!started(p) /\ ~maintenance)
    BY <1>1, <2>2 DEF AR!PumpRead, AR!StopPump, AR!queued
  <2> QED  BY <2>1, <2>2
<1>2. ASSUME NEW p \in Procs, AR!PumpTake(p) PROVE DrainInv'
  BY <1>0, <1>2 DEF AR!PumpTake, AR!StopPump, AR!queued
<1>3. ASSUME NEW p \in Procs, AR!PumpClaim(p) PROVE DrainInv'
  <2>1. listed[p] \in Runs /\ holder = p /\ pump[p] = "claim" /\ stage[p] = "idle"
    BY <1>3 DEF AR!PumpClaim
  <2>2. CASE AR!Claims(listed[p])
    BY <1>3, <2>1, <2>2 DEF AR!PumpClaim, AR!Claims
  <2>3. CASE ~ AR!Claims(listed[p])
    BY <1>0, <1>3, <2>1, <2>3 DEF AR!PumpClaim, AR!StopPump, AR!queued
  <2> QED  BY <2>2, <2>3
<1>4. ASSUME NEW p \in Procs,
             AR!NoLlm(p) \/ AR!Work(p) \/ AR!Report(p) \/ AR!Settle(p) \/ AR!SettleFails(p)
             \/ AR!Amend(p) \/ AR!Sorry(p)
      PROVE  DrainInv'
  <2>1. /\ stage[p] # "idle" /\ pump[p] = "run" /\ listed[p] \in Runs
        /\ stage' \in [Procs -> Stages] /\ stage'[p] # "idle"
        /\ \A q \in Procs \ {p} : stage'[q] = stage[q]
        /\ UNCHANGED <<host, proc, pump, listed, holder, swept, left>>
    <3>1. stage[p] # "idle"
      BY <1>4 DEF AR!NoLlm, AR!Work, AR!Report, AR!Settle, AR!SettleFails, AR!Amend, AR!Sorry
    <3>2. \E s \in Stages \ {"idle"} : stage' = [stage EXCEPT ![p] = s]
      BY <1>4 DEF AR!NoLlm, AR!Work, AR!Report, AR!Settle, AR!SettleFails, AR!Amend, AR!Sorry, AR!Goes
    <3>3. UNCHANGED <<host, proc, pump, listed, holder, swept, left>>
      BY <1>4 DEF AR!NoLlm, AR!Work, AR!Report, AR!Settle, AR!SettleFails, AR!Amend, AR!Sorry
    <3> QED  BY <3>1, <3>2, <3>3
  <2>2. told' \subseteq Runs
    BY <1>4, <2>1 DEF AR!NoLlm, AR!Work, AR!Report, AR!Settle, AR!SettleFails, AR!Amend, AR!Sorry, AR!Told
  <2>3. /\ row' \in [Runs -> Statuses]
        /\ \A r \in Runs : row[r] # "none" => row'[r] # "none"
    <3>1. row' = row \/ \E s \in {"done", "failed"} : row' = [row EXCEPT ![listed[p]] = s]
      BY <1>4 DEF AR!NoLlm, AR!Work, AR!Report, AR!Settle, AR!SettleFails, AR!Amend, AR!Sorry
    <3> QED  BY <3>1
  <2> QED  BY <2>1, <2>2, <2>3
<1>5. ASSUME NEW p \in Procs, AR!EndRun(p) PROVE DrainInv'
  BY <1>0, <1>5 DEF AR!EndRun, AR!Goes
<1>6. ASSUME NEW p \in Procs, AR!Start(p) \/ AR!Stop(p) PROVE DrainInv'
  BY <1>6 DEF AR!Start, AR!Stop
<1>7. ASSUME NEW p \in Procs, AR!Sweep(p) PROVE DrainInv'
  BY <1>7 DEF AR!Sweep, AR!Wake
<1>8. ASSUME NEW p \in Procs, AR!Kill(p) PROVE DrainInv'
  BY <1>0, <1>8 DEF AR!Kill, AR!queued, AR!alive
<1>9. ASSUME NEW r \in Runs, AR!Signal(r) PROVE DrainInv'
  BY <1>9 DEF AR!Signal, AR!Wake
<1>10. ASSUME NEW r \in Runs, NEW p \in Procs, AR!Insert(r, p) PROVE DrainInv'
  BY <1>10 DEF AR!Insert
<1>11. CASE AR!Switch
  BY <1>11 DEF AR!Switch
<1>12. CASE UNCHANGED AR!agentVars
  BY <1>12 DEF AR!agentVars
<1> QED
  BY <1>1, <1>2, <1>3, <1>4, <1>5, <1>6, <1>7, <1>8, <1>9, <1>10, <1>11, <1>12
  DEF AR!Next, AR!RunStep

\* One run at a time: a process in a run holds the lock.
LEMMA OneDrainer ==
  ASSUME DrainInv, NEW p \in Procs, pump[p] \in {"claim", "run"}
  PROVE  /\ holder = p /\ listed[p] \in Runs
         /\ \A q \in Procs \ {p} : pump[q] \notin {"claim", "run"} /\ stage[q] = "idle"
  BY DEF DrainInv

\* The steps of a drain outside a run change no row, and the last of them leaves
\* behind what is queued.
LEMMA PumpRows ==
  ASSUME DrainInv, RowsInv, NEW p \in Procs,
         pump[p] \in {"check", "listed", "claim"}, stage[p] = "idle",
         UNCHANGED <<row, host, stage, told, swept>>,
         \A q \in Procs \ {p} : pump'[q] = pump[q] /\ listed'[q] = listed[q],
         (pump'[p] # "off" /\ left' = left) \/ left' = left \cup AR!queued
  PROVE  RowsInv'
<1> USE DEF DrainInv, Stages
<1>1. \A q \in Procs : stage[q] # "idle" => q # p /\ listed'[q] = listed[q]
  OBVIOUS
<1>2. AR!ExecutingIsRunning'
  BY <1>1 DEF RowsInv, AR!RowsTellTheRuns, AR!ExecutingIsRunning
<1>3. AR!WaitsOnlyIfLeft'
  BY DEF RowsInv, AR!RowsTellTheRuns, AR!WaitsOnlyIfLeft, AR!queued
<1>4. AR!SettledIsTold'
  <2>1. \A r \in Runs : AR!executing(r) => AR!executing(r)'
    BY <1>1 DEF AR!executing
  <2> QED  BY <2>1 DEF RowsInv, AR!RowsTellTheRuns, AR!SettledIsTold
<1>5. ToldInv'
  BY <1>1 DEF RowsInv, ToldInv
<1> QED  BY <1>2, <1>3, <1>4, <1>5 DEF RowsInv, AR!RowsTellTheRuns

\* A step of a run: nobody else is in one, the row is settled only behind a word to
\* the chat, and the pump goes on.
LEMMA RunRows ==
  ASSUME DrainInv, RowsInv, NEW p \in Procs, pump[p] = "run",
         UNCHANGED <<host, swept, left>>,
         \A q \in Procs \ {p} : stage'[q] = stage[q],
         stage'[p] \in Stages, pump'[p] # "off",
         stage'[p] # "idle" => listed' = listed,
         \A r \in Runs \ {listed[p]} : row'[r] = row[r],
         row'[listed[p]] \in {row[listed[p]], "done", "failed"},
         stage'[p] \in {"idle", "sorry", "end"} \/ (row' = row
         /\ stage[p] \notin {"idle", "sorry", "end"}),
         told \subseteq told',
         stage'[p] \in {"settle", "bail", "end"} => listed[p] \in told',
         stage'[p] = "idle" => stage[p] = "end" /\ row' = row
  PROVE  RowsInv'
<1> USE DEF DrainInv, Stages
<1>1. listed[p] \in Runs /\ \A q \in Procs \ {p} : stage[q] = "idle" /\ stage'[q] = "idle"
  BY OneDrainer
<1>2. AR!ExecutingIsRunning'
  BY <1>1 DEF RowsInv, AR!RowsTellTheRuns, AR!ExecutingIsRunning
<1>3. AR!WaitsOnlyIfLeft'
  BY <1>1 DEF RowsInv, AR!RowsTellTheRuns, AR!WaitsOnlyIfLeft, AR!queued
<1>4. AR!SettledIsTold'
  <2> SUFFICES ASSUME NEW r \in Runs, row'[r] \in {"done", "failed"}, r \notin told'
               PROVE  AR!executing(r)'
    BY DEF AR!SettledIsTold
  <2>1. CASE r = listed[p]
    <3>1. stage'[p] \notin {"settle", "bail", "end"}
      BY <2>1
    <3>2. stage'[p] # "idle"
      BY <2>1 DEF RowsInv, ToldInv
    <3> QED  BY <2>1, <3>1, <3>2 DEF AR!executing
  <2>2. CASE r # listed[p]
    BY <1>1, <2>2 DEF RowsInv, AR!RowsTellTheRuns, AR!SettledIsTold, AR!executing
  <2> QED  BY <2>1, <2>2
<1>5. ToldInv'
  BY <1>1 DEF RowsInv, ToldInv
<1> QED  BY <1>2, <1>3, <1>4, <1>5 DEF RowsInv, AR!RowsTellTheRuns

\* No run has a row at first.
LEMMA InitRows == AR!Init => RowsInv
  BY DEF AR!Init, RowsInv, AR!RowsTellTheRuns, AR!ExecutingIsRunning, AR!WaitsOnlyIfLeft,
    AR!SettledIsTold,
         ToldInv, AR!queued

\* Every step keeps the rows telling the runs.
LEMMA StepRows ==
  DrainInv /\ DrainInv' /\ RowsInv /\ [AR!Next]_(AR!agentVars) => RowsInv'
<1> SUFFICES ASSUME DrainInv, DrainInv', RowsInv, [AR!Next]_(AR!agentVars) PROVE RowsInv'
  OBVIOUS
<1> USE DEF AR!procVars, AR!queueVars, AR!limits, AR!runHistory
<1>t. \A p \in Procs : pump[p] # "run" => stage[p] = "idle"
  BY DEF DrainInv, Stages
<1>1. ASSUME NEW p \in Procs, AR!PumpRead(p) PROVE RowsInv'
  <2>1. /\ pump[p] = "check" /\ stage[p] = "idle" /\ UNCHANGED <<row, host, stage, told, swept>>
        /\ \A q \in Procs \ {p} : pump'[q] = pump[q] /\ listed'[q] = listed[q]
    BY <1>t, <1>1 DEF AR!PumpRead, AR!StopPump, DrainInv
  <2>2. (pump'[p] # "off" /\ left' = left) \/ left' = left \cup AR!queued
    BY <1>1 DEF AR!PumpRead, AR!StopPump, DrainInv
  <2> QED  BY <2>1, <2>2, PumpRows
<1>2. ASSUME NEW p \in Procs, AR!PumpTake(p) PROVE RowsInv'
  <2>1. /\ pump[p] = "listed" /\ stage[p] = "idle" /\ UNCHANGED <<row, host, stage, told, swept>>
        /\ \A q \in Procs \ {p} : pump'[q] = pump[q] /\ listed'[q] = listed[q]
    BY <1>t, <1>2 DEF AR!PumpTake, AR!StopPump, DrainInv
  <2>2. (pump'[p] # "off" /\ left' = left) \/ left' = left \cup AR!queued
    BY <1>2 DEF AR!PumpTake, AR!StopPump, DrainInv
  <2> QED  BY <2>1, <2>2, PumpRows
<1>3. ASSUME NEW p \in Procs, AR!PumpClaim(p) PROVE RowsInv'
  <2>1. pump[p] = "claim" /\ stage[p] = "idle" /\ listed[p] \in Runs
        /\ \A q \in Procs \ {p} : stage[q] = "idle"
    BY <1>3, <1>t, OneDrainer DEF AR!PumpClaim
  <2>2. CASE ~ AR!Claims(listed[p])
    <3>1. /\ UNCHANGED <<row, host, stage, told, swept>> /\ left' = left \cup AR!queued
          /\ \A q \in Procs \ {p} : pump'[q] = pump[q] /\ listed'[q] = listed[q]
      BY <1>3, <2>2 DEF AR!PumpClaim, AR!StopPump, DrainInv
    <3> QED  BY <2>1, <3>1, PumpRows
  <2>3. CASE AR!Claims(listed[p])
    <3>1. /\ row[listed[p]] = "queued" /\ row' = [row EXCEPT ![listed[p]] = "running"]
          /\ stage' = [stage EXCEPT ![p] = "start"] /\ pump' = [pump EXCEPT ![p] = "run"]
          /\ UNCHANGED <<host, listed, told, swept>>
      BY <1>3, <2>3 DEF AR!PumpClaim, AR!Claims
    <3>2. AR!ExecutingIsRunning' /\ ToldInv'
      BY <2>1, <3>1 DEF RowsInv, AR!ExecutingIsRunning, ToldInv, DrainInv
    <3>3. AR!WaitsOnlyIfLeft'
      BY <3>1 DEF AR!WaitsOnlyIfLeft, DrainInv
    <3>4. AR!SettledIsTold'
      BY <2>1, <3>1 DEF RowsInv, AR!RowsTellTheRuns, AR!SettledIsTold, AR!executing, DrainInv
    <3> QED  BY <3>2, <3>3, <3>4 DEF RowsInv, AR!RowsTellTheRuns
  <2> QED  BY <2>2, <2>3
<1>4. ASSUME NEW p \in Procs, AR!NoLlm(p) \/ AR!Work(p) \/ AR!Report(p) \/ AR!Sorry(p) PROVE RowsInv'
  <2>1. stage[p] \in {"start", "report", "sorry"} /\ pump[p] = "run" /\ listed[p] \in Runs
    BY <1>4, OneDrainer DEF AR!NoLlm, AR!Work, AR!Report, AR!Sorry, DrainInv
  <2>2. /\ UNCHANGED <<row, host, swept, left, listed, pump>> /\ told \subseteq told'
        /\ \A q \in Procs \ {p} : stage'[q] = stage[q]
    BY <1>4 DEF AR!NoLlm, AR!Work, AR!Report, AR!Sorry, AR!Goes, AR!Told, DrainInv
  <2>3. /\ stage'[p] \in {"bail", "settle", "end", "report", "amend"}
        /\ stage'[p] \in {"settle", "bail", "end"} => listed[p] \in told'
        /\ stage[p] = "sorry" => stage'[p] = "end"
    BY <1>4 DEF AR!NoLlm, AR!Work, AR!Report, AR!Sorry, AR!Goes, AR!Told, DrainInv
  <2> QED  BY <2>1, <2>2, <2>3, RunRows DEF Stages, DrainInv
<1>5. ASSUME NEW p \in Procs, AR!Settle(p) \/ AR!SettleFails(p) \/ AR!Amend(p) PROVE RowsInv'
  <2>1. stage[p] \in {"settle", "bail", "amend"} /\ pump[p] = "run" /\ listed[p] \in Runs
    BY <1>5, OneDrainer DEF AR!Settle, AR!SettleFails, AR!Amend, DrainInv
  <2>2. /\ UNCHANGED <<host, swept, left, listed, pump, told>>
        /\ \A q \in Procs \ {p} : stage'[q] = stage[q]
    BY <1>5 DEF AR!Settle, AR!SettleFails, AR!Amend, AR!Goes, DrainInv
  <2>3. row' = row \/ \E s \in {"done", "failed"} : row' = [row EXCEPT ![listed[p]] = s]
    BY <1>5 DEF AR!Settle, AR!SettleFails, AR!Amend
  <2>4. \/ stage'[p] = "end" /\ stage[p] \in {"settle", "bail"}
        \/ stage'[p] = "amend" /\ row' = row
        \/ stage'[p] = "sorry"
    BY <1>5 DEF AR!Settle, AR!SettleFails, AR!Amend, AR!Goes, DrainInv
  <2>5. stage'[p] \in {"settle", "bail", "end"} => listed[p] \in told'
    BY <2>2, <2>4 DEF RowsInv, ToldInv
  <2>6. /\ \A r \in Runs \ {listed[p]} : row'[r] = row[r]
        /\ row'[listed[p]] \in {row[listed[p]], "done", "failed"}
    BY <2>1, <2>3 DEF DrainInv
  <2> QED  BY <2>1, <2>2, <2>4, <2>5, <2>6, RunRows DEF Stages
<1>6. ASSUME NEW p \in Procs, AR!EndRun(p) PROVE RowsInv'
  <2>1. stage[p] = "end" /\ pump[p] = "run" /\ pump'[p] = "check" /\ stage'[p] = "idle"
    BY <1>6 DEF AR!EndRun, AR!Goes, DrainInv
  <2>2. /\ UNCHANGED <<row, host, swept, left, told>>
        /\ \A q \in Procs \ {p} : stage'[q] = stage[q]
    BY <1>6 DEF AR!EndRun, AR!Goes, DrainInv
  <2> QED  BY <2>1, <2>2, RunRows DEF Stages
<1>7. ASSUME NEW p \in Procs, AR!Start(p) \/ AR!Stop(p) PROVE RowsInv'
  BY <1>7 DEF AR!Start, AR!Stop, RowsInv, AR!RowsTellTheRuns, AR!ExecutingIsRunning, AR!WaitsOnlyIfLeft,
    AR!SettledIsTold, ToldInv, AR!queued, AR!executing
<1>8. ASSUME NEW p \in Procs, AR!Sweep(p) PROVE RowsInv'
  <2> DEFINE stale == {r \in Runs : row[r] = "running"}
  <2>1. /\ row' = [r \in Runs |-> IF r \in stale THEN "failed" ELSE row[r]]
        /\ swept' = swept \cup stale /\ told' = told \cup stale
        /\ UNCHANGED <<host, listed, holder, stage>>
    BY <1>8 DEF AR!Sweep
  <2>2. pump'[p] # "off"
    BY <1>8 DEF AR!Sweep, AR!Wake, AR!started, DrainInv
  <2>3. AR!ExecutingIsRunning' /\ ToldInv'
    BY <2>1 DEF RowsInv, AR!RowsTellTheRuns, AR!ExecutingIsRunning, ToldInv, DrainInv
  <2>4. AR!WaitsOnlyIfLeft'
    BY <2>2 DEF AR!WaitsOnlyIfLeft
  <2>5. AR!SettledIsTold'
    BY <2>1 DEF RowsInv, AR!RowsTellTheRuns, AR!SettledIsTold, AR!executing
  <2> QED  BY <2>3, <2>4, <2>5 DEF RowsInv, AR!RowsTellTheRuns
<1>9. ASSUME NEW p \in Procs, AR!Kill(p) PROVE RowsInv'
  <2>1. /\ UNCHANGED <<row, swept>> /\ left' = left \cup AR!queued /\ told \subseteq told'
        /\ stage'[p] = "idle"
        /\ stage[p] # "idle" => listed[p] \in told'
        /\ \A q \in Procs \ {p} : stage'[q] = stage[q] /\ listed'[q] = listed[q]
    BY <1>9 DEF AR!Kill, DrainInv
  <2>2. AR!ExecutingIsRunning' /\ ToldInv'
    BY <2>1 DEF RowsInv, AR!RowsTellTheRuns, AR!ExecutingIsRunning, ToldInv
  <2>3. AR!WaitsOnlyIfLeft'
    BY <2>1 DEF AR!WaitsOnlyIfLeft, AR!queued
  <2>4. AR!SettledIsTold'
    <3> SUFFICES ASSUME NEW r \in Runs, row'[r] \in {"done", "failed"}, r \notin told'
                 PROVE  AR!executing(r)'
      BY DEF AR!SettledIsTold
    <3>1. AR!executing(r)
      BY <2>1 DEF RowsInv, AR!RowsTellTheRuns, AR!SettledIsTold
    <3> QED  BY <2>1, <3>1 DEF AR!executing
  <2> QED  BY <2>2, <2>3, <2>4 DEF RowsInv, AR!RowsTellTheRuns
<1>10. ASSUME NEW r \in Runs, AR!Signal(r) PROVE RowsInv'
  <2>1. UNCHANGED <<row, listed, stage, told, swept>>
    BY <1>10 DEF AR!Signal
  <2>2. \/ \E p \in Procs : pump'[p] # "off"
        \/ UNCHANGED pump /\ left' = left \cup {r}
    BY <1>10 DEF AR!Signal, AR!Wake, DrainInv
  <2>3. AR!ExecutingIsRunning' /\ ToldInv' /\ AR!SettledIsTold'
    BY <2>1
      DEF RowsInv, AR!RowsTellTheRuns, AR!ExecutingIsRunning, ToldInv, AR!SettledIsTold, AR!executing
  <2>4. \A q \in Runs \ {r} : host'[q] = host[q]
    BY <1>10 DEF AR!Signal, DrainInv
  <2>5. AR!WaitsOnlyIfLeft'
    BY <2>1, <2>2, <2>4 DEF RowsInv, AR!RowsTellTheRuns, AR!WaitsOnlyIfLeft, AR!queued
  <2> QED  BY <2>3, <2>5 DEF RowsInv, AR!RowsTellTheRuns
<1>11. ASSUME NEW r \in Runs, NEW p \in Procs, AR!Insert(r, p) PROVE RowsInv'
  <2>1. /\ row[r] = "none" /\ row'[r] = "queued" /\ host'[r] # 0
        /\ \A q \in Runs \ {r} : row'[q] = row[q] /\ host'[q] = host[q]
        /\ UNCHANGED <<pump, listed, stage, told, swept, left>>
    BY <1>11, AgentAssumption DEF AR!Insert, DrainInv
  <2>2. AR!ExecutingIsRunning' /\ ToldInv'
    BY <2>1 DEF RowsInv, AR!RowsTellTheRuns, AR!ExecutingIsRunning, ToldInv, DrainInv
  <2>3. AR!WaitsOnlyIfLeft'
    BY <2>1 DEF RowsInv, AR!RowsTellTheRuns, AR!WaitsOnlyIfLeft, AR!queued
  <2>4. AR!SettledIsTold'
    BY <2>1 DEF RowsInv, AR!RowsTellTheRuns, AR!SettledIsTold, AR!executing
  <2> QED  BY <2>2, <2>3, <2>4 DEF RowsInv, AR!RowsTellTheRuns
<1>12. CASE AR!Switch \/ UNCHANGED AR!agentVars
  BY <1>12
    DEF AR!Switch, AR!agentVars, RowsInv, AR!RowsTellTheRuns, AR!ExecutingIsRunning, AR!WaitsOnlyIfLeft,
      AR!SettledIsTold, ToldInv, AR!queued, AR!executing
<1> QED
  BY <1>1, <1>2, <1>3, <1>4, <1>5, <1>6, <1>7, <1>8, <1>9, <1>10, <1>11, <1>12
  DEF AR!Next, AR!RunStep

-----------------------------------------------------------------------------
\* A step of the work is a step of the agent runs or leaves them alone.
LEMMA AgentMoves == [WorkNext]_workVars => [AR!Next]_(AR!agentVars)
BY DEF WorkNext, workVars, agentVars, AR!agentVars, AR!queueVars, AR!procVars, AR!limits, AR!runHistory

\* The invariants of the agent runs hold in every behaviour.
LEMMA InvAgent == WorkSpec => [](DrainInv /\ RowsInv)
<1>1. WorkInit => DrainInv /\ RowsInv
  BY InitDrain, InitRows DEF WorkInit
<1>2. DrainInv /\ RowsInv /\ [WorkNext]_workVars => (DrainInv /\ RowsInv)'
  BY AgentMoves, StepDrain, StepRows
<1> QED  BY <1>1, <1>2, PTL DEF WorkSpec

\* The order of the drain holds the types of its variables.
LEMMA DrainTypes == DrainInv => AR!AgentTypeOK
<1> SUFFICES ASSUME DrainInv PROVE AR!AgentTypeOK
  OBVIOUS
<1>1. \A p \in Procs : (stage[p] # "idle") = (pump[p] = "run")
  BY Zenon DEF DrainInv
<1> QED  BY <1>1 DEF DrainInv, Statuses, AR!AgentTypeOK

\* The table tells how the runs stand (claimAgentRun, settleAgentRun,
\* failStaleRunningRuns): a run in execution is shown as running unless a starting
\* process failed it, a signalled run waits only where a drain gave up or had read
\* the queue before it, and no run is settled behind its chat's back.
THEOREM RowsTellTheRunsHolds == WorkSpec => []RowsTellTheRuns
<1>1. DrainInv /\ RowsInv => RowsTellTheRuns
  BY DrainTypes DEF RowsInv, RowsTellTheRuns
<1> QED  BY <1>1, InvAgent, PTL

\* A run is executed once (claimAgentRun: only a row that is still queued), also when
\* two processes have read the same queue.
THEOREM RunsOnceHolds == WorkSpec => AR!RunsOnce
<1> DEFINE Once == \A r \in Runs : row'[r] = "running" => row[r] \in {"queued", "running"}
<1>1. DrainInv /\ [AR!Next]_(AR!agentVars) => [Once]_(AR!agentVars)
  <2> SUFFICES ASSUME DrainInv, AR!Next, NEW r \in Runs, row'[r] = "running"
               PROVE  row[r] \in {"queued", "running"}
    OBVIOUS
  <2> USE DEF DrainInv, AR!queueVars
  <2>1. ASSUME NEW p \in Procs, AR!PumpClaim(p) PROVE row[r] \in {"queued", "running"}
    BY <2>1 DEF AR!PumpClaim, AR!Claims
  <2>2. ASSUME NEW p \in Procs, AR!Settle(p) \/ AR!Amend(p) PROVE row[r] \in {"queued", "running"}
    BY <2>2 DEF AR!Settle, AR!Amend
  <2>3. ASSUME NEW p \in Procs, AR!Sweep(p) PROVE row[r] \in {"queued", "running"}
    BY <2>3 DEF AR!Sweep
  <2>4. ASSUME NEW q \in Runs, NEW p \in Procs, AR!Insert(q, p)
        PROVE  row[r] \in {"queued", "running"}
    BY <2>4 DEF AR!Insert
  <2>5. ASSUME NEW p \in Procs,
               \/ AR!PumpRead(p) \/ AR!PumpTake(p) \/ AR!NoLlm(p) \/ AR!Work(p) \/ AR!Report(p)
               \/ AR!SettleFails(p) \/ AR!Sorry(p) \/ AR!EndRun(p) \/ AR!Start(p) \/ AR!Stop(p)
               \/ AR!Kill(p)
        PROVE  row[r] \in {"queued", "running"}
    <3>1. row' = row
      BY <2>5
        DEF AR!PumpRead, AR!PumpTake, AR!NoLlm, AR!Work, AR!Report, AR!SettleFails, AR!Sorry,
          AR!EndRun, AR!Start, AR!Stop, AR!Kill
    <3> QED  BY <3>1
  <2>6. ASSUME NEW q \in Runs, AR!Signal(q) PROVE row[r] \in {"queued", "running"}
    BY <2>6 DEF AR!Signal
  <2>7. CASE AR!Switch
    BY <2>7 DEF AR!Switch
  <2> QED  BY <2>1, <2>2, <2>3, <2>4, <2>5, <2>6, <2>7 DEF AR!Next, AR!RunStep
<1>2. WorkSpec => []DrainInv
  BY InvAgent, PTL
<1>3. [WorkNext]_workVars => [AR!Next]_(AR!agentVars)
  BY AgentMoves
<1> QED  BY <1>1, <1>2, <1>3, PTL DEF WorkSpec, AR!RunsOnce

-----------------------------------------------------------------------------
\* The tool loop (ToolLoop).

USE DEF vars, Init, Next, Batches, Round, ForceAnswer

\* As long as every call of the streak has a name, the code's own counter is at
\* least the streak of rounds that ran nothing new; while the loop runs it is short.
StreakInv ==
  /\ stalls \in Nat
  /\ idle \in 0 .. MaxStallRounds
  /\ streak # "odd" => idle <= stalls
  /\ streak # "odd" => idle < MaxStallRounds
  /\ result = "running" => stalls < MaxStallRounds

LEMMA StreakInit == ASSUME Init PROVE StreakInv
  BY ToolLoopAssumption DEF StreakInv

LEMMA StreakStep == ASSUME StreakInv, [Next]_vars PROVE StreakInv'
<1> USE ToolLoopAssumption DEF StreakInv
<1>1. CASE Cap BY <1>1 DEF Cap
<1>2. CASE Answer BY <1>2 DEF Answer
<1>3. CASE ReAsk BY <1>3 DEF ReAsk
<1>4. CASE StayEmpty BY <1>4 DEF StayEmpty
<1>5. CASE Forced BY <1>5 DEF Forced
<1>6. CASE Fail BY <1>6 DEF Fail
<1>7. ASSUME NEW b \in Batches, StopStalled(b[1], b[2]) PROVE StreakInv'
  BY <1>7 DEF StopStalled
<1>8. ASSUME NEW b \in Batches, RunCalls(b[1], b[2]) PROVE StreakInv'
  <2>1. CASE b[1] \subseteq seen /\ ~b[2]
    BY <1>8, <2>1 DEF RunCalls, Stalled, IntroducesNew, Saturated
  <2>2. CASE b[1] \subseteq seen /\ b[2]
    BY <1>8, <2>2 DEF RunCalls, Stalled, IntroducesNew, Saturated
  <2>3. CASE ~(b[1] \subseteq seen)
    BY <1>8, <2>3 DEF RunCalls, Stalled, IntroducesNew, Saturated
  <2> QED BY <2>1, <2>2, <2>3
<1>9. CASE UNCHANGED vars BY <1>9
<1> QED BY <1>1, <1>2, <1>3, <1>4, <1>5, <1>6, <1>7, <1>8, <1>9

\* No MaxStallRounds rounds in a row run nothing new, unless one of them made a
\* call without a name: the stall guard of runToolLoop, whatever the calls, the
\* round cap and the retries.
THEOREM StallGuardHolds == Spec => []StallGuard
<1>1. StreakInv => StallGuard BY DEF StreakInv, StallGuard
<1> QED BY <1>1, StreakInit, StreakStep, PTL DEF Spec

\* Once an empty round followed work, the loop is past its tool rounds.
GlitchInv == HasFinal /\ glitched => result # "running"

LEMMA GlitchInit == ASSUME Init PROVE GlitchInv
  BY DEF GlitchInv

LEMMA GlitchStep == ASSUME GlitchInv, [Next]_vars PROVE GlitchInv'
<1> USE DEF GlitchInv
<1>1. CASE Cap BY <1>1 DEF Cap
<1>2. CASE Answer BY <1>2 DEF Answer
<1>3. CASE ReAsk BY <1>3 DEF ReAsk
<1>4. CASE StayEmpty BY <1>4 DEF StayEmpty
<1>5. CASE Forced BY <1>5 DEF Forced
<1>6. CASE Fail BY <1>6 DEF Fail
<1>7. ASSUME NEW b \in Batches, StopStalled(b[1], b[2]) PROVE GlitchInv'
  BY <1>7 DEF StopStalled
<1>8. ASSUME NEW b \in Batches, RunCalls(b[1], b[2]) PROVE GlitchInv'
  BY <1>8 DEF RunCalls
<1>9. CASE UNCHANGED vars BY <1>9
<1> QED BY <1>1, <1>2, <1>3, <1>4, <1>5, <1>6, <1>7, <1>8, <1>9

\* No call runs after an empty round that followed work.
THEOREM NoReplayHolds == Spec => NoReplayAfterGlitch
<1>1. ASSUME GlitchInv
      PROVE HasFinal /\ glitched => \A b \in Batches : ~RunCalls(b[1], b[2])
  BY <1>1 DEF GlitchInv, RunCalls
<1>2. Spec => []GlitchInv
  BY GlitchInit, GlitchStep, PTL DEF Spec
<1> QED BY <1>1, <1>2, PTL DEF Spec, NoReplayAfterGlitch
=============================================================================
