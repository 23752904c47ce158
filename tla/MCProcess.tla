----------------------------- MODULE MCProcess -----------------------------
(***************************************************************************)
(* What one core process keeps in its memory and nowhere else: the gate of *)
(* the model calls, and the traces that are not on disk yet.  They share no*)
(* variable, so one instance explores each of them alone: `part` picks one *)
(* at the start, the other stays as it is.  The gate has twice the         *)
(* interactive calls its cap lets through, and background calls that can   *)
(* overtake each other.                                                    *)
(***************************************************************************)
EXTENDS PriorityGate, TLC

CONSTANTS jan, feb

VARIABLES
  part,
  \* TraceStore
  open, waiting, lines, dir, onDisk, cut, months, loaded, fullMonths, monthKeys, at, todo,
  text, batch, got, ops, settled, gone, asked, moved, crossed, keysCrossed

traceVars ==
  <<open, waiting, lines, dir, onDisk, cut, months, loaded, fullMonths, monthKeys, at, todo,
    text, batch, got, ops, settled, gone, asked, moved, crossed, keysCrossed>>
processVars == <<part, vars, traceVars>>

TS == INSTANCE TraceStore WITH
        Traces <- {jan, feb}, NMonths <- 2, MonthOf <- (jan :> 1 @@ feb :> 2),
        MaxFull <- 1, MaxOps <- 1

ProcessInit == part \in {"gate", "traces"} /\ GateInit /\ TS!Init

ProcessNext ==
  /\ UNCHANGED part
  /\ \/ part = "gate" /\ GateNext /\ UNCHANGED traceVars
     \/ part = "traces" /\ TS!Next /\ UNCHANGED vars

\* The fairness of each component, for the part that runs.
ProcessSpec ==
  /\ ProcessInit /\ [][ProcessNext]_processVars
  /\ \A i \in Interactive : WF_vars(part = "gate" /\ InteractiveStep(i))
  /\ \A b \in Background : WF_vars(part = "gate" /\ BackgroundStep(b))
  /\ WF_traceVars(part = "traces" /\ TS!BeginFlush)
  /\ WF_traceVars(part = "traces" /\ TS!FlushStep)

-----------------------------------------------------------------------------
\* A settled trace is in one place, the cache tells the files, a scan misses nothing
\* (with the types of TraceStore).
TracesKept ==
  part = "traces" => TS!TraceTypeOK /\ TS!SettledKept /\ TS!CacheTellsFiles /\ TS!ScanTellsAll

\* What the process holds it lets go of: every call comes to run, and a trace that
\* settled gets to its file.
CallsRunTracesLand == (part = "gate" => EveryCallRuns) /\ TS!FlushedInTheEnd

=============================================================================
