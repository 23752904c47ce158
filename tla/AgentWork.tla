----------------------------- MODULE AgentWork -----------------------------
(***************************************************************************)
(* The two loops that work for an answer: the tool loop of a generation,   *)
(* and the runs a turn hands to the browser agent.  They share no variable,*)
(* so one instance explores each of them alone: `part` picks one at the    *)
(* start, the other stays as it is.                                        *)
(***************************************************************************)
EXTENDS ToolLoop

CONSTANTS
  Runs, Procs, MaxMishaps   \* of AgentRuns

\* Runs and processes are numbered in the order in which they come.
ASSUME AgentAssumption == Runs \subseteq Nat \ {0} /\ Procs \subseteq Nat \ {0}

VARIABLES
  part,
  \* AgentRuns
  row, host, proc, pump, listed, holder, stage, maintenance, mishaps, told, swept,
  orphaned, left

agentVars ==
  <<row, host, proc, pump, listed, holder, stage, maintenance, mishaps, told, swept,
    orphaned, left>>
workVars == <<part, vars, agentVars>>

AR == INSTANCE AgentRuns

WorkInit == part \in {"loop", "agents"} /\ Init /\ AR!Init

WorkNext ==
  /\ UNCHANGED part
  /\ \/ part = "loop" /\ Next /\ UNCHANGED agentVars
     \/ part = "agents" /\ AR!Next /\ UNCHANGED vars

\* The fairness of each component, for the part that runs.
WorkSpec ==
  /\ WorkInit /\ [][WorkNext]_workVars
  /\ WF_vars(part = "loop" /\ Next)
  /\ \A p \in Procs : WF_agentVars(part = "agents" /\ AR!RunStep(p))

-----------------------------------------------------------------------------
\* A run under way is marked so, one that waits has a drain to come, and one that
\* is settled has told its chat (with the types of AgentRuns).
RowsTellTheRuns == part = "agents" => AR!AgentTypeOK /\ AR!RowsTellTheRuns

\* A run is executed at most once, one that was claimed ends, and a generation
\* comes to an answer, an empty one or an error (with the types of ToolLoop).
WorkEnds == AR!RunsOnceToItsEnd /\ (part = "loop" => Bounded)

=============================================================================
