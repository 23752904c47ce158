------------------------------ MODULE IdleJobs ------------------------------
(***************************************************************************)
(* The jobs that run while the assistants are idle: the vision backfill and*)
(* the search index.  They share no variable, so one instance explores each*)
(* of them alone: `job` picks one at the start, the other stays as it is.  *)
(***************************************************************************)
EXTENDS Integers, FiniteSets

CONSTANTS
  NRows, Slow, VisionBatch, MaxRows, MaxRuns, MaxCrashes,          \* of VisionBackfill
  NMsgs, IndexBatch, MaxTried, Pictures, Wordless, Editable, MaxTextEdits   \* of SearchIndex

VARIABLES
  job,
  \* VisionBackfill
  status, stored, hold, expired, phase, timer, aborted, halted, pc, attempted, fetched,
  lock, turn, target, told, excused, misread, crashes,
  \* SearchIndex
  text, edited, row, vector, lateMedia, lateEdit, ahead, skewed, configured, run,
  runtime, picked, tried, outrun, rebuilt, straddled

visionVars ==
  <<status, stored, hold, expired, phase, timer, aborted, halted, pc, attempted, fetched,
    lock, turn, target, told, excused, misread, crashes>>
searchVars ==
  <<text, edited, row, vector, lateMedia, lateEdit, ahead, skewed, configured, run,
    runtime, picked, tried, outrun, rebuilt, straddled>>
idleVars == <<job, visionVars, searchVars>>

VB == INSTANCE VisionBackfill WITH
        BatchSize <- VisionBatch, stopped <- halted, batch <- fetched
SI == INSTANCE SearchIndex WITH
        BatchSize <- IndexBatch, MaxEdits <- MaxTextEdits, raced <- outrun

\* A run of either job takes up a row or more.
ASSUME VisionAssumption ==
  /\ NRows \in Nat /\ MaxRuns \in Nat \ {0} /\ VisionBatch \in Nat \ {0} /\ MaxRows \in Nat \ {0}
  /\ MaxCrashes \in Nat

ASSUME IndexAssumption ==
  NMsgs \in Nat /\ IndexBatch \in Nat \ {0} /\ MaxTried \in Nat /\ MaxTextEdits \in Nat

IdleInit ==
  /\ job \in {"vision", "search"}
  /\ VB!Init /\ SI!Init

IdleNext ==
  /\ UNCHANGED job
  /\ \/ job = "vision" /\ VB!Next /\ UNCHANGED searchVars
     \/ job = "search" /\ SI!Next /\ UNCHANGED visionVars

\* The fairness of each component, for the job that runs.
IdleFairness ==
  /\ \A n \in VB!Runs : WF_visionVars(job = "vision" /\ VB!RunStep(n))
  /\ WF_searchVars(job = "search" /\ (SI!Fetch \/ SI!Put \/ SI!EmbedFails \/ SI!PutFails))
  /\ WF_searchVars(job = "search" /\ SI!Done)

IdleSpec == IdleInit /\ [][IdleNext]_idleVars /\ IdleFairness

-----------------------------------------------------------------------------
\* One run of the backfill describes at a time, and never a row of a live turn
\* (with the types of VisionBackfill), and a turn told about a picture was told what the
\* store keeps, unless it could not read that.
OneDescriptionTold ==
  job = "vision" => VB!VisionTypeOK /\ VB!AloneOnItsRows /\ VB!AnswersAgree

\* A row left pending has a run to come, or a reason why not.
NothingForgotten == job = "vision" => VB!NothingForgotten

\* A row that does not say what the mirror says is due again, and an index rebuilt with
\* a model has the vectors of its texts (with the types of SearchIndex).
IndexKeepsUp == job = "search" => SI!SearchTypeOK /\ SI!IndexKeepsUp

\* A run of either job ends, whatever cannot be described or stays due.
JobsEnd ==
  VB!RunsEnd /\ SI!IndexRunEnds

=============================================================================
