---------------------------- MODULE SearchIndex ----------------------------
(***************************************************************************)
(* The search index over the mirror: which messages are due, and the job   *)
(* that (re)builds their rows in batches while edits and descriptions keep *)
(* landing (core/features/history/server/index-messages.ts and             *)
(* core/server/source-store/content.ts, repository.ts, media.ts).          *)
(*                                                                         *)
(* Time is not modelled; its comparisons are.  A row is rebuilt when its   *)
(* description or its edit carries a later stamp than the row itself, and  *)
(* the stamp of an edit is the platform's, taken before the edit arrives.  *)
(* One run at a time: the advisory lock's part is in VisionBackfill.       *)
(***************************************************************************)
EXTENDS Naturals, FiniteSets

CONSTANTS
  NMsgs,      \* messages of the mirror, by age
  BatchSize,  \* rows per fetch (64 in the code)
  MaxTried,   \* rows fetched in one run (2000 in the code)
  Pictures,   \* the messages with media, described later
  Wordless,   \* the messages that come with nothing to index, till they are edited
  Editable,   \* bound: the messages that are edited
  MaxEdits    \* bound: edits of one message

Msgs == 1 .. NMsgs
NoText == <<0, "absent">>

VARIABLES
  \* the mirror
  text,        \* what a row of it would be built from: <<edits, media>>
  edited,      \* an edit was made on the platform and is on its way
  \* the index
  row,         \* the text a message is indexed with, or NoText
  vector,      \* its row carries a vector
  \* comparisons of stamps
  lateMedia,   \* described_at > indexed_at
  lateEdit,    \* edited_at > indexed_at
  ahead,       \* the stamp of the edit on its way > indexed_at
  skewed,      \* edited_at is later than the core's clock
  \* the job
  configured,  \* an embedding model is configured
  run,         \* where the run is
  runtime,     \* what the run read of the configuration
  picked,      \* the texts of its batch, NoText for the others
  tried,       \* rows it has fetched
  \* history
  raced,       \* messages whose stamp cannot show the change any more
  rebuilt,     \* the index was cleared with a model configured
  straddled    \* a run that read no model has been under way since that clearing

mirror == <<text, edited>>
index == <<row, vector>>
stamps == <<lateMedia, lateEdit, ahead, skewed>>
job == <<configured, run, runtime, picked, tried>>
notes == <<raced, rebuilt, straddled>>
searchVars == <<mirror, index, stamps, job, notes>>

Off == [m \in Msgs |-> FALSE]
Nothing == [m \in Msgs |-> NoText]

Init ==
  /\ text = [m \in Msgs |-> <<1, IF m \in Pictures THEN "pending" ELSE "none">>]
  /\ edited = Off
  /\ row = Nothing /\ vector = Off
  /\ lateMedia = Off /\ lateEdit = Off /\ ahead = Off /\ skewed = Off
  /\ configured = FALSE
  /\ run = "off" /\ runtime = FALSE /\ picked = Nothing /\ tried = 0
  /\ raced = {} /\ rebuilt = FALSE /\ straddled = FALSE

-----------------------------------------------------------------------------
\* DUE_CONDITION: no row, or a source of it changed after the row was built.
Due(m) == row[m] = NoText \/ lateMedia[m] \/ lateEdit[m]

\* buildSearchableText: no content, and no media to name.
Empty(m, t) == m \in Wordless /\ t = <<1, "none">>

\* A change between the fetch of a batch and its put leaves an older stamp.
InBatch(m) == picked[m] # NoText

\* A description lands (VisionBackfill): described_at is the clock's now.
Described(m) ==
  /\ text[m][2] = "pending"
  /\ text' = [text EXCEPT ![m][2] = "described"]
  /\ lateMedia' = [lateMedia EXCEPT ![m] = row[m] # NoText]
  /\ raced' = IF InBatch(m) THEN raced \cup {m} ELSE raced
  /\ UNCHANGED <<edited, index, lateEdit, ahead, skewed, job, rebuilt, straddled>>

\* A member edits the message on the platform.
EditMade(m) ==
  /\ m \in Editable /\ ~edited[m] /\ text[m][1] <= MaxEdits
  /\ edited' = [edited EXCEPT ![m] = TRUE]
  /\ ahead' = [ahead EXCEPT ![m] = row[m] # NoText]
  /\ UNCHANGED <<text, index, lateMedia, lateEdit, skewed, job, notes>>

\* handleEdit: the edit reaches the mirror, with the platform's stamp.  The
\* platform's clock may be ahead of the core's (outran: it is not).
EditApplied(m, skew) ==
  /\ edited[m]
  /\ edited' = [edited EXCEPT ![m] = FALSE]
  /\ text' = [text EXCEPT ![m][1] = @ + 1]
  /\ skewed' = [skewed EXCEPT ![m] = skew]
  /\ lateEdit' = [lateEdit EXCEPT ![m] = row[m] # NoText /\ (skew \/ ahead[m])]
  /\ ahead' = [ahead EXCEPT ![m] = FALSE]
  /\ raced' = IF InBatch(m) \/ (row[m] # NoText /\ ~skew /\ ~ahead[m])
              THEN raced \cup {m} ELSE raced
  /\ UNCHANGED <<index, lateMedia, job, rebuilt, straddled>>

\* The clock passes the stamp.
ClockPasses(m) ==
  /\ skewed[m]
  /\ skewed' = [skewed EXCEPT ![m] = FALSE]
  /\ UNCHANGED <<mirror, index, lateMedia, lateEdit, ahead, job, notes>>

-----------------------------------------------------------------------------
Configure ==
  /\ ~configured
  /\ configured' = TRUE
  /\ UNCHANGED <<mirror, index, stamps, run, runtime, picked, tried, notes>>

\* clearSourceMessageIndex: every message is due again.
Clear ==
  /\ row' = Nothing /\ vector' = Off
  /\ lateMedia' = Off /\ lateEdit' = Off
  /\ rebuilt' = configured
  /\ straddled' = (configured /\ run # "off" /\ ~runtime)
  /\ UNCHANGED <<mirror, ahead, skewed, job, raced>>

\* The run reads the configuration once; one that cannot read it goes on without.
StartRun ==
  /\ run = "off"
  /\ run' = "scanning" /\ tried' = 0
  /\ runtime' \in {configured, FALSE}
  /\ straddled' = (straddled \/ (rebuilt /\ ~runtime'))
  /\ UNCHANGED <<mirror, index, stamps, configured, picked, raced, rebuilt>>

dueBatch ==
  {m \in Msgs : Due(m) /\ Cardinality({k \in Msgs : k < m /\ Due(k)}) < BatchSize}

\* The texts of the batch are those of the fetch.
Fetch ==
  /\ run = "scanning"
  /\ tried < MaxTried /\ dueBatch # {}
  /\ picked' = [m \in Msgs |-> IF m \in dueBatch THEN text[m] ELSE NoText]
  /\ tried' = tried + Cardinality(dueBatch)
  /\ run' = "embedding"
  /\ UNCHANGED <<mirror, index, stamps, configured, runtime, notes>>

\* Nothing is due, the budget is spent, activity made the run yield, or the query failed.
EndRun ==
  /\ run = "scanning"
  /\ run' = "off"
  /\ UNCHANGED <<mirror, index, stamps, configured, runtime, picked, tried, notes>>

\* Without a model the rows are written without vectors, and so is what has no text.
Put ==
  /\ run = "embedding"
  /\ row' = [m \in Msgs |-> IF InBatch(m) THEN picked[m] ELSE row[m]]
  /\ vector' = [m \in Msgs |-> IF InBatch(m) THEN runtime /\ ~Empty(m, picked[m])
                               ELSE vector[m]]
  /\ lateMedia' = [m \in Msgs |-> lateMedia[m] /\ ~InBatch(m)]
  /\ lateEdit' = [m \in Msgs |-> IF InBatch(m) THEN skewed[m] ELSE lateEdit[m]]
  /\ ahead' = [m \in Msgs |-> ahead[m] /\ ~InBatch(m)]
  /\ raced' = {m \in raced : InBatch(m) => picked[m] # text[m]}
  /\ picked' = Nothing /\ run' = "scanning"
  /\ UNCHANGED <<mirror, skewed, configured, runtime, tried, rebuilt, straddled>>

\* Mutation: a failed call writes the batch without vectors.
EmbedFailsAnyway ==
  /\ run = "embedding" /\ runtime
  /\ row' = [m \in Msgs |-> IF InBatch(m) THEN picked[m] ELSE row[m]]
  /\ vector' = [m \in Msgs |-> vector[m] /\ ~InBatch(m)]
  /\ lateMedia' = [m \in Msgs |-> lateMedia[m] /\ ~InBatch(m)]
  /\ lateEdit' = [m \in Msgs |-> IF InBatch(m) THEN skewed[m] ELSE lateEdit[m]]
  /\ ahead' = [m \in Msgs |-> ahead[m] /\ ~InBatch(m)]
  /\ raced' = {m \in raced : InBatch(m) => picked[m] # text[m]}
  /\ picked' = Nothing /\ run' = "off"
  /\ UNCHANGED <<mirror, skewed, configured, runtime, tried, rebuilt, straddled>>

\* A failed call leaves the batch due and ends the run; a batch without text has no call.
EmbedFails ==
  /\ run = "embedding" /\ runtime
  /\ \E m \in Msgs : InBatch(m) /\ ~Empty(m, picked[m])
  /\ picked' = Nothing /\ run' = "off"
  /\ UNCHANGED <<mirror, index, stamps, configured, runtime, tried, notes>>

\* The write fails: the batch stays due, and the run ends.
PutFails ==
  /\ run = "embedding"
  /\ picked' = Nothing /\ run' = "off"
  /\ UNCHANGED <<mirror, index, stamps, configured, runtime, tried, notes>>

\* The core restarts in the middle of a run.
Crash ==
  /\ run # "off"
  /\ picked' = Nothing /\ run' = "off"
  /\ UNCHANGED <<mirror, index, stamps, configured, runtime, tried, notes>>

RunStep == Fetch \/ Put \/ EmbedFails \/ PutFails \/ EndRun

Next ==
  \/ Configure \/ Clear \/ StartRun \/ Crash \/ RunStep
  \/ \E m \in Msgs :
       \/ Described(m) \/ EditMade(m) \/ ClockPasses(m)
       \/ \E skew \in BOOLEAN : EditApplied(m, skew)

\* A run goes on: each fetch, call and put settles, and it stops when its
\* condition says so (EndRun is also the yield, which nothing forces).
Done == EndRun /\ (tried >= MaxTried \/ dueBatch = {})
Fairness == WF_searchVars(Fetch \/ Put \/ EmbedFails \/ PutFails) /\ WF_searchVars(Done)

Spec == Init /\ [][Next]_searchVars /\ Fairness

-----------------------------------------------------------------------------
SearchTypeOK ==
  /\ text \in [Msgs -> (1 .. MaxEdits + 1) \X {"none", "pending", "described"}]
  /\ \A m \in Msgs : row[m] # NoText => row[m] \in (1 .. MaxEdits + 1) \X {"none", "pending", "described"}
  /\ {edited, vector, lateMedia, lateEdit, ahead, skewed} \subseteq [Msgs -> BOOLEAN]
  /\ {configured, runtime, rebuilt, straddled} \subseteq BOOLEAN
  /\ run \in {"off", "scanning", "embedding"}
  /\ tried \in 0 .. MaxTried + BatchSize
  /\ raced \subseteq Msgs
  /\ (run = "embedding") = (picked # Nothing)

\* A message whose row was built from an older text is due (content.ts: "a
\* message is due when ... either of its two sources changed after the row was
\* built"), or its change fell between the fetch and the put of a batch, or its
\* edit took longer to arrive than the row to be rebuilt.
StaleIsDue ==
  \A m \in Msgs : row[m] # NoText /\ row[m] # text[m] => Due(m) \/ m \in raced

\* After the index was cleared with a model configured, every row that comes
\* back with a text carries a vector (index-messages.ts: a null vector would "quietly
\* deny them a vector forever"), unless a run that had read no model was under way;
\* one without a text never carries one ("indexes an empty message with no vector rather
\* than handing it back forever").
RebuiltWithVectors ==
  \A m \in Msgs : row[m] # NoText =>
    IF Empty(m, row[m]) THEN ~vector[m] ELSE rebuilt /\ ~straddled => vector[m]

\* The index keeps up with the mirror: what is out of date is due, and what was
\* rebuilt has its vectors.
IndexKeepsUp == StaleIsDue /\ RebuiltWithVectors

\* A run ends, also when a row stays due however often it is rebuilt (an edit
\* stamped later than the core's clock).
IndexRunEnds == run # "off" ~> run = "off"
=============================================================================
