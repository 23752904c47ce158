---------------------------- MODULE MemoryNight ----------------------------
(***************************************************************************)
(* The nightly memory run: facts extracted from a chat's finished day and  *)
(* notes saved during the day are queued, and merged by the model into one *)
(* document per owner, while people keep saving and the operator keeps     *)
(* editing (core/features/memory/server/extract.ts, consolidate.ts,        *)
(* repository.ts, service.ts, scheduler.ts).                               *)
(*                                                                         *)
(* The owners are one person and the general document.  A document is the  *)
(* set of facts it says; a good merge says everything it was given.        *)
(***************************************************************************)
EXTENDS Naturals, FiniteSets

CONSTANTS
  UserFacts,     \* facts about the person
  GeneralFacts,  \* facts for everybody
  DayFacts,      \* those the extraction finds in the day
  MaxNotes,      \* notes folded in by one run (500 in the code)
  MaxEdits       \* bound: what the operator does to the documents

Owners == {"user", "general"}
Facts == UserFacts \cup GeneralFacts
Off == <<"off">>
ownerOf(f) == IF f \in UserFacts THEN "user" ELSE "general"

VARIABLES
  pending,    \* the notes in the queue
  doc,        \* the facts a document says; "none" when there is no row
  marked,     \* the day carries its extraction marker
  pass,       \* where the run is
  unqueued,   \* facts of the day not queued yet
  backlog,    \* the general notes, read when the consolidation began
  folding,    \* the notes given to the model
  base,       \* the document given to the model
  budget,     \* notes the run may still fold in
  \* history
  said,       \* facts anyone saved or the extraction queued
  given,      \* facts the operator removed: discarded, edited out or forgotten
  handed,     \* facts that were on their way into a document when removed
  crossed,    \* facts the operator wrote while a merge of the document ran
  edits

queue == <<pending, doc, marked>>
night == <<pass, unqueued, backlog, folding, base, budget>>
memoryHistory == <<said, given, handed, crossed, edits>>
memoryVars == <<queue, night, memoryHistory>>

Init ==
  /\ pending = {} /\ doc = [o \in Owners |-> {}] /\ marked = FALSE
  /\ pass = Off /\ unqueued = {} /\ backlog = {}
  /\ folding = {} /\ base = {} /\ budget = 0
  /\ said = {} /\ given = {} /\ handed = {} /\ crossed = {} /\ edits = 0

Merging(o) == pass \in {<<"asked", o>>, <<"merged", o>>, <<"stored", o>>}
\* What the run has read and will still store.
InHand ==
  backlog \cup (IF pass[1] \in {"asked", "merged"} THEN folding \cup base ELSE {})

-----------------------------------------------------------------------------
(* What people and the operator do meanwhile.                              *)

\* The memory_save tool.
Save(f) ==
  /\ f \notin said
  /\ pending' = pending \cup {f}
  /\ said' = said \cup {f}
  /\ UNCHANGED <<doc, marked, night, given, handed, crossed, edits>>

\* discardMemoryEntry.
Discard(f) ==
  /\ edits < MaxEdits /\ f \in pending
  /\ pending' = pending \ {f}
  /\ given' = given \cup ({f} \ doc[ownerOf(f)])
  /\ handed' = handed \cup (InHand \cap {f})
  /\ edits' = edits + 1
  /\ UNCHANGED <<doc, marked, night, said, crossed>>

\* editUserMemory and editGeneralMemory: a fact is taken out of the document.
EditOut(o, f) ==
  /\ edits < MaxEdits /\ f \in doc[o]
  /\ doc' = [doc EXCEPT ![o] = @ \ {f}]
  /\ given' = given \cup {f}
  /\ handed' = handed \cup ({f} \cap (InHand \cup pending))
  /\ edits' = edits + 1
  /\ UNCHANGED <<pending, marked, night, said, crossed>>

\* The same, and a fact is written into it.
EditIn(o, f) ==
  /\ edits < MaxEdits /\ f \notin said /\ ownerOf(f) = o
  /\ doc' = [doc EXCEPT ![o] = @ \cup {f}]
  /\ said' = said \cup {f}
  /\ crossed' = IF pass \in {<<"asked", o>>, <<"merged", o>>} THEN crossed \cup {f} ELSE crossed
  /\ edits' = edits + 1
  /\ UNCHANGED <<pending, marked, night, given, handed>>

\* forgetUser and forgetGeneralMemory: the row of the document is deleted, and
\* nothing else.
Forget(o) ==
  /\ edits < MaxEdits /\ doc[o] # {}
  /\ doc' = [doc EXCEPT ![o] = {}]
  /\ given' = given \cup doc[o]
  /\ handed' = handed \cup (doc[o] \cap (InHand \cup pending))
  /\ edits' = edits + 1
  /\ UNCHANGED <<pending, marked, night, said, crossed>>

-----------------------------------------------------------------------------
(* The run, under the advisory lock "memory".                              *)

StartNight ==
  /\ pass = Off
  /\ IF marked
     THEN pass' = <<"users">> /\ UNCHANGED unqueued
     ELSE pass' = <<"day">> /\ unqueued' = DayFacts
  /\ backlog' = {} /\ budget' = 0
  /\ UNCHANGED <<queue, folding, base, memoryHistory>>

\* queueNotes: one insert after the other.
QueueFact(f) ==
  /\ pass = <<"day">> /\ f \in unqueued
  /\ pending' = pending \cup {f}
  /\ said' = said \cup {f}
  /\ unqueued' = unqueued \ {f}
  /\ UNCHANGED <<doc, marked, pass, backlog, folding, base, budget, given, handed, crossed, edits>>

\* stampExtractionDay, once every fact is queued.
StampDay ==
  /\ pass = <<"day">> /\ unqueued = {}
  /\ marked' = TRUE
  /\ pass' = <<"users">>
  /\ UNCHANGED <<pending, doc, unqueued, backlog, folding, base, budget, memoryHistory>>

\* A failed extraction is reported, and the consolidation runs all the same.
ExtractionFails ==
  /\ pass = <<"day">>
  /\ pass' = <<"users">> /\ unqueued' = {}
  /\ UNCHANGED <<queue, backlog, folding, base, budget, memoryHistory>>

\* The general notes are read now, the person's when their turn comes.
ReadBacklog ==
  /\ pass = <<"users">>
  /\ IF pending = {}
     THEN pass' = Off /\ UNCHANGED <<backlog, budget>>
     ELSE /\ backlog' = pending \cap GeneralFacts
          /\ budget' = MaxNotes
          /\ pass' = IF pending \cap UserFacts = {} THEN <<"general">> ELSE <<"person">>
  /\ UNCHANGED <<queue, unqueued, folding, base, memoryHistory>>

\* The notes of an owner: the general ones as they were read before.
notesOf(o) == IF o = "user" THEN pending \cap UserFacts ELSE backlog

\* At most budget of the notes are given to the model, with the document.
AskMerge(o) ==
  /\ pass = IF o = "user" THEN <<"person">> ELSE <<"general">>
  /\ \E batch \in SUBSET notesOf(o) :
       /\ Cardinality(batch) <= budget
       /\ batch = notesOf(o) \/ Cardinality(batch) = budget
       /\ folding' = batch
       /\ pass' = IF batch # {} THEN <<"asked", o>>
                  ELSE IF o = "user" THEN <<"general">> ELSE Off
       /\ base' = IF batch # {} THEN doc[o] ELSE {}
       /\ budget' = IF batch = {} /\ o = "general" THEN 0 ELSE budget
       /\ backlog' = IF batch = {} /\ o = "general" THEN {} ELSE backlog
  /\ UNCHANGED <<queue, unqueued, memoryHistory>>

\* The next owner, or the end of the run.
After(o) ==
  /\ folding' = {} /\ base' = {}
  /\ IF o = "user"
     THEN pass' = <<"general">> /\ UNCHANGED <<backlog, budget>>
     ELSE pass' = Off /\ backlog' = {} /\ budget' = 0

\* The model answers with a document that says it all.
MergeAnswers(o) ==
  /\ pass = <<"asked", o>>
  /\ pass' = <<"merged", o>>
  /\ UNCHANGED <<queue, unqueued, backlog, folding, base, budget, memoryHistory>>

\* The call failed, or its answer holds no document: the notes stay.
MergeFails(o) ==
  /\ pass = <<"asked", o>>
  /\ After(o)
  /\ UNCHANGED <<queue, unqueued, memoryHistory>>

\* upsertUserMemory, upsertGeneralMemory: the merge of what was read replaces
\* what is there.
Store(o) ==
  /\ pass = <<"merged", o>>
  /\ doc' = [doc EXCEPT ![o] = base \cup folding]
  /\ pass' = <<"stored", o>>
  /\ UNCHANGED <<pending, marked, unqueued, backlog, folding, base, budget, memoryHistory>>

\* Mutation: the owner's notes are deleted, whichever were given to the model.
DropOwners(o) ==
  /\ pass = <<"stored", o>>
  /\ pending' = {f \in pending : ownerOf(f) # o}
  /\ folding' = {} /\ base' = {}
  /\ IF o = "user"
     THEN pass' = <<"general">> /\ budget' = budget - Cardinality(folding) /\ UNCHANGED backlog
     ELSE pass' = Off /\ backlog' = {} /\ budget' = 0
  /\ UNCHANGED <<doc, marked, unqueued, memoryHistory>>

\* The notes given to the model are deleted, by id.
Drop(o) ==
  /\ pass = <<"stored", o>>
  /\ pending' = pending \ folding
  /\ folding' = {} /\ base' = {}
  /\ IF o = "user"
     THEN pass' = <<"general">> /\ budget' = budget - Cardinality(folding) /\ UNCHANGED backlog
     ELSE pass' = Off /\ backlog' = {} /\ budget' = 0
  /\ UNCHANGED <<doc, marked, unqueued, memoryHistory>>

\* The core restarts in the middle of a run.
Crash ==
  /\ pass # Off
  /\ pass' = Off /\ unqueued' = {} /\ backlog' = {} /\ folding' = {} /\ base' = {} /\ budget' = 0
  /\ UNCHANGED <<queue, memoryHistory>>

NightStep ==
  \/ \E f \in Facts : QueueFact(f)
  \/ StampDay \/ ExtractionFails \/ ReadBacklog
  \/ \E o \in Owners : AskMerge(o) \/ MergeAnswers(o) \/ MergeFails(o) \/ Store(o) \/ Drop(o)

Next ==
  \/ StartNight \/ NightStep \/ Crash
  \/ \E f \in Facts : Save(f) \/ Discard(f)
  \/ \E o \in Owners : Forget(o) \/ \E f \in Facts : EditOut(o, f) \/ EditIn(o, f)

Spec == Init /\ [][Next]_memoryVars

-----------------------------------------------------------------------------
MemoryTypeOK ==
  /\ pending \subseteq Facts /\ doc \in [Owners -> SUBSET Facts] /\ marked \in BOOLEAN
  /\ unqueued \subseteq DayFacts /\ backlog \subseteq GeneralFacts
  /\ folding \subseteq Facts /\ base \subseteq Facts /\ budget \in 0 .. MaxNotes
  /\ (folding # {}) = (\E o \in Owners : Merging(o))
  /\ {said, given, handed, crossed} \subseteq SUBSET Facts /\ edits \in 0 .. MaxEdits

\* A fact that was saved, queued or written is in the queue or in its document
\* until the operator removes it (extract.ts: "this job's job is not to lose
\* anything"): notes saved during a merge survive it, a failed or empty merge
\* loses none, and neither does a crash between any two writes.  So are the facts
\* of a day that carries its marker.  Only what the operator writes into a
\* document while it is being merged is overwritten.
NoFactLost ==
  /\ \A f \in said \ (given \cup crossed) : f \in pending \cup doc[ownerOf(f)]
  /\ marked => DayFacts \subseteq said

\* What the operator took out of a document or of the queue stays out, unless a
\* note or a run still carried it at that moment, or the day says it again.
RemovedStaysOut ==
  \A f \in given : f \in doc[ownerOf(f)] => f \in handed \cup DayFacts

\* The memory holds what was said and was not removed, and only that.
FactsAsTold == NoFactLost /\ RemovedStaysOut

\* repository.ts: "Forget one person entirely. Their pending notes cascade away
\* with the row."
ForgetTakesNotes == [][Forget("user") => pending' \cap UserFacts = {}]_memoryVars
=============================================================================
