----------------------- MODULE ServiceRecords_proofs -----------------------
(***************************************************************************)
(* What the steps of the memory, of the insights, of the identity links,   *)
(* of the model roles and of the feedback keep.  Services_proofs has the   *)
(* theorems about the runs of the services.                                *)
(***************************************************************************)
EXTENDS ServiceRecords, FiniteSetTheorems, WellFoundedInduction, TLAPS

\* A set of numbers that is not empty has a least element.
LEMMA Least ==
  ASSUME NEW T, T \subseteq Nat, T # {}
  PROVE  \E x \in T : \A y \in T : x <= y
<1> DEFINE R == OpToRel(<, Nat)
<1>1. \A x, y \in Nat : y < x => <<y, x>> \in R
  <2>1. R = {p \in Nat \X Nat : p[1] < p[2]}
    BY Zenon DEF OpToRel
  <2> HIDE DEF R
  <2> QED BY <2>1
<1>2. IsWellFoundedOn(R, Nat)
  BY Zenon, NatLessThanWellFounded
<1> HIDE DEF R
<1>3. PICK x \in T : \A y \in T : ~ (<<y, x>> \in R)
  BY <1>2, WFMin, Zenon
<1>4. \A y \in T : x <= y
  <2> TAKE y \in T
  <2>1. x \in Nat /\ y \in Nat
    OBVIOUS
  <2>2. ~ (y < x)
    BY <1>1, <1>3, <2>1, Zenon
  <2> QED  BY <2>1, <2>2
<1> QED BY <1>4

-----------------------------------------------------------------------------
\* The memory.

\* The cardinality of the instance is the cardinality.
LEMMA OneCardinality == \A S : MN!Cardinality(S) = Cardinality(S)
BY DEF MN!Cardinality, Cardinality

\* Where the run may be, and the facts of an owner.
Passes ==
  {MN!Off, <<"day">>, <<"users">>, <<"person">>, <<"general">>}
  \cup {<<s, o>> : s \in {"asked", "merged", "stored"}, o \in MN!Owners}
Owned(o) == {f \in MN!Facts : MN!ownerOf(f) = o}

\* The types, with what one step of the night leaves to the next: notes are given to
\* the model while a merge runs, and fewer than the budget.
PassInv ==
  /\ pending \subseteq MN!Facts /\ doc \in [MN!Owners -> SUBSET MN!Facts] /\ marked \in BOOLEAN
  /\ pass \in Passes
  /\ unqueued \subseteq DayFacts /\ backlog \subseteq GeneralFacts
  /\ folding \subseteq MN!Facts /\ base \subseteq MN!Facts /\ budget \in 0 .. MaxNotes
  /\ Cardinality(folding) <= budget
  /\ folding # {} <=> \E o \in MN!Owners : MN!Merging(o)
  /\ said \subseteq MN!Facts /\ given \subseteq MN!Facts /\ handed \subseteq MN!Facts
  /\ crossedNotes \subseteq MN!Facts /\ docEdits \in 0 .. MaxEdits

\* A document and what is to be stored into it hold facts of its owner, and nothing
\* is queued, in hand or in a document that nobody said.
OwnInv ==
  /\ \A o \in MN!Owners : doc[o] \subseteq Owned(o)
  /\ \A o \in MN!Owners : MN!Merging(o) => folding \cup base \subseteq Owned(o)
  /\ pending \cup folding \cup base \cup backlog \cup given \subseteq said
  /\ \A o \in MN!Owners : doc[o] \subseteq said

\* What the document says beyond the one given to the model was written meanwhile,
\* what was folded in stands in it or was removed again, and the facts of a day
\* are said or still to be queued.
LossInv ==
  /\ MN!NoFactLost
  /\ \A o \in MN!Owners : pass \in {<<"asked", o>>, <<"merged", o>>} => doc[o] \subseteq base \cup crossedNotes
  /\ \A o \in MN!Owners : pass = <<"stored", o>> => folding \subseteq doc[o] \cup given
  /\ pass = <<"day">> => DayFacts \subseteq said \cup unqueued

\* A fact that was removed and is queued, in hand or in its document again was on its
\* way there when it was removed.
RemovedInv ==
  \A f \in given : f \in pending \cup MN!InHand \cup doc[MN!ownerOf(f)] => f \in handed \cup DayFacts

\* The places of the run are different ones.
LEMMA Places ==
  /\ MN!Owners = {"user", "general"} /\ MN!Off \in Passes
  /\ \A o \in MN!Owners : <<"asked", o>> \in Passes /\ <<"merged", o>> \in Passes
       /\ <<"stored", o>> \in Passes
  /\ {<<"day">>, <<"users">>, <<"person">>, <<"general">>} \subseteq Passes
  /\ \A o, p \in MN!Owners :
       /\ <<"asked", o>> # <<"merged", p>> /\ <<"asked", o>> # <<"stored", p>>
       /\ <<"merged", o>> # <<"stored", p>>
       /\ \A s \in {"asked", "merged", "stored"} :
            /\ <<s, o>> = <<s, p>> => o = p
            /\ <<s, o>> \notin {MN!Off, <<"day">>, <<"users">>, <<"person">>, <<"general">>}
  BY DEF MN!Owners, MN!Off, Passes

\* Every fact has one owner.
LEMMA Ownership ==
  /\ \A f \in MN!Facts : MN!ownerOf(f) \in MN!Owners
  /\ \A f \in UserFacts : f \in MN!Facts /\ MN!ownerOf(f) = "user"
  /\ \A f \in GeneralFacts : f \in MN!Facts /\ MN!ownerOf(f) = "general"
BY MemoryAssumption DEF MN!Facts, MN!ownerOf, MN!Owners

\* A set of facts is finite, and its size is zero when it is empty.
LEMMA FactCards ==
  ASSUME NEW S, S \subseteq MN!Facts
  PROVE  Cardinality(S) \in Nat /\ (Cardinality(S) = 0 <=> S = {})
<1>1. IsFiniteSet(S)
  BY FS_Subset, MemoryAssumption
<1> QED  BY <1>1, FS_CardinalityType, FS_EmptySet

\* The night rests at first.
LEMMA InitPass == MN!Init => PassInv
<1> SUFFICES ASSUME MN!Init PROVE PassInv
  OBVIOUS
<1>1. Cardinality(folding) = 0
  BY FS_EmptySet DEF MN!Init
<1>3. MaxNotes \in Nat /\ MaxEdits \in Nat /\ 0 \in 0 .. MaxNotes /\ 0 \in 0 .. MaxEdits
  BY MemoryAssumption
<1>4. doc \in [MN!Owners -> SUBSET MN!Facts]
  BY DEF MN!Init
<1>2. ~ \E o \in MN!Owners : MN!Merging(o)
  BY Places DEF MN!Init, MN!Merging
<1>5. pass \in Passes
  BY Places DEF MN!Init
<1>6. /\ Cardinality(folding) <= budget /\ budget \in 0 .. MaxNotes /\ docEdits \in 0 .. MaxEdits
      /\ folding = {} /\ marked = FALSE
  BY <1>1, <1>3 DEF MN!Init
<1>7. {pending, unqueued, backlog, folding, base, said, given, handed, crossedNotes} = {{}}
  BY DEF MN!Init
<1> QED  BY <1>2, <1>4, <1>5, <1>6, <1>7 DEF PassInv

\* Every step of the night keeps the order of its pass.
LEMMA NextPass == PassInv /\ [MN!Next]_(MN!memoryVars) => PassInv'
<1> SUFFICES ASSUME PassInv, [MN!Next]_(MN!memoryVars) PROVE PassInv'
  OBVIOUS
<1> USE DEF MN!queue, MN!night, MN!memoryHistory
<1>d. \A o \in MN!Owners : doc[o] \subseteq MN!Facts
  BY DEF PassInv
<1>e. docEdits < MaxEdits => docEdits + 1 \in 0 .. MaxEdits
  BY MemoryAssumption DEF PassInv
<1>n. MaxNotes \in Nat /\ budget \in Nat /\ Cardinality({}) = 0 /\ Cardinality(folding) \in Nat
  BY FactCards, FS_EmptySet, MemoryAssumption DEF PassInv
\* What is said and edited leaves the run alone.
<1>1. ASSUME UNCHANGED <<MN!night, marked>>, pending' \subseteq MN!Facts,
             doc' \in [MN!Owners -> SUBSET MN!Facts],
             said' \subseteq MN!Facts, given' \subseteq MN!Facts, handed' \subseteq MN!Facts,
             crossedNotes' \subseteq MN!Facts,
             docEdits' \in 0 .. MaxEdits
      PROVE  PassInv'
  BY <1>1 DEF PassInv, MN!Merging
<1>2. ASSUME NEW f \in MN!Facts, MN!Save(f) \/ MN!Discard(f)
      PROVE  PassInv'
  <2>1. CASE MN!Save(f)
    BY <2>1, <1>1 DEF MN!Save, PassInv
  <2>2. CASE MN!Discard(f)
    BY <2>2, <1>1, <1>e DEF MN!Discard, PassInv
  <2> QED  BY <1>2, <2>1, <2>2
<1>3. ASSUME NEW o \in MN!Owners, NEW f \in MN!Facts, MN!EditOut(o, f) \/ MN!EditIn(o, f)
      PROVE  PassInv'
  <2>1. doc' \in [MN!Owners -> SUBSET MN!Facts]
    BY <1>3, <1>d DEF MN!EditOut, MN!EditIn, PassInv
  <2>2. CASE MN!EditOut(o, f)
    BY <2>1, <2>2, <1>1, <1>e DEF MN!EditOut, PassInv
  <2>3. CASE MN!EditIn(o, f)
    BY <2>1, <2>3, <1>1, <1>e DEF MN!EditIn, PassInv
  <2> QED  BY <1>3, <2>2, <2>3
<1>4. ASSUME NEW o \in MN!Owners, MN!Forget(o)
      PROVE  PassInv'
  <2>1. doc' \in [MN!Owners -> SUBSET MN!Facts]
    BY <1>4, <1>d DEF MN!Forget, PassInv
  <2> QED  BY <2>1, <1>4, <1>1, <1>d, <1>e DEF MN!Forget, PassInv
\* Between two merges.
<1>5. ASSUME UNCHANGED <<doc, folding, given, handed, crossedNotes, docEdits>>, folding = {},
             pending' \subseteq MN!Facts, said' \subseteq MN!Facts, marked' \in BOOLEAN,
             pass' \in {MN!Off, <<"day">>, <<"users">>, <<"person">>, <<"general">>},
             unqueued' \subseteq DayFacts, backlog' \subseteq GeneralFacts, base' \subseteq MN!Facts,
             budget' \in 0 .. MaxNotes
      PROVE  PassInv'
  <2>1. pass' \in Passes /\ ~ \E o \in MN!Owners : MN!Merging(o)'
    BY <1>5, Places DEF MN!Merging
  <2> QED  BY <1>5, <1>n, <2>1 DEF PassInv
<1>6. ASSUME ~ \E o \in MN!Owners : MN!Merging(o)
      PROVE  folding = {}
  BY <1>6 DEF PassInv
<1>7. ASSUME MN!StartNight \/ MN!StampDay \/ MN!ExtractionFails
             \/ MN!ReadBacklog \/ \E f \in MN!Facts : MN!QueueFact(f)
      PROVE  PassInv'
  <2>1. folding = {}
    BY <1>6, <1>7, Places
      DEF MN!StartNight, MN!StampDay, MN!ExtractionFails, MN!ReadBacklog, MN!QueueFact, MN!Merging
  <2>2. CASE MN!StartNight
    BY <1>5, <1>n, <2>1, <2>2 DEF MN!StartNight, PassInv
  <2>3. CASE MN!StampDay \/ MN!ExtractionFails
    BY <1>5, <2>1, <2>3 DEF MN!StampDay, MN!ExtractionFails, PassInv
  <2>4. CASE MN!ReadBacklog
    BY <1>5, <1>n, <2>1, <2>4 DEF MN!ReadBacklog, PassInv
  <2>5. CASE \E f \in MN!Facts : MN!QueueFact(f)
    BY <1>5, <2>1, <2>5 DEF MN!QueueFact, PassInv
  <2> QED  BY <1>7, <2>2, <2>3, <2>4, <2>5
<1>8. ASSUME NEW o \in MN!Owners, MN!AskMerge(o)
      PROVE  PassInv'
  <2>1. PICK notes \in SUBSET MN!notesOf(o) :
          /\ Cardinality(notes) <= budget
          /\ folding' = notes
          /\ pass' = IF notes # {} THEN <<"asked", o>>
                     ELSE IF o = "user" THEN <<"general">> ELSE MN!Off
          /\ base' = IF notes # {} THEN doc[o] ELSE {}
          /\ budget' = IF notes = {} /\ o = "general" THEN 0 ELSE budget
          /\ backlog' = IF notes = {} /\ o = "general" THEN {} ELSE backlog
    BY <1>8, OneCardinality DEF MN!AskMerge
  <2>2. UNCHANGED <<MN!queue, unqueued, MN!memoryHistory>>
    BY <1>8 DEF MN!AskMerge
  <2>3. notes \subseteq MN!Facts
    BY DEF MN!notesOf, PassInv, MN!Facts
  <2>4. CASE notes = {}
    <3>1. folding = {}
      BY <1>6, <1>8, Places DEF MN!AskMerge, MN!Merging
    <3> QED  BY <1>5, <1>n, <2>1, <2>2, <2>4, <3>1 DEF PassInv
  <2>5. CASE notes # {}
    <3>1. pass' \in Passes /\ MN!Merging(o)'
      BY <2>1, <2>5, Places DEF MN!Merging
    <3>2. base' \subseteq MN!Facts /\ UNCHANGED <<budget, backlog>>
      BY <1>d, <2>1, <2>5
    <3> QED  BY <2>1, <2>2, <2>3, <2>5, <3>1, <3>2 DEF PassInv
  <2> QED  BY <2>4, <2>5
<1>9. ASSUME NEW o \in MN!Owners, MN!MergeAnswers(o) \/ MN!Store(o)
      PROVE  PassInv'
  <2>1. pass' \in Passes /\ MN!Merging(o) /\ MN!Merging(o)'
    BY <1>9, Places DEF MN!MergeAnswers, MN!Store, MN!Merging
  <2>2. doc' \in [MN!Owners -> SUBSET MN!Facts]
    BY <1>9 DEF MN!MergeAnswers, MN!Store, PassInv
  <2> QED  BY <1>9, <2>1, <2>2 DEF MN!MergeAnswers, MN!Store, PassInv
<1>10. ASSUME folding' = {}, base' = {}, pass' \in {MN!Off, <<"general">>},
              backlog' \subseteq GeneralFacts,
              budget' \in 0 .. MaxNotes, UNCHANGED <<doc, marked, unqueued, MN!memoryHistory>>,
              pending' \subseteq MN!Facts
       PROVE  PassInv'
  <2>1. pass' \in Passes /\ ~ \E o \in MN!Owners : MN!Merging(o)'
    BY <1>10, Places DEF MN!Merging
  <2> QED  BY <1>10, <1>n, <2>1 DEF PassInv
<1>11. ASSUME NEW o \in MN!Owners, MN!MergeFails(o)
       PROVE  PassInv'
  BY <1>10, <1>11, <1>n DEF MN!MergeFails, MN!After, PassInv
<1>12. ASSUME NEW o \in MN!Owners, MN!Drop(o)
       PROVE  PassInv'
  <2>1. budget - Cardinality(folding) \in 0 .. MaxNotes
    BY <1>n DEF PassInv
  <2> QED  BY <1>10, <1>12, <1>n, <2>1, OneCardinality DEF MN!Drop, PassInv
<1>13. CASE MN!Crash
  <2>1. pass' \in Passes /\ ~ \E o \in MN!Owners : MN!Merging(o)'
    BY <1>13, Places DEF MN!Crash, MN!Merging
  <2> QED  BY <1>13, <1>n, <2>1 DEF MN!Crash, PassInv
<1>14. CASE UNCHANGED MN!memoryVars
  BY <1>14 DEF MN!memoryVars, PassInv, MN!Merging
<1> QED
  BY <1>2, <1>3, <1>4, <1>7, <1>8, <1>9, <1>11, <1>12, <1>13, <1>14 DEF MN!Next, MN!NightStep

\* Whom the facts belong to.
LEMMA NextOwn == PassInv /\ OwnInv /\ [MN!Next]_(MN!memoryVars) => OwnInv'
<1> SUFFICES ASSUME PassInv, OwnInv, [MN!Next]_(MN!memoryVars) PROVE OwnInv'
  OBVIOUS
<1> USE DEF MN!queue, MN!night, MN!memoryHistory
<1>o. \A o \in MN!Owners : doc[o] \subseteq MN!Facts /\ doc[o] \subseteq said /\ doc[o] \subseteq Owned(o)
  BY DEF PassInv, OwnInv
\* What is said and edited leaves the run alone.
<1>1. ASSUME UNCHANGED MN!night, pending' \subseteq said', given' \subseteq said', said \subseteq said',
             \A o \in MN!Owners : doc'[o] \subseteq Owned(o) /\ doc'[o] \subseteq said'
      PROVE  OwnInv'
  BY <1>1 DEF OwnInv, MN!Merging, Owned
<1>2. ASSUME NEW f \in MN!Facts, MN!Save(f) \/ MN!Discard(f)
      PROVE  OwnInv'
  BY <1>2, <1>1, <1>o DEF MN!Save, MN!Discard, OwnInv
<1>3. ASSUME NEW o \in MN!Owners, NEW f \in MN!Facts, MN!EditOut(o, f) \/ MN!EditIn(o, f)
      PROVE  OwnInv'
  <2>1. said \subseteq said' /\ UNCHANGED MN!night /\ pending' \subseteq said' /\ given' \subseteq said'
    BY <1>3, <1>o DEF MN!EditOut, MN!EditIn, OwnInv
  <2>2. \A p \in MN!Owners : doc'[p] \subseteq doc[p] \/ (p = o /\ MN!ownerOf(f) = o
          /\ doc'[p] = doc[p] \cup {f} /\ f \in said')
    BY <1>3 DEF MN!EditOut, MN!EditIn, PassInv
  <2>3. \A p \in MN!Owners : doc'[p] \subseteq Owned(p) /\ doc'[p] \subseteq said'
    BY <2>1, <2>2, <1>o DEF Owned
  <2> QED  BY <2>1, <2>3, <1>1
<1>4. ASSUME NEW o \in MN!Owners, MN!Forget(o)
      PROVE  OwnInv'
  <2>1. \A p \in MN!Owners : doc'[p] \subseteq doc[p]
    BY <1>4 DEF MN!Forget, PassInv
  <2> QED  BY <1>4, <2>1, <1>1, <1>o DEF MN!Forget, OwnInv
\* No merge runs afterwards.
<1>5. ASSUME UNCHANGED <<doc, given>>, pending' \subseteq said', said \subseteq said',
             folding' \cup base' \cup backlog' \subseteq said, ~ \E o \in MN!Owners : MN!Merging(o)'
      PROVE  OwnInv'
  BY <1>5 DEF OwnInv, Owned
<1>6. ASSUME pass' \in {MN!Off, <<"day">>, <<"users">>, <<"person">>, <<"general">>}
      PROVE  ~ \E o \in MN!Owners : MN!Merging(o)'
  BY <1>6, Places DEF MN!Merging
<1>7. ASSUME MN!StartNight \/ MN!StampDay \/ MN!ExtractionFails
             \/ MN!ReadBacklog \/ (\E f \in MN!Facts : MN!QueueFact(f)) \/ MN!Crash
      PROVE  OwnInv'
  <2>1. CASE MN!StartNight
    BY <2>1, <1>5, <1>6 DEF MN!StartNight, OwnInv
  <2>2. CASE MN!StampDay
    BY <2>2, <1>5, <1>6 DEF MN!StampDay, OwnInv
  <2>3. CASE MN!ExtractionFails
    BY <2>3, <1>5, <1>6 DEF MN!ExtractionFails, OwnInv
  <2>4. CASE MN!ReadBacklog
    BY <2>4, <1>5, <1>6 DEF MN!ReadBacklog, OwnInv
  <2>5. CASE \E f \in MN!Facts : MN!QueueFact(f)
    BY <2>5, <1>5, <1>6 DEF MN!QueueFact, OwnInv
  <2>6. CASE MN!Crash
    BY <2>6, <1>5, <1>6 DEF MN!Crash, OwnInv
  <2> QED  BY <1>7, <2>1, <2>2, <2>3, <2>4, <2>5, <2>6
<1>8. ASSUME NEW o \in MN!Owners, MN!AskMerge(o)
      PROVE  OwnInv'
  <2>1. MN!notesOf(o) \subseteq Owned(o) /\ MN!notesOf(o) \subseteq said
    BY Places, Ownership, MemoryAssumption DEF MN!notesOf, Owned, OwnInv, PassInv
  <2>2. folding' \subseteq MN!notesOf(o) /\ UNCHANGED <<pending, doc, said, given>>
        /\ backlog' \subseteq backlog /\ base' \subseteq doc[o]
    BY <1>8 DEF MN!AskMerge
  <2>3. \A p \in MN!Owners : MN!Merging(p)' => p = o
    BY <1>8, Places DEF MN!AskMerge, MN!Merging
  <2> QED  BY <2>1, <2>2, <2>3, <1>o DEF OwnInv, Owned
<1>9. ASSUME NEW o \in MN!Owners, MN!MergeAnswers(o)
      PROVE  OwnInv'
  <2>1. \A p \in MN!Owners : MN!Merging(p)' => MN!Merging(p)
    BY <1>9, Places DEF MN!MergeAnswers, MN!Merging
  <2> QED  BY <1>9, <2>1 DEF MN!MergeAnswers, OwnInv, Owned
<1>10. ASSUME NEW o \in MN!Owners, MN!MergeFails(o) \/ MN!Drop(o)
       PROVE  OwnInv'
  BY <1>10, <1>5, <1>6 DEF MN!MergeFails, MN!Drop, MN!After, OwnInv
<1>11. ASSUME NEW o \in MN!Owners, MN!Store(o)
       PROVE  OwnInv'
  <2>1. \A p \in MN!Owners : MN!Merging(p)' => p = o
    BY <1>11, Places DEF MN!Store, MN!Merging
  <2>2. folding \cup base \subseteq Owned(o) /\ folding \cup base \subseteq said
    BY <1>11 DEF MN!Store, MN!Merging, OwnInv
  <2>3. \A p \in MN!Owners : doc'[p] = IF p = o THEN base \cup folding ELSE doc[p]
    BY <1>11 DEF MN!Store, PassInv
  <2> QED  BY <1>11, <2>1, <2>2, <2>3, <1>o DEF MN!Store, OwnInv, Owned
<1>12. CASE UNCHANGED MN!memoryVars
  BY <1>12 DEF MN!memoryVars, OwnInv, MN!Merging, Owned
<1> QED
  BY <1>2, <1>3, <1>4, <1>7, <1>8, <1>9, <1>10, <1>11, <1>12 DEF MN!Next, MN!NightStep

\* What is not lost.
LEMMA NextLoss ==
  PassInv /\ OwnInv /\ LossInv /\ [MN!Next]_(MN!memoryVars) => LossInv'
<1> SUFFICES ASSUME PassInv, OwnInv, LossInv, [MN!Next]_(MN!memoryVars) PROVE LossInv'
  OBVIOUS
<1> USE DEF MN!queue, MN!night, MN!memoryHistory
<1>o. \A f \in said : MN!ownerOf(f) \in MN!Owners
  BY Ownership DEF PassInv
<1>n. \A f \in said \ (given \cup crossedNotes) : f \in pending \/ f \in doc[MN!ownerOf(f)]
  BY DEF LossInv, MN!NoFactLost
\* Edits: what is new is queued or written, what goes is given up, and what is
\* written into a document that is being merged has crossed the merge.
<1>1. ASSUME UNCHANGED <<marked, MN!night>>, said \subseteq said', given \subseteq given',
             crossedNotes \subseteq crossedNotes',
             \A f \in said' \ said : f \in pending' \/ f \in doc'[MN!ownerOf(f)],
             \A f \in pending \ pending' : f \in given' \/ f \in doc'[MN!ownerOf(f)],
             \A o \in MN!Owners : doc[o] \ doc'[o] \subseteq given',
             \A o \in MN!Owners : pass \in {<<"asked", o>>, <<"merged", o>>}
               => doc'[o] \subseteq doc[o] \cup crossedNotes'
      PROVE  LossInv'
  <2>1. \A f \in said' \ (given' \cup crossedNotes') : f \in pending' \/ f \in doc'[MN!ownerOf(f)]
    BY <1>1, <1>o, <1>n
  <2>2. MN!NoFactLost'
    BY <1>1, <2>1 DEF LossInv, MN!NoFactLost, MN!ownerOf
  <2>3. \A o \in MN!Owners : pass \in {<<"asked", o>>, <<"merged", o>>}
          => doc'[o] \subseteq base \cup crossedNotes'
    BY <1>1 DEF LossInv
  <2>4. \A o \in MN!Owners : pass = <<"stored", o>> => folding \subseteq doc'[o] \cup given'
    BY <1>1 DEF LossInv
  <2> QED  BY <1>1, <2>2, <2>3, <2>4 DEF LossInv
<1>2. ASSUME NEW f \in MN!Facts, MN!Save(f) \/ MN!Discard(f)
      PROVE  LossInv'
  <2>1. CASE MN!Save(f)
    BY <2>1, <1>1 DEF MN!Save
  <2>2. CASE MN!Discard(f)
    BY <2>2, <1>1 DEF MN!Discard
  <2> QED  BY <1>2, <2>1, <2>2
<1>3. ASSUME NEW o \in MN!Owners, NEW f \in MN!Facts, MN!EditOut(o, f)
      PROVE  LossInv'
  <2>1. \A p \in MN!Owners : doc'[p] = IF p = o THEN doc[p] \ {f} ELSE doc[p]
    BY <1>3 DEF MN!EditOut, PassInv
  <2> QED  BY <1>3, <2>1, <1>1 DEF MN!EditOut
<1>4. ASSUME NEW o \in MN!Owners, NEW f \in MN!Facts, MN!EditIn(o, f)
      PROVE  LossInv'
  <2>1. \A p \in MN!Owners : doc'[p] = IF p = o THEN doc[p] \cup {f} ELSE doc[p]
    BY <1>4 DEF MN!EditIn, PassInv
  <2>2. pass \in {<<"asked", o>>, <<"merged", o>>} => f \in crossedNotes'
    BY <1>4 DEF MN!EditIn
  <2> QED  BY <1>4, <2>1, <2>2, <1>1 DEF MN!EditIn
<1>5. ASSUME NEW o \in MN!Owners, MN!Forget(o)
      PROVE  LossInv'
  <2>1. \A p \in MN!Owners : doc'[p] = IF p = o THEN {} ELSE doc[p]
    BY <1>5 DEF MN!Forget, PassInv
  <2> QED  BY <1>5, <2>1, <1>1 DEF MN!Forget
\* Steps of the run outside a merge.
<1>6. ASSUME UNCHANGED <<doc, given, crossedNotes>>, pending \subseteq pending', said \subseteq said',
             said' \ said \subseteq pending',
             marked' => DayFacts \subseteq said',
             pass' = <<"day">> => DayFacts \subseteq said' \cup unqueued',
             ~ \E o \in MN!Owners : MN!Merging(o)'
      PROVE  LossInv'
  <2>1. MN!NoFactLost'
    BY <1>6 DEF LossInv, MN!NoFactLost, MN!ownerOf
  <2> QED  BY <1>6, <2>1 DEF LossInv, MN!Merging
<1>7. ASSUME pass' \in {MN!Off, <<"day">>, <<"users">>, <<"person">>, <<"general">>}
      PROVE  ~ \E o \in MN!Owners : MN!Merging(o)'
  BY <1>7, Places DEF MN!Merging
<1>d. /\ <<"users">> # <<"day">> /\ <<"person">> # <<"day">> /\ <<"general">> # <<"day">>
      /\ MN!Off # <<"day">>
      /\ (marked => DayFacts \subseteq said)
  BY DEF MN!Off, LossInv, MN!NoFactLost
<1>8. ASSUME MN!StartNight \/ MN!StampDay \/ MN!ExtractionFails
             \/ MN!ReadBacklog \/ (\E f \in MN!Facts : MN!QueueFact(f)) \/ MN!Crash
      PROVE  LossInv'
  <2>1. CASE MN!StartNight
    BY <2>1, <1>6, <1>7, <1>d DEF MN!StartNight
  <2>2. CASE MN!StampDay
    BY <2>2, <1>6, <1>7, <1>d DEF MN!StampDay, LossInv
  <2>3. CASE MN!ExtractionFails
    BY <2>3, <1>6, <1>7, <1>d DEF MN!ExtractionFails
  <2>4. CASE MN!ReadBacklog
    BY <2>4, <1>6, <1>7, <1>d DEF MN!ReadBacklog
  <2>5. CASE \E f \in MN!Facts : MN!QueueFact(f)
    BY <2>5, <1>6, <1>7, <1>d DEF MN!QueueFact, LossInv
  <2>6. CASE MN!Crash
    BY <2>6, <1>6, <1>7, <1>d DEF MN!Crash
  <2> QED  BY <1>8, <2>1, <2>2, <2>3, <2>4, <2>5, <2>6
<1>9. ASSUME NEW o \in MN!Owners, MN!AskMerge(o)
      PROVE  LossInv'
  <2>1. UNCHANGED <<MN!queue, unqueued, MN!memoryHistory>> /\ (pass' = <<"asked", o>> => base' = doc[o])
    BY <1>9, Places DEF MN!AskMerge
  <2>2. \A p \in MN!Owners : pass' # <<"merged", p>> /\ pass' # <<"stored", p>>
          /\ (pass' = <<"asked", p>> => p = o)
    BY <1>9, Places DEF MN!AskMerge
  <2>3. pass' # <<"day">>
    BY <1>9, <1>d, Places DEF MN!AskMerge
  <2>4. MN!NoFactLost'
    BY <2>1 DEF LossInv, MN!NoFactLost, MN!ownerOf
  <2> QED  BY <2>1, <2>2, <2>3, <2>4 DEF LossInv
<1>10. ASSUME NEW o \in MN!Owners, MN!MergeAnswers(o)
       PROVE  LossInv'
  <2>1. \A p \in MN!Owners : pass' # <<"stored", p>>
          /\ (pass' \in {<<"asked", p>>, <<"merged", p>>} => p = o)
    BY <1>10, Places DEF MN!MergeAnswers
  <2>2. pass' # <<"day">> /\ pass = <<"asked", o>>
        /\ UNCHANGED <<MN!queue, base, folding, MN!memoryHistory>>
    BY <1>10, Places DEF MN!MergeAnswers
  <2>3. MN!NoFactLost'
    BY <2>2 DEF LossInv, MN!NoFactLost, MN!ownerOf
  <2> QED  BY <2>1, <2>2, <2>3 DEF LossInv
<1>11. ASSUME NEW o \in MN!Owners, MN!MergeFails(o)
       PROVE  LossInv'
  BY <1>11, <1>6, <1>7, <1>d DEF MN!MergeFails, MN!After
\* What the stored document lacks of the one it replaces was written meanwhile.
<1>12. ASSUME NEW o \in MN!Owners, MN!Store(o)
       PROVE  LossInv'
  <2>1. \A p \in MN!Owners : doc'[p] = IF p = o THEN base \cup folding ELSE doc[p]
    BY <1>12 DEF MN!Store, PassInv
  <2>2. UNCHANGED <<pending, marked, said, given, crossedNotes, folding>> /\ doc[o] \subseteq base \cup crossedNotes
    BY <1>12 DEF MN!Store, LossInv
  <2>3. \A p \in MN!Owners : pass' \notin {<<"asked", p>>, <<"merged", p>>}
          /\ (pass' = <<"stored", p>> => p = o)
    BY <1>12, Places DEF MN!Store
  <2>4. pass' # <<"day">>
    BY <1>12, Places DEF MN!Store
  <2>5. \A f \in said \ (given \cup crossedNotes) : f \in pending \/ f \in doc'[MN!ownerOf(f)]
    BY <1>n, <1>o, <2>1, <2>2
  <2>6. MN!NoFactLost'
    BY <2>2, <2>5 DEF LossInv, MN!NoFactLost, MN!ownerOf
  <2> QED  BY <2>1, <2>2, <2>3, <2>4, <2>6 DEF LossInv
<1>13. ASSUME NEW o \in MN!Owners, MN!Drop(o)
       PROVE  LossInv'
  <2>1. \A f \in folding : MN!ownerOf(f) = o /\ (f \in doc[o] \/ f \in given)
    BY <1>13 DEF MN!Drop, LossInv, OwnInv, MN!Merging, Owned
  <2>2. UNCHANGED <<doc, marked, MN!memoryHistory>> /\ pending' = pending \ folding
    BY <1>13 DEF MN!Drop
  <2>3. \A f \in said \ (given \cup crossedNotes) : f \in pending' \/ f \in doc[MN!ownerOf(f)]
    BY <1>n, <2>1, <2>2
  <2>4. pass' \in {MN!Off, <<"general">>}
    BY <1>13 DEF MN!Drop
  <2>5. ~ (\E p \in MN!Owners : MN!Merging(p)') /\ pass' # <<"day">>
    BY <2>4, <1>7, <1>d
  <2>6. MN!NoFactLost'
    BY <2>2, <2>3 DEF LossInv, MN!NoFactLost, MN!ownerOf
  <2> QED  BY <2>2, <2>5, <2>6 DEF LossInv, MN!Merging
<1>14. CASE UNCHANGED MN!memoryVars
  BY <1>14 DEF MN!memoryVars, LossInv, MN!NoFactLost, MN!ownerOf
<1> QED
  BY <1>2, <1>3, <1>4, <1>5, <1>8, <1>9, <1>10, <1>11, <1>12, <1>13, <1>14 DEF MN!Next, MN!NightStep

\* What stays removed.
LEMMA NextRemoved ==
  PassInv /\ OwnInv /\ RemovedInv /\ [MN!Next]_(MN!memoryVars) => RemovedInv'
<1> SUFFICES ASSUME PassInv, OwnInv, RemovedInv, [MN!Next]_(MN!memoryVars)
             PROVE  RemovedInv'
  OBVIOUS
<1> USE DEF MN!queue, MN!night, MN!memoryHistory
<1>o. \A f \in MN!Facts : MN!ownerOf(f) \in MN!Owners
  BY Ownership
<1>g. given \subseteq MN!Facts /\ given \subseteq said
  BY DEF PassInv, OwnInv
\* What is in hand.
<1>h. /\ backlog \subseteq MN!InHand /\ MN!InHand \subseteq backlog \cup folding \cup base
      /\ \A o \in MN!Owners : pass \in {<<"asked", o>>, <<"merged", o>>}
           => folding \cup base \subseteq MN!InHand
  BY DEF MN!InHand
\* A step that takes along only what was there, or the facts of the day.
<1>1. ASSUME UNCHANGED given, handed \subseteq handed',
             \A f \in given : f \in pending' \cup MN!InHand' \cup doc'[MN!ownerOf(f)] =>
               f \in pending \cup MN!InHand \cup doc[MN!ownerOf(f)] \cup DayFacts
      PROVE  RemovedInv'
  BY <1>1 DEF RemovedInv, MN!ownerOf
\* ... or removes facts, and tells which of them are under way.
<1>2. ASSUME UNCHANGED MN!night, NEW gone, given' = given \cup gone, gone \subseteq MN!Facts,
             handed \subseteq handed',
             \A f \in given : f \in pending' \cup doc'[MN!ownerOf(f)]
               => f \in pending \cup doc[MN!ownerOf(f)],
             \A f \in gone : f \notin doc'[MN!ownerOf(f)] /\ (f \in pending' \cup MN!InHand
               => f \in handed')
      PROVE  RemovedInv'
  <2>1. MN!InHand' = MN!InHand
    BY <1>2 DEF MN!InHand
  <2> QED  BY <1>2, <2>1 DEF RemovedInv, MN!ownerOf
<1>3. ASSUME NEW f \in MN!Facts, MN!Save(f)
      PROVE  RemovedInv'
  <2>1. MN!InHand' = MN!InHand
    BY <1>3 DEF MN!Save, MN!InHand
  <2> QED  BY <1>3, <1>g, <2>1, <1>1 DEF MN!Save
<1>4. ASSUME NEW f \in MN!Facts, MN!Discard(f)
      PROVE  RemovedInv'
  <2>1. /\ {f} \ doc[MN!ownerOf(f)] \subseteq MN!Facts /\ given' = given \cup ({f} \ doc[MN!ownerOf(f)])
        /\ handed' = handed \cup (MN!InHand \cap {f}) /\ pending' = pending \ {f}
           /\ UNCHANGED <<doc, MN!night>>
    BY <1>4 DEF MN!Discard
  <2> DEFINE gone == {f} \ doc[MN!ownerOf(f)]
  <2>2. \A k \in gone : k = f /\ k \notin doc[MN!ownerOf(k)]
    OBVIOUS
  <2>3. /\ given' = given \cup gone /\ gone \subseteq MN!Facts /\ doc' = doc /\ handed \subseteq handed'
        /\ pending' \subseteq pending /\ f \notin pending' /\ (f \in MN!InHand => f \in handed')
    BY <2>1
  <2> HIDE DEF gone
  <2> QED  BY <2>1, <2>2, <2>3, <1>2
<1>5. ASSUME NEW o \in MN!Owners, NEW f \in MN!Facts, MN!EditOut(o, f)
      PROVE  RemovedInv'
  <2>1. \A p \in MN!Owners : doc'[p] = IF p = o THEN doc[p] \ {f} ELSE doc[p]
    BY <1>5 DEF MN!EditOut, PassInv
  <2>2. MN!ownerOf(f) = o
    BY <1>5 DEF MN!EditOut, OwnInv, Owned
  <2>3. given' = given \cup {f} /\ handed' = handed \cup ({f} \cap (MN!InHand \cup pending))
        /\ UNCHANGED <<pending, MN!night>>
    BY <1>5 DEF MN!EditOut
  <2> QED  BY <1>g, <1>o, <2>1, <2>2, <2>3, <1>2
<1>6. ASSUME NEW o \in MN!Owners, NEW f \in MN!Facts, MN!EditIn(o, f)
      PROVE  RemovedInv'
  <2>1. \A p \in MN!Owners : doc'[p] = IF p = o THEN doc[p] \cup {f} ELSE doc[p]
    BY <1>6 DEF MN!EditIn, PassInv
  <2>2. MN!InHand' = MN!InHand /\ f \notin given /\ UNCHANGED <<pending, given, handed>>
    BY <1>6, <1>g DEF MN!EditIn, MN!InHand
  <2>3. \A k \in given : k \in doc'[MN!ownerOf(k)] => k \in doc[MN!ownerOf(k)]
    BY <1>g, <1>o, <2>1, <2>2
  <2> QED  BY <2>2, <2>3, <1>1
<1>7. ASSUME NEW o \in MN!Owners, MN!Forget(o)
      PROVE  RemovedInv'
  <2>1. \A p \in MN!Owners : doc'[p] = IF p = o THEN {} ELSE doc[p]
    BY <1>7 DEF MN!Forget, PassInv
  <2>2. \A f \in doc[o] : MN!ownerOf(f) = o /\ f \in MN!Facts
    BY DEF OwnInv, Owned
  <2>3. given' = given \cup doc[o]
        /\ handed' = handed \cup (doc[o] \cap (MN!InHand \cup pending)) /\ UNCHANGED <<pending, MN!night>>
    BY <1>7 DEF MN!Forget
  <2> QED  BY <1>g, <1>o, <2>1, <2>2, <2>3, <1>2
\* After a step to a place outside the merges only the backlog is in hand.
<1>8. ASSUME pass' \in {MN!Off, <<"day">>, <<"users">>, <<"person">>, <<"general">>}
      PROVE  MN!InHand' = backlog'
  BY <1>8 DEF MN!InHand, MN!Off
<1>9. ASSUME MN!StartNight \/ MN!StampDay \/ MN!ExtractionFails
             \/ MN!ReadBacklog \/ (\E f \in MN!Facts : MN!QueueFact(f)) \/ MN!Crash
      PROVE  RemovedInv'
  <2>1. CASE MN!StartNight
    BY <2>1, <1>1, <1>8 DEF MN!StartNight
  <2>2. CASE MN!StampDay
    BY <2>2, <1>1, <1>8, <1>h DEF MN!StampDay
  <2>3. CASE MN!ExtractionFails
    BY <2>3, <1>1, <1>8, <1>h DEF MN!ExtractionFails
  <2>4. CASE MN!ReadBacklog
    BY <2>4, <1>1, <1>8, <1>h DEF MN!ReadBacklog
  <2>5. ASSUME NEW f \in MN!Facts, MN!QueueFact(f) PROVE RemovedInv'
    <3>1. f \in DayFacts /\ pending' = pending \cup {f} /\ UNCHANGED <<doc, given, handed, pass, backlog>>
          /\ pass' = <<"day">>
      BY <2>5 DEF MN!QueueFact, PassInv
    <3> QED  BY <3>1, <1>1, <1>8, <1>h
  <2>6. CASE MN!Crash
    BY <2>6, <1>1, <1>8 DEF MN!Crash
  <2> QED  BY <1>9, <2>1, <2>2, <2>3, <2>4, <2>5, <2>6
<1>10. ASSUME NEW o \in MN!Owners, MN!AskMerge(o)
       PROVE  RemovedInv'
  <2>1. /\ UNCHANGED <<pending, doc, given, handed>>
        /\ folding' \subseteq pending \cup backlog /\ backlog' \subseteq backlog /\ base' \subseteq doc[o]
    BY <1>10 DEF MN!AskMerge, MN!notesOf
  <2>2. MN!InHand' \subseteq backlog' \cup folding' \cup base'
    BY DEF MN!InHand
  <2>3. \A f \in doc[o] : MN!ownerOf(f) = o
    BY DEF OwnInv, Owned
  <2> QED  BY <2>1, <2>2, <2>3, <1>h, <1>1
<1>11. ASSUME NEW o \in MN!Owners, MN!MergeAnswers(o)
       PROVE  RemovedInv'
  <2>1. MN!InHand' = MN!InHand
    BY <1>11 DEF MN!MergeAnswers, MN!InHand
  <2> QED  BY <1>11, <2>1, <1>1 DEF MN!MergeAnswers
<1>12. ASSUME NEW o \in MN!Owners, MN!MergeFails(o) \/ MN!Drop(o)
       PROVE  RemovedInv'
  <2>1. MN!InHand' \subseteq backlog /\ pending' \subseteq pending /\ UNCHANGED <<doc, given, handed>>
    BY <1>12, <1>8 DEF MN!MergeFails, MN!Drop, MN!After
  <2> QED  BY <2>1, <1>h, <1>1
<1>13. ASSUME NEW o \in MN!Owners, MN!Store(o)
       PROVE  RemovedInv'
  <2>1. \A p \in MN!Owners : doc'[p] = IF p = o THEN base \cup folding ELSE doc[p]
    BY <1>13 DEF MN!Store, PassInv
  <2>2. MN!InHand' \subseteq backlog /\ folding \cup base \subseteq MN!InHand
        /\ UNCHANGED <<pending, given, handed>>
    BY <1>13, <1>h DEF MN!Store, MN!InHand
  <2> QED  BY <1>g, <1>o, <1>h, <2>1, <2>2, <1>1
<1>14. CASE UNCHANGED MN!memoryVars
  BY <1>14 DEF MN!memoryVars, RemovedInv, MN!InHand, MN!ownerOf
<1> QED
  BY <1>3, <1>4, <1>5, <1>6, <1>7, <1>9, <1>10, <1>11, <1>12, <1>13, <1>14 DEF MN!Next, MN!NightStep

\* What the steps of the night keep, it has at the start, and it says what it promises.
MemoryInv == PassInv /\ OwnInv /\ LossInv /\ RemovedInv

LEMMA MemoryKept ==
  /\ MN!Init => MemoryInv
  /\ MemoryInv /\ [MN!Next]_(MN!memoryVars) => MemoryInv'
  /\ MemoryInv => MN!MemoryTypeOK /\ MN!FactsAsTold
<1>1. ASSUME MN!Init PROVE MemoryInv
  <2>1. \A o \in MN!Owners : doc[o] = {}
    BY <1>1 DEF MN!Init
  <2>2. ~ \E o \in MN!Owners : MN!Merging(o)
    BY <1>1, Places DEF MN!Init, MN!Merging
  <2>3. PassInv
    BY <1>1, InitPass
  <2>4. OwnInv
    BY <1>1, <2>1, <2>2 DEF MN!Init, OwnInv
  <2>5. pass # <<"day">>
    BY <1>1 DEF MN!Init, MN!Off
  <2>6. LossInv
    BY <1>1, <2>2, <2>5 DEF MN!Init, LossInv, MN!NoFactLost, MN!Merging
  <2>7. RemovedInv
    BY <1>1 DEF MN!Init, RemovedInv
  <2> QED  BY <2>3, <2>4, <2>6, <2>7 DEF MemoryInv
<1>2. MemoryInv /\ [MN!Next]_(MN!memoryVars) => MemoryInv'
  BY NextPass, NextOwn, NextLoss, NextRemoved DEF MemoryInv
<1>3. ASSUME MemoryInv PROVE MN!MemoryTypeOK /\ MN!FactsAsTold
  <2>1. PassInv /\ LossInv /\ RemovedInv
    BY <1>3 DEF MemoryInv
  <2>2. (folding # {}) = (\E o \in MN!Owners : MN!Merging(o))
    BY <2>1, Zenon DEF PassInv
  <2>3. MN!MemoryTypeOK
    BY <2>1, <2>2 DEF PassInv, MN!MemoryTypeOK
  <2>4. MN!FactsAsTold
    BY <2>1 DEF MN!FactsAsTold, LossInv, RemovedInv, MN!RemovedStaysOut
  <2> QED  BY <2>3, <2>4
<1> QED  BY <1>1, <1>2, <1>3

-----------------------------------------------------------------------------
\* The insights.

\* The types, with the tables as functions.
TablesInv ==
  /\ now \in 1 .. NHours + 1 /\ asOf \in 0 .. NHours + 1
  /\ floor \in 0 .. NHours + 1 /\ from \in 0 .. NHours + 1
  /\ has \subseteq HI!Hours /\ score \in [HI!Hours -> 0 .. MaxDrops + 1]
  /\ rollup \in [HI!Targets -> SUBSET (HI!Hours \X (1 .. MaxDrops + 1))]
  /\ \A t \in HI!Targets : rollup[t] \subseteq HI!hoursOf(t) \X (1 .. MaxDrops + 1)
  /\ request \in HI!Targets \cup {HI!NoTarget} /\ target \in HI!Targets \cup {HI!NoTarget}
  /\ step \in {"off", "drop", "floor", "scan", "read", "score", "roll"}
  /\ owed \subseteq HI!Hours /\ touched \subseteq HI!Targets
  /\ unproven \subseteq HI!Hours /\ importing \subseteq HI!Hours
  /\ spoiled \subseteq HI!Targets /\ narrowed \subseteq HI!Targets

\* What a step of the run leaves to the next: a regeneration is dropped before another
\* one is asked for, hours to score are found by the scan and scored before the periods
\* are rolled up, and a period to roll up has a scored hour.
BooksInv ==
  /\ lost \in 0 .. MaxDrops
  /\ step \in {"scan", "read"} => asOf >= 1
  /\ step \notin {"score", "roll"} => touched = {}
  /\ step \notin {"read", "score"} => owed = {}
  /\ request # HI!NoTarget => lost < MaxDrops
  /\ step = "drop" => request = HI!NoTarget /\ lost < MaxDrops /\ target \in HI!Targets
  /\ \A t \in touched : HI!exact(t) # {}
  /\ \A h \in HI!Hours : score[h] # 0 => h \in has /\ h < now
  /\ \A h \in owed : h \in has /\ h < now

\* The watermark, and the one the run read, are Safety hours behind the present.
FloorInv ==
  /\ asOf <= now
  /\ floor > 1 => floor + Safety <= now
  /\ from > 1 => from + Safety <= asOf

\* How far the run's scan may move the watermark.
LateBound == IF asOf > Safety THEN asOf - Safety ELSE 1

\* An hour that is owed is above the watermark, and no scan under way misses it.
ScanInv ==
  \A h \in HI!Hours : HI!Owed(h) =>
    \/ h \in importing \cup unproven
    \/ /\ h >= floor
       /\ step = "scan" => h >= from
       /\ step = "read" =>
            h \in owed \/ h >= LateBound \/ (owed # {} /\ \A k \in owed : k < h)

\* The hours that the run scores or will find.
Renewed ==
  CASE step = "floor" -> {h \in HI!Hours : HI!Owed(h) /\ h >= floor}
    [] step = "scan" -> {h \in HI!Hours : HI!Owed(h) /\ h < asOf /\ h >= from}
    [] OTHER -> owed

\* A row that does not stand for the scored hours of its period was spoiled or
\* narrowed, is to be rolled up, or will be once an hour of it is scored.
RollupInv ==
  \A t \in HI!Targets :
    \/ rollup[t] = HI!exact(t)
    \/ t \in spoiled \cup narrowed \cup touched
    \/ HI!hoursOf(t) \cap Renewed # {}

LEMMA InsightBounds ==
  /\ NHours \in Nat /\ Safety \in Nat /\ MaxDrops \in Nat /\ MaxFaults \in Nat
  /\ MaxHours \in Nat \ {0}
  /\ Started \in HI!Hours /\ Seeded \subseteq HI!Hours
  /\ HI!Hours = 1 .. NHours
  BY InsightsAssumption DEF HI!Hours

\* The hours, days and the whole.
LEMMA TargetParts ==
  /\ \A t \in HI!Targets :
       /\ HI!hoursOf(t) \subseteq HI!Hours
       /\ HI!below(t) \subseteq HI!Targets
       /\ \A c \in HI!below(t) :
            /\ HI!hoursOf(c) \subseteq HI!hoursOf(t)
            /\ HI!rank(c) < HI!rank(t)
       /\ t[1] # "hour" => \A h \in HI!hoursOf(t) : \E c \in HI!below(t) : h \in HI!hoursOf(c)
       /\ t[1] = "hour" => HI!below(t) = {} /\ t[2] \in HI!Hours /\ HI!hoursOf(t) = {t[2]}
       /\ t[1] = "all" => HI!hoursOf(t) = HI!Hours
       /\ t[1] \in {"hour", "day", "all"}
  /\ HI!NoTarget \notin HI!Targets
<1>1. ASSUME NEW t \in HI!Targets PROVE
       /\ HI!hoursOf(t) \subseteq HI!Hours
       /\ HI!below(t) \subseteq HI!Targets
       /\ \A c \in HI!below(t) :
            /\ HI!hoursOf(c) \subseteq HI!hoursOf(t)
            /\ HI!rank(c) < HI!rank(t)
       /\ t[1] # "hour" => \A h \in HI!hoursOf(t) : \E c \in HI!below(t) : h \in HI!hoursOf(c)
       /\ t[1] = "hour" => HI!below(t) = {} /\ t[2] \in HI!Hours /\ HI!hoursOf(t) = {t[2]}
       /\ t[1] = "all" => HI!hoursOf(t) = HI!Hours
       /\ t[1] \in {"hour", "day", "all"}
  <2>1. CASE \E h \in HI!Hours : t = <<"hour", h>>
    BY <2>1 DEF HI!hoursOf, HI!below
  <2>2. CASE \E d \in HI!DaysOfAll : t = <<"day", d>>
    <3>1. PICK d \in HI!DaysOfAll : t = <<"day", d>>
      BY <2>2
    <3>2. HI!hoursOf(t) = {h \in HI!Hours : HI!dayOf(h) = d}
      BY <3>1 DEF HI!hoursOf
    <3>3. HI!below(t) = {<<"hour", h>> : h \in HI!hoursOf(t)}
      BY <3>1 DEF HI!below
    <3>4. \A h \in HI!Hours : HI!hoursOf(<<"hour", h>>) = {h} /\ <<"hour", h>> \in HI!Targets
            /\ HI!rank(<<"hour", h>>) = 1
      BY DEF HI!hoursOf, HI!Targets, HI!rank
    <3>5. HI!rank(t) = 2
      BY <3>1 DEF HI!rank
    <3>6. \A c \in HI!below(t) :
            c \in HI!Targets /\ HI!hoursOf(c) \subseteq HI!hoursOf(t) /\ HI!rank(c) < HI!rank(t)
      BY <3>2, <3>3, <3>4, <3>5
    <3>7. \A h \in HI!hoursOf(t) : \E c \in HI!below(t) : h \in HI!hoursOf(c)
      BY <3>2, <3>3, <3>4
    <3>8. t[1] = "day"
      BY <3>1
    <3> QED  BY <3>2, <3>6, <3>7, <3>8
  <2>3. CASE t = <<"all", 0>>
    <3>1. HI!hoursOf(t) = HI!Hours /\ HI!below(t) = {<<"day", d>> : d \in HI!DaysOfAll} /\ HI!rank(t) = 3
      BY <2>3 DEF HI!hoursOf, HI!below, HI!rank
    <3>2. \A d \in HI!DaysOfAll : HI!hoursOf(<<"day", d>>) = {h \in HI!Hours : HI!dayOf(h) = d}
            /\ <<"day", d>> \in HI!Targets /\ HI!rank(<<"day", d>>) = 2
      BY DEF HI!hoursOf, HI!Targets, HI!rank
    <3>3. \A h \in HI!Hours : HI!dayOf(h) \in HI!DaysOfAll
      BY DEF HI!DaysOfAll
    <3>4. \A c \in HI!below(t) :
            c \in HI!Targets /\ HI!hoursOf(c) \subseteq HI!hoursOf(t) /\ HI!rank(c) < HI!rank(t)
      BY <3>1, <3>2
    <3>5. \A h \in HI!hoursOf(t) : \E c \in HI!below(t) : h \in HI!hoursOf(c)
      BY <3>1, <3>2, <3>3
    <3>6. t[1] = "all"
      BY <2>3
    <3> QED  BY <3>1, <3>4, <3>5, <3>6
  <2> QED  BY <2>1, <2>2, <2>3 DEF HI!Targets
<1>2. HI!NoTarget \notin HI!Targets
  BY DEF HI!NoTarget, HI!Targets
<1> QED  BY <1>1, <1>2

\* A period built from exact rows is exact.
LEMMA ChildrenExact ==
  ASSUME NEW t \in HI!Targets, \A c \in HI!below(t) : rollup[c] = HI!exact(c)
  PROVE  HI!children(t) = HI!exact(t)
<1>1. CASE t[1] = "hour"
  BY <1>1 DEF HI!children, HI!exact
<1>2. CASE t[1] # "hour"
  <2>1. HI!children(t) = UNION {HI!exact(c) : c \in HI!below(t)}
    BY <1>2 DEF HI!children
  <2>2. ASSUME NEW x PROVE x \in UNION {HI!exact(c) : c \in HI!below(t)} <=> x \in HI!exact(t)
    <3>1. ASSUME NEW c \in HI!below(t), x \in HI!exact(c) PROVE x \in HI!exact(t)
      BY <3>1, TargetParts DEF HI!exact
    <3>2. ASSUME x \in HI!exact(t) PROVE \E c \in HI!below(t) : x \in HI!exact(c)
      <4>1. PICK h \in HI!hoursOf(t) : score[h] # 0 /\ x = <<h, score[h]>>
        BY <3>2 DEF HI!exact
      <4>2. PICK c \in HI!below(t) : h \in HI!hoursOf(c)
        BY <1>2, <4>1, TargetParts
      <4> QED  BY <4>1, <4>2 DEF HI!exact
    <3> QED  BY <3>1, <3>2
  <2> QED  BY <2>1, <2>2
<1> QED  BY <1>1, <1>2

\* The least of the hours to score.
LEMMA LeastHour ==
  ASSUME NEW S, S \subseteq HI!Hours, S # {}
  PROVE  HI!least(S) \in S /\ \A h \in S : HI!least(S) <= h
<1>1. S \subseteq Nat
  BY InsightBounds
<1>2. \E x \in S : \A y \in S : x <= y
  BY <1>1, Least
<1> QED  BY <1>2 DEF HI!least

\* A set of hours is finite, and a smaller one has fewer of them.
LEMMA InsightCardinality == \A S : HI!Cardinality(S) = Cardinality(S)
BY DEF HI!Cardinality, Cardinality

LEMMA HourCards ==
  ASSUME NEW S, S \subseteq HI!Hours
  PROVE  /\ Cardinality(S) \in Nat /\ (S = {} => Cardinality(S) = 0)
         /\ \A T : T \subseteq S => Cardinality(T) <= Cardinality(S) /\ Cardinality(T) \in Nat
<1>1. IsFiniteSet(HI!Hours)
  BY FS_Interval, InsightBounds
<1>2. IsFiniteSet(S)
  BY <1>1, FS_Subset
<1>3. \A T : T \subseteq S => IsFiniteSet(T) /\ Cardinality(T) <= Cardinality(S)
  BY <1>2, FS_Subset
<1>4. \A T : T \subseteq S => Cardinality(T) \in Nat
  BY <1>3, FS_CardinalityType
<1> QED  BY <1>2, <1>3, <1>4, FS_EmptySet

\* The scan takes the oldest hours: what it leaves is later than all it took, and it
\* took some.
LEMMA ScanTakesOldest ==
  ASSUME HI!ReadHours, NEW h \in HI!Hours, HI!inScan(h), h \notin owed'
  PROVE  owed' # {} /\ \A k \in owed' : k < h
<1> DEFINE S == {k \in HI!Hours : HI!inScan(k)}
<1>1. owed' = {k \in HI!Hours : HI!inScan(k) /\ Cardinality(HI!older(k)) < MaxHours}
  BY InsightCardinality DEF HI!ReadHours
<1>2. HI!Hours \subseteq Nat /\ MaxHours \in Nat \ {0}
  BY InsightBounds
<1>3. \A k \in HI!Hours : HI!older(k) \subseteq HI!Hours
  BY DEF HI!older
<1>4. ASSUME NEW k \in owed' PROVE k < h
  <2> SUFFICES ASSUME h <= k PROVE FALSE
    BY <1>1, <1>2
  <2>1. k \in HI!Hours
    BY <1>1
  <2>2. HI!older(h) \subseteq HI!older(k)
    <3> SUFFICES ASSUME NEW x \in HI!Hours, x < h PROVE x < k
      BY DEF HI!older
    <3> QED  BY <1>2, <2>1
  <2>3. Cardinality(HI!older(h)) <= Cardinality(HI!older(k)) /\ Cardinality(HI!older(h)) \in Nat
        /\ Cardinality(HI!older(k)) \in Nat
    BY <1>3, <2>1, <2>2, HourCards
  <2>4. Cardinality(HI!older(k)) < MaxHours
    BY <1>1
  <2>5. Cardinality(HI!older(h)) < MaxHours
    BY <1>2, <2>3, <2>4
  <2> QED  BY <1>1, <2>5
<1>5. owed' # {}
  <2>1. S \subseteq HI!Hours /\ h \in S
    OBVIOUS
  <2>2. PICK f \in S : \A k \in S : f <= k
    <3> HIDE DEF S
    <3> QED  BY <2>1, LeastHour
  <2>3. HI!older(f) = {}
    <3> SUFFICES ASSUME NEW k \in HI!Hours, HI!inScan(k), k < f PROVE FALSE
      BY DEF HI!older
    <3>1. f <= k
      BY <2>2
    <3> QED  BY <1>2, <2>2, <3>1
  <2>4. Cardinality(HI!older(f)) = 0
    BY <1>3, <2>2, <2>3, HourCards
  <2>5. Cardinality(HI!older(f)) < MaxHours
    BY <1>2, <2>4
  <2> QED  BY <1>1, <2>2, <2>5
<1> QED  BY <1>4, <1>5

\* A step keeps the tables and the books of the run.
LEMMA NextTables == TablesInv /\ BooksInv /\ [HI!Next]_(HI!insightVars) => TablesInv' /\ BooksInv'
<1> SUFFICES ASSUME TablesInv, BooksInv, [HI!Next]_(HI!insightVars) PROVE TablesInv' /\ BooksInv'
  OBVIOUS
<1> USE DEF HI!tables, HI!control, HI!pass, HI!insightHistory
<1>n. NHours \in Nat /\ Safety \in Nat /\ MaxDrops \in Nat /\ HI!Hours = 1 .. NHours
  BY InsightBounds
<1>t. /\ now \in 1 .. NHours + 1 /\ asOf \in 0 .. NHours + 1
      /\ floor \in 0 .. NHours + 1 /\ from \in 0 .. NHours + 1
      /\ has \subseteq HI!Hours /\ score \in [HI!Hours -> 0 .. MaxDrops + 1]
      /\ rollup \in [HI!Targets -> SUBSET (HI!Hours \X (1 .. MaxDrops + 1))]
      /\ \A t \in HI!Targets : rollup[t] \subseteq HI!hoursOf(t) \X (1 .. MaxDrops + 1)
      /\ request \in HI!Targets \cup {HI!NoTarget} /\ target \in HI!Targets \cup {HI!NoTarget}
      /\ step \in {"off", "drop", "floor", "scan", "read", "score", "roll"}
      /\ owed \subseteq HI!Hours /\ touched \subseteq HI!Targets
      /\ unproven \subseteq HI!Hours /\ importing \subseteq HI!Hours
      /\ spoiled \subseteq HI!Targets /\ narrowed \subseteq HI!Targets
  BY DEF TablesInv
<1>e. ASSUME UNCHANGED score PROVE \A t : HI!exact(t)' = HI!exact(t)
  BY <1>e DEF HI!exact, HI!hoursOf, HI!dayOf, HI!Hours
<1>p. \A h \in HI!Hours : HI!periodsOf(h) \subseteq HI!Targets
  BY DEF HI!periodsOf
<1>1. CASE HI!HourEnds
  <2>1. TablesInv'
    BY <1>1, <1>n, <1>t DEF HI!HourEnds, TablesInv
  <2>2. BooksInv'
    BY <1>1, <1>n, <1>t, <1>e DEF HI!HourEnds, BooksInv
  <2> QED  BY <2>1, <2>2
<1>2. ASSUME NEW h \in HI!Hours, HI!Arrive(h) \/ HI!ImportRows(h) PROVE TablesInv' /\ BooksInv'
  <2>1. TablesInv'
    BY <1>2, <1>n, <1>t DEF HI!Arrive, HI!ImportRows, TablesInv
  <2>2. BooksInv'
    BY <1>2, <1>n, <1>t, <1>e DEF HI!Arrive, HI!ImportRows, BooksInv
  <2> QED  BY <2>1, <2>2
<1>3. CASE HI!ImportResets
  <2>1. HI!Missed(importing) \subseteq HI!Hours
    BY <1>t DEF HI!Missed
  <2>2. unproven' \subseteq HI!Hours /\ importing' = {} /\ floor' = 0
    BY <1>3, <2>1, <1>t DEF HI!ImportResets, HI!Cold
  <2>3. TablesInv'
    BY <1>3, <2>2, <1>n, <1>t DEF HI!ImportResets, TablesInv
  <2>4. BooksInv'
    BY <1>3, <1>n, <1>t, <1>e DEF HI!ImportResets, BooksInv
  <2> QED  BY <2>3, <2>4
<1>4. ASSUME NEW t \in HI!Targets, HI!Request(t) PROVE TablesInv' /\ BooksInv'
  BY <1>4, <1>n, <1>t, <1>e DEF HI!Request, TablesInv, BooksInv
<1>5. CASE HI!StartRun
  BY <1>5, <1>n, <1>t, <1>e DEF HI!StartRun, TablesInv, BooksInv
<1>6. CASE HI!Drop
  <2>1. /\ score' \in [HI!Hours -> 0 .. MaxDrops + 1]
        /\ \A h \in HI!Hours : score'[h] = 0 \/ score'[h] = score[h]
    BY <1>6, <1>n, <1>t DEF HI!Drop, HI!DropScores
  <2>2. /\ rollup' \in [HI!Targets -> SUBSET (HI!Hours \X (1 .. MaxDrops + 1))]
        /\ \A t \in HI!Targets : rollup'[t] \subseteq rollup[t]
        /\ narrowed' \subseteq HI!Targets
    BY <1>6, <1>t DEF HI!Drop
  <2>3. step = "drop" /\ step' = "floor" /\ floor' = 0 /\ lost' = lost + 1
        /\ UNCHANGED <<now, has, request, importing, from, asOf, target, owed, touched, unproven, spoiled>>
    BY <1>6 DEF HI!Drop, HI!DropScores, HI!Cold
  <2>4. TablesInv'
    <3>1. \A t \in HI!Targets : rollup'[t] \subseteq HI!hoursOf(t) \X (1 .. MaxDrops + 1)
      BY <2>2 DEF TablesInv
    <3>2. floor' \in 0 .. NHours + 1 /\ step' = "floor"
      BY <2>3, <1>n
    <3> QED  BY <2>1, <2>2, <2>3, <3>1, <3>2 DEF TablesInv
  <2>5. touched' = {} /\ owed' = {} /\ request' = HI!NoTarget /\ lost' \in 0 .. MaxDrops
    BY <2>3, <1>n, <1>t DEF BooksInv
  <2>6. BooksInv'
    BY <2>1, <2>3, <2>5, <1>n, <1>t DEF BooksInv
  <2> QED  BY <2>4, <2>6
<1>7. CASE HI!ReadFloor
  BY <1>7, <1>n, <1>t, <1>e DEF HI!ReadFloor, TablesInv, BooksInv
<1>8. CASE HI!ReadHours
  <2>1. /\ owed' \subseteq HI!Hours /\ spoiled' \subseteq HI!Targets
        /\ \A h \in owed' : h \in has /\ h < now
    BY <1>8, <1>t, <1>p DEF HI!ReadHours, HI!inScan, HI!Owed
  <2>2. /\ step = "scan" /\ step' = "read"
        /\ UNCHANGED <<HI!tables, HI!control, from, asOf, target, touched, unproven, narrowed>>
    BY <1>8 DEF HI!ReadHours
  <2> QED  BY <2>1, <2>2, <1>n, <1>t, <1>e DEF TablesInv, BooksInv
<1>9. CASE HI!Advance
  <2>1. HI!Watermark \in 0 .. NHours + 1
    <3>1. asOf \in 1 .. NHours + 1
      BY <1>9, <1>n, <1>t DEF HI!Advance, BooksInv
    <3>2. owed # {} => HI!least(owed) \in 1 .. NHours
      BY <1>n, <1>t, LeastHour
    <3> QED  BY <3>1, <3>2, <1>n DEF HI!Watermark
  <2> QED  BY <1>9, <2>1, <1>n, <1>t, <1>e DEF HI!Advance, TablesInv, BooksInv
<1>10. CASE HI!ScoreHour
  <2> DEFINE g == HI!least(owed)
  <2>1. g \in owed /\ g \in HI!Hours
    BY <1>10, <1>t, LeastHour DEF HI!ScoreHour
  <2> HIDE DEF g
  <2>2. /\ step = "score" /\ score' = [score EXCEPT ![g] = lost + 1]
        /\ touched' = touched \cup HI!periodsOf(g) /\ owed' = owed \ {g}
        /\ UNCHANGED <<now, has, rollup, HI!control, step, from, asOf, target, HI!insightHistory>>
    BY <1>10 DEF HI!ScoreHour, g
  <2>3. lost + 1 \in 1 .. MaxDrops + 1
    BY <1>n, <1>t DEF BooksInv
  <2>4. score' \in [HI!Hours -> 0 .. MaxDrops + 1] /\ score'[g] # 0
        /\ \A h \in HI!Hours : h # g => score'[h] = score[h]
    BY <2>1, <2>2, <2>3 DEF TablesInv
  <2>5. TablesInv'
    BY <2>1, <2>2, <2>4, <1>n, <1>t, <1>p DEF TablesInv
  <2>6. ASSUME NEW t \in touched' PROVE HI!exact(t)' # {}
    <3>1. CASE t \in touched
      <4>1. PICK h \in HI!hoursOf(t) : score[h] # 0
        BY <3>1 DEF BooksInv, HI!exact
      <4>2. h \in HI!Hours /\ score'[h] # 0
        BY <3>1, <4>1, <2>4,<1>t, TargetParts
      <4>3. <<h, score'[h]>> \in HI!exact(t)'
        BY <4>1, <4>2 DEF HI!exact, HI!hoursOf, HI!dayOf, HI!Hours
      <4> QED  BY <4>3
    <3>2. CASE t \in HI!periodsOf(g)
      <4>1. g \in HI!hoursOf(t)
        BY <3>2 DEF HI!periodsOf
      <4>2. <<g, score'[g]>> \in HI!exact(t)'
        BY <4>1, <2>4 DEF HI!exact, HI!hoursOf, HI!dayOf, HI!Hours
      <4> QED  BY <4>2
    <3> QED  BY <2>2, <3>1, <3>2
  <2>7. BooksInv'
    BY <2>1, <2>2, <2>4, <2>6, <1>n, <1>t DEF BooksInv
  <2> QED  BY <2>5, <2>7
<1>11. CASE HI!ScoreFails
  <2>1. HI!least(owed) \in HI!Hours
    BY <1>11,<1>t, LeastHour DEF HI!ScoreFails
  <2> QED  BY <1>11, <2>1, <1>n, <1>t, <1>e, <1>p DEF HI!ScoreFails, TablesInv, BooksInv
<1>12. ASSUME NEW t \in HI!Targets, HI!RollUp(t) PROVE TablesInv' /\ BooksInv'
  <2>1. HI!children(t) \subseteq HI!hoursOf(t) \X (1 .. MaxDrops + 1)
    <3>1. CASE t[1] = "hour"
      BY <3>1,<1>t, <1>n, TargetParts DEF HI!children
    <3>2. CASE t[1] # "hour"
      <4>1. HI!children(t) = UNION {rollup[c] : c \in HI!below(t)}
        BY <3>2 DEF HI!children
      <4>2. \A c \in HI!below(t) : rollup[c] \subseteq HI!hoursOf(t) \X (1 .. MaxDrops + 1)
        BY <1>t,  TargetParts
      <4> QED  BY <4>1, <4>2
    <3> QED  BY <3>1, <3>2
  <2>2. HI!hoursOf(t) \subseteq HI!Hours
    BY TargetParts
  <2>3. /\ rollup' \in [HI!Targets -> SUBSET (HI!Hours \X (1 .. MaxDrops + 1))]
        /\ \A u \in HI!Targets : rollup'[u] \subseteq HI!hoursOf(u) \X (1 .. MaxDrops + 1)
    BY <1>t, <1>12, <2>1, <2>2 DEF HI!RollUp
  <2>4. /\ spoiled' \subseteq HI!Targets /\ narrowed' \subseteq HI!Targets
        /\ touched' \subseteq touched
        /\ UNCHANGED <<now, has, score, HI!control, step, from, asOf, target, owed, unproven>>
    BY <1>t, <1>12 DEF HI!RollUp, HI!Inherit
  <2>5. step = "roll"
    BY <1>12 DEF HI!RollUp
  <2>6. TablesInv'
    BY <2>3, <2>4, <1>n, <1>t DEF TablesInv
  <2>7. BooksInv'
    BY <2>4, <2>5, <1>n, <1>t, <1>e DEF BooksInv
  <2> QED  BY <2>6, <2>7
<1>13. ASSUME NEW t \in HI!Targets, HI!RollUpFails(t) PROVE TablesInv' /\ BooksInv'
  BY <1>13, <1>n, <1>t, <1>e DEF HI!RollUpFails, TablesInv, BooksInv
<1>14. CASE HI!EndRun
  BY <1>14, <1>n, <1>t, <1>e DEF HI!EndRun, HI!Rest, HI!Cold, TablesInv, BooksInv
<1>15. CASE HI!Crash \/ HI!RunFails
  <2>1. /\ step' = "off" /\ from' = 0 /\ asOf' = 0 /\ target' = HI!NoTarget /\ owed' = {} /\ touched' = {}
        /\ UNCHANGED <<now, has, score, rollup, lost, narrowed>>
    BY <1>15 DEF HI!Crash, HI!RunFails, HI!Rest, HI!Cold
  <2>2. /\ unproven' \in {unproven, {}} /\ importing' \in {importing, {}} /\ floor' \in {floor, 0}
        /\ request' \in {request, HI!NoTarget}
    BY <1>15 DEF HI!Crash, HI!RunFails, HI!Restarts, HI!Cold
  <2>3. spoiled' \subseteq HI!Targets
    BY <1>15, <1>t DEF HI!Crash, HI!RunFails
  <2>4. TablesInv'
    BY <2>1, <2>2, <2>3, <1>n, <1>t DEF TablesInv
  <2>5. BooksInv'
    BY <2>1, <2>2, <1>n, <1>t DEF BooksInv
  <2> QED  BY <2>4, <2>5
<1>17. CASE HI!TakePeriods
  <2>1. touched' \subseteq touched /\ spoiled' \subseteq HI!Targets
    BY <1>17, <1>t DEF HI!TakePeriods, HI!taken
  <2>2. /\ step' = "roll" /\ owed = {}
        /\ UNCHANGED <<HI!tables, HI!control, from, asOf, target, owed, unproven, narrowed>>
    BY <1>17 DEF HI!TakePeriods
  <2> QED  BY <2>1, <2>2, <1>n, <1>t, <1>e DEF TablesInv, BooksInv
<1>18. CASE HI!DropFails
  <2>1. /\ score' \in [HI!Hours -> 0 .. MaxDrops + 1]
        /\ \A h \in HI!Hours : score'[h] = 0 \/ score'[h] = score[h]
    BY <1>18, <1>n, <1>t DEF HI!DropFails, HI!DropScores
  <2>2. /\ step = "drop" /\ step' = "off" /\ from' = 0 /\ asOf' = 0 /\ target' = HI!NoTarget
        /\ owed' = {} /\ touched' = {} /\ lost' = lost + 1
        /\ UNCHANGED <<now, has, rollup, narrowed>>
    BY <1>18 DEF HI!DropFails, HI!DropScores, HI!Rest, HI!Cold
  <2>3. /\ unproven' \subseteq HI!Hours /\ importing' \subseteq HI!Hours /\ spoiled' \subseteq HI!Targets
        /\ floor' \in 0 .. NHours + 1 /\ request' \in {request, HI!NoTarget}
    <3>1. spoiled' \subseteq HI!Targets
      BY <1>18, <1>t DEF HI!DropFails
    <3>2. HI!toDrop \subseteq HI!Hours
      BY <2>2, TargetParts DEF HI!toDrop, BooksInv
    <3>3. /\ unproven' \in {unproven \cup HI!toDrop, {}} /\ importing' \in {importing, {}}
          /\ floor' \in {floor, 0} /\ request' \in {request, HI!NoTarget}
      BY <1>18 DEF HI!DropFails, HI!Restarts, HI!Cold
    <3>4. 0 \in 0 .. NHours + 1
      BY <1>n
    <3> QED  BY <1>t, <3>1, <3>2, <3>3, <3>4
  <2>4. TablesInv'
    <3>1. /\ now' \in 1 .. NHours + 1 /\ asOf' \in 0 .. NHours + 1
          /\ floor' \in 0 .. NHours + 1 /\ from' \in 0 .. NHours + 1
      BY <2>2, <2>3, <1>n, <1>t
    <3>2. /\ has' \subseteq HI!Hours /\ owed' \subseteq HI!Hours /\ touched' \subseteq HI!Targets
          /\ rollup' = rollup /\ narrowed' \subseteq HI!Targets
          /\ request' \in HI!Targets \cup {HI!NoTarget} /\ target' = HI!NoTarget /\ step' = "off"
      BY <2>2, <2>3, <1>t
    <3> QED  BY <2>1, <2>3, <3>1, <3>2, <1>t DEF TablesInv
  <2>5. request' = HI!NoTarget /\ lost' \in 0 .. MaxDrops
    BY <2>2, <2>3, <1>n, <1>t DEF BooksInv
  <2>6. BooksInv'
    BY <2>1, <2>2, <2>5, <1>n, <1>t DEF BooksInv
  <2> QED  BY <2>4, <2>6
<1>16. CASE UNCHANGED HI!insightVars
  BY <1>16, <1>n, <1>t, <1>e DEF HI!insightVars, TablesInv, BooksInv, HI!hoursOf, HI!dayOf, HI!Hours
<1> QED
  BY <1>1, <1>2, <1>3, <1>4, <1>5, <1>6, <1>7, <1>8, <1>9, <1>10, <1>11, <1>12, <1>13, <1>14, <1>15, <1>16,
     <1>17, <1>18
  DEF HI!Next, HI!RunStep

\* A step keeps the owed hours in sight: the watermark moves to what the scan found,
\* or to what can still come late.
LEMMA NextScan ==
  TablesInv /\ BooksInv /\ FloorInv /\ ScanInv /\ [HI!Next]_(HI!insightVars) => FloorInv' /\ ScanInv'
<1> SUFFICES ASSUME TablesInv, BooksInv, FloorInv, ScanInv, [HI!Next]_(HI!insightVars)
             PROVE  FloorInv' /\ ScanInv'
  OBVIOUS
<1> USE DEF HI!tables, HI!control, HI!pass, HI!insightHistory, HI!Owed
<1>n. /\ Safety \in Nat /\ HI!Hours = 1 .. NHours /\ NHours \in Nat
      /\ now \in 1 .. NHours + 1 /\ asOf \in 0 .. NHours + 1
      /\ floor \in 0 .. NHours + 1 /\ from \in 0 .. NHours + 1
      /\ owed \subseteq HI!Hours /\ LateBound \in Nat
      /\ score \in [HI!Hours -> 0 .. MaxDrops + 1]
  BY InsightBounds DEF TablesInv, LateBound
<1>1. CASE HI!HourEnds
  BY <1>1, <1>n DEF HI!HourEnds, FloorInv, ScanInv, LateBound
<1>2. ASSUME NEW h \in HI!Hours, HI!Arrive(h) PROVE FloorInv' /\ ScanInv'
  BY <1>2, <1>n DEF HI!Arrive, FloorInv, ScanInv, LateBound
<1>3. ASSUME NEW h \in HI!Hours, HI!ImportRows(h) PROVE FloorInv' /\ ScanInv'
  BY <1>3, <1>n DEF HI!ImportRows, FloorInv, ScanInv, LateBound
<1>4. CASE HI!ImportResets
  BY <1>4, <1>n DEF HI!ImportResets, HI!Missed, HI!Cold, FloorInv, ScanInv, LateBound
<1>5. ASSUME NEW t \in HI!Targets, HI!Request(t) PROVE FloorInv' /\ ScanInv'
  BY <1>5, <1>n DEF HI!Request, FloorInv, ScanInv, LateBound
<1>6. CASE HI!StartRun
  BY <1>6, <1>n DEF HI!StartRun, FloorInv, ScanInv, LateBound
<1>7. CASE HI!Drop
  <2>1. step' = "floor" /\ floor' = 0 /\ UNCHANGED <<now, asOf, from>>
    BY <1>7 DEF HI!Drop, HI!DropScores, HI!Cold
  <2> QED  BY <2>1, <1>n DEF FloorInv, ScanInv
<1>8. CASE HI!ReadFloor
  BY <1>8, <1>n DEF HI!ReadFloor, FloorInv, ScanInv, LateBound
<1>9. CASE HI!ReadHours
  <2>1. LateBound <= asOf
    BY <1>9, <1>n DEF HI!ReadHours, BooksInv, LateBound
  <2>2. /\ step = "scan" /\ step' = "read"
        /\ UNCHANGED <<now, has, score, floor, from, asOf, importing, unproven>>
    BY <1>9 DEF HI!ReadHours
  <2>3. ASSUME NEW h \in HI!Hours, HI!Owed(h), h >= from, h < LateBound, h \notin owed'
        PROVE  owed' # {} /\ \A k \in owed' : k < h
    <3>1. HI!inScan(h)
      BY <2>1, <2>3, <1>n DEF HI!inScan
    <3> QED  BY <1>9, <2>3, <3>1, ScanTakesOldest
  <2>4. FloorInv'
    BY <2>2 DEF FloorInv
  <2>5. ScanInv'
    <3> SUFFICES ASSUME NEW h \in HI!Hours, HI!Owed(h), h \notin importing \cup unproven
                 PROVE  h >= floor /\ (h \in owed' \/ h >= LateBound \/ (owed' # {} /\ \A k \in owed' : k < h))
      BY <2>2 DEF ScanInv, LateBound, HI!Hours
    <3>1. h >= floor /\ h >= from
      BY <2>2 DEF ScanInv
    <3> QED  BY <2>3, <3>1, <1>n
  <2> QED  BY <2>4, <2>5
<1>10. CASE HI!Advance
  <2>1. LateBound <= asOf /\ LateBound >= 1 /\ (LateBound > 1 => LateBound + Safety <= asOf)
    BY <1>10, <1>n DEF HI!Advance, BooksInv, LateBound
  <2>2. owed # {} => HI!least(owed) \in HI!Hours /\ \A h \in owed : HI!least(owed) <= h
    BY <1>n, LeastHour
  <2>3. HI!Watermark = IF owed = {} THEN IF asOf < LateBound THEN asOf ELSE LateBound
                       ELSE IF HI!least(owed) < LateBound THEN HI!least(owed) ELSE LateBound
    BY DEF HI!Watermark, LateBound
  <2>4. /\ HI!Watermark <= LateBound /\ HI!Watermark \in Nat /\ \A h \in owed : HI!Watermark <= h
        /\ owed # {} => \E h \in owed : HI!Watermark <= h
    <3>1. CASE owed = {}
      BY <3>1, <2>1, <2>3, <1>n
    <3>2. CASE owed # {}
      <4>1. HI!least(owed) \in Nat
        BY <3>2, <2>2, <1>n
      <4>2. owed \subseteq Nat
        BY <1>n
      <4>3. HI!Watermark <= HI!least(owed) /\ HI!Watermark <= LateBound /\ HI!Watermark \in Nat
        <5>1. LateBound \in Nat
          BY <1>n
        <5>2. HI!Watermark = IF HI!least(owed) < LateBound THEN HI!least(owed) ELSE LateBound
          BY <3>2, <2>3
        <5> QED  BY <4>1, <5>1, <5>2
      <4>4. HI!least(owed) \in owed
        BY <3>2, <1>n, LeastHour
      <4>5. ASSUME NEW h \in owed PROVE HI!Watermark <= h
        <5>1. HI!least(owed) <= h /\ h \in Nat
          BY <4>2, <2>2, <3>2
        <5> QED  BY <4>1, <4>3, <5>1
      <4> QED  BY <4>3, <4>4, <4>5
    <3> QED  BY <3>1, <3>2
  <2>5. step = "read" /\ step' = "score" /\ floor' = HI!Watermark
        /\ UNCHANGED <<now, has, score, importing, unproven, from, asOf>>
    BY <1>10 DEF HI!Advance
  <2>6. FloorInv'
    BY <2>1, <2>4, <2>5, <1>n DEF FloorInv
  <2>7. ASSUME NEW h \in HI!Hours,
               h \in owed \/ h >= LateBound \/ (owed # {} /\ \A k \in owed : k < h)
        PROVE  h >= HI!Watermark
    <3>1. CASE owed # {} /\ \A k \in owed : k < h
      <4>1. PICK k \in owed : HI!Watermark <= k
        BY <2>4, <3>1
      <4>2. k < h /\ k \in Nat
        BY <1>n, <3>1
      <4> QED  BY <1>n, <2>4, <4>1, <4>2
    <3> QED  BY <1>n, <2>4, <2>7, <3>1
  <2>8. ScanInv'
    BY <2>5, <2>7 DEF ScanInv, HI!Hours
  <2> QED  BY <2>6, <2>8
<1>11. CASE HI!ScoreHour
  <2>1. HI!least(owed) \in HI!Hours /\ step = "score" /\ lost \in Nat
    <3>1. step = "score" /\ owed # {} /\ lost \in Nat
      BY <1>11, InsightBounds DEF HI!ScoreHour, BooksInv
    <3>2. HI!least(owed) \in owed
      BY <3>1, <1>n, LeastHour
    <3> QED  BY <3>1, <3>2, <1>n
  <2>2. \A h \in HI!Hours : score'[h] = 0 => score[h] = 0
    BY <1>11, <2>1, <1>n DEF HI!ScoreHour
  <2>3. UNCHANGED <<now, has, floor, from, asOf, importing, unproven, step>>
    BY <1>11 DEF HI!ScoreHour
  <2> QED  BY <2>1, <2>2, <2>3, <1>n DEF FloorInv, ScanInv
<1>12. CASE HI!ScoreFails
  BY <1>12, <1>n DEF HI!ScoreFails, FloorInv, ScanInv
<1>13. ASSUME NEW t \in HI!Targets, HI!RollUp(t) \/ HI!RollUpFails(t) PROVE FloorInv' /\ ScanInv'
  <2>1. step = "roll" /\ UNCHANGED <<now, has, score, floor, from, asOf, importing, unproven, step>>
    BY <1>13 DEF HI!RollUp, HI!RollUpFails
  <2> QED  BY <2>1, <1>n DEF FloorInv, ScanInv
<1>14. CASE HI!EndRun
  BY <1>14, <1>n DEF HI!EndRun, HI!Rest, HI!Cold, FloorInv, ScanInv
<1>15. CASE HI!Crash \/ HI!RunFails
  BY <1>15, <1>n DEF HI!Crash, HI!RunFails, HI!Restarts, HI!Rest, HI!Cold, FloorInv, ScanInv
<1>17. CASE HI!TakePeriods
  <2>1. step' = "roll" /\ UNCHANGED <<now, has, score, floor, from, asOf, importing, unproven>>
    BY <1>17 DEF HI!TakePeriods
  <2> QED  BY <2>1, <1>n DEF FloorInv, ScanInv
<1>18. CASE HI!DropFails
  <2>1. /\ step' = "off" /\ from' = 0 /\ asOf' = 0 /\ UNCHANGED <<now, has>>
        /\ score' = [h \in HI!Hours |-> IF h \in HI!toDrop THEN 0 ELSE score[h]]
        /\ \/ unproven' = unproven \cup HI!toDrop /\ UNCHANGED <<floor, importing>>
           \/ floor' = 0
    BY <1>18 DEF HI!DropFails, HI!DropScores, HI!Restarts, HI!Rest, HI!Cold
  <2>2. FloorInv'
    BY <2>1, <1>n DEF FloorInv
  <2>3. \A h \in HI!Hours : HI!Owed(h)' => h \in HI!toDrop \/ HI!Owed(h)
    BY <2>1
  <2>4. ScanInv'
    <3>1. CASE floor' = 0
      BY <2>1, <3>1, <1>n DEF ScanInv, HI!Hours
    <3>2. CASE unproven' = unproven \cup HI!toDrop /\ UNCHANGED <<floor, importing>>
      BY <2>1, <2>3, <3>2 DEF ScanInv, HI!Hours
    <3> QED  BY <2>1, <3>1, <3>2
  <2> QED  BY <2>2, <2>4
<1>16. CASE UNCHANGED HI!insightVars
  BY <1>16 DEF HI!insightVars, FloorInv, ScanInv, LateBound
<1> QED
  BY <1>1, <1>2, <1>3, <1>4, <1>5, <1>6, <1>7, <1>8, <1>9, <1>10, <1>11, <1>12, <1>13, <1>14, <1>15, <1>16,
     <1>17, <1>18
  DEF HI!Next, HI!RunStep

\* What a regeneration drops is owed again, and the rows it drops are those of the
\* days it touches.
LEMMA DropRollup == TablesInv /\ BooksInv /\ RollupInv /\ HI!Drop => RollupInv'
<1> SUFFICES ASSUME TablesInv, BooksInv, RollupInv, HI!Drop PROVE RollupInv'
  OBVIOUS
<1> DEFINE gone == {h \in HI!hoursOf(target) : score[h] # 0}
           dropped == IF gone = {} THEN {} ELSE {t \in HI!Targets : HI!Overlaps(t, target)}
<1>1. /\ score' = [h \in HI!Hours |-> IF h \in gone THEN 0 ELSE score[h]]
      /\ rollup' = [t \in HI!Targets |-> IF t \in dropped THEN {} ELSE rollup[t]]
      /\ narrowed' = narrowed \cup {t \in dropped : t[1] = "hour" /\ t[2] \notin gone}
      /\ step' = "floor" /\ floor' = 0 /\ UNCHANGED <<now, has, spoiled, touched>>
  BY DEF HI!Drop, HI!DropScores, HI!toDrop, HI!Cold
<1>2. target \in HI!Targets /\ gone \subseteq HI!Hours /\ Renewed = {} /\ touched = {}
      /\ HI!Hours = 1 .. NHours /\ NHours \in Nat /\ now \in Nat
      /\ score \in [HI!Hours -> 0 .. MaxDrops + 1]
      /\ rollup \in [HI!Targets -> SUBSET (HI!Hours \X (1 .. MaxDrops + 1))]
  <2>1. step = "drop"
    BY DEF HI!Drop
  <2>2. target \in HI!Targets /\ touched = {} /\ owed = {}
    BY <2>1 DEF BooksInv
  <2>3. Renewed = {}
    BY <2>1, <2>2 DEF Renewed
  <2>4. gone \subseteq HI!Hours
    BY <2>2, TargetParts
  <2> HIDE DEF gone
  <2> QED  BY <2>2, <2>3, <2>4, InsightBounds DEF TablesInv
<1>3. gone \subseteq Renewed'
  <2>1. \A h \in gone : h \in HI!Hours /\ h \in has /\ h < now /\ score'[h] = 0 /\ h >= 0
    BY <1>1, <1>2 DEF BooksInv
  <2>2. Renewed' = {h \in HI!Hours : HI!Owed(h)' /\ h >= floor'}
    BY <1>1 DEF Renewed, HI!Hours
  <2> HIDE DEF gone
  <2> QED  BY <1>1, <2>1, <2>2 DEF HI!Owed
<1> HIDE DEF gone, dropped
<1>4. SUFFICES ASSUME NEW t \in HI!Targets, HI!exact(t)' # rollup'[t]
               PROVE  t \in (spoiled \cup narrowed \cup touched)' \/ HI!hoursOf(t) \cap Renewed' # {}
  BY DEF RollupInv, HI!Targets, HI!hoursOf, HI!Hours, HI!dayOf, HI!DaysOfAll
<1>5. HI!exact(t)' = {<<h, score'[h]>> : h \in {k \in HI!hoursOf(t) : score'[k] # 0}}
  BY DEF HI!exact, HI!hoursOf, HI!Hours, HI!dayOf
<1>6. CASE t \notin dropped
  <2>1. \A h \in HI!hoursOf(t) : h \notin gone
    <3>1. ASSUME NEW h \in HI!hoursOf(t), h \in gone PROVE FALSE
      <4>1. HI!dayOf(h) \in HI!daysOf(t) /\ HI!dayOf(h) \in HI!daysOf(target)
        BY <3>1 DEF HI!daysOf, gone
      <4> QED  BY <1>6, <3>1, <4>1 DEF dropped, HI!Overlaps
    <3> QED  BY <3>1
  <2>2. HI!exact(t)' = HI!exact(t)
    BY <1>1, <1>2, <1>5, <2>1, TargetParts DEF HI!exact
  <2>3. rollup'[t] = rollup[t]
    BY <1>1, <1>6
  <2> QED  BY <1>1, <1>2, <1>4, <2>2, <2>3 DEF RollupInv
<1>7. CASE t \in dropped
  <2>1. rollup'[t] = {} /\ gone # {} /\ HI!Overlaps(t, target)
    BY <1>1, <1>7 DEF dropped
  <2>2. CASE t[1] = "hour"
    BY <1>1, <1>3, <1>7, <2>2, TargetParts
  <2>3. CASE target[1] = "all"
    <3>1. HI!hoursOf(target) = HI!Hours
      BY <1>2, <2>3, TargetParts
    <3>2. \A h \in HI!hoursOf(t) : score'[h] = 0
      BY <1>1, <3>1, TargetParts DEF gone
    <3> QED  BY <1>4, <1>5, <2>1, <3>2
  <2>4. CASE t[1] = "all"
    <3>1. HI!hoursOf(t) = HI!Hours
      BY <2>4, TargetParts
    <3> QED  BY <1>2, <1>3, <2>1, <3>1
  <2>5. CASE t[1] = "day" /\ target[1] # "all"
    <3>1. PICK d \in HI!DaysOfAll : t = <<"day", d>>
      BY <2>5 DEF HI!Targets
    <3>2. PICK e : \A h \in HI!hoursOf(target) : HI!dayOf(h) = e
      <4>1. CASE \E h \in HI!Hours : target = <<"hour", h>>
        <5>1. PICK h \in HI!Hours : target = <<"hour", h>>
          BY <4>1
        <5>2. HI!hoursOf(target) = {h}
          BY <5>1 DEF HI!hoursOf
        <5> QED  BY <5>2
      <4>2. CASE \E c \in HI!DaysOfAll : target = <<"day", c>>
        <5>1. PICK c \in HI!DaysOfAll : target = <<"day", c>>
          BY <4>2
        <5>2. HI!hoursOf(target) = {h \in HI!Hours : HI!dayOf(h) = c}
          BY <5>1 DEF HI!hoursOf
        <5> QED  BY <5>2
      <4>3. target \in HI!Targets /\ target # <<"all", 0>>
        BY <1>2, <2>5
      <4> QED  BY <4>1, <4>2, <4>3 DEF HI!Targets
    <3>3. HI!hoursOf(t) = {h \in HI!Hours : HI!dayOf(h) = d}
      BY <3>1 DEF HI!hoursOf
    <3>4. HI!daysOf(t) \cap HI!daysOf(target) # {}
      BY <2>1, <2>5 DEF HI!Overlaps
    <3>5. d = e
      BY <3>2, <3>3, <3>4 DEF HI!daysOf
    <3>6. gone \subseteq HI!hoursOf(t)
      BY <1>2, <3>2, <3>3, <3>5 DEF gone
    <3> QED  BY <1>3, <2>1, <3>6
  <2> QED  BY <2>2, <2>3, <2>4, <2>5, TargetParts
<1> QED  BY <1>6, <1>7

\* The rows below a period that is rolled up are settled, so it is exact or as good as they.
LEMMA RollUpRollup ==
  ASSUME TablesInv, BooksInv, RollupInv, NEW t \in HI!Targets, HI!RollUp(t)
  PROVE  RollupInv'
<1>1. /\ step = "roll" /\ owed = {} /\ t \in touched /\ touched' = touched \ {t}
      /\ rollup' = [rollup EXCEPT ![t] = IF HI!children(t) = {} THEN @ ELSE HI!children(t)]
      /\ spoiled' = HI!Inherit(spoiled, t) /\ narrowed' = HI!Inherit(narrowed, t)
      /\ UNCHANGED <<score, step, owed>>
      /\ \A u \in touched : HI!rank(u) >= HI!rank(t)
  <2>1. HI!rank(t) \in Nat /\ \A u \in touched : HI!rank(u) \in Nat
    BY DEF HI!rank
  <2>2. \A u \in touched : ~ (HI!rank(u) < HI!rank(t))
    BY DEF HI!RollUp, HI!turnOf, HI!earlier
  <2>3. step = "roll" => owed = {}
    BY DEF BooksInv
  <2> QED  BY <2>1, <2>2, <2>3 DEF HI!RollUp, HI!turnOf
<1>2. rollup \in [HI!Targets -> SUBSET (HI!Hours \X (1 .. MaxDrops + 1))]
  BY DEF TablesInv
<1>3. Renewed = {} /\ Renewed' = {}
  BY <1>1 DEF Renewed
<1>4. \A u : HI!exact(u)' = HI!exact(u)
  BY <1>1 DEF HI!exact, HI!hoursOf, HI!Hours, HI!dayOf
<1>5. \A c \in HI!below(t) : c \in HI!Targets /\ c \notin touched
  <2>1. \A c \in HI!below(t) : c \in HI!Targets /\ HI!rank(c) < HI!rank(t)
    BY TargetParts
  <2>2. HI!rank(t) \in Nat /\ \A c : HI!rank(c) \in Nat
    BY DEF HI!rank
  <2> QED  BY <1>1, <2>1, <2>2
<1>6. ASSUME t \notin (spoiled \cup narrowed)' PROVE rollup'[t] = HI!exact(t)
  <2>1. \A c \in HI!below(t) : c \notin spoiled \cup narrowed
    BY <1>1, <1>6 DEF HI!Inherit
  <2>2. \A c \in HI!below(t) : rollup[c] = HI!exact(c)
    BY <1>3, <1>5, <2>1 DEF RollupInv
  <2>3. HI!children(t) = HI!exact(t) /\ HI!exact(t) # {}
    BY <1>1, <2>2, ChildrenExact DEF BooksInv
  <2> QED  BY <1>1, <1>2, <2>3
<1>7. ASSUME NEW u \in HI!Targets, u # t
      PROVE  rollup'[u] = HI!exact(u) \/ u \in (spoiled \cup narrowed \cup touched)'
  BY <1>1, <1>2, <1>3, <1>7 DEF RollupInv, HI!Inherit
<1>8. \A u \in HI!Targets : rollup'[u] = HI!exact(u)' \/ u \in (spoiled \cup narrowed \cup touched)'
  BY <1>4, <1>6, <1>7
<1> QED
  BY <1>8 DEF RollupInv, HI!Targets, HI!Hours, HI!DaysOfAll, HI!dayOf

\* A step keeps every row accounted for.
LEMMA NextRollup == TablesInv /\ BooksInv /\ RollupInv /\ [HI!Next]_(HI!insightVars) => RollupInv'
<1> SUFFICES ASSUME TablesInv, BooksInv, RollupInv, [HI!Next]_(HI!insightVars) PROVE RollupInv'
  OBVIOUS
<1> USE DEF HI!tables, HI!control, HI!pass, HI!insightHistory
<1>n. /\ HI!Hours = 1 .. NHours /\ NHours \in Nat /\ now \in 1 .. NHours + 1
      /\ asOf \in 0 .. NHours + 1 /\ floor \in 0 .. NHours + 1 /\ from \in 0 .. NHours + 1
      /\ owed \subseteq HI!Hours /\ score \in [HI!Hours -> 0 .. MaxDrops + 1]
  BY InsightBounds DEF TablesInv
<1>c. UNCHANGED <<HI!Targets, HI!Hours>> /\ \A t : HI!hoursOf(t)' = HI!hoursOf(t)
  BY DEF HI!Targets, HI!Hours, HI!hoursOf, HI!DaysOfAll, HI!dayOf
<1>e. ASSUME UNCHANGED score PROVE \A t : HI!exact(t)' = HI!exact(t)
  BY <1>e, <1>c DEF HI!exact
<1>m. ASSUME UNCHANGED <<score, rollup>>, Renewed \subseteq Renewed',
             spoiled \cup narrowed \cup touched \subseteq (spoiled \cup narrowed \cup touched)'
      PROVE  RollupInv'
  <2>1. \A t \in HI!Targets :
            \/ rollup'[t] = HI!exact(t)'
            \/ t \in (spoiled \cup narrowed \cup touched)'
            \/ HI!hoursOf(t) \cap Renewed' # {}
    BY <1>m, <1>e DEF RollupInv
  <2> QED  BY <1>c, <2>1 DEF RollupInv
<1>1. CASE HI!HourEnds
  <2>1. Renewed \subseteq Renewed'
    BY <1>1, <1>c, <1>n DEF HI!HourEnds, Renewed, HI!Owed
  <2> QED  BY <1>1, <1>m, <2>1 DEF HI!HourEnds
<1>2. ASSUME NEW h \in HI!Hours, HI!Arrive(h) \/ HI!ImportRows(h) PROVE RollupInv'
  <2>1. Renewed \subseteq Renewed'
    BY <1>2, <1>c DEF HI!Arrive, HI!ImportRows, Renewed, HI!Owed
  <2> QED  BY <1>2, <1>m, <2>1 DEF HI!Arrive, HI!ImportRows
<1>3. CASE HI!ImportResets
  <2>1. Renewed \subseteq Renewed'
    BY <1>3, <1>c, <1>n DEF HI!ImportResets, HI!Cold, Renewed, HI!Owed
  <2> QED  BY <1>3, <1>m, <2>1 DEF HI!ImportResets
<1>4. ASSUME NEW t \in HI!Targets, HI!Request(t) PROVE RollupInv'
  <2>1. Renewed \subseteq Renewed'
    BY <1>4, <1>c DEF HI!Request, Renewed, HI!Owed
  <2> QED  BY <1>4, <1>m, <2>1 DEF HI!Request
<1>5. CASE HI!StartRun
  <2>1. Renewed = {}
    BY <1>5 DEF HI!StartRun, Renewed, BooksInv
  <2> QED  BY <1>5, <1>m, <2>1 DEF HI!StartRun
<1>6. CASE HI!Drop
  BY <1>6, DropRollup
<1>7. CASE HI!ReadFloor
  <2>1. Renewed \subseteq Renewed'
    BY <1>7, <1>c DEF HI!ReadFloor, Renewed, HI!Owed
  <2> QED  BY <1>7, <1>m, <2>1 DEF HI!ReadFloor
<1>8. CASE HI!ReadHours
  <2>1. /\ step = "scan" /\ step' = "read" /\ UNCHANGED <<score, rollup, narrowed, touched>>
        /\ spoiled \subseteq spoiled' /\ owed' \subseteq HI!Hours
        /\ \A h \in HI!Hours \ owed' : HI!inScan(h) => HI!periodsOf(h) \subseteq spoiled'
    BY <1>8, <1>n DEF HI!ReadHours
  <2>2. Renewed = {h \in HI!Hours : HI!inScan(h)} /\ Renewed' = owed'
    BY <2>1 DEF Renewed, HI!inScan
  <2>3. ASSUME NEW t \in HI!Targets, HI!hoursOf(t) \cap Renewed # {}
        PROVE  HI!hoursOf(t) \cap Renewed' # {} \/ t \in spoiled'
    <3>1. PICK h \in HI!hoursOf(t) : h \in HI!Hours /\ HI!inScan(h)
      BY <2>2, <2>3
    <3>2. t \in HI!periodsOf(h)
      BY <3>1 DEF HI!periodsOf
    <3> QED  BY <2>1, <2>2, <3>1, <3>2
  <2>4. \A t \in HI!Targets :
            \/ rollup'[t] = HI!exact(t)'
            \/ t \in (spoiled \cup narrowed \cup touched)'
            \/ HI!hoursOf(t) \cap Renewed' # {}
    BY <1>e, <2>1, <2>3 DEF RollupInv
  <2> QED  BY <1>c, <2>4 DEF RollupInv
<1>9. CASE HI!Advance
  <2>1. Renewed \subseteq Renewed'
    BY <1>9 DEF HI!Advance, Renewed
  <2> QED  BY <1>9, <1>m, <2>1 DEF HI!Advance
<1>10. CASE HI!ScoreHour
  <2> DEFINE g == HI!least(owed)
  <2>1. g \in owed /\ g \in HI!Hours
    BY <1>10, <1>n, LeastHour DEF HI!ScoreHour
  <2> HIDE DEF g
  <2>2. /\ step = "score" /\ step' = "score" /\ score' = [score EXCEPT ![g] = lost + 1]
        /\ touched' = touched \cup HI!periodsOf(g) /\ owed' = owed \ {g}
        /\ UNCHANGED <<rollup, spoiled, narrowed>>
    BY <1>10 DEF HI!ScoreHour, g
  <2>3. ASSUME NEW t \in HI!Targets, g \notin HI!hoursOf(t) PROVE HI!exact(t)' = HI!exact(t)
    BY <1>c, <1>n, <2>2, <2>3, TargetParts DEF HI!exact
  <2>4. \A t \in HI!Targets : g \in HI!hoursOf(t) => t \in touched'
    BY <2>2 DEF HI!periodsOf
  <2>5. Renewed = owed /\ Renewed' = owed \ {g}
    BY <2>2 DEF Renewed
  <2>6. \A t \in HI!Targets :
            \/ rollup'[t] = HI!exact(t)'
            \/ t \in (spoiled \cup narrowed \cup touched)'
            \/ HI!hoursOf(t) \cap Renewed' # {}
    BY <2>2, <2>3, <2>4, <2>5 DEF RollupInv
  <2> QED  BY <1>c, <2>6 DEF RollupInv
<1>11. CASE HI!ScoreFails
  <2> DEFINE g == HI!least(owed)
  <2>1. /\ step = "score" /\ step' = "score" /\ UNCHANGED <<score, rollup, touched, narrowed>>
        /\ spoiled' = spoiled \cup HI!periodsOf(g) /\ owed' = owed \ {g}
    BY <1>11 DEF HI!ScoreFails
  <2> HIDE DEF g
  <2>2. Renewed = owed /\ Renewed' = owed \ {g}
    BY <2>1 DEF Renewed
  <2>3. \A t \in HI!Targets : g \in HI!hoursOf(t) => t \in spoiled'
    BY <2>1 DEF HI!periodsOf
  <2>4. \A t \in HI!Targets :
            \/ rollup'[t] = HI!exact(t)'
            \/ t \in (spoiled \cup narrowed \cup touched)'
            \/ HI!hoursOf(t) \cap Renewed' # {}
    BY <1>e, <2>1, <2>2, <2>3 DEF RollupInv
  <2> QED  BY <1>c, <2>4 DEF RollupInv
<1>12. ASSUME NEW t \in HI!Targets, HI!RollUp(t) PROVE RollupInv'
  BY <1>12, RollUpRollup
<1>13. ASSUME NEW t \in HI!Targets, HI!RollUpFails(t) PROVE RollupInv'
  <2>1. Renewed \subseteq Renewed'
    BY <1>13 DEF HI!RollUpFails, Renewed
  <2> QED  BY <1>13, <1>m, <2>1 DEF HI!RollUpFails
<1>14. CASE HI!EndRun
  <2>1. Renewed = {}
    BY <1>14 DEF HI!EndRun, Renewed, BooksInv
  <2> QED  BY <1>14, <1>m, <2>1 DEF HI!EndRun, HI!Rest
<1>15. CASE HI!Crash \/ HI!RunFails
  <2>1. \A t \in HI!Targets : rollup'[t] = HI!exact(t)' \/ t \in spoiled'
    BY <1>15, <1>e DEF HI!Crash, HI!RunFails
  <2> QED  BY <1>c, <2>1 DEF RollupInv
<1>17. CASE HI!TakePeriods
  <2>1. Renewed \subseteq Renewed'
    BY <1>17 DEF HI!TakePeriods, Renewed
  <2>2. /\ spoiled' = spoiled \cup (touched \ touched') /\ UNCHANGED <<score, rollup, narrowed>>
    BY <1>17 DEF HI!TakePeriods
  <2>3. spoiled \cup narrowed \cup touched \subseteq (spoiled \cup narrowed \cup touched)'
    BY <2>2
  <2> QED  BY <1>m, <2>1, <2>2, <2>3
<1>18. CASE HI!DropFails
  <2>1. \A t \in HI!Targets : rollup'[t] = HI!exact(t)' \/ t \in spoiled'
    BY <1>18 DEF HI!DropFails
  <2> QED  BY <1>c, <2>1 DEF RollupInv
<1>16. CASE UNCHANGED HI!insightVars
  <2>1. Renewed \subseteq Renewed'
    BY <1>16, <1>c DEF HI!insightVars, Renewed, HI!Owed
  <2> QED  BY <1>16, <1>m, <2>1 DEF HI!insightVars
<1> QED
  BY <1>1, <1>2, <1>3, <1>4, <1>5, <1>6, <1>7, <1>8, <1>9, <1>10, <1>11, <1>12, <1>13, <1>14, <1>15, <1>16,
     <1>17, <1>18
  DEF HI!Next, HI!RunStep

\* What the steps of the insights keep, they have at the start, and it says what they
\* promise.
InsightsInv == TablesInv /\ BooksInv /\ FloorInv /\ ScanInv /\ RollupInv

LEMMA InsightsKept ==
  /\ HI!Init => InsightsInv
  /\ InsightsInv /\ [HI!Next]_(HI!insightVars) => InsightsInv'
  /\ InsightsInv => HI!InsightsTypeOK /\ HI!InsightsComplete
<1>1. ASSUME HI!Init PROVE InsightsInv
  <2>1. \A t \in HI!Targets : HI!exact(t) = {} /\ rollup[t] = {}
    BY <1>1, TargetParts DEF HI!Init, HI!exact
  <2>2. RollupInv
    BY <2>1 DEF RollupInv
  <2>3. TablesInv
    BY <1>1, InsightBounds DEF HI!Init, HI!Cold, TablesInv
  <2>4. BooksInv
    BY <1>1, InsightBounds DEF HI!Init, BooksInv
  <2>5. FloorInv /\ ScanInv
    BY <1>1, InsightBounds DEF HI!Init, HI!Cold, FloorInv, ScanInv
  <2> QED  BY <2>2, <2>3, <2>4, <2>5 DEF InsightsInv
<1>2. InsightsInv /\ [HI!Next]_(HI!insightVars) => InsightsInv'
  BY NextTables, NextScan, NextRollup DEF InsightsInv
<1>3. ASSUME InsightsInv PROVE HI!InsightsTypeOK /\ HI!InsightsComplete
  <2> USE <1>3 DEF InsightsInv
  <2>1. HI!InsightsTypeOK
    BY InsightBounds DEF TablesInv, HI!InsightsTypeOK
  <2>2. HI!OwedIsSeen
    BY DEF ScanInv, HI!OwedIsSeen
  <2>3. HI!RollupsExact
    <3> SUFFICES ASSUME step = "off"
                 PROVE  \A t \in HI!Targets \ (spoiled \cup narrowed) : rollup[t] = HI!exact(t)
      BY DEF HI!RollupsExact
    <3>1. touched = {} /\ Renewed = {}
      BY DEF BooksInv, Renewed
    <3> QED  BY <3>1 DEF RollupInv
  <2> QED  BY <2>1, <2>2, <2>3 DEF HI!InsightsComplete
<1> QED  BY <1>1, <1>2, <1>3

-----------------------------------------------------------------------------
\* The links.
LEMMA LinkCardinality == \A S : IL!Cardinality(S) = Cardinality(S)
BY DEF IL!Cardinality, Cardinality

\* The requests under way, by what they do.
Mints == [op : {"mint"}, at : {"insert"}, id : IL!Codes, account : Accounts]
Burns == [op : {"redeem"}, at : {"burn"}, code : IL!Codes]
Joins == [op : {"redeem"}, at : {"join", "burn"}, code : IL!Codes, ref : Identities,
          account : Accounts, link : IL!LinkIds, members : SUBSET IL!Refs]
Inserts == [op : {"redeem"}, at : {"insert", "burn"}, id : IL!Codes, code : IL!Codes,
            ref : Identities, account : Accounts]
Unlinks == [op : {"unlink"}, at : {"write"}, account : Accounts, ref : Identities,
            link : IL!LinkIds, members : SUBSET IL!Refs]
Creates == [op : {"create"}, at : {"write"}, id : IL!Codes, members : SUBSET IL!Refs]
Edits == [op : {"edit"}, at : {"write"}, link : IL!LinkIds, members : SUBSET IL!Refs]
AccountChanges == [op : {"patch"}, at : {"write"}, account : Accounts, role : {"admin", "user"},
            active : BOOLEAN, changes : BOOLEAN]
Deletes == [op : {"delete"}, at : {"link", "row"}, account : Accounts,
            link : IL!LinkIds \cup {0}, members : SUBSET IL!Refs]
LinkRequests ==
  {IL!Free} \cup Mints \cup Burns \cup Joins \cup Inserts \cup Unlinks \cup Creates \cup Edits
  \cup AccountChanges \cup Deletes

LinkTypes ==
  /\ role \in [Accounts -> {"admin", "user", "none"}] /\ activeAccounts \in [Accounts -> BOOLEAN]
  /\ assistants \subseteq Accounts /\ docs \subseteq IL!Refs
  /\ linkOf \in [IL!Refs -> IL!LinkIds \cup {0}] /\ links \subseteq IL!LinkIds
  /\ \A r \in IL!Refs : linkOf[r] # 0 => linkOf[r] \in links
  /\ requests \in 0 .. MaxLinkRequests
  /\ codes \in [IL!Codes -> [account : Accounts \cup {"none"}, used : BOOLEAN]]
  /\ run \in [IL!Requests -> LinkRequests]
  /\ told \in [IL!Requests -> BOOLEAN] /\ joined \in [IL!Codes -> SUBSET Identities]
  /\ operated \subseteq IL!LinkIds /\ parted \subseteq Accounts \X Identities

LEMMA LinkBounds ==
  /\ LinksAtOnce \in Nat /\ MaxLinkRequests \in Nat /\ IL!Requests = 1 .. LinksAtOnce
  /\ IL!Codes = 1 .. MaxLinkRequests /\ IL!LinkIds = 1 .. MaxLinkRequests + 1
  /\ IL!Codes \subseteq IL!LinkIds /\ 0 \notin IL!LinkIds
  /\ Accounts \subseteq IL!Refs /\ Identities \subseteq IL!Refs /\ Accounts \cap Identities = {}
  /\ Accounts # {} /\ IsFiniteSet(IL!Refs)
<1>1. IsFiniteSet(IL!Refs)
  BY LinksAssumption, FS_Union DEF IL!Refs
<1> QED
  BY <1>1, LinksAssumption DEF IL!Requests, IL!Codes, IL!LinkIds, IL!Refs

\* What a request is, by what it does next.
LEMMA RequestKinds ==
  ASSUME NEW r \in LinkRequests
  PROVE  /\ r = IL!Free => r.op = "none"
         /\ r.op = "none" => r = IL!Free
         /\ r.op = "mint" => r \in Mints
         /\ r.op = "redeem" => r \in Burns \cup Joins \cup Inserts
         /\ r.op = "redeem" /\ r.at = "join" => r \in Joins
         /\ r.op = "redeem" /\ r.at = "insert" => r \in Inserts
         /\ r.op = "unlink" => r \in Unlinks
         /\ r.op = "create" => r \in Creates
         /\ r.op = "edit" => r \in Edits
         /\ r.op = "patch" => r \in AccountChanges
         /\ r.op = "delete" => r \in Deletes
<1> USE DEF Mints, Burns, Joins, Inserts, Unlinks, Creates, Edits, AccountChanges, Deletes
<1>1. CASE r = IL!Free
  BY <1>1 DEF IL!Free
<1>2. CASE r \in Mints
  BY <1>2 DEF IL!Free
<1>3. CASE r \in Burns
  BY <1>3 DEF IL!Free
<1>4. CASE r \in Joins
  BY <1>4 DEF IL!Free
<1>5. CASE r \in Inserts
  BY <1>5 DEF IL!Free
<1>6. CASE r \in Unlinks
  BY <1>6 DEF IL!Free
<1>7. CASE r \in Creates
  BY <1>7 DEF IL!Free
<1>8. CASE r \in Edits
  BY <1>8 DEF IL!Free
<1>9. CASE r \in AccountChanges
  BY <1>9 DEF IL!Free
<1>10. CASE r \in Deletes
  BY <1>10 DEF IL!Free
<1> QED
  BY <1>1, <1>2, <1>3, <1>4, <1>5, <1>6, <1>7, <1>8, <1>9, <1>10 DEF LinkRequests

\* A request that goes on keeps what it read.
LEMMA GoesOn ==
  /\ \A r \in Joins : LET s == [r EXCEPT !.at = "burn"] IN
       /\ s \in Joins /\ s.op = "redeem" /\ s.at = "burn" /\ s.code = r.code /\ s.ref = r.ref
       /\ s.account = r.account /\ s.link = r.link /\ s.members = r.members
  /\ \A r \in Inserts : LET s == [r EXCEPT !.at = "burn"] IN
       /\ s \in Inserts /\ s.op = "redeem" /\ s.at = "burn" /\ s.code = r.code /\ s.ref = r.ref
       /\ s.account = r.account
  /\ \A r \in Deletes : LET s == [r EXCEPT !.at = "row"] IN
       /\ s \in Deletes /\ s.op = "delete" /\ s.at = "row" /\ s.account = r.account
       /\ s.link = r.link /\ s.members = r.members
BY DEF Joins, Inserts, Deletes

\* What a request is about.
LEMMA Matters ==
  ASSUME NEW r \in LinkRequests
  PROVE  /\ IL!About(r.op) \subseteq {"codes", "links", "accounts"}
         /\ "links" \in IL!About(r.op) <=> r.op \in {"redeem", "unlink", "create", "edit", "delete"}
         /\ "codes" \in IL!About(r.op) <=> r.op \in {"mint", "redeem"}
         /\ "accounts" \in IL!About(r.op) <=> r.op \in {"patch", "delete"}
<1>1. r.op \in {"none", "mint", "redeem", "unlink", "create", "edit", "patch", "delete"}
  BY DEF LinkRequests, IL!Free, Mints, Burns, Joins, Inserts, Unlinks, Creates, Edits, AccountChanges, Deletes
<1> QED  BY <1>1 DEF IL!About

\* What a request does when it comes in.
LEMMA Begins ==
  ASSUME LinkTypes, NEW q \in IL!Requests, NEW r \in LinkRequests, IL!Begin(q, r)
  PROVE  /\ run' = [run EXCEPT ![q] = r] /\ run' \in [IL!Requests -> LinkRequests]
         /\ told' = [told EXCEPT ![q] = FALSE] /\ told' \in [IL!Requests -> BOOLEAN]
         /\ requests' = requests + 1 /\ requests' \in 1 .. MaxLinkRequests
         /\ run[q] = IL!Free
         /\ crossedMatters \subseteq crossedMatters'
         /\ \A m : m \in IL!About(r.op) /\ m \notin crossedMatters' =>
              \A o \in IL!Requests \ {q} : m \notin IL!About(run[o].op)
BY LinkBounds DEF IL!Begin, LinkTypes

\* The members of the links after a write that no other link claims.
LEMMA PutMembers ==
  ASSUME LinkTypes, NEW l \in IL!LinkIds, NEW s \in SUBSET IL!Refs, IL!Put(l, s), ~IL!Claimed(l, s)
  PROVE  /\ links' = links \cup {l} /\ IL!Members(l)' = s
         /\ \A k \in IL!LinkIds : k # l => IL!Members(k)' = IL!Members(k)
         /\ linkOf' \in [IL!Refs -> IL!LinkIds \cup {0}]
         /\ \A r \in IL!Refs : linkOf'[r] # 0 => linkOf'[r] \in links'
<1>1. /\ links' = links \cup {l}
      /\ linkOf' = [r \in IL!Refs |-> IF r \in s THEN l ELSE IF linkOf[r] = l THEN 0 ELSE linkOf[r]]
  BY DEF IL!Put
<1>2. \A r \in s : linkOf[r] \in {0, l}
  BY DEF IL!Claimed
<1>3. linkOf \in [IL!Refs -> IL!LinkIds \cup {0}] /\ 0 \notin IL!LinkIds
      /\ \A r \in IL!Refs : linkOf[r] # 0 => linkOf[r] \in links
  BY LinkBounds DEF LinkTypes
<1>4. \A k : IL!Members(k)' = {r \in IL!Refs : linkOf'[r] = k} /\ IL!Members(k) = {r \in IL!Refs : linkOf[r] = k}
  BY DEF IL!Members, IL!Refs
<1>5. IL!Members(l)' = s
  BY <1>1, <1>3, <1>4
<1>6. ASSUME NEW k \in IL!LinkIds, k # l PROVE IL!Members(k)' = IL!Members(k)
  BY <1>1, <1>2, <1>3, <1>4, <1>6
<1>7. linkOf' \in [IL!Refs -> IL!LinkIds \cup {0}] /\ \A r \in IL!Refs : linkOf'[r] # 0 => linkOf'[r] \in links'
  BY <1>1, <1>3
<1> QED  BY <1>1, <1>5, <1>6, <1>7

\* And after a link is gone.
LEMMA DropMembers ==
  ASSUME LinkTypes, NEW l \in IL!LinkIds, IL!Drop(l)
  PROVE  /\ links' = links \ {l} /\ IL!Members(l)' = {}
         /\ \A k \in IL!LinkIds : k # l => IL!Members(k)' = IL!Members(k)
         /\ linkOf' \in [IL!Refs -> IL!LinkIds \cup {0}]
         /\ \A r \in IL!Refs : linkOf'[r] # 0 => linkOf'[r] \in links'
<1>1. /\ links' = links \ {l}
      /\ linkOf' = [r \in IL!Refs |-> IF linkOf[r] = l THEN 0 ELSE linkOf[r]]
  BY DEF IL!Drop
<1>3. linkOf \in [IL!Refs -> IL!LinkIds \cup {0}] /\ 0 \notin IL!LinkIds
      /\ \A r \in IL!Refs : linkOf[r] # 0 => linkOf[r] \in links
  BY LinkBounds DEF LinkTypes
<1>4. \A k : IL!Members(k)' = {r \in IL!Refs : linkOf'[r] = k} /\ IL!Members(k) = {r \in IL!Refs : linkOf[r] = k}
  BY DEF IL!Members, IL!Refs
<1> QED  BY <1>1, <1>3, <1>4

\* The sender of a code that is redeemed joins the link of the account, or starts one.
RedeemReads(r, c, i) ==
  /\ r.op = "redeem" /\ r.code = c /\ IL!Live(c)
  /\ codes[c].account \in Accounts /\ IL!Exists(codes[c].account)
  /\ \/ r \in Burns
     \/ /\ r \in Joins /\ r.at = "join" /\ r.ref = i /\ r.account = codes[c].account
        /\ r.link \in links /\ r.members = IL!Members(r.link) \cup {r.ref, r.account}
        /\ \/ linkOf[r.account] = r.link
           \/ \A b \in Accounts : b \in IL!Members(r.link) => b = r.account
     \/ r \in Inserts /\ r.at = "insert" /\ r.ref = i /\ r.account = codes[c].account

LEMMA RedeemBegins ==
  ASSUME LinkTypes, NEW q \in IL!Requests, NEW i \in Identities, NEW c \in IL!Codes, IL!Redeem(q, i, c)
  PROVE  /\ UNCHANGED <<role, activeAccounts, assistants, docs, linkOf, links, codes, operated, parted, joined>>
         /\ \E r \in LinkRequests : IL!Begin(q, r) /\ RedeemReads(r, c, i)
<1> DEFINE a == codes[c].account
           b == [op |-> "redeem", at |-> "burn", code |-> c]
           l == IF linkOf[i] # 0 THEN linkOf[i] ELSE linkOf[a]
           j == [op |-> "redeem", at |-> "join", code |-> c, ref |-> i, account |-> a,
                 link |-> l, members |-> IL!Members(l) \cup {i, a}]
           n == [op |-> "redeem", at |-> "insert", id |-> requests + 1,
                 code |-> c, ref |-> i, account |-> a]
<1>0. requests < MaxLinkRequests /\ IL!Live(c) /\ IL!SignedIn(a)
      /\ UNCHANGED <<role, activeAccounts, assistants, docs, linkOf, links, codes, operated, parted, joined>>
  BY DEF IL!Redeem, IL!Begin, IL!store
<1>1. a \in Accounts
  <2>1. codes[c] \in [account : Accounts \cup {"none"}, used : BOOLEAN]
    BY DEF LinkTypes
  <2> QED  BY <1>0, <2>1 DEF IL!Live, IL!NoCode
<1>2. IL!Exists(a)
  BY <1>0 DEF IL!SignedIn
<1>3. i \in IL!Refs /\ a \in IL!Refs /\ linkOf[i] \in IL!LinkIds \cup {0} /\ linkOf[a] \in IL!LinkIds \cup {0}
      /\ (linkOf[i] # 0 => linkOf[i] \in links) /\ (linkOf[a] # 0 => linkOf[a] \in links)
      /\ \A k : IL!Members(k) \in SUBSET IL!Refs
  BY <1>1, LinkBounds DEF LinkTypes, IL!Members
<1>4. CASE IL!Begin(q, b)
  <2>1. b \in Burns /\ b \in LinkRequests /\ b.op = "redeem" /\ b.code = c
    BY DEF LinkRequests, Burns
  <2> HIDE DEF b
  <2> QED  BY <1>0, <1>1, <1>2, <1>4, <2>1 DEF RedeemReads
<1>5. CASE IL!Begin(q, j) /\ (linkOf[i] = 0) # (linkOf[a] = 0)
           /\ ~(linkOf[i] # 0 /\ IL!OtherAccount(IL!Members(linkOf[i]), a))
  <2>1. l \in links /\ l \in IL!LinkIds
    BY <1>3, <1>5
  <2>2. linkOf[a] = l \/ \A e \in Accounts : e \in IL!Members(l) => e = a
    BY <1>5 DEF IL!OtherAccount
  <2> HIDE DEF a, l
  <2>3. /\ j \in Joins /\ j \in LinkRequests /\ j.op = "redeem" /\ j.code = c /\ j.at = "join"
        /\ j.ref = i /\ j.account = a /\ j.link = l /\ j.members = IL!Members(l) \cup {i, a}
    BY <1>1, <1>3, <2>1 DEF LinkRequests, Joins
  <2> HIDE DEF j
  <2> QED  BY <1>0, <1>1, <1>2, <1>5, <2>1, <2>2, <2>3 DEF RedeemReads, a
<1>6. CASE IL!Begin(q, n)
  <2>1. requests + 1 \in IL!Codes
    BY <1>0, LinkBounds DEF LinkTypes
  <2> HIDE DEF a
  <2>2. /\ n \in Inserts /\ n \in LinkRequests /\ n.op = "redeem" /\ n.code = c /\ n.at = "insert"
        /\ n.ref = i /\ n.account = a
    BY <1>1, <2>1 DEF LinkRequests, Inserts
  <2> HIDE DEF n
  <2> QED  BY <1>0, <1>1, <1>2, <1>6, <2>2 DEF RedeemReads, a
<1> QED  BY <1>0, <1>4, <1>5, <1>6 DEF IL!Redeem

\* A step keeps the types.
LEMMA NextLinkTypes == LinkTypes /\ [IL!Next]_(IL!linkVars) => LinkTypes'
<1> SUFFICES ASSUME LinkTypes, [IL!Next]_(IL!linkVars) PROVE LinkTypes'
  OBVIOUS
<1> USE DEF IL!store, IL!seen
<1>t. /\ role \in [Accounts -> {"admin", "user", "none"}] /\ activeAccounts \in [Accounts -> BOOLEAN]
      /\ assistants \subseteq Accounts /\ docs \subseteq IL!Refs
      /\ linkOf \in [IL!Refs -> IL!LinkIds \cup {0}] /\ links \subseteq IL!LinkIds
      /\ \A r \in IL!Refs : linkOf[r] # 0 => linkOf[r] \in links
      /\ requests \in 0 .. MaxLinkRequests
      /\ codes \in [IL!Codes -> [account : Accounts \cup {"none"}, used : BOOLEAN]]
      /\ run \in [IL!Requests -> LinkRequests]
      /\ told \in [IL!Requests -> BOOLEAN] /\ joined \in [IL!Codes -> SUBSET Identities]
      /\ operated \subseteq IL!LinkIds /\ parted \subseteq Accounts \X Identities
  BY DEF LinkTypes
<1>r. IL!NoCode \in [account : Accounts \cup {"none"}, used : BOOLEAN]
      /\ IL!Free \in LinkRequests /\ \A r : IL!Members(r) \subseteq IL!Refs
  BY DEF IL!NoCode, LinkRequests, IL!Members
<1>c. \A q \in IL!Requests : IL!End(q) => run' \in [IL!Requests -> LinkRequests]
  BY <1>t, <1>r DEF IL!End
<1>g. \A q \in IL!Requests : \A r \in LinkRequests : run' = [run EXCEPT ![q] = r] =>
        run' \in [IL!Requests -> LinkRequests]
  BY <1>t
<1>i. requests < MaxLinkRequests => requests + 1 \in IL!Codes /\ requests + 1 \in 0 .. MaxLinkRequests
  BY <1>t, LinkBounds
\* A request that comes in.
<1>b. ASSUME NEW q \in IL!Requests, NEW r \in LinkRequests, IL!Begin(q, r),
             UNCHANGED <<role, activeAccounts, linkOf, links, operated, parted, joined>>,
             assistants' \subseteq assistants, docs' \subseteq docs,
             codes' \in [IL!Codes -> [account : Accounts \cup {"none"}, used : BOOLEAN]]
      PROVE  LinkTypes'
  <2>1. /\ run' \in [IL!Requests -> LinkRequests] /\ told' \in [IL!Requests -> BOOLEAN]
        /\ requests' \in 0 .. MaxLinkRequests
    BY <1>b, Begins, LinkBounds
  <2> QED  BY <1>b, <1>t, <2>1 DEF LinkTypes, IL!Refs, IL!LinkIds, IL!Codes, IL!Requests
<1>1. ASSUME NEW q \in IL!Requests, NEW a \in Accounts, IL!Mint(q, a) PROVE LinkTypes'
  <2> DEFINE r == [op |-> "mint", at |-> "insert", id |-> requests + 1, account |-> a]
  <2>1. requests < MaxLinkRequests /\ IL!Begin(q, r)
    BY <1>1 DEF IL!Mint, IL!Begin
  <2>2. r \in LinkRequests
    BY <2>1, <1>i DEF LinkRequests, Mints
  <2>3. codes' \in [IL!Codes -> [account : Accounts \cup {"none"}, used : BOOLEAN]]
    BY <1>1, <1>t, <1>r DEF IL!Mint, IL!Retire
  <2> HIDE DEF r
  <2> QED  BY <1>1, <1>b, <1>t, <2>1, <2>2, <2>3 DEF IL!Mint
<1>2. ASSUME NEW q \in IL!Requests, NEW i \in Identities, NEW c \in IL!Codes, IL!Redeem(q, i, c)
      PROVE  LinkTypes'
  BY <1>2, <1>b, <1>t, RedeemBegins
<1>3. ASSUME NEW q \in IL!Requests, NEW a \in Accounts, NEW i \in Identities, IL!Unlink(q, a, i)
      PROVE  LinkTypes'
  <2> DEFINE r == [op |-> "unlink", at |-> "write", account |-> a, ref |-> i,
                   link |-> linkOf[i], members |-> IL!Members(linkOf[i]) \ {i}]
  <2>1. linkOf[i] \in IL!LinkIds /\ IL!Members(linkOf[i]) \ {i} \subseteq IL!Refs
    BY <1>3, <1>t, <1>r, LinkBounds DEF IL!Unlink
  <2>2. r \in LinkRequests
    BY <2>1 DEF LinkRequests, Unlinks
  <2> HIDE DEF r
  <2>3. IL!Begin(q, r)
    BY <1>3 DEF IL!Unlink, r
  <2> QED  BY <1>3, <1>b, <1>t, <2>2, <2>3 DEF IL!Unlink
<1>4. ASSUME NEW q \in IL!Requests, NEW s \in SUBSET IL!Refs, IL!Create(q, s) PROVE LinkTypes'
  <2> DEFINE r == [op |-> "create", at |-> "write", id |-> requests + 1, members |-> s]
  <2>1. requests < MaxLinkRequests /\ IL!Begin(q, r)
    BY <1>4 DEF IL!Create, IL!Begin
  <2>2. r \in LinkRequests
    BY <2>1, <1>i DEF LinkRequests, Creates
  <2> HIDE DEF r
  <2> QED  BY <1>4, <1>b, <1>t, <2>1, <2>2 DEF IL!Create
<1>5. ASSUME NEW q \in IL!Requests, NEW s \in SUBSET IL!Refs, NEW l \in IL!LinkIds, IL!Edit(q, l, s)
      PROVE  LinkTypes'
  <2> DEFINE r == [op |-> "edit", at |-> "write", link |-> l, members |-> s]
  <2>1. IL!Begin(q, r)
    BY <1>5 DEF IL!Edit
  <2>2. r \in LinkRequests
    BY DEF LinkRequests, Edits
  <2> HIDE DEF r
  <2> QED  BY <1>5, <1>b, <1>t, <2>1, <2>2 DEF IL!Edit
<1>6. ASSUME NEW q \in IL!Requests, NEW by \in Accounts, NEW a \in Accounts,
             NEW newRole \in {"admin", "user"}, NEW on \in BOOLEAN,
             IL!Patch(q, by, a, newRole, on)
      PROVE  LinkTypes'
  <2> DEFINE r == [op |-> "patch", at |-> "write", account |-> a,
                   role |-> newRole, active |-> on, changes |-> newRole # role[a]]
  <2>1. IL!Begin(q, r)
    BY <1>6 DEF IL!Patch
  <2>2. r \in LinkRequests
    BY DEF LinkRequests, AccountChanges
  <2> HIDE DEF r
  <2> QED  BY <1>6, <1>b, <1>t, <2>1, <2>2 DEF IL!Patch
<1>7. ASSUME NEW q \in IL!Requests, NEW by \in Accounts, NEW a \in Accounts, IL!DeleteHard(q, by, a)
      PROVE  LinkTypes'
  <2> DEFINE s == IF linkOf[a] = 0 THEN {} ELSE IL!Members(linkOf[a]) \ {a}
             r == [op |-> "delete", at |-> "link", account |-> a, link |-> linkOf[a], members |-> s]
  <2>1. linkOf[a] \in IL!LinkIds \cup {0} /\ s \in SUBSET IL!Refs
    BY <1>t, <1>r, LinkBounds
  <2>2. IL!Begin(q, r)
    BY <1>7 DEF IL!DeleteHard
  <2> HIDE DEF s
  <2>3. r \in LinkRequests
    BY <2>1 DEF LinkRequests, Deletes
  <2> HIDE DEF r
  <2> QED  BY <1>7, <1>b, <1>t, <2>2, <2>3 DEF IL!DeleteHard
\* A write of the links.
<1>w. ASSUME NEW q \in IL!Requests, run' \in [IL!Requests -> LinkRequests],
             UNCHANGED <<role, activeAccounts, assistants, docs, codes, requests>>,
             links' \subseteq IL!LinkIds, linkOf' \in [IL!Refs -> IL!LinkIds \cup {0}],
             \A r \in IL!Refs : linkOf'[r] # 0 => linkOf'[r] \in links',
             told' \in [IL!Requests -> BOOLEAN], joined' \in [IL!Codes -> SUBSET Identities],
             operated' \subseteq IL!LinkIds, parted' \subseteq Accounts \X Identities
      PROVE  LinkTypes'
  BY <1>w, <1>t DEF LinkTypes, IL!Refs, IL!LinkIds, IL!Codes, IL!Requests
<1>8. ASSUME NEW q \in IL!Requests, IL!MintInsert(q) PROVE LinkTypes'
  <2>1. run[q] \in Mints
    BY <1>8, <1>t, RequestKinds DEF IL!MintInsert, IL!At
  <2>2. [account |-> run[q].account, used |-> FALSE] \in [account : Accounts \cup {"none"}, used : BOOLEAN]
    BY <2>1 DEF Mints
  <2>3. codes' \in [IL!Codes -> [account : Accounts \cup {"none"}, used : BOOLEAN]]
    BY <1>8, <1>t, <2>2 DEF IL!MintInsert
  <2> QED  BY <1>8, <1>c, <1>t, <2>3 DEF IL!MintInsert, LinkTypes
<1>9. ASSUME NEW c \in IL!Codes, IL!Expire(c) PROVE LinkTypes'
  <2>1. codes' \in [IL!Codes -> [account : Accounts \cup {"none"}, used : BOOLEAN]]
    BY <1>9, <1>t, <1>r DEF IL!Expire
  <2> QED  BY <1>9, <1>t, <2>1 DEF IL!Expire, LinkTypes
\* A code links its sender.
<1>d. ASSUME NEW q \in IL!Requests, NEW s \in SUBSET IL!Refs, IL!Linked(q, s),
             run[q] \in Joins \cup Inserts
      PROVE  /\ run' \in [IL!Requests -> LinkRequests] /\ told' \in [IL!Requests -> BOOLEAN]
             /\ joined' \in [IL!Codes -> SUBSET Identities] /\ parted' \subseteq Accounts \X Identities
  <2>1. [run[q] EXCEPT !.at = "burn"] \in LinkRequests
    BY <1>d, GoesOn DEF LinkRequests
  <2>2. run[q].code \in IL!Codes /\ run[q].ref \in Identities
    BY <1>d DEF Joins, Inserts
  <2> QED  BY <1>d, <1>t, <2>1, <2>2 DEF IL!Linked, IL!Then, IL!Parts
<1>10. ASSUME NEW q \in IL!Requests, IL!RedeemJoin(q) PROVE LinkTypes'
  <2>1. run[q] \in Joins
    BY <1>10, <1>t, RequestKinds DEF IL!RedeemJoin, IL!At
  <2>2. run[q].link \in IL!LinkIds /\ run[q].members \in SUBSET IL!Refs /\ {} \in SUBSET IL!Refs
    BY <2>1 DEF Joins
  <2>3. CASE IL!Put(run[q].link, run[q].members) /\ ~IL!Claimed(run[q].link, run[q].members)
             /\ IL!Linked(q, run[q].members)
    BY <1>10, <1>d, <1>w, <1>t, <2>1, <2>2, <2>3, PutMembers DEF IL!RedeemJoin
  <2>4. CASE IL!Linked(q, {}) /\ UNCHANGED <<links, linkOf>>
    BY <1>10, <1>d, <1>w, <1>t, <2>1, <2>2, <2>4 DEF IL!RedeemJoin
  <2>5. CASE IL!End(q) /\ UNCHANGED <<links, linkOf, parted, joined, told>>
    BY <1>10, <1>c, <1>w, <1>t, <2>5 DEF IL!RedeemJoin
  <2> QED  BY <1>10, <2>3, <2>4, <2>5 DEF IL!RedeemJoin
<1>11. ASSUME NEW q \in IL!Requests, IL!RedeemInsert(q) PROVE LinkTypes'
  <2> DEFINE s == {run[q].ref, run[q].account}
  <2>1. run[q] \in Inserts
    BY <1>11, <1>t, RequestKinds DEF IL!RedeemInsert, IL!At
  <2>2. run[q].id \in IL!LinkIds /\ s \in SUBSET IL!Refs
    BY <2>1, LinkBounds DEF Inserts
  <2> HIDE DEF s
  <2>3. CASE IL!Put(run[q].id, s) /\ ~IL!Claimed(0, s) /\ IL!Linked(q, s)
    <3>1. ~IL!Claimed(run[q].id, s)
      BY <2>3 DEF IL!Claimed
    <3> QED  BY <1>11, <1>d, <1>w, <1>t, <2>1, <2>2, <2>3, <3>1, PutMembers DEF IL!RedeemInsert
  <2>4. CASE IL!End(q) /\ UNCHANGED <<links, linkOf, parted, joined, told>>
    BY <1>11, <1>c, <1>w, <1>t, <2>4 DEF IL!RedeemInsert
  <2> QED  BY <1>11, <2>3, <2>4 DEF IL!RedeemInsert, s
<1>12. ASSUME NEW q \in IL!Requests, IL!RedeemBurn(q) PROVE LinkTypes'
  <2>1. codes' \in [IL!Codes -> [account : Accounts \cup {"none"}, used : BOOLEAN]]
    BY ZenonT(30), <1>12, <1>t DEF IL!RedeemBurn, IL!Burned
  <2> QED  BY <1>12, <1>c, <1>t, <2>1 DEF IL!RedeemBurn, LinkTypes
\* Members that stay in a link.
<1>l. ASSUME NEW l \in IL!LinkIds, NEW s \in SUBSET IL!Refs, IL!Leave(l, s),
             l \notin links \/ Cardinality(s) < 2 \/ ~IL!Claimed(l, s)
      PROVE  /\ links' \subseteq IL!LinkIds /\ linkOf' \in [IL!Refs -> IL!LinkIds \cup {0}]
             /\ \A r \in IL!Refs : linkOf'[r] # 0 => linkOf'[r] \in links'
  <2>1. CASE UNCHANGED <<links, linkOf>>
    BY <1>t, <2>1
  <2>2. CASE IL!Drop(l)
    BY <1>t, <2>2, DropMembers
  <2>3. CASE IL!Put(l, s) /\ ~IL!Claimed(l, s)
    BY <1>t, <2>3, PutMembers
  <2> QED  BY <1>l, <2>1, <2>2, <2>3, LinkCardinality DEF IL!Leave
<1>13. ASSUME NEW q \in IL!Requests, IL!UnlinkWrite(q) PROVE LinkTypes'
  <2>1. run[q] \in Unlinks
    BY <1>13, <1>t, RequestKinds DEF IL!UnlinkWrite, IL!At
  <2>2. run[q].link \in IL!LinkIds /\ run[q].members \in SUBSET IL!Refs
        /\ run[q].account \in Accounts /\ run[q].ref \in Identities
    BY <2>1 DEF Unlinks
  <2>3. /\ links' \subseteq IL!LinkIds /\ linkOf' \in [IL!Refs -> IL!LinkIds \cup {0}]
        /\ \A r \in IL!Refs : linkOf'[r] # 0 => linkOf'[r] \in links'
        /\ parted' \subseteq Accounts \X Identities
    BY <1>13, <1>l, <1>t, <2>2, LinkCardinality DEF IL!UnlinkWrite
  <2> QED  BY <1>13, <1>c, <1>w, <1>t, <2>3 DEF IL!UnlinkWrite
<1>14. ASSUME NEW q \in IL!Requests, IL!OperatorWrite(q) PROVE LinkTypes'
  <2> DEFINE l == IF run[q].op = "create" THEN run[q].id ELSE run[q].link
  <2>1. run[q] \in Creates \/ run[q] \in Edits
    BY <1>14, <1>t, RequestKinds DEF IL!OperatorWrite
  <2>2. l \in IL!LinkIds /\ run[q].members \in SUBSET IL!Refs
    BY <2>1, LinkBounds DEF Creates, Edits
  <2>3. /\ \/ /\ IL!Put(l, run[q].members) /\ ~IL!Claimed(l, run[q].members)
              /\ operated' = operated \cup {l} /\ parted' = IL!Parts(run[q].members)
           \/ UNCHANGED <<links, linkOf, operated, parted>>
        /\ IL!End(q)
        /\ UNCHANGED <<role, activeAccounts, assistants, docs, codes, requests, joined, told>>
    BY <1>14 DEF IL!OperatorWrite
  <2> HIDE DEF l
  <2>4. /\ links' \subseteq IL!LinkIds /\ linkOf' \in [IL!Refs -> IL!LinkIds \cup {0}]
        /\ \A r \in IL!Refs : linkOf'[r] # 0 => linkOf'[r] \in links'
        /\ parted' \subseteq Accounts \X Identities /\ operated' \subseteq IL!LinkIds
    <3>1. CASE IL!Put(l, run[q].members) /\ ~IL!Claimed(l, run[q].members)
               /\ operated' = operated \cup {l} /\ parted' = IL!Parts(run[q].members)
      BY <1>t, <2>2, <3>1, PutMembers DEF IL!Parts
    <3>2. CASE UNCHANGED <<links, linkOf, operated, parted>>
      BY <1>t, <3>2
    <3> QED  BY <2>3, <3>1, <3>2
  <2> QED  BY <1>c, <1>w, <1>t, <2>3, <2>4
<1>15. ASSUME NEW l \in IL!LinkIds, IL!RemoveLink(l) PROVE LinkTypes'
  <2>1. /\ links' \subseteq IL!LinkIds /\ linkOf' \in [IL!Refs -> IL!LinkIds \cup {0}]
        /\ \A r \in IL!Refs : linkOf'[r] # 0 => linkOf'[r] \in links'
    BY <1>15, <1>t, DropMembers DEF IL!RemoveLink
  <2>2. requests' \in 0 .. MaxLinkRequests
    BY <1>15, <1>t, <1>i DEF IL!RemoveLink
  <2> QED  BY <1>15, <1>t, <2>1, <2>2 DEF IL!RemoveLink, LinkTypes, IL!Refs, IL!LinkIds, IL!Codes, IL!Requests
<1>16. ASSUME NEW q \in IL!Requests, IL!PatchWrite(q) PROVE LinkTypes'
  <2>1. run[q] \in AccountChanges
    BY <1>16, <1>t, RequestKinds DEF IL!PatchWrite, IL!At
  <2>2. role' \in [Accounts -> {"admin", "user", "none"}] /\ activeAccounts' \in [Accounts -> BOOLEAN]
    BY <1>16, <1>t, <2>1 DEF IL!PatchWrite, AccountChanges
  <2> QED  BY <1>16, <1>c, <1>t, <2>2 DEF IL!PatchWrite, LinkTypes
<1>17. ASSUME NEW q \in IL!Requests, IL!DeleteLink(q) PROVE LinkTypes'
  <2>1. run[q] \in Deletes
    BY <1>17, <1>t, RequestKinds DEF IL!DeleteLink, IL!At
  <2>2. run[q].link \in IL!LinkIds \cup {0} /\ run[q].members \in SUBSET IL!Refs
    BY <2>1 DEF Deletes
  <2>3. IL!Then(q, "row") => run' \in [IL!Requests -> LinkRequests]
    <3>1. [run[q] EXCEPT !.at = "row"] \in LinkRequests
      BY <2>1, GoesOn DEF LinkRequests
    <3> QED  BY <1>t, <3>1 DEF IL!Then
  <2>4. run' \in [IL!Requests -> LinkRequests]
    BY <1>17, <1>c, <2>3 DEF IL!DeleteLink
  <2>5. /\ links' \subseteq IL!LinkIds /\ linkOf' \in [IL!Refs -> IL!LinkIds \cup {0}]
        /\ \A r \in IL!Refs : linkOf'[r] # 0 => linkOf'[r] \in links'
    <3>1. CASE UNCHANGED <<links, linkOf>>
      BY <1>t, <3>1
    <3>2. CASE run[q].link # 0 /\ IL!Leave(run[q].link, run[q].members)
               /\ (run[q].link \notin links \/ IL!Cardinality(run[q].members) < 2
                      \/ ~IL!Claimed(run[q].link, run[q].members))
      BY <1>l, <2>2, <3>2, LinkCardinality
    <3> QED  BY <1>17, <3>1, <3>2 DEF IL!DeleteLink
  <2> QED  BY <1>17, <1>w, <1>t, <2>4, <2>5 DEF IL!DeleteLink
<1>18. ASSUME NEW q \in IL!Requests, IL!DeleteRow(q) PROVE LinkTypes'
  <2>1. run[q] \in Deletes
    BY <1>18, <1>t, RequestKinds DEF IL!DeleteRow, IL!At
  <2>2. /\ role' \in [Accounts -> {"admin", "user", "none"}] /\ activeAccounts' \in [Accounts -> BOOLEAN]
        /\ codes' \in [IL!Codes -> [account : Accounts \cup {"none"}, used : BOOLEAN]]
    BY <1>18, <1>t, <1>r, <2>1 DEF IL!DeleteRow, Deletes
  <2> QED  BY <1>18, <1>c, <1>t, <2>2 DEF IL!DeleteRow, LinkTypes
<1>19. CASE UNCHANGED IL!linkVars
  BY <1>19, <1>t DEF IL!linkVars, LinkTypes
<1> QED
  BY <1>1, <1>2, <1>3, <1>4, <1>5, <1>6, <1>7, <1>8, <1>9, <1>10, <1>11, <1>12, <1>13, <1>14, <1>15,
     <1>16, <1>17, <1>18, <1>19
  DEF IL!Next

-----------------------------------------------------------------------------
\* Two members or more, and one account at most.
Two(s) == \E x, y \in s : x # y
OneAccount(s) == \A a, b \in s \cap Accounts : a = b

LEMMA Sizes ==
  ASSUME NEW s \in SUBSET IL!Refs
  PROVE  /\ Cardinality(s) >= 2 <=> Two(s)
         /\ Cardinality(s) < 2 <=> ~Two(s)
         /\ Cardinality(s \cap Accounts) <= 1 <=> OneAccount(s)
<1>1. ASSUME NEW t, t \subseteq IL!Refs PROVE Cardinality(t) \in Nat /\ (Cardinality(t) >= 2 <=> Two(t))
  <2>1. IsFiniteSet(t) /\ Cardinality(t) \in Nat
    BY <1>1, LinkBounds, FS_Subset, FS_CardinalityType
  <2>2. CASE \E x, y \in t : x # y
    <3>1. PICK x \in t, y \in t : x # y
      BY <2>2
    <3>2. Cardinality({x}) = 1 /\ IsFiniteSet({x})
      BY FS_Singleton
    <3>3. Cardinality({x} \cup {y}) = 2
      BY <3>1, <3>2, FS_AddElement
    <3>4. Cardinality({x} \cup {y}) <= Cardinality(t)
      BY <3>1, <2>1, FS_Subset
    <3> QED  BY <2>1, <2>2, <3>3, <3>4 DEF Two
  <2>3. CASE ~ \E x, y \in t : x # y
    <3>1. CASE t = {}
      BY <2>1, <2>3, <3>1, FS_EmptySet DEF Two
    <3>2. CASE t # {}
      <4>1. PICK x \in t : t = {x}
        BY <2>3, <3>2
      <4>2. Cardinality(t) = 1
        BY <4>1, FS_Singleton
      <4> QED  BY <2>3, <4>2 DEF Two
    <3> QED  BY <3>1, <3>2
  <2> QED  BY <2>2, <2>3
<1>2. Cardinality(s \cap Accounts) \in Nat /\ (Cardinality(s \cap Accounts) >= 2 <=> Two(s \cap Accounts))
  BY <1>1
<1>3. Two(s \cap Accounts) <=> ~OneAccount(s)
  BY DEF Two, OneAccount
<1> QED  BY <1>1, <1>2, <1>3

\* What a request is to write: two members or more, and one account unless an operator
\* wrote the link.
SoundRequest(r, byOperator) ==
  /\ r \in Creates \cup Edits => Two(r.members)
  /\ r \in Joins => r.ref \in r.members /\ r.account \in r.members
  /\ r \in Joins \cup Unlinks \cup Deletes /\ r.link \notin byOperator => OneAccount(r.members)

SenseInv ==
  /\ \A l \in links : Two(IL!Members(l)) /\ (l \notin operated => OneAccount(IL!Members(l)))
  /\ \A q \in IL!Requests : SoundRequest(run[q], operated)

\* Requests of different kinds are different.
LEMMA Disjoint ==
  /\ \A r \in Joins : r \notin Creates \cup Edits \cup Unlinks \cup Deletes
  /\ \A r \in Mints \cup Burns \cup Inserts \cup AccountChanges \cup {IL!Free} :
       r \notin Joins \cup Creates \cup Edits \cup Unlinks \cup Deletes
  /\ \A r \in Creates \cup Edits : r \notin Joins \cup Unlinks \cup Deletes
  /\ \A r \in Unlinks \cup Deletes : r \notin Creates \cup Edits \cup Joins
<1> USE DEF Mints, Burns, Joins, Inserts, Unlinks, Creates, Edits, AccountChanges, Deletes, IL!Free
<1>1. \A r \in Joins : r \notin Creates \cup Edits \cup Unlinks \cup Deletes
  OBVIOUS
<1>2. \A r \in Mints \cup Burns \cup Inserts \cup AccountChanges \cup {IL!Free} :
       r \notin Joins \cup Creates \cup Edits \cup Unlinks \cup Deletes
  OBVIOUS
<1>3. \A r \in Creates \cup Edits : r \notin Joins \cup Unlinks \cup Deletes
  OBVIOUS
<1>4. \A r \in Unlinks \cup Deletes : r \notin Creates \cup Edits \cup Joins
  OBVIOUS
<1> QED  BY <1>1, <1>2, <1>3, <1>4

\* A step keeps the links and the requests sound.
LEMMA NextSense == LinkTypes /\ SenseInv /\ [IL!Next]_(IL!linkVars) => SenseInv'
<1> SUFFICES ASSUME LinkTypes, SenseInv, [IL!Next]_(IL!linkVars) PROVE SenseInv'
  OBVIOUS
<1> USE DEF IL!store, IL!seen
<1>t. /\ linkOf \in [IL!Refs -> IL!LinkIds \cup {0}] /\ links \subseteq IL!LinkIds
      /\ \A r \in IL!Refs : linkOf[r] # 0 => linkOf[r] \in links
      /\ run \in [IL!Requests -> LinkRequests]
  BY DEF LinkTypes
<1>s. /\ \A l \in links : Two(IL!Members(l)) /\ (l \notin operated => OneAccount(IL!Members(l)))
      /\ \A q \in IL!Requests : SoundRequest(run[q], operated)
  BY DEF SenseInv
<1>p. ASSUME \A l \in links' : Two(IL!Members(l)') /\ (l \notin operated' => OneAccount(IL!Members(l)')),
             \A q \in IL!Requests : SoundRequest(run'[q], operated')
      PROVE  SenseInv'
  BY <1>p DEF SenseInv, Two, OneAccount, SoundRequest, Joins, Creates, Edits, Unlinks, Deletes,
     IL!Requests, IL!Codes, IL!LinkIds, IL!Refs
<1>f. \A o : SoundRequest(IL!Free, o)
  BY Disjoint DEF SoundRequest
\* The requests that stay, and the one that moves.
<1>k. ASSUME operated \subseteq operated', NEW q \in IL!Requests, NEW r, SoundRequest(r, operated'),
             run' = [run EXCEPT ![q] = r]
      PROVE  \A o \in IL!Requests : SoundRequest(run'[o], operated')
  <2>1. \A o \in IL!Requests : SoundRequest(run[o], operated')
    BY <1>k, <1>s DEF SoundRequest
  <2> QED  BY <1>k, <1>t, <2>1
<1>e. ASSUME NEW q \in IL!Requests, IL!End(q), operated \subseteq operated'
      PROVE  \A o \in IL!Requests : SoundRequest(run'[o], operated')
  BY <1>e, <1>f, <1>k DEF IL!End
\* The links stay.
<1>u. ASSUME UNCHANGED <<linkOf, links, operated>>,
             \A o \in IL!Requests : SoundRequest(run'[o], operated')
      PROVE  SenseInv'
  <2>1. \A l : IL!Members(l)' = IL!Members(l)
    BY <1>u DEF IL!Members, IL!Refs
  <2> QED  BY <1>u, <1>s, <1>p, <2>1
\* A link is written.
<1>w. ASSUME NEW l \in IL!LinkIds, NEW s \in SUBSET IL!Refs, IL!Put(l, s), ~IL!Claimed(l, s), Two(s),
             l \notin operated' => OneAccount(s), operated \subseteq operated',
             \A o \in IL!Requests : SoundRequest(run'[o], operated')
      PROVE  SenseInv'
  <2>1. /\ links' = links \cup {l} /\ IL!Members(l)' = s
        /\ \A k \in IL!LinkIds : k # l => IL!Members(k)' = IL!Members(k)
    BY <1>w, PutMembers
  <2> QED  BY <1>w, <1>s, <1>t, <1>p, <2>1
\* A link goes.
<1>d. ASSUME NEW l \in IL!LinkIds, IL!Drop(l), operated \subseteq operated',
             \A o \in IL!Requests : SoundRequest(run'[o], operated')
      PROVE  SenseInv'
  <2>1. /\ links' = links \ {l}
        /\ \A k \in IL!LinkIds : k # l => IL!Members(k)' = IL!Members(k)
    BY <1>d, DropMembers
  <2> QED  BY <1>d, <1>s, <1>t, <1>p, <2>1
\* Members stay in a link.
<1>l. ASSUME NEW l \in IL!LinkIds, NEW s \in SUBSET IL!Refs, IL!Leave(l, s),
             l \notin links \/ Cardinality(s) < 2 \/ ~IL!Claimed(l, s),
             l \notin operated => OneAccount(s), operated' = operated,
             \A o \in IL!Requests : SoundRequest(run'[o], operated')
      PROVE  SenseInv'
  <2>1. CASE UNCHANGED <<links, linkOf>>
    BY <1>l, <1>u, <2>1
  <2>2. CASE IL!Drop(l)
    BY <1>l, <1>d, <2>2
  <2>3. CASE IL!Put(l, s) /\ ~IL!Claimed(l, s) /\ ~(Cardinality(s) < 2)
    BY <1>l, <1>w, Sizes, <2>3
  <2> QED  BY <1>l, <2>1, <2>2, <2>3, LinkCardinality DEF IL!Leave
\* A request comes in.
<1>b. ASSUME NEW q \in IL!Requests, NEW r, IL!Begin(q, r), SoundRequest(r, operated),
             UNCHANGED <<linkOf, links, operated>>
      PROVE  SenseInv'
  <2>1. run' = [run EXCEPT ![q] = r]
    BY <1>b DEF IL!Begin
  <2> QED  BY <1>b, <1>k, <1>u, <2>1
<1>1. ASSUME NEW q \in IL!Requests, NEW a \in Accounts, IL!Mint(q, a) PROVE SenseInv'
  <2> DEFINE r == [op |-> "mint", at |-> "insert", id |-> requests + 1, account |-> a]
  <2>1. SoundRequest(r, operated)
    BY DEF SoundRequest, Joins, Creates, Edits, Unlinks, Deletes
  <2> HIDE DEF r
  <2> QED  BY <1>1, <1>b, <2>1 DEF IL!Mint, r
<1>2. ASSUME NEW q \in IL!Requests, NEW i \in Identities, NEW c \in IL!Codes, IL!Redeem(q, i, c)
      PROVE  SenseInv'
  <2>1. /\ UNCHANGED <<linkOf, links, operated>>
        /\ \E r \in LinkRequests : IL!Begin(q, r) /\ RedeemReads(r, c, i)
    BY <1>2, RedeemBegins
  <2>2. PICK r \in LinkRequests : IL!Begin(q, r) /\ RedeemReads(r, c, i)
    BY <2>1
  <2>3. SoundRequest(r, operated)
    <3>1. CASE r \in Burns \cup Inserts
      BY <3>1, Disjoint DEF SoundRequest
    <3>2. CASE /\ r \in Joins /\ r.account \in Accounts /\ r.ref = i /\ r.link \in links
               /\ r.members = IL!Members(r.link) \cup {r.ref, r.account}
               /\ \/ linkOf[r.account] = r.link
                  \/ \A b \in Accounts : b \in IL!Members(r.link) => b = r.account
      <4>1. r.account \in IL!Refs /\ r.ref \notin Accounts
        BY <3>2, LinkBounds
      <4>2. r.link \notin operated => OneAccount(IL!Members(r.link))
        BY <3>2, <1>s
      <4>3. linkOf[r.account] = r.link => r.account \in IL!Members(r.link)
        BY <4>1 DEF IL!Members
      <4>4. r.link \notin operated => OneAccount(r.members)
        BY <3>2, <4>1, <4>2, <4>3 DEF OneAccount
      <4> QED  BY <3>2, <4>4, Disjoint DEF SoundRequest
    <3> QED  BY <2>2, <3>1, <3>2 DEF RedeemReads
  <2> QED  BY <1>b, <2>1, <2>2, <2>3
<1>3. ASSUME NEW q \in IL!Requests, NEW a \in Accounts, NEW i \in Identities, IL!Unlink(q, a, i)
      PROVE  SenseInv'
  <2> DEFINE s == IL!Members(linkOf[i]) \ {i}
             r == [op |-> "unlink", at |-> "write", account |-> a, ref |-> i,
                   link |-> linkOf[i], members |-> s]
  <2>1. linkOf[i] \in links /\ linkOf[i] \in IL!LinkIds /\ s \in SUBSET IL!Refs
    BY <1>3, <1>t, LinkBounds DEF IL!Unlink, IL!Members
  <2>2. linkOf[i] \notin operated => OneAccount(s)
    BY <1>s, <2>1 DEF OneAccount
  <2> HIDE DEF s
  <2>3. r \in Unlinks /\ r.link = linkOf[i] /\ r.members = s
    BY <2>1 DEF Unlinks
  <2>4. IL!Begin(q, r) /\ UNCHANGED <<linkOf, links, operated>>
    BY <1>3 DEF IL!Unlink, s
  <2> HIDE DEF r
  <2> QED  BY <1>b, <2>2, <2>3, <2>4, Disjoint DEF SoundRequest
<1>4. ASSUME NEW q \in IL!Requests, NEW s \in SUBSET IL!Refs, IL!Create(q, s) PROVE SenseInv'
  <2> DEFINE r == [op |-> "create", at |-> "write", id |-> requests + 1, members |-> s]
  <2>1. IL!Begin(q, r) /\ UNCHANGED <<linkOf, links, operated>> /\ Two(s)
    BY <1>4, Sizes, LinkCardinality DEF IL!Create
  <2>2. SoundRequest(r, operated)
    BY <2>1 DEF SoundRequest, Joins, Creates, Edits, Unlinks, Deletes
  <2> HIDE DEF r
  <2> QED  BY <1>b, <2>1, <2>2
<1>5. ASSUME NEW q \in IL!Requests, NEW s \in SUBSET IL!Refs, NEW l \in IL!LinkIds, IL!Edit(q, l, s)
      PROVE  SenseInv'
  <2> DEFINE r == [op |-> "edit", at |-> "write", link |-> l, members |-> s]
  <2>1. IL!Begin(q, r) /\ UNCHANGED <<linkOf, links, operated>> /\ Two(s)
    BY <1>5, Sizes, LinkCardinality DEF IL!Edit
  <2>2. SoundRequest(r, operated)
    BY <2>1 DEF SoundRequest, Joins, Creates, Edits, Unlinks, Deletes
  <2> HIDE DEF r
  <2> QED  BY <1>b, <2>1, <2>2
<1>6. ASSUME NEW q \in IL!Requests, NEW by \in Accounts, NEW a \in Accounts,
             NEW newRole \in {"admin", "user"}, NEW on \in BOOLEAN,
             IL!Patch(q, by, a, newRole, on)
      PROVE  SenseInv'
  <2> DEFINE r == [op |-> "patch", at |-> "write", account |-> a,
                   role |-> newRole, active |-> on, changes |-> newRole # role[a]]
  <2>1. IL!Begin(q, r) /\ UNCHANGED <<linkOf, links, operated>>
    BY <1>6 DEF IL!Patch
  <2>2. SoundRequest(r, operated)
    BY DEF SoundRequest, Joins, Creates, Edits, Unlinks, Deletes
  <2> HIDE DEF r
  <2> QED  BY <1>b, <2>1, <2>2
<1>7. ASSUME NEW q \in IL!Requests, NEW by \in Accounts, NEW a \in Accounts, IL!DeleteHard(q, by, a)
      PROVE  SenseInv'
  <2> DEFINE s == IF linkOf[a] = 0 THEN {} ELSE IL!Members(linkOf[a]) \ {a}
             r == [op |-> "delete", at |-> "link", account |-> a, link |-> linkOf[a], members |-> s]
  <2>1. linkOf[a] \notin operated => OneAccount(s)
    <3>1. linkOf[a] # 0 => linkOf[a] \in links
      BY <1>t, LinkBounds
    <3> QED  BY <3>1, <1>s DEF OneAccount
  <2>2. linkOf[a] \in IL!LinkIds \cup {0} /\ s \in SUBSET IL!Refs
    BY <1>t, LinkBounds DEF IL!Members
  <2>3. IL!Begin(q, r) /\ UNCHANGED <<linkOf, links, operated>>
    BY <1>7 DEF IL!DeleteHard
  <2> HIDE DEF s
  <2>4. r \in Deletes /\ r.link = linkOf[a] /\ r.members = s
    BY <2>2 DEF Deletes
  <2> HIDE DEF r
  <2> QED  BY <1>b, <2>1, <2>3, <2>4, Disjoint DEF SoundRequest
<1>8. ASSUME NEW q \in IL!Requests, IL!MintInsert(q) PROVE SenseInv'
  BY <1>8, <1>e, <1>u DEF IL!MintInsert
<1>9. ASSUME NEW c \in IL!Codes, IL!Expire(c) PROVE SenseInv'
  BY <1>9, <1>s, <1>u DEF IL!Expire
\* A code links its sender, and burns next.
<1>c. ASSUME NEW q \in IL!Requests, NEW s, IL!Linked(q, s), run[q] \in Joins \cup Inserts,
             operated' = operated
      PROVE  \A o \in IL!Requests : SoundRequest(run'[o], operated')
  <2> DEFINE r == [run[q] EXCEPT !.at = "burn"]
  <2>1. run' = [run EXCEPT ![q] = r]
    BY <1>c DEF IL!Linked, IL!Then
  <2>2. SoundRequest(r, operated)
    BY <1>c, <1>s, GoesOn, Disjoint DEF SoundRequest
  <2> HIDE DEF r
  <2> QED  BY <1>c, <1>k, <2>1, <2>2
<1>10. ASSUME NEW q \in IL!Requests, IL!RedeemJoin(q) PROVE SenseInv'
  <2>1. run[q] \in Joins
    BY <1>10, <1>t, RequestKinds DEF IL!RedeemJoin, IL!At
  <2>2. /\ run[q].link \in IL!LinkIds /\ run[q].members \in SUBSET IL!Refs
        /\ run[q].ref \in Identities /\ run[q].account \in Accounts
    BY <2>1 DEF Joins
  <2>3. operated' = operated
    BY <1>10 DEF IL!RedeemJoin
  <2>4. CASE IL!Put(run[q].link, run[q].members) /\ ~IL!Claimed(run[q].link, run[q].members)
             /\ IL!Linked(q, run[q].members)
    <3>1. Two(run[q].members) /\ (run[q].link \notin operated => OneAccount(run[q].members))
      BY <1>s, <2>1, <2>2, LinkBounds DEF SoundRequest, Two
    <3> QED  BY <1>c, <1>w, <2>1, <2>2, <2>3, <2>4, <3>1
  <2>5. CASE IL!Linked(q, {}) /\ UNCHANGED <<links, linkOf>>
    BY <1>c, <1>u, <2>1, <2>3, <2>5
  <2>6. CASE IL!End(q) /\ UNCHANGED <<links, linkOf>>
    BY <1>e, <1>u, <2>3, <2>6
  <2> QED  BY <1>10, <2>4, <2>5, <2>6 DEF IL!RedeemJoin
<1>11. ASSUME NEW q \in IL!Requests, IL!RedeemInsert(q) PROVE SenseInv'
  <2> DEFINE s == {run[q].ref, run[q].account}
  <2>1. run[q] \in Inserts
    BY <1>11, <1>t, RequestKinds DEF IL!RedeemInsert, IL!At
  <2>2. run[q].id \in IL!LinkIds /\ s \in SUBSET IL!Refs
        /\ run[q].ref \in Identities /\ run[q].account \in Accounts
    BY <2>1, LinkBounds DEF Inserts
  <2>3. Two(s) /\ OneAccount(s)
    BY <2>2, LinkBounds DEF Two, OneAccount
  <2>4. operated' = operated
    BY <1>11 DEF IL!RedeemInsert
  <2> HIDE DEF s
  <2>5. CASE IL!Put(run[q].id, s) /\ ~IL!Claimed(0, s) /\ IL!Linked(q, s)
    <3>1. ~IL!Claimed(run[q].id, s)
      BY <2>5 DEF IL!Claimed
    <3> QED  BY <1>c, <1>w, <2>1, <2>2, <2>3, <2>4, <2>5, <3>1
  <2>6. CASE IL!End(q) /\ UNCHANGED <<links, linkOf>>
    BY <1>e, <1>u, <2>4, <2>6
  <2> QED  BY <1>11, <2>5, <2>6 DEF IL!RedeemInsert, s
<1>12. ASSUME NEW q \in IL!Requests, IL!RedeemBurn(q) PROVE SenseInv'
  BY <1>12, <1>e, <1>u DEF IL!RedeemBurn
<1>13. ASSUME NEW q \in IL!Requests, IL!UnlinkWrite(q) PROVE SenseInv'
  <2>1. run[q] \in Unlinks
    BY <1>13, <1>t, RequestKinds DEF IL!UnlinkWrite, IL!At
  <2>2. run[q].link \in IL!LinkIds /\ run[q].members \in SUBSET IL!Refs
    BY <2>1 DEF Unlinks
  <2>3. run[q].link \notin operated => OneAccount(run[q].members)
    BY <1>s, <2>1 DEF SoundRequest
  <2>4. operated' = operated /\ IL!End(q)
    BY <1>13 DEF IL!UnlinkWrite
  <2>5. CASE UNCHANGED <<links, linkOf>>
    BY <1>e, <1>u, <2>4, <2>5
  <2>6. CASE /\ run[q].link \notin links \/ IL!Cardinality(run[q].members) < 2
                \/ ~IL!Claimed(run[q].link, run[q].members)
             /\ IL!Leave(run[q].link, run[q].members)
    BY <1>e, <1>l, <2>2, <2>3, <2>4, <2>6, LinkCardinality
  <2> QED  BY <1>13, <2>5, <2>6 DEF IL!UnlinkWrite
<1>14. ASSUME NEW q \in IL!Requests, IL!OperatorWrite(q) PROVE SenseInv'
  <2> DEFINE l == IF run[q].op = "create" THEN run[q].id ELSE run[q].link
  <2>1. run[q] \in Creates \cup Edits
    BY <1>14, <1>t, RequestKinds DEF IL!OperatorWrite
  <2>2. l \in IL!LinkIds /\ run[q].members \in SUBSET IL!Refs
    BY <2>1, LinkBounds DEF Creates, Edits
  <2>3. Two(run[q].members)
    BY <1>s, <2>1 DEF SoundRequest
  <2>4. /\ \/ /\ IL!Put(l, run[q].members) /\ ~IL!Claimed(l, run[q].members)
              /\ operated' = operated \cup {l}
           \/ UNCHANGED <<links, linkOf, operated>>
        /\ IL!End(q)
    BY <1>14 DEF IL!OperatorWrite
  <2> HIDE DEF l
  <2> QED  BY <1>e, <1>u, <1>w, <2>2, <2>3, <2>4
<1>15. ASSUME NEW l \in IL!LinkIds, IL!RemoveLink(l) PROVE SenseInv'
  <2>1. IL!Drop(l) /\ operated' = operated /\ run' = run
    BY <1>15 DEF IL!RemoveLink
  <2> QED  BY <1>d, <1>s, <2>1
<1>16. ASSUME NEW q \in IL!Requests, IL!PatchWrite(q) PROVE SenseInv'
  BY <1>16, <1>e, <1>u DEF IL!PatchWrite
<1>17. ASSUME NEW q \in IL!Requests, IL!DeleteLink(q) PROVE SenseInv'
  <2>1. run[q] \in Deletes
    BY <1>17, <1>t, RequestKinds DEF IL!DeleteLink, IL!At
  <2>2. run[q].link \in IL!LinkIds \cup {0} /\ run[q].members \in SUBSET IL!Refs
    BY <2>1 DEF Deletes
  <2>3. run[q].link \notin operated => OneAccount(run[q].members)
    BY <1>s, <2>1 DEF SoundRequest
  <2>4. operated' = operated
    BY <1>17 DEF IL!DeleteLink
  <2>5. IL!Then(q, "row") => \A o \in IL!Requests : SoundRequest(run'[o], operated')
    <3> DEFINE r == [run[q] EXCEPT !.at = "row"]
    <3>1. SoundRequest(r, operated)
      BY <1>s, <2>1, GoesOn, Disjoint DEF SoundRequest
    <3>2. IL!Then(q, "row") => run' = [run EXCEPT ![q] = r]
      BY DEF IL!Then
    <3> HIDE DEF r
    <3> QED  BY <1>k, <2>4, <3>1, <3>2
  <2>6. CASE UNCHANGED <<links, linkOf>> /\ IL!Then(q, "row")
    BY <1>u, <2>4, <2>5, <2>6
  <2>7. CASE /\ run[q].link # 0
             /\ run[q].link \notin links \/ IL!Cardinality(run[q].members) < 2
                \/ ~IL!Claimed(run[q].link, run[q].members)
             /\ IL!Leave(run[q].link, run[q].members) /\ IL!Then(q, "row")
    BY <1>l, <2>2, <2>3, <2>4, <2>5, <2>7, LinkCardinality
  <2>8. CASE UNCHANGED <<links, linkOf>> /\ IL!End(q)
    BY <1>e, <1>u, <2>4, <2>8
  <2> QED  BY <1>17, <2>6, <2>7, <2>8 DEF IL!DeleteLink
<1>18. ASSUME NEW q \in IL!Requests, IL!DeleteRow(q) PROVE SenseInv'
  BY <1>18, <1>e, <1>u DEF IL!DeleteRow
<1>19. CASE UNCHANGED IL!linkVars
  BY <1>19, <1>s, <1>u DEF IL!linkVars
<1> QED
  BY <1>1, <1>2, <1>3, <1>4, <1>5, <1>6, <1>7, <1>8, <1>9, <1>10, <1>11, <1>12, <1>13, <1>14, <1>15,
     <1>16, <1>17, <1>18, <1>19
  DEF IL!Next

-----------------------------------------------------------------------------
\* Two requests that are about one matter have crossed.
CrossInv ==
  \A m : m \notin crossedMatters =>
    \A p, q \in IL!Requests : m \in IL!About(run[p].op) /\ m \in IL!About(run[q].op) => p = q

\* What a request about the links has read still stands, while none crossed it.
Fresh(r) ==
  /\ r.op = "redeem" /\ r.at \in {"join", "insert"} => IL!Exists(r.account)
  /\ r.op = "redeem" /\ r.at = "join" =>
       r.link \in links /\ r.members = IL!Members(r.link) \cup {r.ref, r.account}
  /\ r.op = "unlink" =>
       /\ r.link \in links /\ r.members = IL!Members(r.link) \ {r.ref}
       /\ linkOf[r.account] = r.link
  /\ r.op = "delete" /\ r.at = "link" =>
       /\ r.link = linkOf[r.account]
       /\ r.link # 0 => r.members = IL!Members(r.link) \ {r.account}
  /\ r.op = "delete" /\ r.at = "row" => linkOf[r.account] = 0

ApartInv == \A p \in parted : linkOf[p[1]] = 0 \/ linkOf[p[2]] # linkOf[p[1]]
GoneInv == \A a \in Accounts : ~IL!Exists(a) => linkOf[a] = 0 \/ linkOf[a] \in operated
FreshOf(q) ==
  /\ Fresh(run[q])
  /\ told[q] /\ run[q] # IL!Free =>
       /\ run[q].op = "redeem" /\ run[q] \in Joins \cup Inserts
       /\ linkOf[run[q].ref] # 0 /\ linkOf[run[q].ref] = linkOf[run[q].account]

FreshInv ==
  "links" \notin crossedMatters =>
    /\ ApartInv /\ GoneInv
    /\ \A q \in IL!Requests : FreshOf(q)

\* A code that is about to link its sender has linked nobody, and a code that has is
\* burned, or is about to be.
Unlinked(r) ==
  /\ r.op = "mint" =>
       /\ r.id <= requests /\ codes[r.id] = IL!NoCode /\ joined[r.id] = {}
       /\ \A c \in IL!Codes : IL!Live(c) => codes[c].account # r.account
  /\ r.op = "redeem" => r.code <= requests
  /\ r.op = "redeem" /\ r.at # "burn" => joined[r.code] = {}

CodesInv ==
  "codes" \notin crossedMatters =>
    /\ \A c \in IL!Codes : c > requests => codes[c] = IL!NoCode /\ joined[c] = {}
    /\ \A q \in IL!Requests : Unlinked(run[q])
    /\ \A c \in IL!Codes :
         /\ IL!Live(c) => \/ joined[c] = {}
                          \/ \E q \in IL!Requests : IL!At(q, "redeem", "burn") /\ run[q].code = c
         /\ \A x, y \in joined[c] : x = y
         /\ \A d \in IL!Codes :
              IL!Live(c) /\ IL!Live(d) /\ codes[c].account = codes[d].account => c = d

\* Who changes an account is an admin, and another.
AdminInv ==
  "accounts" \notin crossedMatters =>
    /\ \E a \in Accounts : IL!Admin(a)
    /\ \A q \in IL!Requests :
         run[q].op \in {"patch", "delete"} => \E b \in Accounts \ {run[q].account} : IL!Admin(b)

\* Only a request that comes in crosses another, and it says so.
LEMMA NextCross ==
  CrossInv /\ LinkTypes /\ [IL!Next]_(IL!linkVars) =>
    CrossInv' /\ crossedMatters \subseteq crossedMatters'
<1> SUFFICES ASSUME CrossInv, LinkTypes, [IL!Next]_(IL!linkVars)
             PROVE  CrossInv' /\ crossedMatters \subseteq crossedMatters'
  OBVIOUS
<1> USE DEF IL!store, IL!seen
<1>t. run \in [IL!Requests -> LinkRequests] /\ IL!Free.op = "none" /\ IL!About("none") = {}
  BY DEF LinkTypes, IL!Free, IL!About
<1>p. ASSUME \A m : m \notin crossedMatters' => \A p, q \in IL!Requests :
               m \in IL!About(run'[p].op) /\ m \in IL!About(run'[q].op) => p = q
      PROVE  CrossInv'
  BY <1>p DEF CrossInv, IL!Requests, IL!About
<1>b. ASSUME NEW q \in IL!Requests, NEW r, IL!Begin(q, r)
      PROVE  CrossInv' /\ crossedMatters \subseteq crossedMatters'
  <2>1. /\ crossedMatters \subseteq crossedMatters' /\ run' = [run EXCEPT ![q] = r]
        /\ \A m : m \in IL!About(r.op) /\ m \notin crossedMatters' =>
             \A o \in IL!Requests \ {q} : m \notin IL!About(run[o].op)
    BY <1>b DEF IL!Begin
  <2>2. ASSUME NEW m, m \notin crossedMatters', NEW o \in IL!Requests, NEW p \in IL!Requests,
               m \in IL!About(run'[o].op), m \in IL!About(run'[p].op)
        PROVE  o = p
    BY <1>t, <2>1, <2>2 DEF CrossInv
  <2> QED  BY <1>p, <2>1, <2>2
<1>e. ASSUME NEW q \in IL!Requests, IL!End(q) \/ run' = run \/ (\E at : IL!Then(q, at)),
             run' \in [IL!Requests -> LinkRequests], crossedMatters \subseteq crossedMatters'
      PROVE  CrossInv'
  <2>1. \A o \in IL!Requests : \A m : m \in IL!About(run'[o].op) => m \in IL!About(run[o].op)
    <3>1. CASE IL!End(q)
      BY <1>t, <3>1 DEF IL!End
    <3>2. CASE run' = run
      BY <3>2
    <3>3. CASE \E at : IL!Then(q, at)
      <4>1. PICK at : run' = [run EXCEPT ![q].at = at]
        BY <3>3 DEF IL!Then
      <4>2. run'[q].op = run[q].op /\ \A o \in IL!Requests \ {q} : run'[o] = run[o]
        BY <1>t, <4>1
      <4> QED  BY <4>2
    <3> QED  BY <1>e, <3>1, <3>2, <3>3
  <2> QED  BY <1>e, <1>p, <2>1 DEF CrossInv
<1>y. LinkTypes'
  BY NextLinkTypes
<1>z. run' \in [IL!Requests -> LinkRequests]
  BY <1>y DEF LinkTypes
<1>1. ASSUME NEW q \in IL!Requests, \E r : IL!Begin(q, r)
      PROVE  CrossInv' /\ crossedMatters \subseteq crossedMatters'
  BY <1>1, <1>b
<1>2. ASSUME NEW q \in IL!Requests,
             \/ \E a \in Accounts : IL!Mint(q, a)
             \/ \E i \in Identities, c \in IL!Codes : IL!Redeem(q, i, c)
             \/ \E a \in Accounts, i \in Identities : IL!Unlink(q, a, i)
             \/ \E s \in SUBSET IL!Refs : IL!Create(q, s) \/ \E l \in IL!LinkIds : IL!Edit(q, l, s)
             \/ \E by, a \in Accounts, r \in {"admin", "user"}, on \in BOOLEAN : IL!Patch(q, by, a, r, on)
             \/ \E by, a \in Accounts : IL!DeleteHard(q, by, a)
      PROVE  CrossInv' /\ crossedMatters \subseteq crossedMatters'
  <2>1. \E r : IL!Begin(q, r)
    BY ZenonT(30), <1>2 DEF IL!Mint, IL!Redeem, IL!Unlink, IL!Create, IL!Edit, IL!Patch, IL!DeleteHard
  <2> QED  BY <1>1, <2>1
<1>3. ASSUME NEW q \in IL!Requests,
             \/ IL!MintInsert(q) \/ IL!RedeemJoin(q) \/ IL!RedeemInsert(q) \/ IL!RedeemBurn(q)
             \/ IL!UnlinkWrite(q) \/ IL!OperatorWrite(q) \/ IL!PatchWrite(q)
             \/ IL!DeleteLink(q) \/ IL!DeleteRow(q)
      PROVE  CrossInv' /\ crossedMatters \subseteq crossedMatters'
  <2>1. (IL!End(q) \/ \E at : IL!Then(q, at)) /\ crossedMatters' = crossedMatters
    BY <1>3 DEF IL!MintInsert, IL!RedeemJoin, IL!RedeemInsert, IL!RedeemBurn, IL!UnlinkWrite,
       IL!OperatorWrite, IL!PatchWrite, IL!DeleteLink, IL!DeleteRow, IL!Linked
  <2> QED  BY <1>e, <1>z, <2>1
<1>4. ASSUME run' = run, crossedMatters \subseteq crossedMatters' PROVE CrossInv'
  BY <1>4, <1>p DEF CrossInv
<1>5. ASSUME NEW c \in IL!Codes, IL!Expire(c) PROVE CrossInv' /\ crossedMatters \subseteq crossedMatters'
  BY <1>4, <1>5 DEF IL!Expire
<1>6. ASSUME NEW l \in IL!LinkIds, IL!RemoveLink(l)
      PROVE  CrossInv' /\ crossedMatters \subseteq crossedMatters'
  BY <1>4, <1>6 DEF IL!RemoveLink
<1>7. CASE UNCHANGED IL!linkVars
  BY <1>4, <1>7 DEF IL!linkVars
<1> QED  BY <1>2, <1>3, <1>5, <1>6, <1>7 DEF IL!Next

\* A change of accounts is made by an admin who is not the account, and who stays.
LEMMA NextAdmin == AdminInv /\ CrossInv /\ LinkTypes /\ [IL!Next]_(IL!linkVars) => AdminInv'
<1> SUFFICES ASSUME AdminInv, CrossInv, LinkTypes, [IL!Next]_(IL!linkVars), "accounts" \notin crossedMatters'
             PROVE  AdminInv'
  BY DEF AdminInv
<1> USE DEF IL!store, IL!seen
<1>t. /\ run \in [IL!Requests -> LinkRequests] /\ IL!Free.op = "none"
      /\ role \in [Accounts -> {"admin", "user", "none"}] /\ activeAccounts \in [Accounts -> BOOLEAN]
  BY DEF LinkTypes, IL!Free
<1>a. /\ "accounts" \notin crossedMatters
      /\ \E a \in Accounts : IL!Admin(a)
      /\ \A q \in IL!Requests :
           run[q].op \in {"patch", "delete"} => \E b \in Accounts \ {run[q].account} : IL!Admin(b)
  BY NextCross DEF AdminInv
\* The accounts stay.
<1>u. ASSUME UNCHANGED <<role, activeAccounts>>,
             \A q \in IL!Requests : run'[q].op \in {"patch", "delete"} =>
                \/ run[q].op \in {"patch", "delete"} /\ run'[q].account = run[q].account
                \/ \E b \in Accounts \ {run'[q].account} : IL!Admin(b)
      PROVE  AdminInv'
  <2>1. \A b : IL!Admin(b)' <=> IL!Admin(b)
    BY <1>u DEF IL!Admin, IL!SignedIn, IL!Exists
  <2> QED  BY <1>u, <1>a, <2>1 DEF AdminInv, IL!Requests
<1>b. ASSUME NEW q \in IL!Requests, NEW r, IL!Begin(q, r), UNCHANGED <<role, activeAccounts>>,
             r.op \in {"patch", "delete"} => \E b \in Accounts \ {r.account} : IL!Admin(b)
      PROVE  AdminInv'
  BY <1>b, <1>t, <1>u DEF IL!Begin
<1>e. ASSUME NEW q \in IL!Requests, IL!End(q), UNCHANGED <<role, activeAccounts>> PROVE AdminInv'
  BY <1>e, <1>t, <1>u DEF IL!End
\* One account changes, which is not the admin's.
<1>w. ASSUME NEW q \in IL!Requests, IL!End(q), run[q].op \in {"patch", "delete"}, run[q].account \in Accounts,
             \A b \in Accounts \ {run[q].account} :
               role'[b] = role[b] /\ activeAccounts'[b] = activeAccounts[b]
      PROVE  AdminInv'
  <2>1. \E b \in Accounts : IL!Admin(b)'
    BY <1>w, <1>a DEF IL!Admin, IL!SignedIn, IL!Exists
  <2>2. \A o \in IL!Requests \ {q} : run[o].op \notin {"patch", "delete"}
    BY <1>w, <1>a, <1>t, Matters DEF CrossInv
  <2>3. \A o \in IL!Requests : run'[o].op \notin {"patch", "delete"}
    BY <1>w, <1>t, <2>2 DEF IL!End
  <2> QED  BY <2>1, <2>3 DEF AdminInv, IL!Requests
<1>1. ASSUME NEW q \in IL!Requests, NEW a \in Accounts, IL!Mint(q, a) PROVE AdminInv'
  BY <1>1, <1>b DEF IL!Mint
<1>2. ASSUME NEW q \in IL!Requests, NEW i \in Identities, NEW c \in IL!Codes, IL!Redeem(q, i, c)
      PROVE  AdminInv'
  BY <1>2, <1>b, RedeemBegins DEF RedeemReads
<1>3. ASSUME NEW q \in IL!Requests, NEW a \in Accounts, NEW i \in Identities, IL!Unlink(q, a, i)
      PROVE  AdminInv'
  BY <1>3, <1>b DEF IL!Unlink
<1>4. ASSUME NEW q \in IL!Requests, NEW s \in SUBSET IL!Refs, IL!Create(q, s) PROVE AdminInv'
  BY <1>4, <1>b DEF IL!Create
<1>5. ASSUME NEW q \in IL!Requests, NEW s \in SUBSET IL!Refs, NEW l \in IL!LinkIds, IL!Edit(q, l, s)
      PROVE  AdminInv'
  BY <1>5, <1>b DEF IL!Edit
<1>6. ASSUME NEW q \in IL!Requests, NEW by \in Accounts, NEW a \in Accounts,
             NEW newRole \in {"admin", "user"}, NEW on \in BOOLEAN,
             IL!Patch(q, by, a, newRole, on)
      PROVE  AdminInv'
  <2> DEFINE r == [op |-> "patch", at |-> "write", account |-> a,
                   role |-> newRole, active |-> on, changes |-> newRole # role[a]]
  <2>1. IL!Begin(q, r) /\ UNCHANGED <<role, activeAccounts>> /\ IL!Admin(by) /\ by # a
    BY <1>6 DEF IL!Patch
  <2>2. r.account = a
    OBVIOUS
  <2> HIDE DEF r
  <2> QED  BY <1>b, <2>1, <2>2
<1>7. ASSUME NEW q \in IL!Requests, NEW by \in Accounts, NEW a \in Accounts, IL!DeleteHard(q, by, a)
      PROVE  AdminInv'
  <2> DEFINE r == [op |-> "delete", at |-> "link", account |-> a, link |-> linkOf[a],
                   members |-> IF linkOf[a] = 0 THEN {} ELSE IL!Members(linkOf[a]) \ {a}]
  <2>1. IL!Begin(q, r) /\ UNCHANGED <<role, activeAccounts>> /\ IL!Admin(by) /\ by # a
    BY <1>7 DEF IL!DeleteHard
  <2>2. r.account = a
    OBVIOUS
  <2> HIDE DEF r
  <2> QED  BY <1>b, <2>1, <2>2
<1>8. ASSUME NEW q \in IL!Requests,
             \/ IL!MintInsert(q) \/ IL!RedeemBurn(q) \/ IL!UnlinkWrite(q) \/ IL!OperatorWrite(q)
      PROVE  AdminInv'
  BY <1>8, <1>e DEF IL!MintInsert, IL!RedeemBurn, IL!UnlinkWrite, IL!OperatorWrite
<1>9. ASSUME NEW q \in IL!Requests, IL!RedeemJoin(q) \/ IL!RedeemInsert(q) \/ IL!DeleteLink(q)
      PROVE  AdminInv'
  <2>1. UNCHANGED <<role, activeAccounts>> /\ (IL!End(q) \/ \E at \in {"burn", "row"} : IL!Then(q, at))
    BY <1>9 DEF IL!RedeemJoin, IL!RedeemInsert, IL!DeleteLink, IL!Linked
  <2>2. run[q] \in Joins \cup Inserts \cup Deletes
    BY <1>9, <1>t, RequestKinds DEF IL!RedeemJoin, IL!RedeemInsert, IL!DeleteLink, IL!At
  <2>3. CASE \E at : IL!Then(q, at)
    <3>1. PICK at : run' = [run EXCEPT ![q].at = at]
      BY <2>3 DEF IL!Then
    <3>2. \A o \in IL!Requests : run'[o].op = run[o].op /\ run'[o].account = run[o].account
      <4>1. run'[q] = [run[q] EXCEPT !.at = at] /\ \A o \in IL!Requests \ {q} : run'[o] = run[o]
        BY <1>t, <3>1
      <4>2. run'[q].op = run[q].op /\ run'[q].account = run[q].account
        BY <2>2, <4>1 DEF Joins, Inserts, Deletes
      <4> QED  BY <4>1, <4>2
    <3> QED  BY <1>u, <2>1, <3>2
  <2> QED  BY <1>e, <2>1, <2>3
<1>10. ASSUME NEW q \in IL!Requests, IL!PatchWrite(q) PROVE AdminInv'
  <2>1. run[q] \in AccountChanges
    BY <1>10, <1>t, RequestKinds DEF IL!PatchWrite, IL!At
  <2>2. run[q].account \in Accounts /\ run[q].op = "patch"
    BY <2>1 DEF AccountChanges
  <2>3. \A b \in Accounts \ {run[q].account} :
          role'[b] = role[b] /\ activeAccounts'[b] = activeAccounts[b]
    BY <1>10, <1>t, <2>2 DEF IL!PatchWrite
  <2> QED  BY <1>10, <1>w, <2>2, <2>3 DEF IL!PatchWrite
<1>11. ASSUME NEW q \in IL!Requests, IL!DeleteRow(q) PROVE AdminInv'
  <2>1. run[q] \in Deletes
    BY <1>11, <1>t, RequestKinds DEF IL!DeleteRow, IL!At
  <2>2. run[q].account \in Accounts /\ run[q].op = "delete"
    BY <2>1 DEF Deletes
  <2>3. \A b \in Accounts \ {run[q].account} :
          role'[b] = role[b] /\ activeAccounts'[b] = activeAccounts[b]
    BY <1>11, <1>t, <2>2 DEF IL!DeleteRow
  <2> QED  BY <1>11, <1>w, <2>2, <2>3 DEF IL!DeleteRow
<1>12. ASSUME NEW c \in IL!Codes, IL!Expire(c) PROVE AdminInv'
  BY <1>12, <1>u DEF IL!Expire
<1>13. ASSUME NEW l \in IL!LinkIds, IL!RemoveLink(l) PROVE AdminInv'
  BY <1>13, <1>u DEF IL!RemoveLink
<1>14. CASE UNCHANGED IL!linkVars
  BY <1>14, <1>u DEF IL!linkVars
<1> QED
  BY <1>1, <1>2, <1>3, <1>4, <1>5, <1>6, <1>7, <1>8, <1>9, <1>10, <1>11, <1>12, <1>13, <1>14 DEF IL!Next

\* Members that stay in a link get no other, and the rest of them leave it.
LEMMA LeaveMembers ==
  ASSUME LinkTypes, NEW l \in links, NEW s \in SUBSET IL!Refs, s \subseteq IL!Members(l), IL!Leave(l, s)
  PROVE  /\ \A r \in IL!Refs : linkOf'[r] \in {0, linkOf[r]}
         /\ \A r \in IL!Members(l) \ s : linkOf'[r] = 0
<1>1. \A r \in s : linkOf[r] = l
  BY DEF IL!Members
<1>2. \A r \in IL!Members(l) : r \in IL!Refs /\ linkOf[r] = l
  BY DEF IL!Members
<1>3. l \in links
  OBVIOUS
<1>4. CASE IL!Drop(l)
  BY <1>2, <1>4 DEF IL!Drop
<1>5. CASE IL!Put(l, s)
  BY <1>1, <1>2, <1>5 DEF IL!Put
<1> QED  BY <1>3, <1>4, <1>5 DEF IL!Leave

\* Who joins a link is one person with its members, and nobody else becomes one.
LEMMA PutParts ==
  ASSUME LinkTypes, NEW l \in IL!LinkIds, NEW s \in SUBSET IL!Refs, IL!Put(l, s),
         parted' = IL!Parts(s), ApartInv
  PROVE  ApartInv'
<1>1. linkOf' = [r \in IL!Refs |-> IF r \in s THEN l ELSE IF linkOf[r] = l THEN 0 ELSE linkOf[r]]
  BY DEF IL!Put
<1>2. ASSUME NEW p \in parted' PROVE linkOf'[p[1]] = 0 \/ linkOf'[p[2]] # linkOf'[p[1]]
  <2>1. p \in parted /\ p \in Accounts \X Identities /\ ~({p[1], p[2]} \subseteq s)
    BY <1>2 DEF IL!Parts, LinkTypes
  <2>2. p[1] \in IL!Refs /\ p[2] \in IL!Refs /\ (p[1] \notin s \/ p[2] \notin s)
    BY <2>1, LinkBounds
  <2>3. linkOf[p[1]] = 0 \/ linkOf[p[2]] # linkOf[p[1]]
    BY <2>1 DEF ApartInv
  <2> QED  BY <1>1, <2>2, <2>3, LinkBounds
<1> QED  BY <1>2 DEF ApartInv

\* A step keeps what the requests about the links have read.
LEMMA NextFresh == FreshInv /\ CrossInv /\ LinkTypes /\ [IL!Next]_(IL!linkVars) => FreshInv'
<1> SUFFICES ASSUME FreshInv, CrossInv, LinkTypes, [IL!Next]_(IL!linkVars), "links" \notin crossedMatters'
             PROVE  FreshInv'
  BY DEF FreshInv
<1> USE DEF IL!store, IL!seen
<1>t. /\ run \in [IL!Requests -> LinkRequests] /\ IL!Free.op = "none"
      /\ role \in [Accounts -> {"admin", "user", "none"}]
      /\ linkOf \in [IL!Refs -> IL!LinkIds \cup {0}] /\ links \subseteq IL!LinkIds
      /\ \A r \in IL!Refs : linkOf[r] # 0 => linkOf[r] \in links
      /\ told \in [IL!Requests -> BOOLEAN] /\ parted \subseteq Accounts \X Identities
  BY DEF LinkTypes, IL!Free
<1>a. "links" \notin crossedMatters /\ ApartInv /\ GoneInv /\ \A q \in IL!Requests : FreshOf(q)
  BY NextCross DEF FreshInv
<1>p. ASSUME ApartInv', GoneInv', \A q \in IL!Requests : FreshOf(q)' PROVE FreshInv'
  BY <1>p DEF FreshInv, IL!Requests
<1>m. \A l : IL!Members(l) = {r \in IL!Refs : linkOf[r] = l} /\ IL!Members(l)' = {r \in IL!Refs : linkOf'[r] = l}
  BY DEF IL!Members, IL!Refs
<1>j. Joins' = Joins /\ Inserts' = Inserts /\ IL!Free' = IL!Free
  BY DEF Joins, Inserts, IL!Codes, IL!LinkIds, IL!Refs, IL!Free
\* A request at rest, and one that is not about links.
<1>r. ASSUME NEW q \in IL!Requests, run'[q] = IL!Free PROVE FreshOf(q)'
  BY <1>r, <1>t, <1>j DEF FreshOf, Fresh
<1>o. ASSUME NEW q \in IL!Requests, "links" \notin IL!About(run[q].op), run'[q] = run[q], told'[q] = told[q]
      PROVE  FreshOf(q)'
  <2>1. run[q].op \notin {"redeem", "unlink", "delete"}
    BY <1>o, <1>t, Matters
  <2>2. FreshOf(q)
    BY <1>a
  <2> QED  BY <1>o, <1>j, <2>1, <2>2 DEF FreshOf, Fresh
\* The links and the accounts stay.
<1>n. ASSUME UNCHANGED <<linkOf, links, operated, parted>>, \A a \in Accounts : IL!Exists(a)' <=> IL!Exists(a)
      PROVE  /\ ApartInv' /\ GoneInv'
             /\ \A q \in IL!Requests : run'[q] = run[q] /\ told'[q] = told[q] => FreshOf(q)'
  <2>1. ApartInv' /\ GoneInv'
    BY <1>n, <1>a DEF ApartInv, GoneInv
  <2>2. ASSUME NEW q \in IL!Requests, run'[q] = run[q], told'[q] = told[q] PROVE FreshOf(q)'
    <3>1. FreshOf(q) /\ run[q] \in LinkRequests
      BY <1>a, <1>t
    <3>2. run[q].op = "redeem" /\ run[q].at \in {"join", "insert"} => run[q].account \in Accounts
      BY <3>1, RequestKinds DEF Joins, Inserts
    <3> QED  BY <1>n, <1>j, <1>m, <2>2, <3>1, <3>2 DEF FreshOf, Fresh
  <2> QED  BY <2>1, <2>2
<1>x. role' = role => \A a \in Accounts : IL!Exists(a)' <=> IL!Exists(a)
  BY DEF IL!Exists
<1>b. ASSUME NEW q \in IL!Requests, NEW r, IL!Begin(q, r), Fresh(r), r \in LinkRequests,
             UNCHANGED <<role, linkOf, links, operated, parted>>
      PROVE  FreshInv'
  <2>1. /\ run'[q] = r /\ told'[q] = FALSE
        /\ \A o \in IL!Requests \ {q} : run'[o] = run[o] /\ told'[o] = told[o]
    BY <1>b, <1>t DEF IL!Begin
  <2>2. r.op = "redeem" /\ r.at \in {"join", "insert"} => r.account \in Accounts
    BY <1>b, RequestKinds DEF Joins, Inserts
  <2>3. Fresh(run[q])'
    BY <1>b, <1>m, <1>x, <2>1, <2>2 DEF Fresh
  <2>4. FreshOf(q)'
    BY <2>1, <2>3 DEF FreshOf
  <2> QED  BY <1>b, <1>n, <1>p, <1>x, <2>1, <2>4
\* The one request about links writes.
<1>w. ASSUME NEW q \in IL!Requests, "links" \in IL!About(run[q].op), ApartInv', GoneInv', FreshOf(q)',
             \A o \in IL!Requests \ {q} : run'[o] = run[o] /\ told'[o] = told[o]
      PROVE  FreshInv'
  <2>1. \A o \in IL!Requests \ {q} : "links" \notin IL!About(run[o].op)
    BY <1>w, <1>a DEF CrossInv
  <2> QED  BY <1>w, <1>o, <1>p, <2>1
<1>e. ASSUME NEW q \in IL!Requests, IL!End(q), told' = told
      PROVE  run'[q] = IL!Free /\ \A o \in IL!Requests \ {q} : run'[o] = run[o] /\ told'[o] = told[o]
  BY <1>e, <1>t DEF IL!End
\* A request ends, and no link changes.
<1>s. ASSUME NEW q \in IL!Requests, IL!End(q), told' = told, UNCHANGED <<linkOf, links, operated, parted>>,
             \A a \in Accounts : IL!Exists(a)' <=> IL!Exists(a)
      PROVE  FreshInv'
  BY <1>s, <1>e, <1>n, <1>p, <1>r
\* Nothing is linked that was not.
<1>l. ASSUME \A r \in IL!Refs : linkOf'[r] \in {0, linkOf[r]}, role' = role, operated \subseteq operated'
      PROVE  /\ GoneInv'
             /\ parted' = parted => ApartInv'
  <2>1. GoneInv'
    <3>1. \A a \in Accounts : a \in IL!Refs
      BY LinkBounds
    <3> QED  BY <1>l, <1>a, <1>x, <3>1 DEF GoneInv
  <2>2. ASSUME parted' = parted PROVE ApartInv'
    <3>1. \A p \in parted : p[1] \in IL!Refs /\ p[2] \in IL!Refs
      BY <1>t, LinkBounds
    <3> QED  BY <1>l, <1>a, <2>2, <3>1 DEF ApartInv
  <2> QED  BY <2>1, <2>2
\* A link is written with accounts that exist or had it, or by an operator.
<1>g. ASSUME NEW l \in IL!LinkIds, NEW s \in SUBSET IL!Refs, IL!Put(l, s), role' = role,
             operated \subseteq operated',
             l \in operated' \/ \A a \in s \cap Accounts : IL!Exists(a) \/ linkOf[a] = l
      PROVE  GoneInv'
  <2>1. linkOf' = [r \in IL!Refs |-> IF r \in s THEN l ELSE IF linkOf[r] = l THEN 0 ELSE linkOf[r]]
    BY <1>g DEF IL!Put
  <2>2. ASSUME NEW a \in Accounts, ~IL!Exists(a) PROVE linkOf'[a] = 0 \/ linkOf'[a] \in operated'
    <3>1. a \in IL!Refs /\ (linkOf[a] = 0 \/ linkOf[a] \in operated)
      BY <1>a, <2>2, LinkBounds DEF GoneInv
    <3> QED  BY <1>g, <2>1, <2>2, <3>1, LinkBounds
  <2> QED  BY <1>g, <1>x, <2>2 DEF GoneInv
<1>1. ASSUME NEW q \in IL!Requests, NEW a \in Accounts, IL!Mint(q, a) PROVE FreshInv'
  <2> DEFINE r == [op |-> "mint", at |-> "insert", id |-> requests + 1, account |-> a]
  <2>1. requests < MaxLinkRequests /\ IL!Begin(q, r) /\ UNCHANGED <<role, linkOf, links, operated, parted>>
    BY <1>1 DEF IL!Mint, IL!Begin
  <2>2. requests + 1 \in IL!Codes
    BY <2>1, LinkBounds DEF LinkTypes
  <2>3. Fresh(r) /\ r \in LinkRequests
    BY <2>2 DEF Fresh, LinkRequests, Mints
  <2> HIDE DEF r
  <2> QED  BY <1>b, <2>1, <2>3
<1>2. ASSUME NEW q \in IL!Requests, NEW i \in Identities, NEW c \in IL!Codes, IL!Redeem(q, i, c)
      PROVE  FreshInv'
  <2>1. /\ UNCHANGED <<role, linkOf, links, operated, parted>>
        /\ \E r \in LinkRequests : IL!Begin(q, r) /\ RedeemReads(r, c, i)
    BY <1>2, RedeemBegins
  <2>2. PICK r \in LinkRequests : IL!Begin(q, r) /\ RedeemReads(r, c, i)
    BY <2>1
  <2>3. Fresh(r)
    <3>1. CASE r \in Burns
      BY <3>1 DEF Fresh, Burns
    <3>2. CASE r \in Joins /\ r.at = "join"
      <4>1. r.op = "redeem" /\ r \notin Burns \cup Inserts
        BY <3>2 DEF Joins, Burns, Inserts
      <4> QED  BY <2>2, <3>2, <4>1 DEF Fresh, RedeemReads
    <3>3. CASE r \in Inserts /\ r.at = "insert"
      <4>1. r.op = "redeem" /\ r \notin Burns \cup Joins
        BY <3>3 DEF Joins, Burns, Inserts
      <4> QED  BY <2>2, <3>3, <4>1 DEF Fresh, RedeemReads
    <3> QED  BY <2>2, <3>1, <3>2, <3>3 DEF RedeemReads
  <2> QED  BY <1>b, <2>1, <2>2, <2>3
<1>3. ASSUME NEW q \in IL!Requests, NEW a \in Accounts, NEW i \in Identities, IL!Unlink(q, a, i)
      PROVE  FreshInv'
  <2> DEFINE s == IL!Members(linkOf[i]) \ {i}
             r == [op |-> "unlink", at |-> "write", account |-> a, ref |-> i,
                   link |-> linkOf[i], members |-> s]
  <2>1. linkOf[i] \in links /\ linkOf[i] \in IL!LinkIds /\ s \in SUBSET IL!Refs /\ linkOf[a] = linkOf[i]
    BY <1>3, <1>t, LinkBounds DEF IL!Unlink, IL!Members
  <2>2. IL!Begin(q, r) /\ UNCHANGED <<role, linkOf, links, operated, parted>>
    BY <1>3 DEF IL!Unlink
  <2>3. r.op = "unlink" /\ r.link = linkOf[i] /\ r.members = IL!Members(r.link) \ {r.ref} /\ r.account = a
    OBVIOUS
  <2> HIDE DEF s
  <2>4. r \in LinkRequests
    BY <2>1 DEF LinkRequests, Unlinks
  <2> HIDE DEF r
  <2>5. Fresh(r)
    BY <2>1, <2>3 DEF Fresh
  <2> QED  BY <1>b, <2>2, <2>4, <2>5
<1>4. ASSUME NEW q \in IL!Requests, NEW s \in SUBSET IL!Refs, IL!Create(q, s) PROVE FreshInv'
  <2> DEFINE r == [op |-> "create", at |-> "write", id |-> requests + 1, members |-> s]
  <2>1. requests < MaxLinkRequests /\ IL!Begin(q, r) /\ UNCHANGED <<role, linkOf, links, operated, parted>>
    BY <1>4 DEF IL!Create, IL!Begin
  <2>2. requests + 1 \in IL!Codes
    BY <2>1, LinkBounds DEF LinkTypes
  <2>3. Fresh(r) /\ r \in LinkRequests
    BY <2>2 DEF Fresh, LinkRequests, Creates
  <2> HIDE DEF r
  <2> QED  BY <1>b, <2>1, <2>3
<1>5. ASSUME NEW q \in IL!Requests, NEW s \in SUBSET IL!Refs, NEW l \in IL!LinkIds, IL!Edit(q, l, s)
      PROVE  FreshInv'
  <2> DEFINE r == [op |-> "edit", at |-> "write", link |-> l, members |-> s]
  <2>1. IL!Begin(q, r) /\ UNCHANGED <<role, linkOf, links, operated, parted>>
    BY <1>5 DEF IL!Edit
  <2>2. Fresh(r) /\ r \in LinkRequests
    BY DEF Fresh, LinkRequests, Edits
  <2> HIDE DEF r
  <2> QED  BY <1>b, <2>1, <2>2
<1>6. ASSUME NEW q \in IL!Requests, NEW by \in Accounts, NEW a \in Accounts,
             NEW newRole \in {"admin", "user"}, NEW on \in BOOLEAN,
             IL!Patch(q, by, a, newRole, on)
      PROVE  FreshInv'
  <2> DEFINE r == [op |-> "patch", at |-> "write", account |-> a,
                   role |-> newRole, active |-> on, changes |-> newRole # role[a]]
  <2>1. IL!Begin(q, r) /\ UNCHANGED <<role, linkOf, links, operated, parted>>
    BY <1>6 DEF IL!Patch
  <2>2. Fresh(r) /\ r \in LinkRequests
    BY DEF Fresh, LinkRequests, AccountChanges
  <2> HIDE DEF r
  <2> QED  BY <1>b, <2>1, <2>2
<1>7. ASSUME NEW q \in IL!Requests, NEW by \in Accounts, NEW a \in Accounts, IL!DeleteHard(q, by, a)
      PROVE  FreshInv'
  <2> DEFINE s == IF linkOf[a] = 0 THEN {} ELSE IL!Members(linkOf[a]) \ {a}
             r == [op |-> "delete", at |-> "link", account |-> a, link |-> linkOf[a], members |-> s]
  <2>1. linkOf[a] \in IL!LinkIds \cup {0} /\ s \in SUBSET IL!Refs
    BY <1>t, LinkBounds DEF IL!Members
  <2>2. IL!Begin(q, r) /\ UNCHANGED <<role, linkOf, links, operated, parted>>
    BY <1>7 DEF IL!DeleteHard
  <2>3. /\ r.op = "delete" /\ r.at = "link" /\ r.link = linkOf[r.account]
        /\ r.link # 0 => r.members = IL!Members(r.link) \ {r.account}
    OBVIOUS
  <2> HIDE DEF s
  <2>4. r \in LinkRequests
    BY <2>1 DEF LinkRequests, Deletes
  <2> HIDE DEF r
  <2>5. Fresh(r)
    BY <2>3 DEF Fresh
  <2> QED  BY <1>b, <2>2, <2>4, <2>5
<1>8. ASSUME NEW q \in IL!Requests, IL!MintInsert(q) \/ IL!RedeemBurn(q) PROVE FreshInv'
  BY <1>8, <1>s, <1>x DEF IL!MintInsert, IL!RedeemBurn
<1>9. ASSUME NEW c \in IL!Codes, IL!Expire(c) PROVE FreshInv'
  BY <1>9, <1>n, <1>p, <1>x DEF IL!Expire
\* The sender is linked to the account.
<1>c. ASSUME NEW q \in IL!Requests, NEW s \in SUBSET IL!Refs, NEW l \in IL!LinkIds,
             run[q] \in Joins \cup Inserts, run[q].ref \in s, run[q].account \in s,
             IL!Put(l, s), IL!Linked(q, s), role' = role, operated' = operated,
             \A a \in s \cap Accounts : IL!Exists(a) \/ linkOf[a] = l
      PROVE  FreshInv'
  <2> DEFINE r == [run[q] EXCEPT !.at = "burn"]
  <2>1. /\ run'[q] = r /\ told'[q] = TRUE
        /\ \A o \in IL!Requests \ {q} : run'[o] = run[o] /\ told'[o] = told[o]
    BY <1>c, <1>t DEF IL!Linked, IL!Then
  <2>2. /\ r \in Joins \cup Inserts /\ r.op = "redeem" /\ r.at = "burn" /\ r.ref = run[q].ref
        /\ r.account = run[q].account
    BY <1>c, GoesOn
  <2> HIDE DEF r
  <2>3. linkOf'[r.ref] = l /\ linkOf'[r.account] = l /\ l # 0
    BY <1>c, <2>2, LinkBounds DEF IL!Put
  <2>4. FreshOf(q)'
    BY <1>j, <2>1, <2>2, <2>3 DEF FreshOf, Fresh
  <2>5. ApartInv' /\ GoneInv'
    BY <1>c, <1>a, <1>g, PutParts DEF IL!Linked
  <2>6. "links" \in IL!About(run[q].op)
    BY <1>c, <1>t, Matters DEF Joins, Inserts
  <2> QED  BY <1>w, <2>1, <2>4, <2>5, <2>6
<1>10. ASSUME NEW q \in IL!Requests, IL!RedeemJoin(q) PROVE FreshInv'
  <2>1. run[q] \in Joins /\ run[q].op = "redeem" /\ run[q].at = "join" /\ Fresh(run[q])
    BY <1>10, <1>t, <1>a, RequestKinds DEF IL!RedeemJoin, IL!At, FreshOf
  <2>2. /\ run[q].link \in IL!LinkIds /\ run[q].members \in SUBSET IL!Refs
        /\ run[q].ref \in Identities /\ run[q].account \in Accounts
    BY <2>1 DEF Joins
  <2>3. /\ run[q].link \in links /\ IL!Exists(run[q].account)
        /\ run[q].members = IL!Members(run[q].link) \cup {run[q].ref, run[q].account}
    BY <2>1 DEF Fresh
  <2>4. \A a \in run[q].members \cap Accounts : IL!Exists(a) \/ linkOf[a] = run[q].link
    BY <1>m, <2>2, <2>3, LinkBounds
  <2>5. role' = role /\ operated' = operated
    BY <1>10 DEF IL!RedeemJoin
  <2>6. CASE IL!Put(run[q].link, run[q].members) /\ IL!Linked(q, run[q].members)
    BY <1>c, <2>1, <2>2, <2>3, <2>4, <2>5, <2>6
  <2>7. CASE IL!End(q) /\ UNCHANGED <<links, linkOf, parted, told>>
    BY <1>s, <1>x, <2>5, <2>7
  <2> QED  BY <1>10, <2>3, <2>6, <2>7 DEF IL!RedeemJoin
<1>11. ASSUME NEW q \in IL!Requests, IL!RedeemInsert(q) PROVE FreshInv'
  <2> DEFINE s == {run[q].ref, run[q].account}
  <2>1. run[q] \in Inserts /\ run[q].op = "redeem" /\ run[q].at = "insert" /\ Fresh(run[q])
    BY <1>11, <1>t, <1>a, RequestKinds DEF IL!RedeemInsert, IL!At, FreshOf
  <2>2. /\ run[q].id \in IL!LinkIds /\ s \in SUBSET IL!Refs
        /\ run[q].ref \in Identities /\ run[q].account \in Accounts
    BY <2>1, LinkBounds DEF Inserts
  <2>3. \A a \in s \cap Accounts : IL!Exists(a)
    BY <2>1, <2>2, LinkBounds DEF Fresh
  <2>4. run[q].ref \in s /\ run[q].account \in s
    OBVIOUS
  <2>5. role' = role /\ operated' = operated
    BY <1>11 DEF IL!RedeemInsert
  <2>6. \/ IL!Put(run[q].id, s) /\ IL!Linked(q, s)
        \/ IL!End(q) /\ UNCHANGED <<links, linkOf, parted, told>>
    BY <1>11 DEF IL!RedeemInsert
  <2> HIDE DEF s
  <2>7. CASE IL!Put(run[q].id, s) /\ IL!Linked(q, s)
    BY <1>c, <2>1, <2>2, <2>3, <2>4, <2>5, <2>7
  <2>8. CASE IL!End(q) /\ UNCHANGED <<links, linkOf, parted, told>>
    BY <1>s, <1>x, <2>5, <2>8
  <2> QED  BY <2>6, <2>7, <2>8
<1>13. ASSUME NEW q \in IL!Requests, IL!UnlinkWrite(q) PROVE FreshInv'
  <2>1. run[q] \in Unlinks /\ run[q].op = "unlink" /\ Fresh(run[q])
    BY <1>13, <1>t, <1>a, RequestKinds DEF IL!UnlinkWrite, IL!At, FreshOf
  <2>2. /\ run[q].link \in IL!LinkIds /\ run[q].members \in SUBSET IL!Refs
        /\ run[q].account \in Accounts /\ run[q].ref \in Identities
    BY <2>1 DEF Unlinks
  <2>3. /\ run[q].link \in links /\ run[q].members = IL!Members(run[q].link) \ {run[q].ref}
        /\ linkOf[run[q].account] = run[q].link
    BY <2>1 DEF Fresh
  <2>4. /\ role' = role /\ operated' = operated /\ told' = told /\ IL!End(q)
        /\ \/ IL!Leave(run[q].link, run[q].members)
              /\ parted' = parted \cup {<<run[q].account, run[q].ref>>}
           \/ UNCHANGED <<links, linkOf, parted>>
    BY <1>13 DEF IL!UnlinkWrite
  <2>5. CASE IL!Leave(run[q].link, run[q].members) /\ parted' = parted \cup {<<run[q].account, run[q].ref>>}
    <3>1. /\ \A r \in IL!Refs : linkOf'[r] \in {0, linkOf[r]}
          /\ \A r \in IL!Members(run[q].link) \ run[q].members : linkOf'[r] = 0
      BY <2>2, <2>3, <2>5, LeaveMembers
    <3>2. run[q].ref \in IL!Refs /\ run[q].account \in IL!Refs
      BY <2>2, LinkBounds
    <3>3. linkOf'[run[q].ref] = 0 \/ linkOf'[run[q].ref] # linkOf[run[q].account]
      BY <1>m, <2>3, <3>1, <3>2
    <3>4. linkOf'[run[q].account] = 0 \/ linkOf'[run[q].ref] # linkOf'[run[q].account]
      BY <3>1, <3>2, <3>3
    <3>5. \A p \in parted : linkOf'[p[1]] = 0 \/ linkOf'[p[2]] # linkOf'[p[1]]
      <4>1. \A p \in parted : p[1] \in IL!Refs /\ p[2] \in IL!Refs
        BY <1>t, LinkBounds
      <4> QED  BY <1>a, <3>1, <4>1 DEF ApartInv
    <3>6. ApartInv'
      BY <2>5, <3>4, <3>5 DEF ApartInv
    <3>7. GoneInv'
      BY <1>l, <2>4, <3>1
    <3>8. "links" \in IL!About(run[q].op)
      BY <1>t, <2>1, Matters
    <3> QED  BY <1>e, <1>r, <1>w, <2>4, <3>6, <3>7, <3>8
  <2>6. CASE UNCHANGED <<links, linkOf, parted>>
    BY <1>s, <1>x, <2>4, <2>6
  <2> QED  BY <2>4, <2>5, <2>6
<1>14. ASSUME NEW q \in IL!Requests, IL!OperatorWrite(q) PROVE FreshInv'
  <2> DEFINE l == IF run[q].op = "create" THEN run[q].id ELSE run[q].link
  <2>1. run[q] \in Creates \cup Edits
    BY <1>14, <1>t, RequestKinds DEF IL!OperatorWrite
  <2>2. l \in IL!LinkIds /\ run[q].members \in SUBSET IL!Refs
    BY <2>1, LinkBounds DEF Creates, Edits
  <2>3. /\ \/ /\ IL!Put(l, run[q].members)
              /\ operated' = operated \cup {l} /\ parted' = IL!Parts(run[q].members)
           \/ UNCHANGED <<links, linkOf, operated, parted>>
        /\ IL!End(q) /\ role' = role /\ told' = told
    BY <1>14 DEF IL!OperatorWrite
  <2> HIDE DEF l
  <2>4. CASE /\ IL!Put(l, run[q].members)
             /\ operated' = operated \cup {l} /\ parted' = IL!Parts(run[q].members)
    <3>1. ApartInv' /\ GoneInv'
      BY <1>a, <1>g, <2>2, <2>3, <2>4, PutParts
    <3>2. "links" \in IL!About(run[q].op)
      BY <1>t, <2>1, Matters DEF Creates, Edits
    <3> QED  BY <1>e, <1>r, <1>w, <2>3, <3>1, <3>2
  <2>5. CASE UNCHANGED <<links, linkOf, operated, parted>>
    BY <1>s, <1>x, <2>3, <2>5
  <2> QED  BY <2>3, <2>4, <2>5
<1>15. ASSUME NEW l \in IL!LinkIds, IL!RemoveLink(l) PROVE FreshInv'
  <2>1. /\ linkOf' = [r \in IL!Refs |-> IF linkOf[r] = l THEN 0 ELSE linkOf[r]]
        /\ UNCHANGED <<role, run, operated, parted, told>>
        /\ \A o \in IL!Requests : "links" \notin IL!About(run[o].op)
    BY <1>15 DEF IL!RemoveLink, IL!Drop
  <2>2. \A r \in IL!Refs : linkOf'[r] \in {0, linkOf[r]}
    BY <2>1
  <2> QED  BY <1>l, <1>o, <1>p, <2>1, <2>2
<1>16. ASSUME NEW q \in IL!Requests, IL!PatchWrite(q) PROVE FreshInv'
  <2>1. run[q] \in AccountChanges
    BY <1>16, <1>t, RequestKinds DEF IL!PatchWrite, IL!At
  <2>2. \A a \in Accounts : IL!Exists(a)' <=> IL!Exists(a)
    BY <1>16, <1>t, <2>1 DEF IL!PatchWrite, IL!Exists, AccountChanges
  <2> QED  BY <1>16, <1>s, <2>2 DEF IL!PatchWrite
<1>17. ASSUME NEW q \in IL!Requests, IL!DeleteLink(q) PROVE FreshInv'
  <2> DEFINE r == [run[q] EXCEPT !.at = "row"]
             a == run[q].account
  <2>1. run[q] \in Deletes /\ run[q].op = "delete" /\ run[q].at = "link" /\ Fresh(run[q])
    BY <1>17, <1>t, <1>a, RequestKinds DEF IL!DeleteLink, IL!At, FreshOf
  <2>2. /\ run[q].link \in IL!LinkIds \cup {0} /\ run[q].members \in SUBSET IL!Refs
        /\ a \in Accounts /\ a \in IL!Refs
    BY <2>1, LinkBounds DEF Deletes
  <2>3. /\ run[q].link = linkOf[a]
        /\ run[q].link # 0 => run[q].members = IL!Members(run[q].link) \ {a}
    BY <2>1 DEF Fresh
  <2>4. role' = role /\ UNCHANGED <<operated, parted, told>>
    BY <1>17 DEF IL!DeleteLink
  <2>5. r.op = "delete" /\ r.at = "row" /\ r.account = a
    BY <2>1, GoesOn
  <2>6. IL!Then(q, "row") => run'[q] = r /\ \A o \in IL!Requests \ {q} : run'[o] = run[o]
    BY <1>t DEF IL!Then
  <2>7. "links" \in IL!About(run[q].op)
    BY <1>t, <2>1, Matters
  <2>8. ASSUME IL!Then(q, "row"), linkOf'[a] = 0, \A x \in IL!Refs : linkOf'[x] \in {0, linkOf[x]}
        PROVE  FreshInv'
    <3> HIDE DEF r, a
    <3>1. ~told[q]
      <4>1. run[q] # IL!Free
        BY <1>t, <2>1
      <4> QED  BY <1>a, <2>1, <4>1 DEF FreshOf
    <3>2. FreshOf(q)'
      BY <2>4, <2>5, <2>6, <2>8, <3>1 DEF FreshOf, Fresh
    <3>3. ApartInv' /\ GoneInv'
      BY <1>l, <2>4, <2>8
    <3> QED  BY <1>w, <2>4, <2>6, <2>7, <2>8, <3>2, <3>3
  <2>9. CASE run[q].link = 0 /\ UNCHANGED <<links, linkOf>> /\ IL!Then(q, "row")
    BY <2>2, <2>3, <2>8, <2>9
  <2>10. CASE run[q].link # 0 /\ IL!Leave(run[q].link, run[q].members) /\ IL!Then(q, "row")
    <3>1. run[q].link \in links /\ a \in IL!Members(run[q].link) \ run[q].members
          /\ run[q].members \subseteq IL!Members(run[q].link)
      BY <1>t, <1>m, <2>2, <2>3, <2>10
    <3>2. linkOf'[a] = 0 /\ \A x \in IL!Refs : linkOf'[x] \in {0, linkOf[x]}
      BY <2>2, <2>10, <3>1, LeaveMembers
    <3> QED  BY <2>8, <2>10, <3>2
  <2>11. CASE UNCHANGED <<links, linkOf>> /\ IL!End(q)
    BY <1>s, <1>x, <2>4, <2>11
  <2> QED  BY <1>17, <2>9, <2>10, <2>11 DEF IL!DeleteLink
<1>18. ASSUME NEW q \in IL!Requests, IL!DeleteRow(q) PROVE FreshInv'
  <2>1. run[q] \in Deletes /\ run[q].op = "delete" /\ run[q].at = "row" /\ Fresh(run[q])
    BY <1>18, <1>t, <1>a, RequestKinds DEF IL!DeleteRow, IL!At, FreshOf
  <2>2. run[q].account \in Accounts /\ linkOf[run[q].account] = 0
    BY <2>1 DEF Deletes, Fresh
  <2>3. /\ role' = [role EXCEPT ![run[q].account] = "none"]
        /\ UNCHANGED <<linkOf, links, operated, parted, told>> /\ IL!End(q)
    BY <1>18 DEF IL!DeleteRow
  <2>4. ApartInv'
    BY <1>a, <2>3 DEF ApartInv
  <2>5. GoneInv'
    BY <1>t, <1>a, <2>2, <2>3 DEF GoneInv, IL!Exists
  <2>6. "links" \in IL!About(run[q].op)
    BY <1>t, <2>1, Matters
  <2> QED  BY <1>e, <1>r, <1>w, <2>3, <2>4, <2>5, <2>6
<1>19. CASE UNCHANGED IL!linkVars
  BY <1>19, <1>n, <1>p, <1>x DEF IL!linkVars
<1> QED
  BY <1>1, <1>2, <1>3, <1>4, <1>5, <1>6, <1>7, <1>8, <1>9, <1>10, <1>11, <1>13, <1>14, <1>15, <1>16, <1>17,
     <1>18, <1>19
  DEF IL!Next

\* A step keeps what the requests about the codes have read.
LEMMA NextCodes == CodesInv /\ CrossInv /\ LinkTypes /\ [IL!Next]_(IL!linkVars) => CodesInv'
<1> SUFFICES ASSUME CodesInv, CrossInv, LinkTypes, [IL!Next]_(IL!linkVars), "codes" \notin crossedMatters'
             PROVE  CodesInv'
  BY DEF CodesInv
<1> USE DEF IL!store, IL!seen
<1>t. /\ run \in [IL!Requests -> LinkRequests] /\ IL!Free.op = "none"
      /\ codes \in [IL!Codes -> [account : Accounts \cup {"none"}, used : BOOLEAN]]
      /\ joined \in [IL!Codes -> SUBSET Identities]
      /\ requests \in 0 .. MaxLinkRequests /\ MaxLinkRequests \in Nat /\ IL!Codes = 1 .. MaxLinkRequests
  BY LinkBounds DEF LinkTypes, IL!Free
<1>a. /\ "codes" \notin crossedMatters
      /\ \A c \in IL!Codes : c > requests => codes[c] = IL!NoCode /\ joined[c] = {}
      /\ \A q \in IL!Requests : Unlinked(run[q])
      /\ \A c \in IL!Codes :
           /\ IL!Live(c) => \/ joined[c] = {}
                            \/ \E q \in IL!Requests : IL!At(q, "redeem", "burn") /\ run[q].code = c
           /\ \A x, y \in joined[c] : x = y
           /\ \A d \in IL!Codes :
                IL!Live(c) /\ IL!Live(d) /\ codes[c].account = codes[d].account => c = d
  BY NextCross DEF CodesInv
<1>v. \A c \in IL!Codes : (IL!Live(c) <=> codes[c] # IL!NoCode /\ ~codes[c].used)
                       /\ (IL!Live(c)' <=> codes'[c] # IL!NoCode /\ ~codes'[c].used)
  BY DEF IL!Live, IL!NoCode
<1>n. IL!NoCode' = IL!NoCode /\ IL!Free' = IL!Free /\ IL!Codes' = IL!Codes /\ IL!Requests' = IL!Requests
  BY DEF IL!NoCode, IL!Free, IL!Codes, IL!Requests
\* Some codes are gone or used, and the requests are the same or at rest.
<1>s. ASSUME requests' \in Nat, requests' >= requests, joined' = joined,
             \A c \in IL!Codes : codes'[c] = codes[c] \/ codes'[c] = IL!NoCode \/ (codes'[c].used /\ codes[c] # IL!NoCode),
             NEW q \in IL!Requests, \A o \in IL!Requests \ {q} : run'[o] = run[o],
             Unlinked(run[q])',
             IL!At(q, "redeem", "burn") =>
               \/ run'[q] = run[q]
               \/ codes'[run[q].code] = IL!NoCode \/ codes'[run[q].code].used
      PROVE  CodesInv'
  <2>1. \A c \in IL!Codes : (IL!Live(c)' => IL!Live(c) /\ codes'[c] = codes[c])
                         /\ (codes[c] = IL!NoCode => codes'[c] = IL!NoCode)
    BY <1>s, <1>v
  <2>2. ASSUME NEW o \in IL!Requests \ {q} PROVE Unlinked(run[o])'
    <3>1. Unlinked(run[o]) /\ run[o] \in LinkRequests
      BY <1>a, <1>t
    <3>2. /\ run[o].op = "mint" => run[o].id \in IL!Codes
          /\ run[o].op = "redeem" => run[o].code \in IL!Codes
      BY <3>1, RequestKinds DEF Mints, Joins, Inserts, Burns
    <3> QED  BY <1>s, <1>t, <1>n, <2>1, <2>2, <3>1, <3>2 DEF Unlinked
  <2>3. \A o \in IL!Requests : Unlinked(run[o])'
    BY <1>s, <2>2
  <2>4. ASSUME NEW c \in IL!Codes, IL!Live(c)', joined[c] # {}
        PROVE  \E o \in IL!Requests : IL!At(o, "redeem", "burn")' /\ run'[o].code = c
    <3>1. PICK o \in IL!Requests : IL!At(o, "redeem", "burn") /\ run[o].code = c
      BY <1>a, <2>1, <2>4
    <3>2. run'[o] = run[o]
      BY <1>s, <1>v, <2>4, <3>1
    <3> QED  BY <3>1, <3>2 DEF IL!At
  <2>5. \A c \in IL!Codes : c > requests' => codes'[c] = IL!NoCode /\ joined'[c] = {}
    BY <1>s, <1>a, <1>t, <2>1
  <2> QED  BY <1>s, <1>a, <1>n, <2>1, <2>3, <2>4, <2>5 DEF CodesInv
\* A request that is not about codes.
<1>o. ASSUME NEW q \in IL!Requests, run'[q].op \notin {"mint", "redeem"} PROVE Unlinked(run[q])'
  BY <1>o DEF Unlinked
<1>x. ASSUME NEW q \in IL!Requests, run[q].op \in {"mint", "redeem"}
      PROVE  \A o \in IL!Requests \ {q} : run[o].op \notin {"mint", "redeem"}
  BY <1>x, <1>a, <1>t, Matters DEF CrossInv
<1>b. ASSUME NEW q \in IL!Requests, NEW r, IL!Begin(q, r), r.op \notin {"mint", "redeem"},
             UNCHANGED <<codes, joined>>
      PROVE  CodesInv'
  <2>1. /\ run'[q] = r /\ \A o \in IL!Requests \ {q} : run'[o] = run[o]
        /\ requests' = requests + 1 /\ run[q] = IL!Free
    BY <1>b, <1>t DEF IL!Begin
  <2>2. ~IL!At(q, "redeem", "burn")
    BY <1>t, <2>1 DEF IL!At
  <2> QED  BY <1>b, <1>s, <1>o, <1>t, <2>1, <2>2
<1>e. ASSUME NEW q \in IL!Requests, IL!End(q), requests' = requests, joined' = joined,
             \A c \in IL!Codes : codes'[c] = codes[c] \/ codes'[c] = IL!NoCode \/ (codes'[c].used /\ codes[c] # IL!NoCode),
             IL!At(q, "redeem", "burn") => codes'[run[q].code] = IL!NoCode \/ codes'[run[q].code].used
      PROVE  CodesInv'
  <2>1. run'[q] = IL!Free /\ \A o \in IL!Requests \ {q} : run'[o] = run[o]
    BY <1>e, <1>t DEF IL!End
  <2> QED  BY <1>e, <1>s, <1>o, <1>t, <2>1
<1>1. ASSUME NEW q \in IL!Requests, NEW a \in Accounts, IL!Mint(q, a) PROVE CodesInv'
  <2> DEFINE r == [op |-> "mint", at |-> "insert", id |-> requests + 1, account |-> a]
  <2>1. /\ IL!Begin(q, r) /\ requests < MaxLinkRequests /\ joined' = joined
        /\ codes' = [c \in IL!Codes |-> IF codes[c].account = a /\ ~codes[c].used
                                        THEN IL!NoCode ELSE codes[c]]
    BY <1>1 DEF IL!Mint, IL!Begin, IL!Retire
  <2>2. requests + 1 \in IL!Codes /\ requests + 1 > requests
    BY <1>t, <2>1
  <2>3. r.op = "mint" /\ r.id = requests + 1 /\ r.account = a
    OBVIOUS
  <2> HIDE DEF r
  <2>4. /\ run'[q] = r /\ \A o \in IL!Requests \ {q} : run'[o] = run[o]
        /\ requests' = requests + 1 /\ run[q] = IL!Free
    BY <1>t, <2>1 DEF IL!Begin
  <2>5. codes'[requests + 1] = IL!NoCode /\ joined[requests + 1] = {}
    BY <1>a, <2>1, <2>2
  <2>6. \A c \in IL!Codes : IL!Live(c)' => codes'[c].account # a
    BY <1>v, <2>1
  <2>7. Unlinked(run[q])'
    BY <1>n, <1>t, <2>1, <2>3, <2>4, <2>5, <2>6 DEF Unlinked
  <2>8. ~IL!At(q, "redeem", "burn")
    BY <1>t, <2>4 DEF IL!At
  <2>9. \A c \in IL!Codes : codes'[c] = codes[c] \/ codes'[c] = IL!NoCode
    BY <2>1
  <2> QED  BY <1>s, <1>t, <2>1, <2>4, <2>7, <2>8, <2>9
<1>2. ASSUME NEW q \in IL!Requests, NEW i \in Identities, NEW c \in IL!Codes, IL!Redeem(q, i, c)
      PROVE  CodesInv'
  <2>1. /\ UNCHANGED <<codes, joined>>
        /\ \E r \in LinkRequests : IL!Begin(q, r) /\ RedeemReads(r, c, i)
    BY <1>2, RedeemBegins
  <2>2. PICK r \in LinkRequests : IL!Begin(q, r) /\ RedeemReads(r, c, i)
    BY <2>1
  <2>3. /\ run'[q] = r /\ (\A o \in IL!Requests \ {q} : run'[o] = run[o])
        /\ requests' = requests + 1 /\ run[q] = IL!Free
    BY <1>t, <2>2 DEF IL!Begin
  <2>4. r.op = "redeem" /\ r.code = c /\ IL!Live(c)
    BY <2>2 DEF RedeemReads
  <2>5. \A o \in IL!Requests : run[o].op # "redeem"
    <3>1. "codes" \in IL!About(r.op)
      BY <2>4, Matters
    <3>2. \A o \in IL!Requests \ {q} : "codes" \notin IL!About(run[o].op)
      BY <2>2, <3>1, Begins
    <3> QED  BY <1>t, <2>3, <3>2, Matters
  <2>6. joined[c] = {}
    BY <1>a, <2>4, <2>5 DEF IL!At
  <2>7. c <= requests
    BY <1>a, <1>t, <1>v, <2>4
  <2>8. Unlinked(run[q])'
    BY <1>t, <2>1, <2>3, <2>4, <2>6, <2>7 DEF Unlinked
  <2>9. ~IL!At(q, "redeem", "burn")
    BY <2>5 DEF IL!At
  <2> QED  BY <1>s, <1>t, <2>1, <2>3, <2>8, <2>9
<1>3. ASSUME NEW q \in IL!Requests, NEW a \in Accounts, NEW i \in Identities, IL!Unlink(q, a, i)
      PROVE  CodesInv'
  BY <1>3, <1>b DEF IL!Unlink
<1>4. ASSUME NEW q \in IL!Requests, NEW s \in SUBSET IL!Refs, IL!Create(q, s) PROVE CodesInv'
  BY <1>4, <1>b DEF IL!Create
<1>5. ASSUME NEW q \in IL!Requests, NEW s \in SUBSET IL!Refs, NEW l \in IL!LinkIds, IL!Edit(q, l, s)
      PROVE  CodesInv'
  BY <1>5, <1>b DEF IL!Edit
<1>6. ASSUME NEW q \in IL!Requests, NEW by \in Accounts, NEW a \in Accounts,
             NEW newRole \in {"admin", "user"}, NEW on \in BOOLEAN,
             IL!Patch(q, by, a, newRole, on)
      PROVE  CodesInv'
  BY <1>6, <1>b DEF IL!Patch
<1>7. ASSUME NEW q \in IL!Requests, NEW by \in Accounts, NEW a \in Accounts, IL!DeleteHard(q, by, a)
      PROVE  CodesInv'
  BY <1>7, <1>b DEF IL!DeleteHard
<1>8. ASSUME NEW q \in IL!Requests, IL!MintInsert(q) PROVE CodesInv'
  <2> DEFINE d == run[q].id
             row1 == [account |-> run[q].account, used |-> FALSE]
  <2>1. run[q] \in Mints /\ run[q].op = "mint"
    BY <1>8, <1>t, RequestKinds DEF IL!MintInsert, IL!At
  <2>2. d \in IL!Codes /\ run[q].account \in Accounts
    BY <2>1 DEF Mints
  <2>3. /\ d <= requests /\ codes[d] = IL!NoCode /\ joined[d] = {}
        /\ \A c \in IL!Codes : IL!Live(c) => codes[c].account # run[q].account
    BY <1>a, <2>1 DEF Unlinked
  <2>4. /\ IL!End(q) /\ requests' = requests /\ joined' = joined
        /\ codes' = [codes EXCEPT ![d] = row1] \/ codes' = codes
    BY <1>8 DEF IL!MintInsert
  <2>5. CASE codes' = codes
    BY <1>e, <2>1, <2>4, <2>5 DEF IL!At
  <2>6. CASE codes' = [codes EXCEPT ![d] = row1]
    <3>1. run'[q] = IL!Free /\ (\A o \in IL!Requests \ {q} : run'[o] = run[o])
      BY <1>t, <2>4 DEF IL!End
    <3>2. \A o \in IL!Requests : run'[o].op \notin {"mint", "redeem"}
      BY <1>t, <1>x, <2>1, <3>1
    <3>3. \A o \in IL!Requests : Unlinked(run[o])'
      BY <1>o, <3>2
    <3>4. row1.account = run[q].account
      OBVIOUS
    <3> HIDE DEF row1
    <3>5. codes'[d] = row1 /\ \A c \in IL!Codes \ {d} : codes'[c] = codes[c]
      BY <1>t, <2>2, <2>6
    <3>6. \A c \in IL!Codes : IL!Live(c)' => joined[c] = {}
      <4>1. \A o \in IL!Requests : ~IL!At(o, "redeem", "burn")
        BY <1>x, <2>1 DEF IL!At
      <4> QED  BY <1>a, <1>v, <2>3, <3>5, <4>1
    <3>7. \A c, e \in IL!Codes : IL!Live(c)' /\ IL!Live(e)' /\ codes'[c].account = codes'[e].account => c = e
      <4>1. \A c \in IL!Codes \ {d} :
              IL!Live(c)' => IL!Live(c) /\ codes'[c] = codes[c] /\ codes'[c].account # codes'[d].account
        BY <1>v, <2>3, <3>4, <3>5
      <4> QED  BY <1>a, <4>1
    <3>8. \A c \in IL!Codes : c > requests' => codes'[c] = IL!NoCode /\ joined'[c] = {}
      BY <1>a, <1>t, <2>2, <2>3, <2>4, <3>5
    <3> QED  BY <1>a, <1>n, <2>4, <3>3, <3>6, <3>7, <3>8 DEF CodesInv
  <2> QED  BY <2>4, <2>5, <2>6
\* The code links its sender, and burns next.
<1>c. ASSUME NEW q \in IL!Requests, NEW s, IL!Linked(q, s), run[q] \in Joins \cup Inserts, run[q].at # "burn",
             UNCHANGED <<codes, requests>>
      PROVE  CodesInv'
  <2> DEFINE r == [run[q] EXCEPT !.at = "burn"]
             d == run[q].code
  <2>1. /\ run' = [run EXCEPT ![q] = r]
        /\ joined' = [joined EXCEPT ![d] = @ \cup {run[q].ref}]
    BY <1>c DEF IL!Linked, IL!Then
  <2>2. r.op = "redeem" /\ r.at = "burn" /\ r.code = d
    BY <1>c, GoesOn
  <2>3. run[q].op = "redeem" /\ d \in IL!Codes
    BY <1>c DEF Joins, Inserts
  <2>4. d <= requests /\ joined[d] = {}
    BY <1>a, <1>c, <2>3 DEF Unlinked
  <2> HIDE DEF r, d
  <2>5. run'[q] = r /\ \A o \in IL!Requests \ {q} : run'[o] = run[o]
    BY <1>t, <2>1
  <2>6. \A o \in IL!Requests \ {q} : run[o].op \notin {"mint", "redeem"}
    BY <1>x, <2>3
  <2>7. \A o \in IL!Requests : Unlinked(run[o])'
    <3>1. Unlinked(run[q])'
      BY <1>c, <2>2, <2>4, <2>5 DEF Unlinked
    <3> QED  BY <1>o, <2>5, <2>6, <3>1
  <2>8. joined'[d] = {run[q].ref} /\ \A c \in IL!Codes \ {d} : joined'[c] = joined[c]
    BY <1>t, <2>1, <2>3, <2>4
  <2>9. IL!At(q, "redeem", "burn")' /\ run'[q].code = d
    BY <2>2, <2>5 DEF IL!At
  <2>10. \A c \in IL!Codes \ {d} : IL!Live(c) => joined[c] = {}
    <3>1. \A o \in IL!Requests : ~(IL!At(o, "redeem", "burn"))
      BY <1>c, <2>6 DEF IL!At
    <3> QED  BY <1>a, <3>1
  <2>11. \A c \in IL!Codes : IL!Live(c)' <=> IL!Live(c)
    BY <1>c, <1>v
  <2>12. \A c \in IL!Codes : IL!Live(c)' =>
            \/ joined'[c] = {}
            \/ \E o \in IL!Requests : IL!At(o, "redeem", "burn")' /\ run'[o].code = c
    BY <2>8, <2>9, <2>10, <2>11
  <2>13. \A c \in IL!Codes : c > requests => codes[c] = IL!NoCode /\ joined'[c] = {}
    BY <1>a, <1>t, <2>3, <2>4, <2>8
  <2> QED  BY <1>a, <1>c, <1>n, <2>7, <2>8, <2>11, <2>12, <2>13 DEF CodesInv
<1>10. ASSUME NEW q \in IL!Requests, IL!RedeemJoin(q) PROVE CodesInv'
  <2>1. run[q] \in Joins /\ run[q].at = "join"
    BY <1>10, <1>t, RequestKinds DEF IL!RedeemJoin, IL!At
  <2>2. UNCHANGED <<codes, requests>> /\ ((\E s : IL!Linked(q, s)) \/ (IL!End(q) /\ joined' = joined))
    BY <1>10 DEF IL!RedeemJoin
  <2> QED  BY <1>c, <1>e, <2>1, <2>2 DEF IL!At
<1>11. ASSUME NEW q \in IL!Requests, IL!RedeemInsert(q) PROVE CodesInv'
  <2>1. run[q] \in Inserts /\ run[q].at = "insert"
    BY <1>11, <1>t, RequestKinds DEF IL!RedeemInsert, IL!At
  <2>2. UNCHANGED <<codes, requests>> /\ ((\E s : IL!Linked(q, s)) \/ (IL!End(q) /\ joined' = joined))
    BY <1>11 DEF IL!RedeemInsert
  <2> QED  BY <1>c, <1>e, <2>1, <2>2 DEF IL!At
<1>12. ASSUME NEW q \in IL!Requests, IL!RedeemBurn(q) PROVE CodesInv'
  <2>1. run[q].code \in IL!Codes
    BY <1>12, <1>t, RequestKinds DEF IL!RedeemBurn, IL!At, Joins, Inserts, Burns
  <2>2. /\ IL!End(q) /\ requests' = requests /\ joined' = joined
        /\ codes' = IF codes[run[q].code] = IL!NoCode THEN codes ELSE [codes EXCEPT ![run[q].code].used = TRUE]
    BY <1>12 DEF IL!RedeemBurn, IL!Burned
  <2>3. \A c \in IL!Codes : codes'[c] = codes[c] \/ (codes'[c].used /\ codes[c] # IL!NoCode)
    BY <1>t, <2>1, <2>2
  <2>4. codes'[run[q].code] = IL!NoCode \/ codes'[run[q].code].used
    BY <1>t, <2>1, <2>2
  <2> QED  BY <1>e, <2>2, <2>3, <2>4
<1>13. ASSUME NEW q \in IL!Requests, IL!UnlinkWrite(q) \/ IL!OperatorWrite(q) \/ IL!PatchWrite(q)
      PROVE  CodesInv'
  <2>1. /\ run[q].op \in {"unlink", "create", "edit", "patch"} /\ IL!End(q)
        /\ UNCHANGED <<codes, requests, joined>>
    BY <1>13 DEF IL!UnlinkWrite, IL!OperatorWrite, IL!PatchWrite, IL!At
  <2> QED  BY <1>e, <2>1 DEF IL!At
<1>14. ASSUME NEW q \in IL!Requests, IL!DeleteLink(q) PROVE CodesInv'
  <2>1. run[q] \in Deletes /\ run[q].op = "delete"
    BY <1>14, <1>t, RequestKinds DEF IL!DeleteLink, IL!At
  <2>2. UNCHANGED <<codes, requests, joined>> /\ (IL!Then(q, "row") \/ IL!End(q))
    BY <1>14 DEF IL!DeleteLink
  <2>3. CASE IL!Then(q, "row")
    <3>1. run'[q].op = "delete" /\ \A o \in IL!Requests \ {q} : run'[o] = run[o]
      BY <1>t, <2>1, <2>3, GoesOn DEF IL!Then
    <3> QED  BY <1>o, <1>s, <1>t, <2>1, <2>2, <3>1 DEF IL!At
  <2>4. CASE IL!End(q)
    BY <1>e, <2>1, <2>2, <2>4 DEF IL!At
  <2> QED  BY <2>2, <2>3, <2>4
<1>15. ASSUME NEW q \in IL!Requests, IL!DeleteRow(q) PROVE CodesInv'
  <2>1. /\ run[q].op = "delete" /\ IL!End(q) /\ requests' = requests /\ joined' = joined
        /\ \A c \in IL!Codes : codes'[c] = codes[c] \/ codes'[c] = IL!NoCode
    BY <1>15 DEF IL!DeleteRow, IL!At
  <2> QED  BY <1>e, <2>1 DEF IL!At
\* No request moves.
<1>u. ASSUME run' = run, requests' \in Nat, requests' >= requests, joined' = joined,
             \A c \in IL!Codes : codes'[c] = codes[c] \/ codes'[c] = IL!NoCode
      PROVE  CodesInv'
  <2>1. \A c \in IL!Codes : (IL!Live(c)' => IL!Live(c) /\ codes'[c] = codes[c])
                         /\ (codes[c] = IL!NoCode => codes'[c] = IL!NoCode)
    BY <1>u, <1>v
  <2>2. ASSUME NEW o \in IL!Requests PROVE Unlinked(run[o])'
    <3>1. Unlinked(run[o]) /\ run[o] \in LinkRequests
      BY <1>a, <1>t
    <3>2. /\ run[o].op = "mint" => run[o].id \in IL!Codes
          /\ run[o].op = "redeem" => run[o].code \in IL!Codes
      BY <3>1, RequestKinds DEF Mints, Joins, Inserts, Burns
    <3> QED  BY <1>u, <1>t, <1>n, <2>1, <2>2, <3>1, <3>2 DEF Unlinked
  <2>3. \A c \in IL!Codes : IL!Live(c)' =>
            \/ joined'[c] = {}
            \/ \E o \in IL!Requests : IL!At(o, "redeem", "burn")' /\ run'[o].code = c
    BY <1>a, <1>u, <2>1 DEF IL!At
  <2>4. \A c \in IL!Codes : c > requests' => codes'[c] = IL!NoCode /\ joined'[c] = {}
    BY <1>u, <1>a, <1>t, <2>1
  <2> QED  BY <1>u, <1>a, <1>n, <2>1, <2>2, <2>3, <2>4 DEF CodesInv
<1>16. ASSUME NEW c \in IL!Codes, IL!Expire(c) PROVE CodesInv'
  BY <1>16, <1>t, <1>u DEF IL!Expire
<1>17. ASSUME NEW l \in IL!LinkIds, IL!RemoveLink(l) PROVE CodesInv'
  BY <1>17, <1>t, <1>u DEF IL!RemoveLink
<1>18. CASE UNCHANGED IL!linkVars
  BY <1>18, <1>t, <1>u DEF IL!linkVars
<1> QED
  BY <1>1, <1>2, <1>3, <1>4, <1>5, <1>6, <1>7, <1>8, <1>10, <1>11, <1>12, <1>13, <1>14, <1>15, <1>16, <1>17, <1>18
  DEF IL!Next

LEMMA AtMostOne ==
  ASSUME NEW s, \A x, y \in s : x = y
  PROVE  IL!Cardinality(s) <= 1
<1>1. CASE s = {}
  BY <1>1, FS_EmptySet, LinkCardinality
<1>2. CASE s # {}
  <2>1. PICK x \in s : s = {x}
    BY <1>2
  <2> QED  BY <2>1, FS_Singleton, LinkCardinality
<1> QED  BY <1>1, <1>2

LinkInv == LinkTypes /\ SenseInv /\ CrossInv /\ FreshInv /\ CodesInv /\ AdminInv

\* At the start nothing is under way, and a link there is joins two or more and leaves
\* an account out.
LEMMA InitLinks == IL!Init => LinkInv
<1> SUFFICES ASSUME IL!Init PROVE LinkInv
  OBVIOUS
<1>1. /\ role = [a \in Accounts |-> "admin"] /\ assistants = Accounts /\ docs = IL!Refs
      /\ codes = [c \in IL!Codes |-> IL!NoCode] /\ run = [q \in IL!Requests |-> IL!Free] /\ requests = 0
      /\ operated = {} /\ parted = {} /\ joined = [c \in IL!Codes |-> {}]
      /\ told = [q \in IL!Requests |-> FALSE] /\ crossedMatters = {}
  BY DEF IL!Init
<1>2. /\ activeAccounts \in [Accounts -> BOOLEAN]
      /\ \/ linkOf = [r \in IL!Refs |-> 0] /\ links = {} /\ activeAccounts = [a \in Accounts |-> TRUE]
         \/ \E s \in LinkBefores :
              /\ links = {MaxLinkRequests + 1}
              /\ linkOf = [r \in IL!Refs |-> IF r \in s THEN MaxLinkRequests + 1 ELSE 0]
              /\ \A a \in Accounts \ s : activeAccounts[a] = TRUE
  BY DEF IL!Init
<1>3. IL!Free.op = "none" /\ IL!Free \in LinkRequests /\ IL!About("none") = {}
      /\ IL!NoCode \in [account : Accounts \cup {"none"}, used : BOOLEAN]
      /\ \A c \in IL!Codes : ~IL!Live(c)
  BY <1>1 DEF IL!Free, LinkRequests, IL!About, IL!NoCode, IL!Live
<1>4. LinkTypes
  <2>1. MaxLinkRequests + 1 \in IL!LinkIds /\ 0 \in 0 .. MaxLinkRequests
    BY LinkBounds
  <2>2. /\ linkOf \in [IL!Refs -> IL!LinkIds \cup {0}] /\ links \subseteq IL!LinkIds
        /\ \A r \in IL!Refs : linkOf[r] # 0 => linkOf[r] \in links
    BY <1>2, <2>1
  <2> QED  BY <1>1, <1>2, <1>3, <2>1, <2>2, LinkBounds DEF LinkTypes
<1>5. SenseInv
  <2>1. \A q \in IL!Requests : SoundRequest(run[q], operated)
    BY <1>1, Disjoint DEF SoundRequest
  <2>2. \A l \in links : Two(IL!Members(l)) /\ OneAccount(IL!Members(l))
    <3>1. CASE links = {}
      BY <3>1
    <3>2. ASSUME NEW s \in LinkBefores, links = {MaxLinkRequests + 1},
                 linkOf = [r \in IL!Refs |-> IF r \in s THEN MaxLinkRequests + 1 ELSE 0]
          PROVE  \A l \in links : Two(IL!Members(l)) /\ OneAccount(IL!Members(l))
      <4>1. s \in SUBSET IL!Refs /\ Two(s) /\ OneAccount(s)
        BY LinksAssumption, Sizes
      <4>2. MaxLinkRequests + 1 # 0
        BY LinkBounds
      <4>3. IL!Members(MaxLinkRequests + 1) = s
        BY <3>2, <4>1, <4>2 DEF IL!Members
      <4> QED  BY <3>2, <4>1, <4>3
    <3> QED  BY <1>2, <3>1, <3>2
  <2> QED  BY <2>1, <2>2 DEF SenseInv
<1>6. CrossInv
  BY <1>1, <1>3 DEF CrossInv
<1>7. FreshInv
  <2>1. ApartInv
    BY <1>1 DEF ApartInv
  <2>2. GoneInv
    BY <1>1 DEF GoneInv, IL!Exists
  <2>3. \A q \in IL!Requests : FreshOf(q)
    BY <1>1, <1>3 DEF FreshOf, Fresh
  <2> QED  BY <2>1, <2>2, <2>3 DEF FreshInv
<1>8. CodesInv
  BY <1>1, <1>3 DEF CodesInv, Unlinked
<1>9. AdminInv
  <2>1. \E a \in Accounts : activeAccounts[a] = TRUE
    <3>1. CASE activeAccounts = [a \in Accounts |-> TRUE]
      BY <3>1, LinkBounds
    <3>2. CASE \E s \in LinkBefores : \A a \in Accounts \ s : activeAccounts[a] = TRUE
      BY <3>2, LinksAssumption
    <3> QED  BY <1>2, <3>1, <3>2
  <2> QED  BY <1>1, <1>3, <2>1 DEF AdminInv, IL!Admin, IL!SignedIn, IL!Exists
<1> QED  BY <1>4, <1>5, <1>6, <1>7, <1>8, <1>9 DEF LinkInv

\* What the steps of the links keep says what they promise.
LEMMA LinksStayKept ==
  /\ LinkInv /\ [IL!Next]_(IL!linkVars) => LinkInv'
  /\ LinkInv => IL!LinkTypeOK /\ IL!LinksMakeSense /\ IL!LinksAsTold /\ IL!AdminStays
<1>1. LinkInv /\ [IL!Next]_(IL!linkVars) => LinkInv'
  BY NextLinkTypes, NextSense, NextCross, NextFresh, NextCodes, NextAdmin DEF LinkInv
<1>2. ASSUME LinkInv PROVE IL!LinkTypeOK /\ IL!LinksMakeSense /\ IL!LinksAsTold /\ IL!AdminStays
  <2> USE <1>2 DEF LinkInv
  <2>1. IL!LinkTypeOK
    BY DEF LinkTypes, IL!LinkTypeOK
  <2>2. IL!LinksMakeSense
    <3>1. \A l : IL!Members(l) \in SUBSET IL!Refs
      BY DEF IL!Members
    <3> QED  BY <3>1, Sizes, LinkCardinality DEF SenseInv, IL!LinksMakeSense
  <2>3. IL!LinksAsTold
    <3>1. "links" \notin crossedMatters =>
            \A q \in IL!Requests : told[q] /\ run[q] # IL!Free =>
              linkOf[run[q].ref] # 0 /\ linkOf[run[q].ref] = linkOf[run[q].account]
      BY DEF FreshInv, FreshOf
    <3>2. "codes" \notin crossedMatters =>
            /\ \A c \in IL!Codes : IL!Cardinality(joined[c]) <= 1
            /\ \A a \in Accounts :
                 IL!Cardinality({c \in IL!Codes : IL!Live(c) /\ codes[c].account = a}) <= 1
      <4> SUFFICES ASSUME "codes" \notin crossedMatters
                   PROVE  /\ \A c \in IL!Codes : IL!Cardinality(joined[c]) <= 1
                          /\ \A a \in Accounts :
                               IL!Cardinality({c \in IL!Codes : IL!Live(c) /\ codes[c].account = a}) <= 1
        OBVIOUS
      <4>1. \A c \in IL!Codes : \A x, y \in joined[c] : x = y
        BY DEF CodesInv
      <4>2. ASSUME NEW a \in Accounts
            PROVE  IL!Cardinality({c \in IL!Codes : IL!Live(c) /\ codes[c].account = a}) <= 1
        <5> DEFINE s == {c \in IL!Codes : IL!Live(c) /\ codes[c].account = a}
        <5>1. \A x, y \in s : x = y
          BY DEF CodesInv
        <5> HIDE DEF s
        <5>2. IL!Cardinality(s) <= 1
          BY <5>1, AtMostOne
        <5> QED  BY <5>2 DEF s
      <4> QED  BY <4>1, <4>2, AtMostOne
    <3> QED  BY <3>1, <3>2 DEF FreshInv, ApartInv, GoneInv, IL!LinksAsTold
  <2>4. IL!AdminStays
    BY DEF AdminInv, IL!AdminStays
  <2> QED  BY <2>1, <2>2, <2>3, <2>4
<1> QED  BY <1>1, <1>2

-----------------------------------------------------------------------------
\* The model roles.

JobSet ==
  [kind : MR!Changes \cup {"none", "resolve"},
   at : {"idle", "settings", "row", "catalog", "rows", "list", "write", "written",
         "change", "changed"},
   id : Backends \cup {Unset}, endpoint : Endpoints \cup {Unset, MR!NoCache}, patch : MR!PatchSet,
   before : MR!Rows \cup {MR!NoCache} \cup Endpoints \cup {Unset},
   todo : SUBSET Roles, proven : SUBSET Roles, failed : SUBSET Roles,
   got : MR!Rows \cup MR!Catalogs \cup {MR!NoCache}]

RolesTyped ==
  /\ settings \in MR!Rows /\ settingsCache \in MR!Rows \cup {MR!NoCache}
  /\ catalog \in MR!Catalogs /\ catalogCache \in MR!Catalogs \cup {MR!NoCache}
  /\ job \in [MR!Requests -> JobSet]
  /\ made \in 0..MaxRoleRequests /\ excused \subseteq Roles
  /\ crossed \in BOOLEAN /\ overtakenCaches \subseteq {"settings", "catalog"} /\ wronged \in BOOLEAN

\* A save, or the recheck of an edit, that knows the row it is judged by.
Judged(j) ==
  \/ j.kind = "save" /\ j.before # MR!NoCache /\ j.at \in {"catalog", "rows", "list", "write"}
  \/ j.kind = "edit" /\ j.at \in {"list", "write"}

Target(j, duty) == MR!Effective(MR!Over(j.before, j.patch), duty)

NewJob(j) == j.todo = {} /\ j.proven = {} /\ j.failed = {}

SaveShape(j) ==
  /\ j.at \in {"catalog", "rows", "settings", "row", "list", "write", "written"}
  /\ j.before \in MR!Rows \cup {MR!NoCache}
  /\ j.at \in {"settings", "row"} => j.before = MR!NoCache
  /\ j.at \in {"list", "write", "written"} => j.before # MR!NoCache
  /\ j.before = MR!NoCache => NewJob(j)
  /\ j.at \in {"catalog", "rows", "list"} /\ j.before # MR!NoCache => j.todo # {}
  /\ j.at = "list" => j.id \in Backends /\ j.endpoint \in Endpoints
  /\ j.at = "write" => j.todo = {}
  /\ j.before # MR!NoCache =>
       /\ j.todo \subseteq MR!Repointed(j.before, j.patch)
       /\ MR!Repointed(j.before, j.patch) \subseteq j.todo \cup j.proven \cup j.failed

EditShape(j) ==
  /\ j.at \in {"catalog", "rows", "change", "changed", "settings", "row", "list", "write", "written"}
  /\ j.id \in Backends /\ j.endpoint \in Endpoints /\ j.failed = {}
  /\ j.patch.backend = MR!NoColumns /\ j.patch.mode = Unset
  /\ j.at \in {"catalog", "rows", "change", "changed", "settings", "row"} => NewJob(j)
  /\ j.at \in {"change", "changed", "settings", "row"} => j.before \in Endpoints
  /\ j.at \notin {"write", "written"} => j.patch.model = MR!NoColumns
  /\ j.at \in {"list", "write"} => j.before \in MR!Rows
  /\ j.at = "list" => j.todo = MR!Affected(j.before, j.id) /\ j.proven = {}
  /\ j.at = "write" => j.todo = {} /\ j.proven = MR!Affected(j.before, j.id) /\ DOMAIN j.patch.model \subseteq j.proven

OtherShape(j) ==
  /\ NewJob(j) /\ j.patch = MR!NoPatch /\ j.before = MR!NoCache
  /\ j.kind = "none" => j = MR!Idle
  /\ j.kind = "create" => j.at \in {"change", "changed"} /\ j.id \in Backends /\ j.endpoint \in Endpoints
  /\ j.kind = "remove" => j.at \in {"settings", "row", "change", "changed"} /\ j.id \in Backends
  /\ j.kind = "resolve" => j.at \in {"settings", "row", "catalog", "rows"}

GotShape(j) ==
  /\ j.at = "idle" => j = MR!Idle
  /\ j.at \in {"row", "written"} => j.got \in MR!Rows
  /\ j.at = "rows" => j.got \in MR!Catalogs

Shape(j) ==
  /\ GotShape(j)
  /\ j.kind = "save" => SaveShape(j)
  /\ j.kind = "edit" => EditShape(j)
  /\ j.kind \notin {"save", "edit"} => OtherShape(j)

\* A value on its way to a cache is the rows', or they were written since.
OnTheWay ==
  \A r \in MR!Requests :
    /\ job[r].at \in {"row", "written"} => job[r].got = settings \/ "settings" \in overtakenCaches
    /\ job[r].at = "rows" => job[r].got = catalog \/ "catalog" \in overtakenCaches

CreatesNew ==
  \A r \in MR!Requests : job[r].kind = "create" /\ job[r].at = "change" =>
    /\ catalog[job[r].id] = Unset
    /\ \A q \in MR!Requests \ {r} : job[q].kind = "create" => job[q].id # job[r].id

\* A role that was proven is cleared in the patch if and only if its backend, as it is
\* in these rows, does not serve its model.
Proven(j, duty, table) ==
  /\ Target(j, duty) # Unset /\ table[Target(j, duty)] # Unset
  /\ duty \in DOMAIN j.patch.model <=> j.before.model[duty] \notin Serves[table[Target(j, duty)]]
  /\ duty \in DOMAIN j.patch.model => j.patch.model[duty] = Unset

\* A change that met no other knows the rows as they are, and what it proved.
UpToDate(j, rec, table) ==
  /\ j.kind \in MR!Changes /\ j.at = "row" => j.got = rec
  /\ j.kind \in MR!Changes /\ j.at = "rows" => j.got = table
  /\ Judged(j) => j.before = rec
  /\ Judged(j) /\ j.at = "list" => table[j.id] = j.endpoint
  /\ Judged(j) => \A duty \in j.proven : Proven(j, duty, table)
  /\ j.kind = "edit" =>
       /\ j.at = "change" => j.before = table[j.id]
       /\ j.at \in {"settings", "row"} => table[j.id] = j.endpoint
       /\ j.at = "changed" => j.endpoint \in {j.before, table[j.id]}

\* The roles an edit that moved the endpoint has still to see to.
Pending(j, rec) ==
  IF j.kind # "edit" THEN {}
  ELSE IF j.at \in {"settings", "row"} \/ (j.at = "changed" /\ j.endpoint # j.before)
         THEN {duty \in Roles : MR!Effective(rec, duty) = j.id}
  ELSE IF j.at = "list" THEN j.todo
  ELSE IF j.at = "write" THEN DOMAIN j.patch.model ELSE {}

Uncrossed ==
  /\ ~wronged
  /\ \A r \in MR!Requests : UpToDate(job[r], settings, catalog)
  /\ MR!Unserved \subseteq excused \cup UNION {Pending(job[r], settings) : r \in MR!Requests}

JobsShaped == RolesTyped /\ \A r \in MR!Requests : Shape(job[r])
Caches == OnTheWay /\ MR!CachesTellRows /\ CreatesNew /\ MR!NamedBackendsStand
RolesInv == JobsShaped /\ Caches /\ (~crossed => Uncrossed)

LEMMA NoCacheApart == MR!NoCache \notin MR!Rows /\ MR!NoCache \notin MR!Catalogs
<1>1. \A rec \in MR!Rows : DOMAIN rec = {"backend", "model", "mode"}
  BY DEF MR!Rows
<1>2. \A table \in MR!Catalogs : DOMAIN table = Backends
  BY DEF MR!Catalogs
<1>3. DOMAIN MR!NoCache = {}
  BY DEF MR!NoCache
<1> QED  BY <1>1, <1>2, <1>3, RolesAssumption

LEMMA ColumnsFacts ==
  ASSUME NEW V, NEW f \in MR!Columns(V)
  PROVE  DOMAIN f \subseteq Roles /\ \A duty \in DOMAIN f : f[duty] \in V \cup {Unset}
BY DEF MR!Columns

LEMMA ColumnsMade ==
  ASSUME NEW V, NEW f, NEW S \in SUBSET Roles, f \in [S -> V \cup {Unset}]
  PROVE  f \in MR!Columns(V)
BY DEF MR!Columns

LEMMA NoPatchTyped == MR!NoPatch \in MR!PatchSet /\ DOMAIN MR!NoColumns = {}
<1>1. MR!NoColumns \in [{} -> Backends \cup {Unset}] /\ MR!NoColumns \in [{} -> Models \cup {Unset}]
  BY DEF MR!NoColumns
<1>2. MR!NoColumns \in MR!Columns(Backends) /\ MR!NoColumns \in MR!Columns(Models)
  BY <1>1, ColumnsMade
<1> QED  BY <1>2 DEF MR!NoPatch, MR!PatchSet, MR!NoColumns

LEMMA IdleTyped == MR!Idle \in JobSet /\ Shape(MR!Idle)
BY NoPatchTyped DEF MR!Idle, JobSet, Shape, GotShape, OtherShape, NewJob

LEMMA ClearingTyped ==
  ASSUME NEW model \in MR!Columns(Models), NEW gone \in SUBSET Roles
  PROVE  /\ MR!Clearing(model, gone) \in MR!Columns(Models)
         /\ DOMAIN MR!Clearing(model, gone) = gone \cup DOMAIN model
         /\ \A duty \in gone : MR!Clearing(model, gone)[duty] = Unset
         /\ \A duty \in (DOMAIN model) \ gone : MR!Clearing(model, gone)[duty] = model[duty]
<1>1. DOMAIN model \subseteq Roles /\ \A duty \in DOMAIN model : model[duty] \in Models \cup {Unset}
  BY ColumnsFacts
<1>2. MR!Clearing(model, gone) \in [gone \cup DOMAIN model -> Models \cup {Unset}]
  BY <1>1 DEF MR!Clearing
<1>3. MR!Clearing(model, gone) \in MR!Columns(Models)
  BY <1>1, <1>2, ColumnsMade
<1> QED  BY <1>3 DEF MR!Clearing

LEMMA OverTyped ==
  ASSUME NEW rec \in MR!Rows, NEW patch \in MR!PatchSet
  PROVE  /\ MR!Over(rec, patch) \in MR!Rows
         /\ \A duty \in Roles :
              /\ MR!Over(rec, patch).backend[duty] =
                   IF duty \in DOMAIN patch.backend THEN patch.backend[duty] ELSE rec.backend[duty]
              /\ MR!Over(rec, patch).model[duty] =
                   IF duty \in DOMAIN patch.model THEN patch.model[duty] ELSE rec.model[duty]
         /\ MR!Over(rec, patch).mode = IF patch.mode = Unset THEN rec.mode ELSE patch.mode
<1>1. \A duty \in DOMAIN patch.backend : patch.backend[duty] \in Backends \cup {Unset}
  BY ColumnsFacts DEF MR!PatchSet
<1>2. \A duty \in DOMAIN patch.model : patch.model[duty] \in Models \cup {Unset}
  BY ColumnsFacts DEF MR!PatchSet
<1> QED  BY <1>1, <1>2 DEF MR!Over, MR!Rows, MR!PatchSet

LEMMA EffectiveTyped ==
  ASSUME NEW rec \in MR!Rows, NEW duty \in Roles
  PROVE  MR!Effective(rec, duty) \in Backends \cup {Unset}
BY RolesAssumption DEF MR!Effective, MR!Rows

\* Models in a patch have no say in the backends.
LEMMA EffectiveOver ==
  ASSUME NEW rec \in MR!Rows, NEW patch \in MR!PatchSet, NEW other \in MR!PatchSet,
         patch.backend = other.backend, NEW duty \in Roles
  PROVE  MR!Effective(MR!Over(rec, patch), duty) = MR!Effective(MR!Over(rec, other), duty)
BY OverTyped, RolesAssumption DEF MR!Effective

LEMMA RepointedFacts ==
  ASSUME NEW rec \in MR!Rows, NEW patch \in MR!PatchSet
  PROVE  /\ MR!Repointed(rec, patch) \subseteq Roles \ DOMAIN patch.model
         /\ \A duty \in MR!Repointed(rec, patch) : MR!Effective(MR!Over(rec, patch), duty) \in Backends
BY OverTyped, EffectiveTyped DEF MR!Repointed, MR!listedModelRoles

LEMMA AffectedFacts ==
  ASSUME NEW rec \in MR!Rows, NEW id
  PROVE  MR!Affected(rec, id) \subseteq Roles
BY DEF MR!Affected, MR!listedModelRoles

-----------------------------------------------------------------------------
\* What a request becomes keeps its shape.
Quiet(j) == j.at \notin {"row", "rows", "written"}

LEMMA SaveJudged ==
  ASSUME NEW j \in JobSet, j.kind = "save", j.at \in {"settings", "row"}, Shape(j),
         NEW rec \in MR!Rows
  PROVE  /\ MR!Judge(j, rec) \in JobSet /\ Shape(MR!Judge(j, rec)) /\ Quiet(MR!Judge(j, rec))
         /\ MR!Judge(j, rec).kind = "save" /\ MR!Judge(j, rec).id = j.id
         /\ MR!Judge(j, rec).patch = j.patch /\ MR!Judge(j, rec).before = rec
         /\ MR!Judge(j, rec).todo = MR!Repointed(rec, j.patch) /\ MR!Judge(j, rec).proven = {}
         /\ MR!Judge(j, rec).at \in {"catalog", "write"}
<1> DEFINE todo == MR!Repointed(rec, j.patch)
           k == MR!Judge(j, rec)
<1>1. j.patch \in MR!PatchSet /\ j.todo = {} /\ j.proven = {} /\ j.failed = {}
  BY NoCacheApart DEF JobSet, Shape, SaveShape, NewJob
<1>2. todo \subseteq Roles
  BY <1>1, RepointedFacts
<1>3. CASE todo # {}
  <2>1. k = [j EXCEPT !.before = rec, !.todo = todo, !.got = MR!NoCache, !.at = "catalog"]
    BY <1>3 DEF MR!Judge
  <2>2. k \in JobSet
    BY <2>1, <1>2 DEF JobSet
  <2> QED  BY <2>1, <2>2, <1>1, <1>2, <1>3, NoCacheApart
           DEF JobSet, Shape, SaveShape, GotShape, Quiet
<1>4. CASE todo = {}
  <2>1. k = [j EXCEPT !.before = rec, !.got = MR!NoCache, !.at = "write"]
    BY <1>4 DEF MR!Judge
  <2>2. k \in JobSet
    BY <2>1 DEF JobSet
  <2> QED  BY <2>1, <2>2, <1>1, <1>4, NoCacheApart DEF JobSet, Shape, SaveShape, GotShape, Quiet
<1> QED  BY <1>3, <1>4

LEMMA EditJudged ==
  ASSUME NEW j \in JobSet, j.kind = "edit", j.at \in {"settings", "row"}, Shape(j),
         NEW rec \in MR!Rows
  PROVE  LET k == MR!Judge(j, rec) IN
         /\ k \in JobSet /\ Shape(k) /\ Quiet(k)
         /\ \/ k = MR!Idle /\ MR!Affected(rec, j.id) = {}
            \/ /\ k.kind = "edit" /\ k.at = "list" /\ k.id = j.id /\ k.endpoint = j.endpoint
               /\ k.before = rec /\ k.todo = MR!Affected(rec, j.id) /\ k.proven = {}
               /\ k.patch = j.patch
<1> DEFINE todo == MR!Affected(rec, j.id)
           k == MR!Judge(j, rec)
<1>0. todo \subseteq Roles
  BY AffectedFacts
<1>1. CASE todo # {}
  <2>1. k = [j EXCEPT !.before = rec, !.todo = todo, !.got = MR!NoCache, !.at = "list"]
    BY <1>1 DEF MR!Judge
  <2>2. k \in JobSet
    BY <2>1, <1>0 DEF JobSet
  <2> QED  BY <2>1, <2>2, <1>1, NoCacheApart
           DEF JobSet, Shape, EditShape, GotShape, Quiet, NewJob
<1>2. CASE todo = {}
  <2>1. k = MR!Idle
    BY <1>2 DEF MR!Judge
  <2> QED  BY <2>1, <1>2, IdleTyped DEF Quiet, MR!Idle
<1> QED  BY <1>1, <1>2

LEMMA WithSettingsShape ==
  ASSUME NEW j \in JobSet, j.at \in {"settings", "row"}, Shape(j), NEW rec \in MR!Rows
  PROVE  LET k == MR!WithSettings(j, rec) IN
         /\ k \in JobSet /\ Shape(k) /\ Quiet(k)
         /\ k.kind \in {j.kind, "none"}
         /\ k.kind # "none" => k.id = j.id
         /\ k.kind = "create" => k.at # "change"
<1> DEFINE k == MR!WithSettings(j, rec)
<1>1. CASE j.kind = "save"
  <2>1. k = MR!Judge(j, rec)
    BY <1>1 DEF MR!WithSettings
  <2> QED  BY <1>1, <2>1, SaveJudged DEF SaveShape, Shape
<1>2. CASE j.kind = "edit"
  <2>1. k = MR!Judge(j, rec)
    BY <1>2 DEF MR!WithSettings
  <2> QED  BY <1>2, <2>1, EditJudged DEF MR!Idle
<1>3. CASE j.kind = "remove" /\ k = MR!Idle
  BY <1>3, IdleTyped DEF MR!Idle, Quiet
<1>4. CASE j.kind = "remove" /\ k # MR!Idle
  <2>1. k = [j EXCEPT !.at = "change", !.got = MR!NoCache]
    BY <1>4 DEF MR!WithSettings
  <2> QED  BY <1>4, <2>1 DEF JobSet, Shape, OtherShape, GotShape, Quiet, NewJob
<1>5. CASE j.kind = "resolve"
  <2>1. k = [j EXCEPT !.at = "catalog", !.got = MR!NoCache]
    BY <1>5 DEF MR!WithSettings
  <2> QED  BY <1>5, <2>1 DEF JobSet, Shape, OtherShape, GotShape, Quiet, NewJob
<1> QED  BY <1>1, <1>2, <1>3, <1>4, <1>5 DEF JobSet, Shape, OtherShape, MR!Changes, MR!Idle

LEMMA GroupFacts ==
  ASSUME NEW j \in JobSet, NEW id
  PROVE  MR!Group(j, id) \subseteq j.todo
BY DEF MR!Group

\* What becomes of a request that looks a backend up.
GivenUp(j, k) == k = MR!Idle
Repoints(j, table, k) ==
  /\ j.kind = "edit" /\ table[j.id] # Unset
  /\ k = [j EXCEPT !.at = "change", !.before = table[j.id], !.got = MR!NoCache]
Validated(j, k) ==
  j.kind = "save" /\ j.before = MR!NoCache /\ k = [j EXCEPT !.at = "settings", !.got = MR!NoCache]
Finds(j, table, k, id) ==
  /\ j.kind = "save" /\ j.before # MR!NoCache /\ table[id] # Unset
  /\ k = [j EXCEPT !.at = "list", !.id = id, !.endpoint = table[id], !.got = MR!NoCache]
Misses(j, k, id) ==
  /\ j.kind = "save" /\ j.before # MR!NoCache
  /\ k = [j EXCEPT !.todo = @ \ MR!Group(j, id), !.failed = @ \cup MR!Group(j, id), !.got = MR!NoCache,
                   !.at = IF j.todo = MR!Group(j, id) THEN "write" ELSE "catalog"]
LooksUp(j, table, k) ==
  \/ GivenUp(j, k) \/ Repoints(j, table, k) \/ Validated(j, k)
  \/ \E id \in Backends : Finds(j, table, k, id) \/ Misses(j, k, id)

LEMMA WithCatalogShape ==
  ASSUME NEW j \in JobSet, j.at \in {"catalog", "rows"}, Shape(j), NEW table \in MR!Catalogs,
         NEW k \in MR!WithCatalog(j, table)
  PROVE  k \in JobSet /\ Shape(k) /\ Quiet(k) /\ LooksUp(j, table, k)
<1>1. CASE k = MR!Idle
  BY <1>1, IdleTyped DEF Quiet, MR!Idle, LooksUp, GivenUp
<1>2. CASE j.kind = "resolve"
  BY <1>1, <1>2 DEF MR!WithCatalog
<1>3. CASE j.kind = "edit" /\ k # MR!Idle
  <2>1. table[j.id] # Unset /\ k = [j EXCEPT !.at = "change", !.before = table[j.id], !.got = MR!NoCache]
    BY <1>3 DEF MR!WithCatalog
  <2>2. j.id \in Backends /\ table[j.id] \in Endpoints
    BY <1>3, <2>1 DEF Shape, EditShape, MR!Catalogs
  <2>3. k \in JobSet /\ Shape(k) /\ Quiet(k)
    BY <1>3, <2>1, <2>2 DEF JobSet, Shape, EditShape, GotShape, Quiet, NewJob
  <2> QED  BY <1>3, <2>1, <2>3 DEF LooksUp, Repoints
<1>4. CASE j.kind = "save" /\ j.before = MR!NoCache /\ k # MR!Idle
  <2>1. k = [j EXCEPT !.at = "settings", !.got = MR!NoCache]
    BY <1>4 DEF MR!WithCatalog
  <2>2. k \in JobSet
    BY <2>1 DEF JobSet
  <2>3. SaveShape(k)
    BY <1>4, <2>1 DEF JobSet, Shape, SaveShape, NewJob
  <2>4. Shape(k) /\ Quiet(k)
    BY <1>4, <2>1, <2>3 DEF JobSet, Shape, GotShape, Quiet
  <2> QED  BY <1>4, <2>1, <2>2, <2>4 DEF LooksUp, Validated
<1>5. CASE j.kind = "save" /\ j.before # MR!NoCache
  <2>1. j.before \in MR!Rows /\ j.patch \in MR!PatchSet /\ j.todo # {}
        /\ j.todo \subseteq MR!Repointed(j.before, j.patch)
        /\ MR!Repointed(j.before, j.patch) \subseteq j.todo \cup j.proven \cup j.failed
    BY <1>5 DEF JobSet, Shape, SaveShape
  <2>2. PICK id \in {MR!Effective(MR!Over(j.before, j.patch), duty) : duty \in j.todo} :
          k = IF table[id] # Unset
                THEN [j EXCEPT !.at = "list", !.id = id, !.endpoint = table[id], !.got = MR!NoCache]
                ELSE [j EXCEPT !.todo = @ \ MR!Group(j, id), !.failed = @ \cup MR!Group(j, id),
                               !.got = MR!NoCache,
                               !.at = IF j.todo = MR!Group(j, id) THEN "write" ELSE "catalog"]
    BY <1>5 DEF MR!WithCatalog
  <2>3. id \in Backends
    BY <2>1, RepointedFacts
  <2>4. CASE table[id] # Unset
    <3>1. k = [j EXCEPT !.at = "list", !.id = id, !.endpoint = table[id], !.got = MR!NoCache]
      BY <2>2, <2>4
    <3>2. table[id] \in Endpoints
      BY <2>3, <2>4 DEF MR!Catalogs
    <3>3. k \in JobSet /\ Shape(k) /\ Quiet(k)
      BY <1>5, <2>1, <2>3, <3>1, <3>2 DEF JobSet, Shape, SaveShape, GotShape, Quiet
    <3> QED  BY <1>5, <2>3, <2>4, <3>1, <3>3 DEF LooksUp, Finds
  <2>5. CASE table[id] = Unset
    <3>1. k = [j EXCEPT !.todo = @ \ MR!Group(j, id), !.failed = @ \cup MR!Group(j, id),
                        !.got = MR!NoCache,
                        !.at = IF j.todo = MR!Group(j, id) THEN "write" ELSE "catalog"]
      BY <2>2, <2>5
    <3>2. MR!Group(j, id) \subseteq j.todo /\ j.todo \ MR!Group(j, id) \in SUBSET Roles
          /\ j.failed \cup MR!Group(j, id) \in SUBSET Roles
      BY GroupFacts DEF JobSet
    <3>3. /\ k \in JobSet
          /\ k.kind = "save" /\ k.before = j.before /\ k.patch = j.patch /\ k.proven = j.proven
          /\ k.todo = j.todo \ MR!Group(j, id) /\ k.failed = j.failed \cup MR!Group(j, id)
          /\ k.at = IF j.todo = MR!Group(j, id) THEN "write" ELSE "catalog"
      <4> DEFINE at == IF j.todo = MR!Group(j, id) THEN "write" ELSE "catalog"
                 todo == j.todo \ MR!Group(j, id)
                 failed == j.failed \cup MR!Group(j, id)
      <4>1. k = [j EXCEPT !.todo = todo, !.failed = failed, !.got = MR!NoCache, !.at = at]
        BY <3>1
      <4>2. todo \in SUBSET Roles /\ failed \in SUBSET Roles /\ at \in {"write", "catalog"}
        BY <3>2
      <4> HIDE DEF at, todo, failed
      <4>3. k \in JobSet
        BY <4>1, <4>2 DEF JobSet
      <4>4. /\ k.kind = j.kind /\ k.before = j.before /\ k.patch = j.patch /\ k.proven = j.proven
            /\ k.todo = todo /\ k.failed = failed /\ k.at = at
        BY <4>1 DEF JobSet
      <4> QED  BY <1>5, <4>3, <4>4 DEF at, todo, failed
    <3>4. k.at \in {"write", "catalog"} /\ (k.at = "write" <=> k.todo = {})
      BY <3>2, <3>3
    <3>5. SaveShape(k)
      BY <1>5, <2>1, <3>2, <3>3, <3>4 DEF SaveShape
    <3>6. Shape(k) /\ Quiet(k)
      BY <3>3, <3>4, <3>5 DEF Shape, GotShape, Quiet
    <3> QED  BY <1>5, <2>3, <3>1, <3>3, <3>6 DEF LooksUp, Misses
  <2> QED  BY <2>4, <2>5
<1>6. j.kind \in {"resolve", "edit", "save"}
  BY DEF JobSet, MR!Changes, Shape, OtherShape, MR!Idle
<1> QED  BY <1>1, <1>2, <1>3, <1>4, <1>5, <1>6

LEMMA RepointedLess ==
  ASSUME NEW rec \in MR!Rows, NEW patch \in MR!PatchSet, NEW other \in MR!PatchSet, NEW gone,
         other.backend = patch.backend, other.mode = patch.mode,
         DOMAIN other.model = gone \cup DOMAIN patch.model
  PROVE  MR!Repointed(rec, other) = MR!Repointed(rec, patch) \ gone
<1> DEFINE a == MR!Over(rec, patch)
           b == MR!Over(rec, other)
<1>1. a.mode = b.mode
  BY OverTyped
<1>2. \A duty \in Roles : MR!Effective(a, duty) = MR!Effective(b, duty)
  BY EffectiveOver
<1>3. MR!listedModelRoles(a.mode) = MR!listedModelRoles(b.mode) /\ MR!listedModelRoles(a.mode) \subseteq Roles
  BY <1>1 DEF MR!listedModelRoles
<1> HIDE DEF a, b
<1>4. MR!Repointed(rec, patch) =
        {duty \in MR!listedModelRoles(a.mode) \ DOMAIN patch.model :
           /\ DOMAIN patch.backend # {} /\ rec.model[duty] # Unset
           /\ MR!Effective(a, duty) \notin {Unset, MR!Effective(rec, duty)}}
  BY DEF MR!Repointed, a
<1>5. MR!Repointed(rec, other) =
        {duty \in MR!listedModelRoles(b.mode) \ DOMAIN other.model :
           /\ DOMAIN other.backend # {} /\ rec.model[duty] # Unset
           /\ MR!Effective(b, duty) \notin {Unset, MR!Effective(rec, duty)}}
  BY DEF MR!Repointed, b
<1> QED  BY <1>2, <1>3, <1>4, <1>5

\* A listing settles the roles it was asked for: the patch clears those that are gone.
Gone(j) == {duty \in MR!Checked(j) : j.before.model[duty] \notin Serves[j.endpoint]}
Settled(j) ==
  [j EXCEPT !.todo = @ \ MR!Checked(j), !.proven = @ \cup MR!Checked(j), !.at = MR!Then(j),
            !.patch.model = MR!Clearing(@, Gone(j))]
Unsettled(j) ==
  [j EXCEPT !.todo = @ \ MR!Checked(j), !.failed = @ \cup MR!Checked(j), !.at = MR!Then(j)]

LEMMA AtList ==
  ASSUME NEW j \in JobSet, j.at = "list", Shape(j)
  PROVE  /\ j.kind \in {"save", "edit"} /\ j.before \in MR!Rows /\ j.patch \in MR!PatchSet
         /\ MR!Checked(j) \subseteq j.todo /\ Gone(j) \subseteq MR!Checked(j)
         /\ j.todo \subseteq Roles /\ j.todo \cap DOMAIN j.patch.model = {}
         /\ j.id \in Backends /\ j.endpoint \in Endpoints
         /\ j.kind = "edit" => MR!Checked(j) = j.todo
         /\ j.kind = "save" => MR!Checked(j) = MR!Group(j, j.id)
<1>1. j.kind \in {"save", "edit"}
  BY DEF JobSet, MR!Changes, Shape, OtherShape, MR!Idle
<1>2. j.before \in MR!Rows /\ j.patch \in MR!PatchSet /\ j.todo \subseteq Roles
  BY <1>1 DEF JobSet, Shape, SaveShape, EditShape
<1>3. MR!Checked(j) \subseteq j.todo
  BY GroupFacts DEF MR!Checked
<1>4. j.todo \cap DOMAIN j.patch.model = {}
  <2>1. CASE j.kind = "save"
    BY <2>1, <1>2, RepointedFacts, NoCacheApart DEF Shape, SaveShape
  <2>2. CASE j.kind = "edit"
    BY <2>2, NoPatchTyped DEF Shape, EditShape
  <2> QED  BY <1>1, <2>1, <2>2
<1> QED  BY <1>1, <1>2, <1>3, <1>4 DEF Gone, MR!Checked, Shape, SaveShape, EditShape

LEMMA SettledFields ==
  ASSUME NEW j \in JobSet, j.at = "list", Shape(j)
  PROVE  LET k == Settled(j) IN
         /\ k \in JobSet
         /\ k.kind = j.kind /\ k.id = j.id /\ k.endpoint = j.endpoint /\ k.before = j.before
         /\ k.failed = j.failed /\ k.got = j.got
         /\ k.todo = j.todo \ MR!Checked(j) /\ k.proven = j.proven \cup MR!Checked(j) /\ k.at = MR!Then(j)
         /\ k.patch.backend = j.patch.backend /\ k.patch.mode = j.patch.mode
         /\ k.patch.model = MR!Clearing(j.patch.model, Gone(j))
<1> DEFINE todo == j.todo \ MR!Checked(j)
           proven == j.proven \cup MR!Checked(j)
           model == MR!Clearing(j.patch.model, Gone(j))
           at == MR!Then(j)
           k == Settled(j)
<1>1. todo \in SUBSET Roles /\ proven \in SUBSET Roles /\ at \in {"catalog", "write"}
  BY AtList DEF MR!Then, JobSet
<1>2. j.patch.model \in MR!Columns(Models) /\ Gone(j) \in SUBSET Roles
  BY AtList DEF MR!PatchSet
<1>3. model \in MR!Columns(Models)
  BY <1>2, ClearingTyped
<1>4. k = [j EXCEPT !.todo = todo, !.proven = proven, !.at = at, !.patch.model = model]
  BY DEF Settled
<1> HIDE DEF todo, proven, model, at, k
<1>5. [j.patch EXCEPT !.model = model] \in MR!PatchSet
  BY <1>3, AtList DEF MR!PatchSet
<1>6. k = [j EXCEPT !.todo = todo, !.proven = proven, !.at = at,
                    !.patch = [j.patch EXCEPT !.model = model]]
  BY <1>4 DEF JobSet
<1>7. k \in JobSet
  BY <1>1, <1>5, <1>6 DEF JobSet
<1>8. /\ k.kind = j.kind /\ k.id = j.id /\ k.endpoint = j.endpoint /\ k.before = j.before
      /\ k.failed = j.failed /\ k.got = j.got
      /\ k.todo = todo /\ k.proven = proven /\ k.at = at
      /\ k.patch = [j.patch EXCEPT !.model = model]
  BY <1>6 DEF JobSet
<1>9. /\ k.patch.backend = j.patch.backend /\ k.patch.mode = j.patch.mode
      /\ k.patch.model = model
  BY <1>8, AtList DEF MR!PatchSet
<1> QED  BY <1>7, <1>8, <1>9 DEF todo, proven, model, at, k

LEMMA SettledShape ==
  ASSUME NEW j \in JobSet, j.at = "list", Shape(j)
  PROVE  Shape(Settled(j)) /\ Quiet(Settled(j))
<1> DEFINE k == Settled(j)
<1>1. DOMAIN k.patch.model = Gone(j) \cup DOMAIN j.patch.model
  <2>1. j.patch.model \in MR!Columns(Models) /\ Gone(j) \in SUBSET Roles
    BY AtList DEF MR!PatchSet
  <2>2. k.patch.model = MR!Clearing(j.patch.model, Gone(j))
    BY SettledFields
  <2>3. DOMAIN MR!Clearing(j.patch.model, Gone(j)) = Gone(j) \cup DOMAIN j.patch.model
    BY <2>1, ClearingTyped
  <2> QED  BY <2>2, <2>3
<1>2. k.at \in {"catalog", "write"} /\ (k.at = "write" <=> k.todo = {})
  <2>1. k.at = MR!Then(j) /\ k.todo = j.todo \ MR!Checked(j)
    BY SettledFields
  <2>2. MR!Checked(j) \subseteq j.todo
    BY AtList
  <2>3. j.todo \ MR!Checked(j) = {} <=> j.todo = MR!Checked(j)
    BY <2>2
  <2> QED  BY <2>1, <2>3 DEF MR!Then
<1>3. k \in JobSet /\ k.patch \in MR!PatchSet
  BY SettledFields DEF JobSet
<1>4. CASE j.kind = "save"
  <2>1. MR!Repointed(k.before, k.patch) = MR!Repointed(j.before, j.patch) \ Gone(j)
    BY <1>1, <1>3, AtList, SettledFields, RepointedLess
  <2>2. k.todo \subseteq MR!Repointed(k.before, k.patch)
    BY <1>4, <2>1, AtList, SettledFields, NoCacheApart DEF Shape, SaveShape
  <2>3. MR!Repointed(k.before, k.patch) \subseteq k.todo \cup k.proven \cup k.failed
    BY <1>4, <2>1, AtList, SettledFields, NoCacheApart DEF Shape, SaveShape
  <2>4. k.kind = "save" /\ k.before \in MR!Rows /\ k.before # MR!NoCache
    BY <1>4, AtList, SettledFields, NoCacheApart
  <2>5. SaveShape(k)
    BY <1>2, <2>2, <2>3, <2>4 DEF SaveShape
  <2> QED  BY <1>2, <2>4, <2>5 DEF Shape, GotShape, Quiet
<1>5. CASE j.kind = "edit"
  <2>1. k.kind = "edit" /\ k.at = "write" /\ k.todo = {} /\ k.proven = MR!Affected(k.before, k.id)
    <3>1. /\ k.kind = j.kind /\ k.id = j.id /\ k.before = j.before /\ k.at = MR!Then(j)
          /\ k.todo = j.todo \ MR!Checked(j) /\ k.proven = j.proven \cup MR!Checked(j)
      BY SettledFields
    <3>2. MR!Checked(j) = j.todo
      BY <1>5, AtList
    <3>3. j.todo = MR!Affected(j.before, j.id) /\ j.proven = {}
      BY <1>5 DEF Shape, EditShape
    <3> HIDE DEF k
    <3> QED  BY <1>2, <1>5, <3>1, <3>2, <3>3
  <2>2. DOMAIN k.patch.model \subseteq k.proven
    BY <1>1, <1>5, AtList, SettledFields, NoPatchTyped DEF Shape, EditShape
  <2>3. k.patch.backend = MR!NoColumns /\ k.patch.mode = Unset /\ k.failed = {} /\ k.before \in MR!Rows
        /\ k.id \in Backends /\ k.endpoint \in Endpoints
    BY <1>5, AtList, SettledFields DEF Shape, EditShape
  <2>4. EditShape(k)
    BY <2>1, <2>2, <2>3 DEF EditShape
  <2> QED  BY <2>1, <2>4 DEF Shape, GotShape, Quiet
<1> QED  BY <1>4, <1>5, AtList

LEMMA UnsettledShape ==
  ASSUME NEW j \in JobSet, j.at = "list", Shape(j), j.kind = "save"
  PROVE  LET k == Unsettled(j) IN
         /\ k \in JobSet /\ Shape(k) /\ Quiet(k)
         /\ k.kind = j.kind /\ k.id = j.id /\ k.before = j.before
         /\ k.proven = j.proven /\ k.patch = j.patch
<1> DEFINE todo == j.todo \ MR!Checked(j)
           failed == j.failed \cup MR!Checked(j)
           at == MR!Then(j)
           k == Unsettled(j)
<1>1. todo \in SUBSET Roles /\ failed \in SUBSET Roles /\ at \in {"catalog", "write"}
      /\ (at = "write" <=> todo = {})
  BY AtList DEF MR!Then, JobSet
<1>2. k = [j EXCEPT !.todo = todo, !.failed = failed, !.at = at]
  BY DEF Unsettled
<1>3. /\ todo \subseteq MR!Repointed(j.before, j.patch)
      /\ MR!Repointed(j.before, j.patch) \subseteq todo \cup j.proven \cup failed
      /\ j.before \in MR!Rows /\ j.before # MR!NoCache
  BY AtList, NoCacheApart DEF Shape, SaveShape
<1> HIDE DEF todo, failed, at, k
<1>4. k \in JobSet
  BY <1>1, <1>2 DEF JobSet
<1>5. /\ k.kind = j.kind /\ k.id = j.id /\ k.before = j.before
      /\ k.proven = j.proven /\ k.patch = j.patch
      /\ k.todo = todo /\ k.failed = failed /\ k.at = at
  BY <1>2 DEF JobSet
<1>6. SaveShape(k)
  BY <1>1, <1>3, <1>5 DEF SaveShape
<1>7. Shape(k) /\ Quiet(k)
  BY <1>1, <1>5, <1>6 DEF Shape, GotShape, Quiet
<1> QED  BY <1>4, <1>5, <1>7 DEF k

-----------------------------------------------------------------------------
\* One request moves.
LEMMA JobMoves ==
  ASSUME JobsShaped, NEW r \in MR!Requests, NEW k \in JobSet, Shape(k), MR!Goes(r, k)
  PROVE  /\ job' \in [MR!Requests -> JobSet] /\ \A q \in MR!Requests : Shape(job'[q])
         /\ job'[r] = k /\ \A q \in MR!Requests \ {r} : job'[q] = job[q]
BY DEF JobsShaped, RolesTyped, MR!Goes

LEMMA CachesKept ==
  ASSUME JobsShaped, Caches, NEW r \in MR!Requests, NEW k \in JobSet, Shape(k), MR!Goes(r, k),
         UNCHANGED <<settings, catalog, overtakenCaches>>,
         job[r].at \notin {"written", "changed"},
         Quiet(k) \/ (k.at = "row" /\ k.got = settings) \/ (k.at = "rows" /\ k.got = catalog),
         settingsCache' \in {settingsCache, settings} \/ "settings" \in overtakenCaches,
         catalogCache' \in {catalogCache, catalog} \/ "catalog" \in overtakenCaches,
         k.kind = "create" /\ k.at = "change" =>
           /\ catalog[k.id] = Unset
           /\ \A q \in MR!Requests \ {r} : job[q].kind = "create" => job[q].id # k.id,
         k.kind = "create" =>
           (job[r].kind = "create" /\ k.id = job[r].id) \/ k.at = "change"
  PROVE  Caches'
<1>1. job'[r] = k /\ \A q \in MR!Requests \ {r} : job'[q] = job[q]
  BY JobMoves
<1>2. OnTheWay'
  BY <1>1 DEF Caches, OnTheWay, Quiet
<1>3. MR!CachesTellRows'
  <2>1. \A q \in MR!Requests : job[q].at \in {"written", "changed"} => job'[q] = job[q]
    BY <1>1
  <2> QED  BY <2>1 DEF Caches, MR!CachesTellRows
<1>4. CreatesNew'
  BY <1>1 DEF Caches, CreatesNew
<1>5. MR!NamedBackendsStand'
  BY DEF Caches, MR!NamedBackendsStand, MR!Stand
<1> QED  BY <1>2, <1>3, <1>4, <1>5 DEF Caches

LEMMA UncrossedKept ==
  ASSUME JobsShaped, Uncrossed, NEW r \in MR!Requests, NEW k \in JobSet, Shape(k), MR!Goes(r, k),
         UNCHANGED <<settings, catalog, wronged>>, UpToDate(k, settings, catalog),
         \A duty \in MR!Unserved : duty \in excused \cup Pending(job[r], settings)
                                  => duty \in excused' \cup Pending(k, settings)
  PROVE  Uncrossed'
<1>1. job'[r] = k /\ \A q \in MR!Requests \ {r} : job'[q] = job[q]
  BY JobMoves
<1>2. \A q \in MR!Requests : UpToDate(job'[q], settings', catalog')
  BY <1>1 DEF Uncrossed
<1>3. MR!Unserved' = MR!Unserved
  BY DEF MR!Unserved
<1>4. ASSUME NEW duty \in MR!Unserved'
      PROVE  duty \in excused' \/ \E q \in MR!Requests : duty \in Pending(job'[q], settings')
  <2>1. \/ duty \in excused
        \/ \E q \in MR!Requests : duty \in Pending(job[q], settings)
    BY <1>3, <1>4 DEF Uncrossed
  <2> QED  BY <1>1, <1>3, <1>4, <2>1
<1>5. MR!Unserved' \subseteq excused' \cup UNION {Pending(job'[q], settings') : q \in MR!Requests}
  BY <1>4
<1> QED  BY <1>2, <1>5 DEF Uncrossed

\* A request that starts.
Begun(r, k) ==
  /\ k \in JobSet /\ Shape(k) /\ Quiet(k) /\ ~Judged(k) /\ k.kind # "none"
  /\ k.kind = "edit" => k.at = "catalog"
  /\ k.kind = "create" =>
       /\ k.at = "change" /\ catalog[k.id] = Unset
       /\ \A q \in MR!Requests : job[q].kind = "create" => job[q].id # k.id

LEMMA RequestStarts ==
  ASSUME JobsShaped, NEW r \in MR!Requests, MR!Begin(r)
  PROVE  \E k \in JobSet : Begun(r, k) /\ MR!Goes(r, k)
<1> USE NoPatchTyped
<1>1. ASSUME NEW patch \in Patches,
             MR!Goes(r, [MR!Idle EXCEPT !.kind = "save", !.patch = patch,
                                  !.at = IF MR!Named(patch) # {} THEN "catalog" ELSE "settings"])
      PROVE  \E k \in JobSet : Begun(r, k) /\ MR!Goes(r, k)
  <2> DEFINE at == IF MR!Named(patch) # {} THEN "catalog" ELSE "settings"
             k == [MR!Idle EXCEPT !.kind = "save", !.patch = patch, !.at = at]
  <2>1. at \in {"catalog", "settings"} /\ patch \in MR!PatchSet
    BY RolesAssumption
  <2> HIDE DEF at
  <2>2. k \in JobSet
    BY <2>1 DEF JobSet, MR!Idle, MR!Changes
  <2>3. Begun(r, k)
    BY <2>1, <2>2 DEF Begun, Shape, SaveShape, GotShape, NewJob, Quiet, Judged, MR!Idle
  <2> QED  BY <1>1, <2>2, <2>3 DEF at
<1>2. ASSUME NEW id \in Backends, NEW to \in Endpoints,
             MR!Goes(r, [MR!Idle EXCEPT !.kind = "edit", !.id = id, !.endpoint = to, !.at = "catalog"])
      PROVE  \E k \in JobSet : Begun(r, k) /\ MR!Goes(r, k)
  <2> DEFINE k == [MR!Idle EXCEPT !.kind = "edit", !.id = id, !.endpoint = to, !.at = "catalog"]
  <2>1. k \in JobSet
    BY DEF JobSet, MR!Idle, MR!Changes
  <2>2. Begun(r, k)
    BY <2>1 DEF Begun, Shape, EditShape, GotShape, NewJob, Quiet, Judged, MR!Idle, MR!NoPatch
  <2> QED  BY <1>2, <2>1, <2>2
<1>3. ASSUME NEW id \in Backends, NEW to \in Endpoints,
             catalog[id] = Unset /\ \A q \in MR!Requests : job[q].kind = "create" => job[q].id # id,
             MR!Goes(r, [MR!Idle EXCEPT !.kind = "create", !.id = id, !.endpoint = to, !.at = "change"])
      PROVE  \E k \in JobSet : Begun(r, k) /\ MR!Goes(r, k)
  <2> DEFINE k == [MR!Idle EXCEPT !.kind = "create", !.id = id, !.endpoint = to, !.at = "change"]
  <2>1. k \in JobSet
    BY DEF JobSet, MR!Idle, MR!Changes
  <2>2. Begun(r, k)
    BY <1>3, <2>1 DEF Begun, Shape, OtherShape, GotShape, NewJob, Quiet, Judged, MR!Idle
  <2> QED  BY <1>3, <2>1, <2>2
<1>4. ASSUME NEW id \in Backends,
             MR!Goes(r, [MR!Idle EXCEPT !.kind = "remove", !.id = id, !.at = "settings"])
      PROVE  \E k \in JobSet : Begun(r, k) /\ MR!Goes(r, k)
  <2> DEFINE k == [MR!Idle EXCEPT !.kind = "remove", !.id = id, !.at = "settings"]
  <2>1. k \in JobSet
    BY DEF JobSet, MR!Idle, MR!Changes
  <2>2. Begun(r, k)
    BY <2>1 DEF Begun, Shape, OtherShape, GotShape, NewJob, Quiet, Judged, MR!Idle
  <2> QED  BY <1>4, <2>1, <2>2
<1>5. ASSUME MR!Goes(r, [MR!Idle EXCEPT !.kind = "resolve", !.at = "settings"])
      PROVE  \E k \in JobSet : Begun(r, k) /\ MR!Goes(r, k)
  <2> DEFINE k == [MR!Idle EXCEPT !.kind = "resolve", !.at = "settings"]
  <2>1. k \in JobSet
    BY DEF JobSet, MR!Idle, MR!Changes
  <2>2. Begun(r, k)
    BY <2>1 DEF Begun, Shape, OtherShape, GotShape, NewJob, Quiet, Judged, MR!Idle
  <2> QED  BY <1>5, <2>1, <2>2
<1> QED  BY <1>1, <1>2, <1>3, <1>4, <1>5 DEF MR!Begin

LEMMA BeginKeeps ==
  ASSUME RolesInv, NEW r \in MR!Requests, MR!Begin(r)
  PROVE  RolesInv'
<1> USE DEF RolesInv
<1>1. PICK k \in JobSet : Begun(r, k) /\ MR!Goes(r, k)
  BY RequestStarts
<1>2. job[r] = MR!Idle
  BY DEF MR!Begin
<1>3. JobsShaped'
  <2>1. job' \in [MR!Requests -> JobSet] /\ \A q \in MR!Requests : Shape(job'[q])
    BY <1>1, JobMoves DEF Begun
  <2>2. made' \in 0..MaxRoleRequests
    <3>1. made < MaxRoleRequests /\ made' = made + 1
      BY DEF MR!Begin
    <3>2. made \in 0..MaxRoleRequests
      BY DEF JobsShaped, RolesTyped
    <3> QED  BY <3>1, <3>2, RolesAssumption
  <2> QED  BY <2>1, <2>2 DEF JobsShaped, RolesTyped, MR!Begin
<1>4. Caches'
  <2>1. job[r].at = "idle"
    BY <1>2 DEF MR!Idle
  <2>2. UNCHANGED <<settings, catalog, overtakenCaches, settingsCache, catalogCache>>
    BY DEF MR!Begin
  <2> QED  BY <1>1, <2>1, <2>2, CachesKept DEF Begun
<1>5. ASSUME ~crossed PROVE Uncrossed'
  <2>1. UpToDate(k, settings, catalog)
    BY <1>1 DEF UpToDate, Begun, Quiet
  <2>2. Pending(job[r], settings) = {}
    BY <1>2 DEF Pending, MR!Idle
  <2> QED  BY <1>1, <1>5, <2>1, <2>2, UncrossedKept DEF MR!Begin, Begun
<1> QED  BY <1>3, <1>4, <1>5 DEF MR!Begin

LEMMA IdleFresh ==
  ASSUME NEW rec, NEW table
  PROVE  UpToDate(MR!Idle, rec, table) /\ Pending(MR!Idle, rec) = {}
BY DEF UpToDate, Pending, MR!Idle, MR!Changes, Judged

LEMMA BusyKind ==
  ASSUME NEW j \in JobSet, Shape(j), j # MR!Idle
  PROVE  j.kind \in MR!Changes \cup {"resolve"}
BY DEF JobSet, Shape, OtherShape

\* A request that learns the row, or the rows, as they are.
LEMMA SettingsKnown ==
  ASSUME JobsShaped, NEW j \in JobSet, Shape(j), j.at \in {"settings", "row"},
         UpToDate(j, settings, catalog)
  PROVE  /\ UpToDate(MR!WithSettings(j, settings), settings, catalog)
         /\ \A duty \in MR!Unserved : duty \in Pending(j, settings)
              => duty \in Pending(MR!WithSettings(j, settings), settings)
<1> DEFINE k == MR!WithSettings(j, settings)
<1>0. settings \in MR!Rows
  BY DEF JobsShaped, RolesTyped
<1>1. CASE j.kind = "save"
  <2>1. k = MR!Judge(j, settings)
    BY <1>1 DEF MR!WithSettings
  <2>2. /\ k.kind = "save" /\ k.before = settings /\ k.proven = {} /\ k.at \in {"catalog", "write"}
    BY <1>0, <1>1, <2>1, SaveJudged
  <2> QED  BY <1>1, <2>2 DEF UpToDate, Pending, Judged
<1>2. CASE j.kind = "edit"
  <2>1. k = MR!Judge(j, settings)
    BY <1>2 DEF MR!WithSettings
  <2>2. CASE k = MR!Idle /\ MR!Affected(settings, j.id) = {}
    <3>1. ASSUME NEW duty \in MR!Unserved, duty \in Pending(j, settings) PROVE FALSE
      <4>1. MR!Effective(settings, duty) = j.id
        BY <1>2, <3>1 DEF Pending
      <4>2. duty \in MR!Affected(settings, j.id)
        BY <3>1, <4>1 DEF MR!Unserved, MR!UnservedIn, MR!Affected
      <4> QED  BY <2>2, <4>2
    <3> QED  BY <2>2, <3>1, IdleFresh
  <2>3. CASE /\ k.kind = "edit" /\ k.at = "list" /\ k.id = j.id /\ k.endpoint = j.endpoint
             /\ k.before = settings /\ k.todo = MR!Affected(settings, j.id) /\ k.proven = {}
    <3>1. UpToDate(k, settings, catalog)
      BY <1>2, <2>3 DEF UpToDate, Judged
    <3>2. ASSUME NEW duty \in MR!Unserved, duty \in Pending(j, settings)
          PROVE  duty \in Pending(k, settings)
      <4>1. MR!Effective(settings, duty) = j.id
        BY <1>2, <3>2 DEF Pending
      <4>2. duty \in MR!Affected(settings, j.id)
        BY <3>2, <4>1 DEF MR!Unserved, MR!UnservedIn, MR!Affected
      <4> QED  BY <2>3, <4>2 DEF Pending
    <3> QED  BY <3>1, <3>2
  <2> QED  BY <1>0, <1>2, <2>1, <2>2, <2>3, EditJudged
<1>3. CASE j.kind \notin {"save", "edit"}
  <2>1. k \in JobSet /\ Quiet(k) /\ k.kind \in {j.kind, "none"}
    BY <1>0, WithSettingsShape
  <2> QED  BY <1>3, <2>1 DEF UpToDate, Pending, Judged, Quiet
<1> QED  BY <1>1, <1>2, <1>3

LEMMA CatalogKnown ==
  ASSUME JobsShaped, NEW j \in JobSet, Shape(j), j.at \in {"catalog", "rows"},
         UpToDate(j, settings, catalog), NEW k \in MR!WithCatalog(j, catalog)
  PROVE  UpToDate(k, settings, catalog) /\ Pending(j, settings) = {}
<1>1. catalog \in MR!Catalogs
  BY DEF JobsShaped, RolesTyped
<1>2. Pending(j, settings) = {}
  BY DEF Pending
<1>3. CASE k = MR!Idle
  BY <1>2, <1>3, IdleFresh
<1>4. CASE Repoints(j, catalog, k)
  <2>1. k.kind = "edit" /\ k.at = "change" /\ k.id = j.id /\ k.before = catalog[j.id]
    BY <1>4 DEF JobSet, Repoints
  <2> QED  BY <1>2, <2>1 DEF UpToDate, Judged
<1>5. CASE Validated(j, k)
  <2>1. k.kind = "save" /\ k.at = "settings"
    BY <1>5 DEF JobSet, Validated
  <2> QED  BY <1>2, <2>1 DEF UpToDate, Judged
<1>6. ASSUME NEW id \in Backends, Finds(j, catalog, k, id) \/ Misses(j, k, id)
      PROVE  UpToDate(k, settings, catalog)
  <2>1. Judged(j)
    BY <1>6 DEF Judged, Finds, Misses
  <2>2. /\ k.kind = "save" /\ k.before = j.before /\ k.patch = j.patch /\ k.proven = j.proven
        /\ k.at \in {"list", "write", "catalog"}
        /\ k.at = "list" => catalog[k.id] = k.endpoint
    BY <1>6 DEF JobSet, Finds, Misses
  <2>3. \A duty \in k.proven : Proven(k, duty, catalog) <=> Proven(j, duty, catalog)
    BY <2>2 DEF Target, Proven
  <2> QED  BY <2>1, <2>2, <2>3 DEF UpToDate
<1>7. LooksUp(j, catalog, k)
  BY <1>1, WithCatalogShape
<1> QED  BY <1>2, <1>3, <1>4, <1>5, <1>6, <1>7 DEF LooksUp, GivenUp

LEMMA ReadSettingsKeeps ==
  ASSUME RolesInv, NEW r \in MR!Requests, MR!ReadSettings(r) \/ MR!KeepSettings(r)
  PROVE  RolesInv'
<1> DEFINE j == job[r]
           rec == IF j.at = "row" THEN j.got ELSE settingsCache
<1> USE DEF RolesInv
<1>1. j \in JobSet /\ Shape(j) /\ j.at \in {"settings", "row"}
  BY DEF JobsShaped, RolesTyped, MR!ReadSettings, MR!KeepSettings
<1>2. /\ UNCHANGED <<settings, catalog, catalogCache, made, excused, overtakenCaches, wronged>>
      /\ crossed => crossed'
      /\ crossed' \in BOOLEAN
      /\ settingsCache' = IF j.at = "row" THEN j.got ELSE settingsCache
  BY DEF MR!ReadSettings, MR!KeepSettings, JobsShaped, RolesTyped
<1>3. CASE j.at = "settings" /\ settingsCache = MR!NoCache
  <2> DEFINE k == [j EXCEPT !.at = "row", !.got = settings]
  <2>1. MR!Goes(r, k) /\ crossed' = crossed
    BY <1>3 DEF MR!ReadSettings, MR!KeepSettings
  <2>2. k \in JobSet /\ k.at = "row" /\ k.got = settings /\ k.kind = j.kind /\ k.id = j.id
    BY <1>1 DEF JobSet, JobsShaped, RolesTyped
  <2>3. Shape(k)
    BY <1>1, <1>3, <2>2
       DEF JobSet, Shape, GotShape, SaveShape, EditShape, OtherShape, NewJob, JobsShaped, RolesTyped, MR!Idle
  <2>4. JobsShaped'
    BY <1>2, <2>1, <2>2, <2>3, <1>3, JobMoves DEF JobsShaped, RolesTyped
  <2>5. Caches'
    BY <1>1, <1>2, <1>3, <2>1, <2>2, <2>3, CachesKept
  <2>6. ASSUME ~crossed' PROVE Uncrossed'
    <3>1. Uncrossed /\ UpToDate(j, settings, catalog)
      BY <1>2, <2>6 DEF Uncrossed
    <3>2. UpToDate(k, settings, catalog) /\ Pending(k, settings) = Pending(j, settings)
      BY <1>1, <1>3, <2>2, <3>1 DEF UpToDate, Pending, Judged, JobSet
    <3> QED  BY <1>2, <2>1, <2>2, <2>3, <3>1, <3>2, UncrossedKept
  <2> QED  BY <2>4, <2>5, <2>6
<1>4. CASE j.at = "row" \/ settingsCache # MR!NoCache
  <2> DEFINE k == MR!WithSettings(j, rec)
  <2>1. /\ MR!Goes(r, k)
        /\ j.at = "settings" => crossed' = (crossed \/ (j.kind \in MR!Changes /\ settingsCache # settings))
    BY <1>4 DEF MR!ReadSettings, MR!KeepSettings
  <2>2. rec \in MR!Rows
    BY <1>1, <1>4 DEF Shape, GotShape, JobsShaped, RolesTyped
  <2>3. /\ k \in JobSet /\ Shape(k) /\ Quiet(k)
        /\ k.kind \in {j.kind, "none"}
        /\ k.kind # "none" => k.id = j.id
        /\ k.kind = "create" => k.at # "change"
    BY <1>1, <2>2, WithSettingsShape
  <2> HIDE DEF k
  <2>4. JobsShaped'
    <3>1. settingsCache' \in MR!Rows \cup {MR!NoCache}
      BY <1>2, <2>2 DEF JobsShaped, RolesTyped
    <3> QED  BY <1>2, <2>1, <2>3, <3>1, JobMoves DEF JobsShaped, RolesTyped
  <2>5. Caches'
    <3>1. settingsCache' \in {settingsCache, settings} \/ "settings" \in overtakenCaches
      BY <1>2 DEF Caches, OnTheWay
    <3>2. j.kind # "create"
      BY <1>1 DEF Shape, OtherShape
    <3> QED  BY <1>1, <1>2, <2>1, <2>3, <3>1, <3>2, CachesKept
  <2>6. ASSUME ~crossed' PROVE Uncrossed'
    <3>1. Uncrossed /\ UpToDate(j, settings, catalog)
      BY <1>2, <2>6 DEF Uncrossed
    <3>2. CASE rec = settings
      <4>1. /\ UpToDate(k, settings, catalog)
            /\ \A duty \in MR!Unserved : duty \in Pending(j, settings) => duty \in Pending(k, settings)
        BY <1>1, <3>1, <3>2, SettingsKnown DEF k
      <4> QED  BY <1>2, <2>1, <2>3, <3>1, <4>1, UncrossedKept
    <3>3. CASE rec # settings
      <4>1. j.kind \notin MR!Changes
        BY <1>1, <1>4, <2>1, <2>6, <3>1, <3>3 DEF UpToDate
      <4>2. UpToDate(k, settings, catalog) /\ Pending(j, settings) = {}
        BY <2>3, <4>1 DEF UpToDate, Pending, Judged, MR!Changes
      <4> QED  BY <1>2, <2>1, <2>3, <3>1, <4>2, UncrossedKept
    <3> QED  BY <3>2, <3>3
  <2> QED  BY <2>4, <2>5, <2>6
<1> QED  BY <1>1, <1>3, <1>4

LEMMA ReadCatalogKeeps ==
  ASSUME RolesInv, NEW r \in MR!Requests, MR!ReadCatalog(r) \/ MR!KeepCatalog(r)
  PROVE  RolesInv'
<1> DEFINE j == job[r]
           table == IF j.at = "rows" THEN j.got ELSE catalogCache
<1> USE DEF RolesInv
<1>1. j \in JobSet /\ Shape(j) /\ j.at \in {"catalog", "rows"}
  BY DEF JobsShaped, RolesTyped, MR!ReadCatalog, MR!KeepCatalog
<1>2. /\ UNCHANGED <<settings, catalog, settingsCache, made, excused, overtakenCaches, wronged>>
      /\ crossed => crossed'
      /\ crossed' \in BOOLEAN
      /\ catalogCache' = IF j.at = "rows" THEN j.got ELSE catalogCache
  BY DEF MR!ReadCatalog, MR!KeepCatalog, JobsShaped, RolesTyped
<1>3. CASE j.at = "catalog" /\ catalogCache = MR!NoCache
  <2> DEFINE k == [j EXCEPT !.at = "rows", !.got = catalog]
  <2>1. MR!Goes(r, k) /\ crossed' = crossed
    BY <1>3 DEF MR!ReadCatalog, MR!KeepCatalog
  <2>2. k \in JobSet /\ k.at = "rows" /\ k.got = catalog /\ k.kind = j.kind /\ k.id = j.id
    BY <1>1 DEF JobSet, JobsShaped, RolesTyped
  <2>3. Shape(k)
    BY <1>1, <1>3, <2>2
       DEF JobSet, Shape, GotShape, SaveShape, EditShape, OtherShape, NewJob, JobsShaped, RolesTyped, MR!Idle
  <2>4. JobsShaped'
    BY <1>2, <2>1, <2>2, <2>3, <1>3, JobMoves DEF JobsShaped, RolesTyped
  <2>5. Caches'
    BY <1>1, <1>2, <1>3, <2>1, <2>2, <2>3, CachesKept
  <2>6. ASSUME ~crossed' PROVE Uncrossed'
    <3>1. Uncrossed /\ UpToDate(j, settings, catalog)
      BY <1>2, <2>6 DEF Uncrossed
    <3>2. Pending(k, settings) = Pending(j, settings)
      BY <1>1, <1>3, <2>2, <3>1 DEF Pending, JobSet
    <3>3. /\ k.before = j.before /\ k.patch = j.patch /\ k.proven = j.proven /\ k.at = "rows"
      BY <1>1 DEF JobSet
    <3>4. \A duty \in k.proven : Proven(k, duty, catalog) <=> Proven(j, duty, catalog)
      BY <3>3 DEF Target, Proven
    <3>5. Judged(k) <=> Judged(j)
      BY <1>1, <1>3, <2>2, <3>3 DEF Judged
    <3>6. UpToDate(k, settings, catalog)
      BY <1>1, <1>3, <2>2, <3>1, <3>3, <3>4, <3>5 DEF UpToDate
    <3> QED  BY <1>2, <2>1, <2>2, <2>3, <3>1, <3>2, <3>6, UncrossedKept
  <2> QED  BY <2>4, <2>5, <2>6
<1>4. CASE j.at = "rows" \/ catalogCache # MR!NoCache
  <2>1. PICK k \in MR!WithCatalog(j, table) : MR!Goes(r, k)
    <3>1. CASE j.at = "rows"
      BY <3>1 DEF MR!ReadCatalog, MR!KeepCatalog
    <3>2. CASE j.at = "catalog" /\ catalogCache # MR!NoCache
      BY <3>2 DEF MR!ReadCatalog, MR!KeepCatalog
    <3> QED  BY <1>1, <1>4, <3>1, <3>2
  <2>2. j.at = "catalog" => crossed' = (crossed \/ (j.kind \in MR!Changes /\ catalogCache # catalog))
    BY <1>4 DEF MR!ReadCatalog, MR!KeepCatalog
  <2>3. table \in MR!Catalogs
    BY <1>1, <1>4 DEF Shape, GotShape, JobsShaped, RolesTyped
  <2>4. k \in JobSet /\ Shape(k) /\ Quiet(k) /\ LooksUp(j, table, k)
    BY <1>1, <2>3, WithCatalogShape
  <2>5. k.kind # "create"
    <3>1. CASE GivenUp(j, k)
      BY <3>1 DEF GivenUp, MR!Idle
    <3>2. CASE ~GivenUp(j, k)
      <4>1. j.kind \in {"save", "edit"}
        BY <2>4, <3>2 DEF LooksUp, Repoints, Validated, Finds, Misses
      <4>2. CASE Repoints(j, table, k) \/ Validated(j, k)
        BY <1>1, <4>1, <4>2 DEF Repoints, Validated, JobSet
      <4>3. ASSUME NEW id \in Backends, Finds(j, table, k, id) \/ Misses(j, k, id)
            PROVE  k.kind = j.kind
        BY <1>1, <4>3 DEF Finds, Misses, JobSet
      <4> QED  BY <2>4, <3>2, <4>1, <4>2, <4>3 DEF LooksUp
    <3> QED  BY <3>1, <3>2
  <2>6. JobsShaped'
    <3>1. catalogCache' \in MR!Catalogs \cup {MR!NoCache}
      BY <1>2, <2>3 DEF JobsShaped, RolesTyped
    <3> QED  BY <1>2, <2>1, <2>4, <3>1, JobMoves DEF JobsShaped, RolesTyped
  <2>7. Caches'
    <3>1. catalogCache' \in {catalogCache, catalog} \/ "catalog" \in overtakenCaches
      BY <1>2 DEF Caches, OnTheWay
    <3> QED  BY <1>1, <1>2, <2>1, <2>4, <2>5, <3>1, CachesKept
  <2>8. ASSUME ~crossed' PROVE Uncrossed'
    <3>1. Uncrossed /\ UpToDate(j, settings, catalog)
      BY <1>2, <2>8 DEF Uncrossed
    <3>2. CASE table = catalog
      <4>1. UpToDate(k, settings, catalog) /\ Pending(j, settings) = {}
        BY <1>1, <3>1, <3>2, CatalogKnown
      <4> QED  BY <1>2, <2>1, <2>4, <3>1, <4>1, UncrossedKept
    <3>3. CASE table # catalog
      <4>1. j.kind \notin MR!Changes
        BY <1>1, <1>4, <2>2, <2>8, <3>1, <3>3 DEF UpToDate
      <4>2. k = MR!Idle
        BY <2>4, <4>1 DEF LooksUp, GivenUp, Repoints, Validated, Finds, Misses, MR!Changes
      <4>3. UpToDate(k, settings, catalog) /\ Pending(j, settings) = {}
        BY <4>1, <4>2, IdleFresh DEF Pending, MR!Changes
      <4> QED  BY <1>2, <2>1, <2>4, <3>1, <4>3, UncrossedKept
    <3> QED  BY <3>2, <3>3
  <2> QED  BY <2>6, <2>7, <2>8
<1> QED  BY <1>1, <1>3, <1>4

-----------------------------------------------------------------------------
\* The listing.
LEMMA TargetOfChecked ==
  ASSUME NEW j \in JobSet, j.at = "list", Shape(j), NEW k,
         k.before = j.before, k.patch \in MR!PatchSet, k.patch.backend = j.patch.backend,
         NEW duty \in Roles
  PROVE  /\ Target(k, duty) = Target(j, duty)
         /\ duty \in MR!Checked(j) => Target(j, duty) = j.id
<1>1. j.before \in MR!Rows /\ j.patch \in MR!PatchSet
  BY AtList
<1>2. Target(k, duty) = Target(j, duty)
  BY <1>1, EffectiveOver DEF Target
<1>3. ASSUME duty \in MR!Checked(j) PROVE Target(j, duty) = j.id
  <2>1. CASE j.kind = "save"
    BY <1>3, <2>1, AtList DEF MR!Group, Target
  <2>2. CASE j.kind = "edit"
    <3>1. MR!Effective(j.before, duty) = j.id
      BY <1>3, <2>2, AtList DEF Shape, EditShape, MR!Affected
    <3>2. DOMAIN j.patch.backend = {}
      BY <2>2, NoPatchTyped DEF Shape, EditShape
    <3>3. MR!Effective(MR!Over(j.before, j.patch), duty) = MR!Effective(j.before, duty)
      BY <1>1, <3>2, OverTyped, RolesAssumption DEF MR!Effective
    <3> QED  BY <3>1, <3>3 DEF Target
  <2> QED  BY <2>1, <2>2, AtList
<1> QED  BY <1>2, <1>3

LEMMA SettledFresh ==
  ASSUME JobsShaped, NEW j \in JobSet, j.at = "list", Shape(j), UpToDate(j, settings, catalog)
  PROVE  UpToDate(Settled(j), settings, catalog)
<1> DEFINE k == Settled(j)
<1>1. Judged(j) /\ j.before = settings /\ catalog[j.id] = j.endpoint /\ j.endpoint # Unset
      /\ j.before \in MR!Rows /\ j.patch \in MR!PatchSet
  BY AtList, NoCacheApart, RolesAssumption DEF Judged, UpToDate
<1>2. /\ k \in JobSet /\ k.before = j.before /\ k.at \in {"catalog", "write"}
      /\ k.proven = j.proven \cup MR!Checked(j) /\ k.patch.backend = j.patch.backend
      /\ k.patch.model = MR!Clearing(j.patch.model, Gone(j)) /\ k.patch \in MR!PatchSet
      /\ j.proven \subseteq Roles /\ MR!Checked(j) \subseteq Roles
  BY SettledFields, AtList DEF MR!Then, JobSet
<1>3. j.patch.model \in MR!Columns(Models) /\ Gone(j) \in SUBSET Roles
  BY <1>1, AtList DEF MR!PatchSet
<1>4. /\ DOMAIN k.patch.model = Gone(j) \cup DOMAIN j.patch.model
      /\ \A duty \in Gone(j) : k.patch.model[duty] = Unset
      /\ \A duty \in (DOMAIN j.patch.model) \ Gone(j) : k.patch.model[duty] = j.patch.model[duty]
  <2> DEFINE model == MR!Clearing(j.patch.model, Gone(j))
  <2>1. /\ DOMAIN model = Gone(j) \cup DOMAIN j.patch.model
        /\ \A duty \in Gone(j) : model[duty] = Unset
        /\ \A duty \in (DOMAIN j.patch.model) \ Gone(j) : model[duty] = j.patch.model[duty]
    BY <1>3, ClearingTyped
  <2>2. k.patch.model = model
    BY <1>2
  <2> QED  BY <2>1, <2>2
<1> HIDE DEF k
<1>5. ASSUME NEW duty \in k.proven
      PROVE  Proven(k, duty, catalog)
  <2>1. Target(k, duty) = Target(j, duty) /\ (duty \in MR!Checked(j) => Target(j, duty) = j.id)
    BY <1>2, TargetOfChecked
  <2>2. CASE duty \in MR!Checked(j)
    <3>1. duty \notin DOMAIN j.patch.model
      BY <2>2, AtList
    <3>2. duty \in Gone(j) <=> j.before.model[duty] \notin Serves[j.endpoint]
      BY <2>2 DEF Gone
    <3>3. j.id # Unset
      BY AtList, RolesAssumption
    <3> QED  BY <1>1, <1>2, <1>4, <2>1, <2>2, <3>1, <3>2, <3>3 DEF Proven
  <2>3. CASE duty \notin MR!Checked(j)
    <3>1. duty \in j.proven /\ duty \notin Gone(j)
      BY <1>2, <2>3 DEF Gone
    <3>2. Proven(j, duty, catalog)
      BY <1>1, <3>1 DEF UpToDate
    <3> QED  BY <1>2, <1>4, <2>1, <3>1, <3>2 DEF Proven
  <2> QED  BY <2>2, <2>3
<1> QED  BY <1>1, <1>2, <1>5 DEF UpToDate, k

LEMMA PendingListed ==
  ASSUME JobsShaped, NEW j \in JobSet, j.at = "list", Shape(j), UpToDate(j, settings, catalog),
         j.kind = "edit", NEW duty \in MR!Unserved, duty \in j.todo
  PROVE  duty \in Gone(j)
<1>1. j.before = settings /\ catalog[j.id] = j.endpoint /\ MR!Checked(j) = j.todo
  BY AtList DEF Judged, UpToDate
<1>2. MR!Effective(settings, duty) = j.id
  BY <1>1 DEF Shape, EditShape, MR!Affected
<1>3. settings.model[duty] \notin Serves[catalog[j.id]]
  BY <1>2 DEF MR!Unserved, MR!UnservedIn
<1> QED  BY <1>1, <1>3 DEF Gone

LEMMA ListingKeeps ==
  ASSUME RolesInv, NEW r \in MR!Requests, MR!Listed(r) \/ MR!ListingFails(r)
  PROVE  RolesInv'
<1> DEFINE j == job[r]
<1> USE DEF RolesInv
<1>1. j \in JobSet /\ Shape(j) /\ j.at = "list"
  BY DEF JobsShaped, RolesTyped, MR!Listed, MR!ListingFails
<1>2. UNCHANGED <<settings, catalog, settingsCache, catalogCache, made, crossed, overtakenCaches, wronged>>
  BY DEF MR!Listed, MR!ListingFails
<1>3. /\ MR!Checked(j) \subseteq Roles /\ j.kind \in {"save", "edit"}
      /\ j.kind = "edit" => MR!Checked(j) = j.todo
  BY <1>1, AtList
<1>4. \/ MR!Goes(r, Settled(j)) /\ UNCHANGED excused
      \/ j.kind = "edit" /\ Gone(j) = {} /\ MR!Goes(r, MR!Idle) /\ excused' = excused \ MR!Checked(j)
      \/ j.kind = "edit" /\ MR!Goes(r, MR!Idle) /\ excused' = excused \cup MR!Checked(j)
      \/ j.kind = "save" /\ MR!Goes(r, Unsettled(j)) /\ UNCHANGED excused
  BY <1>3 DEF MR!Listed, MR!ListingFails, Settled, Unsettled, Gone, MR!Ends
<1>5. ASSUME NEW k \in JobSet, MR!Goes(r, k), Shape(k), Quiet(k), k.kind # "create",
             excused' \subseteq Roles,
             UpToDate(j, settings, catalog) => UpToDate(k, settings, catalog),
             UpToDate(j, settings, catalog) =>
               \A duty \in MR!Unserved : duty \in excused \cup Pending(j, settings)
                                        => duty \in excused' \cup Pending(k, settings)
      PROVE  RolesInv'
  <2>1. JobsShaped'
    BY <1>2, <1>5, JobMoves DEF JobsShaped, RolesTyped
  <2>2. Caches'
    BY <1>1, <1>2, <1>5, CachesKept
  <2>3. ASSUME ~crossed' PROVE Uncrossed'
    <3>1. Uncrossed /\ UpToDate(j, settings, catalog)
      BY <1>2, <2>3 DEF Uncrossed
    <3> QED  BY <1>2, <1>5, <3>1, UncrossedKept
  <2> QED  BY <2>1, <2>2, <2>3
<1>6. CASE MR!Goes(r, Settled(j)) /\ UNCHANGED excused
  <2> DEFINE k == Settled(j)
  <2>1. k \in JobSet /\ k.kind = j.kind /\ k.at = MR!Then(j)
        /\ k.patch.model = MR!Clearing(j.patch.model, Gone(j))
    BY <1>1, SettledFields
  <2>2. Shape(k) /\ Quiet(k)
    BY <1>1, SettledShape
  <2>3. ASSUME UpToDate(j, settings, catalog), NEW duty \in MR!Unserved,
               duty \in Pending(j, settings)
        PROVE  duty \in Pending(k, settings)
    <3>1. j.kind = "edit" /\ duty \in j.todo
      BY <1>1, <2>3 DEF Pending
    <3>2. duty \in Gone(j)
      BY <1>1, <2>3, <3>1, PendingListed
    <3>3. k.kind = "edit" /\ k.at = "write"
      BY <1>3, <2>1, <3>1 DEF MR!Then
    <3>4. j.patch \in MR!PatchSet /\ Gone(j) \in SUBSET Roles
      BY <1>1, <1>3, AtList
    <3>5. j.patch.model \in MR!Columns(Models)
      BY <3>4 DEF MR!PatchSet
    <3>6. DOMAIN MR!Clearing(j.patch.model, Gone(j)) = Gone(j) \cup DOMAIN j.patch.model
      BY <3>4, <3>5, ClearingTyped
    <3> QED  BY <2>1, <3>2, <3>3, <3>6 DEF Pending
  <2>4. excused' \subseteq Roles
    BY <1>6 DEF JobsShaped, RolesTyped
  <2> QED  BY <1>1, <1>3, <1>5, <1>6, <2>1, <2>2, <2>3, <2>4, SettledFresh
<1>7. CASE j.kind = "edit" /\ Gone(j) = {} /\ MR!Goes(r, MR!Idle) /\ excused' = excused \ MR!Checked(j)
  <2>1. \A duty \in MR!Unserved : UpToDate(j, settings, catalog) => duty \notin j.todo
    BY <1>1, <1>7, PendingListed
  <2>2. Pending(j, settings) = j.todo
    BY <1>1, <1>7 DEF Pending
  <2>3. MR!Idle \in JobSet /\ Shape(MR!Idle) /\ Quiet(MR!Idle) /\ MR!Idle.kind # "create"
    BY IdleTyped DEF Quiet, MR!Idle
  <2>4. excused' \subseteq Roles
    BY <1>7 DEF JobsShaped, RolesTyped
  <2> QED  BY <1>3, <1>5, <1>7, <2>1, <2>2, <2>3, <2>4, IdleFresh
<1>8. CASE j.kind = "edit" /\ MR!Goes(r, MR!Idle) /\ excused' = excused \cup MR!Checked(j)
  <2>1. Pending(j, settings) = j.todo
    BY <1>1, <1>8 DEF Pending
  <2>2. MR!Idle \in JobSet /\ Shape(MR!Idle) /\ Quiet(MR!Idle) /\ MR!Idle.kind # "create"
    BY IdleTyped DEF Quiet, MR!Idle
  <2>3. excused' \subseteq Roles
    BY <1>3, <1>8 DEF JobsShaped, RolesTyped
  <2> QED  BY <1>3, <1>5, <1>8, <2>1, <2>2, <2>3, IdleFresh
<1>9. CASE j.kind = "save" /\ MR!Goes(r, Unsettled(j)) /\ UNCHANGED excused
  <2> DEFINE k == Unsettled(j)
  <2>1. /\ k \in JobSet /\ Shape(k) /\ Quiet(k)
        /\ k.kind = j.kind /\ k.id = j.id /\ k.before = j.before
        /\ k.proven = j.proven /\ k.patch = j.patch
    BY <1>1, <1>9, UnsettledShape
  <2>2. \A duty \in k.proven : Proven(k, duty, catalog) <=> Proven(j, duty, catalog)
    BY <2>1 DEF Target, Proven
  <2>3. Judged(j)
    BY <1>1, <1>9, AtList, NoCacheApart DEF Judged
  <2>4. k.at # "list"
    BY <1>1, <2>1 DEF Unsettled, MR!Then, JobSet
  <2>5. UpToDate(j, settings, catalog) => UpToDate(k, settings, catalog)
    BY <1>9, <2>1, <2>2, <2>3, <2>4 DEF UpToDate, Quiet
  <2>6. Pending(j, settings) = {}
    BY <1>9 DEF Pending
  <2>7. excused' \subseteq Roles
    BY <1>9 DEF JobsShaped, RolesTyped
  <2> QED  BY <1>5, <1>9, <2>1, <2>5, <2>6, <2>7
<1> QED  BY <1>4, <1>6, <1>7, <1>8, <1>9

-----------------------------------------------------------------------------
\* The writes.
LEMMA NoChangeFresh ==
  ASSUME NEW j, j.kind \notin MR!Changes, NEW rec, NEW table
  PROVE  UpToDate(j, rec, table) /\ Pending(j, rec) = {}
BY DEF UpToDate, Pending, Judged, MR!Changes

LEMMA Alone ==
  ASSUME Uncrossed, NEW r \in MR!Requests, ~MR!Meets(r)
  PROVE  /\ \A q \in MR!Requests \ {r} : job[q].kind \notin MR!Changes
         /\ MR!Unserved \subseteq excused \cup Pending(job[r], settings)
<1>1. \A q \in MR!Requests \ {r} : job[q].kind \notin MR!Changes
  BY DEF MR!Meets
<1>2. \A q \in MR!Requests \ {r} : Pending(job[q], settings) = {}
  BY <1>1, NoChangeFresh
<1> QED  BY <1>1, <1>2 DEF Uncrossed

\* A write of the row leaves no selection that is neither proven nor excused, and clears
\* none that is served.
LEMMA UpsertSound ==
  ASSUME JobsShaped, NEW j \in JobSet, j.at = "write", Shape(j), UpToDate(j, settings, catalog),
         MR!Unserved \subseteq excused \cup Pending(j, settings)
  PROVE  LET record == MR!Over(settings, j.patch)
             cleared == {duty \in j.proven \cap DOMAIN j.patch.model : j.patch.model[duty] = Unset}
             exempt == IF "transcriptions" \in {settings.mode, record.mode} THEN {Audio} ELSE {} IN
         /\ \A duty \in MR!UnservedIn(record, catalog) :
              /\ duty \notin j.proven
              /\ \/ duty \in excused \/ duty \in (DOMAIN j.patch.model) \ cleared
                 \/ duty \in j.failed \/ duty \in exempt
         /\ \A duty \in cleared :
              LET id == MR!Effective(record, duty) IN
              id # Unset /\ catalog[id] # Unset => settings.model[duty] \notin Serves[catalog[id]]
<1> DEFINE record == MR!Over(settings, j.patch)
           cleared == {duty \in j.proven \cap DOMAIN j.patch.model : j.patch.model[duty] = Unset}
           exempt == IF "transcriptions" \in {settings.mode, record.mode} THEN {Audio} ELSE {}
<1>1. j.kind \in {"save", "edit"}
  BY DEF JobSet, MR!Changes, Shape, OtherShape, MR!Idle
<1>2. j.kind = "save" => j.before # MR!NoCache
  BY DEF Shape, SaveShape
<1>3. /\ Judged(j) /\ j.before = settings /\ settings \in MR!Rows /\ j.patch \in MR!PatchSet
      /\ \A duty \in j.proven : Proven(j, duty, catalog)
  BY <1>1, <1>2 DEF Judged, UpToDate, JobsShaped, RolesTyped, JobSet
<1>4. /\ record \in MR!Rows
      /\ \A duty \in Roles :
           /\ record.backend[duty] =
                IF duty \in DOMAIN j.patch.backend THEN j.patch.backend[duty]
                                                   ELSE settings.backend[duty]
           /\ record.model[duty] =
                IF duty \in DOMAIN j.patch.model THEN j.patch.model[duty]
                                                 ELSE settings.model[duty]
      /\ record.mode = IF j.patch.mode = Unset THEN settings.mode ELSE j.patch.mode
  BY <1>3, OverTyped
<1>5. \A duty \in j.proven : MR!Effective(record, duty) = Target(j, duty)
  BY <1>3 DEF Target
<1>6. ASSUME NEW duty \in MR!UnservedIn(record, catalog)
      PROVE  /\ duty \notin j.proven
             /\ \/ duty \in excused \/ duty \in (DOMAIN j.patch.model) \ cleared
                \/ duty \in j.failed \/ duty \in exempt
  <2> DEFINE id == MR!Effective(record, duty)
  <2>1. /\ duty \in MR!listedModelRoles(record.mode) /\ duty \in Roles
        /\ record.model[duty] # Unset /\ id # Unset /\ catalog[id] # Unset
        /\ record.model[duty] \notin Serves[catalog[id]]
    BY <1>6 DEF MR!UnservedIn, MR!listedModelRoles
  <2> HIDE DEF id, record, exempt, cleared
  <2>2. duty \notin j.proven
    <3>1. SUFFICES ASSUME duty \in j.proven PROVE FALSE
      OBVIOUS
    <3>2. Proven(j, duty, catalog) /\ Target(j, duty) = id
      BY <1>3, <1>5, <3>1 DEF id
    <3>3. CASE duty \in DOMAIN j.patch.model
      BY <1>4, <2>1, <3>2, <3>3 DEF Proven
    <3>4. CASE duty \notin DOMAIN j.patch.model
      BY <1>3, <1>4, <2>1, <3>2, <3>4 DEF Proven
    <3> QED  BY <3>3, <3>4
  <2>3. CASE duty \in DOMAIN j.patch.model
    BY <1>4, <2>1, <2>2, <2>3 DEF cleared
  <2>4. CASE duty \notin DOMAIN j.patch.model
    <3>1. record.model[duty] = settings.model[duty]
      BY <1>4, <2>1, <2>4
    <3>2. CASE id = MR!Effective(settings, duty)
      <4>1. CASE duty \in MR!listedModelRoles(settings.mode)
        <5>1. duty \in MR!Unserved
          BY <2>1, <3>1, <3>2, <4>1 DEF MR!Unserved, MR!UnservedIn
        <5>2. duty \in Pending(j, settings) => duty \in DOMAIN j.patch.model
          BY DEF Pending
        <5> QED  BY <2>2, <2>4, <5>1, <5>2
      <4>2. CASE duty \notin MR!listedModelRoles(settings.mode)
        <5>1. settings.mode = "transcriptions" /\ duty = Audio
          BY <1>3, <2>1, <4>2 DEF MR!listedModelRoles, MR!Rows, MR!Modes
        <5> QED  BY <2>2, <5>1 DEF exempt
      <4> QED  BY <4>1, <4>2
    <3>3. CASE id # MR!Effective(settings, duty)
      <4>1. DOMAIN j.patch.backend # {}
        <5>1. CASE DOMAIN j.patch.backend = {}
          <6>1. record.backend[duty] = settings.backend[duty] /\ record.backend[Chat] = settings.backend[Chat]
            BY <1>4, <2>1, <5>1, RolesAssumption
          <6> QED  BY <3>3, <6>1 DEF MR!Effective, id
        <5> QED  BY <5>1
      <4>2. j.kind = "save"
        BY <1>1, <4>1, NoPatchTyped DEF Shape, EditShape
      <4>3. duty \in MR!Repointed(settings, j.patch)
        BY <2>1, <2>4, <3>1, <3>3, <4>1 DEF MR!Repointed, record, id
      <4>4. MR!Repointed(settings, j.patch) \subseteq j.todo \cup j.proven \cup j.failed /\ j.todo = {}
        BY <1>2, <1>3, <4>2 DEF Shape, SaveShape
      <4> QED  BY <2>2, <4>3, <4>4
    <3> QED  BY <3>2, <3>3
  <2> QED  BY <2>3, <2>4
<1>7. ASSUME NEW duty \in cleared
      PROVE  LET id == MR!Effective(record, duty) IN
             id # Unset /\ catalog[id] # Unset => settings.model[duty] \notin Serves[catalog[id]]
  <2>1. Proven(j, duty, catalog) /\ duty \in DOMAIN j.patch.model
    BY <1>3, <1>7
  <2> QED  BY <1>3, <1>5, <1>7, <2>1 DEF Proven
<1> QED  BY <1>6, <1>7

LEMMA NamedFacts ==
  ASSUME NEW patch \in MR!PatchSet, NEW duty \in DOMAIN patch.backend, patch.backend[duty] # Unset
  PROVE  patch.backend[duty] \in MR!Named(patch)
BY DEF MR!Named

LEMMA UpsertStands ==
  ASSUME JobsShaped, NEW patch \in MR!PatchSet, MR!NamedBackendsStand,
         \A id \in MR!Named(patch) : catalog[id] # Unset
  PROVE  MR!Stand(MR!Over(settings, patch), catalog)
<1>1. settings \in MR!Rows
  BY DEF JobsShaped, RolesTyped
<1>2. \A duty \in Roles : MR!Over(settings, patch).backend[duty] =
        IF duty \in DOMAIN patch.backend THEN patch.backend[duty] ELSE settings.backend[duty]
  BY <1>1, OverTyped
<1> QED  BY <1>2, NamedFacts DEF MR!NamedBackendsStand, MR!Stand

LEMMA UpsertShape ==
  ASSUME NEW j \in JobSet, Shape(j), j.at = "write", NEW record \in MR!Rows
  PROVE  LET k == [j EXCEPT !.at = "written", !.got = record] IN
         /\ k \in JobSet /\ Shape(k) /\ k.at = "written" /\ k.got = record
         /\ k.kind = j.kind /\ j.kind \in {"save", "edit"} /\ j.patch \in MR!PatchSet
         /\ j.kind = "edit" => MR!Named(j.patch) = {}
<1> DEFINE k == [j EXCEPT !.at = "written", !.got = record]
<1>1. k \in JobSet
  BY DEF JobSet
<1>2. /\ k.at = "written" /\ k.got = record /\ k.kind = j.kind /\ k.before = j.before
      /\ k.id = j.id /\ k.endpoint = j.endpoint /\ k.failed = j.failed /\ k.todo = j.todo
      /\ k.proven = j.proven /\ k.patch = j.patch
  BY DEF JobSet
<1>3. j.kind \in {"save", "edit"} /\ j.patch \in MR!PatchSet
  BY DEF JobSet, MR!Changes, Shape, OtherShape, MR!Idle
<1>4. j.kind = "edit" => MR!Named(j.patch) = {}
  BY NoPatchTyped DEF Shape, EditShape, MR!Named
<1>5. j.kind = "save" => SaveShape(k)
  BY <1>2 DEF Shape, SaveShape, NewJob
<1>6. j.kind = "edit" => EditShape(k)
  BY <1>2 DEF Shape, EditShape
<1> HIDE DEF k
<1>7. Shape(k)
  BY <1>2, <1>3, <1>5, <1>6 DEF Shape, GotShape
<1> QED  BY <1>1, <1>2, <1>3, <1>4, <1>7 DEF k

LEMMA UpsertKeeps ==
  ASSUME RolesInv, NEW r \in MR!Requests, MR!Upsert(r)
  PROVE  RolesInv'
<1> DEFINE j == job[r]
           record == MR!Over(settings, j.patch)
           k == [j EXCEPT !.at = "written", !.got = record]
<1> USE DEF RolesInv
<1>1. j \in JobSet /\ Shape(j) /\ j.at = "write"
  BY DEF JobsShaped, RolesTyped, MR!Upsert
<1>2. UNCHANGED <<catalog, settingsCache, catalogCache, made>>
  BY DEF MR!Upsert
<1>3. record \in MR!Rows /\ settings \in MR!Rows
  BY <1>1, UpsertShape, OverTyped DEF JobsShaped, RolesTyped
<1>4. /\ k \in JobSet /\ Shape(k) /\ k.at = "written" /\ k.got = record
      /\ k.kind = j.kind /\ j.kind \in {"save", "edit"} /\ j.patch \in MR!PatchSet
      /\ j.kind = "edit" => MR!Named(j.patch) = {}
  BY <1>1, <1>3, UpsertShape
<1> HIDE DEF k, record
<1>5. CASE /\ MR!Goes(r, MR!Idle) /\ UNCHANGED <<settings, excused, wronged, crossed, overtakenCaches>>
           /\ MR!Named(j.patch) # {}
  <2>1. MR!Idle \in JobSet /\ Shape(MR!Idle) /\ Quiet(MR!Idle) /\ MR!Idle.kind # "create"
    BY IdleTyped DEF Quiet, MR!Idle
  <2>2. JobsShaped'
    BY <1>2, <1>5, <2>1, JobMoves DEF JobsShaped, RolesTyped
  <2>3. Caches'
    BY <1>1, <1>2, <1>5, <2>1, CachesKept
  <2>4. ASSUME ~crossed' PROVE Uncrossed'
    <3>1. Uncrossed
      BY <1>5, <2>4
    <3>2. Pending(j, settings) = {}
      BY <1>4, <1>5 DEF Pending
    <3> QED  BY <1>2, <1>5, <2>1, <3>1, <3>2, IdleFresh, UncrossedKept
  <2> QED  BY <2>2, <2>3, <2>4
<1>6. CASE /\ \A id \in MR!Named(j.patch) : catalog[id] # Unset
           /\ settings' = record /\ MR!Goes(r, k) /\ MR!Remember(r, record)
           /\ overtakenCaches' = IF MR!Overtakes(r, {"row", "written"})
                             THEN overtakenCaches \cup {"settings"} ELSE overtakenCaches
  <2>1. /\ job' \in [MR!Requests -> JobSet] /\ \A q \in MR!Requests : Shape(job'[q])
        /\ job'[r] = k /\ \A q \in MR!Requests \ {r} : job'[q] = job[q]
    BY <1>4, <1>6, JobMoves
  <2>2. JobsShaped'
    <3>1. overtakenCaches' \subseteq {"settings", "catalog"}
      BY <1>6 DEF JobsShaped, RolesTyped
    <3>2. crossed' \in BOOLEAN /\ wronged' \in BOOLEAN
      BY <1>6 DEF MR!Remember
    <3>3. excused' \subseteq Roles
      <4>1. j.failed \subseteq Roles
        BY <1>1 DEF JobSet
      <4>2. DOMAIN j.patch.model \subseteq Roles
        BY <1>4, ColumnsFacts DEF MR!PatchSet
      <4>3. excused \subseteq Roles
        BY DEF JobsShaped, RolesTyped
      <4> QED  BY <1>6, <4>1, <4>2, <4>3, RolesAssumption DEF MR!Remember
    <3> QED  BY <1>2, <1>3, <1>6, <2>1, <3>1, <3>2, <3>3 DEF JobsShaped, RolesTyped
  <2>3. Caches'
    <3>1. OnTheWay'
      <4>1. ASSUME NEW q \in MR!Requests, job'[q].at \in {"row", "written"}
            PROVE  job'[q].got = settings' \/ "settings" \in overtakenCaches'
        <5>1. CASE q = r
          BY <1>4, <1>6, <2>1, <5>1
        <5>2. CASE q # r
          BY <1>6, <2>1, <4>1, <5>2 DEF MR!Overtakes
        <5> QED  BY <5>1, <5>2
      <4>2. ASSUME NEW q \in MR!Requests, job'[q].at = "rows"
            PROVE  job'[q].got = catalog' \/ "catalog" \in overtakenCaches'
        BY <1>2, <1>4, <1>6, <2>1, <4>2 DEF Caches, OnTheWay
      <4> QED  BY <4>1, <4>2 DEF OnTheWay
    <3>2. MR!CachesTellRows'
      <4>1. job'[r].at = "written"
        BY <1>4, <2>1
      <4>2. ASSUME NEW q \in MR!Requests, job[q].at = "changed"
            PROVE  job'[q].at = "changed"
        BY <1>1, <2>1, <4>2
      <4> QED  BY <1>2, <1>6, <4>1, <4>2 DEF Caches, MR!CachesTellRows
    <3>3. CreatesNew'
      BY <1>2, <1>4, <2>1 DEF Caches, CreatesNew
    <3>4. MR!NamedBackendsStand'
      <4>1. MR!NamedBackendsStand
        BY DEF Caches
      <4>2. MR!Stand(record, catalog)
        BY <1>4, <1>6, <4>1, UpsertStands DEF record
      <4> QED  BY <1>2, <1>6, <4>2 DEF MR!NamedBackendsStand
    <3> QED  BY <3>1, <3>2, <3>3, <3>4 DEF Caches
  <2>4. ASSUME ~crossed' PROVE Uncrossed'
    <3>1. ~MR!Meets(r) /\ Uncrossed /\ UpToDate(j, settings, catalog)
      BY <1>6, <2>4 DEF MR!Remember, Uncrossed
    <3>2. /\ \A q \in MR!Requests \ {r} : job[q].kind \notin MR!Changes
          /\ MR!Unserved \subseteq excused \cup Pending(j, settings)
      BY <3>1, Alone
    <3>3. ASSUME NEW q \in MR!Requests
          PROVE  UpToDate(job'[q], settings', catalog')
      <4>1. CASE q = r
        <5>1. k.at = "written" /\ ~Judged(k)
          BY <1>4 DEF Judged
        <5> QED  BY <2>1, <4>1, <5>1 DEF UpToDate
      <4>2. CASE q # r
        BY <2>1, <3>2, <4>2, NoChangeFresh
      <4> QED  BY <4>1, <4>2
    <3> DEFINE cleared == {duty \in j.proven \cap DOMAIN j.patch.model :
                             j.patch.model[duty] = Unset}
               exempt == IF "transcriptions" \in {settings.mode, record.mode} THEN {Audio} ELSE {}
    <3>4. /\ \A duty \in MR!UnservedIn(record, catalog) :
               /\ duty \notin j.proven
               /\ \/ duty \in excused \/ duty \in (DOMAIN j.patch.model) \ cleared
                  \/ duty \in j.failed \/ duty \in exempt
          /\ \A duty \in cleared :
               LET id == MR!Effective(record, duty) IN
               id # Unset /\ catalog[id] # Unset => settings.model[duty] \notin Serves[catalog[id]]
      BY <1>1, <3>1, <3>2, UpsertSound DEF record
    <3>5. /\ excused' = (excused \cup ((DOMAIN j.patch.model) \ cleared) \cup j.failed
                           \cup exempt) \ j.proven
          /\ wronged' = (wronged \/ \E duty \in cleared :
                           LET id == MR!Effective(record, duty) IN
                           /\ id # Unset /\ catalog[id] # Unset
                           /\ settings.model[duty] \in Serves[catalog[id]])
      BY <1>6 DEF MR!Remember
    <3> HIDE DEF cleared, exempt
    <3>6. MR!Unserved' = MR!UnservedIn(record, catalog)
      BY <1>2, <1>6 DEF MR!Unserved
    <3>7. MR!Unserved' \subseteq excused'
      BY <3>4, <3>5, <3>6
    <3>8. ~wronged'
      BY <3>1, <3>4, <3>5 DEF Uncrossed
    <3> QED  BY <3>3, <3>7, <3>8 DEF Uncrossed
  <2> QED  BY <2>2, <2>3, <2>4
<1> QED  BY <1>5, <1>6 DEF MR!Upsert, MR!Ends, record, k

LEMMA WrittenKeeps ==
  ASSUME RolesInv, NEW r \in MR!Requests, MR!Written(r)
  PROVE  RolesInv'
<1> DEFINE j == job[r]
<1> USE DEF RolesInv
<1>1. j \in JobSet /\ Shape(j) /\ j.at = "written" /\ j.got \in MR!Rows
  BY DEF JobsShaped, RolesTyped, MR!Written, Shape, GotShape
<1>2. /\ UNCHANGED <<settings, catalog, catalogCache, made, excused, crossed, overtakenCaches, wronged>>
      /\ settingsCache' = j.got /\ MR!Goes(r, MR!Idle)
  BY DEF MR!Written, MR!Ends
<1>3. MR!Idle \in JobSet /\ Shape(MR!Idle) /\ MR!Idle.kind = "none" /\ MR!Idle.at = "idle"
  BY IdleTyped DEF MR!Idle
<1>4. /\ job' \in [MR!Requests -> JobSet] /\ \A q \in MR!Requests : Shape(job'[q])
      /\ job'[r] = MR!Idle /\ \A q \in MR!Requests \ {r} : job'[q] = job[q]
  BY <1>2, <1>3, JobMoves
<1>5. JobsShaped'
  BY <1>1, <1>2, <1>4 DEF JobsShaped, RolesTyped
<1>6. Caches'
  <2>1. OnTheWay' /\ CreatesNew'
    BY <1>2, <1>3, <1>4 DEF Caches, OnTheWay, CreatesNew
  <2>2. settingsCache' = settings' \/ "settings" \in overtakenCaches'
    BY <1>1, <1>2 DEF Caches, OnTheWay
  <2>3. \A q \in MR!Requests : job[q].at = "changed" => job'[q].at = "changed"
    BY <1>1, <1>4
  <2>4. MR!CachesTellRows'
    BY <1>2, <2>2, <2>3 DEF Caches, MR!CachesTellRows
  <2>5. MR!NamedBackendsStand'
    BY <1>2 DEF Caches, MR!NamedBackendsStand
  <2> QED  BY <2>1, <2>4, <2>5 DEF Caches
<1>7. ASSUME ~crossed' PROVE Uncrossed'
  <2>1. Uncrossed /\ Pending(j, settings) = {}
    BY <1>1, <1>2, <1>7 DEF Pending
  <2> QED  BY <1>2, <1>3, <2>1, IdleFresh, UncrossedKept
<1> QED  BY <1>5, <1>6, <1>7

LEMMA ExpireKeeps ==
  ASSUME RolesInv, MR!Expire
  PROVE  RolesInv'
<1> USE DEF RolesInv
<1>1. UNCHANGED <<settings, catalog, job, made, excused, crossed, wronged>>
  BY DEF MR!Expire
<1>2. /\ settingsCache' \in {settingsCache, MR!NoCache} /\ catalogCache' \in {catalogCache, MR!NoCache}
      /\ overtakenCaches' \subseteq overtakenCaches
      /\ "settings" \in overtakenCaches /\ "settings" \notin overtakenCaches' =>
           settingsCache' = MR!NoCache /\ \A q \in MR!Requests : job[q].at \notin {"row", "written"}
      /\ "catalog" \in overtakenCaches /\ "catalog" \notin overtakenCaches' =>
           catalogCache' = MR!NoCache /\ \A q \in MR!Requests : job[q].at # "rows"
  BY DEF MR!Expire
<1>3. JobsShaped'
  BY <1>1, <1>2 DEF JobsShaped, RolesTyped
<1>4. Caches'
  <2>1. OnTheWay'
    BY <1>1, <1>2 DEF Caches, OnTheWay
  <2>2. MR!CachesTellRows'
    BY <1>1, <1>2 DEF Caches, MR!CachesTellRows
  <2>3. CreatesNew' /\ MR!NamedBackendsStand'
    BY <1>1 DEF Caches, CreatesNew, MR!NamedBackendsStand
  <2> QED  BY <2>1, <2>2, <2>3 DEF Caches
<1>5. ASSUME ~crossed' PROVE Uncrossed'
  <2>1. Uncrossed
    BY <1>1, <1>5
  <2>2. MR!Unserved' = MR!Unserved
    BY <1>1 DEF MR!Unserved
  <2> QED  BY <1>1, <2>1, <2>2 DEF Uncrossed
<1> QED  BY <1>3, <1>4, <1>5

LEMMA RolesIdle ==
  ASSUME RolesInv, UNCHANGED MR!rolesVars
  PROVE  RolesInv'
<1>1. MR!Unserved' = MR!Unserved
  BY DEF MR!rolesVars, MR!Unserved
<1>2. JobsShaped'
  BY DEF MR!rolesVars, RolesInv, JobsShaped, RolesTyped
<1>3. Caches'
  BY DEF MR!rolesVars, RolesInv, Caches, OnTheWay, MR!CachesTellRows, CreatesNew, MR!NamedBackendsStand
<1>4. Uncrossed => Uncrossed'
  BY <1>1 DEF MR!rolesVars, Uncrossed
<1> QED  BY <1>2, <1>3, <1>4 DEF MR!rolesVars, RolesInv

LEMMA InitRoles == MR!Init => RolesInv
<1> SUFFICES ASSUME MR!Init PROVE RolesInv
  OBVIOUS
<1>1. PICK b \in RoleBefores : settings = b.settings /\ catalog = b.catalog
  BY DEF MR!Init
<1>2. /\ settings \in MR!Rows /\ catalog \in MR!Catalogs
      /\ MR!Stand(settings, catalog) /\ MR!UnservedIn(settings, catalog) = {}
  BY <1>1, RolesAssumption
<1>3. MR!Idle \in JobSet /\ Shape(MR!Idle) /\ MR!Idle.kind = "none" /\ MR!Idle.at = "idle"
  BY IdleTyped DEF MR!Idle
<1>4. JobsShaped
  <2>1. job = [r \in MR!Requests |-> MR!Idle] /\ made = 0 /\ MaxRoleRequests \in Nat
    BY RolesAssumption DEF MR!Init
  <2>2. job \in [MR!Requests -> JobSet] /\ \A r \in MR!Requests : Shape(job[r])
    BY <1>3, <2>1
  <2>3. made \in 0..MaxRoleRequests
    BY <2>1
  <2> QED  BY <1>2, <2>2, <2>3 DEF MR!Init, JobsShaped, RolesTyped
<1>5. Caches
  BY <1>2, <1>3 DEF MR!Init, Caches, OnTheWay, MR!CachesTellRows, CreatesNew, MR!NamedBackendsStand
<1>6. Uncrossed
  BY <1>2, IdleFresh DEF MR!Init, Uncrossed, MR!Unserved
<1> QED  BY <1>4, <1>5, <1>6 DEF RolesInv

LEMMA RolesInvKept == RolesInv => MR!RolesTypeOK /\ MR!RolesKept
<1> SUFFICES ASSUME RolesInv PROVE MR!RolesTypeOK /\ MR!RolesKept
  OBVIOUS
<1>1. MR!RolesTypeOK
  BY DEF RolesInv, JobsShaped, RolesTyped, MR!RolesTypeOK, JobSet
<1>2. MR!StaleIsCleared
  <2>1. SUFFICES ASSUME ~crossed, \A r \in MR!Requests : job[r].kind \notin MR!Changes
                 PROVE  MR!Unserved \subseteq excused
    BY DEF MR!StaleIsCleared
  <2>2. \A r \in MR!Requests : Pending(job[r], settings) = {}
    BY <2>1, NoChangeFresh
  <2> QED  BY <2>1, <2>2 DEF RolesInv, Uncrossed
<1>3. MR!ServedIsKept
  BY DEF MR!ServedIsKept, RolesInv, Uncrossed
<1> QED  BY <1>1, <1>2, <1>3 DEF RolesInv, Caches, MR!RolesKept

-----------------------------------------------------------------------------
\* The rows of the catalog.
LEMMA AtChange ==
  ASSUME NEW j \in JobSet, Shape(j), j.at = "change"
  PROVE  /\ j.kind \in {"edit", "create", "remove"} /\ j.id \in Backends
         /\ j.kind \in {"edit", "create"} => j.endpoint \in Endpoints
         /\ j.kind = "edit" => j.before \in Endpoints
         /\ j.kind = "remove" => j.before = MR!NoCache
<1>1. j.kind \in {"edit", "create", "remove"}
  BY DEF JobSet, MR!Changes, Shape, SaveShape, OtherShape, MR!Idle
<1> QED  BY <1>1 DEF Shape, EditShape, OtherShape

LEMMA ChangedShape ==
  ASSUME NEW j \in JobSet, Shape(j), j.at = "change", NEW endpoint,
         endpoint = j.endpoint \/ (endpoint = j.before /\ j.kind \in {"edit", "remove"})
  PROVE  LET k == [j EXCEPT !.at = "changed", !.endpoint = endpoint] IN
         /\ k \in JobSet /\ Shape(k) /\ k.at = "changed" /\ k.endpoint = endpoint
         /\ k.kind = j.kind /\ k.id = j.id /\ k.before = j.before
<1> DEFINE k == [j EXCEPT !.at = "changed", !.endpoint = endpoint]
<1>1. /\ j.kind \in {"edit", "create", "remove"} /\ j.id \in Backends
      /\ j.kind \in {"edit", "create"} => j.endpoint \in Endpoints
      /\ j.kind = "edit" => j.before \in Endpoints
      /\ j.kind = "remove" => j.before = MR!NoCache
  BY AtChange
<1>2. /\ endpoint \in Endpoints \cup {Unset, MR!NoCache}
      /\ j.kind \in {"edit", "create"} => endpoint \in Endpoints
  BY <1>1 DEF JobSet
<1>3. k \in JobSet
  BY <1>2 DEF JobSet
<1>4. /\ k.at = "changed" /\ k.endpoint = endpoint
      /\ k.kind = j.kind /\ k.id = j.id /\ k.before = j.before /\ k.patch = j.patch
      /\ k.todo = j.todo /\ k.proven = j.proven /\ k.failed = j.failed
  BY DEF JobSet
<1> HIDE DEF k
<1>5. j.kind = "edit" => EditShape(k)
  BY <1>1, <1>2, <1>4 DEF Shape, EditShape, NewJob
<1>6. j.kind # "edit" => OtherShape(k)
  BY <1>1, <1>2, <1>4 DEF Shape, OtherShape, NewJob
<1>7. Shape(k)
  BY <1>1, <1>4, <1>5, <1>6 DEF Shape, GotShape
<1> QED  BY <1>3, <1>4, <1>7 DEF k

LEMMA ChangeKeeps ==
  ASSUME RolesInv, NEW r \in MR!Requests, MR!Change(r)
  PROVE  RolesInv'
<1> DEFINE j == job[r]
           gone == catalog[j.id] = Unset /\ j.kind # "create"
           table == IF gone THEN catalog
                   ELSE [catalog EXCEPT ![j.id] = IF j.kind = "remove" THEN Unset ELSE j.endpoint]
           endpoint == IF gone THEN j.before ELSE j.endpoint
           k == [j EXCEPT !.at = "changed", !.endpoint = endpoint]
<1> USE DEF RolesInv
<1>1. j \in JobSet /\ Shape(j) /\ j.at = "change" /\ catalog \in MR!Catalogs
  BY DEF JobsShaped, RolesTyped, MR!Change
<1>2. UNCHANGED <<settings, settingsCache, catalogCache, made, excused, wronged>>
  BY DEF MR!Change
<1>3. /\ j.kind \in {"edit", "create", "remove"} /\ j.id \in Backends
      /\ j.kind \in {"edit", "create"} => j.endpoint \in Endpoints
      /\ j.kind = "edit" => j.before \in Endpoints
  BY <1>1, AtChange
<1>4. /\ k \in JobSet /\ Shape(k) /\ k.at = "changed" /\ k.endpoint = endpoint
      /\ k.kind = j.kind /\ k.id = j.id /\ k.before = j.before
  <2>1. endpoint = j.endpoint \/ (endpoint = j.before /\ j.kind \in {"edit", "remove"})
    BY <1>3
  <2> HIDE DEF endpoint
  <2> QED  BY <1>1, <2>1, ChangedShape
<1>5. /\ table \in MR!Catalogs
      /\ \A id \in Backends : id # j.id => table[id] = catalog[id]
      /\ gone => table = catalog /\ endpoint = j.before
      /\ ~gone => endpoint = j.endpoint /\ table[j.id] = IF j.kind = "remove" THEN Unset ELSE j.endpoint
  BY <1>1, <1>3 DEF MR!Catalogs
<1>6. /\ \/ /\ j.kind = "remove" /\ MR!Goes(r, MR!Idle) /\ UNCHANGED <<catalog, crossed, overtakenCaches>>
         \/ /\ j.kind = "remove" => \A duty \in Roles : settings.backend[duty] # j.id
            /\ catalog' = table /\ MR!Goes(r, k) /\ crossed' = (crossed \/ MR!Meets(r))
            /\ overtakenCaches' = IF MR!Overtakes(r, {"rows"}) THEN overtakenCaches \cup {"catalog"}
                                                      ELSE overtakenCaches
  BY <1>1 DEF MR!Change, MR!Ends, JobSet
<1> HIDE DEF k, table, endpoint
<1>7. CASE j.kind = "remove" /\ MR!Goes(r, MR!Idle) /\ UNCHANGED <<catalog, crossed, overtakenCaches>>
  <2>1. MR!Idle \in JobSet /\ Shape(MR!Idle) /\ Quiet(MR!Idle) /\ MR!Idle.kind # "create"
    BY IdleTyped DEF Quiet, MR!Idle
  <2>2. JobsShaped'
    BY <1>2, <1>7, <2>1, JobMoves DEF JobsShaped, RolesTyped
  <2>3. Caches'
    BY <1>1, <1>2, <1>7, <2>1, CachesKept
  <2>4. ASSUME ~crossed' PROVE Uncrossed'
    <3>1. Uncrossed /\ Pending(j, settings) = {}
      BY <1>7, <2>4 DEF Pending
    <3> QED  BY <1>2, <1>7, <2>1, <3>1, IdleFresh, UncrossedKept
  <2> QED  BY <2>2, <2>3, <2>4
<1>8. CASE /\ j.kind = "remove" => \A duty \in Roles : settings.backend[duty] # j.id
           /\ catalog' = table /\ MR!Goes(r, k) /\ crossed' = (crossed \/ MR!Meets(r))
           /\ overtakenCaches' = IF MR!Overtakes(r, {"rows"}) THEN overtakenCaches \cup {"catalog"}
                                                     ELSE overtakenCaches
  <2>1. /\ job' \in [MR!Requests -> JobSet] /\ \A q \in MR!Requests : Shape(job'[q])
        /\ job'[r] = k /\ \A q \in MR!Requests \ {r} : job'[q] = job[q]
    BY <1>4, <1>8, JobMoves
  <2>2. JobsShaped'
    <3>1. overtakenCaches' \subseteq {"settings", "catalog"} /\ crossed' \in BOOLEAN
      BY <1>8 DEF JobsShaped, RolesTyped
    <3> QED  BY <1>2, <1>5, <1>8, <2>1, <3>1 DEF JobsShaped, RolesTyped
  <2>3. \A id \in Backends : catalog[id] # Unset /\ table[id] = Unset
          => j.kind = "remove" /\ id = j.id
    BY <1>3, <1>5, RolesAssumption
  <2>4. \A duty \in Roles : settings.backend[duty] \in Backends \cup {Unset}
    BY DEF JobsShaped, RolesTyped, MR!Rows
  <2>5. Caches'
    <3>1. OnTheWay'
      BY <1>2, <1>4, <1>8, <2>1 DEF Caches, OnTheWay, MR!Overtakes
    <3>2. MR!CachesTellRows'
      <4>1. job'[r].at = "changed"
        BY <1>4, <2>1
      <4>2. ASSUME NEW q \in MR!Requests, job[q].at = "written"
            PROVE  job'[q].at = "written"
        BY <1>1, <2>1, <4>2
      <4> QED  BY <1>2, <1>8, <4>1, <4>2 DEF Caches, MR!CachesTellRows
    <3>3. CreatesNew'
      <4>1. ASSUME NEW q \in MR!Requests, job'[q].kind = "create", job'[q].at = "change"
            PROVE  /\ catalog'[job'[q].id] = Unset
                   /\ \A p \in MR!Requests \ {q} : job'[p].kind = "create" => job'[p].id # job'[q].id
        <5>1. q # r /\ job'[q] = job[q]
          BY <1>4, <2>1, <4>1
        <5>2. /\ catalog[job[q].id] = Unset
              /\ \A p \in MR!Requests \ {q} : job[p].kind = "create" => job[p].id # job[q].id
          BY <4>1, <5>1 DEF Caches, CreatesNew
        <5>3. job[q].id \in Backends
          BY <4>1, <5>1 DEF JobsShaped, Shape, OtherShape
        <5>4. table[job[q].id] = Unset
          <6>1. CASE job[q].id # j.id
            BY <1>5, <5>2, <5>3, <6>1
          <6>2. CASE job[q].id = j.id
            <7>1. j.kind # "create"
              BY <5>1, <5>2, <6>2
            <7> QED  BY <1>5, <5>2, <6>2, <7>1
          <6> QED  BY <6>1, <6>2
        <5>5. \A p \in MR!Requests : job'[p].kind = job[p].kind /\ job'[p].id = job[p].id
          BY <1>4, <2>1
        <5> QED  BY <1>8, <5>1, <5>2, <5>4, <5>5
      <4> QED  BY <4>1 DEF CreatesNew
    <3>4. MR!NamedBackendsStand'
      BY <1>2, <1>8, <2>3, <2>4 DEF Caches, MR!NamedBackendsStand, MR!Stand
    <3> QED  BY <3>1, <3>2, <3>3, <3>4 DEF Caches
  <2>6. ASSUME ~crossed' PROVE Uncrossed'
    <3>1. ~MR!Meets(r) /\ Uncrossed /\ UpToDate(j, settings, catalog)
      BY <1>8, <2>6 DEF Uncrossed
    <3>2. /\ \A q \in MR!Requests \ {r} : job[q].kind \notin MR!Changes
          /\ MR!Unserved \subseteq excused \cup Pending(j, settings)
      BY <3>1, Alone
    <3>3. ASSUME NEW q \in MR!Requests
          PROVE  UpToDate(job'[q], settings', catalog')
      <4>1. CASE q = r
        <5>1. k.at = "changed" /\ ~Judged(k)
          BY <1>4 DEF Judged
        <5>2. k.kind = "edit" => k.endpoint \in {k.before, table[k.id]}
          BY <1>4, <1>5
        <5> QED  BY <1>8, <2>1, <4>1, <5>1, <5>2 DEF UpToDate
      <4>2. CASE q # r
        BY <2>1, <3>2, <4>2, NoChangeFresh
      <4> QED  BY <4>1, <4>2
    <3>4. ASSUME NEW duty \in MR!UnservedIn(settings, table)
          PROVE  duty \in excused \cup Pending(k, settings)
      <4> DEFINE id == MR!Effective(settings, duty)
      <4>1. /\ duty \in MR!listedModelRoles(settings.mode) /\ duty \in Roles
            /\ settings.model[duty] # Unset /\ id # Unset /\ table[id] # Unset
            /\ settings.model[duty] \notin Serves[table[id]]
        BY <3>4 DEF MR!UnservedIn, MR!listedModelRoles
      <4>2. id \in Backends /\ catalog[id] # Unset
        BY <2>4, <4>1, RolesAssumption DEF MR!Effective, Caches, MR!NamedBackendsStand, MR!Stand
      <4>3. CASE table[id] = catalog[id]
        <5>1. duty \in MR!Unserved
          BY <4>1, <4>3 DEF MR!Unserved, MR!UnservedIn
        <5>2. Pending(j, settings) = {}
          BY <1>1 DEF Pending
        <5> QED  BY <3>2, <5>1, <5>2
      <4>4. CASE table[id] # catalog[id]
        <5>1. id = j.id /\ ~gone /\ j.kind # "remove"
          BY <1>5, <4>1, <4>2, <4>4
        <5>2. j.kind = "edit"
          <6>1. j.kind = "create" => catalog[j.id] = Unset
            BY <1>1 DEF Caches, CreatesNew
          <6> QED  BY <1>3, <4>2, <5>1, <6>1
        <5>3. j.before = catalog[j.id]
          BY <1>1, <3>1, <5>2 DEF UpToDate
        <5>4. k.endpoint # k.before
          BY <1>4, <1>5, <4>4, <5>1, <5>2, <5>3
        <5> QED  BY <1>4, <4>1, <5>1, <5>2, <5>4 DEF Pending
      <4> QED  BY <4>3, <4>4
    <3>5. MR!Unserved' = MR!UnservedIn(settings, table)
      BY <1>2, <1>8 DEF MR!Unserved
    <3>6. job'[r] = k
      BY <2>1
    <3> QED  BY <1>2, <3>1, <3>3, <3>4, <3>5, <3>6 DEF Uncrossed
  <2> QED  BY <2>2, <2>5, <2>6
<1> QED  BY <1>6, <1>7, <1>8

LEMMA ChangedKeeps ==
  ASSUME RolesInv, NEW r \in MR!Requests, MR!Changed(r)
  PROVE  RolesInv'
<1> DEFINE j == job[r]
           moved == j.kind = "edit" /\ j.endpoint # j.before
           k == IF moved THEN [j EXCEPT !.at = "settings"] ELSE MR!Idle
<1> USE DEF RolesInv
<1>1. j \in JobSet /\ Shape(j) /\ j.at = "changed"
  BY DEF JobsShaped, RolesTyped, MR!Changed
<1>2. /\ UNCHANGED <<settings, catalog, settingsCache, made, excused, crossed, wronged>>
      /\ MR!Goes(r, k) /\ catalogCache' = MR!NoCache
      /\ overtakenCaches' = IF MR!Overtakes(r, {"rows"}) THEN overtakenCaches ELSE overtakenCaches \ {"catalog"}
  BY DEF MR!Changed, MR!Ends
<1>3. k \in JobSet /\ Shape(k) /\ k.at \in {"settings", "idle"} /\ k.kind # "create"
  <2>1. CASE moved
    <3>1. k \in JobSet /\ k.at = "settings" /\ k.kind = "edit"
      BY <1>1, <2>1 DEF JobSet
    <3>2. EditShape(k)
      BY <1>1, <2>1 DEF JobSet, Shape, EditShape, NewJob
    <3> QED  BY <3>1, <3>2 DEF Shape, GotShape
  <2>2. CASE ~moved
    BY <2>2, IdleTyped DEF MR!Idle
  <2> QED  BY <2>1, <2>2
<1>4. /\ job' \in [MR!Requests -> JobSet] /\ \A q \in MR!Requests : Shape(job'[q])
      /\ job'[r] = k /\ \A q \in MR!Requests \ {r} : job'[q] = job[q]
  BY <1>2, <1>3, JobMoves
<1>5. JobsShaped'
  BY <1>2, <1>4 DEF JobsShaped, RolesTyped
<1>6. Caches'
  <2>1. OnTheWay'
    <3>1. ASSUME NEW q \in MR!Requests, job'[q].at \in {"row", "written"}
          PROVE  job'[q].got = settings' \/ "settings" \in overtakenCaches'
      <4>1. q # r /\ job'[q] = job[q]
        BY <1>3, <1>4, <3>1
      <4> QED  BY <1>2, <3>1, <4>1 DEF Caches, OnTheWay
    <3>2. ASSUME NEW q \in MR!Requests, job'[q].at = "rows"
          PROVE  job'[q].got = catalog' \/ "catalog" \in overtakenCaches'
      <4>1. q # r /\ job'[q] = job[q]
        BY <1>3, <1>4, <3>2
      <4>2. overtakenCaches' = overtakenCaches
        BY <1>2, <3>2, <4>1 DEF MR!Overtakes
      <4> QED  BY <1>2, <3>2, <4>1, <4>2 DEF Caches, OnTheWay
    <3> QED  BY <3>1, <3>2 DEF OnTheWay
  <2>2. CreatesNew' /\ MR!NamedBackendsStand'
    <3>1. MR!NamedBackendsStand'
      BY <1>2 DEF Caches, MR!NamedBackendsStand
    <3>2. \A q \in MR!Requests : job'[q].kind = "create" => q # r /\ job'[q] = job[q]
      BY <1>3, <1>4
    <3>3. CreatesNew'
      BY <1>2, <3>2 DEF Caches, CreatesNew
    <3> QED  BY <3>1, <3>3
  <2>3. MR!CachesTellRows'
    <3>1. \A q \in MR!Requests : job[q].at = "written" => job'[q].at = "written"
      BY <1>1, <1>4
    <3> QED  BY <1>2, <3>1 DEF Caches, MR!CachesTellRows
  <2> QED  BY <2>1, <2>2, <2>3 DEF Caches
<1>7. ASSUME ~crossed' PROVE Uncrossed'
  <2>1. Uncrossed /\ UpToDate(j, settings, catalog)
    BY <1>2, <1>7 DEF Uncrossed
  <2>2. UpToDate(k, settings, catalog) /\ Pending(k, settings) = Pending(j, settings)
    <3>1. CASE moved
      <4>1. /\ k.kind = "edit" /\ k.at = "settings" /\ k.id = j.id /\ k.endpoint = j.endpoint
        BY <1>1, <3>1 DEF JobSet
      <4>2. catalog[j.id] = j.endpoint
        BY <1>1, <2>1, <3>1 DEF UpToDate
      <4>3. UpToDate(k, settings, catalog)
        BY <4>1, <4>2 DEF UpToDate, Judged
      <4> QED  BY <1>1, <3>1, <4>1, <4>3 DEF Pending
    <3>2. CASE ~moved
      BY <1>1, <3>2, IdleFresh DEF Pending
    <3> QED  BY <3>1, <3>2
  <2> QED  BY <1>2, <1>3, <2>1, <2>2, UncrossedKept
<1> QED  BY <1>5, <1>6, <1>7

LEMMA RolesStay == RolesInv /\ [MR!Next]_MR!rolesVars => RolesInv'
BY BeginKeeps, ReadSettingsKeeps, ReadCatalogKeeps, ListingKeeps, UpsertKeeps, WrittenKeeps,
   ChangeKeeps, ChangedKeeps, ExpireKeeps, RolesIdle DEF MR!Next

-----------------------------------------------------------------------------
\* The feedback.

\* The rows, the menus, the answers, and what the run holds.
Signs == {"up", "down"}
Topics == {"quality", "addressing"}
RowSet ==
  [status : {"pending", "awaiting_text", "completed"}, sign : Signs, topic : Topics,
   answer : Nat, menu : Nat, reflection : Nat, stamped : SUBSET FB!Folds]
MenuSet == [id : FB!Menus, of : Replies, sign : Signs, keys : BOOLEAN]
AnswerSet == [of : Replies, topic : Topics, sign : Signs \cup {"any"}]
AnswerCopy == [of : Replies, n : FB!Answers]
RunSet == [at : {"idle", "prefs", "corrections"}, bare : SUBSET AnswerCopy, prefs : SUBSET AnswerCopy,
           corrections : SUBSET AnswerCopy, todo : SUBSET AnswerCopy]

Buttons == {"option", "last", "other"}
\* What the chain, a press and the learning of an answer may be at.
ChainSet ==
  {FB!NoPress} \cup [at : {"menu", "set"}, of : Replies, id : FB!Menus, sign : Signs]
  \cup [at : {"write"}, of : Replies, id : FB!Menus] \cup [at : {"tell"}, id : FB!Menus, n : FB!Answers]
PressSet ==
  {FB!NoPress} \cup [at : {"write"}, of : Replies, id : FB!Menus, button : Buttons, sign : Signs]
  \cup [at : {"tell"}, id : FB!Menus, n : FB!Answers] \cup [at : {"edit"}, id : FB!Menus]
LearnAt == {"none", "recorded", "reflecting", "filed", "done"}
LearnSet == [at : LearnAt] \cup [at : LearnAt, n : FB!Answers]

FeedbackTypes ==
  /\ row \in [Replies -> RowSet \cup {FB!NoRow}] /\ menus \subseteq MenuSet
  /\ daily \in RunSet /\ answers \in Seq(AnswerSet)
  /\ chain \in ChainSet /\ press \in [FB!Slots -> PressSet] /\ learner \in [FB!Answers -> LearnSet]
  /\ answered \in [Replies -> SUBSET FB!Answers] /\ folded \in [FB!Folds -> [FB!Answers -> Nat]]
  /\ crossedRows \subseteq Replies /\ stale \subseteq Replies /\ astray \subseteq Replies
  /\ cutShort \subseteq FB!Answers
  /\ reactions \in 0..MaxReactions /\ pressed \in 0..MaxAnswers
  /\ runs \in 0..MaxRuns /\ mishaps \in 0..MaxMishaps

\* What is told and learnt was stored.
ToldInv ==
  /\ chain.at = "tell" => chain.n \in FB!Stored
  /\ \A p \in FB!Slots : press[p].at = "tell" => press[p].n \in FB!Stored
  /\ \A n \in FB!Answers :
       /\ learner[n].at # "none" => n \in FB!Stored
       /\ learner[n].at \in {"reflecting", "filed"} => learner[n].n \in FB!Stored

\* What is under way leaves room for its answer.
Writers == {h \in FB!Slots \cup {0} : IF h = 0 THEN chain.at = "write" ELSE press[h].at = "write"}
RoomInv == Len(answers) + Cardinality(Writers) <= pressed

\* A row and its answer.
FeedbackRows ==
  /\ \A n \in FB!Stored : answers[n].of \in FB!Opened
  /\ \A f \in FB!Opened :
    /\ row[f].menu \in FB!Menus \cup {0} /\ row[f].reflection \in FB!Stored \cup {0}
    /\ row[f].status = "completed" => row[f].answer # 0
    /\ row[f].answer = 0 => row[f].topic = "quality"
    /\ row[f].answer # 0 => /\ row[f].answer \in FB!Stored
                            /\ answers[row[f].answer].of = f
                            /\ answers[row[f].answer].topic = row[f].topic

\* A menu is of one reaction.
IsIssued(i, f) ==
  \/ \E m \in menus : m.id = i /\ m.of = f
  \/ \E p \in FB!Slots : press[p].at = "write" /\ press[p].id = i /\ press[p].of = f
  \/ chain.at \in {"menu", "set", "write"} /\ chain.id = i /\ chain.of = f
  \/ f \in FB!Opened /\ row[f].menu = i
\* The menu is answered, and is to be deleted.
IsTold(i) ==
  \/ \E p \in FB!Slots : press[p].at = "tell" /\ press[p].id = i
  \/ chain.at = "tell" /\ chain.id = i
IssuedInv ==
  /\ \A i \in FB!Menus, f, g \in Replies : IsIssued(i, f) /\ IsIssued(i, g) => f = g
  /\ \A i \in FB!Menus, f \in Replies : IsIssued(i, f) => i <= reactions /\ f \in FB!Opened
  /\ \A i \in FB!Menus : IsTold(i) => i <= reactions

\* A handler that nobody crossed knows the row.
HandlerInv ==
  \A f \in FB!Opened \ crossedRows : \A h \in FB!Handlers(f) :
    row[f].status # "completed" /\ (h # 0 => press[h].sign = row[f].sign)

\* The menu of the last reaction is in the chat, and nobody is about to delete it, as
\* long as it is to be answered.
MenuComing(f) == chain.at \in {"menu", "set"} /\ chain.of = f
CurrentMenu(f) == IF MenuComing(f) THEN chain.id ELSE row[f].menu
HasMenu(f) ==
  /\ ~IsTold(CurrentMenu(f))
  /\ (MenuComing(f) /\ chain.at = "menu") \/ \E m \in menus : m.of = f /\ m.id = CurrentMenu(f)
MenuInv ==
  \A f \in FB!Opened \ (crossedRows \cup astray) : row[f].status # "completed" => HasMenu(f)

\* What the run works on: the answers about quality its rows had.
Batch == daily.bare \cup daily.prefs \cup daily.corrections \cup daily.todo
BatchInv ==
  /\ \A c \in Batch : c.n \in FB!Stored /\ answers[c.n].topic = "quality" /\ answers[c.n].of = c.of
  /\ \A f \in FB!Opened \ (stale \cup crossedRows) : \A c \in Batch :
       c.of = f => row[f].status = "completed" /\ c.n = row[f].answer
  /\ \A f \in FB!Opened \ (stale \cup crossedRows) : \A n \in FB!Stored :
       learner[n].at = "reflecting" /\ answers[n].of = f =>
         row[f].status = "completed" /\ learner[n].n = row[f].answer
  /\ daily.at = "idle" => Batch = {}

\* A version was written with an answer, and its row is stamped, or is about to be.
FoldInv ==
  /\ \A n \in FB!Answers \ FB!Stored : \A k \in FB!Folds : folded[k][n] = 0
  /\ \A k \in FB!Folds : \A c \in daily[k] : c.n \notin cutShort => folded[k][c.n] = 0
  /\ \A c \in daily.todo : daily.at \in FB!Folds /\ folded[daily.at][c.n] > 0
  /\ \A f \in FB!Opened : \A k \in FB!Folds \ row[f].stamped :
       row[f].answer # 0 /\ row[f].answer \notin cutShort =>
         \/ folded[k][row[f].answer] = 0
         \/ daily.at = k /\ \E c \in daily.todo : c.n = row[f].answer

FeedbackInv ==
  /\ FeedbackTypes /\ ToldInv /\ RoomInv /\ FeedbackRows /\ IssuedInv
  /\ HandlerInv /\ MenuInv /\ BatchInv /\ FoldInv
  /\ FB!AnswerStands /\ FB!LearntIsSaid /\ FB!FoldedOnce

\* The answers.
\* The answers are numbered, and one more fits while a handler is about to write.
LEMMA StoredFacts ==
  ASSUME FeedbackTypes, RoomInv
  PROVE  /\ Len(answers) \in Nat /\ FB!Stored = 1..Len(answers) /\ FB!Stored \subseteq FB!Answers
         /\ IsFiniteSet(Writers) /\ Cardinality(Writers) \in Nat
         /\ Writers # {} => Len(answers) + 1 \in FB!Answers
<1>1. Len(answers) \in Nat /\ FB!Stored = 1..Len(answers) /\ pressed \in 0..MaxAnswers
  BY DEF FeedbackTypes, FB!Stored
<1>2. IsFiniteSet(Writers)
  <2>1. IsFiniteSet(0..PressesAtOnce)
    <3>1. PressesAtOnce \in Int /\ 0 \in Int
      BY FeedbackAssumption
    <3> QED  BY <3>1, FS_Interval
  <2>2. Writers \subseteq 0..PressesAtOnce
    BY FeedbackAssumption DEF Writers, FB!Slots
  <2> QED  BY <2>1, <2>2, FS_Subset
<1>3. Cardinality(Writers) \in Nat
  BY <1>2, FS_CardinalityType
<1>4. Writers # {} => Cardinality(Writers) > 0
  BY <1>2, <1>3, FS_EmptySet
<1>5. Len(answers) + Cardinality(Writers) <= MaxAnswers
  BY <1>1, <1>3, FeedbackAssumption DEF RoomInv
<1> HIDE DEF FB!Stored
<1>6. FB!Stored \subseteq FB!Answers
  BY <1>1, <1>3, <1>5, FeedbackAssumption DEF FB!Answers
<1>7. Writers # {} => Len(answers) + 1 \in FB!Answers
  BY <1>1, <1>3, <1>4, <1>5, FeedbackAssumption DEF FB!Answers
<1> QED  BY <1>1, <1>2, <1>3, <1>6, <1>7

\* The answer that is appended.
LEMMA Appended ==
  ASSUME FeedbackTypes, NEW a \in AnswerSet, answers' = Append(answers, a)
  PROVE  LET n == Len(answers) + 1 IN
         /\ answers' \in Seq(AnswerSet) /\ Len(answers') = n
         /\ FB!Stored' = FB!Stored \cup {n} /\ n \notin FB!Stored /\ n # 0
         /\ answers'[n] = a /\ \A i \in FB!Stored : answers'[i] = answers[i]
<1>1. answers \in Seq(AnswerSet) /\ Len(answers) \in Nat /\ FB!Stored = 1..Len(answers)
  BY DEF FeedbackTypes, FB!Stored
<1>2. answers' \in Seq(AnswerSet) /\ Len(answers') = Len(answers) + 1
  BY <1>1
<1>3. FB!Stored' = 1..(Len(answers) + 1)
  BY <1>2 DEF FB!Stored
<1>4. answers'[Len(answers) + 1] = a /\ \A i \in 1..Len(answers) : answers'[i] = answers[i]
  BY <1>1
<1> QED  BY <1>1, <1>2, <1>3, <1>4

\* The room.
\* Handlers stay or stop.
LEMMA RoomSame ==
  ASSUME FeedbackTypes, RoomInv, Writers' \subseteq Writers, UNCHANGED <<answers, pressed>>
  PROVE  RoomInv'
<1>1. Cardinality(Writers') <= Cardinality(Writers) /\ Cardinality(Writers') \in Nat
  BY StoredFacts, FS_Subset, FS_CardinalityType
<1>2. Len(answers) \in Nat /\ Cardinality(Writers) \in Nat /\ pressed \in Nat
  BY StoredFacts DEF FeedbackTypes
<1> QED  BY <1>1, <1>2 DEF RoomInv

\* A handler begins.
LEMMA RoomStarts ==
  ASSUME FeedbackTypes, RoomInv, NEW h, Writers' \subseteq Writers \cup {h}, answers' = answers,
         pressed' = pressed + 1
  PROVE  RoomInv'
<1>1. IsFiniteSet(Writers) /\ Cardinality(Writers) \in Nat
  BY StoredFacts
<1>2. /\ IsFiniteSet(Writers \cup {h})
      /\ Cardinality(Writers \cup {h}) \in {Cardinality(Writers), Cardinality(Writers) + 1}
  BY <1>1, FS_AddElement
<1>3. Cardinality(Writers') <= Cardinality(Writers \cup {h}) /\ IsFiniteSet(Writers')
  BY <1>2, FS_Subset
<1>4. Cardinality(Writers') \in Nat
  BY <1>3, FS_CardinalityType
<1>5. Len(answers) \in Nat /\ pressed \in Nat
  BY StoredFacts DEF FeedbackTypes
<1> QED  BY <1>1, <1>2, <1>3, <1>4, <1>5 DEF RoomInv

\* A handler stores its answer.
LEMMA RoomFilled ==
  ASSUME FeedbackTypes, RoomInv, NEW h \in Writers, Writers' \subseteq Writers \ {h},
         Len(answers') = Len(answers) + 1, UNCHANGED pressed
  PROVE  RoomInv'
<1>1. IsFiniteSet(Writers) /\ Cardinality(Writers) \in Nat
  BY StoredFacts
<1>2. IsFiniteSet(Writers \ {h}) /\ Cardinality(Writers \ {h}) = Cardinality(Writers) - 1
  BY <1>1, FS_RemoveElement
<1>3. Cardinality(Writers') <= Cardinality(Writers \ {h}) /\ IsFiniteSet(Writers')
  BY <1>2, FS_Subset
<1>4. Cardinality(Writers') \in Nat
  BY <1>3, FS_CardinalityType
<1>5. Len(answers) \in Nat /\ pressed \in Nat
  BY StoredFacts DEF FeedbackTypes
<1> QED  BY <1>1, <1>2, <1>3, <1>4, <1>5 DEF RoomInv

\* The rows.
\* No row is no row.
LEMMA NoRowApart == FB!NoRow \notin RowSet
<1>1. \A r \in RowSet : r.status # "none"
  BY DEF RowSet
<1> QED  BY <1>1 DEF FB!NoRow

\* What is opened is a row.
LEMMA OpenRows ==
  ASSUME FeedbackTypes
  PROVE  /\ FB!Opened \subseteq Replies
         /\ \A f \in FB!Opened : row[f] \in RowSet
         /\ \A f \in Replies \ FB!Opened : row[f] = FB!NoRow
BY DEF FeedbackTypes, FB!Opened

\* A row is written.
LEMMA RowWritten ==
  ASSUME FeedbackTypes, NEW f \in Replies, NEW r \in RowSet, row' = [row EXCEPT ![f] = r]
  PROVE  /\ row' \in [Replies -> RowSet \cup {FB!NoRow}] /\ row'[f] = r
         /\ \A g \in Replies \ {f} : row'[g] = row[g]
         /\ FB!Opened' = FB!Opened \cup {f}
<1>1. /\ row' \in [Replies -> RowSet \cup {FB!NoRow}] /\ row'[f] = r
      /\ \A g \in Replies \ {f} : row'[g] = row[g]
  BY DEF FeedbackTypes
<1> QED  BY <1>1, NoRowApart DEF FB!Opened


\* What the chain is at.
LEMMA ChainFacts ==
  ASSUME FeedbackTypes
  PROVE  /\ chain.at \in {"idle", "menu", "set", "write", "tell"}
         /\ chain.at = "idle" <=> chain = FB!NoPress
         /\ chain.at \in {"menu", "set"} =>
              chain \in [at : {"menu", "set"}, of : Replies, id : FB!Menus, sign : Signs]
         /\ chain.at = "write" => chain \in [at : {"write"}, of : Replies, id : FB!Menus]
         /\ chain.at = "tell" => chain \in [at : {"tell"}, id : FB!Menus, n : FB!Answers]
BY DEF FeedbackTypes, ChainSet, FB!NoPress

\* What a press is at.
LEMMA PressFacts ==
  ASSUME FeedbackTypes, NEW p \in FB!Slots
  PROVE  /\ press[p].at \in {"idle", "write", "tell", "edit"}
         /\ press[p].at = "idle" <=> press[p] = FB!NoPress
         /\ press[p].at = "write" =>
              press[p] \in [at : {"write"}, of : Replies, id : FB!Menus, button : Buttons, sign : Signs]
         /\ press[p].at = "tell" => press[p] \in [at : {"tell"}, id : FB!Menus, n : FB!Answers]
         /\ press[p].at = "edit" => press[p] \in [at : {"edit"}, id : FB!Menus]
<1>1. press[p] \in PressSet
  BY DEF FeedbackTypes
<1> QED  BY <1>1 DEF PressSet, FB!NoPress

\* A press goes on.
LEMMA PressSetAt ==
  ASSUME FeedbackTypes, NEW p \in FB!Slots, NEW v \in PressSet, press' = [press EXCEPT ![p] = v]
  PROVE  /\ press' \in [FB!Slots -> PressSet] /\ press'[p] = v
         /\ \A q \in FB!Slots \ {p} : press'[q] = press[q]
BY DEF FeedbackTypes

\* Zero is no slot, no menu and no answer.
LEMMA IdsAreNumbers ==
  /\ FB!Slots \subseteq Nat /\ FB!Menus \subseteq Nat \ {0} /\ FB!Answers \subseteq Nat \ {0} /\ 0 \notin FB!Slots
BY FeedbackAssumption DEF FB!Slots, FB!Menus, FB!Answers

\* The handlers of a row are the presses and the text that are about to write it.
LEMMA HandlersAre ==
  ASSUME NEW f
  PROVE  /\ 0 \in FB!Handlers(f) <=> chain.at = "write" /\ chain.of = f
         /\ \A p \in FB!Slots : p \in FB!Handlers(f) <=> press[p].at = "write" /\ press[p].of = f
         /\ FB!Handlers(f) \subseteq FB!Slots \cup {0}
<1>1. \A h : h \in FB!Handlers(f) <=>
        \/ h \in FB!Slots /\ press[h].at = "write" /\ press[h].of = f
        \/ h = 0 /\ chain.at = "write" /\ chain.of = f
  BY DEF FB!Handlers
<1> QED  BY <1>1, IdsAreNumbers

\* And after a step.
LEMMA HandlersThen ==
  ASSUME NEW f
  PROVE  /\ 0 \in FB!Handlers(f)' <=> chain'.at = "write" /\ chain'.of = f
         /\ \A p \in FB!Slots : p \in FB!Handlers(f)' <=> press'[p].at = "write" /\ press'[p].of = f
         /\ FB!Handlers(f)' \subseteq FB!Slots \cup {0}
<1>1. \A h : h \in FB!Handlers(f)' <=>
        \/ h \in FB!Slots /\ press'[h].at = "write" /\ press'[h].of = f
        \/ h = 0 /\ chain'.at = "write" /\ chain'.of = f
  BY DEF FB!Handlers
<1> QED  BY <1>1, IdsAreNumbers

\* What the invariants say stays while the rows and the answers do.
LEMMA FeedbackRowsStay ==
  ASSUME FeedbackRows, FB!AnswerStands, FB!LearntIsSaid,
         UNCHANGED <<row, answers, answered, folded, crossedRows, stale>>
  PROVE  FeedbackRows' /\ FB!AnswerStands' /\ FB!LearntIsSaid'
<1>1. FB!Opened' = FB!Opened /\ FB!Stored' = FB!Stored
  BY DEF FB!Opened, FB!Stored
<1>2. FeedbackRows'
  BY <1>1 DEF FeedbackRows
<1>3. FB!AnswerStands'
  BY <1>1 DEF FB!AnswerStands
<1>4. FB!LearntIsSaid'
  BY <1>1 DEF FB!LearntIsSaid
<1> QED  BY <1>2, <1>3, <1>4

\* The folds and the learning.
LEMMA LearningStays ==
  ASSUME BatchInv, FoldInv, FB!FoldedOnce,
         UNCHANGED <<row, answers, folded, crossedRows, stale, daily, cutShort, learner>>
  PROVE  BatchInv' /\ FoldInv' /\ FB!FoldedOnce'
<1>1. FB!Opened' = FB!Opened /\ FB!Stored' = FB!Stored /\ Batch' = Batch
  BY DEF FB!Opened, FB!Stored, Batch
<1>2. BatchInv'
  BY <1>1 DEF BatchInv
<1>3. FoldInv'
  BY <1>1 DEF FoldInv
<1>4. FB!FoldedOnce'
  BY <1>1 DEF FB!FoldedOnce
<1> QED  BY <1>2, <1>3, <1>4

\* What was said stays while what the rows say of it does.
LEMMA SaidStays ==
  ASSUME FB!AnswerStands, FB!LearntIsSaid, FB!Opened' = FB!Opened, UNCHANGED <<answers, answered, folded>>,
         \A g \in FB!Opened :
           /\ row'[g].answer = row[g].answer /\ row'[g].sign = row[g].sign
           /\ row'[g].reflection = row[g].reflection /\ row'[g].stamped = row[g].stamped
           /\ g \notin crossedRows' =>
                g \notin crossedRows /\ (row'[g].status = "completed" <=> row[g].status = "completed")
           /\ g \notin stale' => g \notin stale
  PROVE  FB!AnswerStands' /\ FB!LearntIsSaid'
<1>1. FB!AnswerStands'
  <2> SUFFICES ASSUME NEW g \in FB!Opened, g \notin crossedRows'
               PROVE  /\ answered'[g] # {} <=> row'[g].status = "completed"
                      /\ answered'[g] = {row'[g].answer} \ {0}
                      /\ \A n \in answered'[g] : answers'[n].sign \in {"any", row'[g].sign}
    BY DEF FB!AnswerStands
  <2>1. /\ answered[g] # {} <=> row[g].status = "completed"
        /\ answered[g] = {row[g].answer} \ {0}
        /\ \A n \in answered[g] : answers[n].sign \in {"any", row[g].sign}
    BY DEF FB!AnswerStands
  <2> QED  BY <2>1
<1>2. FB!LearntIsSaid'
  <2> SUFFICES ASSUME NEW g \in FB!Opened, g \notin stale' \cup crossedRows'
               PROVE  /\ \A k \in row'[g].stamped : row'[g].answer # 0 /\ folded'[k][row'[g].answer] > 0
                      /\ row'[g].reflection \in {0, row'[g].answer}
    BY DEF FB!LearntIsSaid
  <2>1. /\ \A k \in row[g].stamped : row[g].answer # 0 /\ folded[k][row[g].answer] > 0
        /\ row[g].reflection \in {0, row[g].answer}
    BY DEF FB!LearntIsSaid
  <2> QED  BY <2>1
<1> QED  BY <1>1, <1>2

\* The run works on less.
LEMMA BatchStays ==
  ASSUME BatchInv, Batch' \subseteq Batch, FB!Opened' = FB!Opened,
         UNCHANGED <<answers, learner, stale, crossedRows>>,
         \A g \in FB!Opened : row'[g].status = row[g].status /\ row'[g].answer = row[g].answer,
         daily'.at = "idle" => Batch' = {}
  PROVE  BatchInv'
<1>1. FB!Stored' = FB!Stored
  BY DEF FB!Stored
<1>2. \A c \in Batch' : /\ c.n \in FB!Stored /\ answers[c.n].topic = "quality"
                        /\ answers[c.n].of = c.of
  BY DEF BatchInv
<1>3. \A g \in FB!Opened \ (stale \cup crossedRows) : \A c \in Batch' :
        c.of = g => row'[g].status = "completed" /\ c.n = row'[g].answer
  BY DEF BatchInv
<1>4. \A g \in FB!Opened \ (stale \cup crossedRows) : \A i \in FB!Stored :
        learner[i].at = "reflecting" /\ answers[i].of = g =>
          row'[g].status = "completed" /\ learner[i].n = row'[g].answer
  BY DEF BatchInv
<1> QED  BY <1>1, <1>2, <1>3, <1>4 DEF BatchInv

\* The versions and the stamps stay.
LEMMA FoldStays ==
  ASSUME FoldInv, FB!Opened' = FB!Opened, UNCHANGED <<answers, folded, cutShort>>,
         daily'.at = daily.at, daily'.todo = daily.todo, \A k \in FB!Folds : daily'[k] = daily[k],
         \A g \in FB!Opened : row'[g].answer = row[g].answer /\ row'[g].stamped = row[g].stamped
  PROVE  FoldInv'
<1>1. FB!Stored' = FB!Stored
  BY DEF FB!Stored
<1> QED  BY <1>1 DEF FoldInv

\* No menu is issued anew, and the one that is told is one that was pressed.
LEMMA IssuedStays ==
  ASSUME IssuedInv, FB!Opened \subseteq FB!Opened', reactions' = reactions,
         \A i \in FB!Menus : \A f \in Replies : IsIssued(i, f)' => IsIssued(i, f),
         \A i \in FB!Menus : IsTold(i)' => IsTold(i) \/ \E f \in Replies : IsIssued(i, f)
  PROVE  IssuedInv'
<1>1. \A i \in FB!Menus, f, g \in Replies : IsIssued(i, f)' /\ IsIssued(i, g)' => f = g
  BY DEF IssuedInv
<1>2. \A i \in FB!Menus, f \in Replies : IsIssued(i, f)' => i <= reactions' /\ f \in FB!Opened'
  BY DEF IssuedInv
<1>3. \A i \in FB!Menus : IsTold(i)' => i <= reactions'
  BY DEF IssuedInv
<1>4. FB!Menus' = FB!Menus
  BY DEF FB!Menus
<1> QED  BY <1>1, <1>2, <1>3, <1>4 DEF IssuedInv

\* The handlers stay, and so do the rows.
LEMMA HandlersStay ==
  ASSUME HandlerInv, UNCHANGED <<row, crossedRows>>,
         \A f \in FB!Opened \ crossedRows : \A h \in FB!Handlers(f)' :
           h \in FB!Handlers(f) /\ (h # 0 => press'[h].sign = press[h].sign)
  PROVE  HandlerInv'
<1>1. FB!Opened' = FB!Opened
  BY DEF FB!Opened
<1> QED  BY <1>1 DEF HandlerInv

\* The menu of a row stays.
LEMMA MenuStays ==
  ASSUME NEW f, HasMenu(f), CurrentMenu(f)' = CurrentMenu(f),
         ~IsTold(CurrentMenu(f)) => ~IsTold(CurrentMenu(f))',
         \A m \in menus : m.of = f /\ m.id = CurrentMenu(f) =>
           \E x \in menus' : x.of = f /\ x.id = CurrentMenu(f),
         MenuComing(f) /\ chain.at = "menu" =>
           \/ MenuComing(f)' /\ chain'.at = "menu"
           \/ \E x \in menus' : x.of = f /\ x.id = CurrentMenu(f)
  PROVE  HasMenu(f)'
<1>1. ~IsTold(CurrentMenu(f))'
  BY DEF HasMenu
<1>2. \/ MenuComing(f)' /\ chain'.at = "menu"
      \/ \E x \in menus' : x.of = f /\ x.id = CurrentMenu(f)'
  BY DEF HasMenu
<1> QED  BY <1>1, <1>2 DEF HasMenu

\* The chain's reaction.
\* The menu of a reaction is sent.
LEMMA SendMenuKeeps ==
  ASSUME FeedbackInv, FB!SendMenu
  PROVE  FeedbackInv'
<1> DEFINE f == chain.of
           m == [id |-> chain.id, of |-> chain.of, sign |-> chain.sign, keys |-> TRUE]
<1>0. /\ FeedbackTypes /\ ToldInv /\ RoomInv /\ FeedbackRows /\ IssuedInv /\ HandlerInv /\ MenuInv
      /\ BatchInv /\ FoldInv /\ FB!AnswerStands /\ FB!LearntIsSaid /\ FB!FoldedOnce
  BY DEF FeedbackInv
<1>1. /\ chain.at = "menu" /\ menus' = menus \cup {m} /\ chain' = [chain EXCEPT !.at = "set"]
      /\ UNCHANGED <<row, press, learner, daily, reactions, pressed, runs, mishaps>>
      /\ UNCHANGED <<answers, answered, folded, crossedRows, stale, astray, cutShort>>
  BY DEF FB!SendMenu, FB!counters, FB!memory
<1>2. /\ chain \in [at : {"menu", "set"}, of : Replies, id : FB!Menus, sign : Signs]
      /\ chain' \in [at : {"menu", "set"}, of : Replies, id : FB!Menus, sign : Signs]
      /\ chain'.at = "set" /\ chain'.of = f /\ chain'.id = chain.id
      /\ m \in MenuSet /\ m.id = chain.id /\ m.of = f
  BY <1>0, <1>1, ChainFacts DEF MenuSet
<1> HIDE DEF m
<1>3. FB!Opened' = FB!Opened /\ FB!Stored' = FB!Stored
  BY <1>1 DEF FB!Opened, FB!Stored
<1>4. FeedbackTypes'
  BY <1>0, <1>1, <1>2 DEF FeedbackTypes, ChainSet
<1>5. ToldInv'
  BY <1>0, <1>1, <1>2, <1>3 DEF ToldInv
<1>6. RoomInv'
  <2>1. Writers' \subseteq Writers
    BY <1>1, <1>2 DEF Writers
  <2> QED  BY <2>1, <1>0, <1>1, RoomSame
<1>7. IssuedInv'
  <2>1. \A i \in FB!Menus : \A g \in Replies : IsIssued(i, g)' => IsIssued(i, g)
    BY <1>1, <1>2, <1>3 DEF IsIssued
  <2>2. \A i \in FB!Menus : IsTold(i)' => IsTold(i)
    BY <1>1, <1>2 DEF IsTold
  <2> QED  BY <2>1, <2>2, <1>0, <1>1, <1>3, IssuedStays
<1>8. HandlerInv'
  <2>1. \A g : FB!Handlers(g)' \subseteq FB!Handlers(g)
    BY <1>1, <1>2, HandlersAre, HandlersThen
  <2> QED  BY <2>1, <1>0, <1>1, HandlersStay
<1>9. MenuInv'
  <2> SUFFICES ASSUME NEW g \in FB!Opened \ (crossedRows \cup astray), row[g].status # "completed"
               PROVE  HasMenu(g)'
    BY <1>1, <1>3 DEF MenuInv
  <2>1. HasMenu(g)
    BY <1>0 DEF MenuInv
  <2>2. CurrentMenu(g)' = CurrentMenu(g)
    BY <1>1, <1>2 DEF CurrentMenu, MenuComing
  <2>3. MenuComing(g) /\ chain.at = "menu" => m.of = g /\ m.id = CurrentMenu(g)
    BY <1>1, <1>2 DEF CurrentMenu, MenuComing
  <2>4. ~IsTold(CurrentMenu(g)) => ~IsTold(CurrentMenu(g))'
    BY <2>2, <1>1, <1>2 DEF IsTold
  <2> QED  BY <2>1, <2>2, <2>3, <2>4, <1>1, MenuStays
<1> QED  BY <1>0, <1>1, <1>4, <1>5, <1>6, <1>7, <1>8, <1>9, FeedbackRowsStay,
     LearningStays DEF FeedbackInv

\* It is not.
LEMMA SendMenuFailsKeeps ==
  ASSUME FeedbackInv, FB!SendMenuFails
  PROVE  FeedbackInv'
<1>0. /\ FeedbackTypes /\ ToldInv /\ RoomInv /\ FeedbackRows /\ IssuedInv /\ HandlerInv /\ MenuInv
      /\ BatchInv /\ FoldInv /\ FB!AnswerStands /\ FB!LearntIsSaid /\ FB!FoldedOnce
  BY DEF FeedbackInv
<1>1. /\ chain.at = "menu" /\ chain' = FB!NoPress /\ astray' = astray \cup {chain.of}
      /\ mishaps < MaxMishaps /\ mishaps' = mishaps + 1
      /\ UNCHANGED <<row, menus, press, learner, daily, reactions, pressed, runs>>
      /\ UNCHANGED <<answers, answered, folded, crossedRows, stale, cutShort>>
  BY DEF FB!SendMenuFails, FB!Mishap
<1>2. chain.of \in Replies /\ chain'.at = "idle"
  BY <1>0, <1>1, ChainFacts DEF FB!NoPress
<1>3. FB!Opened' = FB!Opened /\ FB!Stored' = FB!Stored
  BY <1>1 DEF FB!Opened, FB!Stored
<1>4. FeedbackTypes'
  BY <1>0, <1>1, <1>2, FeedbackAssumption DEF FeedbackTypes, ChainSet
<1>5. ToldInv'
  BY <1>0, <1>1, <1>2, <1>3 DEF ToldInv
<1>6. RoomInv'
  <2>1. Writers' \subseteq Writers
    BY <1>1, <1>2 DEF Writers
  <2> QED  BY <2>1, <1>0, <1>1, RoomSame
<1>7. IssuedInv'
  <2>1. \A i \in FB!Menus : \A g \in Replies : IsIssued(i, g)' => IsIssued(i, g)
    BY <1>1, <1>2, <1>3 DEF IsIssued
  <2>2. \A i \in FB!Menus : IsTold(i)' => IsTold(i)
    BY <1>1, <1>2 DEF IsTold
  <2> QED  BY <2>1, <2>2, <1>0, <1>1, <1>3, IssuedStays
<1>8. HandlerInv'
  <2>1. \A g : FB!Handlers(g)' \subseteq FB!Handlers(g)
    BY <1>1, <1>2, HandlersAre, HandlersThen
  <2> QED  BY <2>1, <1>0, <1>1, HandlersStay
<1>9. MenuInv'
  <2> SUFFICES ASSUME NEW g \in FB!Opened \ (crossedRows \cup astray), row[g].status # "completed",
                      g # chain.of
               PROVE  HasMenu(g)'
    BY <1>1, <1>3 DEF MenuInv
  <2>1. HasMenu(g)
    BY <1>0 DEF MenuInv
  <2>2. CurrentMenu(g)' = CurrentMenu(g) /\ ~MenuComing(g)
    BY <1>1, <1>2 DEF CurrentMenu, MenuComing
  <2>3. ~IsTold(CurrentMenu(g)) => ~IsTold(CurrentMenu(g))'
    BY <2>2, <1>1, <1>2 DEF IsTold
  <2> QED  BY <2>1, <2>2, <2>3, <1>1, MenuStays
<1> QED  BY <1>0, <1>1, <1>4, <1>5, <1>6, <1>7, <1>8, <1>9, FeedbackRowsStay,
     LearningStays DEF FeedbackInv

\* The row learns its menu.
LEMMA SetMenuKeeps ==
  ASSUME FeedbackInv, FB!SetMenu
  PROVE  FeedbackInv'
<1> DEFINE f == chain.of
           r == [row[f] EXCEPT !.menu = chain.id]
<1>0. /\ FeedbackTypes /\ ToldInv /\ RoomInv /\ FeedbackRows /\ IssuedInv /\ HandlerInv /\ MenuInv
      /\ BatchInv /\ FoldInv /\ FB!AnswerStands /\ FB!LearntIsSaid /\ FB!FoldedOnce
  BY DEF FeedbackInv
<1>1. /\ chain.at = "set" /\ chain' = FB!NoPress /\ row' = [row EXCEPT ![f].menu = chain.id]
      /\ UNCHANGED <<menus, press, learner, daily, reactions, pressed, runs, mishaps>>
      /\ UNCHANGED <<answers, answered, folded, crossedRows, stale, astray, cutShort>>
  BY DEF FB!SetMenu, FB!counters, FB!memory
<1>2. f \in Replies /\ chain.id \in FB!Menus /\ chain'.at = "idle"
  BY <1>0, <1>1, ChainFacts DEF FB!NoPress
<1>a. f \in FB!Opened
  BY <1>0, <1>1, <1>2 DEF IssuedInv, IsIssued
<1>b. row[f] \in RowSet /\ r \in RowSet /\ row' = [row EXCEPT ![f] = r]
  <2>1. row[f] \in RowSet
    BY <1>0, <1>a, OpenRows
  <2>2. chain.id \in Nat
    BY <1>2, IdsAreNumbers
  <2> QED  BY <2>1, <2>2, <1>1 DEF RowSet
<1>c. /\ r.status = row[f].status /\ r.sign = row[f].sign /\ r.topic = row[f].topic
      /\ r.answer = row[f].answer /\ r.menu = chain.id /\ r.reflection = row[f].reflection
      /\ r.stamped = row[f].stamped
  BY <1>b DEF RowSet
<1> HIDE DEF r
<1>d. /\ row' \in [Replies -> RowSet \cup {FB!NoRow}] /\ row'[f] = r
      /\ \A g \in Replies \ {f} : row'[g] = row[g]
      /\ FB!Opened' = FB!Opened
  <2>1. /\ row' \in [Replies -> RowSet \cup {FB!NoRow}] /\ row'[f] = r
        /\ \A g \in Replies \ {f} : row'[g] = row[g]
        /\ FB!Opened' = FB!Opened \cup {f}
    <3> HIDE DEF f
    <3> QED  BY <1>0, <1>2, <1>b, RowWritten
  <2> QED  BY <2>1, <1>a
<1>3. FB!Stored' = FB!Stored /\ FB!Opened \subseteq Replies
  BY <1>0, <1>1, OpenRows DEF FB!Stored
<1>4. FeedbackTypes'
  BY <1>0, <1>1, <1>2, <1>d DEF FeedbackTypes, ChainSet
<1>5. ToldInv'
  BY <1>0, <1>1, <1>2, <1>3 DEF ToldInv
<1>6. RoomInv'
  <2>1. Writers' \subseteq Writers
    BY <1>1, <1>2 DEF Writers
  <2> QED  BY <2>1, <1>0, <1>1, RoomSame
<1>7. IssuedInv'
  <2>1. \A i \in FB!Menus : \A g \in Replies : IsIssued(i, g)' => IsIssued(i, g)
    BY <1>1, <1>2, <1>c, <1>d DEF IsIssued
  <2>2. \A i \in FB!Menus : IsTold(i)' => IsTold(i)
    BY <1>1, <1>2 DEF IsTold
  <2> QED  BY <2>1, <2>2, <1>0, <1>1, <1>d, IssuedStays
<1>8. HandlerInv'
  <2> SUFFICES ASSUME NEW g \in FB!Opened \ crossedRows, NEW h \in FB!Handlers(g)'
               PROVE  row'[g].status # "completed" /\ (h # 0 => press'[h].sign = row'[g].sign)
    BY <1>1, <1>d DEF HandlerInv
  <2>1. h \in FB!Handlers(g) /\ press' = press
    BY <1>1, <1>2, HandlersAre, HandlersThen
  <2>2. row'[g].status = row[g].status /\ row'[g].sign = row[g].sign
    BY <1>c, <1>d, <1>3
  <2> QED  BY <2>1, <2>2, <1>0 DEF HandlerInv
<1>9. MenuInv'
  <2> SUFFICES ASSUME NEW g \in FB!Opened \ (crossedRows \cup astray), row'[g].status # "completed"
               PROVE  HasMenu(g)'
    BY <1>1, <1>d DEF MenuInv
  <2>0. row[g].status # "completed"
    BY <1>c, <1>d, <1>3
  <2>1. HasMenu(g)
    BY <2>0, <1>0 DEF MenuInv
  <2>2. CurrentMenu(g)' = CurrentMenu(g)
    BY <1>1, <1>2, <1>c, <1>d, <1>3 DEF CurrentMenu, MenuComing
  <2>3. ~IsTold(CurrentMenu(g)) => ~IsTold(CurrentMenu(g))'
    BY <2>2, <1>1, <1>2 DEF IsTold
  <2> QED  BY <2>1, <2>2, <2>3, <1>1, MenuStays
<1>g. \A g \in FB!Opened :
        /\ row'[g].answer = row[g].answer /\ row'[g].topic = row[g].topic
        /\ row'[g].sign = row[g].sign /\ row'[g].status = row[g].status
        /\ row'[g].reflection = row[g].reflection /\ row'[g].stamped = row[g].stamped
        /\ row'[g].menu \in {row[g].menu, chain.id}
  BY <1>c, <1>d, <1>3
<1>10. FeedbackRows'
  <2>1. FB!Menus' = FB!Menus
    BY DEF FB!Menus
  <2>2. answers' = answers
    BY <1>1
  <2>3. FeedbackRows
    BY <1>0
  <2>4. \A g \in FB!Opened : row'[g].menu \in FB!Menus \cup {0}
    BY <2>3, <1>2, <1>g DEF FeedbackRows
  <2>5. FB!Opened' = FB!Opened
    BY <1>d
  <2> QED  BY <2>1, <2>2, <2>3, <2>4, <2>5, <1>3, <1>g DEF FeedbackRows
<1>11. FB!AnswerStands' /\ FB!LearntIsSaid'
  <2>1. UNCHANGED <<answers, answered, folded, crossedRows, stale>> /\ FB!Opened' = FB!Opened
    BY <1>1, <1>d
  <2>2. FB!AnswerStands /\ FB!LearntIsSaid
    BY <1>0
  <2> QED  BY <2>1, <2>2, <1>g, SaidStays
<1>12. BatchInv'
  BY <1>0, <1>1, <1>c, <1>d, <1>3 DEF BatchInv, Batch
<1>13. FoldInv'
  <2>1. \A g \in FB!Opened : row'[g].stamped = row[g].stamped /\ row'[g].answer = row[g].answer
    BY <1>c, <1>d, <1>3
  <2> QED  BY <2>1, <1>0, <1>1, <1>d, <1>3 DEF FoldInv
<1>14. FB!FoldedOnce'
  BY <1>0, <1>1, <1>3 DEF FB!FoldedOnce
<1> QED  BY <1>4, <1>5, <1>6, <1>7, <1>8, <1>9, <1>10, <1>11, <1>12, <1>13, <1>14 DEF FeedbackInv

\* A reaction: nobody who has read the row is left, or the row is exempted.
LEMMA ReactKeeps ==
  ASSUME FeedbackInv, NEW f \in Replies, NEW sign \in Signs, FB!React(f, sign)
  PROVE  FeedbackInv'
<1> DEFINE r == FB!Upserted(f, sign)
<1>0. /\ FeedbackTypes /\ ToldInv /\ RoomInv /\ FeedbackRows /\ IssuedInv /\ HandlerInv /\ MenuInv
      /\ BatchInv /\ FoldInv /\ FB!AnswerStands /\ FB!LearntIsSaid /\ FB!FoldedOnce
  BY DEF FeedbackInv
<1>1. /\ chain.at = "idle" /\ reactions < MaxReactions /\ reactions' = reactions + 1
      /\ row' = [row EXCEPT ![f] = r]
      /\ chain' = [at |-> "menu", of |-> f, id |-> reactions', sign |-> sign]
      /\ answered' = [answered EXCEPT ![f] = {}]
      /\ crossedRows' = IF FB!Handlers(f) = {} THEN crossedRows \ {f} ELSE crossedRows \cup {f}
      /\ stale' = IF FB!Copies(f) THEN stale \cup {f} ELSE stale \ {f}
      /\ astray' = astray \ {f}
      /\ UNCHANGED <<menus, press, learner, daily, pressed, runs, mishaps, answers, folded, cutShort>>
  BY DEF FB!React
<1>2. /\ chain'.at = "menu" /\ chain'.of = f /\ chain'.id = reactions'
      /\ reactions \in Nat /\ reactions' \in FB!Menus /\ reactions' \in 0..MaxReactions
      /\ chain' \in ChainSet
  <2>1. reactions \in Nat /\ reactions' \in FB!Menus /\ reactions' \in 0..MaxReactions
    BY <1>0, <1>1, FeedbackAssumption DEF FeedbackTypes, FB!Menus
  <2> QED  BY <2>1, <1>1 DEF ChainSet
<1>b. /\ r \in RowSet /\ r.status = "pending" /\ r.sign = sign /\ r.topic = "quality"
      /\ r.answer = 0 /\ r.menu = 0 /\ r.reflection = 0 /\ r.stamped = {}
  BY DEF FB!Upserted, RowSet, Topics
<1> HIDE DEF r
<1>d. /\ row' \in [Replies -> RowSet \cup {FB!NoRow}] /\ row'[f] = r
      /\ \A g \in Replies \ {f} : row'[g] = row[g]
      /\ FB!Opened' = FB!Opened \cup {f}
  BY <1>0, <1>1, <1>b, RowWritten
<1>3. FB!Stored' = FB!Stored /\ FB!Opened \subseteq Replies
  BY <1>0, <1>1, OpenRows DEF FB!Stored
<1>e. answered' \in [Replies -> SUBSET FB!Answers] /\ answered'[f] = {} /\ \A g \in Replies \ {f} : answered'[g] = answered[g]
  BY <1>0, <1>1 DEF FeedbackTypes
<1>4. FeedbackTypes'
  <2>1. crossedRows' \subseteq Replies /\ stale' \subseteq Replies /\ astray' \subseteq Replies
    BY <1>0, <1>1 DEF FeedbackTypes
  <2> QED  BY <2>1, <1>0, <1>1, <1>2, <1>d, <1>e DEF FeedbackTypes
<1>5. ToldInv'
  BY <1>0, <1>1, <1>2, <1>3 DEF ToldInv
<1>6. RoomInv'
  <2>1. Writers' \subseteq Writers
    BY <1>1, <1>2 DEF Writers
  <2> QED  BY <2>1, <1>0, <1>1, RoomSame
<1>7. IssuedInv'
  <2>1. \A i \in FB!Menus : \A g \in Replies :
          IsIssued(i, g)' => IsIssued(i, g) \/ (i = reactions' /\ g = f)
    BY <1>1, <1>2, <1>b, <1>d, IdsAreNumbers DEF IsIssued
  <2>2. \A i \in FB!Menus : IsTold(i)' => IsTold(i)
    BY <1>1, <1>2 DEF IsTold
  <2>3. \A i \in FB!Menus : \A g \in Replies : IsIssued(i, g) => i # reactions'
    <3>1. \A i \in FB!Menus : i <= reactions => i # reactions'
      BY <1>1, <1>2, IdsAreNumbers
    <3> QED  BY <3>1, <1>0 DEF IssuedInv
  <2>4. \A i \in FB!Menus : i <= reactions => i <= reactions'
    BY <1>1, <1>2, IdsAreNumbers
  <2>5. \A i \in FB!Menus, g, h \in Replies : IsIssued(i, g)' /\ IsIssued(i, h)' => g = h
    BY <2>1, <2>3, <1>0 DEF IssuedInv
  <2>6. \A i \in FB!Menus, g \in Replies : IsIssued(i, g)' => i <= reactions' /\ g \in FB!Opened'
    BY <2>1, <2>4, <1>0, <1>2, <1>d DEF IssuedInv
  <2>7. \A i \in FB!Menus : IsTold(i)' => i <= reactions'
    BY <2>2, <2>4, <1>0 DEF IssuedInv
  <2>8. FB!Menus' = FB!Menus
    BY DEF FB!Menus
  <2> QED  BY <2>5, <2>6, <2>7, <2>8 DEF IssuedInv
<1>h. \A g : FB!Handlers(g)' \subseteq FB!Handlers(g)
  BY <1>1, <1>2, HandlersAre, HandlersThen
<1>8. HandlerInv'
  <2> SUFFICES ASSUME NEW g \in FB!Opened', g \notin crossedRows', NEW h \in FB!Handlers(g)'
               PROVE  row'[g].status # "completed" /\ (h # 0 => press'[h].sign = row'[g].sign)
    BY DEF HandlerInv
  <2>1. h \in FB!Handlers(g) /\ press' = press
    BY <1>1, <1>h
  <2>2. g # f
    BY <2>1, <1>1
  <2>3. g \in FB!Opened \ crossedRows /\ row'[g] = row[g]
    BY <2>2, <1>1, <1>3, <1>d
  <2> QED  BY <2>1, <2>3, <1>0 DEF HandlerInv
<1>9. MenuInv'
  <2> SUFFICES ASSUME NEW g \in FB!Opened', g \notin crossedRows' \cup astray', row'[g].status # "completed"
               PROVE  HasMenu(g)'
    BY DEF MenuInv
  <2>1. CASE g = f
    <3>1. CurrentMenu(g)' = reactions' /\ MenuComing(g)'
      BY <2>1, <1>2 DEF CurrentMenu, MenuComing
    <3>2. \A i \in FB!Menus : i = reactions' => ~IsTold(i)'
      <4>1. ~(reactions' <= reactions)
        BY <1>1, <1>2
      <4>2. \A i \in FB!Menus : i = reactions' => ~IsTold(i)
        BY <4>1, <1>0 DEF IssuedInv
      <4> QED  BY <4>2, <1>1, <1>2 DEF IsTold
    <3> QED  BY <3>1, <3>2, <1>2 DEF HasMenu
  <2>2. CASE g # f
    <3>0. g \in FB!Opened \ (crossedRows \cup astray) /\ row'[g] = row[g]
      BY <2>2, <1>1, <1>3, <1>d
    <3>1. HasMenu(g)
      BY <3>0, <1>0 DEF MenuInv
    <3>2. CurrentMenu(g)' = CurrentMenu(g) /\ ~MenuComing(g)
      BY <2>2, <3>0, <1>1, <1>2 DEF CurrentMenu, MenuComing
    <3>3. ~IsTold(CurrentMenu(g)) => ~IsTold(CurrentMenu(g))'
      BY <3>2, <1>1, <1>2 DEF IsTold
    <3> QED  BY <3>1, <3>2, <3>3, <1>1, MenuStays
  <2> QED  BY <2>1, <2>2
<1>10. FeedbackRows'
  BY <1>0, <1>1, <1>b, <1>d, <1>3 DEF FeedbackRows
<1>11. FB!AnswerStands'
  BY <1>0, <1>1, <1>b, <1>d, <1>e, <1>3 DEF FB!AnswerStands
<1>12. FB!LearntIsSaid'
  BY <1>0, <1>1, <1>b, <1>d, <1>3 DEF FB!LearntIsSaid
<1>13. BatchInv'
  <2>1. Batch' = Batch
    BY <1>1 DEF Batch
  <2>2. f \notin stale' => /\ \A c \in Batch : c.of # f
                           /\ \A n \in FB!Stored : learner[n].at = "reflecting" => answers[n].of # f
    BY <1>0, <1>1 DEF FB!Copies, Batch, FeedbackTypes
  <2>3. \A g \in FB!Opened' : g \notin stale' \cup crossedRows' =>
          g = f \/ (g \in FB!Opened \ (stale \cup crossedRows) /\ row'[g] = row[g])
    BY <1>1, <1>3, <1>d
  <2> QED  BY <2>1, <2>2, <2>3, <1>0, <1>1, <1>3 DEF BatchInv
<1>14. FoldInv'
  <2>1. \A g \in FB!Opened' : row'[g].answer = 0 \/ (g \in FB!Opened /\ row'[g] = row[g])
    BY <1>b, <1>d, <1>3
  <2> QED  BY <2>1, <1>0, <1>1, <1>3 DEF FoldInv
<1>15. FB!FoldedOnce'
  BY <1>0, <1>1, <1>3 DEF FB!FoldedOnce
<1> QED  BY <1>4, <1>5, <1>6, <1>7, <1>8, <1>9, <1>10, <1>11, <1>12, <1>13, <1>14,
     <1>15 DEF FeedbackInv

\* The answers.
\* A text that answers a menu.
LEMMA TextKeeps ==
  ASSUME FeedbackInv, NEW m \in menus, FB!Text(m)
  PROVE  FeedbackInv'
<1>0. /\ FeedbackTypes /\ ToldInv /\ RoomInv /\ FeedbackRows /\ IssuedInv /\ HandlerInv /\ MenuInv
      /\ BatchInv /\ FoldInv /\ FB!AnswerStands /\ FB!LearntIsSaid /\ FB!FoldedOnce
  BY DEF FeedbackInv
<1>1. /\ chain.at = "idle" /\ pressed < MaxAnswers /\ pressed' = pressed + 1
      /\ row[m.of].status = "awaiting_text" /\ row[m.of].menu = m.id
      /\ chain' = [at |-> "write", of |-> m.of, id |-> m.id]
      /\ UNCHANGED <<row, menus, press, learner, daily, reactions, runs, mishaps>>
      /\ UNCHANGED <<answers, answered, folded, crossedRows, stale, astray, cutShort>>
  BY DEF FB!Text, FB!memory
<1>2. /\ m \in MenuSet /\ m.of \in Replies /\ m.id \in FB!Menus
      /\ chain'.at = "write" /\ chain'.of = m.of /\ chain'.id = m.id
      /\ chain' \in [at : {"write"}, of : Replies, id : FB!Menus]
  BY <1>0, <1>1 DEF FeedbackTypes, MenuSet
<1>3. FB!Opened' = FB!Opened /\ FB!Stored' = FB!Stored
  BY <1>1 DEF FB!Opened, FB!Stored
<1>4. FeedbackTypes'
  <2>1. pressed' \in 0..MaxAnswers
    BY <1>0, <1>1, FeedbackAssumption DEF FeedbackTypes
  <2> QED  BY <2>1, <1>0, <1>1, <1>2 DEF FeedbackTypes, ChainSet
<1>5. ToldInv'
  BY <1>0, <1>1, <1>2, <1>3 DEF ToldInv
<1>6. RoomInv'
  <2>1. Writers' \subseteq Writers \cup {0}
    BY <1>1, <1>2 DEF Writers
  <2> QED  BY <2>1, <1>0, <1>1, RoomStarts
<1>7. IssuedInv'
  <2>1. \A i \in FB!Menus : \A g \in Replies : IsIssued(i, g)' => IsIssued(i, g)
    BY <1>1, <1>2, <1>3 DEF IsIssued
  <2>2. \A i \in FB!Menus : IsTold(i)' => IsTold(i)
    BY <1>1, <1>2 DEF IsTold
  <2> QED  BY <2>1, <2>2, <1>0, <1>1, <1>3, IssuedStays
<1>8. HandlerInv'
  <2> SUFFICES ASSUME NEW g \in FB!Opened \ crossedRows, NEW h \in FB!Handlers(g)'
               PROVE  row[g].status # "completed" /\ (h # 0 => press[h].sign = row[g].sign)
    BY <1>1, <1>3 DEF HandlerInv
  <2>1. CASE h = 0
    BY <2>1, <1>1, <1>2, HandlersThen
  <2>2. CASE h # 0
    <3>1. h \in FB!Handlers(g)
      BY <2>2, <1>1, HandlersAre, HandlersThen
    <3> QED  BY <3>1, <1>0 DEF HandlerInv
  <2> QED  BY <2>1, <2>2
<1>9. MenuInv'
  <2> SUFFICES ASSUME NEW g \in FB!Opened \ (crossedRows \cup astray), row[g].status # "completed"
               PROVE  HasMenu(g)'
    BY <1>1, <1>3 DEF MenuInv
  <2>1. HasMenu(g)
    BY <1>0 DEF MenuInv
  <2>2. CurrentMenu(g)' = CurrentMenu(g) /\ ~MenuComing(g)
    BY <1>1, <1>2 DEF CurrentMenu, MenuComing
  <2>3. ~IsTold(CurrentMenu(g)) => ~IsTold(CurrentMenu(g))'
    BY <2>2, <1>1, <1>2 DEF IsTold
  <2> QED  BY <2>1, <2>2, <2>3, <1>1, MenuStays
<1> QED  BY <1>0, <1>1, <1>4, <1>5, <1>6, <1>7, <1>8, <1>9, FeedbackRowsStay,
     LearningStays DEF FeedbackInv

\* A press of a button.
LEMMA PressKeeps ==
  ASSUME FeedbackInv, NEW p \in FB!Slots, NEW m \in menus, NEW button \in Buttons, FB!Press(p, m, button)
  PROVE  FeedbackInv'
<1> DEFINE v == [at |-> "write", of |-> m.of, id |-> m.id, button |-> button, sign |-> row[m.of].sign]
<1>0. /\ FeedbackTypes /\ ToldInv /\ RoomInv /\ FeedbackRows /\ IssuedInv /\ HandlerInv /\ MenuInv
      /\ BatchInv /\ FoldInv /\ FB!AnswerStands /\ FB!LearntIsSaid /\ FB!FoldedOnce
  BY DEF FeedbackInv
<1>1. /\ press[p].at = "idle" /\ pressed < MaxAnswers /\ pressed' = pressed + 1
      /\ row[m.of].status # "completed" /\ press' = [press EXCEPT ![p] = v]
      /\ UNCHANGED <<row, menus, chain, learner, daily, reactions, runs, mishaps>>
      /\ UNCHANGED <<answers, answered, folded, crossedRows, stale, astray, cutShort>>
  BY DEF FB!Press, FB!Takes, FB!memory
<1>2. m \in MenuSet /\ m.of \in Replies /\ m.id \in FB!Menus
  BY <1>0 DEF FeedbackTypes, MenuSet
<1>a. m.of \in FB!Opened
  BY <1>0, <1>2 DEF IssuedInv, IsIssued
<1>b. /\ v \in PressSet /\ v.at = "write" /\ v.of = m.of /\ v.id = m.id /\ v.sign = row[m.of].sign
  <2>1. row[m.of].sign \in Signs
    BY <1>0, <1>a, OpenRows DEF RowSet
  <2> QED  BY <2>1, <1>2 DEF PressSet
<1> HIDE DEF v
<1>c. /\ press' \in [FB!Slots -> PressSet] /\ press'[p] = v
      /\ \A q \in FB!Slots \ {p} : press'[q] = press[q]
  BY <1>0, <1>1, <1>b, PressSetAt
<1>3. FB!Opened' = FB!Opened /\ FB!Stored' = FB!Stored
  BY <1>1 DEF FB!Opened, FB!Stored
<1>4. FeedbackTypes'
  <2>1. pressed' \in 0..MaxAnswers
    BY <1>0, <1>1, FeedbackAssumption DEF FeedbackTypes
  <2> QED  BY <2>1, <1>0, <1>1, <1>c DEF FeedbackTypes
<1>5. ToldInv'
  BY <1>0, <1>1, <1>b, <1>c, <1>3 DEF ToldInv
<1>6. RoomInv'
  <2>1. Writers' \subseteq Writers \cup {p}
    BY <1>1, <1>c DEF Writers
  <2> QED  BY <2>1, <1>0, <1>1, RoomStarts
<1>7. IssuedInv'
  <2>1. \A i \in FB!Menus : \A g \in Replies : IsIssued(i, g)' => IsIssued(i, g)
    BY <1>1, <1>b, <1>c, <1>3 DEF IsIssued
  <2>2. \A i \in FB!Menus : IsTold(i)' => IsTold(i)
    BY <1>1, <1>b, <1>c DEF IsTold
  <2> QED  BY <2>1, <2>2, <1>0, <1>1, <1>3, IssuedStays
<1>8. HandlerInv'
  <2> SUFFICES ASSUME NEW g \in FB!Opened \ crossedRows, NEW h \in FB!Handlers(g)'
               PROVE  row[g].status # "completed" /\ (h # 0 => press'[h].sign = row[g].sign)
    BY <1>1, <1>3 DEF HandlerInv
  <2>1. CASE h = p
    BY <2>1, <1>1, <1>b, <1>c, HandlersThen
  <2>2. CASE h # p
    <3>1. h \in FB!Handlers(g) /\ (h # 0 => press'[h] = press[h])
      BY <2>2, <1>1, <1>c, HandlersAre, HandlersThen
    <3> QED  BY <3>1, <1>0 DEF HandlerInv
  <2> QED  BY <2>1, <2>2
<1>9. MenuInv'
  <2> SUFFICES ASSUME NEW g \in FB!Opened \ (crossedRows \cup astray), row[g].status # "completed"
               PROVE  HasMenu(g)'
    BY <1>1, <1>3 DEF MenuInv
  <2>1. HasMenu(g)
    BY <1>0 DEF MenuInv
  <2>2. CurrentMenu(g)' = CurrentMenu(g) /\ MenuComing(g)' = MenuComing(g)
    BY <1>1 DEF CurrentMenu, MenuComing
  <2>3. ~IsTold(CurrentMenu(g)) => ~IsTold(CurrentMenu(g))'
    BY <2>2, <1>1, <1>b, <1>c DEF IsTold
  <2> QED  BY <2>1, <2>2, <2>3, <1>1, MenuStays
<1> QED  BY <1>0, <1>1, <1>4, <1>5, <1>6, <1>7, <1>8, <1>9, FeedbackRowsStay,
     LearningStays DEF FeedbackInv

\* An answer is on the row, whatever became of it since the handler read it.
LEMMA CompleteKeeps ==
  ASSUME FeedbackInv, NEW h, NEW f \in FB!Opened, NEW topic \in Topics,
         NEW sign \in Signs \cup {"any"}, FB!Complete(h, f, topic, sign),
         h \in FB!Handlers(f), f \notin crossedRows => sign \in {"any", row[f].sign},
         Len(answers) + 1 \in FB!Answers, UNCHANGED <<learner, daily>>
  PROVE  /\ row' \in [Replies -> RowSet \cup {FB!NoRow}] /\ answers' \in Seq(AnswerSet)
         /\ answered' \in [Replies -> SUBSET FB!Answers]
         /\ crossedRows' \subseteq Replies /\ stale' \subseteq Replies
         /\ UNCHANGED <<folded, astray, cutShort>>
         /\ FB!Opened' = FB!Opened /\ FB!Stored' = FB!Stored \cup {Len(answers) + 1}
         /\ Len(answers') = Len(answers) + 1
         /\ \A g \in FB!Opened \ {f} : row'[g] = row[g] /\ (g \notin crossedRows' => g \notin crossedRows)
         /\ row'[f].menu = row[f].menu /\ row'[f].status = "completed"
         /\ f \notin crossedRows' => FB!Handlers(f) \subseteq {h}
         /\ FeedbackRows' /\ FB!AnswerStands' /\ FB!LearntIsSaid' /\ BatchInv' /\ FoldInv' /\ FB!FoldedOnce'
<1> DEFINE n == Len(answers) + 1
           a == [of |-> f, topic |-> topic, sign |-> sign]
           r == [row[f] EXCEPT !.status = "completed", !.topic = topic, !.answer = n]
<1>0. /\ FeedbackTypes /\ ToldInv /\ RoomInv /\ FeedbackRows /\ IssuedInv /\ HandlerInv /\ MenuInv
      /\ BatchInv /\ FoldInv /\ FB!AnswerStands /\ FB!LearntIsSaid /\ FB!FoldedOnce
  BY DEF FeedbackInv
<1>f. f \in Replies /\ row[f] \in RowSet /\ FB!Opened \subseteq Replies
  BY <1>0, OpenRows
<1>n. n \in Nat /\ n # 0 /\ n \in FB!Answers /\ FB!Stored \subseteq FB!Answers
  BY <1>0, StoredFacts, IdsAreNumbers
<1>b. /\ r \in RowSet /\ r.status = "completed" /\ r.sign = row[f].sign /\ r.topic = topic
      /\ r.answer = n /\ r.menu = row[f].menu /\ r.reflection = row[f].reflection
      /\ r.stamped = row[f].stamped
  BY <1>f, <1>n DEF RowSet
<1>1. /\ row' = [row EXCEPT ![f] = r] /\ answers' = Append(answers, a)
      /\ answered' = [answered EXCEPT ![f] = @ \cup {n}]
      /\ crossedRows' = IF FB!Handlers(f) \subseteq {h} THEN crossedRows ELSE crossedRows \cup {f}
      /\ stale' = IF FB!Copies(f) THEN stale \cup {f} ELSE stale
      /\ UNCHANGED <<folded, astray, cutShort, learner, daily>>
  <2>1. row' = [row EXCEPT ![f].status = "completed", ![f].topic = topic, ![f].answer = n]
    BY DEF FB!Complete
  <2>2. row' = [row EXCEPT ![f] = r]
    BY <2>1, <1>0, <1>f DEF FeedbackTypes
  <2> QED  BY <2>2 DEF FB!Complete, FB!Writes
<1>a. a \in AnswerSet /\ a.of = f /\ a.topic = topic /\ a.sign = sign
  BY <1>f DEF AnswerSet
<1> HIDE DEF r, a
<1>2. /\ answers' \in Seq(AnswerSet) /\ Len(answers') = n
      /\ FB!Stored' = FB!Stored \cup {n} /\ n \notin FB!Stored
      /\ answers'[n] = a /\ \A i \in FB!Stored : answers'[i] = answers[i]
  BY <1>0, <1>1, <1>a, Appended
<1>r. /\ row' \in [Replies -> RowSet \cup {FB!NoRow}] /\ row'[f] = r
      /\ \A g \in Replies \ {f} : row'[g] = row[g]
      /\ FB!Opened' = FB!Opened
  <2>1. /\ row' \in [Replies -> RowSet \cup {FB!NoRow}] /\ row'[f] = r
        /\ \A g \in Replies \ {f} : row'[g] = row[g]
        /\ FB!Opened' = FB!Opened \cup {f}
    BY <1>0, <1>1, <1>f, <1>b, RowWritten
  <2> QED  BY <2>1
<1>g. /\ answered' \in [Replies -> SUBSET FB!Answers] /\ answered'[f] = answered[f] \cup {n}
      /\ \A g \in Replies \ {f} : answered'[g] = answered[g]
  BY <1>0, <1>1, <1>f, <1>n DEF FeedbackTypes
<1>u. UNCHANGED <<folded, astray, cutShort, learner, daily>>
  BY <1>1
<1>v. \A i \in FB!Stored' : i = n \/ (i \in FB!Stored /\ answers'[i] = answers[i])
  BY <1>2
<1> HIDE DEF n
<1>h. f \notin crossedRows' => f \notin crossedRows /\ row[f].status # "completed" /\ answered[f] = {} /\ row[f].answer = 0
  <2> SUFFICES ASSUME f \notin crossedRows'
               PROVE  row[f].status # "completed" /\ answered[f] = {} /\ row[f].answer = 0
    BY <1>1
  <2>1. row[f].status # "completed"
    BY <1>0, <1>1 DEF HandlerInv
  <2>2. answered[f] = {} /\ answered[f] = {row[f].answer} \ {0}
    BY <2>1, <1>0, <1>1 DEF FB!AnswerStands
  <2> QED  BY <2>1, <2>2
<1>k. \A k \in FB!Folds : folded'[k][n] = 0 /\ folded[k][n] = 0
  BY <1>0, <1>1, <1>2, <1>n DEF FoldInv
<1>4. FeedbackRows'
  <2>1. \A i \in FB!Stored' : answers'[i].of \in FB!Opened'
    BY <1>0, <1>1, <1>2, <1>a, <1>r DEF FeedbackRows
  <2>2. \A g \in FB!Opened : /\ row'[g].menu = row[g].menu /\ row'[g].reflection = row[g].reflection
                             /\ g # f => row'[g] = row[g]
    BY <1>b, <1>r, <1>f
  <2>a. FeedbackRows
    BY <1>0
  <2>b. /\ FB!Opened' = FB!Opened /\ FB!Stored' = FB!Stored \cup {n}
        /\ \A i \in FB!Stored : answers'[i] = answers[i]
    BY <1>2, <1>r
  <2>3. \A g \in FB!Opened' : g # f =>
          /\ row'[g].status = "completed" => row'[g].answer # 0
          /\ row'[g].answer = 0 => row'[g].topic = "quality"
          /\ row'[g].answer # 0 => /\ row'[g].answer \in FB!Stored'
                                   /\ answers'[row'[g].answer].of = g
                                   /\ answers'[row'[g].answer].topic = row'[g].topic
    <3> SUFFICES ASSUME NEW g \in FB!Opened, g # f
                 PROVE  /\ row[g].status = "completed" => row[g].answer # 0
                        /\ row[g].answer = 0 => row[g].topic = "quality"
                        /\ row[g].answer # 0 => /\ row[g].answer \in FB!Stored'
                                                /\ answers'[row[g].answer].of = g
                                                /\ answers'[row[g].answer].topic = row[g].topic
      <4>1. FB!Opened' = FB!Opened
        BY <2>b
      <4>2. \A g \in FB!Opened : g # f => row'[g] = row[g]
        BY <2>2
      <4> QED  BY <4>1, <4>2
    <3>1. /\ row[g].status = "completed" => row[g].answer # 0
          /\ row[g].answer = 0 => row[g].topic = "quality"
          /\ row[g].answer # 0 => /\ row[g].answer \in FB!Stored
                                  /\ answers[row[g].answer].of = g
                                  /\ answers[row[g].answer].topic = row[g].topic
      BY <2>a DEF FeedbackRows
    <3>2. \A i \in FB!Stored : i \in FB!Stored' /\ answers'[i] = answers[i]
      BY <2>b
    <3> QED  BY <3>1, <3>2
  <2>4. /\ row'[f].answer = n /\ n # 0 /\ n \in FB!Stored'
        /\ answers'[n].of = f /\ answers'[n].topic = row'[f].topic
    BY <1>2, <1>a, <1>b, <1>r, <1>n
  <2>5. \A g \in FB!Opened' : row'[g].menu \in FB!Menus \cup {0} /\ row'[g].reflection \in FB!Stored' \cup {0}
    <3>1. \A g \in FB!Opened : row[g].menu \in FB!Menus \cup {0} /\ row[g].reflection \in FB!Stored \cup {0}
      BY <2>a DEF FeedbackRows
    <3>2. FB!Opened' = FB!Opened /\ FB!Stored \subseteq FB!Stored'
      BY <2>b
    <3>3. \A g \in FB!Opened : row'[g].menu = row[g].menu /\ row'[g].reflection = row[g].reflection
      BY <2>2
    <3> QED  BY <3>1, <3>2, <3>3
  <2>6. FB!Menus' = FB!Menus
    BY DEF FB!Menus
  <2> QED  BY <2>1, <2>3, <2>4, <2>5, <2>6 DEF FeedbackRows
<1>5. FB!AnswerStands'
  <2> SUFFICES ASSUME NEW g \in FB!Opened', g \notin crossedRows'
               PROVE  /\ answered'[g] # {} <=> row'[g].status = "completed"
                      /\ answered'[g] = {row'[g].answer} \ {0}
                      /\ \A i \in answered'[g] : answers'[i].sign \in {"any", row'[g].sign}
    BY DEF FB!AnswerStands
  <2>1. CASE g = f
    BY <2>1, <1>h, <1>2, <1>a, <1>b, <1>g, <1>r, <1>n
  <2>2. CASE g # f
    <3>1. g \in FB!Opened \ crossedRows /\ row'[g] = row[g] /\ answered'[g] = answered[g]
      BY <2>2, <1>1, <1>r, <1>g, <1>f
    <3>2. \A i \in answered[g] : i \in FB!Stored
      BY <3>1, <1>0 DEF FB!AnswerStands, FeedbackRows
    <3> QED  BY <3>1, <3>2, <1>0, <1>2 DEF FB!AnswerStands
  <2> QED  BY <2>1, <2>2
<1>6. FB!LearntIsSaid'
  <2> SUFFICES ASSUME NEW g \in FB!Opened', g \notin stale' \cup crossedRows'
               PROVE  /\ \A k \in row'[g].stamped : row'[g].answer # 0 /\ folded'[k][row'[g].answer] > 0
                      /\ row'[g].reflection \in {0, row'[g].answer}
    BY DEF FB!LearntIsSaid
  <2>0. g \in FB!Opened \ (stale \cup crossedRows)
    BY <1>1, <1>r
  <2>1. CASE g = f
    <3>1. row[f].stamped = {} /\ row[f].reflection = 0
      BY <2>0, <2>1, <1>h, <1>0 DEF FB!LearntIsSaid
    <3> QED  BY <3>1, <2>1, <1>b, <1>r
  <2>2. CASE g # f
    BY <2>0, <2>2, <1>0, <1>1, <1>r, <1>f DEF FB!LearntIsSaid
  <2> QED  BY <2>1, <2>2
<1>7. BatchInv'
  <2>0. Batch' = Batch /\ \A c \in Batch : c \in AnswerCopy
    BY <1>0, <1>1 DEF Batch, FeedbackTypes, RunSet
  <2>1. f \notin stale' => /\ \A c \in Batch : c.of # f
                           /\ \A i \in FB!Stored : learner[i].at = "reflecting" => answers[i].of # f
    BY <1>1 DEF FB!Copies, Batch
  <2>2. \A g \in FB!Opened' : g \notin stale' \cup crossedRows' =>
          /\ g \in FB!Opened \ (stale \cup crossedRows)
          /\ g # f => row'[g] = row[g]
    BY <1>1, <1>r, <1>f
  <2>3. learner'[n].at # "reflecting"
    BY <1>0, <1>1, <1>2, <1>n DEF ToldInv
  <2>4. \A c \in Batch : /\ c.n \in FB!Stored' /\ answers'[c.n].topic = "quality"
                         /\ answers'[c.n].of = c.of
    BY <1>0, <1>2 DEF BatchInv
  <2>5. \A g \in FB!Opened' : g \notin stale' \cup crossedRows' => \A c \in Batch :
          c.of = g => row'[g].status = "completed" /\ c.n = row'[g].answer
    BY <2>1, <2>2, <1>0 DEF BatchInv
  <2>6. \A g \in FB!Opened' : g \notin stale' \cup crossedRows' => \A i \in FB!Stored' :
          learner'[i].at = "reflecting" /\ answers'[i].of = g =>
            row'[g].status = "completed" /\ learner'[i].n = row'[g].answer
    BY <2>1, <2>2, <2>3, <1>0, <1>u, <1>v DEF BatchInv
  <2> QED  BY <2>0, <2>4, <2>5, <2>6, <1>0, <1>1 DEF BatchInv
<1>8. FoldInv'
  <2>1. \A g \in FB!Opened' : g = f \/ (g \in FB!Opened /\ row'[g] = row[g])
    BY <1>r, <1>f
  <2>2. row'[f].answer = n
    BY <1>b, <1>r
  <2>3. \A g \in FB!Opened' : \A k \in FB!Folds \ row'[g].stamped :
          row'[g].answer # 0 /\ row'[g].answer \notin cutShort' =>
            \/ folded'[k][row'[g].answer] = 0
            \/ daily'.at = k /\ \E c \in daily'.todo : c.n = row'[g].answer
    BY <2>1, <2>2, <1>0, <1>1, <1>k DEF FoldInv
  <2>4. \A i \in FB!Answers' \ FB!Stored' : \A k \in FB!Folds' : folded'[k][i] = 0
    <3>1. FB!Answers' = FB!Answers /\ FB!Folds' = FB!Folds
      BY DEF FB!Answers, FB!Folds
    <3> QED  BY <3>1, <1>0, <1>1, <1>2 DEF FoldInv
  <2>5. /\ \A k \in FB!Folds : \A c \in daily'[k] : c.n \notin cutShort' => folded'[k][c.n] = 0
        /\ \A c \in daily'.todo : daily'.at \in FB!Folds /\ folded'[daily'.at][c.n] > 0
    BY <1>0, <1>1 DEF FoldInv
  <2>6. FB!Folds' = FB!Folds
    BY DEF FB!Folds
  <2> QED  BY <2>3, <2>4, <2>5, <2>6 DEF FoldInv
<1>9. FB!FoldedOnce'
  <2>1. learner'[n].at # "filed"
    BY <1>0, <1>1, <1>2, <1>n DEF ToldInv
  <2>2. \A i \in FB!Stored : learner'[i].at = "filed" => learner[i].n \in FB!Stored
    BY <1>0, <1>1, <1>n DEF ToldInv
  <2>3. \A i \in FB!Stored' :
          /\ \A k \in FB!Folds : i \notin cutShort' => folded'[k][i] <= 1
          /\ answers'[i].topic = "addressing" => \A k \in FB!Folds : folded'[k][i] = 0
          /\ learner'[i].at = "filed" => answers'[learner'[i].n].topic = "addressing"
    <3> SUFFICES ASSUME NEW i \in FB!Stored'
                 PROVE  /\ \A k \in FB!Folds : i \notin cutShort => folded[k][i] <= 1
                        /\ answers'[i].topic = "addressing" => \A k \in FB!Folds : folded[k][i] = 0
                        /\ learner[i].at = "filed" => answers'[learner[i].n].topic = "addressing"
      BY <1>u
    <3>1. CASE i = n
      <4>1. learner[i].at # "filed"
        BY <3>1, <2>1, <1>u
      <4>2. \A k \in FB!Folds : folded[k][i] = 0
        BY <3>1, <1>k
      <4>3. \A k \in FB!Folds : folded[k][i] <= 1
        BY <4>2
      <4> QED  BY <4>1, <4>2, <4>3
    <3>2. CASE i \in FB!Stored
      <4>1. answers'[i] = answers[i]
        BY <3>2, <1>2
      <4>2. learner[i].at = "filed" => answers'[learner[i].n] = answers[learner[i].n]
        BY <3>2, <2>2, <1>2, <1>u
      <4> QED  BY <3>2, <4>1, <4>2, <1>0 DEF FB!FoldedOnce
    <3> QED  BY <3>1, <3>2, <1>v
  <2>4. FB!Folds' = FB!Folds
    BY DEF FB!Folds
  <2> QED  BY <2>3, <2>4 DEF FB!FoldedOnce
<1>10. crossedRows' \subseteq Replies /\ stale' \subseteq Replies
  BY <1>0, <1>1, <1>f DEF FeedbackTypes
<1>11. /\ \A g \in FB!Opened \ {f} : row'[g] = row[g] /\ (g \notin crossedRows' => g \notin crossedRows)
       /\ row'[f].menu = row[f].menu /\ row'[f].status = "completed"
       /\ f \notin crossedRows' => FB!Handlers(f) \subseteq {h}
  BY <1>1, <1>b, <1>r, <1>f
<1> USE DEF n
<1> QED  BY <1>1, <1>2, <1>r, <1>g, <1>4, <1>5, <1>6, <1>7, <1>8, <1>9, <1>10, <1>11

\* The answer is the text.
LEMMA TextStoredKeeps ==
  ASSUME FeedbackInv, FB!TextStored
  PROVE  FeedbackInv'
<1> DEFINE f == chain.of
           n == Len(answers) + 1
<1>0. /\ FeedbackTypes /\ ToldInv /\ RoomInv /\ FeedbackRows /\ IssuedInv /\ HandlerInv /\ MenuInv
      /\ BatchInv /\ FoldInv /\ FB!AnswerStands /\ FB!LearntIsSaid /\ FB!FoldedOnce
  BY DEF FeedbackInv
<1>1. /\ chain.at = "write" /\ FB!Complete(0, f, "quality", "any")
      /\ chain' = [at |-> "tell", id |-> chain.id, n |-> n]
      /\ UNCHANGED <<menus, press, learner, daily, reactions, pressed, runs, mishaps>>
  BY DEF FB!TextStored, FB!counters
<1>2. chain \in [at : {"write"}, of : Replies, id : FB!Menus]
  BY <1>0, <1>1, ChainFacts
<1>a. f \in FB!Opened /\ f \in Replies /\ chain.id \in FB!Menus /\ FB!Opened \subseteq Replies
  <2>1. f \in Replies /\ chain.id \in FB!Menus
    BY <1>2
  <2>2. IsIssued(chain.id, f)
    BY <1>1 DEF IsIssued
  <2> QED  BY <2>1, <2>2, <1>0, OpenRows DEF IssuedInv
<1>b. 0 \in Writers
  BY <1>1 DEF Writers
<1>c. n \in FB!Answers
  BY <1>0, <1>b, StoredFacts
<1>d. /\ chain' \in [at : {"tell"}, id : FB!Menus, n : FB!Answers]
      /\ chain'.at = "tell" /\ chain'.id = chain.id /\ chain'.n = n
  BY <1>1, <1>a, <1>c
<1>k. 0 \in FB!Handlers(f)
  BY <1>1, HandlersAre
<1> DEFINE Done ==
         /\ row' \in [Replies -> RowSet \cup {FB!NoRow}] /\ answers' \in Seq(AnswerSet)
         /\ answered' \in [Replies -> SUBSET FB!Answers]
         /\ crossedRows' \subseteq Replies /\ stale' \subseteq Replies
         /\ UNCHANGED <<folded, astray, cutShort>>
         /\ FB!Opened' = FB!Opened /\ FB!Stored' = FB!Stored \cup {n}
         /\ Len(answers') = n
         /\ \A g \in FB!Opened \ {f} : row'[g] = row[g] /\ (g \notin crossedRows' => g \notin crossedRows)
         /\ row'[f].menu = row[f].menu /\ row'[f].status = "completed"
         /\ f \notin crossedRows' => FB!Handlers(f) \subseteq {0}
         /\ FeedbackRows' /\ FB!AnswerStands' /\ FB!LearntIsSaid' /\ BatchInv' /\ FoldInv' /\ FB!FoldedOnce'
<1>3. Done
  <2> HIDE DEF f
  <2>1. "quality" \in Topics /\ "any" \in Signs \cup {"any"}
    BY DEF Topics
  <2> QED  BY <2>1, <1>0, <1>1, <1>a, <1>c, <1>k, CompleteKeeps
<1>4. FeedbackTypes'
  BY <1>0, <1>1, <1>3, <1>d DEF FeedbackTypes, ChainSet
<1>5. ToldInv'
  BY <1>0, <1>1, <1>3, <1>d DEF ToldInv
<1>6. RoomInv'
  <2>1. Writers' \subseteq Writers \ {0}
    BY <1>1, <1>d, IdsAreNumbers DEF Writers
  <2> QED  BY <2>1, <1>0, <1>1, <1>3, <1>b, RoomFilled
<1>7. IssuedInv'
  <2>1. \A i \in FB!Menus : \A g \in Replies : IsIssued(i, g)' => IsIssued(i, g)
    BY <1>1, <1>3, <1>d DEF IsIssued
  <2>2. \A i \in FB!Menus : IsTold(i)' => IsTold(i) \/ IsIssued(i, f)
    BY <1>1, <1>d DEF IsTold, IsIssued
  <2> QED  BY <2>1, <2>2, <1>0, <1>1, <1>3, <1>a, IssuedStays
<1>8. HandlerInv'
  <2> SUFFICES ASSUME NEW g \in FB!Opened, g \notin crossedRows', NEW h \in FB!Handlers(g)'
               PROVE  row'[g].status # "completed" /\ (h # 0 => press'[h].sign = row'[g].sign)
    BY <1>3 DEF HandlerInv
  <2>1. h \in FB!Handlers(g) /\ h # 0
    BY <1>1, <1>d, HandlersAre, HandlersThen
  <2>2. g # f
    BY <2>1, <1>3
  <2>3. row'[g] = row[g] /\ g \notin crossedRows
    BY <2>2, <1>3
  <2> QED  BY <2>1, <2>3, <1>0, <1>1 DEF HandlerInv
<1>9. MenuInv'
  <2> SUFFICES ASSUME NEW g \in FB!Opened, g \notin crossedRows' \cup astray, row'[g].status # "completed"
               PROVE  HasMenu(g)'
    BY <1>3 DEF MenuInv
  <2>0. g # f /\ row'[g] = row[g] /\ g \notin crossedRows
    BY <1>3
  <2>1. HasMenu(g)
    BY <2>0, <1>0 DEF MenuInv
  <2>2. CurrentMenu(g)' = CurrentMenu(g) /\ CurrentMenu(g) = row[g].menu /\ ~MenuComing(g)
    BY <2>0, <1>1, <1>d DEF CurrentMenu, MenuComing
  <2>3. row[g].menu # chain.id
    <3>1. IsIssued(chain.id, f)
      BY <1>1 DEF IsIssued
    <3>2. row[g].menu = chain.id => IsIssued(chain.id, g)
      BY DEF IsIssued
    <3> QED  BY <3>1, <3>2, <2>0, <1>0, <1>a DEF IssuedInv
  <2>4. ~IsTold(CurrentMenu(g)) => ~IsTold(CurrentMenu(g))'
    BY <2>2, <2>3, <1>1, <1>d DEF IsTold
  <2> QED  BY <2>1, <2>2, <2>4, <1>1, MenuStays
<1> QED  BY <1>3, <1>4, <1>5, <1>6, <1>7, <1>8, <1>9 DEF FeedbackInv

\* The answer is the option.
LEMMA OptionStoredKeeps ==
  ASSUME FeedbackInv, NEW p \in FB!Slots, FB!OptionStored(p)
  PROVE  FeedbackInv'
<1> DEFINE f == press[p].of
           n == Len(answers) + 1
           topic == IF press[p].button = "last" THEN "addressing" ELSE "quality"
           v == [at |-> "tell", id |-> press[p].id, n |-> n]
<1>0. /\ FeedbackTypes /\ ToldInv /\ RoomInv /\ FeedbackRows /\ IssuedInv /\ HandlerInv /\ MenuInv
      /\ BatchInv /\ FoldInv /\ FB!AnswerStands /\ FB!LearntIsSaid /\ FB!FoldedOnce
  BY DEF FeedbackInv
<1>1. /\ press[p].at = "write" /\ FB!Complete(p, f, topic, press[p].sign)
      /\ press' = [press EXCEPT ![p] = v]
      /\ UNCHANGED <<menus, chain, learner, daily, reactions, pressed, runs, mishaps>>
  BY DEF FB!OptionStored, FB!counters
<1>2. press[p] \in [at : {"write"}, of : Replies, id : FB!Menus, button : Buttons, sign : Signs]
  BY <1>0, <1>1, PressFacts
<1>a. f \in FB!Opened /\ f \in Replies /\ press[p].id \in FB!Menus /\ FB!Opened \subseteq Replies
  <2>1. f \in Replies /\ press[p].id \in FB!Menus
    BY <1>2
  <2>2. IsIssued(press[p].id, f)
    BY <1>1 DEF IsIssued
  <2> QED  BY <2>1, <2>2, <1>0, OpenRows DEF IssuedInv
<1>b. p \in Writers
  BY <1>1, IdsAreNumbers DEF Writers
<1>c. n \in FB!Answers
  BY <1>0, <1>b, StoredFacts
<1>d. /\ v \in PressSet /\ v.at = "tell" /\ v.id = press[p].id /\ v.n = n
  BY <1>a, <1>c DEF PressSet
<1>e. /\ press' \in [FB!Slots -> PressSet] /\ press'[p] = v
      /\ \A q \in FB!Slots \ {p} : press'[q] = press[q]
  <2> HIDE DEF v
  <2> QED  BY <1>0, <1>1, <1>d, PressSetAt
<1> HIDE DEF v
<1>k. p \in FB!Handlers(f)
  BY <1>1, HandlersAre
<1> DEFINE Done ==
         /\ row' \in [Replies -> RowSet \cup {FB!NoRow}] /\ answers' \in Seq(AnswerSet)
         /\ answered' \in [Replies -> SUBSET FB!Answers]
         /\ crossedRows' \subseteq Replies /\ stale' \subseteq Replies
         /\ UNCHANGED <<folded, astray, cutShort>>
         /\ FB!Opened' = FB!Opened /\ FB!Stored' = FB!Stored \cup {n}
         /\ Len(answers') = n
         /\ \A g \in FB!Opened \ {f} : row'[g] = row[g] /\ (g \notin crossedRows' => g \notin crossedRows)
         /\ row'[f].menu = row[f].menu /\ row'[f].status = "completed"
         /\ f \notin crossedRows' => FB!Handlers(f) \subseteq {p}
         /\ FeedbackRows' /\ FB!AnswerStands' /\ FB!LearntIsSaid' /\ BatchInv' /\ FoldInv' /\ FB!FoldedOnce'
<1>3. Done
  <2>1. topic \in Topics /\ press[p].sign \in Signs \cup {"any"}
    BY <1>2 DEF Topics
  <2>2. f \notin crossedRows => press[p].sign \in {"any", row[f].sign}
    BY <1>0, <1>a, <1>k, IdsAreNumbers DEF HandlerInv
  <2> HIDE DEF f, topic
  <2> DEFINE sign == press[p].sign
  <2> HIDE DEF sign
  <2>3. sign \in Signs \cup {"any"} /\ (f \notin crossedRows => sign \in {"any", row[f].sign}) /\ FB!Complete(p, f, topic, sign)
    BY <2>1, <2>2, <1>1 DEF sign
  <2> QED  BY <2>1, <2>3, <1>0, <1>1, <1>a, <1>c, <1>k, CompleteKeeps
<1>4. FeedbackTypes'
  BY <1>0, <1>1, <1>3, <1>e DEF FeedbackTypes
<1>5. ToldInv'
  BY <1>0, <1>1, <1>3, <1>d, <1>e DEF ToldInv
<1>6. RoomInv'
  <2>1. Writers' \subseteq Writers \ {p}
    BY <1>1, <1>d, <1>e, IdsAreNumbers DEF Writers
  <2> QED  BY <2>1, <1>0, <1>1, <1>3, <1>b, RoomFilled
<1>7. IssuedInv'
  <2>1. \A i \in FB!Menus : \A g \in Replies : IsIssued(i, g)' => IsIssued(i, g)
    BY <1>1, <1>3, <1>d, <1>e DEF IsIssued
  <2>2. \A i \in FB!Menus : IsTold(i)' => IsTold(i) \/ IsIssued(i, f)
    BY <1>1, <1>d, <1>e DEF IsTold, IsIssued
  <2> QED  BY <2>1, <2>2, <1>0, <1>1, <1>3, <1>a, IssuedStays
<1>8. HandlerInv'
  <2> SUFFICES ASSUME NEW g \in FB!Opened, g \notin crossedRows', NEW h \in FB!Handlers(g)'
               PROVE  row'[g].status # "completed" /\ (h # 0 => press'[h].sign = row'[g].sign)
    BY <1>3 DEF HandlerInv
  <2>1. h \in FB!Handlers(g) /\ h # p /\ (h # 0 => press'[h] = press[h])
    BY <1>1, <1>d, <1>e, HandlersAre, HandlersThen
  <2>2. g # f
    BY <2>1, <1>3
  <2>3. row'[g] = row[g] /\ g \notin crossedRows
    BY <2>2, <1>3
  <2> QED  BY <2>1, <2>3, <1>0 DEF HandlerInv
<1>9. MenuInv'
  <2> SUFFICES ASSUME NEW g \in FB!Opened, g \notin crossedRows' \cup astray, row'[g].status # "completed"
               PROVE  HasMenu(g)'
    BY <1>3 DEF MenuInv
  <2>0. g # f /\ row'[g] = row[g] /\ g \notin crossedRows
    BY <1>3
  <2>1. HasMenu(g)
    BY <2>0, <1>0 DEF MenuInv
  <2>2. CurrentMenu(g)' = CurrentMenu(g) /\ MenuComing(g)' = MenuComing(g)
    BY <2>0, <1>1 DEF CurrentMenu, MenuComing
  <2>3. CurrentMenu(g) # press[p].id
    <3>1. IsIssued(press[p].id, f)
      BY <1>1 DEF IsIssued
    <3>2. CurrentMenu(g) = press[p].id => IsIssued(press[p].id, g)
      BY DEF IsIssued, CurrentMenu, MenuComing
    <3> QED  BY <3>1, <3>2, <2>0, <1>0, <1>a DEF IssuedInv
  <2>4. ~IsTold(CurrentMenu(g)) => ~IsTold(CurrentMenu(g))'
    BY <2>2, <2>3, <1>1, <1>d, <1>e DEF IsTold
  <2> QED  BY <2>1, <2>2, <2>4, <1>1, MenuStays
<1> QED  BY <1>3, <1>4, <1>5, <1>6, <1>7, <1>8, <1>9 DEF FeedbackInv

\* The learning of an answer begins, or the event is lost.
LEMMA TellKeeps ==
  ASSUME FeedbackInv, NEW n \in FB!Stored, FB!Tell(n),
         UNCHANGED <<row, daily, answers, answered, folded, crossedRows, stale, astray, cutShort>>
  PROVE  /\ learner' \in [FB!Answers -> LearnSet] /\ mishaps' \in 0..MaxMishaps
         /\ \A i \in FB!Answers :
              /\ learner'[i].at # "none" => i \in FB!Stored
              /\ learner'[i].at \in {"reflecting", "filed"} => learner'[i].n \in FB!Stored
         /\ FeedbackRows' /\ FB!AnswerStands' /\ FB!LearntIsSaid' /\ BatchInv' /\ FoldInv' /\ FB!FoldedOnce'
<1>0. /\ FeedbackTypes /\ ToldInv /\ RoomInv /\ FeedbackRows /\ IssuedInv /\ HandlerInv /\ MenuInv
      /\ BatchInv /\ FoldInv /\ FB!AnswerStands /\ FB!LearntIsSaid /\ FB!FoldedOnce
  BY DEF FeedbackInv
<1>1. \/ learner' = [learner EXCEPT ![n].at = "recorded"] /\ UNCHANGED mishaps
      \/ mishaps < MaxMishaps /\ mishaps' = mishaps + 1 /\ UNCHANGED learner
  BY DEF FB!Tell, FB!Mishap
<1>2. n \in FB!Answers
  BY <1>0, StoredFacts
<1>3. mishaps' \in 0..MaxMishaps
  BY <1>0, <1>1, FeedbackAssumption DEF FeedbackTypes
<1>4. /\ learner' \in [FB!Answers -> LearnSet]
      /\ \A i \in FB!Answers : learner'[i] = learner[i] \/ (i = n /\ learner'[i].at = "recorded")
  <2>1. CASE learner' = [learner EXCEPT ![n].at = "recorded"]
    <3>1. learner[n] \in LearnSet
      BY <1>0, <1>2 DEF FeedbackTypes
    <3>2. /\ [learner[n] EXCEPT !.at = "recorded"] \in LearnSet
          /\ [learner[n] EXCEPT !.at = "recorded"].at = "recorded"
      BY <3>1 DEF LearnSet, LearnAt
    <3> QED  BY <2>1, <3>2, <1>0, <1>2 DEF FeedbackTypes
  <2>2. CASE learner' = learner
    BY <2>2, <1>0 DEF FeedbackTypes
  <2> QED  BY <2>1, <2>2, <1>1
<1>5. FB!Opened' = FB!Opened /\ FB!Stored' = FB!Stored /\ Batch' = Batch /\ FB!Stored \subseteq FB!Answers
  BY <1>0, StoredFacts DEF FB!Opened, FB!Stored, Batch
<1>6. \A i \in FB!Answers :
        /\ learner'[i].at # "none" => i \in FB!Stored
        /\ learner'[i].at \in {"reflecting", "filed"} => learner'[i].n \in FB!Stored
  BY <1>0, <1>4 DEF ToldInv
<1>7. BatchInv'
  <2>1. \A g \in FB!Opened' \ (stale' \cup crossedRows') : \A i \in FB!Stored' :
          learner'[i].at = "reflecting" /\ answers'[i].of = g =>
            row'[g].status = "completed" /\ learner'[i].n = row'[g].answer
    BY <1>0, <1>4, <1>5 DEF BatchInv
  <2> QED  BY <2>1, <1>0, <1>5 DEF BatchInv
<1>8. FoldInv'
  BY <1>0, <1>5 DEF FoldInv
<1>9. FB!FoldedOnce'
  BY <1>0, <1>4, <1>5 DEF FB!FoldedOnce
<1> QED  BY <1>0, <1>3, <1>4, <1>6, <1>7, <1>8, <1>9, FeedbackRowsStay

\* The menu goes and the learning begins, after a text.
LEMMA TextToldKeeps ==
  ASSUME FeedbackInv, FB!TextTold
  PROVE  FeedbackInv'
<1> DEFINE n == chain.n
<1>0. /\ FeedbackTypes /\ ToldInv /\ RoomInv /\ FeedbackRows /\ IssuedInv /\ HandlerInv /\ MenuInv
      /\ BatchInv /\ FoldInv /\ FB!AnswerStands /\ FB!LearntIsSaid /\ FB!FoldedOnce
  BY DEF FeedbackInv
<1>1. /\ chain.at = "tell" /\ FB!DeleteMenu(chain.id) /\ FB!Tell(n) /\ chain' = FB!NoPress
      /\ UNCHANGED <<row, press, daily, reactions, pressed, runs>>
      /\ UNCHANGED <<answers, answered, folded, crossedRows, stale, astray, cutShort>>
  BY DEF FB!TextTold, FB!memory
<1>2. n \in FB!Stored /\ chain'.at = "idle" /\ IsTold(chain.id) /\ chain.id \in FB!Menus
  BY <1>0, <1>1, ChainFacts DEF FB!NoPress, ToldInv, IsTold
<1>3. FB!Opened' = FB!Opened /\ FB!Stored' = FB!Stored
  BY <1>1 DEF FB!Opened, FB!Stored
<1>m. menus' \subseteq menus /\ \A m \in menus : m \in menus' \/ m.id = chain.id
  BY <1>1 DEF FB!DeleteMenu
<1>t. /\ learner' \in [FB!Answers -> LearnSet] /\ mishaps' \in 0..MaxMishaps
      /\ \A i \in FB!Answers :
           /\ learner'[i].at # "none" => i \in FB!Stored
           /\ learner'[i].at \in {"reflecting", "filed"} => learner'[i].n \in FB!Stored
      /\ FeedbackRows' /\ FB!AnswerStands' /\ FB!LearntIsSaid' /\ BatchInv' /\ FoldInv' /\ FB!FoldedOnce'
  <2> HIDE DEF n
  <2> QED  BY <1>1, <1>2, TellKeeps
<1>4. FeedbackTypes'
  BY <1>0, <1>1, <1>m, <1>t DEF FeedbackTypes, ChainSet
<1>5. ToldInv'
  BY <1>0, <1>1, <1>2, <1>3, <1>t DEF ToldInv
<1>6. RoomInv'
  <2>1. Writers' \subseteq Writers
    BY <1>1, <1>2 DEF Writers
  <2> QED  BY <2>1, <1>0, <1>1, RoomSame
<1>7. IssuedInv'
  <2>1. \A i \in FB!Menus : \A g \in Replies : IsIssued(i, g)' => IsIssued(i, g)
    BY <1>1, <1>2, <1>3, <1>m DEF IsIssued
  <2>2. \A i \in FB!Menus : IsTold(i)' => IsTold(i)
    BY <1>1, <1>2 DEF IsTold
  <2> QED  BY <2>1, <2>2, <1>0, <1>1, <1>3, IssuedStays
<1>8. HandlerInv'
  <2>1. \A g : FB!Handlers(g)' \subseteq FB!Handlers(g)
    BY <1>1, <1>2, HandlersAre, HandlersThen
  <2> QED  BY <2>1, <1>0, <1>1, HandlersStay
<1>9. MenuInv'
  <2> SUFFICES ASSUME NEW g \in FB!Opened \ (crossedRows \cup astray), row[g].status # "completed"
               PROVE  HasMenu(g)'
    BY <1>1, <1>3 DEF MenuInv
  <2>1. HasMenu(g)
    BY <1>0 DEF MenuInv
  <2>2. CurrentMenu(g)' = CurrentMenu(g) /\ ~MenuComing(g)
    BY <1>1, <1>2 DEF CurrentMenu, MenuComing
  <2>3. ~IsTold(CurrentMenu(g)) => ~IsTold(CurrentMenu(g))'
    BY <2>2, <1>1, <1>2 DEF IsTold
  <2>4. CurrentMenu(g) # chain.id
    BY <2>1, <1>2 DEF HasMenu
  <2> QED  BY <2>1, <2>2, <2>3, <2>4, <1>m, MenuStays
<1> QED  BY <1>t, <1>4, <1>5, <1>6, <1>7, <1>8, <1>9 DEF FeedbackInv

\* The same after an option.
LEMMA OptionToldKeeps ==
  ASSUME FeedbackInv, NEW p \in FB!Slots, FB!OptionTold(p)
  PROVE  FeedbackInv'
<1> DEFINE n == press[p].n
           i0 == press[p].id
<1>0. /\ FeedbackTypes /\ ToldInv /\ RoomInv /\ FeedbackRows /\ IssuedInv /\ HandlerInv /\ MenuInv
      /\ BatchInv /\ FoldInv /\ FB!AnswerStands /\ FB!LearntIsSaid /\ FB!FoldedOnce
  BY DEF FeedbackInv
<1>1. /\ press[p].at = "tell" /\ FB!DeleteMenu(i0) /\ FB!Tell(n) /\ press' = [press EXCEPT ![p] = FB!NoPress]
      /\ UNCHANGED <<row, chain, daily, reactions, pressed, runs>>
      /\ UNCHANGED <<answers, answered, folded, crossedRows, stale, astray, cutShort>>
  BY DEF FB!OptionTold, FB!memory
<1>2. n \in FB!Stored /\ IsTold(i0)
  BY <1>0, <1>1 DEF ToldInv, IsTold
<1>e. /\ press' \in [FB!Slots -> PressSet] /\ press'[p] = FB!NoPress /\ FB!NoPress.at = "idle"
      /\ \A q \in FB!Slots \ {p} : press'[q] = press[q]
  <2>1. FB!NoPress \in PressSet
    BY DEF PressSet
  <2> QED  BY <2>1, <1>0, <1>1, PressSetAt DEF FB!NoPress
<1>3. FB!Opened' = FB!Opened /\ FB!Stored' = FB!Stored
  BY <1>1 DEF FB!Opened, FB!Stored
<1>m. menus' \subseteq menus /\ \A m \in menus : m \in menus' \/ m.id = i0
  BY <1>1 DEF FB!DeleteMenu
<1>t. /\ learner' \in [FB!Answers -> LearnSet] /\ mishaps' \in 0..MaxMishaps
      /\ \A i \in FB!Answers :
           /\ learner'[i].at # "none" => i \in FB!Stored
           /\ learner'[i].at \in {"reflecting", "filed"} => learner'[i].n \in FB!Stored
      /\ FeedbackRows' /\ FB!AnswerStands' /\ FB!LearntIsSaid' /\ BatchInv' /\ FoldInv' /\ FB!FoldedOnce'
  <2> HIDE DEF n
  <2> QED  BY <1>1, <1>2, TellKeeps
<1>4. FeedbackTypes'
  BY <1>0, <1>1, <1>e, <1>m, <1>t DEF FeedbackTypes
<1>5. ToldInv'
  BY <1>0, <1>1, <1>e, <1>3, <1>t DEF ToldInv
<1>6. RoomInv'
  <2>1. Writers' \subseteq Writers
    BY <1>1, <1>e DEF Writers
  <2> QED  BY <2>1, <1>0, <1>1, RoomSame
<1>7. IssuedInv'
  <2>1. \A i \in FB!Menus : \A g \in Replies : IsIssued(i, g)' => IsIssued(i, g)
    BY <1>1, <1>e, <1>3, <1>m DEF IsIssued
  <2>2. \A i \in FB!Menus : IsTold(i)' => IsTold(i)
    BY <1>1, <1>e DEF IsTold
  <2> QED  BY <2>1, <2>2, <1>0, <1>1, <1>3, IssuedStays
<1>8. HandlerInv'
  <2>1. \A g : \A h \in FB!Handlers(g)' : h \in FB!Handlers(g) /\ (h # 0 => press'[h] = press[h])
    BY <1>1, <1>e, HandlersAre, HandlersThen
  <2> QED  BY <2>1, <1>0, <1>1, HandlersStay
<1>9. MenuInv'
  <2> SUFFICES ASSUME NEW g \in FB!Opened \ (crossedRows \cup astray), row[g].status # "completed"
               PROVE  HasMenu(g)'
    BY <1>1, <1>3 DEF MenuInv
  <2>1. HasMenu(g)
    BY <1>0 DEF MenuInv
  <2>2. CurrentMenu(g)' = CurrentMenu(g) /\ MenuComing(g)' = MenuComing(g)
    BY <1>1 DEF CurrentMenu, MenuComing
  <2>3. ~IsTold(CurrentMenu(g)) => ~IsTold(CurrentMenu(g))'
    BY <2>2, <1>1, <1>e DEF IsTold
  <2>4. CurrentMenu(g) # i0
    BY <2>1, <1>2 DEF HasMenu
  <2> QED  BY <2>1, <2>2, <2>3, <2>4, <1>1, <1>m, MenuStays
<1> QED  BY <1>t, <1>4, <1>5, <1>6, <1>7, <1>8, <1>9 DEF FeedbackInv

\* The row awaits a text.
LEMMA OtherStoredKeeps ==
  ASSUME FeedbackInv, NEW p \in FB!Slots, FB!OtherStored(p)
  PROVE  FeedbackInv'
<1> DEFINE f == press[p].of
           r == [row[f] EXCEPT !.status = "awaiting_text"]
           v == [at |-> "edit", id |-> press[p].id]
<1>0. /\ FeedbackTypes /\ ToldInv /\ RoomInv /\ FeedbackRows /\ IssuedInv /\ HandlerInv /\ MenuInv
      /\ BatchInv /\ FoldInv /\ FB!AnswerStands /\ FB!LearntIsSaid /\ FB!FoldedOnce
  BY DEF FeedbackInv
<1>1. /\ press[p].at = "write" /\ row' = [row EXCEPT ![f].status = "awaiting_text"]
      /\ crossedRows' = IF FB!Handlers(f) \subseteq {p} THEN crossedRows ELSE crossedRows \cup {f}
      /\ stale' = IF FB!Copies(f) THEN stale \cup {f} ELSE stale
      /\ press' = [press EXCEPT ![p] = v]
      /\ UNCHANGED <<menus, chain, learner, daily, reactions, pressed, runs, mishaps>>
      /\ UNCHANGED <<answers, answered, folded, astray, cutShort>>
  BY DEF FB!OtherStored, FB!Writes, FB!counters
<1>2. press[p] \in [at : {"write"}, of : Replies, id : FB!Menus, button : Buttons, sign : Signs]
  BY <1>0, <1>1, PressFacts
<1>a. f \in FB!Opened /\ f \in Replies /\ press[p].id \in FB!Menus /\ FB!Opened \subseteq Replies
  <2>1. f \in Replies /\ press[p].id \in FB!Menus
    BY <1>2
  <2>2. IsIssued(press[p].id, f)
    BY <1>1 DEF IsIssued
  <2> QED  BY <2>1, <2>2, <1>0, OpenRows DEF IssuedInv
<1>b. row[f] \in RowSet /\ r \in RowSet /\ row' = [row EXCEPT ![f] = r]
  BY <1>0, <1>1, <1>a, OpenRows DEF RowSet
<1>c. /\ r.status = "awaiting_text" /\ r.sign = row[f].sign /\ r.topic = row[f].topic
      /\ r.answer = row[f].answer /\ r.menu = row[f].menu /\ r.reflection = row[f].reflection
      /\ r.stamped = row[f].stamped
  BY <1>b DEF RowSet
<1> HIDE DEF r
<1>d. /\ row' \in [Replies -> RowSet \cup {FB!NoRow}] /\ row'[f] = r
      /\ \A g \in Replies \ {f} : row'[g] = row[g]
      /\ FB!Opened' = FB!Opened
  <2>1. /\ row' \in [Replies -> RowSet \cup {FB!NoRow}] /\ row'[f] = r
        /\ \A g \in Replies \ {f} : row'[g] = row[g]
        /\ FB!Opened' = FB!Opened \cup {f}
    <3> HIDE DEF f
    <3> QED  BY <1>0, <1>a, <1>b, RowWritten
  <2> QED  BY <2>1, <1>a
<1>v. v \in PressSet /\ v.at = "edit" /\ v.id = press[p].id
  BY <1>a DEF PressSet
<1>e. /\ press' \in [FB!Slots -> PressSet] /\ press'[p] = v
      /\ \A q \in FB!Slots \ {p} : press'[q] = press[q]
  <2> HIDE DEF v
  <2> QED  BY <1>0, <1>1, <1>v, PressSetAt
<1> HIDE DEF v
<1>k. p \in FB!Handlers(f)
  BY <1>1, HandlersAre
<1>3. FB!Stored' = FB!Stored
  BY <1>1 DEF FB!Stored
<1>h. f \notin crossedRows' => f \notin crossedRows /\ row[f].status # "completed"
  BY <1>0, <1>1, <1>a, <1>k DEF HandlerInv
<1>g. \A g \in FB!Opened :
        /\ row'[g].answer = row[g].answer /\ row'[g].topic = row[g].topic
        /\ row'[g].sign = row[g].sign /\ row'[g].menu = row[g].menu
        /\ row'[g].reflection = row[g].reflection /\ row'[g].stamped = row[g].stamped
        /\ g # f => row'[g] = row[g]
        /\ g \notin crossedRows' =>
             g \notin crossedRows /\ (row'[g].status = "completed" <=> row[g].status = "completed")
        /\ g \notin stale' => g \notin stale
  BY <1>1, <1>a, <1>c, <1>d, <1>h
<1>4. FeedbackTypes'
  <2>1. crossedRows' \subseteq Replies /\ stale' \subseteq Replies
    BY <1>0, <1>1, <1>a DEF FeedbackTypes
  <2> QED  BY <2>1, <1>0, <1>1, <1>d, <1>e DEF FeedbackTypes
<1>5. ToldInv'
  BY <1>0, <1>1, <1>3, <1>v, <1>e DEF ToldInv
<1>6. RoomInv'
  <2>1. Writers' \subseteq Writers
    BY <1>1, <1>v, <1>e, IdsAreNumbers DEF Writers
  <2> QED  BY <2>1, <1>0, <1>1, RoomSame
<1>7. IssuedInv'
  <2>1. \A i \in FB!Menus : \A g \in Replies : IsIssued(i, g)' => IsIssued(i, g)
    BY <1>1, <1>d, <1>g, <1>v, <1>e DEF IsIssued
  <2>2. \A i \in FB!Menus : IsTold(i)' => IsTold(i)
    BY <1>1, <1>v, <1>e DEF IsTold
  <2> QED  BY <2>1, <2>2, <1>0, <1>1, <1>d, IssuedStays
<1>8. HandlerInv'
  <2> SUFFICES ASSUME NEW g \in FB!Opened, g \notin crossedRows', NEW h \in FB!Handlers(g)'
               PROVE  row'[g].status # "completed" /\ (h # 0 => press'[h].sign = row'[g].sign)
    BY <1>d DEF HandlerInv
  <2>1. h \in FB!Handlers(g) /\ h # p /\ (h # 0 => press'[h] = press[h])
    BY <1>1, <1>v, <1>e, HandlersAre, HandlersThen
  <2>2. g # f
    BY <2>1, <1>1
  <2>3. row'[g] = row[g] /\ g \notin crossedRows
    BY <2>2, <1>g
  <2> QED  BY <2>1, <2>3, <1>0 DEF HandlerInv
<1>9. MenuInv'
  <2> SUFFICES ASSUME NEW g \in FB!Opened, g \notin crossedRows' \cup astray, row'[g].status # "completed"
               PROVE  HasMenu(g)'
    BY <1>1, <1>d DEF MenuInv
  <2>1. HasMenu(g)
    BY <1>0, <1>g DEF MenuInv
  <2>2. CurrentMenu(g)' = CurrentMenu(g) /\ MenuComing(g)' = MenuComing(g)
    BY <1>1, <1>g DEF CurrentMenu, MenuComing
  <2>4. ~IsTold(CurrentMenu(g)) => ~IsTold(CurrentMenu(g))'
    BY <2>2, <1>1, <1>v, <1>e DEF IsTold
  <2> QED  BY <2>1, <2>2, <2>4, <1>1, MenuStays
<1>10. FeedbackRows'
  <2>1. FB!Menus' = FB!Menus
    BY DEF FB!Menus
  <2>2. \A g \in FB!Opened : row'[g].status = "completed" => row[g].status = "completed"
    BY <1>a, <1>c, <1>d
  <2>3. answers' = answers
    BY <1>1
  <2>4. \A g \in FB!Opened :
          /\ row'[g].answer = row[g].answer /\ row'[g].topic = row[g].topic
          /\ row'[g].menu = row[g].menu /\ row'[g].reflection = row[g].reflection
    BY <1>g
  <2>5. FeedbackRows
    BY <1>0
  <2> QED  BY <2>1, <2>2, <2>3, <2>4, <2>5, <1>3, <1>d DEF FeedbackRows
<1>11. FB!AnswerStands' /\ FB!LearntIsSaid'
  <2>1. UNCHANGED <<answers, answered, folded>> /\ FB!Opened' = FB!Opened
    BY <1>1, <1>d
  <2>2. FB!AnswerStands /\ FB!LearntIsSaid
    BY <1>0
  <2> QED  BY <2>1, <2>2, <1>g, SaidStays
<1>12. BatchInv'
  <2>0. Batch' = Batch
    BY <1>1 DEF Batch
  <2>1. f \notin stale' => /\ \A c \in Batch : c.of # f
                           /\ \A i \in FB!Stored : learner[i].at = "reflecting" => answers[i].of # f
    BY <1>1 DEF FB!Copies, Batch
  <2>2. \A g \in FB!Opened : g \notin stale' \cup crossedRows' =>
          /\ g \in FB!Opened \ (stale \cup crossedRows)
          /\ g # f => row'[g] = row[g]
    BY <1>g
  <2>3. \A c \in Batch : /\ c.n \in FB!Stored /\ answers[c.n].topic = "quality"
                         /\ answers[c.n].of = c.of
    BY <1>0 DEF BatchInv
  <2>4. \A g \in FB!Opened : g \notin stale' \cup crossedRows' => \A c \in Batch :
          c.of = g => row'[g].status = "completed" /\ c.n = row'[g].answer
    BY <2>1, <2>2, <1>0 DEF BatchInv
  <2>5. \A g \in FB!Opened : g \notin stale' \cup crossedRows' => \A i \in FB!Stored :
          learner[i].at = "reflecting" /\ answers[i].of = g =>
            row'[g].status = "completed" /\ learner[i].n = row'[g].answer
    BY <2>1, <2>2, <1>0 DEF BatchInv
  <2>6. daily'.at = "idle" => Batch = {}
    BY <1>0, <1>1 DEF BatchInv
  <2>7. answers' = answers /\ learner' = learner
    BY <1>1
  <2> QED  BY <2>0, <2>3, <2>4, <2>5, <2>6, <2>7, <1>3, <1>d DEF BatchInv
<1>13. FoldInv'
  <2>1. /\ UNCHANGED <<answers, folded, cutShort>> /\ FB!Opened' = FB!Opened
        /\ daily'.at = daily.at /\ daily'.todo = daily.todo /\ \A k \in FB!Folds : daily'[k] = daily[k]
    BY <1>1, <1>d
  <2>2. FoldInv
    BY <1>0
  <2> QED  BY <2>1, <2>2, <1>g, FoldStays
<1>14. FB!FoldedOnce'
  BY <1>0, <1>1, <1>3 DEF FB!FoldedOnce
<1> QED  BY <1>4, <1>5, <1>6, <1>7, <1>8, <1>9, <1>10, <1>11, <1>12, <1>13, <1>14 DEF FeedbackInv

\* The menu asks for it, or does not.
LEMMA OtherAskedKeeps ==
  ASSUME FeedbackInv, NEW p \in FB!Slots, FB!OtherAsked(p) \/ FB!OtherNotAsked(p)
  PROVE  FeedbackInv'
<1> DEFINE edited(m) == IF m.id = press[p].id THEN [m EXCEPT !.keys = FALSE] ELSE m
<1>0. /\ FeedbackTypes /\ ToldInv /\ RoomInv /\ FeedbackRows /\ IssuedInv /\ HandlerInv /\ MenuInv
      /\ BatchInv /\ FoldInv /\ FB!AnswerStands /\ FB!LearntIsSaid /\ FB!FoldedOnce
  BY DEF FeedbackInv
<1>1. /\ press[p].at = "edit" /\ press' = [press EXCEPT ![p] = FB!NoPress]
      /\ menus' \in {menus, {edited(m) : m \in menus}}
      /\ mishaps' = mishaps \/ (mishaps < MaxMishaps /\ mishaps' = mishaps + 1)
      /\ UNCHANGED <<row, chain, learner, daily, reactions, pressed, runs>>
      /\ UNCHANGED <<answers, answered, folded, crossedRows, stale, astray, cutShort>>
  BY DEF FB!OtherAsked, FB!OtherNotAsked, FB!Mishap, FB!counters, FB!memory
<1>m. \A m \in menus : edited(m) \in MenuSet /\ edited(m).id = m.id /\ edited(m).of = m.of
  <2> SUFFICES ASSUME NEW m \in menus
               PROVE  edited(m) \in MenuSet /\ edited(m).id = m.id /\ edited(m).of = m.of
    OBVIOUS
  <2>1. m \in MenuSet
    BY <1>0 DEF FeedbackTypes
  <2>2. [m EXCEPT !.keys = FALSE] \in MenuSet /\ [m EXCEPT !.keys = FALSE].id = m.id /\ [m EXCEPT !.keys = FALSE].of = m.of
    BY <2>1 DEF MenuSet
  <2> QED  BY <2>1, <2>2
<1> HIDE DEF edited
<1>s. /\ menus' \subseteq MenuSet
      /\ \A x \in menus' : \E m \in menus : m.id = x.id /\ m.of = x.of
      /\ \A m \in menus : \E x \in menus' : m.id = x.id /\ m.of = x.of
  <2>1. CASE menus' = menus
    BY <2>1, <1>0 DEF FeedbackTypes
  <2>2. CASE menus' = {edited(m) : m \in menus}
    BY <2>2, <1>m
  <2> QED  BY <2>1, <2>2, <1>1
<1>e. /\ press' \in [FB!Slots -> PressSet] /\ press'[p] = FB!NoPress /\ FB!NoPress.at = "idle"
      /\ \A q \in FB!Slots \ {p} : press'[q] = press[q]
  <2>1. FB!NoPress \in PressSet
    BY DEF PressSet
  <2> QED  BY <2>1, <1>0, <1>1, PressSetAt DEF FB!NoPress
<1>3. FB!Opened' = FB!Opened /\ FB!Stored' = FB!Stored
  BY <1>1 DEF FB!Opened, FB!Stored
<1>4. FeedbackTypes'
  <2>1. mishaps' \in 0..MaxMishaps
    BY <1>0, <1>1, FeedbackAssumption DEF FeedbackTypes
  <2> QED  BY <2>1, <1>0, <1>1, <1>e, <1>s DEF FeedbackTypes
<1>5. ToldInv'
  BY <1>0, <1>1, <1>e, <1>3 DEF ToldInv
<1>6. RoomInv'
  <2>1. Writers' \subseteq Writers
    BY <1>1, <1>e DEF Writers
  <2> QED  BY <2>1, <1>0, <1>1, RoomSame
<1>7. IssuedInv'
  <2>1. \A i \in FB!Menus : \A g \in Replies : IsIssued(i, g)' => IsIssued(i, g)
    BY <1>1, <1>e, <1>3, <1>s DEF IsIssued
  <2>2. \A i \in FB!Menus : IsTold(i)' => IsTold(i)
    BY <1>1, <1>e DEF IsTold
  <2> QED  BY <2>1, <2>2, <1>0, <1>1, <1>3, IssuedStays
<1>8. HandlerInv'
  <2>1. \A g : \A h \in FB!Handlers(g)' : h \in FB!Handlers(g) /\ (h # 0 => press'[h] = press[h])
    BY <1>1, <1>e, HandlersAre, HandlersThen
  <2> QED  BY <2>1, <1>0, <1>1, HandlersStay
<1>9. MenuInv'
  <2> SUFFICES ASSUME NEW g \in FB!Opened \ (crossedRows \cup astray), row[g].status # "completed"
               PROVE  HasMenu(g)'
    BY <1>1, <1>3 DEF MenuInv
  <2>1. HasMenu(g)
    BY <1>0 DEF MenuInv
  <2>2. CurrentMenu(g)' = CurrentMenu(g) /\ MenuComing(g)' = MenuComing(g)
    BY <1>1 DEF CurrentMenu, MenuComing
  <2>3. ~IsTold(CurrentMenu(g)) => ~IsTold(CurrentMenu(g))'
    BY <2>2, <1>1, <1>e DEF IsTold
  <2> QED  BY <2>1, <2>2, <2>3, <1>1, <1>s, MenuStays
<1> QED  BY <1>0, <1>1, <1>4, <1>5, <1>6, <1>7, <1>8, <1>9, FeedbackRowsStay,
     LearningStays DEF FeedbackInv

\* The learning and the run.
\* They leave the chat, and what a row asks, alone.
LEMMA ChatStays ==
  ASSUME FeedbackTypes, RoomInv, IssuedInv, HandlerInv, MenuInv,
         UNCHANGED <<menus, chain, press, reactions, pressed, crossedRows, astray, answers>>,
         FB!Opened' = FB!Opened,
         \A f \in FB!Opened : /\ row'[f].status = row[f].status /\ row'[f].sign = row[f].sign
                              /\ row'[f].menu = row[f].menu
  PROVE  RoomInv' /\ IssuedInv' /\ HandlerInv' /\ MenuInv'
<1>1. RoomInv'
  <2>1. Writers' \subseteq Writers
    BY DEF Writers
  <2> QED  BY <2>1, RoomSame
<1>2. IssuedInv'
  <2>1. \A i \in FB!Menus : \A g \in Replies : IsIssued(i, g)' => IsIssued(i, g)
    BY DEF IsIssued
  <2>2. \A i \in FB!Menus : IsTold(i)' => IsTold(i)
    BY DEF IsTold
  <2> QED  BY <2>1, <2>2, IssuedStays
<1>3. HandlerInv'
  <2>1. \A g : FB!Handlers(g)' = FB!Handlers(g)
    BY DEF FB!Handlers
  <2> QED  BY <2>1 DEF HandlerInv
<1>4. MenuInv'
  <2> SUFFICES ASSUME NEW g \in FB!Opened \ (crossedRows \cup astray), row[g].status # "completed"
               PROVE  HasMenu(g)'
    BY DEF MenuInv
  <2>1. HasMenu(g)
    BY DEF MenuInv
  <2>2. CurrentMenu(g)' = CurrentMenu(g) /\ MenuComing(g)' = MenuComing(g)
    BY DEF CurrentMenu, MenuComing
  <2>3. ~IsTold(CurrentMenu(g)) => ~IsTold(CurrentMenu(g))'
    BY <2>2 DEF IsTold
  <2> QED  BY <2>1, <2>2, <2>3, MenuStays
<1> QED  BY <1>1, <1>2, <1>3, <1>4

\* The learning reads the row.
LEMMA LearnKeeps ==
  ASSUME FeedbackInv, NEW n \in FB!Answers, FB!Learn(n)
  PROVE  FeedbackInv'
<1> DEFINE r == row[answers[n].of]
           v == IF r.topic = "addressing" THEN [at |-> "filed", n |-> r.answer]
                ELSE IF r.status = "completed" THEN [at |-> "reflecting", n |-> r.answer]
                ELSE [at |-> "done"]
<1>0. /\ FeedbackTypes /\ ToldInv /\ RoomInv /\ FeedbackRows /\ IssuedInv /\ HandlerInv /\ MenuInv
      /\ BatchInv /\ FoldInv /\ FB!AnswerStands /\ FB!LearntIsSaid /\ FB!FoldedOnce
  BY DEF FeedbackInv
<1>1. /\ learner[n].at = "recorded" /\ learner' = [learner EXCEPT ![n] = v]
      /\ UNCHANGED <<row, menus, chain, press, daily, reactions, pressed, runs, mishaps>>
      /\ UNCHANGED <<answers, answered, folded, crossedRows, stale, astray, cutShort>>
  BY DEF FB!Learn, FB!counters, FB!memory
<1>2. n \in FB!Stored /\ FB!Stored \subseteq FB!Answers /\ answers[n].of \in FB!Opened
  BY <1>0, <1>1, StoredFacts DEF ToldInv, FeedbackRows
<1>3. FB!Opened' = FB!Opened /\ FB!Stored' = FB!Stored /\ Batch' = Batch
  BY <1>1 DEF FB!Opened, FB!Stored, Batch
<1>r. /\ r.topic = "addressing" \/ r.status = "completed" => r.answer \in FB!Stored
      /\ r.topic = "addressing" => answers[r.answer].topic = "addressing"
  <2> DEFINE f == answers[n].of
  <2>1. f \in FB!Opened
    BY <1>2
  <2> HIDE DEF f
  <2>2. /\ row[f].topic = "addressing" \/ row[f].status = "completed" => row[f].answer \in FB!Stored
        /\ row[f].topic = "addressing" => answers[row[f].answer].topic = "addressing"
    BY <2>1, <1>0 DEF FeedbackRows
  <2> QED  BY <2>2 DEF f
<1>v. /\ v \in LearnSet /\ v.at \in {"filed", "reflecting", "done"}
      /\ v.at # "done" => v.n = r.answer /\ v.n \in FB!Stored
      /\ v.at = "filed" => answers[v.n].topic = "addressing"
      /\ v.at = "reflecting" => r.status = "completed"
  <2>1. CASE r.topic = "addressing"
    BY <2>1, <1>2, <1>r DEF LearnSet, LearnAt
  <2>2. CASE r.topic # "addressing" /\ r.status = "completed"
    BY <2>2, <1>2, <1>r DEF LearnSet, LearnAt
  <2>3. CASE r.topic # "addressing" /\ r.status # "completed"
    BY <2>3 DEF LearnSet, LearnAt
  <2> QED  BY <2>1, <2>2, <2>3
<1> HIDE DEF v
<1>l. /\ learner' \in [FB!Answers -> LearnSet] /\ learner'[n] = v
      /\ \A i \in FB!Answers \ {n} : learner'[i] = learner[i]
  BY <1>0, <1>1, <1>v DEF FeedbackTypes
<1>4. FeedbackTypes'
  BY <1>0, <1>1, <1>l DEF FeedbackTypes
<1>5. ToldInv'
  BY <1>0, <1>1, <1>2, <1>3, <1>v, <1>l DEF ToldInv
<1>6. RoomInv' /\ IssuedInv' /\ HandlerInv' /\ MenuInv'
  BY <1>0, <1>1, <1>3, ChatStays
<1>7. BatchInv'
  <2>1. \A g \in FB!Opened' \ (stale' \cup crossedRows') : \A i \in FB!Stored' :
          learner'[i].at = "reflecting" /\ answers'[i].of = g =>
            row'[g].status = "completed" /\ learner'[i].n = row'[g].answer
    BY <1>0, <1>1, <1>2, <1>3, <1>v, <1>l DEF BatchInv
  <2> QED  BY <2>1, <1>0, <1>1, <1>3 DEF BatchInv
<1>8. FoldInv'
  BY <1>0, <1>1, <1>3 DEF FoldInv
<1>9. FB!FoldedOnce'
  <2>1. \A i \in FB!Stored' : learner'[i].at = "filed" => answers'[learner'[i].n].topic = "addressing"
    BY <1>0, <1>1, <1>2, <1>3, <1>v, <1>l DEF FB!FoldedOnce
  <2> QED  BY <2>1, <1>0, <1>1, <1>3 DEF FB!FoldedOnce
<1> QED  BY <1>0, <1>1, <1>4, <1>5, <1>6, <1>7, <1>8, <1>9, FeedbackRowsStay DEF FeedbackInv

\* A reflection, about the answer the row has unless it changed meanwhile, is on a row.
LEMMA ReflectionKeeps ==
  ASSUME FeedbackInv, NEW f \in FB!Opened, NEW n \in FB!Stored,
         row' = [row EXCEPT ![f].reflection = n],
         f \notin stale \cup crossedRows => n = row[f].answer,
         UNCHANGED <<menus, chain, press, reactions, pressed, crossedRows, astray, answers,
                     answered, folded, stale>>
  PROVE  /\ row' \in [Replies -> RowSet \cup {FB!NoRow}] /\ FB!Opened' = FB!Opened
         /\ \A g \in FB!Opened :
              /\ row'[g].status = row[g].status /\ row'[g].answer = row[g].answer
              /\ row'[g].stamped = row[g].stamped
         /\ RoomInv' /\ IssuedInv' /\ HandlerInv' /\ MenuInv'
         /\ FeedbackRows' /\ FB!AnswerStands' /\ FB!LearntIsSaid'
<1> DEFINE r == [row[f] EXCEPT !.reflection = n]
<1>0. /\ FeedbackTypes /\ ToldInv /\ RoomInv /\ FeedbackRows /\ IssuedInv /\ HandlerInv /\ MenuInv
      /\ BatchInv /\ FoldInv /\ FB!AnswerStands /\ FB!LearntIsSaid /\ FB!FoldedOnce
  BY DEF FeedbackInv
<1>1. f \in Replies /\ row[f] \in RowSet /\ n \in Nat /\ FB!Opened \subseteq Replies
  BY <1>0, OpenRows, StoredFacts, IdsAreNumbers
<1>b. r \in RowSet /\ row' = [row EXCEPT ![f] = r]
  BY <1>1 DEF RowSet
<1>c. /\ r.status = row[f].status /\ r.sign = row[f].sign /\ r.topic = row[f].topic
      /\ r.answer = row[f].answer /\ r.menu = row[f].menu /\ r.reflection = n
      /\ r.stamped = row[f].stamped
  BY <1>1 DEF RowSet
<1> HIDE DEF r
<1>d. /\ row' \in [Replies -> RowSet \cup {FB!NoRow}] /\ row'[f] = r
      /\ \A g \in Replies \ {f} : row'[g] = row[g]
      /\ FB!Opened' = FB!Opened
  <2>1. /\ row' \in [Replies -> RowSet \cup {FB!NoRow}] /\ row'[f] = r
        /\ \A g \in Replies \ {f} : row'[g] = row[g]
        /\ FB!Opened' = FB!Opened \cup {f}
    BY <1>0, <1>1, <1>b, RowWritten
  <2> QED  BY <2>1
<1>e. \A g \in FB!Opened :
        /\ row'[g].status = row[g].status /\ row'[g].sign = row[g].sign
        /\ row'[g].topic = row[g].topic /\ row'[g].answer = row[g].answer
        /\ row'[g].menu = row[g].menu /\ row'[g].stamped = row[g].stamped
        /\ row'[g].reflection = row[g].reflection \/ (g = f /\ row'[g].reflection = n)
  BY <1>1, <1>c, <1>d
<1>3. FB!Stored' = FB!Stored /\ FB!Menus' = FB!Menus
  BY DEF FB!Stored, FB!Menus
<1>4. RoomInv' /\ IssuedInv' /\ HandlerInv' /\ MenuInv'
  BY <1>0, <1>d, <1>e, ChatStays
<1>5. FeedbackRows'
  BY <1>0, <1>3, <1>d, <1>e DEF FeedbackRows
<1>6. FB!AnswerStands'
  BY <1>0, <1>3, <1>d, <1>e DEF FB!AnswerStands
<1>7. FB!LearntIsSaid'
  BY <1>0, <1>3, <1>d, <1>e DEF FB!LearntIsSaid
<1> QED  BY <1>d, <1>e, <1>4, <1>5, <1>6, <1>7

\* The reflection of an answer.
LEMMA ReflectedKeeps ==
  ASSUME FeedbackInv, NEW n \in FB!Answers, FB!Reflected(n)
  PROVE  FeedbackInv'
<1> DEFINE f == answers[n].of
           i0 == learner[n].n
           v == [at |-> "done"]
<1>0. /\ FeedbackTypes /\ ToldInv /\ RoomInv /\ FeedbackRows /\ IssuedInv /\ HandlerInv /\ MenuInv
      /\ BatchInv /\ FoldInv /\ FB!AnswerStands /\ FB!LearntIsSaid /\ FB!FoldedOnce
  BY DEF FeedbackInv
<1>1. /\ learner[n].at = "reflecting" /\ learner' = [learner EXCEPT ![n] = v]
      /\ row' = row \/ row' = [row EXCEPT ![f].reflection = i0]
      /\ UNCHANGED <<menus, chain, press, daily, reactions, pressed, runs, mishaps>>
      /\ UNCHANGED <<answers, answered, folded, crossedRows, stale, astray, cutShort>>
  BY DEF FB!Reflected, FB!counters, FB!memory
<1>2. n \in FB!Stored /\ i0 \in FB!Stored /\ FB!Stored \subseteq FB!Answers /\ f \in FB!Opened
  BY <1>0, <1>1, StoredFacts DEF ToldInv, FeedbackRows
<1>r. /\ row' \in [Replies -> RowSet \cup {FB!NoRow}] /\ FB!Opened' = FB!Opened
      /\ \A g \in FB!Opened :
           /\ row'[g].status = row[g].status /\ row'[g].answer = row[g].answer
           /\ row'[g].stamped = row[g].stamped
      /\ RoomInv' /\ IssuedInv' /\ HandlerInv' /\ MenuInv'
      /\ FeedbackRows' /\ FB!AnswerStands' /\ FB!LearntIsSaid'
  <2>1. CASE row' = row
    <3>1. FB!Opened' = FB!Opened /\ row' \in [Replies -> RowSet \cup {FB!NoRow}]
      BY <2>1, <1>0 DEF FB!Opened, FeedbackTypes
    <3>2. RoomInv' /\ IssuedInv' /\ HandlerInv' /\ MenuInv'
      BY <2>1, <3>1, <1>0, <1>1, ChatStays
    <3> QED  BY <2>1, <3>1, <3>2, <1>0, <1>1, FeedbackRowsStay
  <2>2. CASE row' = [row EXCEPT ![f].reflection = i0]
    <3>1. f \notin stale \cup crossedRows => i0 = row[f].answer
      BY <1>0, <1>1, <1>2 DEF BatchInv
    <3> HIDE DEF f, i0
    <3> QED  BY <2>2, <3>1, <1>0, <1>1, <1>2, ReflectionKeeps
  <2> QED  BY <2>1, <2>2, <1>1
<1>3. FB!Stored' = FB!Stored /\ Batch' = Batch
  BY <1>1 DEF FB!Stored, Batch
<1>l. /\ learner' \in [FB!Answers -> LearnSet] /\ learner'[n].at = "done"
      /\ \A i \in FB!Answers \ {n} : learner'[i] = learner[i]
  <2>1. v \in LearnSet /\ v.at = "done"
    BY DEF LearnSet, LearnAt
  <2> HIDE DEF v
  <2> QED  BY <2>1, <1>0, <1>1 DEF FeedbackTypes
<1>4. FeedbackTypes'
  BY <1>0, <1>1, <1>l, <1>r DEF FeedbackTypes
<1>5. ToldInv'
  BY <1>0, <1>1, <1>2, <1>3, <1>l DEF ToldInv
<1>7. BatchInv'
  <2>1. \A g \in FB!Opened' \ (stale' \cup crossedRows') : \A i \in FB!Stored' :
          learner'[i].at = "reflecting" /\ answers'[i].of = g =>
            row'[g].status = "completed" /\ learner'[i].n = row'[g].answer
    BY <1>0, <1>1, <1>2, <1>3, <1>l, <1>r DEF BatchInv
  <2> QED  BY <2>1, <1>0, <1>1, <1>3, <1>r DEF BatchInv
<1>8. FoldInv'
  BY <1>0, <1>1, <1>3, <1>r DEF FoldInv
<1>9. FB!FoldedOnce'
  BY <1>0, <1>1, <1>2, <1>3, <1>l DEF FB!FoldedOnce
<1> QED  BY <1>r, <1>4, <1>5, <1>7, <1>8, <1>9 DEF FeedbackInv

\* What the run works on.
LEMMA RunFacts ==
  ASSUME FeedbackTypes
  PROVE  /\ daily.at \in {"idle", "prefs", "corrections"}
         /\ daily.bare \subseteq AnswerCopy /\ daily.prefs \subseteq AnswerCopy /\ daily.corrections \subseteq AnswerCopy
         /\ daily.todo \subseteq AnswerCopy /\ Batch \subseteq AnswerCopy
         /\ \A k \in FB!Folds : daily[k] \subseteq Batch
         /\ \A c \in AnswerCopy : c.of \in Replies /\ c.n \in FB!Answers
BY DEF FeedbackTypes, RunSet, Batch, FB!Folds, AnswerCopy

\* What the run finds.
LEMMA BacklogFacts ==
  ASSUME FeedbackTypes, RoomInv, FeedbackRows, NEW k \in FB!Folds
  PROVE  /\ FB!Backlog(k) \subseteq AnswerCopy
         /\ \A c \in FB!Backlog(k) :
              /\ c.of \in FB!Opened /\ c.n = row[c.of].answer /\ row[c.of].status = "completed"
              /\ c.n \in FB!Stored /\ answers[c.n].topic = "quality" /\ answers[c.n].of = c.of
              /\ k \notin row[c.of].stamped
<1> SUFFICES ASSUME NEW f \in FB!Opened, row[f].status = "completed", row[f].topic = "quality",
                    k \notin row[f].stamped
             PROVE  /\ [of |-> f, n |-> row[f].answer] \in AnswerCopy
                    /\ row[f].answer \in FB!Stored /\ answers[row[f].answer].topic = "quality"
                    /\ answers[row[f].answer].of = f
  BY DEF FB!Backlog
<1>1. row[f].answer \in FB!Stored /\ answers[row[f].answer].topic = "quality" /\ answers[row[f].answer].of = f
  BY DEF FeedbackRows
<1>2. FB!Stored \subseteq FB!Answers
  BY StoredFacts
<1> QED  BY <1>1, <1>2, OpenRows DEF AnswerCopy

\* A run starts.
LEMMA RunStartsKeeps ==
  ASSUME FeedbackInv, FB!RunStarts
  PROVE  FeedbackInv'
<1> DEFINE P == FB!Backlog("prefs")
           C == FB!Backlog("corrections")
           B == {c \in P \cup C : row[c.of].reflection = 0}
<1>0. /\ FeedbackTypes /\ ToldInv /\ RoomInv /\ FeedbackRows /\ IssuedInv /\ HandlerInv /\ MenuInv
      /\ BatchInv /\ FoldInv /\ FB!AnswerStands /\ FB!LearntIsSaid /\ FB!FoldedOnce
  BY DEF FeedbackInv
<1>1. /\ daily.at = "idle" /\ runs < MaxRuns /\ runs' = runs + 1
      /\ daily' = [at |-> "prefs", prefs |-> P, corrections |-> C, bare |-> B, todo |-> {}]
      /\ UNCHANGED <<row, menus, chain, press, learner, reactions, pressed, mishaps>>
      /\ UNCHANGED <<answers, answered, folded, crossedRows, stale, astray, cutShort>>
  BY DEF FB!RunStarts, FB!memory
<1>2. /\ P \cup C \subseteq AnswerCopy /\ "prefs" \in FB!Folds /\ "corrections" \in FB!Folds
      /\ \A c \in P \cup C :
           /\ c.of \in FB!Opened /\ c.n = row[c.of].answer /\ row[c.of].status = "completed"
           /\ c.n \in FB!Stored /\ answers[c.n].topic = "quality" /\ answers[c.n].of = c.of
      /\ \A c \in P : "prefs" \notin row[c.of].stamped
      /\ \A c \in C : "corrections" \notin row[c.of].stamped
  <2>1. "prefs" \in FB!Folds /\ "corrections" \in FB!Folds
    BY DEF FB!Folds
  <2> QED  BY <2>1, <1>0, BacklogFacts
<1>b. B \subseteq P \cup C
  OBVIOUS
<1> HIDE DEF P, C, B
<1>r. /\ daily' \in RunSet /\ daily'.at = "prefs" /\ daily'.prefs = P /\ daily'.corrections = C
      /\ daily'.bare = B /\ daily'.todo = {} /\ Batch' = P \cup C
      /\ daily'["prefs"] = P /\ daily'["corrections"] = C
  BY <1>1, <1>2, <1>b DEF RunSet, Batch
<1>3. FB!Opened' = FB!Opened /\ FB!Stored' = FB!Stored
  BY <1>1 DEF FB!Opened, FB!Stored
<1>4. FeedbackTypes'
  <2>1. runs' \in 0..MaxRuns
    BY <1>0, <1>1, FeedbackAssumption DEF FeedbackTypes
  <2> QED  BY <2>1, <1>0, <1>1, <1>r DEF FeedbackTypes
<1>5. ToldInv'
  BY <1>0, <1>1, <1>3 DEF ToldInv
<1>6. RoomInv' /\ IssuedInv' /\ HandlerInv' /\ MenuInv'
  BY <1>0, <1>1, <1>3, ChatStays
<1>7. BatchInv'
  BY <1>0, <1>1, <1>2, <1>3, <1>r DEF BatchInv
<1>8. FoldInv'
  <2>1. daily.todo = {}
    BY <1>0, <1>1 DEF BatchInv, Batch
  <2>2. \A f \in FB!Opened : \A k \in FB!Folds \ row[f].stamped :
          row[f].answer # 0 /\ row[f].answer \notin cutShort => folded[k][row[f].answer] = 0
    BY <2>1, <1>0 DEF FoldInv
  <2>3. \A c \in P : c.n \notin cutShort => folded["prefs"][c.n] = 0
    BY <2>2, <1>0, <1>2 DEF FeedbackRows
  <2>4. \A c \in C : c.n \notin cutShort => folded["corrections"][c.n] = 0
    BY <2>2, <1>0, <1>2 DEF FeedbackRows
  <2>5. \A k \in FB!Folds : \A c \in daily'[k] : c.n \notin cutShort => folded[k][c.n] = 0
    BY <2>3, <2>4, <1>r DEF FB!Folds
  <2> QED  BY <2>2, <2>5, <1>0, <1>1, <1>3, <1>r DEF FoldInv
<1>9. FB!FoldedOnce'
  BY <1>0, <1>1, <1>3 DEF FB!FoldedOnce
<1> QED  BY <1>0, <1>1, <1>4, <1>5, <1>6, <1>7, <1>8, <1>9, FeedbackRowsStay DEF FeedbackInv

\* A missing reflection.
LEMMA BackfillKeeps ==
  ASSUME FeedbackInv, NEW c \in daily.bare, FB!Backfill(c)
  PROVE  FeedbackInv'
<1> DEFINE f == c.of
           i0 == c.n
<1>0. /\ FeedbackTypes /\ ToldInv /\ RoomInv /\ FeedbackRows /\ IssuedInv /\ HandlerInv /\ MenuInv
      /\ BatchInv /\ FoldInv /\ FB!AnswerStands /\ FB!LearntIsSaid /\ FB!FoldedOnce
  BY DEF FeedbackInv
<1>1. /\ daily' = [daily EXCEPT !.bare = @ \ {c}]
      /\ row' = row \/ row' = [row EXCEPT ![f].reflection = i0]
      /\ UNCHANGED <<menus, chain, press, learner, reactions, pressed, runs, mishaps>>
      /\ UNCHANGED <<answers, answered, folded, crossedRows, stale, astray, cutShort>>
  BY DEF FB!Backfill, FB!counters, FB!memory
<1>2. c \in Batch /\ i0 \in FB!Stored /\ f \in FB!Opened
  BY <1>0 DEF Batch, BatchInv, FeedbackRows
<1>r. /\ row' \in [Replies -> RowSet \cup {FB!NoRow}] /\ FB!Opened' = FB!Opened
      /\ \A g \in FB!Opened :
           /\ row'[g].status = row[g].status /\ row'[g].answer = row[g].answer
           /\ row'[g].stamped = row[g].stamped
      /\ RoomInv' /\ IssuedInv' /\ HandlerInv' /\ MenuInv'
      /\ FeedbackRows' /\ FB!AnswerStands' /\ FB!LearntIsSaid'
  <2>1. CASE row' = row
    <3>1. FB!Opened' = FB!Opened /\ row' \in [Replies -> RowSet \cup {FB!NoRow}]
      BY <2>1, <1>0 DEF FB!Opened, FeedbackTypes
    <3>2. RoomInv' /\ IssuedInv' /\ HandlerInv' /\ MenuInv'
      BY <2>1, <3>1, <1>0, <1>1, ChatStays
    <3> QED  BY <2>1, <3>1, <3>2, <1>0, <1>1, FeedbackRowsStay
  <2>2. CASE row' = [row EXCEPT ![f].reflection = i0]
    <3>1. f \notin stale \cup crossedRows => i0 = row[f].answer
      BY <1>0, <1>1, <1>2 DEF BatchInv
    <3> HIDE DEF f, i0
    <3> QED  BY <2>2, <3>1, <1>0, <1>1, <1>2, ReflectionKeeps
  <2> QED  BY <2>1, <2>2, <1>1
<1>3. FB!Stored' = FB!Stored
  BY <1>1 DEF FB!Stored
<1>b. /\ daily' \in RunSet /\ daily'.at = daily.at /\ daily'.todo = daily.todo /\ Batch' \subseteq Batch
      /\ daily'.prefs = daily.prefs /\ daily'.corrections = daily.corrections
      /\ \A k \in FB!Folds : daily'[k] = daily[k]
  BY <1>0, <1>1 DEF FeedbackTypes, RunSet, Batch, FB!Folds
<1>4. FeedbackTypes'
  BY <1>0, <1>1, <1>b, <1>r DEF FeedbackTypes
<1>5. ToldInv'
  BY <1>0, <1>1, <1>3 DEF ToldInv
<1>7. BatchInv'
  <2>1. daily'.at # "idle"
    BY <1>0, <1>2, <1>b DEF BatchInv
  <2> QED  BY <2>1, <1>0, <1>1, <1>b, <1>r, BatchStays
<1>8. FoldInv'
  <2>1. UNCHANGED <<answers, folded, cutShort>>
    BY <1>1
  <2> QED  BY <2>1, <1>0, <1>b, <1>r, FoldStays
<1>9. FB!FoldedOnce'
  BY <1>0, <1>1, <1>3 DEF FB!FoldedOnce
<1> QED  BY <1>r, <1>4, <1>5, <1>7, <1>8, <1>9 DEF FeedbackInv

\* A fold: the answers that came back are in the new version.
LEMMA FoldKeeps ==
  ASSUME FeedbackInv, NEW k \in FB!Folds, FB!Fold(k)
  PROVE  FeedbackInv'
<1>0. /\ FeedbackTypes /\ ToldInv /\ RoomInv /\ FeedbackRows /\ IssuedInv /\ HandlerInv /\ MenuInv
      /\ BatchInv /\ FoldInv /\ FB!AnswerStands /\ FB!LearntIsSaid /\ FB!FoldedOnce
  BY DEF FeedbackInv
<1>a. PICK done \in SUBSET daily[k] :
        /\ mishaps' = mishaps \/ (mishaps < MaxMishaps /\ mishaps' = mishaps + 1)
        /\ daily' = [daily EXCEPT ![k] = {}, !.todo = done]
        /\ folded' = [folded EXCEPT ![k] =
             [n \in FB!Answers |-> IF \E c \in done : c.n = n THEN @[n] + 1 ELSE @[n]]]
  BY DEF FB!Fold, FB!Mishap
<1>1. /\ daily.at = k /\ daily.todo = {}
      /\ UNCHANGED <<row, menus, chain, press, learner, reactions, pressed, runs>>
      /\ UNCHANGED <<answers, answered, crossedRows, stale, astray, cutShort>>
  BY DEF FB!Fold
<1>3. FB!Opened' = FB!Opened /\ FB!Stored' = FB!Stored /\ FB!Stored \subseteq FB!Answers
  BY <1>0, <1>1, StoredFacts DEF FB!Opened, FB!Stored
<1>d. done \subseteq Batch /\ done \subseteq AnswerCopy
  BY <1>0, RunFacts
<1>r. /\ daily' \in RunSet /\ daily'.at = daily.at /\ daily'.bare = daily.bare /\ daily'.todo = done
      /\ daily'[k] = {} /\ (\A j \in FB!Folds \ {k} : daily'[j] = daily[j])
      /\ Batch' \subseteq Batch
  <2>1. CASE k = "prefs"
    <3>1. daily' = [daily EXCEPT !.prefs = {}, !.todo = done]
      BY <2>1, <1>a
    <3>2. /\ daily' \in RunSet /\ daily'.at = daily.at /\ daily'.bare = daily.bare /\ daily'.todo = done
          /\ daily'.prefs = {} /\ daily'.corrections = daily.corrections
      BY <3>1, <1>0, <1>d DEF FeedbackTypes, RunSet
    <3>3. Batch' \subseteq Batch
      BY <3>2, <1>d DEF Batch
    <3> QED  BY <2>1, <3>2, <3>3 DEF FB!Folds
  <2>2. CASE k = "corrections"
    <3>1. daily' = [daily EXCEPT !.corrections = {}, !.todo = done]
      BY <2>2, <1>a
    <3>2. /\ daily' \in RunSet /\ daily'.at = daily.at /\ daily'.bare = daily.bare /\ daily'.todo = done
          /\ daily'.corrections = {} /\ daily'.prefs = daily.prefs
      BY <3>1, <1>0, <1>d DEF FeedbackTypes, RunSet
    <3>3. Batch' \subseteq Batch
      BY <3>2, <1>d DEF Batch
    <3> QED  BY <2>2, <3>2, <3>3 DEF FB!Folds
  <2> QED  BY <2>1, <2>2 DEF FB!Folds
<1>f. /\ folded' \in [FB!Folds -> [FB!Answers -> Nat]]
      /\ \A j \in FB!Folds \ {k} : folded'[j] = folded[j]
      /\ \A n \in FB!Answers :
           folded'[k][n] = IF \E c \in done : c.n = n THEN folded[k][n] + 1 ELSE folded[k][n]
  <2> DEFINE new == [n \in FB!Answers |-> IF \E c \in done : c.n = n THEN folded[k][n] + 1 ELSE folded[k][n]]
  <2>1. folded \in [FB!Folds -> [FB!Answers -> Nat]] /\ folded' = [folded EXCEPT ![k] = new]
    BY <1>0, <1>a DEF FeedbackTypes
  <2>2. new \in [FB!Answers -> Nat]
    BY <2>1
  <2>3. \A n \in FB!Answers : new[n] = IF \E c \in done : c.n = n THEN folded[k][n] + 1 ELSE folded[k][n]
    OBVIOUS
  <2> HIDE DEF new
  <2>4. /\ folded' \in [FB!Folds -> [FB!Answers -> Nat]] /\ folded'[k] = new
        /\ \A j \in FB!Folds \ {k} : folded'[j] = folded[j]
    BY <2>1, <2>2
  <2> QED  BY <2>3, <2>4
<1>n. /\ \A j \in FB!Folds, n \in FB!Answers : folded[j][n] \in Nat /\ folded'[j][n] \in Nat
      /\ \A j \in FB!Folds, n \in FB!Answers : folded[j][n] > 0 => folded'[j][n] > 0
  <2>1. \A j \in FB!Folds, n \in FB!Answers : folded[j][n] \in Nat /\ folded'[j][n] \in Nat
    BY <1>0, <1>f DEF FeedbackTypes
  <2> QED  BY <2>1, <1>f
<1> HIDE DEF FB!Folds
<1>4. FeedbackTypes'
  <2>1. mishaps' \in 0..MaxMishaps
    <3>1. mishaps \in 0..MaxMishaps
      BY <1>0 DEF FeedbackTypes
    <3>2. mishaps' = mishaps \/ (mishaps < MaxMishaps /\ mishaps' = mishaps + 1)
      BY <1>a
    <3> QED  BY <3>1, <3>2, FeedbackAssumption
  <2>2. FB!Folds' = FB!Folds
    BY DEF FB!Folds
  <2> QED  BY <2>1, <2>2, <1>0, <1>1, <1>f, <1>r DEF FeedbackTypes
<1>5. ToldInv'
  BY <1>0, <1>1, <1>3 DEF ToldInv
<1>6. RoomInv' /\ IssuedInv' /\ HandlerInv' /\ MenuInv'
  BY <1>0, <1>1, <1>3, ChatStays
<1>7. FeedbackRows' /\ FB!AnswerStands'
  BY <1>0, <1>1, <1>3 DEF FeedbackRows, FB!AnswerStands
<1>8. FB!LearntIsSaid'
  <2>1. \A f \in FB!Opened : row[f].stamped \subseteq FB!Folds /\ (row[f].answer # 0 => row[f].answer \in FB!Answers)
    BY <1>0, <1>3, OpenRows DEF RowSet, FeedbackRows
  <2> QED  BY <2>1, <1>0, <1>1, <1>3, <1>n DEF FB!LearntIsSaid
<1>9. BatchInv'
  <2>1. daily'.at # "idle"
    BY <1>1, <1>r DEF FB!Folds
  <2> QED  BY <2>1, <1>0, <1>1, <1>3, <1>r, BatchStays
<1>10. FoldInv'
  <2>1. \A n \in FB!Answers \ FB!Stored : \A j \in FB!Folds : folded'[j][n] = 0
    <3>1. \A c \in done : c.n \in FB!Stored
      BY <1>0, <1>d DEF BatchInv
    <3> QED  BY <3>1, <1>0, <1>f DEF FoldInv
  <2>2. \A j \in FB!Folds : \A c \in daily'[j] : c.n \notin cutShort => folded'[j][c.n] = 0
    BY <1>0, <1>f, <1>r DEF FoldInv
  <2>3. \A c \in done : folded'[k][c.n] > 0
    <3>1. \A c \in done : c.n \in FB!Answers
      BY <1>0, <1>d, RunFacts
    <3> QED  BY <3>1, <1>f, <1>n
  <2>4. \A g \in FB!Opened : \A j \in FB!Folds \ row[g].stamped :
          row[g].answer # 0 /\ row[g].answer \notin cutShort =>
            folded'[j][row[g].answer] = 0 \/ (k = j /\ \E c \in done : c.n = row[g].answer)
    <3> SUFFICES ASSUME NEW g \in FB!Opened, NEW j \in FB!Folds \ row[g].stamped,
                        row[g].answer # 0, row[g].answer \notin cutShort
                 PROVE  folded'[j][row[g].answer] = 0 \/ (k = j /\ \E c \in done : c.n = row[g].answer)
      OBVIOUS
    <3>1. folded[j][row[g].answer] = 0
      BY <1>0, <1>1 DEF FoldInv
    <3>2. row[g].answer \in FB!Answers
      BY <1>0, <1>3 DEF FeedbackRows
    <3> QED  BY <3>1, <3>2, <1>f
  <2>5. FB!Folds' = FB!Folds /\ FB!Answers' = FB!Answers
    BY DEF FB!Folds, FB!Answers
  <2> QED  BY <2>1, <2>2, <2>3, <2>4, <2>5, <1>1, <1>3, <1>r DEF FoldInv
<1>11. FB!FoldedOnce'
  <2>1. \A c \in done : c.n \in FB!Stored /\ answers[c.n].topic = "quality"
                        /\ (c.n \notin cutShort => folded[k][c.n] = 0)
    BY <1>0, <1>d DEF BatchInv, FoldInv
  <2>2. \A n \in FB!Stored : /\ \A j \in FB!Folds : n \notin cutShort => folded'[j][n] <= 1
                             /\ answers[n].topic = "addressing" => \A j \in FB!Folds : folded'[j][n] = 0
    <3> SUFFICES ASSUME NEW n \in FB!Stored, NEW j \in FB!Folds
                 PROVE  /\ n \notin cutShort => folded'[j][n] <= 1
                        /\ answers[n].topic = "addressing" => folded'[j][n] = 0
      OBVIOUS
    <3>1. CASE j = k /\ \E c \in done : c.n = n
      <4>1. answers[n].topic # "addressing" /\ (n \notin cutShort => folded[k][n] = 0)
        BY <3>1, <2>1
      <4>2. folded'[k][n] = folded[k][n] + 1
        BY <3>1, <1>3, <1>f
      <4> QED  BY <3>1, <4>1, <4>2
    <3>2. CASE ~(j = k /\ \E c \in done : c.n = n)
      <4>1. folded'[j][n] = folded[j][n]
        BY <3>2, <1>3, <1>f
      <4> QED  BY <4>1, <1>0 DEF FB!FoldedOnce
    <3> QED  BY <3>1, <3>2
  <2>3. FB!Folds' = FB!Folds
    BY DEF FB!Folds
  <2>4. FB!FoldedOnce /\ UNCHANGED <<answers, learner, cutShort>>
    BY <1>0, <1>1
  <2>5. \A n \in FB!Stored : learner[n].at = "filed" => answers[learner[n].n].topic = "addressing"
    BY <2>4 DEF FB!FoldedOnce
  <2>6. learner' = learner /\ answers' = answers /\ cutShort' = cutShort /\ FB!Stored' = FB!Stored
    BY <2>4, <1>3
  <2> QED  BY <2>2, <2>3, <2>5, <2>6 DEF FB!FoldedOnce
<1> QED  BY <1>4, <1>5, <1>6, <1>7, <1>8, <1>9, <1>10, <1>11 DEF FeedbackInv

\* A row is stamped.
LEMMA StampKeeps ==
  ASSUME FeedbackInv, NEW c \in daily.todo, FB!Stamp(c)
  PROVE  FeedbackInv'
<1> DEFINE f == c.of
           k == daily.at
           r == [row[f] EXCEPT !.stamped = @ \cup {k}]
<1>0. /\ FeedbackTypes /\ ToldInv /\ RoomInv /\ FeedbackRows /\ IssuedInv /\ HandlerInv /\ MenuInv
      /\ BatchInv /\ FoldInv /\ FB!AnswerStands /\ FB!LearntIsSaid /\ FB!FoldedOnce
  BY DEF FeedbackInv
<1>1. /\ daily' = [daily EXCEPT !.todo = @ \ {c}]
      /\ row' = [row EXCEPT ![f].stamped = @ \cup {k}]
      /\ UNCHANGED <<menus, chain, press, learner, reactions, pressed, runs, mishaps>>
      /\ UNCHANGED <<answers, answered, folded, crossedRows, stale, astray, cutShort>>
  BY DEF FB!Stamp, FB!StampOf, FB!counters, FB!memory
<1>2. /\ c \in Batch /\ c.n \in FB!Stored /\ f \in FB!Opened /\ k \in FB!Folds /\ folded[k][c.n] > 0
      /\ answers[c.n].of = f /\ f \in Replies /\ FB!Opened \subseteq Replies
  BY <1>0, OpenRows DEF Batch, BatchInv, FoldInv, FeedbackRows
<1>b. row[f] \in RowSet /\ r \in RowSet /\ row' = [row EXCEPT ![f] = r]
  <2>1. row[f] \in RowSet
    BY <1>0, <1>2, OpenRows
  <2> QED  BY <2>1, <1>1, <1>2 DEF RowSet
<1>c. /\ r.status = row[f].status /\ r.sign = row[f].sign /\ r.topic = row[f].topic
      /\ r.answer = row[f].answer /\ r.menu = row[f].menu /\ r.reflection = row[f].reflection
      /\ r.stamped = row[f].stamped \cup {k}
  BY <1>b DEF RowSet
<1> HIDE DEF r
<1>d. /\ row' \in [Replies -> RowSet \cup {FB!NoRow}] /\ row'[f] = r
      /\ \A g \in Replies \ {f} : row'[g] = row[g]
      /\ FB!Opened' = FB!Opened
  <2>1. /\ row' \in [Replies -> RowSet \cup {FB!NoRow}] /\ row'[f] = r
        /\ \A g \in Replies \ {f} : row'[g] = row[g]
        /\ FB!Opened' = FB!Opened \cup {f}
    <3> HIDE DEF f
    <3> QED  BY <1>0, <1>2, <1>b, RowWritten
  <2> QED  BY <2>1, <1>2
<1>e. \A g \in FB!Opened :
        /\ row'[g].status = row[g].status /\ row'[g].sign = row[g].sign
        /\ row'[g].topic = row[g].topic /\ row'[g].answer = row[g].answer
        /\ row'[g].menu = row[g].menu /\ row'[g].reflection = row[g].reflection
  BY <1>2, <1>c, <1>d
<1>s. /\ row'[f].stamped = row[f].stamped \cup {k}
      /\ \A g \in FB!Opened : g # f => row'[g].stamped = row[g].stamped
      /\ FB!Opened' = FB!Opened
  BY <1>2, <1>c, <1>d
<1>3. FB!Stored' = FB!Stored /\ FB!Menus' = FB!Menus /\ FB!Answers' = FB!Answers
  BY <1>1 DEF FB!Stored, FB!Menus, FB!Answers
<1>r. /\ daily' \in RunSet /\ daily'.at = k /\ daily'.todo = daily.todo \ {c} /\ Batch' \subseteq Batch
      /\ \A j \in FB!Folds : daily'[j] = daily[j]
  BY <1>0, <1>1 DEF FeedbackTypes, RunSet, Batch, FB!Folds
<1>z. daily.at = k
  OBVIOUS
<1>u. UNCHANGED <<answers, learner, answered, folded, crossedRows, stale, cutShort>>
  BY <1>1
<1> HIDE DEF f, k
<1>4. FeedbackTypes'
  BY <1>0, <1>1, <1>d, <1>r DEF FeedbackTypes
<1>5. ToldInv'
  BY <1>0, <1>1, <1>3 DEF ToldInv
<1>6. RoomInv' /\ IssuedInv' /\ HandlerInv' /\ MenuInv'
  BY <1>0, <1>1, <1>d, <1>e, ChatStays
<1>7. FeedbackRows'
  BY <1>0, <1>u, <1>3, <1>s, <1>e DEF FeedbackRows
<1>8. FB!AnswerStands'
  BY <1>0, <1>u, <1>s, <1>e DEF FB!AnswerStands
<1>9. FB!LearntIsSaid'
  <2> SUFFICES ASSUME NEW g \in FB!Opened \ (stale \cup crossedRows)
               PROVE  /\ \A j \in row'[g].stamped : row[g].answer # 0 /\ folded[j][row[g].answer] > 0
                      /\ row[g].reflection \in {0, row[g].answer}
    BY <1>u, <1>s, <1>e DEF FB!LearntIsSaid
  <2>1. /\ \A j \in row[g].stamped : row[g].answer # 0 /\ folded[j][row[g].answer] > 0
        /\ row[g].reflection \in {0, row[g].answer}
    BY <1>0 DEF FB!LearntIsSaid
  <2>2. CASE g = f
    <3>1. row[g].answer = c.n /\ row[g].answer # 0
      BY <2>2, <1>0, <1>2 DEF BatchInv, FeedbackRows, f
    <3> QED  BY <3>1, <2>1, <2>2, <1>2, <1>s
  <2>3. CASE g # f
    BY <2>1, <2>3, <1>s
  <2> QED  BY <2>2, <2>3
<1>10. BatchInv'
  <2>1. daily'.at # "idle"
    BY <1>2, <1>r DEF FB!Folds
  <2> QED  BY <2>1, <1>0, <1>u, <1>d, <1>e, <1>r, BatchStays
<1>11. FoldInv'
  <2>1. \A g \in FB!Opened : \A j \in FB!Folds \ row'[g].stamped :
          row[g].answer # 0 /\ row[g].answer \notin cutShort =>
            folded[j][row[g].answer] = 0 \/ (k = j /\ \E x \in daily.todo \ {c} : x.n = row[g].answer)
    <3> SUFFICES ASSUME NEW g \in FB!Opened, NEW j \in FB!Folds \ row'[g].stamped,
                        row[g].answer # 0, row[g].answer \notin cutShort,
                        folded[j][row[g].answer] # 0
                 PROVE  k = j /\ \E x \in daily.todo \ {c} : x.n = row[g].answer
      OBVIOUS
    <3>1. j \notin row[g].stamped /\ (g = f => j # k)
      BY <1>s
    <3>2. k = j /\ \E x \in daily.todo : x.n = row[g].answer
      BY <3>1, <1>0, <1>z DEF FoldInv
    <3>3. row[g].answer # c.n
      BY <3>1, <3>2, <1>0, <1>2 DEF FeedbackRows
    <3> QED  BY <3>2, <3>3
  <2>2. \A x \in daily'.todo : daily'.at \in FB!Folds /\ folded[daily'.at][x.n] > 0
    BY <1>0, <1>r, <1>z DEF FoldInv
  <2>3. \A j \in FB!Folds : \A x \in daily'[j] : x.n \notin cutShort => folded[j][x.n] = 0
    BY <1>0, <1>r DEF FoldInv
  <2>4. \A n \in FB!Answers \ FB!Stored : \A j \in FB!Folds : folded[j][n] = 0
    BY <1>0 DEF FoldInv
  <2>5. FB!Folds' = FB!Folds
    BY DEF FB!Folds
  <2> QED  BY <2>1, <2>2, <2>3, <2>4, <2>5, <1>u, <1>3, <1>s, <1>e, <1>r DEF FoldInv
<1>12. FB!FoldedOnce'
  BY <1>0, <1>u, <1>3 DEF FB!FoldedOnce
<1> QED  BY <1>4, <1>5, <1>6, <1>7, <1>8, <1>9, <1>10, <1>11, <1>12 DEF FeedbackInv

\* The next fold.
LEMMA NextPassKeeps ==
  ASSUME FeedbackInv, FB!NextPass
  PROVE  FeedbackInv'
<1>0. /\ FeedbackTypes /\ ToldInv /\ RoomInv /\ FeedbackRows /\ IssuedInv /\ HandlerInv /\ MenuInv
      /\ BatchInv /\ FoldInv /\ FB!AnswerStands /\ FB!LearntIsSaid /\ FB!FoldedOnce
  BY DEF FeedbackInv
<1>1. /\ daily.at \in FB!Folds /\ daily.bare = {} /\ daily.todo = {} /\ daily[daily.at] = {}
      /\ daily' = IF daily.at = "prefs" THEN [daily EXCEPT !.at = "corrections"] ELSE FB!NoRun
      /\ UNCHANGED <<row, menus, chain, press, learner, reactions, pressed, runs, mishaps>>
      /\ UNCHANGED <<answers, answered, folded, crossedRows, stale, astray, cutShort>>
  BY DEF FB!NextPass, FB!counters, FB!memory
<1>3. FB!Opened' = FB!Opened /\ FB!Stored' = FB!Stored
  BY <1>1 DEF FB!Opened, FB!Stored
<1>r. /\ daily' \in RunSet /\ daily'.todo = {} /\ Batch' \subseteq Batch
      /\ daily'.at = "idle" => Batch' = {}
      /\ \A k \in FB!Folds : daily'[k] \subseteq daily[k]
  <2>1. CASE daily.at = "prefs"
    <3>1. daily' = [daily EXCEPT !.at = "corrections"]
      BY <2>1, <1>1
    <3> QED  BY <3>1, <1>0, <1>1 DEF FeedbackTypes, RunSet, Batch, FB!Folds
  <2>2. CASE daily.at # "prefs"
    <3>1. daily' = FB!NoRun
      BY <2>2, <1>1
    <3> QED  BY <3>1 DEF FB!NoRun, RunSet, Batch, FB!Folds
  <2> QED  BY <2>1, <2>2
<1>4. FeedbackTypes'
  BY <1>0, <1>1, <1>r DEF FeedbackTypes
<1>5. ToldInv'
  BY <1>0, <1>1, <1>3 DEF ToldInv
<1>6. RoomInv' /\ IssuedInv' /\ HandlerInv' /\ MenuInv'
  BY <1>0, <1>1, <1>3, ChatStays
<1>7. BatchInv'
  BY <1>0, <1>1, <1>3, <1>r, BatchStays
<1>8. FoldInv'
  <2>1. \A g \in FB!Opened : \A j \in FB!Folds \ row[g].stamped :
          row[g].answer # 0 /\ row[g].answer \notin cutShort => folded[j][row[g].answer] = 0
    BY <1>0, <1>1 DEF FoldInv
  <2> QED  BY <2>1, <1>0, <1>1, <1>3, <1>r DEF FoldInv
<1>9. FB!FoldedOnce'
  BY <1>0, <1>1, <1>3 DEF FB!FoldedOnce
<1> QED  BY <1>0, <1>1, <1>4, <1>5, <1>6, <1>7, <1>8, <1>9, FeedbackRowsStay DEF FeedbackInv

\* The run is cut short: the answers it had folded and not stamped are remembered.
LEMMA CutShortKeeps ==
  ASSUME FeedbackInv, daily' = FB!NoRun, cutShort' = cutShort \cup {c.n : c \in daily.todo},
         UNCHANGED <<row, answers, folded>>
  PROVE  daily' \in RunSet /\ cutShort' \subseteq FB!Answers /\ Batch' = {} /\ FoldInv'
<1>0. /\ FeedbackTypes /\ ToldInv /\ RoomInv /\ FeedbackRows /\ IssuedInv /\ HandlerInv /\ MenuInv
      /\ BatchInv /\ FoldInv /\ FB!AnswerStands /\ FB!LearntIsSaid /\ FB!FoldedOnce
  BY DEF FeedbackInv
<1>1. /\ daily' \in RunSet /\ daily'.todo = {} /\ Batch' = {} /\ \A k \in FB!Folds : daily'[k] = {}
  BY DEF FB!NoRun, RunSet, Batch, FB!Folds
<1>2. cutShort' \subseteq FB!Answers
  BY <1>0, RunFacts DEF FeedbackTypes
<1>3. FB!Opened' = FB!Opened /\ FB!Stored' = FB!Stored
  BY DEF FB!Opened, FB!Stored
<1>4. \A g \in FB!Opened : \A j \in FB!Folds \ row[g].stamped :
        row[g].answer # 0 /\ row[g].answer \notin cutShort' => folded[j][row[g].answer] = 0
  BY <1>0 DEF FoldInv
<1>5. \A n \in FB!Answers \ FB!Stored : \A j \in FB!Folds : folded[j][n] = 0
  BY <1>0 DEF FoldInv
<1> QED  BY <1>1, <1>2, <1>3, <1>4, <1>5 DEF FoldInv

\* The run fails.
LEMMA RunFailsKeeps ==
  ASSUME FeedbackInv, FB!RunFails
  PROVE  FeedbackInv'
<1>0. /\ FeedbackTypes /\ ToldInv /\ RoomInv /\ FeedbackRows /\ IssuedInv /\ HandlerInv /\ MenuInv
      /\ BatchInv /\ FoldInv /\ FB!AnswerStands /\ FB!LearntIsSaid /\ FB!FoldedOnce
  BY DEF FeedbackInv
<1>1. /\ daily' = FB!NoRun /\ cutShort' = cutShort \cup {c.n : c \in daily.todo}
      /\ mishaps < MaxMishaps /\ mishaps' = mishaps + 1
      /\ UNCHANGED <<row, menus, chain, press, learner, reactions, pressed, runs>>
      /\ UNCHANGED <<answers, answered, folded, crossedRows, stale, astray>>
  BY DEF FB!RunFails, FB!Mishap
<1>3. FB!Opened' = FB!Opened /\ FB!Stored' = FB!Stored
  BY <1>1 DEF FB!Opened, FB!Stored
<1>r. daily' \in RunSet /\ cutShort' \subseteq FB!Answers /\ Batch' = {} /\ FoldInv'
  BY <1>1, CutShortKeeps
<1>4. FeedbackTypes'
  <2>1. mishaps' \in 0..MaxMishaps
    BY <1>0, <1>1, FeedbackAssumption DEF FeedbackTypes
  <2> QED  BY <2>1, <1>0, <1>1, <1>r DEF FeedbackTypes
<1>5. ToldInv'
  BY <1>0, <1>1, <1>3 DEF ToldInv
<1>6. RoomInv' /\ IssuedInv' /\ HandlerInv' /\ MenuInv'
  BY <1>0, <1>1, <1>3, ChatStays
<1>7. BatchInv'
  BY <1>0, <1>1, <1>3, <1>r, BatchStays
<1>9. FB!FoldedOnce'
  BY <1>0, <1>1, <1>3 DEF FB!FoldedOnce
<1> QED  BY <1>0, <1>1, <1>r, <1>4, <1>5, <1>6, <1>7, <1>9, FeedbackRowsStay DEF FeedbackInv

\* Everything under way is gone.
LEMMA CrashKeeps ==
  ASSUME FeedbackInv, FB!Crash
  PROVE  FeedbackInv'
<1>0. /\ FeedbackTypes /\ ToldInv /\ RoomInv /\ FeedbackRows /\ IssuedInv /\ HandlerInv /\ MenuInv
      /\ BatchInv /\ FoldInv /\ FB!AnswerStands /\ FB!LearntIsSaid /\ FB!FoldedOnce
  BY DEF FeedbackInv
<1>1. /\ mishaps < MaxMishaps /\ mishaps' = mishaps + 1
      /\ chain' = FB!NoPress /\ press' = [p \in FB!Slots |-> FB!NoPress] /\ daily' = FB!NoRun
      /\ learner' = [n \in FB!Answers |-> IF learner[n].at = "filed" THEN learner[n] ELSE [at |-> "none"]]
      /\ astray' = IF chain.at \in {"menu", "set"} THEN astray \cup {chain.of} ELSE astray
      /\ cutShort' = cutShort \cup {c.n : c \in daily.todo}
      /\ UNCHANGED <<row, menus, reactions, pressed, runs, answers, answered, folded, crossedRows, stale>>
  BY DEF FB!Crash, FB!Mishap
<1>2. chain'.at = "idle" /\ \A p \in FB!Slots : press'[p] = FB!NoPress /\ press'[p].at = "idle"
  BY <1>1 DEF FB!NoPress
<1>l. \A n \in FB!Answers : (learner'[n] = learner[n] /\ learner[n].at = "filed") \/ learner'[n].at = "none"
  BY <1>1
<1>3. FB!Opened' = FB!Opened /\ FB!Stored' = FB!Stored
  BY <1>1 DEF FB!Opened, FB!Stored
<1>r. daily' \in RunSet /\ cutShort' \subseteq FB!Answers /\ Batch' = {} /\ FoldInv'
  BY <1>1, CutShortKeeps
<1>4. FeedbackTypes'
  <2>1. mishaps' \in 0..MaxMishaps
    BY <1>0, <1>1, FeedbackAssumption DEF FeedbackTypes
  <2>2. learner' \in [FB!Answers -> LearnSet]
    <3>1. [at |-> "none"] \in LearnSet
      BY DEF LearnSet, LearnAt
    <3>2. learner \in [FB!Answers -> LearnSet]
      BY <1>0 DEF FeedbackTypes
    <3> QED  BY <3>1, <3>2, <1>1
  <2>3. press' \in [FB!Slots -> PressSet] /\ chain' \in ChainSet
    BY <1>1 DEF PressSet, ChainSet
  <2>4. astray' \subseteq Replies
    BY <1>0, <1>1, ChainFacts DEF FeedbackTypes
  <2> QED  BY <2>1, <2>2, <2>3, <2>4, <1>0, <1>1, <1>r DEF FeedbackTypes
<1>5. ToldInv'
  BY <1>0, <1>1, <1>2, <1>3, <1>l DEF ToldInv
<1>6. RoomInv'
  <2>1. Writers' \subseteq Writers
    BY <1>2 DEF Writers
  <2> QED  BY <2>1, <1>0, <1>1, RoomSame
<1>7. IssuedInv'
  <2>1. \A i \in FB!Menus : \A g \in Replies : IsIssued(i, g)' => IsIssued(i, g)
    BY <1>1, <1>2, <1>3 DEF IsIssued
  <2>2. \A i \in FB!Menus : IsTold(i)' => IsTold(i)
    BY <1>2 DEF IsTold
  <2> QED  BY <2>1, <2>2, <1>0, <1>1, <1>3, IssuedStays
<1>8. HandlerInv'
  <2>1. \A g : FB!Handlers(g)' = {}
    BY <1>2, HandlersThen
  <2> QED  BY <2>1 DEF HandlerInv
<1>9. MenuInv'
  <2> SUFFICES ASSUME NEW g \in FB!Opened \ (crossedRows \cup astray'), row[g].status # "completed"
               PROVE  HasMenu(g)'
    BY <1>1, <1>3 DEF MenuInv
  <2>0. g \notin astray /\ ~MenuComing(g)
    BY <1>1 DEF MenuComing
  <2>1. HasMenu(g)
    BY <2>0, <1>0 DEF MenuInv
  <2>2. CurrentMenu(g)' = CurrentMenu(g)
    BY <2>0, <1>1, <1>2 DEF CurrentMenu, MenuComing
  <2>3. ~IsTold(CurrentMenu(g)) => ~IsTold(CurrentMenu(g))'
    BY <1>2 DEF IsTold
  <2> QED  BY <2>0, <2>1, <2>2, <2>3, <1>1, MenuStays
<1>10. BatchInv'
  <2>1. \A n \in FB!Stored : learner'[n].at # "reflecting"
    BY <1>0, <1>l, StoredFacts
  <2> QED  BY <2>1, <1>3, <1>r DEF BatchInv
<1>11. FB!FoldedOnce'
  <2>1. \A n \in FB!Stored : learner'[n].at = "filed" => learner'[n] = learner[n]
    BY <1>0, <1>l, StoredFacts
  <2> QED  BY <2>1, <1>0, <1>1, <1>3 DEF FB!FoldedOnce
<1> QED  BY <1>0, <1>1, <1>r, <1>4, <1>5, <1>6, <1>7, <1>8, <1>9, <1>10, <1>11,
     FeedbackRowsStay DEF FeedbackInv

\* The invariant.
\* At the start.
LEMMA FeedbackInit == FB!Init => FeedbackInv
<1> SUFFICES ASSUME FB!Init  PROVE FeedbackInv
  OBVIOUS
<1>1. /\ row = [f \in Replies |-> FB!NoRow] /\ menus = {} /\ chain = FB!NoPress
      /\ press = [p \in FB!Slots |-> FB!NoPress] /\ learner = [n \in FB!Answers |-> [at |-> "none"]]
      /\ daily = FB!NoRun /\ reactions = 0 /\ pressed = 0 /\ runs = 0 /\ mishaps = 0
      /\ answers = <<>> /\ answered = [f \in Replies |-> {}]
      /\ folded = [k \in FB!Folds |-> [n \in FB!Answers |-> 0]]
      /\ crossedRows = {} /\ stale = {} /\ astray = {} /\ cutShort = {}
  BY DEF FB!Init
<1>2. /\ FB!Opened = {} /\ FB!Stored = {} /\ Batch = {} /\ daily.todo = {} /\ daily \in RunSet
      /\ \A k \in FB!Folds : daily[k] = {}
  BY <1>1 DEF FB!Opened, FB!Stored, Batch, FB!NoRun, RunSet, FB!Folds
<1>3. /\ chain.at = "idle" /\ \A p \in FB!Slots : press[p].at = "idle"
      /\ \A n \in FB!Answers : learner[n].at = "none"
  BY <1>1 DEF FB!NoPress
<1>4. FeedbackTypes
  <2>1. /\ press \in [FB!Slots -> PressSet] /\ chain \in ChainSet /\ learner \in [FB!Answers -> LearnSet]
    BY <1>1 DEF PressSet, ChainSet, LearnSet, LearnAt
  <2>2. folded \in [FB!Folds -> [FB!Answers -> Nat]]
    BY <1>1
  <2>3. /\ reactions \in 0..MaxReactions /\ pressed \in 0..MaxAnswers
        /\ runs \in 0..MaxRuns /\ mishaps \in 0..MaxMishaps
    BY <1>1, FeedbackAssumption
  <2> QED  BY <2>1, <2>2, <2>3, <1>1, <1>2 DEF FeedbackTypes
<1>5. ToldInv /\ FeedbackRows /\ HandlerInv /\ MenuInv /\ FB!AnswerStands /\ FB!LearntIsSaid /\ FB!FoldedOnce
  BY <1>2, <1>3 DEF ToldInv, FeedbackRows, HandlerInv, MenuInv, FB!AnswerStands, FB!LearntIsSaid,
       FB!FoldedOnce
<1>6. RoomInv
  <2>1. Writers = {}
    BY <1>3 DEF Writers
  <2> QED  BY <2>1, <1>1, FS_EmptySet DEF RoomInv
<1>7. IssuedInv
  BY <1>1, <1>2, <1>3 DEF IssuedInv, IsIssued, IsTold
<1>8. BatchInv
  BY <1>2 DEF BatchInv
<1>9. FoldInv
  BY <1>1, <1>2 DEF FoldInv
<1> QED  BY <1>4, <1>5, <1>6, <1>7, <1>8, <1>9 DEF FeedbackInv

\* Nothing happens.
LEMMA FeedbackIdles ==
  ASSUME FeedbackInv, UNCHANGED FB!feedbackVars
  PROVE  FeedbackInv'
<1>0. /\ FeedbackTypes /\ ToldInv /\ RoomInv /\ FeedbackRows /\ IssuedInv /\ HandlerInv /\ MenuInv
      /\ BatchInv /\ FoldInv /\ FB!AnswerStands /\ FB!LearntIsSaid /\ FB!FoldedOnce
  BY DEF FeedbackInv
<1>1. /\ UNCHANGED <<row, menus, chain, press, learner, daily, reactions, pressed, runs, mishaps>>
      /\ UNCHANGED <<answers, answered, folded, crossedRows, stale, astray, cutShort>>
  BY DEF FB!feedbackVars, FB!counters, FB!memory
<1>2. FB!Opened' = FB!Opened
  BY <1>1 DEF FB!Opened
<1>3. FeedbackTypes'
  BY <1>0, <1>1 DEF FeedbackTypes
<1>4. ToldInv'
  BY <1>0, <1>1 DEF ToldInv, FB!Stored
<1>5. RoomInv' /\ IssuedInv' /\ HandlerInv' /\ MenuInv'
  BY <1>0, <1>1, <1>2, ChatStays
<1> QED  BY <1>0, <1>1, <1>3, <1>4, <1>5, FeedbackRowsStay, LearningStays DEF FeedbackInv

\* Every step keeps it.
LEMMA FeedbackInvKept ==
  ASSUME FeedbackInv, [FB!Next]_(FB!feedbackVars)
  PROVE  FeedbackInv'
<1>1. ASSUME NEW f \in Replies, NEW sign \in {"up", "down"}, FB!React(f, sign)  PROVE FeedbackInv'
  BY <1>1, ReactKeeps DEF Signs
<1>2. CASE FB!SendMenu \/ FB!SendMenuFails \/ FB!SetMenu
  BY <1>2, SendMenuKeeps, SendMenuFailsKeeps, SetMenuKeeps
<1>3. ASSUME NEW m \in menus, FB!Text(m)  PROVE FeedbackInv'
  BY <1>3, TextKeeps
<1>4. CASE FB!TextStored \/ FB!TextTold
  BY <1>4, TextStoredKeeps, TextToldKeeps
<1>5. ASSUME NEW p \in FB!Slots, NEW m \in menus, NEW button \in {"option", "last", "other"},
             FB!Press(p, m, button)
      PROVE  FeedbackInv'
  BY <1>5, PressKeeps DEF Buttons
<1>6. ASSUME NEW p \in FB!Slots, FB!OptionStored(p) \/ FB!OptionTold(p) \/ FB!OtherStored(p)
      PROVE  FeedbackInv'
  BY <1>6, OptionStoredKeeps, OptionToldKeeps, OtherStoredKeeps
<1>7. ASSUME NEW p \in FB!Slots, FB!OtherAsked(p) \/ FB!OtherNotAsked(p)  PROVE FeedbackInv'
  BY <1>7, OtherAskedKeeps
<1>8. ASSUME NEW n \in FB!Answers, FB!Learn(n) \/ FB!Reflected(n)  PROVE FeedbackInv'
  BY <1>8, LearnKeeps, ReflectedKeeps
<1>9. CASE FB!RunStarts \/ FB!NextPass \/ FB!RunFails \/ FB!Crash
  BY <1>9, RunStartsKeeps, NextPassKeeps, RunFailsKeeps, CrashKeeps
<1>10. ASSUME NEW c \in daily.bare, FB!Backfill(c)  PROVE FeedbackInv'
  BY <1>10, BackfillKeeps
<1>11. ASSUME NEW k \in FB!Folds, FB!Fold(k)  PROVE FeedbackInv'
  BY <1>11, FoldKeeps
<1>12. ASSUME NEW c \in daily.todo, FB!Stamp(c)  PROVE FeedbackInv'
  BY <1>12, StampKeeps
<1>13. CASE UNCHANGED FB!feedbackVars
  BY <1>13, FeedbackIdles
<1> QED
  BY <1>1, <1>2, <1>3, <1>4, <1>5, <1>6, <1>7, <1>8, <1>9, <1>10, <1>11, <1>12, <1>13 DEF FB!Next

\* What the property says follows.
LEMMA FeedbackAsKept == FeedbackInv => FB!FeedbackTypeOK /\ FB!FeedbackKept
<1> SUFFICES ASSUME FeedbackInv  PROVE FB!FeedbackTypeOK /\ FB!FeedbackKept
  OBVIOUS
<1>0. /\ FeedbackTypes /\ ToldInv /\ RoomInv /\ FeedbackRows /\ IssuedInv /\ HandlerInv /\ MenuInv
      /\ BatchInv /\ FoldInv /\ FB!AnswerStands /\ FB!LearntIsSaid /\ FB!FoldedOnce
  BY DEF FeedbackInv
<1>1. FB!FeedbackTypeOK
  <2>1. \A f \in FB!Opened :
          /\ row[f].status \in {"pending", "awaiting_text", "completed"}
          /\ row[f].sign \in {"up", "down"} /\ row[f].topic \in {"quality", "addressing"}
          /\ row[f].stamped \subseteq FB!Folds
    BY <1>0, OpenRows DEF RowSet, Signs, Topics
  <2>2. \A f \in FB!Opened : /\ row[f].answer \in FB!Stored \cup {0} /\ row[f].menu \in FB!Menus \cup {0}
                             /\ row[f].reflection \in FB!Stored \cup {0}
    BY <1>0 DEF FeedbackRows
  <2>3. \A m \in menus : m.of \in FB!Opened /\ m.id \in FB!Menus /\ m.keys \in BOOLEAN
    <3>1. \A m \in menus : m.of \in Replies /\ m.id \in FB!Menus /\ m.keys \in BOOLEAN
      BY <1>0 DEF FeedbackTypes, MenuSet
    <3> QED  BY <3>1, <1>0 DEF IssuedInv, IsIssued
  <2>4. \A n \in FB!Answers : learner[n].at # "none" => n \in FB!Stored
    BY <1>0 DEF ToldInv
  <2> QED  BY <2>1, <2>2, <2>3, <2>4 DEF FB!FeedbackTypeOK
<1>2. FB!StillAnswerable
  <2> SUFFICES ASSUME NEW f \in FB!Opened \ (crossedRows \cup astray), row[f].status = "awaiting_text"
               PROVE  \/ chain.at \in {"menu", "set"} /\ chain.of = f
                      \/ \E m \in menus : m.of = f /\ (m.keys \/ m.id = row[f].menu)
    BY DEF FB!StillAnswerable
  <2>1. HasMenu(f)
    BY <1>0 DEF MenuInv
  <2> QED  BY <2>1 DEF HasMenu, CurrentMenu, MenuComing
<1> QED  BY <1>0, <1>1, <1>2 DEF FB!FeedbackKept
=============================================================================
