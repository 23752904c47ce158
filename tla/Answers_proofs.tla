---------------------------- MODULE Answers_proofs ----------------------------
(***************************************************************************)
(* Theorems about ReplyPipeline, for every bound on the window and the     *)
(* tool calls, and about what the tools of its turns leave behind          *)
(* (Answers): the acknowledgements, the typing indicator and the rows of a *)
(* collection, for every number of requests, rows, columns and documents.  *)
(***************************************************************************)
EXTENDS Answers, TLAPS, FiniteSetTheorems, WellFoundedInduction

USE DEF decision, bindings, generation, sent

(***************************************************************************)
(* The pipeline implements TurnRun.                                        *)
(***************************************************************************)

\* A run is over exactly when it has an outcome, and has done nothing before its
\* collaborators are there.
RunInv ==
  /\ marked \in BOOLEAN /\ acted \in BOOLEAN
  /\ pc # "done" => outcome = "running"
  /\ pc = "prepare" => ~acted

\* What a step may do to the mark, the actions and the end of a run: it throws
\* only before anything is done, and otherwise marks before it acts.
RunStep ==
  /\ pc # "done"
  /\ \/ /\ marked' = marked \/ marked' = TRUE
        /\ acted' = acted \/ (acted' = TRUE /\ marked' = TRUE)
        /\ \/ outcome' \in {"ignored", "replied", "error"} /\ pc' = "done"
           \/ outcome' = outcome /\ pc' # "done" /\ pc' # "prepare"
     \/ /\ pc = "prepare" /\ pc' = "done" /\ outcome' = "thrown"
        /\ marked' = marked /\ acted' = acted

LEMMA SendsMark ==
  ASSUME Arrives \/ FailsToArrive
  PROVE  /\ marked' = marked \/ marked' = TRUE
         /\ acted' = acted \/ (acted' = TRUE /\ marked' = TRUE)
BY DEF Arrives, FailsToArrive

LEMMA StepIsRunStep == ASSUME Next PROVE RunStep
<1> USE DEF RunStep, End, GoSend, GoError
<1>1. CASE Prepare BY <1>1 DEF Prepare
<1>2. CASE PrepareFails BY <1>2 DEF PrepareFails
<1>3. CASE NoContent BY <1>3 DEF NoContent
<1>4. CASE Addressed BY <1>4 DEF Addressed
<1>5. CASE Consider BY <1>5 DEF Consider
<1>6. CASE AnalyzerAnswers BY <1>6 DEF AnalyzerAnswers
<1>7. CASE MatchUnaddressed BY <1>7 DEF MatchUnaddressed
<1>8. CASE Summoned BY <1>8 DEF Summoned, Decided
<1>9. CASE OpenedByTask BY <1>9 DEF OpenedByTask, Decided
<1>10. CASE NotAddressed BY <1>10 DEF NotAddressed, Decided
<1>11. CASE Maintenance BY <1>11 DEF Maintenance
<1>12. CASE Load BY <1>12 DEF Load
<1>13. CASE LoadFails BY <1>13 DEF LoadFails
<1>14. CASE ToolRuns BY <1>14 DEF ToolRuns
<1>15. CASE ToolRefused BY <1>15 DEF ToolRefused
<1>16. CASE Overflow BY <1>16 DEF Overflow
<1>17. CASE GenerationFails BY <1>17 DEF GenerationFails
<1>18. CASE Generated BY <1>18 DEF Generated
<1>19. CASE RetryDeliberation BY <1>19 DEF RetryDeliberation, AskAgain
<1>20. CASE SuppressDeliberation BY <1>20 DEF SuppressDeliberation, Suppress
<1>21. CASE RetryTask BY <1>21 DEF RetryTask, AskAgain
<1>22. CASE SuppressTask BY <1>22 DEF SuppressTask, Suppress
<1>23. CASE RetryClaim BY <1>23 DEF RetryClaim, AskAgain
<1>24. CASE SuppressClaim BY <1>24 DEF SuppressClaim, Suppress
<1>25. CASE Stand BY <1>25 DEF Stand
<1>26. CASE Speak BY <1>26, SendsMark DEF Speak
<1>27. CASE SpeakUnmarked BY <1>27 DEF SpeakUnmarked
<1>28. CASE Send BY <1>28, SendsMark DEF Send
<1>29. CASE SendFails BY <1>29, SendsMark DEF SendFails
<1> QED BY <1>1, <1>2, <1>3, <1>4, <1>5, <1>6, <1>7, <1>8, <1>9, <1>10, <1>11, <1>12,
           <1>13, <1>14, <1>15, <1>16, <1>17, <1>18, <1>19, <1>20, <1>21, <1>22, <1>23,
           <1>24, <1>25, <1>26, <1>27, <1>28, <1>29 DEF Next

LEMMA RunInvInit == ASSUME Init PROVE RunInv
BY DEF Init, RunInv

LEMMA RunInvStep == ASSUME RunInv, [Next]_vars PROVE RunInv'
<1>1. CASE Next
  <2>1. RunStep BY <1>1, StepIsRunStep
  <2> QED BY <2>1, Zenon DEF RunInv, RunStep
<1>2. CASE UNCHANGED vars
  <2>1. UNCHANGED <<pc, outcome, marked, acted>> BY <1>2 DEF vars
  <2> QED BY <2>1 DEF RunInv
<1> QED BY <1>1, <1>2

LEMMA EndedValues ==
  /\ outcome = "running" => Ended = "no"
  /\ outcome = "thrown" => Ended = "thrown"
  /\ outcome \in {"ignored", "replied", "error"} => Ended = "returned"
BY DEF Ended

\* Every step of the pipeline is a step of TurnRun, or none.
LEMMA RunSimulates == ASSUME RunInv, [Next]_vars PROVE [Run!Next]_(Run!vars)
<1>1. CASE Next
  <2>1. RunStep BY <1>1, StepIsRunStep
  <2>2. outcome = "running" /\ Ended = "no" BY <2>1, EndedValues DEF RunInv, RunStep
  <2>3. CASE /\ marked' = marked \/ marked' = TRUE
             /\ acted' = acted \/ (acted' = TRUE /\ marked' = TRUE)
             /\ \/ outcome' \in {"ignored", "replied", "error"} /\ pc' = "done"
                \/ outcome' = outcome /\ pc' # "done" /\ pc' # "prepare"
    <3>1. Ended' \in {"no", "returned"} BY <2>2, <2>3 DEF Ended
    <3>2. marked' \in {marked, TRUE} BY <2>3
    <3>3. acted' \in {acted, marked'}
      <4>1. CASE acted' = acted BY <4>1
      <4>2. CASE acted' = TRUE /\ marked' = TRUE BY <4>2
      <4> QED BY <2>3, <4>1, <4>2
    <3>4. acted => acted'
      <4>1. CASE acted' = acted BY <4>1
      <4>2. CASE acted' = TRUE BY <4>2
      <4> QED BY <2>3, <4>1, <4>2
    <3> QED BY <2>2, <3>1, <3>2, <3>3, <3>4 DEF Run!Next, Run!Run
  <2>4. CASE /\ pc = "prepare" /\ pc' = "done" /\ outcome' = "thrown"
             /\ marked' = marked /\ acted' = acted
    <3>1. Ended' = "thrown" BY <2>4 DEF Ended
    <3>2. ~acted BY <2>4 DEF RunInv
    <3> QED BY <2>2, <2>4, <3>1, <3>2 DEF Run!Next, Run!Throw
  <2> QED BY <2>1, <2>3, <2>4 DEF RunStep
<1>2. CASE UNCHANGED vars
  <2>1. UNCHANGED <<outcome, marked, acted>> BY <1>2 DEF vars
  <2> QED BY <2>1 DEF Run!vars, Ended
<1> QED BY <1>1, <1>2

\* One run of the pipeline keeps the contract the consumer's retry rests on: it
\* marks the turn before it acts, and throws only while nothing has left.
THEOREM PipelineImplementsTurnRun == Spec => ImplementsTurnRun
<1>1. Init => Run!Init BY DEF Init, Run!Init, Ended
<1>2. Spec => []RunInv BY RunInvInit, RunInvStep, PTL DEF Spec
<1>3. RunInv /\ [Next]_vars => [Run!Next]_(Run!vars) BY RunSimulates
<1> QED BY <1>1, <1>2, <1>3, PTL DEF Spec, ImplementsTurnRun, Run!Spec

(***************************************************************************)
(* The answer that is sent.                                                *)
(***************************************************************************)

Answered == "answer" \in {posts[i] : i \in DOMAIN posts}

Kinds == Notices \cup {"none", "tool", "answer", "maintenance", "error"}

\* The answer about to be sent has been judged, none is posted before, and what
\* the judgement relied on does not change any more.
AnswerInv ==
  /\ posts \in Seq(Kinds) /\ note \in Kinds
  /\ calls \in Nat
  /\ pc = "speak" => note = "answer"
  /\ pc \notin {"send", "done"} => ~Answered /\ outcome = "running"
  /\ pc = "send" => outcome = "running"
  /\ pc \in {"speak", "send"} /\ note = "answer" /\ reply = "claim" => calls > 0 \/ missed
  /\ pc \in {"speak", "send"} /\ note = "answer" => task = FALSE
  /\ Answered /\ reply = "claim" => calls > 0 \/ missed
  /\ Answered => task = FALSE
  /\ task = TRUE /\ outcome = "replied" => calls > 0
  /\ task \in BOOLEAN

\* What a message appended to the posts adds to them.
LEMMA AppendRange ==
  ASSUME NEW S, NEW q \in Seq(S), NEW x \in S
  PROVE  /\ Append(q, x) \in Seq(S)
         /\ {Append(q, x)[i] : i \in DOMAIN Append(q, x)} = {q[i] : i \in DOMAIN q} \cup {x}
<1> DEFINE r == Append(q, x)
<1>1. /\ r \in Seq(S) /\ DOMAIN r = 1 .. Len(q) + 1 /\ DOMAIN q = 1 .. Len(q)
      /\ \A i \in 1 .. Len(q) : r[i] = q[i]
      /\ r[Len(q) + 1] = x /\ Len(q) \in Nat
  OBVIOUS
<1> HIDE DEF r
<1>2. ASSUME NEW i \in DOMAIN r PROVE r[i] \in {q[j] : j \in DOMAIN q} \cup {x}
  <2>1. CASE i = Len(q) + 1 BY <1>1, <2>1
  <2>2. CASE i \in DOMAIN q BY <1>1, <2>2
  <2> QED BY <1>1, <2>1, <2>2
<1>3. ASSUME NEW j \in DOMAIN q PROVE \E i \in DOMAIN r : r[i] = q[j] BY <1>1
<1>4. \E i \in DOMAIN r : r[i] = x BY <1>1
<1>5. r \in Seq(S) BY <1>1
<1>6. {r[i] : i \in DOMAIN r} = {q[i] : i \in DOMAIN q} \cup {x} BY <1>2, <1>3, <1>4
<1> QED BY <1>5, <1>6 DEF r

\* Only a send of an answer posts one.
LEMMA AnswerPosted ==
  ASSUME AnswerInv, Arrives \/ FailsToArrive
  PROVE  /\ posts' \in Seq(Kinds)
         /\ Answered' => Answered \/ note = "answer"
<1>1. CASE posts' = posts BY <1>1 DEF AnswerInv, Answered
<1>2. CASE posts' = Append(posts, note)
  <2>1. posts' \in Seq(Kinds) BY <1>2, AppendRange DEF AnswerInv
  <2>2. {posts'[i] : i \in DOMAIN posts'} = {posts[i] : i \in DOMAIN posts} \cup {note}
    BY <1>2, AppendRange DEF AnswerInv
  <2> QED BY <2>1, <2>2 DEF Answered
<1> QED BY <1>1, <1>2 DEF Arrives, FailsToArrive

LEMMA ToolPosted ==
  ASSUME AnswerInv, ToolRuns
  PROVE  posts' \in Seq(Kinds) /\ (Answered' => Answered)
<1>1. CASE posts' = posts BY <1>1 DEF AnswerInv, Answered
<1>2. CASE posts' = Append(posts, "tool")
  <2>1. "tool" \in Kinds BY DEF Kinds
  <2>2. posts' \in Seq(Kinds) BY <1>2, <2>1, AppendRange DEF AnswerInv
  <2>3. {posts'[i] : i \in DOMAIN posts'} = {posts[i] : i \in DOMAIN posts} \cup {"tool"}
    BY <1>2, <2>1, AppendRange DEF AnswerInv
  <2> QED BY <2>2, <2>3 DEF Answered
<1> QED BY <1>1, <1>2 DEF ToolRuns

LEMMA AnswerInit == ASSUME Init PROVE AnswerInv
<1>1. ~Answered BY DEF Init, Answered
<1>2. posts = <<>> /\ posts \in Seq(Kinds) BY DEF Init
<1>3. note = "none" /\ note \in Kinds BY DEF Init, Kinds
<1>4. /\ pc = "prepare" /\ task = FALSE /\ calls = 0 /\ outcome = "running" BY DEF Init
<1> QED BY <1>1, <1>2, <1>3, <1>4 DEF AnswerInv

LEMMA AnswerStep == ASSUME AnswerInv, [Next]_vars PROVE AnswerInv'
<1> USE DEF AnswerInv, End, GoSend, GoError, Kinds, Notices, Texts
<1>a. posts' = posts => (Answered' <=> Answered) BY DEF Answered
<1>1. CASE Prepare BY <1>1, <1>a DEF Prepare
<1>2. CASE PrepareFails BY <1>2, <1>a DEF PrepareFails
<1>3. CASE NoContent BY <1>3, <1>a DEF NoContent
<1>4. CASE Addressed BY <1>4, <1>a DEF Addressed
<1>5. CASE Consider BY <1>5, <1>a DEF Consider
<1>6. CASE AnalyzerAnswers BY <1>6, <1>a DEF AnalyzerAnswers
<1>7. CASE MatchUnaddressed BY <1>7, <1>a DEF MatchUnaddressed
<1>8. CASE Summoned BY <1>8, <1>a DEF Summoned, Decided
<1>9. CASE OpenedByTask BY <1>9, <1>a DEF OpenedByTask, Decided
<1>10. CASE NotAddressed BY <1>10, <1>a DEF NotAddressed, Decided
<1>11. CASE Maintenance BY <1>11, <1>a DEF Maintenance
<1>12. CASE Load BY <1>12, <1>a DEF Load
<1>13. CASE LoadFails BY <1>13, <1>a DEF LoadFails
<1>14. CASE ToolRuns
  <2>1. /\ pc = "generating" /\ UNCHANGED <<pc, task, reply, note, outcome>>
        /\ calls' = calls + 1
    BY <1>14 DEF ToolRuns
  <2>2. posts' \in Seq(Kinds) /\ ~Answered' BY <1>14, <2>1, ToolPosted
  <2> HIDE DEF Kinds
  <2> QED BY <2>1, <2>2
<1>15. CASE ToolRefused BY <1>15, <1>a DEF ToolRefused
<1>16. CASE Overflow BY <1>16, <1>a DEF Overflow
<1>17. CASE GenerationFails BY <1>17, <1>a DEF GenerationFails
<1>18. CASE Generated BY <1>18, <1>a DEF Generated
<1>19. CASE RetryDeliberation BY <1>19, <1>a DEF RetryDeliberation, AskAgain
<1>20. CASE SuppressDeliberation BY <1>20, <1>a DEF SuppressDeliberation, Suppress
<1>21. CASE RetryTask BY <1>21, <1>a DEF RetryTask, AskAgain
<1>22. CASE SuppressTask BY <1>22, <1>a DEF SuppressTask, Suppress
<1>23. CASE RetryClaim BY <1>23, <1>a DEF RetryClaim, AskAgain
<1>24. CASE SuppressClaim BY <1>24, <1>a DEF SuppressClaim, Suppress
<1>25. CASE Stand
  <2>1. Gated /\ reply = "claim" => missed' BY <1>25, Zenon DEF Stand
  <2>2. calls = 0 /\ task # TRUE /\ reply = "claim" => missed'
    BY <1>25, <2>1 DEF Stand, Gated
  <2>3. task = TRUE => calls > 0 BY <1>25 DEF Stand, TaskIdle
  <2>4. /\ pc = "judging" /\ posts' = posts /\ calls' = calls /\ task' = task /\ reply' = reply
        /\ \/ task = TRUE /\ pc' = "done" /\ note' = note
           \/ task # TRUE /\ pc' \in {"speak", "send"} /\ note' = "answer" /\ outcome' = outcome
    BY <1>25 DEF Stand
  <2>5. ~Answered' /\ calls \in Nat /\ task \in BOOLEAN /\ outcome = "running"
    BY <1>a, <2>4
  <2>6. CASE task = TRUE BY <2>3, <2>4, <2>5, <2>6
  <2>7. CASE task # TRUE
    <3>1. reply' = "claim" => calls' > 0 \/ missed'
      <4>1. CASE calls = 0 BY <2>2, <2>4, <2>7, <4>1, Zenon
      <4>2. CASE calls # 0
        <5>1. calls' > 0 BY <2>4, <2>5, <4>2
        <5> QED BY <5>1, Zenon
      <4> QED BY <4>1, <4>2
    <3>2. task' = FALSE BY <2>4, <2>5, <2>7
    <3> QED BY <2>4, <2>5, <2>7, <3>1, <3>2
  <2> QED BY <2>6, <2>7
<1>26. CASE Speak BY <1>26, AnswerPosted, <1>a DEF Speak, Arrives, FailsToArrive
<1>27. CASE SpeakUnmarked BY <1>27, <1>a DEF SpeakUnmarked
<1>28. CASE Send BY <1>28, AnswerPosted DEF Send, Arrives, FailsToArrive
<1>29. CASE SendFails BY <1>29, AnswerPosted DEF SendFails, Arrives, FailsToArrive
<1>30. CASE UNCHANGED vars BY <1>30, <1>a DEF vars
<1> QED
  BY <1>1, <1>2, <1>3, <1>4, <1>5, <1>6, <1>7, <1>8, <1>9, <1>10, <1>11, <1>12, <1>13, <1>14, <1>15,
     <1>16, <1>17, <1>18, <1>19, <1>20, <1>21, <1>22, <1>23, <1>24, <1>25, <1>26, <1>27, <1>28, <1>29, <1>30
     DEF Next

\* An answer that claims an action goes out only if a tool was called or if the
\* honesty gate could not see the claim, for every number of calls and whatever
\* retries, failed sends and verdicts come before it.
THEOREM HonestAnswerHolds == Spec => []HonestAnswer
<1>1. AnswerInv => HonestAnswer BY Zenon DEF AnswerInv, Answered, HonestAnswer
<1> QED BY <1>1, AnswerInit, AnswerStep, PTL DEF Spec

\* A turn a standing task opened never posts its own text, and is reported as
\* carried out only if it called a tool.
THEOREM TaskTurnActsHolds == Spec => []TaskTurnActs
<1>1. AnswerInv => TaskTurnActs
  <2> SUFFICES ASSUME AnswerInv, task PROVE TaskTurnActs BY DEF TaskTurnActs
  <2>1. task = TRUE BY DEF AnswerInv
  <2>2. ~Answered /\ (outcome = "replied" => calls > 0) BY <2>1 DEF AnswerInv
  <2> QED BY <2>2, Zenon DEF TaskTurnActs, Answered
<1> QED BY <1>1, AnswerInit, AnswerStep, PTL DEF Spec

(***************************************************************************)
(* What a turn is accounted for: its types, what it said, its trace.       *)
(***************************************************************************)

Posted == Notices \cup {"tool", "answer", "maintenance", "error"}

\* The types, what a run that is not over has not done yet, and one text for every
\* send that was reported failed and arrived all the same.
AccountInv ==
  /\ TypeOK
  /\ pc # "done" => outcome = "running"
  /\ pc \in {"speak", "send"} => note # "none"
  /\ pc \in {"prepare", "received", "deciding"} => trace \in {"none", "open"}
  /\ pc # "done" => Cardinality(Said) = lost
  /\ AtMostOneText /\ NeverSilent /\ TraceSettled

\* A message appended to the posts is one more of what was said, unless a tool sent it.
LEMMA SaidGrows ==
  ASSUME posts \in Seq(Posted), NEW x \in Posted, posts' = Append(posts, x)
  PROVE  /\ posts' \in Seq(Posted) /\ posts' # <<>>
         /\ Cardinality(Said) \in Nat
         /\ Cardinality(Said') = Cardinality(Said) + (IF x = "tool" THEN 0 ELSE 1)
<1>1. /\ DOMAIN posts = 1 .. Len(posts) /\ Len(posts) \in Nat
      /\ DOMAIN posts' = 1 .. Len(posts) + 1
      /\ \A i \in 1 .. Len(posts) : posts'[i] = posts[i]
      /\ posts'[Len(posts) + 1] = x
      /\ posts' \in Seq(Posted) /\ posts' # <<>>
  OBVIOUS
<1>2. IsFiniteSet(Said)
  <2>1. IsFiniteSet(1 .. Len(posts)) BY <1>1, FS_Interval
  <2>2. Said \subseteq 1 .. Len(posts) BY <1>1 DEF Said
  <2> QED BY <2>1, <2>2, FS_Subset
<1>3. Len(posts) + 1 \notin Said BY <1>1 DEF Said
<1>4. Said' = IF x = "tool" THEN Said ELSE Said \cup {Len(posts) + 1} BY <1>1 DEF Said
<1>5. Cardinality(Said) \in Nat BY <1>2, FS_CardinalityType
<1>6. Cardinality(Said \cup {Len(posts) + 1}) = Cardinality(Said) + 1
  BY <1>2, <1>3, FS_AddElement
<1> QED BY <1>1, <1>4, <1>5, <1>6

LEMMA AccountInit == ASSUME Init PROVE AccountInv
<1>1. Said = {} BY DEF Init, Said
<1>2. Cardinality(Said) = 0 BY <1>1, FS_EmptySet
<1>3. posts \in Seq(Posted) BY DEF Init
<1>4. 0 \in 0 .. MaxCalls BY PipelineAssumption
<1>5. TypeOK BY <1>3, <1>4 DEF Init, TypeOK, Texts, Posted
<1> QED BY <1>2, <1>5 DEF Init, AccountInv, AtMostOneText, NeverSilent, TraceSettled

LEMMA AccountStep == ASSUME AccountInv, [Next]_vars PROVE AccountInv'
<1> USE DEF AccountInv, TypeOK, AtMostOneText, NeverSilent, TraceSettled, End, GoSend,
           GoError, Notices, Texts
<1>a. posts' = posts => Said' = Said BY DEF Said
<1>1. CASE Prepare BY <1>1, <1>a DEF Prepare, EarlyTrace
<1>2. CASE PrepareFails BY <1>2, <1>a DEF PrepareFails, EarlyTrace
<1>3. CASE NoContent BY <1>3, <1>a DEF NoContent, Skipped
<1>4. CASE Addressed BY <1>4, <1>a DEF Addressed
<1>5. CASE Consider BY <1>5, <1>a DEF Consider
<1>6. CASE AnalyzerAnswers BY <1>6, <1>a DEF AnalyzerAnswers
<1>7. CASE MatchUnaddressed
  <2>1. match' \in {"opened", "nothing"} /\ opened' \in BOOLEAN
    BY <1>7 DEF MatchUnaddressed
  <2>2. authority' \in {"none", "opening", "addressed"}
    BY <1>7, Zenon DEF MatchUnaddressed, Lendable
  <2> QED BY <1>7, <1>a, <2>1, <2>2 DEF MatchUnaddressed
<1>8. CASE Summoned BY <1>8, <1>a DEF Summoned, Decided
<1>9. CASE OpenedByTask BY <1>9, <1>a DEF OpenedByTask, Decided
<1>10. CASE NotAddressed BY <1>10, <1>a DEF NotAddressed, Decided, Skipped
<1>11. CASE Maintenance BY <1>11, <1>a DEF Maintenance
<1>12. CASE Load
  <2>1. turn.opener \in BOOLEAN BY DEF Turns
  <2>2. opened' \in BOOLEAN BY <1>12, <2>1 DEF Load, MatchAddressed
  <2>3. authority' \in {"none", "opening", "addressed"}
    BY <1>12, Zenon DEF Load, MatchAddressed, Lendable
  <2> QED BY <1>12, <1>a, <2>2, <2>3 DEF Load
<1>13. CASE LoadFails BY <1>13, <1>a DEF LoadFails
<1>14. CASE ToolRuns
  <2>1. calls' \in 0 .. MaxCalls BY <1>14, PipelineAssumption DEF ToolRuns
  <2>2. CASE posts' = posts BY <1>14, <1>a, <2>1, <2>2 DEF ToolRuns
  <2>3. CASE posts' = Append(posts, "tool")
    <3>1. /\ posts' \in Seq(Posted) /\ posts' # <<>>
          /\ Cardinality(Said') = Cardinality(Said) /\ Cardinality(Said) \in Nat
      BY <2>3, SaidGrows DEF Posted
    <3> QED BY <1>14, <2>1, <3>1 DEF ToolRuns, Posted
  <2> QED BY <1>14, <2>2, <2>3 DEF ToolRuns
<1>15. CASE ToolRefused
  <2>1. calls' \in 0 .. MaxCalls BY <1>15, PipelineAssumption DEF ToolRefused
  <2> QED BY <1>15, <1>a, <2>1 DEF ToolRefused
<1>16. CASE Overflow
  <2>1. window' \in 0 .. MaxWindow
    <3>1. window \in Nat /\ window \div 2 \in 0 .. window BY PipelineAssumption
    <3> QED BY <1>16, <3>1, PipelineAssumption DEF Overflow
  <2> QED BY <1>16, <1>a, <2>1 DEF Overflow
<1>17. CASE GenerationFails BY <1>17, <1>a DEF GenerationFails
<1>18. CASE Generated BY <1>18, <1>a DEF Generated
<1>19. CASE RetryDeliberation BY <1>19, <1>a DEF RetryDeliberation, AskAgain
<1>20. CASE SuppressDeliberation BY <1>20, <1>a DEF SuppressDeliberation, Suppress
<1>21. CASE RetryTask BY <1>21, <1>a DEF RetryTask, AskAgain
<1>22. CASE SuppressTask BY <1>22, <1>a DEF SuppressTask, Suppress
<1>23. CASE RetryClaim BY <1>23, <1>a DEF RetryClaim, AskAgain
<1>24. CASE SuppressClaim BY <1>24, <1>a DEF SuppressClaim, Suppress
<1>25. CASE Stand BY <1>25, <1>a DEF Stand, TaskIdle
<1>b. ASSUME pc \in {"speak", "send"}, posts' = Append(posts, note)
      PROVE  /\ posts' \in Seq(Posted) /\ posts' # <<>> /\ lost \in Nat
             /\ Cardinality(Said') = lost + 1
  <2>1. note \in Posted /\ note # "tool" BY <1>b DEF Posted
  <2> QED BY <1>b, <2>1, SaidGrows DEF Posted
<1>c. FailsToArrive =>
        /\ marked' \in BOOLEAN /\ failed' = TRUE
        /\ \/ UNCHANGED <<posts, lost, acted>>
           \/ posts' = Append(posts, note) /\ lost' = lost + 1 /\ acted' = TRUE
  BY Zenon DEF FailsToArrive
<1>26. CASE Speak
  <2>1. CASE Arrives /\ End("replied", "success")
    <3>1. posts' = Append(posts, note) /\ pc = "speak" BY <1>26, <2>1 DEF Speak, Arrives
    <3> QED BY <1>26, <2>1, <3>1, <1>b DEF Speak, Arrives, Posted
  <2>2. CASE FailsToArrive /\ pc' = "send" /\ UNCHANGED <<trace, outcome>>
    <3>1. CASE UNCHANGED <<posts, lost, acted>>
      BY <1>26, <2>2, <3>1, <1>a, <1>c DEF Speak
    <3>2. CASE posts' = Append(posts, note) /\ lost' = lost + 1 /\ acted' = TRUE
      BY <1>26, <2>2, <3>2, <1>b, <1>c DEF Speak, Posted
    <3> QED BY <2>2, <3>1, <3>2, <1>c
  <2>3. CASE pc' = "send" /\ UNCHANGED <<sent, trace, outcome>>
    BY <1>26, <2>3, <1>a DEF Speak
  <2> QED BY <1>26, <2>1, <2>2, <2>3 DEF Speak
<1>27. CASE SpeakUnmarked BY <1>27, <1>a DEF SpeakUnmarked
<1>28. CASE Send
  <2>1. posts' = Append(posts, note) /\ pc = "send" BY <1>28 DEF Send, Arrives
  <2> QED BY <1>28, <2>1, <1>b DEF Send, Arrives, Posted
<1>29. CASE SendFails
  <2>1. CASE UNCHANGED <<posts, lost, acted>>
    BY <1>29, <2>1, <1>a, <1>c DEF SendFails
  <2>2. CASE posts' = Append(posts, note) /\ lost' = lost + 1 /\ acted' = TRUE
    BY <1>29, <2>2, <1>b, <1>c DEF SendFails, Posted
  <2> QED BY <1>29, <2>1, <2>2, <1>c DEF SendFails
<1>30. CASE UNCHANGED vars BY <1>30, <1>a DEF vars
<1> QED
  BY <1>1, <1>2, <1>3, <1>4, <1>5, <1>6, <1>7, <1>8, <1>9, <1>10, <1>11, <1>12, <1>13, <1>14, <1>15,
     <1>16, <1>17, <1>18, <1>19, <1>20, <1>21, <1>22, <1>23, <1>24, <1>25, <1>26, <1>27, <1>28, <1>29, <1>30
     DEF Next

\* Every turn that ends said one thing, or one more for each send that was reported
\* failed and arrived; it was not silent, and its trace tells how it went; with the
\* types of every variable.
THEOREM TurnAccountedHolds == Spec => []TurnAccounted
<1>1. AccountInv => TurnAccounted BY DEF AccountInv, TurnAccounted
<1> QED BY <1>1, AccountInit, AccountStep, PTL DEF Spec

(***************************************************************************)
(* The retries of the judgements.                                          *)
(***************************************************************************)

\* Deliberation about to be sent, or sent, is the honesty gate's retry; the retry of
\* an idle turn is asked for only in a turn a task opened.
NotesInv ==
  /\ ask \in {"reply", "integrity", "enforce", "honesty"} /\ reply \in Texts
  /\ ask = "enforce" => task = TRUE
  /\ pc \in {"speak", "send"} /\ note = "answer" /\ reply = "notes" => ask = "honesty"
  /\ Answered /\ reply = "notes" => ask = "honesty"

LEMMA NotesInit == ASSUME Init PROVE NotesInv
<1>1. ~Answered BY DEF Init, Answered
<1> QED BY <1>1 DEF Init, NotesInv, Texts

LEMMA NotesStep == ASSUME AnswerInv, NotesInv, [Next]_vars PROVE NotesInv'
<1> USE DEF NotesInv, End, GoSend, GoError
<1>a. posts' = posts => (Answered' <=> Answered) BY DEF Answered
<1>b. pc \notin {"send", "done"} => ~Answered BY DEF AnswerInv
<1>1. CASE Prepare BY <1>1, <1>a, <1>b DEF Prepare
<1>2. CASE PrepareFails BY <1>2, <1>a, <1>b DEF PrepareFails
<1>3. CASE NoContent BY <1>3, <1>a, <1>b DEF NoContent
<1>4. CASE Addressed BY <1>4, <1>a, <1>b DEF Addressed
<1>5. CASE Consider BY <1>5, <1>a, <1>b DEF Consider
<1>6. CASE AnalyzerAnswers BY <1>6, <1>a, <1>b DEF AnalyzerAnswers
<1>7. CASE MatchUnaddressed BY <1>7, <1>a, <1>b DEF MatchUnaddressed
<1>8. CASE Summoned BY <1>8, <1>a, <1>b DEF Summoned, Decided
<1>9. CASE OpenedByTask BY <1>9, <1>a, <1>b DEF OpenedByTask, Decided
<1>10. CASE NotAddressed BY <1>10, <1>a, <1>b DEF NotAddressed, Decided
<1>11. CASE Maintenance BY <1>11, <1>a, <1>b DEF Maintenance
<1>12. CASE Load BY <1>12, <1>a, <1>b DEF Load
<1>13. CASE LoadFails BY <1>13, <1>a, <1>b DEF LoadFails
<1>14. CASE ToolRuns
  <2>1. ~Answered' BY <1>14, <1>b, ToolPosted DEF ToolRuns
  <2> QED BY <1>14, <2>1 DEF ToolRuns
<1>15. CASE ToolRefused BY <1>15, <1>a, <1>b DEF ToolRefused
<1>16. CASE Overflow BY <1>16, <1>a, <1>b DEF Overflow
<1>17. CASE GenerationFails BY <1>17, <1>a, <1>b DEF GenerationFails
<1>18. CASE Generated BY <1>18, <1>a, <1>b DEF Generated, Texts
<1>19. CASE RetryDeliberation BY <1>19, <1>a, <1>b DEF RetryDeliberation, AskAgain
<1>20. CASE SuppressDeliberation BY <1>20, <1>a, <1>b DEF SuppressDeliberation, Suppress
<1>21. CASE RetryTask BY <1>21, <1>a, <1>b DEF RetryTask, AskAgain, TaskIdle
<1>22. CASE SuppressTask BY <1>22, <1>a, <1>b DEF SuppressTask, Suppress
<1>23. CASE RetryClaim BY <1>23, <1>a, <1>b DEF RetryClaim, AskAgain
<1>24. CASE SuppressClaim BY <1>24, <1>a, <1>b DEF SuppressClaim, Suppress
<1>25. CASE Stand
  <2>1. /\ pc = "judging" /\ UNCHANGED <<posts, task, ask, reply>>
        /\ task # TRUE \/ (pc' = "done" /\ task = TRUE)
    BY <1>25 DEF Stand
  <2>2. reply = "notes" => ask \notin {"reply", "integrity"} BY <1>25 DEF Stand, Deliberation
  <2> QED BY <2>1, <2>2, <1>a, <1>b
<1>26. CASE Speak
  <2>1. Answered' => Answered \/ note = "answer"
    BY <1>26, <1>a, AnswerPosted DEF Speak
  <2> QED BY <1>26, <2>1 DEF Speak, AnswerInv
<1>27. CASE SpeakUnmarked BY <1>27, <1>a, <1>b DEF SpeakUnmarked
<1>28. CASE Send
  <2>1. Answered' => Answered \/ note = "answer" BY <1>28, AnswerPosted DEF Send
  <2> QED BY <1>28, <2>1 DEF Send
<1>29. CASE SendFails
  <2>1. Answered' => Answered \/ note = "answer" BY <1>29, AnswerPosted DEF SendFails
  <2> QED BY <1>29, <2>1 DEF SendFails
<1>30. CASE UNCHANGED vars BY <1>30, <1>a DEF vars
<1> QED BY <1>1, <1>2, <1>3, <1>4, <1>5, <1>6, <1>7, <1>8, <1>9, <1>10, <1>11, <1>12,
           <1>13, <1>14, <1>15, <1>16, <1>17, <1>18, <1>19, <1>20, <1>21, <1>22, <1>23,
           <1>24, <1>25, <1>26, <1>27, <1>28, <1>29, <1>30 DEF Next

LEMMA EnforcementStep ==
  ASSUME [Next]_vars, ask' # ask, ask' \in {"enforce", "honesty"} PROVE calls = 0
<1> USE DEF AskAgain, Suppress, End, GoSend, GoError
<1>1. CASE Prepare BY <1>1 DEF Prepare
<1>2. CASE PrepareFails BY <1>2 DEF PrepareFails
<1>3. CASE NoContent BY <1>3 DEF NoContent
<1>4. CASE Addressed BY <1>4 DEF Addressed
<1>5. CASE Consider BY <1>5 DEF Consider
<1>6. CASE AnalyzerAnswers BY <1>6 DEF AnalyzerAnswers
<1>7. CASE MatchUnaddressed BY <1>7 DEF MatchUnaddressed
<1>8. CASE Summoned BY <1>8 DEF Summoned
<1>9. CASE OpenedByTask BY <1>9 DEF OpenedByTask
<1>10. CASE NotAddressed BY <1>10 DEF NotAddressed
<1>11. CASE Maintenance BY <1>11 DEF Maintenance
<1>12. CASE Load BY <1>12 DEF Load
<1>13. CASE LoadFails BY <1>13 DEF LoadFails
<1>14. CASE ToolRuns BY <1>14 DEF ToolRuns
<1>15. CASE ToolRefused BY <1>15 DEF ToolRefused
<1>16. CASE Overflow BY <1>16 DEF Overflow
<1>17. CASE GenerationFails BY <1>17 DEF GenerationFails
<1>18. CASE Generated BY <1>18 DEF Generated
<1>19. CASE RetryDeliberation BY <1>19 DEF RetryDeliberation
<1>20. CASE SuppressDeliberation BY <1>20 DEF SuppressDeliberation
<1>21. CASE RetryTask BY <1>21 DEF RetryTask, TaskIdle
<1>22. CASE SuppressTask BY <1>22 DEF SuppressTask
<1>23. CASE RetryClaim BY <1>23 DEF RetryClaim, Gated
<1>24. CASE SuppressClaim BY <1>24 DEF SuppressClaim
<1>25. CASE Stand BY <1>25 DEF Stand
<1>26. CASE Speak BY <1>26 DEF Speak
<1>27. CASE SpeakUnmarked BY <1>27 DEF SpeakUnmarked
<1>28. CASE Send BY <1>28 DEF Send
<1>29. CASE SendFails BY <1>29 DEF SendFails
<1>30. CASE UNCHANGED vars BY <1>30 DEF vars
<1> QED BY <1>1, <1>2, <1>3, <1>4, <1>5, <1>6, <1>7, <1>8, <1>9, <1>10, <1>11, <1>12,
           <1>13, <1>14, <1>15, <1>16, <1>17, <1>18, <1>19, <1>20, <1>21, <1>22, <1>23,
           <1>24, <1>25, <1>26, <1>27, <1>28, <1>29, <1>30 DEF Next

\* The retries are harmless: deliberation reaches the chat only as the text of the
\* honesty gate's retry, and the two retries that offer the tools again run only in
\* a turn that called none.
THEOREM RetriesHarmless == Spec => []NotesOnlyFromTheGate /\ EnforcementRepeatsNothing
<1>1. NotesInv => NotesOnlyFromTheGate
  BY Zenon DEF NotesInv, Answered, NotesOnlyFromTheGate
<1>2. [Next]_vars => [ask' # ask /\ ask' \in {"enforce", "honesty"} => calls = 0]_vars
  BY EnforcementStep
<1> QED
  BY <1>1, <1>2, AnswerInit, AnswerStep, NotesInit, NotesStep, PTL
  DEF Spec, EnforcementRepeatsNothing

-----------------------------------------------------------------------------
\* What a chat sees of work under way (RunAcks, TypingLoops).

\* Messages are sent one after another; what an entry names or is being deleted is in the
\* chat, under an id the turn learned; it learns one, and is over.
AcksTypes ==
  /\ saying \in {"answer", "notice", "over"}
  /\ sending \in Nat /\ sending \in Chunks \cup {0} /\ open \in 0 .. sending
  /\ run \in {"on", "over", "taken"} /\ entry \in {"none", "ids", "settled"}
  /\ entry = "ids" <=> ids # {}
  /\ deleting \cup ids \subseteq standing \cap named
  /\ standing \cup named \subseteq 1 .. sending
  /\ ids \cap deleting = {}
  /\ open # 0 => open \in standing
  /\ IF saying = "over" THEN open = 0 ELSE named = {}

\* Until something excuses it, a message of a known id is in the entry, being deleted or
\* refused; the run takes the entry there is, or leaves the marker for the turn.
AcksKept ==
  ~excused =>
    /\ standing \cap named \subseteq refused \cup ids \cup deleting
    /\ IF run = "taken" THEN ids = {} /\ (saying # "over" => entry = "settled")
       ELSE deleting = {} /\ named \subseteq standing /\ entry # "settled"

AcksInv == AcksTypes /\ AcksKept

\* Nothing is sent at first.
LEMMA InitAcks == RA!Init => AcksInv
BY DEF RA!Init, AcksInv, AcksTypes, AcksKept

\* The turn and the run keep the books of the acknowledgement.
LEMMA NextAcks == AcksInv /\ [RA!Next]_(RA!ackVars) => AcksInv'
<1> SUFFICES ASSUME AcksInv, [RA!Next]_(RA!ackVars) PROVE AcksTypes' /\ AcksKept'
  BY DEF AcksInv
<1> USE DEF AcksInv, RA!runVars
<1>1. CASE RA!Send
  <2>1. /\ sending' = sending + 1 /\ standing' = standing \cup {sending + 1}
        /\ open' = IF open = 0 THEN sending + 1 ELSE open
        /\ sending + 1 \in Chunks /\ saying # "over"
        /\ UNCHANGED <<saying, run, entry, ids, deleting, named, refused, excused>>
    BY <1>1 DEF RA!Send
  <2>2. AcksTypes'
    BY <2>1, SignsAssumption DEF AcksTypes
  <2>3. named = {} /\ ids = {} /\ deleting = {}
    BY <2>1 DEF AcksTypes
  <2>4. AcksKept'
    BY <2>1, <2>3 DEF AcksKept
  <2> QED  BY <2>2, <2>4
<1>2. CASE RA!Register
  <2>1. open # 0 /\ open \in standing /\ named = {} /\ ids = {} /\ deleting = {} /\ entry # "ids"
    BY <1>2 DEF RA!Register, AcksTypes
  <2>2. CASE entry = "settled"
    <3>1. AcksTypes'
      BY <1>2, <2>1, <2>2 DEF RA!Register, AcksTypes
    <3>2. AcksKept'
      BY <1>2, <2>1, <2>2 DEF RA!Register, AcksKept, AcksTypes
    <3> QED  BY <3>1, <3>2
  <2>3. CASE entry # "settled"
    <3>1. AcksTypes'
      BY <1>2, <2>1, <2>3 DEF RA!Register, AcksTypes
    <3>2. ~excused => run # "taken"
      BY <1>2, <2>1, <2>3 DEF AcksKept, AcksTypes
    <3>3. AcksKept'
      BY <1>2, <2>1, <2>3, <3>2 DEF RA!Register, AcksKept, AcksTypes
    <3> QED  BY <3>1, <3>3
  <2> QED  BY <2>2, <2>3
<1>3. CASE RA!SendFails \/ RA!Speak \/ RA!SaysNothing
  <2>1. CASE RA!SendFails
    BY <2>1 DEF RA!SendFails, AcksTypes, AcksKept
  <2>2. CASE RA!SaysNothing
    BY <2>2 DEF RA!SaysNothing, AcksTypes, AcksKept
  <2>3. CASE RA!Speak
    <3>1. /\ sending = 0 /\ sending' = 1 /\ 1 \in Chunks /\ standing' = {1} /\ saying' = "over"
          /\ UNCHANGED <<open, run, entry, ids, deleting, named, refused, excused>>
          /\ saying # "over"
      BY <2>3 DEF RA!Speak
    <3>2. named = {} /\ ids = {} /\ deleting = {} /\ open = 0
      BY <3>1 DEF AcksTypes
    <3>3. AcksTypes'
      BY <3>1, <3>2 DEF AcksTypes
    <3>4. AcksKept'
      BY <3>1, <3>2 DEF AcksKept
    <3> QED  BY <3>3, <3>4
  <2> QED  BY <1>3, <2>1, <2>2, <2>3
<1>4. CASE RA!RunReports \/ RA!RunBails \/ RA!Sweep
  <2>1. CASE RA!RunReports
    BY <2>1 DEF RA!RunReports, AcksTypes, AcksKept
  <2>2. CASE RA!RunBails
    BY <2>2 DEF RA!RunBails, AcksTypes, AcksKept
  <2>3. CASE RA!Sweep
    BY <2>3 DEF RA!Sweep, AcksTypes, AcksKept
  <2> QED  BY <1>4, <2>1, <2>2, <2>3
<1>5. CASE RA!Take
  <2>1. CASE ids # {}
    <3>1. saying = "over"
      BY <2>1 DEF AcksTypes
    <3> QED  BY <1>5, <2>1, <3>1 DEF RA!Take, AcksTypes, AcksKept
  <2>2. CASE ids = {}
    BY <1>5, <2>2 DEF RA!Take, AcksTypes, AcksKept
  <2> QED  BY <2>1, <2>2
<1>6. ASSUME NEW c \in Chunks, RA!Delete(c) PROVE AcksTypes' /\ AcksKept'
  <2>1. AcksTypes'
    BY <1>6 DEF RA!Delete, AcksTypes
  <2>2. AcksKept'
    BY <1>6 DEF RA!Delete, AcksTypes, AcksKept
  <2> QED  BY <2>1, <2>2
<1>7. CASE RA!Restart
  BY <1>7 DEF RA!Restart, AcksTypes, AcksKept
<1>8. CASE UNCHANGED RA!ackVars
  BY <1>8 DEF RA!ackVars, AcksTypes, AcksKept
<1> QED  BY <1>1, <1>2, <1>3, <1>4, <1>5, <1>6, <1>7, <1>8 DEF RA!Next

\* When both are over, what is left of what the turn could name is what the platform refused.
LEMMA AcksTell == AcksInv => RA!AckTypeOK /\ RA!NoAckStands
<1> SUFFICES ASSUME AcksInv PROVE RA!AckTypeOK /\ RA!NoAckStands
  OBVIOUS
<1>1. RA!AckTypeOK
  BY DEF AcksInv, AcksTypes, RA!AckTypeOK
<1>2. RA!NoAckStands
  BY DEF AcksInv, AcksTypes, AcksKept, RA!NoAckStands
<1> QED  BY <1>1, <1>2

\* One turn of the chat runs at a time; only one that runs has asked for the indicator,
\* and then its message has a loop; a loop belongs to a turn that is not settled.
TypingInv ==
  /\ phase \in [TypingTurns -> {"queued", "running", "delayed", "settled", "lost"}]
  /\ typing \in [TypingTurns -> BOOLEAN] /\ loop \in [Messages -> TypingTurns \cup {0}]
  /\ \A t \in TypingTurns : typing[t] => phase[t] = "running" /\ loop[messageOf[t]] # 0
  /\ \A t, u \in TypingTurns : phase[t] = "running" /\ phase[u] = "running" => t = u
  /\ \A m \in Messages : loop[m] # 0 =>
       messageOf[loop[m]] = m /\ phase[loop[m]] \in {"running", "delayed", "lost"}

\* No turn runs at first, and no loop.
LEMMA InitTyping == TY!Init => TypingInv
BY SignsAssumption DEF TY!Init, TypingInv, TY!NoLoop

\* The turns and the loops keep step.
LEMMA NextTyping == TypingInv /\ [TY!Next]_(TY!typingVars) => TypingInv'
<1> SUFFICES ASSUME TypingInv, [TY!Next]_(TY!typingVars) PROVE TypingInv'
  OBVIOUS
<1> USE SignsAssumption DEF TypingInv, TY!NoLoop
<1>1. ASSUME NEW t \in TypingTurns, TY!Begin(t) PROVE TypingInv'
  BY <1>1 DEF TY!Begin
<1>2. ASSUME NEW t \in TypingTurns, TY!Accepted(t) \/ TY!Progress(t) PROVE TypingInv'
  <2>1. phase' = phase /\ phase[t] = "running" /\ loop' = TY!start(t)
    BY <1>2 DEF TY!Accepted, TY!Progress
  <2>2. typing' \in [TypingTurns -> BOOLEAN]
        /\ \A u \in TypingTurns : u # t => typing'[u] = typing[u]
    <3>1. CASE TY!Accepted(t)
      BY <3>1 DEF TY!Accepted
    <3>2. CASE TY!Progress(t)
      BY <3>2 DEF TY!Progress
    <3> QED  BY <1>2, <3>1, <3>2
  <2>3. CASE loop[messageOf[t]] = 0
    <3>1. loop' = [loop EXCEPT ![messageOf[t]] = t] /\ t # 0
      BY <2>1, <2>3 DEF TY!start
    <3>2. loop' \in [Messages -> TypingTurns \cup {0}] /\ loop'[messageOf[t]] = t
          /\ \A m \in Messages : m # messageOf[t] => loop'[m] = loop[m]
      BY <3>1
    <3> QED  BY <2>1, <2>2, <2>3, <3>1, <3>2
  <2>4. CASE loop[messageOf[t]] # 0
    <3>1. loop' = loop
      BY <2>1, <2>4 DEF TY!start
    <3> QED  BY <2>1, <2>2, <2>4, <3>1
  <2> QED  BY <2>3, <2>4
<1>3. ASSUME NEW t \in TypingTurns, TY!Settled(t) PROVE TypingInv'
  BY <1>3 DEF TY!Settled, TY!stop
<1>4. ASSUME NEW t \in TypingTurns, TY!Retried(t) \/ TY!RetryLost(t) PROVE TypingInv'
  <2>1. typing' = [typing EXCEPT ![t] = FALSE] /\ loop' = loop /\ phase[t] = "running"
    BY <1>4 DEF TY!Retried, TY!RetryLost, TY!MayRetry
  <2>2. PICK p \in {"delayed", "lost"} : phase' = [phase EXCEPT ![t] = p]
    BY <1>4 DEF TY!Retried, TY!RetryLost
  <2>3. \A u \in TypingTurns : typing'[u] => typing[u] /\ u # t
    BY <2>1
  <2>4. phase'[t] = p /\ \A u \in TypingTurns : u # t => phase'[u] = phase[u]
    BY <2>2
  <2>5. /\ phase' \in [TypingTurns -> {"queued", "running", "delayed", "settled", "lost"}]
        /\ typing' \in [TypingTurns -> BOOLEAN]
    BY <2>1, <2>2
  <2>6. /\ \A u \in TypingTurns : typing'[u] => phase'[u] = "running" /\ loop'[messageOf[u]] # 0
        /\ \A u, v \in TypingTurns : phase'[u] = "running" /\ phase'[v] = "running" => u = v
    BY <2>1, <2>3, <2>4
  <2>7. \A m \in Messages : loop'[m] # 0 =>
          messageOf[loop'[m]] = m /\ phase'[loop'[m]] \in {"running", "delayed", "lost"}
    <3> SUFFICES ASSUME NEW m \in Messages, loop[m] # 0
                 PROVE  messageOf[loop[m]] = m
                        /\ phase'[loop[m]] \in {"running", "delayed", "lost"}
      BY <2>1
    <3>1. loop[m] \in TypingTurns
      OBVIOUS
    <3> QED  BY <2>4, <3>1
  <2> QED  BY <2>1, <2>5, <2>6, <2>7
<1>5. CASE UNCHANGED TY!typingVars
  BY <1>5 DEF TY!typingVars
<1> QED  BY <1>1, <1>2, <1>3, <1>4, <1>5 DEF TY!Next

\* The indicator is shown for the turns that run.
LEMMA TypingTells == TypingInv => TY!TypingFollowsTurns
BY SignsAssumption
   DEF TypingInv, TY!TypingFollowsTurns, TY!LoopEndsWithTurn, TY!AnswererTypes, TY!NoLoop

-----------------------------------------------------------------------------
\* The collection (Collection).
\* A set of numbers that is not empty has a least element.
LEMMA Least ==
  ASSUME NEW T, T \subseteq Nat, T # {}
  PROVE  \E x \in T : \A y \in T : x <= y
<1> DEFINE R == OpToRel(<, Nat)
<1>1. \A x, y \in Nat : y < x => <<y, x>> \in R
  <2>1. R = {p \in Nat \X Nat : p[1] < p[2]}
    BY Zenon DEF OpToRel
  <2> HIDE DEF R
  <2> QED BY <2>1
<1>2. IsWellFoundedOn(R, Nat)
  BY Zenon, NatLessThanWellFounded
<1> HIDE DEF R
<1>3. PICK x \in T : \A y \in T : ~ (<<y, x>> \in R)
  BY <1>2, WFMin, Zenon
<1>4. \A y \in T : x <= y
  <2> TAKE y \in T
  <2>1. x \in Nat /\ y \in Nat
    OBVIOUS
  <2>2. ~ (y < x)
    BY <1>1, <1>3, <2>1, Zenon
  <2> QED  BY <2>1, <2>2
<1> QED BY <1>4

\* The places of an order: Before numbers the
\* members of a finite set of numbers from 0 on.

\* The counts of Collection are those of the finite sets.
LEMMA RowCardinality == \A S : CO!Cardinality(S) = Cardinality(S)
BY DEF CO!Cardinality, Cardinality

LEMMA BeforeCounts == \A S, i : CO!Before(S, i) = Cardinality({j \in S : j < i})
BY RowCardinality DEF CO!Before

\* What comes before a member are fewer than all, and fewer than before a later one.
LEMMA BeforeBounds ==
  ASSUME NEW S, S \subseteq Nat, IsFiniteSet(S)
  PROVE  /\ Cardinality(S) \in Nat
         /\ \A i \in S : CO!Before(S, i) \in 0 .. Cardinality(S) - 1
         /\ \A i, j \in S : i < j => CO!Before(S, i) < CO!Before(S, j)
<1>1. Cardinality(S) \in Nat
  BY FS_CardinalityType
<1>2. ASSUME NEW T, NEW U, T \subseteq U, U \subseteq S, U # T
      PROVE  Cardinality(T) \in Nat /\ Cardinality(U) \in Nat /\ Cardinality(T) < Cardinality(U)
  <2>1. IsFiniteSet(U) /\ Cardinality(U) \in Nat
    BY <1>2, FS_Subset, FS_CardinalityType
  <2>2. IsFiniteSet(T) /\ Cardinality(T) \in Nat
    BY <1>2, <2>1, FS_Subset, FS_CardinalityType
  <2>3. Cardinality(T) <= Cardinality(U) /\ Cardinality(T) # Cardinality(U)
    BY <1>2, <2>1, FS_Subset
  <2> QED  BY <2>1, <2>2, <2>3
<1>3. ASSUME NEW i \in S PROVE CO!Before(S, i) \in 0 .. Cardinality(S) - 1
  <2> DEFINE T == {j \in S : j < i}
  <2>1. T \subseteq S /\ i \notin T
    OBVIOUS
  <2>2. Cardinality(T) \in Nat /\ Cardinality(T) < Cardinality(S)
    BY <1>2, <2>1
  <2>3. CO!Before(S, i) = Cardinality(T)
    BY BeforeCounts
  <2> HIDE DEF T
  <2> QED  BY <1>1, <2>2, <2>3
<1>4. ASSUME NEW i \in S, NEW j \in S, i < j PROVE CO!Before(S, i) < CO!Before(S, j)
  <2> DEFINE T == {l \in S : l < i}
  <2> DEFINE U == {l \in S : l < j}
  <2>1. U \subseteq S /\ i \in U /\ i \notin T
    BY <1>4
  <2>3. T \subseteq U
    <3> SUFFICES ASSUME NEW l \in S, l < i PROVE l < j
      OBVIOUS
    <3>1. l \in Nat /\ i \in Nat /\ j \in Nat
      OBVIOUS
    <3> QED  BY <1>4, <3>1
  <2>2. Cardinality(T) < Cardinality(U)
    BY <1>2, <2>1, <2>3
  <2>4. CO!Before(S, i) = Cardinality(T) /\ CO!Before(S, j) = Cardinality(U)
    BY BeforeCounts
  <2> HIDE DEF T, U
  <2> QED  BY <2>2, <2>4
<1> QED  BY <1>1, <1>3, <1>4

\* Each place has one member.
LEMMA EachPlace ==
  ASSUME NEW S, S \subseteq Nat, IsFiniteSet(S)
  PROVE  /\ \A i, j \in S : CO!Before(S, i) = CO!Before(S, j) => i = j
         /\ \A n \in 0 .. Cardinality(S) - 1 : \E i \in S : CO!Before(S, i) = n
<1> DEFINE places == 0 .. Cardinality(S) - 1
<1> DEFINE f == [i \in S |-> CO!Before(S, i)]
<1>1. Cardinality(S) \in Nat /\ f \in [S -> places]
  BY BeforeBounds
<1>2. \A i, j \in S : CO!Before(S, i) = CO!Before(S, j) => i = j
  <2> SUFFICES ASSUME NEW i \in S, NEW j \in S, CO!Before(S, i) = CO!Before(S, j) PROVE i = j
    OBVIOUS
  <2>1. i \in Nat /\ j \in Nat /\ CO!Before(S, i) \in Nat
    BY <1>1
  <2>2. \A x, y \in S : x < y => CO!Before(S, x) < CO!Before(S, y)
    BY BeforeBounds, Zenon
  <2>3. ~ (i < j) /\ ~ (j < i)
    BY <2>1, <2>2
  <2> QED  BY <2>1, <2>3
<1>3. f \in Injection(S, places)
  BY <1>1, <1>2 DEF Injection, IsInjective
<1>4. IsFiniteSet(places) /\ Cardinality(places) = Cardinality(S)
  <2> DEFINE last == Cardinality(S) - 1
  <2>1. last \in Int /\ (0 > last => Cardinality(S) = 0) /\ last - 0 + 1 = Cardinality(S)
    BY <1>1
  <2> HIDE DEF last
  <2>2. IsFiniteSet(0 .. last) /\ Cardinality(0 .. last) = IF 0 > last THEN 0 ELSE last - 0 + 1
    BY <2>1, FS_Interval
  <2> QED  BY <2>1, <2>2 DEF last
<1>5. f \in Surjection(S, places)
  <2> HIDE DEF f, places
  <2> QED  BY <1>3, <1>4, FS_Injection
<1>6. \A n \in places : \E i \in S : f[i] = n
  <2> HIDE DEF f, places
  <2> QED  BY <1>5 DEF Surjection
<1> QED  BY <1>2, <1>6

\* The n-th member is one, and no two places have the same.
LEMMA NthMember ==
  ASSUME NEW S, S \subseteq Nat, IsFiniteSet(S), NEW n \in 1 .. Cardinality(S)
  PROVE  CO!Nth(S, n) \in S /\ CO!Before(S, CO!Nth(S, n)) = n - 1
<1>1. Cardinality(S) \in Nat
  BY BeforeBounds
<1>2. n - 1 \in 0 .. Cardinality(S) - 1
  BY <1>1
<1>3. \E i \in S : CO!Before(S, i) = n - 1
  BY <1>2, EachPlace
<1> QED  BY <1>3 DEF CO!Nth

\* The first n are n at most, and none if n is not positive.
LEMMA FirstMembers ==
  ASSUME NEW S, S \subseteq Nat, IsFiniteSet(S), NEW n \in Int
  PROVE  /\ IsFiniteSet(CO!First(S, n)) /\ Cardinality(CO!First(S, n)) \in Nat
         /\ n >= 0 => Cardinality(CO!First(S, n)) <= n
         /\ n <= 0 => CO!First(S, n) = {}
<1> DEFINE F == CO!First(S, n)
<1>1. F \subseteq S
  BY DEF CO!First
<1>2. IsFiniteSet(F) /\ Cardinality(F) \in Nat
  BY <1>1, FS_Subset, FS_CardinalityType
<1>3. \A i \in F : CO!Before(S, i) \in Nat /\ CO!Before(S, i) < n
  <2>1. \A i \in F : i \in S /\ CO!Before(S, i) < n
    BY DEF CO!First
  <2>2. \A i \in S : CO!Before(S, i) \in Nat
    <3>1. \A i \in S : CO!Before(S, i) \in 0 .. Cardinality(S) - 1
      BY BeforeBounds, Zenon
    <3> QED  BY <3>1
  <2> QED  BY <2>1, <2>2
<1>4. ASSUME n >= 0 PROVE Cardinality(F) <= n
  <2> DEFINE f == [i \in F |-> CO!Before(S, i)]
  <2>1. \A i \in F : CO!Before(S, i) \in 0 .. n - 1
    BY <1>3, <1>4
  <2>5. f \in [F -> 0 .. n - 1]
    BY <2>1
  <2>2. \A i, j \in F : CO!Before(S, i) = CO!Before(S, j) => i = j
    BY <1>1, EachPlace
  <2>3. f \in Injection(F, 0 .. n - 1)
    BY <2>2, <2>5 DEF Injection, IsInjective
  <2>4. IsFiniteSet(0 .. n - 1) /\ Cardinality(0 .. n - 1) = n
    BY <1>4, FS_Interval
  <2> HIDE DEF f, F
  <2> QED  BY <2>3, <2>4, FS_Injection
<1>5. ASSUME n <= 0 PROVE F = {}
  BY <1>3, <1>5
<1> QED  BY <1>2, <1>4, <1>5

\* A page that is not full is the last.
LEMMA LastPage ==
  ASSUME NEW S, S \subseteq Nat, IsFiniteSet(S), NEW o \in Nat, NEW p \in Nat \ {0},
         Cardinality(CO!First(S, o + p) \ CO!First(S, o)) < p
  PROVE  \A i \in S : CO!Before(S, i) < o + p
<1> DEFINE F == CO!First(S, o + p) \ CO!First(S, o)
<1> SUFFICES ASSUME NEW i \in S, ~ (CO!Before(S, i) < o + p) PROVE FALSE
  OBVIOUS
<1>1. Cardinality(S) \in Nat /\ \A j \in S : CO!Before(S, j) \in 0 .. Cardinality(S) - 1
  BY BeforeBounds
<1>2. Cardinality(S) > o + p
  BY <1>1
<1>3. F \subseteq S /\ \A j \in S : j \in F <=> CO!Before(S, j) < o + p /\ ~ (CO!Before(S, j) < o)
  BY DEF CO!First
<1> DEFINE f == [j \in F |-> CO!Before(S, j)]
<1>4. f \in [F -> o .. o + p - 1]
  <2>1. ASSUME NEW j \in S, CO!Before(S, j) < o + p, ~ (CO!Before(S, j) < o)
        PROVE  CO!Before(S, j) \in o .. o + p - 1
    BY <1>1, <2>1
  <2>2. \A j \in F : CO!Before(S, j) \in o .. o + p - 1
    BY <1>3, <2>1
  <2> HIDE DEF F
  <2> QED  BY <2>2
<1>5. ASSUME NEW n \in o .. o + p - 1 PROVE \E j \in F : CO!Before(S, j) = n
  <2>1. n \in 0 .. Cardinality(S) - 1
    BY <1>1, <1>2
  <2>2. PICK j \in S : CO!Before(S, j) = n
    BY <2>1, EachPlace
  <2> QED  BY <1>3, <2>2
<1>6. f \in Surjection(F, o .. o + p - 1)
  BY <1>4, <1>5 DEF Surjection
<1>7. IsFiniteSet(F) /\ Cardinality(F) \in Nat
  BY <1>3, FS_Subset, FS_CardinalityType
<1>8. Cardinality(o .. o + p - 1) = p
  BY FS_Interval
<1>9. Cardinality(o .. o + p - 1) <= Cardinality(F)
  <2> HIDE DEF f, F
  <2> QED  BY <1>6, <1>7, FS_Surjection
<1> QED  BY <1>7, <1>8, <1>9

\* The last of some numbers, if they are bounded.
LEMMA LastOf ==
  ASSUME NEW S, NEW n \in Nat, S \subseteq 1 .. n, S # {}
  PROVE  (CHOOSE j \in S : \A l \in S : l <= j) \in S
<1> DEFINE T == {n - l : l \in S}
<1>1. T \subseteq Nat /\ T # {}
  <2>1. \A l \in 1 .. n : n - l \in Nat
    OBVIOUS
  <2> QED  BY <2>1
<1> HIDE DEF T
<1>2. PICK x \in T : \A y \in T : x <= y
  BY <1>1, Least
<1>3. PICK j \in S : x = n - j
  BY DEF T
<1>4. \A l \in S : n - l \in T
  BY DEF T
<1>5. \A l \in S : l <= j
  <2> TAKE l \in S
  <2>1. n - j <= n - l
    BY <1>2, <1>3, <1>4
  <2> QED  BY <2>1
<1> QED  BY <1>5

\* A row, and a filled record of a document with its key.
IsRow(w) ==
  /\ w = [key |-> w.key, values |-> w.values, complete |-> w.complete, vector |-> w.vector]
  /\ DOMAIN w.values \subseteq Columns

IsRecord(s, values) ==
  DOMAIN values = s.cols /\ CO!keyValueOf(s, values) # CO!Empty

\* Every row has its own key.
RowsShape ==
  /\ shape \in Shapes /\ born \in Nat /\ made \in 0 .. MaxRequests /\ breaks \in 0 .. MaxFaults
  /\ torn \in BOOLEAN /\ crowded \in BOOLEAN
  /\ \A i \in DOMAIN rows : i \in 1 .. born /\ IsRow(rows[i])
  /\ \A i, j \in DOMAIN rows : rows[i].key = rows[j].key => i = j
  /\ \A k \in DOMAIN told : DOMAIN told[k] = Columns
  /\ DOMAIN requests = CO!Slots

\* What a request holds agrees with itself.
AskedOne(r) ==
  /\ r.shape \in Shapes /\ r.key # CO!Empty /\ DOMAIN r.given \subseteq r.shape.cols
  /\ CO!keyValueOf(r.shape, r.values) = r.key

AskedChange(r) ==
  /\ r = [op |-> "columns", shape |-> r.shape, to |-> r.to, offset |-> r.offset,
          page |-> r.page, last |-> r.last]
  /\ r.shape \in Shapes /\ r.to \in Shapes /\ r.offset \in Nat
  /\ \A i \in DOMAIN r.page : IsRow(r.page[i])

AskedImport(r) ==
  /\ r = [op |-> "import", shape |-> r.shape, left |-> r.left, inserts |-> r.inserts,
          updates |-> r.updates, seen |-> r.seen, room |-> r.room]
  /\ r.shape \in Shapes
  /\ DOMAIN r.left \subseteq Nat /\ IsFiniteSet(DOMAIN r.left)
  /\ DOMAIN r.inserts \subseteq Nat /\ IsFiniteSet(DOMAIN r.inserts)
  /\ \A n \in DOMAIN r.left : IsRecord(r.shape, r.left[n])
  /\ \A n \in DOMAIN r.inserts : IsRecord(r.shape, r.inserts[n])
  /\ \A m, n \in DOMAIN r.left :
       CO!keyValueOf(r.shape, r.left[m]) = CO!keyValueOf(r.shape, r.left[n]) => m = n
  /\ \A m, n \in DOMAIN r.inserts :
       CO!keyValueOf(r.shape, r.inserts[m]) = CO!keyValueOf(r.shape, r.inserts[n]) => m = n
  /\ \A n \in DOMAIN r.updates :
       LET u == r.updates[n]
       IN /\ IsRecord(r.shape, u.given) /\ IsRow(u.was)
          /\ u.was.key = CO!keyValueOf(r.shape, u.given)
          /\ u.values = CO!Fill(u.was.values, u.given)

Asked(r) ==
  /\ r.op \in {"idle", "insert", "update", "edit", "remove", "columns", "import"}
  /\ r.op = "insert" => AskedOne(r) /\ r.values = CO!normalizeValues(r.shape, r.given)
  /\ r.op \in {"update", "edit"} =>
       /\ AskedOne(r) /\ IsRow(r.was) /\ r.values = CO!Merge(r.was.values, r.given)
       /\ r.op = "update" => r.was.key = r.key
  /\ r.op = "columns" => AskedChange(r)
  /\ r.op = "import" => AskedImport(r)

\* What an insert counted on, among the first b rows.
Counted(r, b) ==
  /\ r.op = "insert" => r.seen \subseteq 1 .. b /\ Cardinality(r.seen) < MaxRows
  /\ r.op = "import" =>
       /\ r.seen \subseteq 1 .. b /\ r.room \in Int
       /\ DOMAIN r.inserts # {} => r.room >= 0
       /\ r.room >= 0 =>
            Cardinality(r.seen) + Cardinality(DOMAIN r.inserts) + r.room <= MaxRows

RequestsInv == \A s \in CO!Slots : Asked(requests[s]) /\ Counted(requests[s], born)

\* A column change has passed a row that its pages came to and that it has written; the
\* cells of the columns that go are dropped there.
Changes(s) == requests[s].op = "columns"
Reached(s, i) == CO!Before(DOMAIN rows, i) < requests[s].offset
Passed(s, i) == Changes(s) /\ Reached(s, i) /\ i \notin DOMAIN requests[s].page
Dropped(i, c) == \E s \in CO!Slots : Passed(s, i) /\ c \notin requests[s].to.cols

VectorOf(w) ==
  w.vector # CO!NoVector => \A c \in DOMAIN w.values :
    w.values[c] # CO!Empty => CO!cell(w.vector, c) = w.values[c]

\* A row that no stale copy was written to holds the cells last told, but for those a
\* column change has dropped; it goes by its key column, and its vector is of its cells.
\* The column changes under way keep its key column, pass it before they end, and found
\* no cell of it empty that has been filled since.
Sound(i) ==
  /\ \A c \in Columns : CO!cell(rows[i].values, c) =
                          IF Dropped(i, c) THEN CO!Empty
                          ELSE CO!cell(told[rows[i].key], c)
  /\ rows[i].key = CO!cell(rows[i].values, shape.key)
  /\ VectorOf(rows[i])

Spared(s, i) ==
  /\ requests[s].to.key = shape.key
  /\ requests[s].last => Reached(s, i)
  /\ i \in DOMAIN requests[s].page =>
       /\ Reached(s, i)
       /\ \A c \in Columns : CO!cell(requests[s].page[i].values, c) = CO!Empty =>
                              CO!cell(rows[i].values, c) = CO!Empty

Fresh(i) == rows[i].key \notin raced

ToldInv ==
  /\ CO!keys \ raced = DOMAIN told \ raced
  /\ \A i \in DOMAIN rows : Fresh(i) =>
       Sound(i) /\ \A s \in CO!Slots : Changes(s) => Spared(s, i)

\* The flags, unless a column change is torn: while one runs it is the only one, nothing
\* was written beside it, and the rows it has passed have the flag of the columns to come.
Flagged(s, i) == rows[i].complete = CO!isComplete(s, rows[i].values)

FlagsInv ==
  ~torn =>
    /\ (\A s \in CO!Slots : ~Changes(s)) => \A i \in DOMAIN rows : Flagged(shape, i)
    /\ \A s \in CO!Slots : Changes(s) =>
         /\ \A t \in CO!Slots : Changes(t) => t = s
         /\ requests[s].shape = shape
         /\ \A i \in DOMAIN requests[s].page : i \in DOMAIN rows /\ requests[s].page[i] = rows[i]
         /\ \A i \in DOMAIN rows :
              /\ Passed(s, i) => Flagged(requests[s].to, i)
              /\ requests[s].last => Reached(s, i)

CollectionInv == RowsShape /\ RequestsInv /\ ToldInv /\ FlagsInv /\ CO!RoomKept

\* The cells of a merge, of a filling and of a normal record.
LEMMA MergedCells ==
  ASSUME NEW f, NEW g
  PROVE  /\ DOMAIN CO!Merge(f, g) = DOMAIN f \cup DOMAIN g
         /\ \A c : CO!cell(CO!Merge(f, g), c) =
                     IF c \in DOMAIN g THEN CO!cell(g, c) ELSE CO!cell(f, c)
BY DEF CO!Merge, CO!cell

LEMMA FilledCells ==
  ASSUME NEW f, NEW g
  PROVE  /\ DOMAIN CO!Fill(f, g) \subseteq DOMAIN f \cup DOMAIN g
         /\ DOMAIN f \subseteq DOMAIN CO!Fill(f, g)
         /\ \A c : CO!cell(CO!Fill(f, g), c) =
                     IF CO!cell(g, c) # CO!Empty THEN CO!cell(g, c) ELSE CO!cell(f, c)
<1> DEFINE h == [c \in {d \in DOMAIN g : g[d] # CO!Empty} |-> g[c]]
<1>1. DOMAIN h = {d \in DOMAIN g : g[d] # CO!Empty} /\ \A c \in DOMAIN h : h[c] = g[c]
  OBVIOUS
<1>2. CO!Fill(f, g) = CO!Merge(f, h)
  BY DEF CO!Fill
<1> HIDE DEF h
<1>3. \A c : c \in DOMAIN h <=> CO!cell(g, c) # CO!Empty
  BY <1>1 DEF CO!cell
<1>4. \A c \in DOMAIN h : CO!cell(h, c) = CO!cell(g, c)
  BY <1>1 DEF CO!cell
<1>5. /\ DOMAIN CO!Merge(f, h) = DOMAIN f \cup DOMAIN h
      /\ \A c : CO!cell(CO!Merge(f, h), c) =
                  IF c \in DOMAIN h THEN CO!cell(h, c) ELSE CO!cell(f, c)
  BY MergedCells
<1>6. DOMAIN h \subseteq DOMAIN g
  BY <1>1
<1>7. /\ DOMAIN CO!Fill(f, g) \subseteq DOMAIN f \cup DOMAIN g
      /\ DOMAIN f \subseteq DOMAIN CO!Fill(f, g)
  BY <1>2, <1>5, <1>6
<1>8. ASSUME NEW c
      PROVE  CO!cell(CO!Fill(f, g), c) =
               IF CO!cell(g, c) # CO!Empty THEN CO!cell(g, c) ELSE CO!cell(f, c)
  BY <1>2, <1>3, <1>4, <1>5
<1> QED  BY <1>7, <1>8

LEMMA NormalCells ==
  ASSUME NEW s, NEW g
  PROVE  /\ DOMAIN CO!normalizeValues(s, g) = s.cols
         /\ \A c : CO!cell(CO!normalizeValues(s, g), c) =
                     IF c \in s.cols THEN CO!cell(g, c) ELSE CO!Empty
BY DEF CO!normalizeValues, CO!cell

\* A document comes down to records of their own keys.
LEMMA PreparedRecords ==
  ASSUME NEW s \in Shapes, NEW file \in Files
  PROVE  LET p == CO!Prepare(s, file)
         IN /\ DOMAIN p \subseteq Nat /\ IsFiniteSet(DOMAIN p)
            /\ \A n \in DOMAIN p : IsRecord(s, p[n])
            /\ \A m, n \in DOMAIN p :
                 CO!keyValueOf(s, p[m]) = CO!keyValueOf(s, p[n]) => m = n
<1> DEFINE len == Len(file)
<1> DEFINE key(i) == CO!keyValueOf(s, file[i])
<1> DEFINE Repeats(i) == {j \in DOMAIN file : key(j) = key(i)}
<1> DEFINE Filled(i, c) == {j \in Repeats(i) : CO!cell(file[j], c) # CO!Empty}
<1> DEFINE Last(S) == CHOOSE j \in S : \A l \in S : l <= j
<1> DEFINE P == {i \in DOMAIN file : key(i) # CO!Empty /\ \A j \in Repeats(i) : i <= j}
<1> DEFINE p == CO!Prepare(s, file)
<1>1. len \in Nat /\ DOMAIN file = 1 .. len /\ s.key \in s.cols
  BY RowsAssumption
<1>2. p = [i \in P |-> [c \in s.cols |-> IF Filled(i, c) = {} THEN CO!Empty
                                         ELSE CO!cell(file[Last(Filled(i, c))], c)]]
  BY DEF CO!Prepare
<1>3. DOMAIN p = P /\ P \subseteq 1 .. len
  BY <1>1, <1>2
<1>4. IsFiniteSet(P) /\ P \subseteq Nat
  <2>1. IsFiniteSet(1 .. len) /\ 1 .. len \subseteq Nat
    BY <1>1, FS_Interval
  <2> HIDE DEF P, len
  <2> QED  BY <1>3, <2>1, FS_Subset
<1>5. ASSUME NEW i \in P PROVE DOMAIN p[i] = s.cols /\ CO!keyValueOf(s, p[i]) = key(i)
  <2>1. p[i] = [c \in s.cols |-> IF Filled(i, c) = {} THEN CO!Empty
                                 ELSE CO!cell(file[Last(Filled(i, c))], c)]
    BY <1>2
  <2> DEFINE F == Filled(i, s.key)
  <2>2. i \in F
    BY DEF CO!keyValueOf
  <2>3. F \subseteq 1 .. len
    BY <1>1
  <2>4. Last(F) \in F
    <3> HIDE DEF F, len
    <3> QED  BY <1>1, <2>2, <2>3, LastOf
  <2>5. \A j \in F : CO!cell(file[j], s.key) = key(i)
    BY DEF CO!keyValueOf
  <2>6. p[i][s.key] = key(i)
    <3>1. p[i][s.key] = CO!cell(file[Last(F)], s.key)
      BY <1>1, <2>1, <2>2
    <3> HIDE DEF F, Last
    <3> QED  BY <2>4, <2>5, <3>1
  <2>7. DOMAIN p[i] = s.cols
    BY <2>1
  <2> HIDE DEF p, F
  <2> QED  BY <1>1, <2>6, <2>7 DEF CO!keyValueOf, CO!cell
<1>6. ASSUME NEW m \in P, NEW n \in P, key(m) = key(n) PROVE m = n
  <2>1. m \in Repeats(n) /\ n \in Repeats(m) /\ m \in Nat /\ n \in Nat
    BY <1>4, <1>6
  <2>2. m <= n /\ n <= m
    BY <2>1
  <2> QED  BY <2>1, <2>2
<1>7. \A i \in P : key(i) # CO!Empty
  OBVIOUS
<1> HIDE DEF P, p, key
<1>8. \A n \in P : IsRecord(s, p[n])
  BY <1>5, <1>7 DEF IsRecord
<1>9. \A m, n \in P : CO!keyValueOf(s, p[m]) = CO!keyValueOf(s, p[n]) => m = n
  BY <1>5, <1>6
<1> QED  BY <1>3, <1>4, <1>8, <1>9 DEF p

\* A request with another content, or none, that agrees with itself.
LEMMA RequestAnew ==
  ASSUME RowsShape, RequestsInv, NEW s \in CO!Slots, NEW x,
         requests' = [requests EXCEPT ![s] = x], born' \in Nat, born <= born',
         Asked(x), Counted(x, born')
  PROVE  RequestsInv' /\ DOMAIN requests' = CO!Slots
         /\ requests'[s] = x /\ \A t \in CO!Slots : t # s => requests'[t] = requests[t]
<1>1. born \in Nat /\ 1 .. born \subseteq 1 .. born'
  BY DEF RowsShape
<1>2. DOMAIN requests' = CO!Slots /\ requests'[s] = x
      /\ \A t \in CO!Slots : t # s => requests'[t] = requests[t]
  BY DEF RowsShape
<1>3. ASSUME NEW t \in CO!Slots PROVE Asked(requests'[t]) /\ Counted(requests'[t], born')
  <2>1. CASE t = s
    BY <1>2, <2>1
  <2>2. CASE t # s
    BY <1>1, <1>2, <2>2 DEF RequestsInv, Counted
  <2> QED  BY <2>1, <2>2
<1> QED  BY <1>2, <1>3 DEF RequestsInv, CO!Slots

\* Nothing is counted on and nothing agreed on without a request.
LEMMA IdleAsked == Asked(CO!Idle) /\ \A b : Counted(CO!Idle, b)
BY DEF Asked, Counted, CO!Idle

\* A step that writes no row, and begins and ends no column change.
LEMMA Unwritten ==
  ASSUME RowsShape, ToldInv, FlagsInv, CO!RoomKept,
         NEW s \in CO!Slots, ~Changes(s), ~Changes(s)',
         \A t \in CO!Slots : t # s => requests'[t] = requests[t],
         UNCHANGED <<rows, told, raced, shape, torn, crowded>>
  PROVE  ToldInv' /\ FlagsInv' /\ CO!RoomKept'
<1>0. CO!Slots' = CO!Slots
  BY DEF CO!Slots
<1>1. \A t \in CO!Slots : (Changes(t)' <=> Changes(t))
                          /\ (Changes(t) => requests'[t] = requests[t])
  BY DEF Changes
<1>2. \A t \in CO!Slots : Changes(t) => \A i : Reached(t, i)' <=> Reached(t, i)
  BY <1>1 DEF Reached, CO!Before
<1>3. \A t \in CO!Slots : \A i : Passed(t, i)' <=> Passed(t, i)
  BY <1>1, <1>2 DEF Passed
<1>4. \A i, c : Dropped(i, c)' <=> Dropped(i, c)
  BY <1>0, <1>1, <1>3 DEF Dropped, Passed
<1>5. \A i : (Fresh(i)' <=> Fresh(i)) /\ (Sound(i)' <=> Sound(i))
  BY <1>4 DEF Fresh, Sound, VectorOf, CO!cell
<1>6. \A t \in CO!Slots : Changes(t) => \A i : Spared(t, i)' <=> Spared(t, i)
  BY <1>1, <1>2 DEF Spared, CO!cell
<1>7. ToldInv'
  BY <1>0, <1>1, <1>5, <1>6 DEF ToldInv, CO!keys
<1>8. \A c, i : Flagged(c, i)' <=> Flagged(c, i)
  BY DEF Flagged, CO!isComplete, CO!cell
<1>9. FlagsInv'
  BY <1>0, <1>1, <1>2, <1>3, <1>8 DEF FlagsInv
<1>10. CO!RoomKept'
  BY DEF CO!RoomKept, CO!Cardinality
<1> QED  BY <1>7, <1>9, <1>10

\* The types of a step that writes no row.
LEMMA UnwrittenShape ==
  ASSUME RowsShape, DOMAIN requests' = CO!Slots, made' \in 0 .. MaxRequests,
         breaks' \in 0 .. MaxFaults, UNCHANGED <<rows, told, shape, born, crowded>>,
         torn' \in BOOLEAN
  PROVE  RowsShape'
BY DEF RowsShape, CO!Slots, IsRow

\* A request that is no column change goes on, and writes nothing.
LEMMA GoesOn ==
  ASSUME RowsShape, RequestsInv, ToldInv, FlagsInv, CO!RoomKept,
         NEW s \in CO!Slots, NEW x, requests' = [requests EXCEPT ![s] = x],
         ~Changes(s), x.op # "columns", Asked(x), Counted(x, born),
         made' \in 0 .. MaxRequests, breaks' \in 0 .. MaxFaults,
         UNCHANGED <<shape, rows, born, told, raced, torn, crowded>>
  PROVE  CollectionInv'
<1>1. born' \in Nat /\ born <= born' /\ born' = born /\ torn' \in BOOLEAN
  BY DEF RowsShape
<1>2. RequestsInv' /\ DOMAIN requests' = CO!Slots
      /\ requests'[s] = x /\ \A t \in CO!Slots : t # s => requests'[t] = requests[t]
  BY <1>1, RequestAnew
<1>3. ~Changes(s)'
  BY <1>2 DEF Changes
<1>4. ToldInv' /\ FlagsInv' /\ CO!RoomKept'
  BY <1>2, <1>3, Unwritten
<1>5. RowsShape'
  BY <1>1, <1>2, UnwrittenShape
<1> QED  BY <1>2, <1>4, <1>5 DEF CollectionInv

\* A request begins: it reads the collection.
LEMMA Begins ==
  ASSUME RowsShape, RequestsInv, ToldInv, FlagsInv, CO!RoomKept,
         NEW s \in CO!Slots, NEW x, CO!Starts(s, x), Asked(x), Counted(x, born),
         x.op # "columns", torn' = torn
  PROVE  CollectionInv'
<1>1. /\ requests[s] = CO!Idle /\ requests' = [requests EXCEPT ![s] = x]
      /\ made' \in 0 .. MaxRequests /\ breaks' \in 0 .. MaxFaults
      /\ UNCHANGED <<shape, rows, born, told, raced, torn, crowded>>
  BY RowsAssumption DEF CO!Starts, RowsShape
<1>2. ~Changes(s)
  BY <1>1 DEF Changes, CO!Idle
<1> QED  BY <1>1, <1>2, GoesOn

LEMMA NextAskAdd ==
  ASSUME CollectionInv, NEW s \in CO!Slots, NEW given \in Given, CO!AskAdd(s, given)
  PROVE  CollectionInv'
<1> DEFINE values == CO!normalizeValues(shape, given)
<1> DEFINE k == CO!keyValueOf(shape, values)
<1>1. /\ RowsShape /\ RequestsInv /\ ToldInv /\ FlagsInv /\ CO!RoomKept
      /\ torn' = torn /\ k # CO!Empty /\ DOMAIN given \subseteq shape.cols
      /\ shape \in Shapes /\ shape.key \in shape.cols /\ shape.cols \subseteq Columns
  BY RowsAssumption DEF CollectionInv, RowsShape, CO!AskAdd
<1>2. k = CO!cell(given, shape.key)
  BY <1>1, NormalCells DEF CO!keyValueOf
<1>3. ASSUME NEW i \in CO!withKey(k),
             CO!Starts(s, [op |-> "update", shape |-> shape, key |-> k, given |-> given,
                           id |-> i, was |-> rows[i],
                           values |-> CO!Merge(rows[i].values, given)])
      PROVE  CollectionInv'
  <2> DEFINE x == [op |-> "update", shape |-> shape, key |-> k, given |-> given, id |-> i,
                   was |-> rows[i], values |-> CO!Merge(rows[i].values, given)]
  <2>1. IsRow(rows[i]) /\ rows[i].key = k
    BY <1>1 DEF RowsShape, CO!withKey
  <2>2. shape.key \in DOMAIN given
    BY <1>1, <1>2 DEF CO!cell
  <2>3. CO!keyValueOf(shape, CO!Merge(rows[i].values, given)) = k
    BY <1>2, <2>2, MergedCells DEF CO!keyValueOf
  <2>4. Asked(x) /\ Counted(x, born) /\ x.op # "columns"
    <3> HIDE DEF values, k
    <3> QED  BY <1>1, <2>1, <2>3 DEF Asked, AskedOne, Counted
  <2> HIDE DEF x
  <2>5. CO!Starts(s, x)
    BY <1>3 DEF x
  <2> QED  BY <1>1, <2>4, <2>5, Begins
<1>4. ASSUME CO!withKey(k) = {}, CO!Cardinality(DOMAIN rows) < MaxRows,
             CO!Starts(s, [op |-> "insert", shape |-> shape, key |-> k, given |-> given,
                           seen |-> DOMAIN rows, values |-> values])
      PROVE  CollectionInv'
  <2> DEFINE x == [op |-> "insert", shape |-> shape, key |-> k, given |-> given,
                   seen |-> DOMAIN rows, values |-> values]
  <2>1. DOMAIN rows \subseteq 1 .. born /\ Cardinality(DOMAIN rows) < MaxRows
    BY <1>1, <1>4, RowCardinality DEF RowsShape
  <2>2. Asked(x) /\ Counted(x, born) /\ x.op # "columns"
    BY <1>1, <2>1 DEF Asked, AskedOne, Counted
  <2> HIDE DEF x
  <2>3. CO!Starts(s, x)
    BY <1>4 DEF x
  <2> QED  BY <1>1, <2>2, <2>3, Begins
<1> QED  BY <1>3, <1>4 DEF CO!AskAdd

LEMMA NextAskEdit ==
  ASSUME CollectionInv, NEW s \in CO!Slots, NEW given \in Given, NEW i \in DOMAIN rows,
         CO!AskEdit(s, i, given)
  PROVE  CollectionInv'
<1> DEFINE values == CO!Merge(rows[i].values, given)
<1> DEFINE k == CO!keyValueOf(shape, values)
<1> DEFINE x == [op |-> "edit", shape |-> shape, key |-> k, given |-> given, id |-> i,
                 was |-> rows[i], values |-> values]
<1>1. /\ RowsShape /\ RequestsInv /\ ToldInv /\ FlagsInv /\ CO!RoomKept
      /\ torn' = torn /\ k # CO!Empty /\ DOMAIN given \subseteq shape.cols
      /\ shape \in Shapes /\ CO!Starts(s, x)
  BY DEF CollectionInv, RowsShape, CO!AskEdit
<1>2. IsRow(rows[i])
  BY <1>1 DEF RowsShape
<1>3. Asked(x) /\ Counted(x, born) /\ x.op # "columns"
  BY <1>1, <1>2 DEF Asked, AskedOne, Counted
<1> HIDE DEF x
<1> QED  BY <1>1, <1>3, Begins

LEMMA NextAskRemove ==
  ASSUME CollectionInv, NEW s \in CO!Slots, NEW i \in DOMAIN rows, CO!AskRemove(s, i)
  PROVE  CollectionInv'
<1> DEFINE x == [op |-> "remove", shape |-> shape, key |-> rows[i].key, id |-> i,
                 was |-> rows[i]]
<1>1. /\ RowsShape /\ RequestsInv /\ ToldInv /\ FlagsInv /\ CO!RoomKept
      /\ torn' = torn /\ CO!Starts(s, x)
  BY DEF CollectionInv, CO!AskRemove
<1>2. Asked(x) /\ Counted(x, born) /\ x.op # "columns"
  BY DEF Asked, Counted
<1> HIDE DEF x
<1> QED  BY <1>1, <1>2, Begins

LEMMA NextAskImport ==
  ASSUME CollectionInv, NEW s \in CO!Slots, NEW file \in Files, CO!AskImport(s, file)
  PROVE  CollectionInv'
<1> DEFINE p == CO!Prepare(shape, file)
<1> DEFINE room == MaxRows - Cardinality(DOMAIN rows)
<1> DEFINE x == [op |-> "import", shape |-> shape, left |-> p, inserts |-> <<>>,
                 updates |-> <<>>, seen |-> DOMAIN rows, room |-> room]
<1>1. /\ RowsShape /\ RequestsInv /\ ToldInv /\ FlagsInv /\ CO!RoomKept
      /\ torn' = torn /\ shape \in Shapes
  BY DEF CollectionInv, RowsShape, CO!AskImport
<1>2. CO!Starts(s, x)
  BY RowCardinality DEF CO!AskImport
<1>3. DOMAIN rows \subseteq 1 .. born /\ IsFiniteSet(DOMAIN rows) /\ Cardinality(DOMAIN rows) \in Nat
  <2>1. DOMAIN rows \subseteq 1 .. born /\ born \in Nat
    BY <1>1 DEF RowsShape
  <2>2. IsFiniteSet(1 .. born)
    BY <2>1, FS_Interval
  <2> QED  BY <2>1, <2>2, FS_Subset, FS_CardinalityType
<1>4. /\ DOMAIN p \subseteq Nat /\ IsFiniteSet(DOMAIN p)
      /\ \A n \in DOMAIN p : IsRecord(shape, p[n])
      /\ \A m, n \in DOMAIN p :
           CO!keyValueOf(shape, p[m]) = CO!keyValueOf(shape, p[n]) => m = n
  BY <1>1, PreparedRecords
<1>5. DOMAIN <<>> = {} /\ IsFiniteSet({}) /\ Cardinality({}) = 0
  BY FS_EmptySet
<1> HIDE DEF p
<1>6. Asked(x)
  BY <1>1, <1>4, <1>5 DEF Asked, AskedImport
<1>7. Counted(x, born)
  <2>1. room \in Int /\ Cardinality(DOMAIN rows) + 0 + room <= MaxRows
    BY <1>3, RowsAssumption
  <2>2. x.op = "import" /\ x.seen = DOMAIN rows /\ x.room = room /\ x.inserts = <<>>
    OBVIOUS
  <2> HIDE DEF x, room
  <2> QED  BY <1>3, <1>5, <2>1, <2>2 DEF Counted
<1>8. x.op # "columns"
  OBVIOUS
<1> HIDE DEF x
<1> QED  BY <1>1, <1>2, <1>6, <1>7, <1>8, Begins

\* The request of an import, and with other fields.
ImportOf(p, l, i, u, e, m) ==
  [op |-> "import", shape |-> p, left |-> l, inserts |-> i, updates |-> u, seen |-> e,
   room |-> m]

LEMMA ImportAnew ==
  ASSUME NEW p, NEW l, NEW i, NEW u, NEW e, NEW m, NEW x
  PROVE  /\ [ImportOf(p, l, i, u, e, m) EXCEPT !.left = x] = ImportOf(p, x, i, u, e, m)
         /\ [ImportOf(p, l, i, u, e, m) EXCEPT !.inserts = x] = ImportOf(p, l, x, u, e, m)
         /\ [ImportOf(p, l, i, u, e, m) EXCEPT !.updates = x] = ImportOf(p, l, i, x, e, m)
         /\ [ImportOf(p, l, i, u, e, m) EXCEPT !.seen = x] = ImportOf(p, l, i, u, x, m)
         /\ [ImportOf(p, l, i, u, e, m) EXCEPT !.room = x] = ImportOf(p, l, i, u, e, x)
BY DEF ImportOf

\* The next batch of a document: what is known is updated, what is new inserted as far as
\* there is room.
LEMMA NextReadBatch ==
  ASSUME CollectionInv, NEW s \in CO!Slots, CO!ReadBatch(s)
  PROVE  CollectionInv'
<1> DEFINE r == requests[s]
<1> DEFINE KeyOf(n) == CO!keyValueOf(r.shape, r.left[n])
<1> DEFINE batch == CO!First(DOMAIN r.left, ImportBatch)
<1> DEFINE new == {n \in batch : CO!withKey(KeyOf(n)) = {}}
<1> DEFINE inserts == CO!First(new, r.room)
<1> DEFINE At(n) == CHOOSE i \in CO!withKey(KeyOf(n)) : TRUE
<1> DEFINE Update(n) == [id |-> At(n), was |-> rows[At(n)], given |-> r.left[n],
                         values |-> CO!Fill(rows[At(n)].values, r.left[n])]
<1> DEFINE updates == [n \in batch \ new |-> Update(n)]
<1> DEFINE chosen == [n \in inserts |-> r.left[n]]
<1> DEFINE left == CO!Without(r.left, batch)
<1> DEFINE room == r.room - Cardinality(inserts)
<1> DEFINE x == [r EXCEPT !.left = left, !.inserts = chosen, !.room = room,
                          !.updates = updates]
<1>1. /\ RowsShape /\ RequestsInv /\ ToldInv /\ FlagsInv /\ CO!RoomKept
      /\ r.op = "import" /\ DOMAIN r.inserts = {} /\ Asked(r) /\ Counted(r, born)
      /\ UNCHANGED <<shape, rows, made, breaks, born, told, raced, torn, crowded>>
  BY DEF CollectionInv, RequestsInv, CO!ReadBatch
<1>2. requests' = [requests EXCEPT ![s] = x]
  BY RowCardinality DEF CO!ReadBatch
<1>3. AskedImport(r)
  BY <1>1 DEF Asked
<1>4. batch \subseteq DOMAIN r.left /\ new \subseteq batch
  BY DEF CO!First
<1>5. /\ r.shape \in Shapes /\ DOMAIN r.left \subseteq Nat /\ IsFiniteSet(DOMAIN r.left)
      /\ \A n \in DOMAIN r.left : IsRecord(r.shape, r.left[n])
      /\ \A m, n \in DOMAIN r.left : KeyOf(m) = KeyOf(n) => m = n
  BY <1>3 DEF AskedImport
<1>6. r.room \in Int /\ r.seen \subseteq 1 .. born
      /\ (r.room >= 0 => Cardinality(r.seen) + r.room <= MaxRows)
  <2>1. /\ r.room \in Int /\ r.seen \subseteq 1 .. born
        /\ (r.room >= 0 => Cardinality(r.seen) + Cardinality(DOMAIN r.inserts) + r.room <= MaxRows)
    BY <1>1 DEF Counted
  <2>2. Cardinality(DOMAIN r.inserts) = 0
    BY <1>1, FS_EmptySet
  <2>3. born \in Nat /\ IsFiniteSet(1 .. born)
    BY <1>1, FS_Interval DEF RowsShape
  <2>4. Cardinality(r.seen) \in Nat
    BY <2>1, <2>3, FS_Subset, FS_CardinalityType
  <2> HIDE DEF r
  <2> QED  BY <2>1, <2>2, <2>4
<1>7. /\ inserts \subseteq new /\ IsFiniteSet(inserts) /\ Cardinality(inserts) \in Nat
      /\ (r.room >= 0 => Cardinality(inserts) <= r.room)
      /\ (r.room <= 0 => inserts = {})
  <2>1. new \subseteq Nat /\ IsFiniteSet(new)
    <3> HIDE DEF new, batch, r
    <3> QED  BY <1>4, <1>5, FS_Subset
  <2>2. inserts \subseteq new
    BY DEF CO!First
  <2> HIDE DEF new, batch, r
  <2> QED  BY <1>6, <2>1, <2>2, FirstMembers
<1>8. /\ DOMAIN left = DOMAIN r.left \ batch /\ \A n \in DOMAIN left : left[n] = r.left[n]
      /\ DOMAIN chosen = inserts /\ \A n \in inserts : chosen[n] = r.left[n]
  BY DEF CO!Without
<1>9. ASSUME NEW n \in batch \ new PROVE At(n) \in DOMAIN rows /\ rows[At(n)].key = KeyOf(n)
  <2>1. At(n) \in CO!withKey(KeyOf(n))
    BY <1>9
  <2> HIDE DEF At, KeyOf
  <2> QED  BY <2>1 DEF CO!withKey
<1>10. ASSUME NEW n \in DOMAIN updates
       PROVE  LET u == updates[n]
              IN /\ IsRecord(r.shape, u.given) /\ IsRow(u.was)
                 /\ u.was.key = CO!keyValueOf(r.shape, u.given)
                 /\ u.values = CO!Fill(u.was.values, u.given)
  <2>1. n \in batch \ new /\ n \in DOMAIN r.left
    BY <1>4
  <2>2. updates[n] = Update(n)
    BY <2>1
  <2>3. IsRow(rows[At(n)]) /\ rows[At(n)].key = KeyOf(n)
    BY <1>1, <1>9, <2>1 DEF RowsShape
  <2>4. IsRecord(r.shape, r.left[n])
    BY <1>5, <2>1
  <2> HIDE DEF updates, At, batch, new
  <2> QED  BY <2>2, <2>3, <2>4
<1>11. /\ x = [op |-> "import", shape |-> r.shape, left |-> left, inserts |-> chosen,
               updates |-> updates, seen |-> r.seen, room |-> room]
       /\ x.op = "import"
  <2>1. r = ImportOf(r.shape, r.left, r.inserts, r.updates, r.seen, r.room)
    BY <1>3, Zenon DEF AskedImport, ImportOf
  <2> HIDE DEF left, chosen, updates, room
  <2> HIDE DEF r
  <2>3. x = ImportOf(r.shape, left, chosen, updates, r.seen, room)
    <3> DEFINE p == r.shape
    <3> DEFINE l == r.left
    <3> DEFINE i == r.inserts
    <3> DEFINE u == r.updates
    <3> DEFINE e == r.seen
    <3> DEFINE m == r.room
    <3>1. r = ImportOf(p, l, i, u, e, m)
      BY <2>1
    <3> HIDE DEF p, l, i, u, e, m
    <3> DEFINE a == ImportOf(p, left, i, u, e, m)
    <3> DEFINE b == ImportOf(p, left, chosen, u, e, m)
    <3> DEFINE c == ImportOf(p, left, chosen, u, e, room)
    <3>2. [r EXCEPT !.left = left] = a
      BY <3>1 DEF ImportOf
    <3>3. [a EXCEPT !.inserts = chosen] = b
      BY DEF ImportOf
    <3>4. [b EXCEPT !.room = room] = c
      BY DEF ImportOf
    <3>5. [c EXCEPT !.updates = updates] = ImportOf(p, left, chosen, updates, e, room)
      BY DEF ImportOf
    <3> HIDE DEF a, b, c
    <3>6. x = ImportOf(p, left, chosen, updates, e, room)
      BY <3>2, <3>3, <3>4, <3>5, Zenon
    <3> QED  BY <3>6 DEF p, e
  <2> HIDE DEF x
  <2> QED  BY <2>3 DEF ImportOf
<1>12. room \in Int /\ (inserts # {} => room >= 0)
       /\ (room >= 0 => Cardinality(r.seen) + Cardinality(inserts) + room <= MaxRows)
  <2>1. Cardinality({}) = 0
    BY FS_EmptySet
  <2>2. born \in Nat /\ IsFiniteSet(1 .. born)
    BY <1>1, FS_Interval DEF RowsShape
  <2>3. Cardinality(r.seen) \in Nat
    BY <1>6, <2>2, FS_Subset, FS_CardinalityType
  <2> HIDE DEF inserts, r
  <2> QED  BY <1>6, <1>7, <2>1, <2>3
<1> HIDE DEF x, left, chosen, updates, room, inserts, new, batch, At, KeyOf
<1>13. AskedImport(x)
  <2> DEFINE shape0 == r.shape
  <2>1. /\ x.shape = r.shape /\ x.left = left /\ x.inserts = chosen /\ x.updates = updates
        /\ x.seen = r.seen /\ x.room = room
        /\ x = [op |-> "import", shape |-> x.shape, left |-> x.left, inserts |-> x.inserts,
                updates |-> x.updates, seen |-> x.seen, room |-> x.room]
    BY <1>11
  <2>2. /\ DOMAIN left \subseteq Nat /\ IsFiniteSet(DOMAIN left)
        /\ DOMAIN chosen \subseteq Nat /\ IsFiniteSet(DOMAIN chosen)
    BY <1>4, <1>5, <1>7, <1>8, FS_Subset
  <2>3. /\ \A n \in DOMAIN left : IsRecord(r.shape, left[n])
        /\ \A n \in DOMAIN chosen : IsRecord(r.shape, chosen[n])
    BY <1>4, <1>5, <1>7, <1>8
  <2>4. /\ \A m, n \in DOMAIN left :
             CO!keyValueOf(r.shape, left[m]) = CO!keyValueOf(r.shape, left[n]) => m = n
        /\ \A m, n \in DOMAIN chosen :
             CO!keyValueOf(r.shape, chosen[m]) = CO!keyValueOf(r.shape, chosen[n]) => m = n
    BY <1>4, <1>5, <1>7, <1>8 DEF KeyOf
  <2> QED  BY <1>5, <1>10, <2>1, <2>2, <2>3, <2>4 DEF AskedImport
<1>14. Asked(x)
  BY <1>11, <1>13 DEF Asked
<1>15. Counted(x, born)
  <2>1. x.seen = r.seen /\ x.room = room /\ DOMAIN x.inserts = inserts /\ x.op = "import"
    BY <1>8, <1>11
  <2> QED  BY <1>6, <1>12, <2>1 DEF Counted
<1>16. ~Changes(s) /\ x.op # "columns" /\ made' \in 0 .. MaxRequests /\ breaks' \in 0 .. MaxFaults
  BY <1>1, <1>11 DEF Changes, RowsShape
<1> QED  BY <1>1, <1>2, <1>14, <1>15, <1>16, GoesOn

\* A request that is no column change ends, or breaks off, and writes nothing.
LEMMA EndsUnwritten ==
  ASSUME RowsShape, RequestsInv, ToldInv, FlagsInv, CO!RoomKept,
         NEW s \in CO!Slots, CO!Ends(s), ~Changes(s),
         made' \in 0 .. MaxRequests, breaks' \in 0 .. MaxFaults,
         UNCHANGED <<shape, rows, born, told, raced, torn, crowded>>
  PROVE  CollectionInv'
<1>1. requests' = [requests EXCEPT ![s] = CO!Idle] /\ CO!Idle.op # "columns"
  BY DEF CO!Ends, CO!Idle
<1> QED  BY <1>1, IdleAsked, GoesOn

\* What is written beside a column change, or by the columns of before one, counts for
\* nothing: all keys are raced, and the flags wait for the next change.
LEMMA WroteBeside ==
  ASSUME ToldInv, NEW ks, CO!keys' \subseteq CO!keys \cup ks,
         DOMAIN told' \subseteq DOMAIN told \cup ks, raced \cup CO!keys \cup ks \subseteq raced',
         torn'
  PROVE  ToldInv' /\ FlagsInv'
<1>1. DOMAIN told \subseteq raced \cup CO!keys
  BY DEF ToldInv
<1>2. CO!keys' \ raced' = DOMAIN told' \ raced'
  BY <1>1
<1>3. \A i \in DOMAIN rows' : ~Fresh(i)'
  BY DEF Fresh, CO!keys
<1> QED  BY <1>2, <1>3 DEF ToldInv, FlagsInv

\* Without a column change a row that is fresh holds what was told last.
AsTold(i) ==
  /\ \A c \in Columns : CO!cell(rows[i].values, c) = CO!cell(told[rows[i].key], c)
  /\ rows[i].key = CO!cell(rows[i].values, shape.key)
  /\ VectorOf(rows[i])

LEMMA FreshAsTold ==
  ASSUME ToldInv, \A t \in CO!Slots : ~Changes(t), NEW i \in DOMAIN rows, Fresh(i)
  PROVE  AsTold(i)
<1>1. \A c : ~Dropped(i, c)
  BY DEF Dropped, Passed
<1> QED  BY <1>1 DEF ToldInv, Sound, AsTold

LEMMA WroteAlone ==
  ASSUME \A t \in CO!Slots : ~Changes(t)',
         CO!keys' \ raced' = DOMAIN told' \ raced',
         \A i \in DOMAIN rows' : Fresh(i)' => AsTold(i)',
         \A i \in DOMAIN rows' : torn' \/ Flagged(shape, i)'
  PROVE  ToldInv' /\ FlagsInv'
<1>0. CO!Slots' = CO!Slots
  BY DEF CO!Slots
<1>1. \A i, c : ~Dropped(i, c)'
  BY <1>0 DEF Dropped, Passed
<1>2. \A i \in DOMAIN rows' : Fresh(i)' => Sound(i)'
  BY <1>1 DEF Sound, AsTold
<1>3. ToldInv'
  BY <1>0, <1>2 DEF ToldInv
<1>4. FlagsInv'
  BY <1>0 DEF FlagsInv
<1> QED  BY <1>3, <1>4

\* A slot that runs beside no column change, by the columns of now.
LEMMA NoneBeside ==
  ASSUME NEW s \in CO!Slots, ~Changes(s), ~CO!BesideColumns(s)
  PROVE  requests[s].shape = shape /\ \A t \in CO!Slots : ~Changes(t)
BY DEF CO!BesideColumns, CO!ColumnsRun, Changes

\* While none runs every flag is that of the columns, unless they are torn.
LEMMA AllFlagged ==
  ASSUME FlagsInv, \A t \in CO!Slots : ~Changes(t), ~torn, NEW i \in DOMAIN rows
  PROVE  Flagged(shape, i)
BY DEF FlagsInv

\* A row as it is written, with a vector of its cells or none.
LEMMA WrittenRow ==
  ASSUME NEW k, NEW s \in Shapes, NEW values, DOMAIN values \subseteq Columns,
         NEW v \in {CO!NoVector, values}
  PROVE  LET w == CO!Row(k, s, values, v)
         IN /\ IsRow(w) /\ VectorOf(w) /\ w.key = k /\ w.values = values
            /\ w.complete = CO!isComplete(s, values)
BY DEF IsRow, VectorOf, CO!Row, CO!cell

\* The cells that are told: all columns.
LEMMA ToldCells ==
  ASSUME RowsShape, NEW k
  PROVE  /\ DOMAIN CO!toldCells(k) = Columns
         /\ k \in DOMAIN told => CO!toldCells(k) = told[k]
         /\ k \notin DOMAIN told => \A c : CO!cell(CO!toldCells(k), c) = CO!Empty
BY DEF RowsShape, CO!toldCells, CO!cell

\* The rows are finitely many.
LEMMA FiniteRows ==
  ASSUME RowsShape
  PROVE  /\ DOMAIN rows \subseteq 1 .. born /\ DOMAIN rows \subseteq Nat
         /\ IsFiniteSet(DOMAIN rows) /\ Cardinality(DOMAIN rows) \in Nat
<1>1. DOMAIN rows \subseteq 1 .. born /\ born \in Nat
  BY DEF RowsShape
<1>2. IsFiniteSet(1 .. born) /\ 1 .. born \subseteq Nat
  BY <1>1, FS_Interval
<1> QED  BY <1>1, <1>2, FS_Subset, FS_CardinalityType

\* A row that is inserted has a new key, and the cells that were asked for.
LEMMA NextInsertRow ==
  ASSUME CollectionInv, NEW s \in CO!Slots, CO!InsertRow(s)
  PROVE  CollectionInv'
<1> DEFINE r == requests[s]
<1> DEFINE k == r.key
<1> DEFINE id == born + 1
<1>1. /\ RowsShape /\ RequestsInv /\ ToldInv /\ FlagsInv /\ CO!RoomKept
      /\ r.op = "insert" /\ CO!Ends(s) /\ UNCHANGED <<shape, made, breaks>>
      /\ made \in 0 .. MaxRequests /\ breaks \in 0 .. MaxFaults
      /\ ~Changes(s)
  BY DEF CollectionInv, RowsShape, CO!InsertRow, Changes
<1>2. CASE CO!withKey(k) # {}
  <2>1. UNCHANGED <<rows, born, told, raced, torn, crowded>>
    BY <1>2 DEF CO!InsertRow
  <2> QED  BY <1>1, <2>1, EndsUnwritten
<1>3. CASE CO!withKey(k) = {}
  <2>1. /\ AskedOne(r) /\ r.values = CO!normalizeValues(r.shape, r.given)
        /\ r.seen \subseteq 1 .. born /\ Cardinality(r.seen) < MaxRows
    BY <1>1 DEF RequestsInv, Asked, Counted
  <2>2. PICK v \in CO!Vectors(r.values) : rows' = CO!Put(rows, id, CO!Row(k, r.shape, r.values, v))
    BY <1>3 DEF CO!InsertRow
  <2> DEFINE w == CO!Row(k, r.shape, r.values, v)
  <2>3. /\ born' = born + 1 /\ crowded' = (crowded \/ DOMAIN rows # r.seen)
        /\ told' = CO!Put(told, k, CO!Merge(CO!toldCells(k), r.given))
        /\ CO!Written(s, FALSE, {k})
    BY <1>3 DEF CO!InsertRow
  <2>4. /\ r.shape \in Shapes /\ DOMAIN r.given \subseteq r.shape.cols
        /\ r.shape.cols \subseteq Columns /\ r.shape.key \in r.shape.cols
        /\ CO!keyValueOf(r.shape, r.values) = k
    BY <2>1, RowsAssumption DEF AskedOne
  <2>5. /\ DOMAIN r.values \subseteq Columns
        /\ \A c : CO!cell(r.values, c) = CO!cell(r.given, c)
    BY <2>1, <2>4, NormalCells DEF CO!cell
  <2>6. /\ IsRow(w) /\ VectorOf(w) /\ w.key = k /\ w.values = r.values
        /\ w.complete = CO!isComplete(r.shape, r.values)
    BY <2>2, <2>4, <2>5, WrittenRow DEF CO!Vectors
  <2> HIDE DEF w
  <2>7. /\ DOMAIN rows' = DOMAIN rows \cup {id} /\ rows'[id] = w
        /\ \A j \in DOMAIN rows : rows'[j] = rows[j]
        /\ id \notin DOMAIN rows /\ id \in 1 .. born' /\ born' \in Nat /\ born <= born'
    <3>1. born \in Nat /\ \A j \in DOMAIN rows : j \in 1 .. born
      BY <1>1 DEF RowsShape
    <3>2. id \notin DOMAIN rows
      BY <3>1
    <3> HIDE DEF r
    <3> QED  BY <2>2, <2>3, <3>1, <3>2 DEF CO!Put, w
  <2>8. \A j \in DOMAIN rows : rows[j].key # k
    BY <1>3 DEF CO!withKey
  <2>9. /\ DOMAIN told' = DOMAIN told \cup {k}
        /\ told'[k] = CO!Merge(CO!toldCells(k), r.given)
        /\ \A l \in DOMAIN told : l # k => told'[l] = told[l]
    BY <2>3 DEF CO!Put
  <2>10. DOMAIN told'[k] = Columns
    <3>1. DOMAIN CO!Merge(CO!toldCells(k), r.given) = DOMAIN CO!toldCells(k) \cup DOMAIN r.given
      BY MergedCells
    <3>2. DOMAIN CO!toldCells(k) = Columns
      BY <1>1, ToldCells
    <3> QED  BY <2>4, <2>9, <3>1, <3>2
  <2>11. RequestsInv' /\ DOMAIN requests' = CO!Slots
         /\ requests'[s] = CO!Idle /\ \A t \in CO!Slots : t # s => requests'[t] = requests[t]
    BY <1>1, <2>7, IdleAsked, RequestAnew DEF CO!Ends
  <2>12. torn' = (torn \/ CO!BesideColumns(s)) /\ torn \in BOOLEAN /\ crowded \in BOOLEAN
    BY <1>1, <2>3 DEF CO!Written, RowsShape
  <2>13. RowsShape'
    <3>1. torn' \in BOOLEAN /\ crowded' \in BOOLEAN
      BY <2>3, <2>12
    <3>2. \A i \in DOMAIN rows' : i \in 1 .. born' /\ IsRow(rows'[i])
      BY <1>1, <2>3, <2>6, <2>7 DEF RowsShape
    <3>3. \A i, j \in DOMAIN rows' : rows'[i].key = rows'[j].key => i = j
      BY <1>1, <2>6, <2>7, <2>8 DEF RowsShape
    <3>4. \A l \in DOMAIN told' : DOMAIN told'[l] = Columns
      BY <1>1, <2>9, <2>10 DEF RowsShape
    <3> QED  BY <1>1, <2>7, <2>11, <3>1, <3>2, <3>3, <3>4 DEF RowsShape, CO!Slots, IsRow
  <2>14. CO!keys' = CO!keys \cup {k}
    BY <2>6, <2>7 DEF CO!keys
  <2>15. ToldInv' /\ FlagsInv'
    <3>1. CASE CO!BesideColumns(s)
      <4>1. raced' = raced \cup (CO!keys \cup {k}) /\ torn'
        BY <2>3, <3>1 DEF CO!Written
      <4> QED  BY <1>1, <2>9, <2>14, <4>1, WroteBeside
    <3>2. CASE ~CO!BesideColumns(s)
      <4>1. r.shape = shape /\ \A t \in CO!Slots : ~Changes(t)
        BY <1>1, <3>2, NoneBeside
      <4>2. \A t \in CO!Slots : ~Changes(t)'
        BY <2>11, <4>1 DEF Changes, CO!Idle
      <4>3. raced' = raced
        BY <2>3, <3>2 DEF CO!Written
      <4>4. CO!keys' \ raced' = DOMAIN told' \ raced'
        BY <1>1, <2>9, <2>14, <4>3 DEF ToldInv
      <4>5. ASSUME NEW i \in DOMAIN rows', Fresh(i)' PROVE AsTold(i)'
        <5>1. CASE i = id
          <6>1. k \notin DOMAIN told
            BY <1>1, <2>6, <2>7, <2>8, <4>3, <4>5, <5>1 DEF Fresh, ToldInv, CO!keys
          <6>2. \A c : CO!cell(told'[k], c) = CO!cell(r.given, c)
            <7>1. \A c : CO!cell(CO!toldCells(k), c) = CO!Empty
              BY <1>1, <6>1, ToldCells
            <7>2. \A c : c \notin DOMAIN r.given => CO!cell(r.given, c) = CO!Empty
              BY DEF CO!cell
            <7>3. \A c : CO!cell(CO!Merge(CO!toldCells(k), r.given), c) =
                           IF c \in DOMAIN r.given THEN CO!cell(r.given, c)
                           ELSE CO!cell(CO!toldCells(k), c)
              BY MergedCells
            <7> HIDE DEF r, k
            <7> QED  BY <2>9, <7>1, <7>2, <7>3
          <6>3. k = CO!cell(r.values, shape.key)
            BY <2>4, <4>1 DEF CO!keyValueOf
          <6> HIDE DEF r, k
          <6> QED  BY <1>1, <2>5, <2>6, <2>7, <5>1, <6>2, <6>3 DEF AsTold, VectorOf, CO!cell
        <5>2. CASE i # id
          <6>1. i \in DOMAIN rows /\ rows'[i] = rows[i] /\ Fresh(i) /\ rows[i].key # k
            BY <2>7, <2>8, <4>3, <4>5, <5>2 DEF Fresh
          <6>2. AsTold(i)
            BY <1>1, <4>1, <6>1, FreshAsTold
          <6>3. rows[i].key \in DOMAIN told
            BY <1>1, <6>1 DEF ToldInv, Fresh, CO!keys
          <6>4. told'[rows[i].key] = told[rows[i].key]
            BY <2>9, <6>1, <6>3
          <6> QED  BY <1>1, <6>1, <6>2, <6>4 DEF AsTold, VectorOf, CO!cell
        <5> QED  BY <5>1, <5>2
      <4>6. ASSUME NEW i \in DOMAIN rows', ~torn' PROVE Flagged(shape, i)'
        <5>1. CASE i = id
          BY <1>1, <2>6, <2>7, <4>1, <5>1 DEF Flagged, CO!isComplete, CO!cell
        <5>2. CASE i # id
          <6>1. i \in DOMAIN rows /\ rows'[i] = rows[i]
            BY <2>7, <5>2
          <6>2. Flagged(shape, i)
            BY <1>1, <2>12, <4>1, <4>6, <6>1, AllFlagged
          <6> QED  BY <1>1, <6>1, <6>2 DEF Flagged, CO!isComplete, CO!cell
        <5> QED  BY <5>1, <5>2
      <4> QED  BY <4>2, <4>4, <4>5, <4>6, WroteAlone
    <3> QED  BY <3>1, <3>2
  <2>16. CO!RoomKept'
    <3>1. IsFiniteSet(DOMAIN rows) /\ Cardinality(DOMAIN rows) \in Nat
      BY <1>1, FiniteRows
    <3>2. Cardinality(DOMAIN rows') = Cardinality(DOMAIN rows) + 1
      BY <2>7, <3>1, FS_AddElement
    <3>3. ~crowded' => DOMAIN rows = r.seen
      BY <2>3
    <3>4. ~crowded' => ~ (Cardinality(DOMAIN rows') > MaxRows)
      BY <2>1, <3>1, <3>2, <3>3, RowsAssumption
    <3> QED  BY <3>4, RowCardinality DEF CO!RoomKept
  <2> QED  BY <2>11, <2>13, <2>15, <2>16 DEF CollectionInv
<1> QED  BY <1>2, <1>3

\* A row that is written over, under the key k: the request read it as `was`, and asked for
\* the cells `asked` under the key q.
WritesOver(s, id, k, q, was, w, asked) ==
  /\ id \in DOMAIN rows /\ DOMAIN rows' = DOMAIN rows /\ rows'[id] = w
  /\ \A j \in DOMAIN rows : j # id => rows'[j] = rows[j] /\ rows[j].key # k
  /\ IsRow(w) /\ VectorOf(w) /\ w.key = k
  /\ w.complete = CO!isComplete(requests[s].shape, w.values)
  /\ DOMAIN told' = (DOMAIN told \ {was.key}) \cup {q} /\ told'[q] = asked
  /\ \A l \in DOMAIN told \ {was.key} : l # q => told'[l] = told[l]
  /\ DOMAIN asked = Columns
  /\ \A c : CO!cell(was.values, c) = CO!cell(CO!toldCells(was.key), c) =>
            CO!cell(w.values, c) = CO!cell(asked, c)
  /\ rows[id] = was => k = q
  /\ q = CO!cell(w.values, requests[s].shape.key)
  /\ CO!Written(s, rows[id] # was, {k, q, was.key, rows[id].key})

\* A row that stays, with what was told of it.
LEMMA StaysAsTold ==
  ASSUME NEW i, AsTold(i), rows'[i] = rows[i], told'[rows[i].key] = told[rows[i].key],
         shape' = shape
  PROVE  AsTold(i)'
BY DEF AsTold, VectorOf, CO!cell

LEMMA WroteOver ==
  ASSUME RowsShape, ToldInv, FlagsInv, CO!RoomKept, NEW s \in CO!Slots, ~Changes(s), ~Changes(s)',
         \A t \in CO!Slots : t # s => requests'[t] = requests[t],
         NEW id, NEW k, NEW q, NEW was, NEW w, NEW asked,
         WritesOver(s, id, k, q, was, w, asked),
         UNCHANGED <<shape, born, made, breaks, crowded>>, DOMAIN requests' = CO!Slots
  PROVE  RowsShape' /\ ToldInv' /\ FlagsInv' /\ CO!RoomKept'
<1>0. /\ id \in DOMAIN rows /\ DOMAIN rows' = DOMAIN rows /\ rows'[id] = w
      /\ \A j \in DOMAIN rows : j # id => rows'[j] = rows[j] /\ rows[j].key # k
      /\ IsRow(w) /\ VectorOf(w) /\ w.key = k
      /\ w.complete = CO!isComplete(requests[s].shape, w.values)
      /\ DOMAIN told' = (DOMAIN told \ {was.key}) \cup {q} /\ told'[q] = asked
      /\ \A l \in DOMAIN told \ {was.key} : l # q => told'[l] = told[l]
      /\ DOMAIN asked = Columns
      /\ \A c : CO!cell(was.values, c) = CO!cell(CO!toldCells(was.key), c) =>
                CO!cell(w.values, c) = CO!cell(asked, c)
      /\ rows[id] = was => k = q
      /\ q = CO!cell(w.values, requests[s].shape.key)
      /\ CO!Written(s, rows[id] # was, {k, q, was.key, rows[id].key})
  BY Zenon DEF WritesOver
<1> USE <1>0
<1> DEFINE ks == {k, q, was.key, rows[id].key}
<1>1. torn' = (torn \/ CO!BesideColumns(s)) /\ torn' \in BOOLEAN
  BY DEF CO!Written, RowsShape
<1>2. RowsShape'
  <2>1. \A i \in DOMAIN rows' : i \in 1 .. born' /\ IsRow(rows'[i])
    BY DEF RowsShape
  <2>2. \A i, j \in DOMAIN rows' : rows'[i].key = rows'[j].key => i = j
    BY DEF RowsShape
  <2>3. \A l \in DOMAIN told' : DOMAIN told'[l] = Columns
    BY DEF RowsShape
  <2> QED  BY <1>1, <2>1, <2>2, <2>3 DEF RowsShape, CO!Slots, IsRow
<1>3. \A j \in DOMAIN rows : j # id => rows[j].key # rows[id].key
  BY DEF RowsShape
<1>4. CO!keys' \subseteq CO!keys \cup ks /\ \A l : l \notin ks => (l \in CO!keys' <=> l \in CO!keys)
  <2>1. \A j \in DOMAIN rows : rows'[j].key \in CO!keys \cup ks
    BY DEF CO!keys
  <2>2. \A j \in DOMAIN rows : rows[j].key \notin ks => rows'[j].key = rows[j].key
    OBVIOUS
  <2>3. \A j \in DOMAIN rows : rows'[j].key \notin ks => rows'[j].key = rows[j].key
    OBVIOUS
  <2> QED  BY <2>1, <2>2, <2>3 DEF CO!keys
<1>5. \A l : l \notin ks => (l \in DOMAIN told' <=> l \in DOMAIN told)
  OBVIOUS
<1>6. CASE CO!BesideColumns(s)
  <2>1. raced' = raced \cup (CO!keys \cup ks) /\ torn'
    BY <1>1, <1>6 DEF CO!Written
  <2>2. DOMAIN told' \subseteq DOMAIN told \cup ks
    OBVIOUS
  <2>3. ToldInv' /\ FlagsInv'
    BY <1>4, <2>1, <2>2, WroteBeside
  <2> QED  BY <1>2, <2>3 DEF CO!RoomKept, CO!Cardinality
<1>7. CASE ~CO!BesideColumns(s)
  <2>1. requests[s].shape = shape /\ \A t \in CO!Slots : ~Changes(t)
    BY <1>7, NoneBeside
  <2>2. \A t \in CO!Slots : ~Changes(t)'
    <3> TAKE t \in CO!Slots
    <3>1. CASE t = s
      BY <3>1
    <3>2. CASE t # s
      BY <2>1, <3>2 DEF Changes
    <3> QED  BY <3>1, <3>2
  <2>3. raced' = raced \cup (IF rows[id] # was \/ ks \cap raced # {} THEN ks ELSE {})
    BY <1>7 DEF CO!Written
  <2>4. ASSUME NEW i \in DOMAIN rows, i # id, rows[i].key \notin raced', rows[i].key # q,
               rows[i].key # was.key
        PROVE  AsTold(i)'
    <3>1. Fresh(i) /\ rows'[i] = rows[i]
      BY <2>3, <2>4 DEF Fresh
    <3>2. AsTold(i)
      BY <2>1, <3>1, FreshAsTold
    <3>3. rows[i].key \in DOMAIN told
      BY <3>1 DEF ToldInv, Fresh, CO!keys
    <3>4. told'[rows[i].key] = told[rows[i].key]
      BY <2>4, <3>3
    <3> QED  BY <3>1, <3>2, <3>4, StaysAsTold
  <2>5. ASSUME NEW i \in DOMAIN rows', ~torn' PROVE Flagged(shape, i)'
    <3>1. CASE i = id
      BY <2>1, <3>1 DEF Flagged, CO!isComplete, CO!cell
    <3>2. CASE i # id
      <4>1. i \in DOMAIN rows /\ rows'[i] = rows[i]
        BY <3>2
      <4>2. Flagged(shape, i)
        BY <1>1, <2>1, <2>5, <4>1, AllFlagged DEF RowsShape
      <4> QED  BY <4>1, <4>2 DEF Flagged, CO!isComplete, CO!cell
    <3> QED  BY <3>1, <3>2
  <2>6. CASE rows[id] # was \/ ks \cap raced # {}
    <3>1. raced' = raced \cup ks
      BY <2>3, <2>6
    <3>2. CO!keys' \ raced' = DOMAIN told' \ raced'
      BY <1>4, <1>5, <3>1 DEF ToldInv
    <3>3. ASSUME NEW i \in DOMAIN rows', Fresh(i)' PROVE AsTold(i)'
      <4>1. i # id /\ rows'[i].key \notin raced'
        BY <3>1, <3>3 DEF Fresh
      <4>2. i \in DOMAIN rows /\ rows'[i] = rows[i]
        BY <4>1
      <4>3. rows[i].key # q /\ rows[i].key # was.key /\ rows[i].key \notin raced'
        BY <3>1, <4>1, <4>2
      <4> QED  BY <2>4, <4>1, <4>2, <4>3
    <3>4. ToldInv' /\ FlagsInv'
      BY <2>2, <2>5, <3>2, <3>3, WroteAlone
    <3> QED  BY <1>2, <3>4 DEF CO!RoomKept, CO!Cardinality
  <2>7. CASE rows[id] = was /\ ks \cap raced = {}
    <3>1. raced' = raced /\ k = q
      BY <2>3, <2>7
    <3>2. was.key \in DOMAIN told /\ Fresh(id)
      BY <2>7 DEF ToldInv, Fresh, CO!keys
    <3>3. CO!keys' \ raced' = DOMAIN told' \ raced'
      <4>1. CO!keys' = (CO!keys \ {was.key}) \cup {k}
        <5>1. \A l : l \in CO!keys' => l \in (CO!keys \ {was.key}) \cup {k}
          BY <1>3, <2>7 DEF CO!keys
        <5>2. k \in CO!keys'
          BY DEF CO!keys
        <5>3. ASSUME NEW l \in CO!keys, l # was.key PROVE l \in CO!keys'
          <6>1. PICK j \in DOMAIN rows : rows[j].key = l
            BY DEF CO!keys
          <6>2. j # id
            BY <2>7, <5>3, <6>1
          <6>3. rows'[j].key = l /\ j \in DOMAIN rows'
            BY <6>1, <6>2
          <6> QED  BY <6>3 DEF CO!keys
        <5> QED  BY <5>1, <5>2, <5>3
      <4> QED  BY <3>1, <4>1 DEF ToldInv
    <3>4. ASSUME NEW i \in DOMAIN rows', Fresh(i)' PROVE AsTold(i)'
      <4>1. CASE i = id
        <5>1. AsTold(id) /\ CO!toldCells(was.key) = told[was.key]
          BY <2>1, <3>2, FreshAsTold DEF CO!toldCells
        <5>2. \A c \in Columns : CO!cell(w.values, c) = CO!cell(asked, c)
          BY <2>7, <5>1 DEF AsTold
        <5> QED  BY <2>1, <3>1, <4>1, <5>2 DEF AsTold, VectorOf, CO!cell
      <4>2. CASE i # id
        <5>1. rows[i].key # q /\ rows[i].key # was.key /\ rows[i].key \notin raced'
          BY <1>3, <2>7, <3>1, <3>4, <4>2 DEF Fresh
        <5> QED  BY <2>4, <4>2, <5>1
      <4> QED  BY <4>1, <4>2
    <3>5. ToldInv' /\ FlagsInv'
      BY <2>2, <2>5, <3>3, <3>4, WroteAlone
    <3> QED  BY <1>2, <3>5 DEF CO!RoomKept, CO!Cardinality
  <2> QED  BY <2>6, <2>7
<1> QED  BY <1>6, <1>7

\* A row is written over by what a tool asked for, if its key is free.
LEMMA NextUpdateRow ==
  ASSUME CollectionInv, NEW s \in CO!Slots, CO!UpdateRow(s)
  PROVE  CollectionInv'
<1> DEFINE r == requests[s]
<1> DEFINE id == r.id
<1> DEFINE was == r.was
<1> DEFINE k == IF r.op = "edit" THEN r.key ELSE rows[id].key
<1>1. /\ RowsShape /\ RequestsInv /\ ToldInv /\ FlagsInv /\ CO!RoomKept
      /\ r.op \in {"update", "edit"} /\ CO!Ends(s) /\ UNCHANGED <<shape, made, breaks, born, crowded>>
      /\ made \in 0 .. MaxRequests /\ breaks \in 0 .. MaxFaults
      /\ ~Changes(s)
  BY DEF CollectionInv, RowsShape, CO!UpdateRow, Changes
<1>2. CASE id \notin DOMAIN rows \/ CO!withKey(k) \ {id} # {}
  <2>1. UNCHANGED <<rows, told, raced, torn>>
    BY <1>2 DEF CO!UpdateRow
  <2> QED  BY <1>1, <2>1, EndsUnwritten
<1>3. CASE ~ (id \notin DOMAIN rows \/ CO!withKey(k) \ {id} # {})
  <2> DEFINE asked == CO!Merge(CO!toldCells(was.key), r.given)
  <2>1. /\ AskedOne(r) /\ IsRow(was) /\ r.values = CO!Merge(was.values, r.given)
        /\ (r.op = "update" => was.key = r.key)
    BY <1>1 DEF RequestsInv, Asked
  <2>2. PICK v \in CO!Vectors(r.values) : rows' = [rows EXCEPT ![id] = CO!Row(k, r.shape, r.values, v)]
    BY <1>3 DEF CO!UpdateRow
  <2> DEFINE w == CO!Row(k, r.shape, r.values, v)
  <2>3. /\ told' = CO!Put(CO!Without(told, {was.key}), r.key, asked)
        /\ CO!Written(s, rows[id] # was, {k, r.key, was.key, rows[id].key})
    BY <1>3 DEF CO!UpdateRow
  <2>4. /\ r.shape \in Shapes /\ DOMAIN r.given \subseteq r.shape.cols
        /\ r.shape.cols \subseteq Columns /\ r.shape.key \in r.shape.cols
        /\ r.key = CO!cell(r.values, r.shape.key)
    BY <2>1, RowsAssumption DEF AskedOne, CO!keyValueOf
  <2>5. /\ DOMAIN CO!Merge(was.values, r.given) = DOMAIN was.values \cup DOMAIN r.given
        /\ \A c : CO!cell(CO!Merge(was.values, r.given), c) =
                    IF c \in DOMAIN r.given THEN CO!cell(r.given, c) ELSE CO!cell(was.values, c)
    BY MergedCells
  <2>6. /\ DOMAIN asked = DOMAIN CO!toldCells(was.key) \cup DOMAIN r.given
        /\ \A c : CO!cell(asked, c) = IF c \in DOMAIN r.given THEN CO!cell(r.given, c)
                                      ELSE CO!cell(CO!toldCells(was.key), c)
    BY MergedCells
  <2>7. DOMAIN CO!toldCells(was.key) = Columns
    BY <1>1, ToldCells
  <2>8. DOMAIN asked = Columns /\ DOMAIN r.values \subseteq Columns
    BY <2>1, <2>4, <2>5, <2>6, <2>7 DEF IsRow
  <2>9. /\ IsRow(w) /\ VectorOf(w) /\ w.key = k /\ w.values = r.values
        /\ w.complete = CO!isComplete(r.shape, r.values)
    BY <2>2, <2>4, <2>8, WrittenRow DEF CO!Vectors
  <2>10. \A c : CO!cell(was.values, c) = CO!cell(CO!toldCells(was.key), c) =>
                  CO!cell(w.values, c) = CO!cell(asked, c)
    BY <2>1, <2>5, <2>6, <2>9
  <2> HIDE DEF w, asked
  <2>11. /\ DOMAIN rows' = DOMAIN rows /\ rows'[id] = w /\ id \in DOMAIN rows
         /\ \A j \in DOMAIN rows : j # id => rows'[j] = rows[j] /\ rows[j].key # k
    BY <1>3, <2>2 DEF CO!withKey, w
  <2>12. /\ DOMAIN told' = (DOMAIN told \ {was.key}) \cup {r.key} /\ told'[r.key] = asked
         /\ \A l \in DOMAIN told \ {was.key} : l # r.key => told'[l] = told[l]
    BY <2>3 DEF CO!Put, CO!Without
  <2>13. rows[id] = was => k = r.key
    BY <1>1, <2>1
  <2>14. born' \in Nat /\ born <= born'
    BY <1>1 DEF RowsShape
  <2>15. RequestsInv' /\ DOMAIN requests' = CO!Slots
         /\ requests'[s] = CO!Idle /\ \A t \in CO!Slots : t # s => requests'[t] = requests[t]
    BY <1>1, <2>14, IdleAsked, RequestAnew DEF CO!Ends
  <2>16. ~Changes(s)'
    BY <2>15 DEF Changes, CO!Idle
  <2>17. w.complete = CO!isComplete(r.shape, w.values) /\ r.key = CO!cell(w.values, r.shape.key)
    BY <2>4, <2>9
  <2> DEFINE q == r.key
  <2>18. RowsShape' /\ ToldInv' /\ FlagsInv' /\ CO!RoomKept'
    <3> HIDE DEF k, id, was
    <3>1. WritesOver(s, id, k, q, was, w, asked)
      BY <2>3, <2>8, <2>9, <2>10, <2>11, <2>12, <2>13, <2>17 DEF WritesOver
    <3> HIDE DEF q
    <3> QED  BY <1>1, <2>15, <2>16, <3>1, WroteOver
  <2> QED  BY <2>15, <2>18 DEF CollectionInv
<1> QED  BY <1>2, <1>3

\* A row that is removed takes along what was told of it.
LEMMA NextRemoveRow ==
  ASSUME CollectionInv, NEW s \in CO!Slots, CO!RemoveRow(s)
  PROVE  CollectionInv'
<1> DEFINE r == requests[s]
<1> DEFINE id == r.id
<1> DEFINE gone == {rows[i].key : i \in DOMAIN rows \cap {id}}
<1>1. /\ RowsShape /\ RequestsInv /\ ToldInv /\ FlagsInv /\ CO!RoomKept
      /\ r.op = "remove" /\ CO!Ends(s) /\ UNCHANGED <<shape, made, breaks, born, crowded>>
      /\ made \in 0 .. MaxRequests /\ breaks \in 0 .. MaxFaults
      /\ ~Changes(s) /\ born' \in Nat /\ born <= born'
      /\ CO!Written(s, FALSE, {})
  <2>1. RowsShape /\ RequestsInv /\ ToldInv /\ FlagsInv /\ CO!RoomKept
    BY DEF CollectionInv
  <2>2. /\ r.op = "remove" /\ CO!Ends(s) /\ UNCHANGED <<shape, made, breaks, born, crowded>>
        /\ CO!Written(s, FALSE, {})
    BY DEF CO!RemoveRow
  <2>3. made \in 0 .. MaxRequests /\ breaks \in 0 .. MaxFaults /\ born \in Nat
    BY <2>1 DEF RowsShape
  <2>4. ~Changes(s)
    BY <2>2 DEF Changes
  <2>5. born' \in Nat /\ born <= born'
    BY <2>2, <2>3
  <2> QED  BY <2>1, <2>2, <2>3, <2>4, <2>5, Zenon
<1>2. /\ DOMAIN rows' = DOMAIN rows \ {id} /\ \A i \in DOMAIN rows' : rows'[i] = rows[i]
      /\ DOMAIN told' = DOMAIN told \ gone /\ \A l \in DOMAIN told' : told'[l] = told[l]
  BY DEF CO!RemoveRow, CO!Without
<1>3. torn' = (torn \/ CO!BesideColumns(s)) /\ torn' \in BOOLEAN
  BY <1>1 DEF CO!Written, RowsShape
<1>4. RequestsInv' /\ DOMAIN requests' = CO!Slots
      /\ requests'[s] = CO!Idle /\ \A t \in CO!Slots : t # s => requests'[t] = requests[t]
  BY <1>1, IdleAsked, RequestAnew DEF CO!Ends
<1>5. CO!keys' = CO!keys \ gone
  <2>1. \A i \in DOMAIN rows' : rows'[i].key \in CO!keys \ gone
    BY <1>1, <1>2 DEF CO!keys, RowsShape
  <2>2. \A l \in CO!keys \ gone : \E i \in DOMAIN rows' : rows'[i].key = l
    BY <1>2 DEF CO!keys
  <2> QED  BY <2>1, <2>2 DEF CO!keys
<1> HIDE DEF gone, id
<1>6. RowsShape'
  <2>1. \A i \in DOMAIN rows' : i \in 1 .. born' /\ IsRow(rows'[i])
    BY <1>1, <1>2 DEF RowsShape
  <2>2. \A i, j \in DOMAIN rows' : rows'[i].key = rows'[j].key => i = j
    BY <1>1, <1>2 DEF RowsShape
  <2>3. \A l \in DOMAIN told' : DOMAIN told'[l] = Columns
    BY <1>1, <1>2 DEF RowsShape
  <2> QED  BY <1>1, <1>3, <1>4, <2>1, <2>2, <2>3 DEF RowsShape, CO!Slots, IsRow
<1>7. ToldInv' /\ FlagsInv'
  <2>1. CASE CO!BesideColumns(s)
    <3>1. raced' = raced \cup (CO!keys \cup {}) /\ torn'
      BY <1>1, <2>1 DEF CO!Written
    <3> QED  BY <1>1, <1>2, <1>5, <3>1, WroteBeside
  <2>2. CASE ~CO!BesideColumns(s)
    <3>1. r.shape = shape /\ \A t \in CO!Slots : ~Changes(t)
      BY <1>1, <2>2, NoneBeside
    <3>2. \A t \in CO!Slots : ~Changes(t)'
      BY <1>4, <3>1 DEF Changes, CO!Idle
    <3>3. raced' = raced
      BY <1>1, <2>2 DEF CO!Written
    <3>4. CO!keys' \ raced' = DOMAIN told' \ raced'
      BY <1>1, <1>2, <1>5, <3>3 DEF ToldInv
    <3>5. ASSUME NEW i \in DOMAIN rows', Fresh(i)' PROVE AsTold(i)'
      <4>1. i \in DOMAIN rows /\ rows'[i] = rows[i] /\ Fresh(i)
        BY <1>2, <3>3, <3>5 DEF Fresh
      <4>2. AsTold(i)
        BY <1>1, <3>1, <4>1, FreshAsTold
      <4>3. rows[i].key \in DOMAIN told'
        BY <3>4, <3>5, <4>1 DEF Fresh, CO!keys
      <4>4. told'[rows[i].key] = told[rows[i].key]
        BY <1>2, <4>3
      <4> QED  BY <1>1, <4>1, <4>2, <4>4, StaysAsTold
    <3>6. ASSUME NEW i \in DOMAIN rows', ~torn' PROVE Flagged(shape, i)'
      <4>1. i \in DOMAIN rows /\ rows'[i] = rows[i]
        BY <1>2
      <4>2. Flagged(shape, i)
        BY <1>1, <1>3, <3>1, <3>6, <4>1, AllFlagged DEF RowsShape
      <4> QED  BY <1>1, <4>1, <4>2 DEF Flagged, CO!isComplete, CO!cell
    <3> QED  BY <3>2, <3>4, <3>5, <3>6, WroteAlone
  <2> QED  BY <2>1, <2>2
<1>8. CO!RoomKept'
  <2>1. IsFiniteSet(DOMAIN rows) /\ Cardinality(DOMAIN rows) \in Nat
    BY <1>1, FiniteRows
  <2>2. DOMAIN rows' \subseteq DOMAIN rows
    BY <1>2
  <2>3. Cardinality(DOMAIN rows') \in Nat /\ Cardinality(DOMAIN rows') <= Cardinality(DOMAIN rows)
    BY <2>1, <2>2, FS_Subset, FS_CardinalityType
  <2> QED  BY <1>1, <2>1, <2>3, RowCardinality, RowsAssumption DEF CO!RoomKept
<1> QED  BY <1>4, <1>6, <1>7, <1>8 DEF CollectionInv

\* The request of an import with another field.
LEMMA OtherUpdates ==
  ASSUME NEW s \in CO!Slots, AskedImport(requests[s]), Counted(requests[s], born), NEW f,
         DOMAIN f \subseteq DOMAIN requests[s].updates,
         \A n \in DOMAIN f : f[n] = requests[s].updates[n]
  PROVE  LET x == [requests[s] EXCEPT !.updates = f]
         IN Asked(x) /\ Counted(x, born) /\ x.op = "import"
<1> DEFINE r == requests[s]
<1> DEFINE x == [r EXCEPT !.updates = f]
<1>1. x = [op |-> "import", shape |-> r.shape, left |-> r.left, inserts |-> r.inserts,
           updates |-> f, seen |-> r.seen, room |-> r.room]
  <2>1. r = ImportOf(r.shape, r.left, r.inserts, r.updates, r.seen, r.room)
    BY Zenon DEF AskedImport, ImportOf
  <2> DEFINE p == r.shape
  <2> DEFINE l == r.left
  <2> DEFINE i == r.inserts
  <2> DEFINE u == r.updates
  <2> DEFINE e == r.seen
  <2> DEFINE m == r.room
  <2>2. r = ImportOf(p, l, i, u, e, m)
    BY <2>1
  <2> HIDE DEF p, l, i, u, e, m, r
  <2>3. x = ImportOf(p, l, i, f, e, m)
    BY <2>2 DEF ImportOf
  <2> QED  BY <2>3 DEF ImportOf, p, l, i, e, m
<1> HIDE DEF x
<1>2. /\ x.op = "import" /\ x.shape = r.shape /\ x.left = r.left /\ x.inserts = r.inserts
      /\ x.updates = f /\ x.seen = r.seen /\ x.room = r.room
      /\ x = [op |-> "import", shape |-> x.shape, left |-> x.left, inserts |-> x.inserts,
              updates |-> x.updates, seen |-> x.seen, room |-> x.room]
  BY <1>1
<1>3. AskedImport(x)
  <2> HIDE DEF r
  <2> QED  BY <1>2 DEF AskedImport, r
<1>4. Counted(x, born)
  BY <1>2 DEF Counted, AskedImport
<1>5. Asked(x)
  BY <1>2, <1>3 DEF Asked
<1> QED  BY <1>2, <1>4, <1>5 DEF x

\* An update of a document fills the cells of its row, by the key of the document.
LEMMA NextUpdateNext ==
  ASSUME CollectionInv, NEW s \in CO!Slots, CO!UpdateNext(s)
  PROVE  CollectionInv'
<1> DEFINE r == requests[s]
<1>1. /\ RowsShape /\ RequestsInv /\ ToldInv /\ FlagsInv /\ CO!RoomKept
      /\ r.op = "import" /\ AskedImport(r) /\ Counted(r, born)
      /\ UNCHANGED <<shape, made, breaks, born, crowded>>
      /\ made \in 0 .. MaxRequests /\ breaks \in 0 .. MaxFaults
      /\ ~Changes(s) /\ born' \in Nat /\ born <= born'
  BY DEF CollectionInv, RequestsInv, Asked, RowsShape, CO!UpdateNext, Changes
<1>2. PICK n \in CO!First(DOMAIN r.updates, 1) :
        LET u == r.updates[n]
            q == CO!keyValueOf(r.shape, u.given)
        IN /\ requests' = [requests EXCEPT ![s] = [r EXCEPT !.updates = CO!Without(@, {n})]]
           /\ IF u.id \notin DOMAIN rows
              THEN UNCHANGED <<rows, told, raced, torn>>
              ELSE /\ \E v \in CO!Vectors(u.values) :
                        rows' = [rows EXCEPT
                                   ![u.id] = CO!Row(rows[u.id].key, r.shape, u.values, v)]
                   /\ told' = CO!Put(told, q, CO!Fill(CO!toldCells(q), u.given))
                   /\ CO!Written(s, rows[u.id] # u.was, {q, rows[u.id].key})
  BY DEF CO!UpdateNext
<1> DEFINE u == r.updates[n]
<1> DEFINE id == u.id
<1> DEFINE was == u.was
<1> DEFINE q == CO!keyValueOf(r.shape, u.given)
<1> DEFINE f == CO!Without(r.updates, {n})
<1> DEFINE x == [r EXCEPT !.updates = f]
<1>3. n \in DOMAIN r.updates
  BY DEF CO!First
<1>4. Asked(x) /\ Counted(x, born) /\ x.op = "import"
  <2>1. DOMAIN f \subseteq DOMAIN r.updates /\ \A m \in DOMAIN f : f[m] = r.updates[m]
    BY DEF CO!Without
  <2> HIDE DEF f
  <2> QED  BY <1>1, <2>1, OtherUpdates
<1>5. requests' = [requests EXCEPT ![s] = x]
  BY <1>2
<1> HIDE DEF x
<1>6. CASE id \notin DOMAIN rows
  <2>1. UNCHANGED <<rows, told, raced, torn>>
    BY <1>2, <1>6
  <2> QED  BY <1>1, <1>4, <1>5, <2>1, GoesOn
<1>7. CASE id \in DOMAIN rows
  <2> DEFINE k == rows[id].key
  <2> DEFINE asked == CO!Fill(CO!toldCells(q), u.given)
  <2>1. PICK v \in CO!Vectors(u.values) : rows' = [rows EXCEPT ![id] = CO!Row(k, r.shape, u.values, v)]
    BY <1>2, <1>7
  <2> DEFINE w == CO!Row(k, r.shape, u.values, v)
  <2>2. told' = CO!Put(told, q, asked) /\ CO!Written(s, rows[id] # was, {q, k})
    BY <1>2, <1>7
  <2>3. /\ IsRecord(r.shape, u.given) /\ IsRow(was) /\ was.key = q
        /\ u.values = CO!Fill(was.values, u.given)
    BY <1>1, <1>3 DEF AskedImport
  <2>4. /\ r.shape \in Shapes /\ DOMAIN u.given \subseteq Columns
        /\ q = CO!cell(u.given, r.shape.key) /\ q # CO!Empty
    BY <1>1, <2>3, RowsAssumption DEF AskedImport, IsRecord, CO!keyValueOf
  <2>5. /\ DOMAIN CO!Fill(was.values, u.given) \subseteq DOMAIN was.values \cup DOMAIN u.given
        /\ \A c : CO!cell(CO!Fill(was.values, u.given), c) =
                    IF CO!cell(u.given, c) # CO!Empty THEN CO!cell(u.given, c)
                    ELSE CO!cell(was.values, c)
    BY FilledCells
  <2>6. /\ DOMAIN asked \subseteq DOMAIN CO!toldCells(q) \cup DOMAIN u.given
        /\ DOMAIN CO!toldCells(q) \subseteq DOMAIN asked
        /\ \A c : CO!cell(asked, c) = IF CO!cell(u.given, c) # CO!Empty THEN CO!cell(u.given, c)
                                      ELSE CO!cell(CO!toldCells(q), c)
    BY FilledCells
  <2>7. DOMAIN CO!toldCells(q) = Columns
    BY <1>1, ToldCells
  <2>8. DOMAIN asked = Columns /\ DOMAIN u.values \subseteq Columns
    BY <2>3, <2>4, <2>5, <2>6, <2>7 DEF IsRow
  <2>9. /\ IsRow(w) /\ VectorOf(w) /\ w.key = k /\ w.values = u.values
        /\ w.complete = CO!isComplete(r.shape, u.values)
    BY <2>1, <2>4, <2>8, WrittenRow DEF CO!Vectors
  <2>10. \A c : CO!cell(was.values, c) = CO!cell(CO!toldCells(was.key), c) =>
                  CO!cell(w.values, c) = CO!cell(asked, c)
    BY <2>3, <2>5, <2>6, <2>9
  <2> HIDE DEF w, asked, q
  <2>11. /\ DOMAIN rows' = DOMAIN rows /\ rows'[id] = w /\ id \in DOMAIN rows
         /\ \A j \in DOMAIN rows : j # id => rows'[j] = rows[j] /\ rows[j].key # k
    BY <1>1, <1>7, <2>1 DEF RowsShape, w
  <2>12. /\ DOMAIN told' = (DOMAIN told \ {was.key}) \cup {q} /\ told'[q] = asked
         /\ \A l \in DOMAIN told \ {was.key} : l # q => told'[l] = told[l]
    BY <2>2, <2>3 DEF CO!Put
  <2>13. rows[id] = was => k = q
    BY <2>3
  <2>14. w.complete = CO!isComplete(r.shape, w.values) /\ q = CO!cell(w.values, r.shape.key)
    BY <2>3, <2>4, <2>5, <2>9
  <2>15. RequestsInv' /\ DOMAIN requests' = CO!Slots
         /\ requests'[s] = x /\ \A t \in CO!Slots : t # s => requests'[t] = requests[t]
    BY <1>1, <1>4, <1>5, RequestAnew
  <2>16. ~Changes(s)'
    BY <1>4, <2>15 DEF Changes
  <2>17. CO!Written(s, rows[id] # was, {k, q, was.key, rows[id].key})
    <3>1. {k, q, was.key, rows[id].key} = {q, k}
      BY <2>3
    <3> QED  BY <2>2, <3>1
  <2>18. WritesOver(s, id, k, q, was, w, asked)
    <3> HIDE DEF id, was, k
    <3> QED  BY <2>8, <2>9, <2>10, <2>11, <2>12, <2>13, <2>14, <2>17 DEF WritesOver
  <2> HIDE DEF id, was, k, r
  <2>19. RowsShape' /\ ToldInv' /\ FlagsInv' /\ CO!RoomKept'
    BY <1>1, <2>15, <2>16, <2>18, WroteOver
  <2> QED  BY <2>15, <2>19 DEF CollectionInv
<1> QED  BY <1>6, <1>7

LEMMA NextEndImport ==
  ASSUME CollectionInv, NEW s \in CO!Slots, CO!EndImport(s)
  PROVE  CollectionInv'
<1>1. /\ RowsShape /\ RequestsInv /\ ToldInv /\ FlagsInv /\ CO!RoomKept
      /\ CO!Ends(s) /\ ~Changes(s)
      /\ made' \in 0 .. MaxRequests /\ breaks' \in 0 .. MaxFaults
      /\ UNCHANGED <<shape, rows, born, told, raced, torn, crowded>>
  BY DEF CollectionInv, RowsShape, CO!EndImport, Changes
<1> QED  BY <1>1, EndsUnwritten

\* What breaks off leaves what it wrote; the rows of a column change count for nothing.
LEMMA NextBreakOff ==
  ASSUME CollectionInv, NEW s \in CO!Slots, CO!BreakOff(s)
  PROVE  CollectionInv'
<1>1. /\ RowsShape /\ RequestsInv /\ ToldInv /\ FlagsInv /\ CO!RoomKept
      /\ CO!Ends(s) /\ made' \in 0 .. MaxRequests /\ breaks' \in 0 .. MaxFaults
      /\ UNCHANGED <<shape, rows, born, told, crowded>> /\ born' \in Nat /\ born <= born'
  BY RowsAssumption DEF CollectionInv, RowsShape, CO!BreakOff
<1>2. CASE Changes(s)
  <2>1. torn' /\ torn' \in BOOLEAN /\ raced' = raced \cup CO!keys \cup DOMAIN told
    BY <1>2 DEF CO!BreakOff, Changes
  <2>2. RequestsInv' /\ DOMAIN requests' = CO!Slots
    BY <1>1, IdleAsked, RequestAnew DEF CO!Ends
  <2>3. RowsShape'
    BY <1>1, <2>1, <2>2, UnwrittenShape
  <2>4. ToldInv' /\ FlagsInv'
    BY <1>1, <2>1, WroteBeside DEF CO!keys
  <2>5. CO!RoomKept'
    BY <1>1 DEF CO!RoomKept, CO!Cardinality
  <2> QED  BY <2>2, <2>3, <2>4, <2>5 DEF CollectionInv
<1>3. CASE ~Changes(s)
  <2>1. UNCHANGED <<torn, raced>>
    BY <1>3 DEF CO!BreakOff, Changes
  <2> QED  BY <1>1, <1>3, <2>1, EndsUnwritten
<1> QED  BY <1>2, <1>3

\* What two sets have that have nothing in common.
LEMMA Together ==
  ASSUME NEW S, NEW T, IsFiniteSet(S), IsFiniteSet(T), S \cap T = {}
  PROVE  Cardinality(S \cup T) = Cardinality(S) + Cardinality(T)
<1>1. Cardinality(S \cup T) = Cardinality(S) + Cardinality(T) - Cardinality({})
  BY FS_Union
<1>2. Cardinality(S) \in Nat /\ Cardinality(T) \in Nat /\ Cardinality({}) = 0
  BY FS_CardinalityType, FS_EmptySet
<1> DEFINE a == Cardinality(S)
<1> DEFINE b == Cardinality(T)
<1> HIDE DEF a, b
<1>3. a \in Nat /\ b \in Nat /\ a + b - 0 = a + b
  BY <1>2 DEF a, b
<1>4. Cardinality(S \cup T) = a + b - 0
  BY <1>1, <1>2 DEF a, b
<1> QED  BY <1>3, <1>4 DEF a, b

\* The records of a batch go to the added that follow, each to one.
LEMMA BatchPlaces ==
  ASSUME NEW D, D \subseteq Nat, IsFiniteSet(D), NEW b \in Nat
  PROVE  LET added == b + 1 .. b + Cardinality(D)
             Of(i) == CO!Nth(D, i - b)
         IN /\ IsFiniteSet(added) /\ Cardinality(added) = Cardinality(D) /\ Cardinality(D) \in Nat
            /\ \A i \in added : Of(i) \in D
            /\ \A i, j \in added : Of(i) = Of(j) => i = j
            /\ \A n \in D : \E i \in added : Of(i) = n
<1> DEFINE N == Cardinality(D)
<1> DEFINE added == b + 1 .. b + N
<1> DEFINE Of(i) == CO!Nth(D, i - b)
<1>1. N \in Nat /\ \A i \in D : CO!Before(D, i) \in 0 .. N - 1
  BY BeforeBounds
<1>2. IsFiniteSet(added) /\ Cardinality(added) = N
  <2>1. IsFiniteSet(added)
    BY <1>1, FS_Interval
  <2>2. b + 1 \in Int /\ b + N \in Int /\ b + 1 <= b + N + 1
    BY <1>1
  <2>3. Cardinality(added) = IF b + 1 > b + N THEN 0 ELSE (b + N) - (b + 1) + 1
    BY <1>1, <2>2, FS_Interval
  <2> HIDE DEF added
  <2> QED  BY <1>1, <2>1, <2>3
<1>3. ASSUME NEW i \in added PROVE Of(i) \in D /\ CO!Before(D, Of(i)) = i - b - 1
  <2>1. i - b \in 1 .. N
    BY <1>1
  <2> HIDE DEF added, N
  <2> QED  BY <2>1, NthMember DEF N
<1>4. ASSUME NEW i \in added, NEW j \in added, Of(i) = Of(j) PROVE i = j
  <2>1. i - b - 1 = j - b - 1 /\ i \in Int /\ j \in Int
    <3>1. i \in Int /\ j \in Int
      BY <1>1
    <3> HIDE DEF added
    <3> QED  BY <1>3, <1>4, <3>1
  <2> HIDE DEF added, Of, N
  <2> QED  BY <2>1
<1>5. ASSUME NEW n \in D PROVE \E i \in added : Of(i) = n
  <2> DEFINE p == CO!Before(D, n)
  <2>1. p \in 0 .. N - 1
    BY <1>1
  <2> HIDE DEF p
  <2>2. b + 1 + p \in added
    BY <1>1, <2>1
  <2>3. Of(b + 1 + p) \in D /\ CO!Before(D, Of(b + 1 + p)) = (b + 1 + p) - b - 1
    <3> HIDE DEF added, Of
    <3> QED  BY <1>3, <2>2
  <2>4. (b + 1 + p) - b - 1 = p
    BY <2>1, <1>1
  <2>5. Of(b + 1 + p) = n
    <3> HIDE DEF added, Of
    <3> QED  BY <2>3, <2>4, EachPlace DEF p
  <2> QED  BY <2>2, <2>5
<1> HIDE DEF added, Of, N
<1>6. /\ IsFiniteSet(added) /\ Cardinality(added) = N /\ N \in Nat
      /\ \A i \in added : Of(i) \in D
      /\ \A i, j \in added : Of(i) = Of(j) => i = j
      /\ \A n \in D : \E i \in added : Of(i) = n
  BY <1>1, <1>2, <1>3, <1>4, <1>5
<1> QED  BY <1>6 DEF added, Of, N

\* The request of an import whose batch is inserted.
LEMMA AfterBatch ==
  ASSUME RowsShape, NEW s \in CO!Slots, AskedImport(requests[s]), Counted(requests[s], born),
         NEW added, NEW N \in Nat, added = born + 1 .. born + N, IsFiniteSet(added),
         Cardinality(added) = N, N = Cardinality(DOMAIN requests[s].inserts)
  PROVE  LET x == [requests[s] EXCEPT !.inserts = <<>>, !.seen = @ \cup added]
         IN Asked(x) /\ Counted(x, born + N) /\ x.op = "import"
<1> DEFINE r == requests[s]
<1> DEFINE D == DOMAIN r.inserts
<1> DEFINE seen == r.seen \cup added
<1> DEFINE x == [r EXCEPT !.inserts = <<>>, !.seen = @ \cup added]
<1>1. x = [op |-> "import", shape |-> r.shape, left |-> r.left, inserts |-> <<>>,
           updates |-> r.updates, seen |-> seen, room |-> r.room]
  <2>1. r = ImportOf(r.shape, r.left, r.inserts, r.updates, r.seen, r.room)
    BY Zenon DEF AskedImport, ImportOf
  <2> DEFINE p == r.shape
  <2> DEFINE l == r.left
  <2> DEFINE i == r.inserts
  <2> DEFINE u == r.updates
  <2> DEFINE e == r.seen
  <2> DEFINE m == r.room
  <2>2. r = ImportOf(p, l, i, u, e, m)
    BY <2>1
  <2> HIDE DEF p, l, i, u, e, m, r
  <2> DEFINE a == ImportOf(p, l, <<>>, u, e, m)
  <2> DEFINE f == e \cup added
  <2> HIDE DEF f
  <2>4. [r EXCEPT !.inserts = <<>>] = a /\ a.seen = e /\ r.seen = e
    BY <2>2 DEF ImportOf
  <2>5. [a EXCEPT !.seen = f] = ImportOf(p, l, <<>>, u, f, m)
    BY DEF ImportOf
  <2>6. x = [[r EXCEPT !.inserts = <<>>] EXCEPT !.seen = f]
    <3>1. [r EXCEPT !.inserts = <<>>].seen = r.seen
      BY <2>4
    <3> QED  BY <2>4, <3>1 DEF f
  <2> HIDE DEF a, x
  <2>3. x = ImportOf(p, l, <<>>, u, e \cup added, m)
    BY <2>4, <2>5, <2>6 DEF f
  <2> QED  BY <2>3 DEF ImportOf, p, l, u, e, m, r
<1> HIDE DEF x
<1>2. /\ x.op = "import" /\ x.shape = r.shape /\ x.left = r.left /\ x.inserts = <<>>
      /\ x.updates = r.updates /\ x.seen = seen /\ x.room = r.room
      /\ x = [op |-> "import", shape |-> x.shape, left |-> x.left, inserts |-> x.inserts,
              updates |-> x.updates, seen |-> x.seen, room |-> x.room]
  BY <1>1
<1>3. DOMAIN <<>> = {} /\ IsFiniteSet({}) /\ Cardinality({}) = 0
  BY FS_EmptySet
<1>4. AskedImport(x)
  <2> HIDE DEF r, seen
  <2> QED  BY <1>2, <1>3 DEF AskedImport, r
<1>5. /\ r.seen \subseteq 1 .. born /\ r.room \in Int
      /\ r.room >= 0 => Cardinality(r.seen) + N + r.room <= MaxRows
  BY DEF Counted, AskedImport
<1>6. born \in Nat /\ IsFiniteSet(r.seen) /\ Cardinality(r.seen) \in Nat
  <2>1. born \in Nat /\ IsFiniteSet(1 .. born)
    BY FS_Interval DEF RowsShape
  <2> HIDE DEF r
  <2> QED  BY <1>5, <2>1, FS_Subset, FS_CardinalityType
<1>7. seen \subseteq 1 .. born + N
  <2> HIDE DEF r
  <2> QED  BY <1>5, <1>6
<1>8. Cardinality(seen) = Cardinality(r.seen) + N
  <2>1. r.seen \cap added = {}
    <3> HIDE DEF r
    <3> QED  BY <1>5, <1>6
  <2> HIDE DEF r
  <2> QED  BY <1>6, <2>1, Together
<1>9. Counted(x, born + N)
  <2> DEFINE e == Cardinality(r.seen)
  <2> DEFINE m == r.room
  <2>1. m \in Int /\ e \in Nat /\ (m >= 0 => e + N + m <= MaxRows)
    BY <1>5, <1>6
  <2> HIDE DEF e, m
  <2>2. m >= 0 => e + N + 0 + m <= MaxRows
    BY <2>1
  <2>3. m >= 0 => Cardinality(seen) + Cardinality(DOMAIN <<>>) + m <= MaxRows
    BY <1>3, <1>8, <2>1, <2>2 DEF e
  <2>4. x.room = m /\ x.op = "import" /\ x.seen = seen /\ x.inserts = <<>>
    BY <1>2 DEF m
  <2> HIDE DEF seen
  <2> QED  BY <1>3, <1>7, <2>1, <2>3, <2>4 DEF Counted
<1>10. Asked(x)
  BY <1>2, <1>4 DEF Asked
<1> QED  BY <1>2, <1>9, <1>10 DEF x

\* A batch of a document is inserted at once, with new keys.
LEMMA NextInsertBatch ==
  ASSUME CollectionInv, NEW s \in CO!Slots, CO!InsertBatch(s)
  PROVE  CollectionInv'
<1> DEFINE r == requests[s]
<1> DEFINE D == DOMAIN r.inserts
<1> DEFINE KeyOf(n) == CO!keyValueOf(r.shape, r.inserts[n])
<1> DEFINE At(k) == CHOOSE n \in D : KeyOf(n) = k
<1> DEFINE ks == {KeyOf(n) : n \in D}
<1> DEFINE N == Cardinality(D)
<1> DEFINE added == born + 1 .. born + N
<1> DEFINE Of(i) == CO!Nth(D, i - born)
<1>1. /\ RowsShape /\ RequestsInv /\ ToldInv /\ FlagsInv /\ CO!RoomKept
      /\ r.op = "import" /\ D # {} /\ AskedImport(r) /\ Counted(r, born)
      /\ UNCHANGED <<shape, made, breaks>>
  BY DEF CollectionInv, RequestsInv, Asked, CO!InsertBatch
<1>2. /\ made' \in 0 .. MaxRequests /\ breaks' \in 0 .. MaxFaults /\ ~Changes(s) /\ born \in Nat
      /\ torn \in BOOLEAN /\ crowded \in BOOLEAN
  BY <1>1 DEF RowsShape, Changes
<1>3. CASE CO!keys \cap ks # {}
  <2>1. CO!Ends(s) /\ UNCHANGED <<rows, born, told, raced, torn, crowded>>
    BY <1>3 DEF CO!InsertBatch
  <2> QED  BY <1>1, <1>2, <2>1, EndsUnwritten
<1>4. CASE CO!keys \cap ks = {}
  <2> DEFINE x == [r EXCEPT !.inserts = <<>>, !.seen = @ \cup added]
  <2>1. PICK v \in BOOLEAN :
          rows' = [i \in DOMAIN rows \cup added |->
                     IF i \in DOMAIN rows THEN rows[i]
                     ELSE CO!Row(KeyOf(Of(i)), r.shape, r.inserts[Of(i)],
                                 IF v THEN r.inserts[Of(i)] ELSE CO!NoVector)]
    BY <1>4, RowCardinality DEF CO!InsertBatch
  <2>2. /\ born' = born + N
        /\ requests' = [requests EXCEPT ![s] = x]
        /\ told' = [k \in DOMAIN told \cup ks |->
                      IF k \in ks THEN CO!Merge(CO!toldCells(k), r.inserts[At(k)])
                      ELSE told[k]]
        /\ crowded' = (crowded \/ DOMAIN rows \ r.seen # {})
        /\ CO!Written(s, FALSE, ks)
    BY <1>4, RowCardinality DEF CO!InsertBatch
  <2>3. /\ r.shape \in Shapes /\ D \subseteq Nat /\ IsFiniteSet(D)
        /\ r.shape.cols \subseteq Columns /\ r.shape.key \in r.shape.cols
        /\ \A n \in D : DOMAIN r.inserts[n] = r.shape.cols
        /\ \A m, n \in D : KeyOf(m) = KeyOf(n) => m = n
    BY <1>1, RowsAssumption DEF AskedImport, IsRecord
  <2>4. /\ IsFiniteSet(added) /\ Cardinality(added) = N /\ N \in Nat
        /\ \A i \in added : Of(i) \in D
        /\ \A i, j \in added : Of(i) = Of(j) => i = j
        /\ \A n \in D : \E i \in added : Of(i) = n
    <3> HIDE DEF D
    <3> QED  BY <1>2, <2>3, BatchPlaces
  <2>5. Asked(x) /\ Counted(x, born + N) /\ x.op = "import"
    <3> HIDE DEF added, N
    <3> QED  BY <1>1, <2>4, AfterBatch DEF added, N
  <2> HIDE DEF x
  <2>6. born' \in Nat /\ born <= born'
    BY <1>2, <2>2, <2>4
  <2>7. RequestsInv' /\ DOMAIN requests' = CO!Slots
        /\ requests'[s] = x /\ \A t \in CO!Slots : t # s => requests'[t] = requests[t]
    BY <1>1, <2>2, <2>5, <2>6, RequestAnew
  <2>8. ~Changes(s)'
    BY <2>5, <2>7 DEF Changes
  <2>9. added \cap DOMAIN rows = {} /\ added \subseteq 1 .. born' /\ DOMAIN rows \subseteq 1 .. born'
    <3>1. DOMAIN rows \subseteq 1 .. born
      BY <1>1 DEF RowsShape
    <3> HIDE DEF N
    <3> QED  BY <1>2, <2>2, <2>4, <3>1
  <2>10. /\ DOMAIN rows' = DOMAIN rows \cup added
         /\ \A i \in DOMAIN rows : rows'[i] = rows[i]
         /\ \A i \in added : rows'[i] = CO!Row(KeyOf(Of(i)), r.shape, r.inserts[Of(i)],
                                             IF v THEN r.inserts[Of(i)] ELSE CO!NoVector)
    <3> HIDE DEF added, Of, KeyOf, r
    <3> QED  BY <2>1, <2>9
  <2>11. ASSUME NEW i \in added
         PROVE  /\ IsRow(rows'[i]) /\ VectorOf(rows'[i]) /\ rows'[i].key = KeyOf(Of(i))
                /\ rows'[i].values = r.inserts[Of(i)] /\ rows'[i].key \in ks
                /\ rows'[i].complete = CO!isComplete(r.shape, rows'[i].values)
    <3> DEFINE y == IF v THEN r.inserts[Of(i)] ELSE CO!NoVector
    <3>1. Of(i) \in D /\ y \in {CO!NoVector, r.inserts[Of(i)]}
      <4> HIDE DEF added, Of, r
      <4> QED  BY <2>4
    <3>2. rows'[i] = CO!Row(KeyOf(Of(i)), r.shape, r.inserts[Of(i)], y)
      BY <2>10
    <3>3. DOMAIN r.inserts[Of(i)] \subseteq Columns
      BY <2>3, <3>1
    <3> DEFINE z == r.inserts[Of(i)]
    <3> DEFINE k == KeyOf(Of(i))
    <3>4. k \in ks
      BY <3>1
    <3> HIDE DEF y, Of, KeyOf, ks, added, k
    <3> HIDE DEF z
    <3>5. rows'[i] = CO!Row(k, r.shape, z, y) /\ DOMAIN z \subseteq Columns /\ y \in {CO!NoVector, z}
      BY <3>1, <3>2, <3>3 DEF z, k
    <3>6. /\ IsRow(rows'[i]) /\ VectorOf(rows'[i]) /\ rows'[i].key = k /\ rows'[i].values = z
          /\ rows'[i].complete = CO!isComplete(r.shape, z)
      BY <2>3, <3>5, WrittenRow
    <3> QED  BY <3>4, <3>6 DEF z, k
  <2>12. CO!keys' = CO!keys \cup ks
    <3>1. \A i \in DOMAIN rows' : rows'[i].key \in CO!keys \cup ks
      <4> HIDE DEF added, ks
      <4> QED  BY <2>10, <2>11 DEF CO!keys
    <3>2. ASSUME NEW n \in D PROVE \E i \in DOMAIN rows' : rows'[i].key = KeyOf(n)
      <4>1. PICK i \in added : Of(i) = n
        BY <2>4
      <4> HIDE DEF added, Of, KeyOf
      <4> QED  BY <2>10, <2>11, <4>1
    <3>3. \A l \in ks : \E i \in DOMAIN rows' : rows'[i].key = l
      BY <3>2
    <3>4. \A l \in CO!keys : \E i \in DOMAIN rows' : rows'[i].key = l
      BY <2>10 DEF CO!keys
    <3> HIDE DEF ks
    <3> QED  BY <3>1, <3>3, <3>4 DEF CO!keys
  <2>13. /\ DOMAIN told' = DOMAIN told \cup ks
         /\ \A k \in ks : told'[k] = CO!Merge(CO!toldCells(k), r.inserts[At(k)])
         /\ \A l \in DOMAIN told : l \notin ks => told'[l] = told[l]
    <3> HIDE DEF ks, At, r
    <3> QED  BY <2>2
  <2>14. ASSUME NEW n \in D PROVE At(KeyOf(n)) = n
    <3>1. At(KeyOf(n)) \in D /\ KeyOf(At(KeyOf(n))) = KeyOf(n)
      OBVIOUS
    <3> HIDE DEF At, KeyOf, D
    <3> QED  BY <2>3, <3>1
  <2>15. ASSUME NEW n \in D
         PROVE  /\ told'[KeyOf(n)] = CO!Merge(CO!toldCells(KeyOf(n)), r.inserts[n])
                /\ DOMAIN told'[KeyOf(n)] = Columns
    <3>1. KeyOf(n) \in ks
      OBVIOUS
    <3> HIDE DEF At, KeyOf, ks, D
    <3>2. told'[KeyOf(n)] = CO!Merge(CO!toldCells(KeyOf(n)), r.inserts[n])
      BY <2>13, <2>14, <3>1
    <3>3. DOMAIN CO!toldCells(KeyOf(n)) = Columns
      BY <1>1, ToldCells
    <3>4. DOMAIN CO!Merge(CO!toldCells(KeyOf(n)), r.inserts[n]) =
            DOMAIN CO!toldCells(KeyOf(n)) \cup DOMAIN r.inserts[n]
      BY MergedCells
    <3> QED  BY <2>3, <3>2, <3>3, <3>4
  <2>16. torn' = (torn \/ CO!BesideColumns(s)) /\ torn' \in BOOLEAN /\ crowded' \in BOOLEAN
    BY <1>2, <2>2 DEF CO!Written
  <2>17. RowsShape'
    <3>1. \A i \in DOMAIN rows' : i \in 1 .. born' /\ IsRow(rows'[i])
      <4> HIDE DEF added, ks, Of, KeyOf
      <4> QED  BY <1>1, <2>9, <2>10, <2>11 DEF RowsShape
    <3>2. \A i, j \in DOMAIN rows' : rows'[i].key = rows'[j].key => i = j
      <4> HIDE DEF added, ks, Of, KeyOf, D
      <4>1. \A i, j \in added : rows'[i].key = rows'[j].key => i = j
        BY <2>3, <2>4, <2>11
      <4>2. \A i, j \in DOMAIN rows : rows'[i].key = rows'[j].key => i = j
        BY <1>1, <2>10 DEF RowsShape
      <4>3. \A i \in added, j \in DOMAIN rows : rows'[i].key # rows'[j].key
        BY <1>4, <2>10, <2>11 DEF CO!keys
      <4> QED  BY <2>10, <4>1, <4>2, <4>3
    <3>3. \A l \in DOMAIN told' : DOMAIN told'[l] = Columns
      <4>1. \A l \in ks : DOMAIN told'[l] = Columns
        BY <2>15
      <4> HIDE DEF ks
      <4> QED  BY <1>1, <2>13, <4>1 DEF RowsShape
    <3> QED  BY <1>1, <1>2, <2>6, <2>7, <2>16, <3>1, <3>2, <3>3 DEF RowsShape, CO!Slots, IsRow
  <2>18. ToldInv' /\ FlagsInv'
    <3>1. CASE CO!BesideColumns(s)
      <4>1. raced' = raced \cup (CO!keys \cup ks) /\ torn'
        BY <2>2, <3>1 DEF CO!Written
      <4> HIDE DEF ks
      <4> QED  BY <1>1, <2>12, <2>13, <4>1, WroteBeside
    <3>2. CASE ~CO!BesideColumns(s)
      <4>1. r.shape = shape /\ \A t \in CO!Slots : ~Changes(t)
        BY <1>1, <1>2, <3>2, NoneBeside
      <4>2. \A t \in CO!Slots : ~Changes(t)'
        BY <2>7, <2>8, <4>1 DEF Changes
      <4>3. raced' = raced \cup (IF ks \cap raced # {} THEN ks ELSE {})
        BY <2>2, <3>2 DEF CO!Written
      <4>4. CO!keys' \ raced' = DOMAIN told' \ raced'
        <5> HIDE DEF ks
        <5> QED  BY <1>1, <2>12, <2>13, <4>3 DEF ToldInv
      <4>5. ASSUME NEW i \in DOMAIN rows', Fresh(i)' PROVE AsTold(i)'
        <5>1. CASE i \in added
          <6> DEFINE n == Of(i)
          <6> DEFINE k == KeyOf(n)
          <6>1. n \in D
            BY <2>4, <5>1
          <6>2. /\ VectorOf(rows'[i]) /\ rows'[i].key = k
                /\ rows'[i].values = r.inserts[n] /\ k \in ks
            BY <2>11, <5>1, <6>1
          <6> HIDE DEF n
          <6>3. k \notin raced /\ k \notin CO!keys
            <7> HIDE DEF k, ks
            <7> QED  BY <1>4, <4>3, <4>5, <6>2 DEF Fresh
          <6>4. k \notin DOMAIN told
            BY <1>1, <6>3 DEF ToldInv
          <6>5. told'[k] = CO!Merge(CO!toldCells(k), r.inserts[n])
            BY <2>15, <6>1
          <6>6. \A c : CO!cell(CO!toldCells(k), c) = CO!Empty
            BY <1>1, <6>4, ToldCells
          <6> DEFINE z == r.inserts[n]
          <6>7. \A c : CO!cell(CO!Merge(CO!toldCells(k), z), c) =
                         IF c \in DOMAIN z THEN CO!cell(z, c) ELSE CO!cell(CO!toldCells(k), c)
            <7> HIDE DEF k, z
            <7> QED  BY MergedCells
          <6>8. \A c : c \notin DOMAIN z => CO!cell(z, c) = CO!Empty
            BY DEF CO!cell
          <6>9. k = CO!cell(z, shape.key)
            BY <4>1 DEF CO!keyValueOf
          <6> HIDE DEF k, z
          <6>10. \A c : CO!cell(told'[k], c) = CO!cell(z, c)
            BY <6>5, <6>6, <6>7, <6>8 DEF z
          <6>11. rows'[i].key = k /\ rows'[i].values = z /\ VectorOf(rows'[i])
            BY <6>2 DEF z
          <6> HIDE DEF r, added
          <6> QED  BY <1>1, <6>9, <6>10, <6>11 DEF AsTold, VectorOf, CO!cell
        <5>2. CASE i \notin added
          <6> HIDE DEF added, ks
          <6>1. i \in DOMAIN rows /\ rows'[i] = rows[i]
            BY <2>10, <5>2
          <6>2. rows[i].key \notin ks /\ Fresh(i)
            BY <1>4, <4>3, <4>5, <6>1 DEF CO!keys, Fresh
          <6>3. AsTold(i)
            BY <1>1, <4>1, <6>1, <6>2, FreshAsTold
          <6>4. rows[i].key \in DOMAIN told
            BY <1>1, <6>1, <6>2 DEF ToldInv, Fresh, CO!keys
          <6>5. told'[rows[i].key] = told[rows[i].key]
            BY <2>13, <6>2, <6>4
          <6> QED  BY <1>1, <6>1, <6>3, <6>5, StaysAsTold
        <5> QED  BY <5>1, <5>2
      <4>6. ASSUME NEW i \in DOMAIN rows', ~torn' PROVE Flagged(shape, i)'
        <5>1. CASE i \in added
          <6>1. rows'[i].complete = CO!isComplete(shape, rows'[i].values)
            BY <2>11, <4>1, <5>1
          <6> HIDE DEF added, r
          <6> QED  BY <1>1, <6>1 DEF Flagged, CO!isComplete, CO!cell
        <5>2. CASE i \notin added
          <6> HIDE DEF added
          <6>1. i \in DOMAIN rows /\ rows'[i] = rows[i]
            BY <2>10, <5>2
          <6>2. Flagged(shape, i)
            BY <1>1, <2>16, <4>1, <4>6, <6>1, AllFlagged
          <6> QED  BY <1>1, <6>1, <6>2 DEF Flagged, CO!isComplete, CO!cell
        <5> QED  BY <5>1, <5>2
      <4> QED  BY <4>2, <4>4, <4>5, <4>6, WroteAlone
    <3> QED  BY <3>1, <3>2
  <2>19. CO!RoomKept'
    <3>1. /\ IsFiniteSet(DOMAIN rows) /\ Cardinality(DOMAIN rows) \in Nat
      BY <1>1, FiniteRows
    <3> DEFINE m == r.room
    <3> DEFINE e == Cardinality(r.seen)
    <3>2. r.seen \subseteq 1 .. born /\ m \in Int /\ m >= 0 /\ e + N + m <= MaxRows
      BY <1>1 DEF Counted
    <3>3. IsFiniteSet(r.seen) /\ e \in Nat
      <4>1. IsFiniteSet(1 .. born)
        BY <1>2, FS_Interval
      <4> HIDE DEF r
      <4> QED  BY <3>2, <4>1, FS_Subset, FS_CardinalityType
    <3>4. Cardinality(DOMAIN rows') = Cardinality(DOMAIN rows) + N
      <4> HIDE DEF added, N
      <4>1. DOMAIN rows \cap added = {}
        BY <2>9
      <4>2. DOMAIN rows' = DOMAIN rows \cup added
        BY <2>10
      <4> QED  BY <2>4, <3>1, <4>1, <4>2, Together
    <3>5. ~crowded' => Cardinality(DOMAIN rows) <= e
      <4>1. ~crowded' => DOMAIN rows \subseteq r.seen
        BY <2>2
      <4> HIDE DEF r
      <4> QED  BY <3>3, <4>1, FS_Subset
    <3> DEFINE a == Cardinality(DOMAIN rows)
    <3> HIDE DEF m, e, N, a
    <3>6. ~crowded' => a + N <= MaxRows
      BY <2>4, <3>1, <3>2, <3>3, <3>5, RowsAssumption DEF a
    <3>7. ~crowded' => ~(Cardinality(DOMAIN rows') > MaxRows)
      BY <2>4, <3>1, <3>4, <3>6, RowsAssumption DEF a
    <3> QED  BY <3>7, RowCardinality DEF CO!RoomKept
  <2> QED  BY <2>7, <2>17, <2>18, <2>19 DEF CollectionInv
<1> QED  BY <1>3, <1>4

\* The request of a column change, and with other fields.
ChangeOf(p, to, o, g, l) ==
  [op |-> "columns", shape |-> p, to |-> to, offset |-> o, page |-> g, last |-> l]

PageOf(g) == \A i \in DOMAIN g : IsRow(g[i])

LEMMA ChangeAsked ==
  ASSUME NEW p \in Shapes, NEW to \in Shapes, NEW o \in Nat, NEW g, NEW l, NEW b, PageOf(g)
  PROVE  /\ Asked(ChangeOf(p, to, o, g, l)) /\ Counted(ChangeOf(p, to, o, g, l), b)
         /\ ChangeOf(p, to, o, g, l).op = "columns" /\ ChangeOf(p, to, o, g, l).shape = p
         /\ ChangeOf(p, to, o, g, l).to = to /\ ChangeOf(p, to, o, g, l).offset = o
         /\ ChangeOf(p, to, o, g, l).page = g /\ ChangeOf(p, to, o, g, l).last = l
<1> DEFINE x == ChangeOf(p, to, o, g, l)
<1>1. /\ x.op = "columns" /\ x.shape = p /\ x.to = to /\ x.offset = o /\ x.page = g /\ x.last = l
  BY DEF ChangeOf
<1>2. x = [op |-> "columns", shape |-> x.shape, to |-> x.to, offset |-> x.offset,
           page |-> x.page, last |-> x.last]
  BY <1>1 DEF ChangeOf
<1> HIDE DEF x
<1>3. AskedChange(x)
  BY <1>1, <1>2 DEF AskedChange, PageOf
<1>4. Asked(x) /\ Counted(x, b)
  BY <1>1, <1>3 DEF Asked, Counted
<1> QED  BY <1>1, <1>4 DEF x

\* A step of one slot that neither adds nor removes rows: what the others have passed stays.
LEMMA OthersPass ==
  ASSUME NEW s \in CO!Slots, DOMAIN rows' = DOMAIN rows,
         NEW t \in CO!Slots, t # s, requests'[t] = requests[t]
  PROVE  /\ Changes(t)' <=> Changes(t)
         /\ \A i : (Reached(t, i)' <=> Reached(t, i)) /\ (Passed(t, i)' <=> Passed(t, i))
BY DEF Changes, Reached, Passed, CO!Before

\* A column change begins: its key column is that of the rows there are.
LEMMA NextAskColumns ==
  ASSUME CollectionInv, NEW s \in CO!Slots, NEW to \in Shapes, CO!AskColumns(s, to)
  PROVE  CollectionInv'
<1> DEFINE x == ChangeOf(shape, to, 0, <<>>, FALSE)
<1>1. /\ RowsShape /\ RequestsInv /\ ToldInv /\ FlagsInv /\ CO!RoomKept
      /\ to.key # shape.key => rows = <<>>
      /\ torn' = CO!ColumnsRun(s)
  BY DEF CollectionInv, CO!AskColumns
<1>2. /\ requests[s] = CO!Idle /\ requests' = [requests EXCEPT ![s] = x]
      /\ made' \in 0 .. MaxRequests /\ breaks' \in 0 .. MaxFaults
      /\ UNCHANGED <<shape, rows, born, told, raced, crowded>>
  <2>1. CO!Starts(s, x)
    BY DEF CO!AskColumns, ChangeOf
  <2> HIDE DEF x
  <2> QED  BY <1>1, <2>1, RowsAssumption DEF CO!Starts, RowsShape
<1>3. /\ Asked(x) /\ Counted(x, born) /\ x.op = "columns" /\ x.shape = shape /\ x.to = to
      /\ x.offset = 0 /\ DOMAIN x.page = {} /\ x.last = FALSE
  <2>1. shape \in Shapes
    BY <1>1 DEF RowsShape
  <2>2. DOMAIN <<>> = {}
    OBVIOUS
  <2> DEFINE g == <<>>
  <2> DEFINE l == FALSE
  <2>3. DOMAIN g = {} /\ PageOf(g) /\ 0 \in Nat
    BY <2>2 DEF PageOf
  <2> DEFINE y == ChangeOf(shape, to, 0, g, l)
  <2> HIDE DEF g, l
  <2>4. /\ Asked(y) /\ Counted(y, born) /\ y.op = "columns" /\ y.shape = shape /\ y.to = to
        /\ y.offset = 0 /\ y.page = g /\ y.last = l
    BY <2>1, <2>3, ChangeAsked
  <2>5. x = y
    BY DEF g, l
  <2> HIDE DEF x, y
  <2> QED  BY <2>3, <2>4, <2>5 DEF l
<1> HIDE DEF x
<1>4. born' \in Nat /\ born <= born' /\ born' = born /\ torn' \in BOOLEAN
  BY <1>1, <1>2 DEF RowsShape, CO!ColumnsRun
<1>5. RequestsInv' /\ DOMAIN requests' = CO!Slots
      /\ requests'[s] = x /\ \A t \in CO!Slots : t # s => requests'[t] = requests[t]
  BY <1>1, <1>2, <1>3, <1>4, RequestAnew
<1>6. RowsShape'
  BY <1>1, <1>2, <1>4, <1>5, UnwrittenShape
<1>7. ~Changes(s) /\ Changes(s)' /\ CO!Slots' = CO!Slots
  BY <1>2, <1>3, <1>5 DEF Changes, CO!Idle, CO!Slots
<1>8. \A i \in DOMAIN rows : ~Reached(s, i)'
  <2>1. \A i \in DOMAIN rows : CO!Before(DOMAIN rows, i) \in 0 .. Cardinality(DOMAIN rows) - 1
    BY <1>1, FiniteRows, BeforeBounds
  <2>2. \A i \in DOMAIN rows : ~(CO!Before(DOMAIN rows, i) < 0)
    BY <1>1, <2>1, FiniteRows
  <2>3. requests'[s].offset = 0 /\ rows' = rows
    BY <1>2, <1>3, <1>5
  <2> QED  BY <2>2, <2>3 DEF Reached, CO!Before
<1>9. \A t \in CO!Slots : t # s =>
        /\ Changes(t)' <=> Changes(t)
        /\ \A i : (Reached(t, i)' <=> Reached(t, i)) /\ (Passed(t, i)' <=> Passed(t, i))
  BY <1>2, <1>5, OthersPass
<1>10. \A i \in DOMAIN rows : ~Passed(s, i) /\ ~Passed(s, i)'
  BY <1>7, <1>8 DEF Passed
<1>11. \A i \in DOMAIN rows : \A c : Dropped(i, c)' <=> Dropped(i, c)
  BY <1>5, <1>7, <1>9, <1>10 DEF Dropped
<1>12. ToldInv'
  <2>1. CO!keys' \ raced' = DOMAIN told' \ raced'
    BY <1>1, <1>2 DEF ToldInv, CO!keys
  <2>2. ASSUME NEW i \in DOMAIN rows, Fresh(i) PROVE Sound(i)'
    <3>1. Sound(i)
      BY <1>1, <2>2 DEF ToldInv
    <3> QED  BY <1>2, <1>11, <3>1 DEF Sound, VectorOf, CO!cell
  <2>3. ASSUME NEW i \in DOMAIN rows, Fresh(i), NEW t \in CO!Slots, Changes(t)'
        PROVE  Spared(t, i)'
    <3>1. CASE t = s
      <4>1. to.key = shape.key
        <5>1. rows # <<>>
          BY <2>3
        <5> QED  BY <1>1, <5>1
      <4> QED  BY <1>2, <1>3, <1>5, <3>1, <4>1 DEF Spared
    <3>2. CASE t # s
      <4>1. Spared(t, i)
        BY <1>1, <1>9, <2>3, <3>2 DEF ToldInv
      <4> QED  BY <1>2, <1>5, <1>9, <3>2, <4>1 DEF Spared, CO!cell
    <3> QED  BY <3>1, <3>2
  <2>4. \A i : Fresh(i)' <=> Fresh(i)
    BY <1>2 DEF Fresh
  <2> QED  BY <1>2, <1>7, <2>1, <2>2, <2>3, <2>4 DEF ToldInv
<1>13. FlagsInv'
  <2>1. ASSUME ~torn', NEW t \in CO!Slots, Changes(t)' PROVE t = s
    BY <1>1, <1>5, <2>1 DEF Changes, CO!ColumnsRun
  <2>2. requests'[s].shape = shape' /\ DOMAIN requests'[s].page = {} /\ requests'[s].last = FALSE
    BY <1>2, <1>3, <1>5
  <2>3. \A i \in DOMAIN rows' : ~Passed(s, i)'
    BY <1>2, <1>10
  <2> QED  BY <1>7, <2>1, <2>2, <2>3 DEF FlagsInv
<1>14. CO!RoomKept'
  BY <1>1, <1>2 DEF CO!RoomKept, CO!Cardinality
<1> QED  BY <1>5, <1>6, <1>12, <1>13, <1>14 DEF CollectionInv

\* The next page: the rows of it are as they are, and no row is passed by reading it.
LEMMA NextReadPage ==
  ASSUME CollectionInv, NEW s \in CO!Slots, CO!ReadPage(s)
  PROVE  CollectionInv'
<1> DEFINE r == requests[s]
<1> DEFINE D == DOMAIN rows
<1> DEFINE o == r.offset
<1> DEFINE page == CO!First(D, o + Page) \ CO!First(D, o)
<1> DEFINE g == [i \in page |-> rows[i]]
<1> DEFINE l == (Cardinality(page) < Page)
<1> DEFINE x == ChangeOf(r.shape, r.to, o + Page, g, l)
<1>1. /\ RowsShape /\ RequestsInv /\ ToldInv /\ FlagsInv /\ CO!RoomKept
      /\ r.op = "columns" /\ DOMAIN r.page = {} /\ ~r.last /\ AskedChange(r) /\ Changes(s)
      /\ UNCHANGED <<shape, rows, made, breaks, born, told, raced, torn, crowded>>
  BY DEF CollectionInv, RequestsInv, Asked, CO!ReadPage, Changes
<1>2. /\ r.shape \in Shapes /\ r.to \in Shapes /\ o \in Nat /\ Page \in Nat \ {0} /\ o + Page \in Nat
  BY <1>1, RowsAssumption DEF AskedChange
<1>3. requests' = [requests EXCEPT ![s] = x]
  <2>1. requests' = [requests EXCEPT ![s] =
                       [r EXCEPT !.page = g, !.offset = @ + Page, !.last = l]]
    BY RowCardinality DEF CO!ReadPage
  <2>2. [r EXCEPT !.page = g, !.offset = @ + Page, !.last = l] = x
    <3> DEFINE p == r.shape
    <3> DEFINE to == r.to
    <3> DEFINE e == r.page
    <3> DEFINE m == r.last
    <3>1. r = ChangeOf(p, to, o, e, m)
      BY <1>1, Zenon DEF AskedChange, ChangeOf
    <3> HIDE DEF p, to, o, e, m, g, l
    <3> DEFINE a == ChangeOf(p, to, o, g, m)
    <3> DEFINE b == ChangeOf(p, to, o + Page, g, m)
    <3>2. [r EXCEPT !.page = g] = a /\ a.offset = o
      BY <3>1 DEF ChangeOf
    <3>3. [a EXCEPT !.offset = o + Page] = b
      BY DEF ChangeOf
    <3>4. [b EXCEPT !.last = l] = ChangeOf(p, to, o + Page, g, l)
      BY DEF ChangeOf
    <3>5. [r EXCEPT !.page = g, !.offset = @ + Page, !.last = l] =
            [[[r EXCEPT !.page = g] EXCEPT !.offset = [r EXCEPT !.page = g].offset + Page]
             EXCEPT !.last = l]
      OBVIOUS
    <3> HIDE DEF a, b
    <3>6. [[[r EXCEPT !.page = g] EXCEPT !.offset = [r EXCEPT !.page = g].offset + Page]
             EXCEPT !.last = l] = ChangeOf(p, to, o + Page, g, l)
      BY <3>2, <3>3, <3>4, Zenon
    <3> QED  BY <3>5, <3>6, Zenon DEF p, to
  <2> QED  BY <2>1, <2>2
<1>4. /\ D \subseteq Nat /\ IsFiniteSet(D)
      /\ \A i \in D : IsRow(rows[i])
  BY <1>1, FiniteRows DEF RowsShape
<1>5. /\ page \subseteq D /\ DOMAIN g = page /\ \A i \in page : g[i] = rows[i]
      /\ \A i \in D : i \in page <=> CO!Before(D, i) < o + Page /\ ~(CO!Before(D, i) < o)
  BY DEF CO!First
<1>6. l => \A i \in D : CO!Before(D, i) < o + Page
  <2> HIDE DEF o, D
  <2> QED  BY <1>2, <1>4, LastPage
<1> HIDE DEF page, g, l
<1>7. /\ Asked(x) /\ Counted(x, born) /\ x.op = "columns" /\ x.shape = r.shape /\ x.to = r.to
      /\ x.offset = o + Page /\ x.page = g /\ x.last = l
  <2>1. PageOf(g)
    BY <1>4, <1>5 DEF PageOf
  <2> DEFINE q == r.shape
  <2> DEFINE to == r.to
  <2> DEFINE n == o + Page
  <2>2. q \in Shapes /\ to \in Shapes /\ n \in Nat
    BY <1>2
  <2> DEFINE y == ChangeOf(q, to, n, g, l)
  <2> HIDE DEF q, to, n
  <2>3. /\ Asked(y) /\ Counted(y, born) /\ y.op = "columns" /\ y.shape = q /\ y.to = to
        /\ y.offset = n /\ y.page = g /\ y.last = l
    BY <2>1, <2>2, ChangeAsked
  <2>4. x = y
    BY DEF q, to, n
  <2> HIDE DEF x, y
  <2> QED  BY <2>3, <2>4 DEF q, to, n
<1> HIDE DEF x
<1>8. born' \in Nat /\ born <= born' /\ born' = born
      /\ made' \in 0 .. MaxRequests /\ breaks' \in 0 .. MaxFaults /\ torn' \in BOOLEAN
  BY <1>1 DEF RowsShape
<1>9. RequestsInv' /\ DOMAIN requests' = CO!Slots
      /\ requests'[s] = x /\ \A t \in CO!Slots : t # s => requests'[t] = requests[t]
  BY <1>1, <1>3, <1>7, <1>8, RequestAnew
<1>10. RowsShape'
  BY <1>1, <1>8, <1>9, UnwrittenShape
<1>11. Changes(s)' /\ CO!Slots' = CO!Slots
  BY <1>7, <1>9 DEF Changes, CO!Slots
<1>12. \A i \in D : /\ Reached(s, i) <=> CO!Before(D, i) < o
                    /\ Reached(s, i)' <=> CO!Before(D, i) < o + Page
  BY <1>1, <1>7, <1>9 DEF Reached, CO!Before
<1>13. \A i \in D : /\ Passed(s, i)' <=> Passed(s, i)
                    /\ Passed(s, i) => Reached(s, i)
  <2>1. \A i \in D : Passed(s, i) <=> CO!Before(D, i) < o
    BY <1>1, <1>12 DEF Passed
  <2>2. \A i \in D : Passed(s, i)' <=> CO!Before(D, i) < o + Page /\ i \notin page
    BY <1>5, <1>7, <1>9, <1>11, <1>12 DEF Passed
  <2>3. \A i \in D : CO!Before(D, i) \in Nat
    <3>1. \A i \in D : CO!Before(D, i) \in 0 .. Cardinality(D) - 1
      BY <1>4, BeforeBounds
    <3> QED  BY <3>1
  <2>4. \A i \in D : CO!Before(D, i) < o => CO!Before(D, i) < o + Page
    <3> HIDE DEF o
    <3> QED  BY <1>2, <2>3
  <2> HIDE DEF o
  <2> QED  BY <1>5, <1>12, <2>1, <2>2, <2>4
<1>14. \A t \in CO!Slots : t # s =>
        /\ Changes(t)' <=> Changes(t)
        /\ \A i : (Reached(t, i)' <=> Reached(t, i)) /\ (Passed(t, i)' <=> Passed(t, i))
  BY <1>1, <1>9, OthersPass
<1>15. requests'[s].to = requests[s].to /\ requests'[s].shape = requests[s].shape
  BY <1>7, <1>9
<1>16. \A i \in D : \A c : Dropped(i, c)' <=> Dropped(i, c)
  <2>1. \A t \in CO!Slots : requests'[t].to = requests[t].to
    BY <1>9, <1>15
  <2>2. \A t \in CO!Slots : \A i \in D : Passed(t, i)' <=> Passed(t, i)
    BY <1>13, <1>14
  <2> QED  BY <1>11, <2>1, <2>2 DEF Dropped
<1>17. ToldInv'
  <2>1. CO!keys' \ raced' = DOMAIN told' \ raced'
    BY <1>1 DEF ToldInv, CO!keys
  <2>2. ASSUME NEW i \in DOMAIN rows, Fresh(i) PROVE Sound(i)'
    <3>1. Sound(i)
      BY <1>1, <2>2 DEF ToldInv
    <3> QED  BY <1>1, <1>16, <3>1 DEF Sound, VectorOf, CO!cell
  <2>3. ASSUME NEW i \in DOMAIN rows, Fresh(i), NEW t \in CO!Slots, Changes(t)'
        PROVE  Spared(t, i)'
    <3>1. CASE t = s
      <4>1. Spared(s, i)
        BY <1>1, <2>3 DEF ToldInv
      <4>2. requests'[s].to.key = shape'.key
        BY <1>1, <1>15, <4>1 DEF Spared
      <4>3. requests'[s].last => Reached(s, i)'
        BY <1>6, <1>7, <1>9, <1>12
      <4>4. ASSUME i \in DOMAIN requests'[s].page
            PROVE  Reached(s, i)' /\ requests'[s].page[i] = rows'[i]
        BY <1>1, <1>5, <1>7, <1>9, <1>12, <4>4
      <4> QED  BY <3>1, <4>2, <4>3, <4>4 DEF Spared, CO!cell
    <3>2. CASE t # s
      <4>1. Spared(t, i)
        BY <1>1, <1>14, <2>3, <3>2 DEF ToldInv
      <4> QED  BY <1>1, <1>9, <1>14, <3>2, <4>1 DEF Spared, CO!cell
    <3> QED  BY <3>1, <3>2
  <2>4. \A i : Fresh(i)' <=> Fresh(i)
    BY <1>1 DEF Fresh
  <2> QED  BY <1>1, <1>11, <2>1, <2>2, <2>3, <2>4 DEF ToldInv
<1>18. FlagsInv'
  <2> SUFFICES ASSUME ~torn' PROVE FlagsInv'
    BY DEF FlagsInv
  <2>1. /\ \A t \in CO!Slots : Changes(t) => t = s
        /\ requests[s].shape = shape
        /\ \A i \in D : Passed(s, i) => Flagged(requests[s].to, i)
    BY <1>1 DEF FlagsInv
  <2>2. \A t \in CO!Slots : Changes(t)' => t = s
    BY <1>14, <2>1
  <2>3. requests'[s].shape = shape'
    BY <1>1, <1>15, <2>1
  <2>4. \A i \in DOMAIN requests'[s].page : i \in DOMAIN rows' /\ requests'[s].page[i] = rows'[i]
    BY <1>1, <1>5, <1>7, <1>9
  <2>5. \A i \in DOMAIN rows' : Passed(s, i)' => Flagged(requests[s].to, i)'
    <3>1. \A i \in D : Passed(s, i)' => Flagged(requests[s].to, i)
      BY <1>13, <2>1
    <3> QED  BY <1>1, <1>15, <3>1 DEF Flagged, CO!isComplete, CO!cell
  <2>6. \A i \in DOMAIN rows' : requests'[s].last => Reached(s, i)'
    BY <1>1, <1>6, <1>7, <1>9, <1>12
  <2> QED  BY <1>11, <2>2, <2>3, <2>4, <2>5, <2>6 DEF FlagsInv
<1>19. CO!RoomKept'
  BY <1>1 DEF CO!RoomKept, CO!Cardinality
<1> QED  BY <1>9, <1>10, <1>17, <1>18, <1>19 DEF CollectionInv

\* A row with other cells and another flag.
RowOf(k, o, m, e) == [key |-> k, values |-> o, complete |-> m, vector |-> e]

LEMMA RowAnew ==
  ASSUME NEW w, IsRow(w), NEW v, NEW c
  PROVE  [w EXCEPT !.values = v, !.complete = c] = RowOf(w.key, v, c, w.vector)
<1> DEFINE k == w.key
<1> DEFINE o == w.values
<1> DEFINE m == w.complete
<1> DEFINE e == w.vector
<1>1. w = RowOf(k, o, m, e)
  BY Zenon DEF IsRow, RowOf
<1> HIDE DEF k, o, m, e
<1> DEFINE a == RowOf(k, v, m, e)
<1>2. [w EXCEPT !.values = v] = a
  BY <1>1 DEF RowOf
<1>3. [a EXCEPT !.complete = c] = RowOf(k, v, c, e)
  BY DEF RowOf
<1> HIDE DEF a
<1>4. [w EXCEPT !.values = v, !.complete = c] = RowOf(k, v, c, e)
  BY <1>2, <1>3, Zenon
<1> QED  BY <1>4 DEF k, e

\* A row whose cells and flag are written anew.
Rewritten(f, i, v, c) == [f EXCEPT ![i].values = v, ![i].complete = c]

LEMMA RewrittenRow ==
  ASSUME NEW f, NEW i \in DOMAIN f, NEW v, NEW c, IsRow(f[i]), DOMAIN v \subseteq Columns
  PROVE  LET g == Rewritten(f, i, v, c)
         IN /\ DOMAIN g = DOMAIN f /\ \A j \in DOMAIN f : j # i => g[j] = f[j]
            /\ g[i].key = f[i].key /\ g[i].values = v /\ g[i].complete = c
            /\ g[i].vector = f[i].vector /\ IsRow(g[i])
<1> DEFINE w == f[i]
<1> DEFINE new == RowOf(w.key, v, c, w.vector)
<1> DEFINE g == Rewritten(f, i, v, c)
<1>1. [w EXCEPT !.values = v, !.complete = c] = new
  BY RowAnew
<1>2. /\ DOMAIN g = DOMAIN f /\ \A j \in DOMAIN f : j # i => g[j] = f[j]
      /\ g[i] = [w EXCEPT !.values = v, !.complete = c]
  BY DEF Rewritten
<1> HIDE DEF g, w
<1>3. g[i] = new
  BY <1>1, <1>2
<1>4. IsRow(g[i]) /\ g[i].key = w.key /\ g[i].values = v /\ g[i].complete = c
      /\ g[i].vector = w.vector
  BY <1>3 DEF IsRow, RowOf
<1> QED  BY <1>2, <1>4 DEF g, w

\* The row a page is reshaped to.
LEMMA ReshapedCellsOf ==
  ASSUME NEW to \in Shapes, NEW was, IsRow(was)
  PROVE  LET new == CO!Reshaped(to, was)
         IN /\ DOMAIN new.values = to.cols
            /\ \A c : CO!cell(new.values, c) =
                        IF c \in to.cols THEN CO!cell(was.values, c) ELSE CO!Empty
            /\ new.complete = CO!isComplete(to, new.values)
<1> DEFINE v == [c \in to.cols |-> CO!cell(was.values, c)]
<1> DEFINE new == CO!Reshaped(to, was)
<1>1. new = [was EXCEPT !.values = v, !.complete = CO!isComplete(to, v)]
  BY DEF CO!Reshaped
<1>2. new.values = v /\ new.complete = CO!isComplete(to, v)
  <2> DEFINE f == CO!isComplete(to, v)
  <2>1. new = RowOf(was.key, v, f, was.vector)
    <3>1. new = [was EXCEPT !.values = v, !.complete = f]
      BY <1>1
    <3> HIDE DEF f, v, new
    <3> QED  BY <3>1, RowAnew
  <2> HIDE DEF f, v, new
  <2>2. new.values = v /\ new.complete = f
    BY <2>1 DEF RowOf
  <2> QED  BY <2>2 DEF f
<1>3. /\ DOMAIN v = to.cols
      /\ \A c : CO!cell(v, c) = IF c \in to.cols THEN CO!cell(was.values, c) ELSE CO!Empty
  BY DEF CO!cell
<1> HIDE DEF v, new
<1> QED  BY <1>2, <1>3 DEF new

\* A row of a page is written: its cells are those of the columns to come, its vector stays.
LEMMA NextReshapeRow ==
  ASSUME CollectionInv, NEW s \in CO!Slots, CO!ReshapeRow(s)
  PROVE  CollectionInv'
<1> DEFINE r == requests[s]
<1> DEFINE D == DOMAIN rows
<1> DEFINE to == r.to
<1>1. /\ RowsShape /\ RequestsInv /\ ToldInv /\ FlagsInv /\ CO!RoomKept
      /\ r.op = "columns" /\ AskedChange(r) /\ Changes(s)
      /\ UNCHANGED <<shape, made, breaks, born, told, torn, crowded>>
  BY DEF CollectionInv, RequestsInv, Asked, CO!ReshapeRow, Changes
<1>2. PICK p \in CO!First(DOMAIN r.page, 1) :
        LET was == r.page[p]
            new == CO!Reshaped(r.to, was)
        IN /\ requests' = [requests EXCEPT ![s] = [r EXCEPT !.page = CO!Without(@, {p})]]
           /\ IF p \in DOMAIN rows /\ new # was
              THEN /\ rows' = [rows EXCEPT ![p].values = new.values,
                                           ![p].complete = new.complete]
                   /\ raced' = raced \cup (IF rows[p] # was THEN {was.key, rows[p].key}
                                           ELSE {})
              ELSE UNCHANGED <<rows, raced>>
  BY DEF CO!ReshapeRow
<1> DEFINE was == r.page[p]
<1> DEFINE new == CO!Reshaped(to, was)
<1> DEFINE g == CO!Without(r.page, {p})
<1> DEFINE x == ChangeOf(r.shape, to, r.offset, g, r.last)
<1>3. /\ p \in DOMAIN r.page /\ IsRow(was) /\ r.shape \in Shapes /\ to \in Shapes
      /\ r.offset \in Nat /\ to.cols \subseteq Columns /\ to.key \in to.cols
  BY <1>1, RowsAssumption DEF CO!First, AskedChange
<1>4. /\ DOMAIN g = DOMAIN r.page \ {p} /\ \A i \in DOMAIN g : g[i] = r.page[i]
  BY DEF CO!Without
<1>5. requests' = [requests EXCEPT ![s] = x]
  <2>1. [r EXCEPT !.page = CO!Without(@, {p})] = x
    <3> DEFINE q == r.shape
    <3> DEFINE o == r.offset
    <3> DEFINE e == r.page
    <3> DEFINE m == r.last
    <3>1. r = ChangeOf(q, to, o, e, m)
      BY <1>1, Zenon DEF AskedChange, ChangeOf
    <3> HIDE DEF q, to, o, e, m
    <3>2. [r EXCEPT !.page = CO!Without(e, {p})] = ChangeOf(q, to, o, CO!Without(e, {p}), m)
      BY <3>1 DEF ChangeOf
    <3>3. r.page = e
      BY DEF e
    <3> QED  BY <3>2, <3>3 DEF q, o, e, m
  <2> QED  BY <1>2, <2>1
<1> HIDE DEF g
<1>6. /\ Asked(x) /\ Counted(x, born) /\ x.op = "columns" /\ x.shape = r.shape /\ x.to = to
      /\ x.offset = r.offset /\ x.page = g /\ x.last = r.last
  <2>1. PageOf(g)
    BY <1>1, <1>4 DEF AskedChange, PageOf
  <2> DEFINE q == r.shape
  <2> DEFINE o == r.offset
  <2> DEFINE m == r.last
  <2>2. q \in Shapes /\ to \in Shapes /\ o \in Nat
    BY <1>3
  <2> DEFINE y == ChangeOf(q, to, o, g, m)
  <2> HIDE DEF to, q, o, m
  <2>3. /\ Asked(y) /\ Counted(y, born) /\ y.op = "columns" /\ y.shape = q /\ y.to = to
        /\ y.offset = o /\ y.page = g /\ y.last = m
    BY <2>1, <2>2, ChangeAsked
  <2>4. x = y
    BY DEF q, o, m
  <2> HIDE DEF x, y
  <2> QED  BY <2>3, <2>4 DEF q, o, m
<1> HIDE DEF x
<1>7. born' \in Nat /\ born <= born' /\ born' = born
      /\ made' \in 0 .. MaxRequests /\ breaks' \in 0 .. MaxFaults /\ torn' \in BOOLEAN
  BY <1>1 DEF RowsShape
<1>8. RequestsInv' /\ DOMAIN requests' = CO!Slots
      /\ requests'[s] = x /\ \A t \in CO!Slots : t # s => requests'[t] = requests[t]
  BY <1>1, <1>5, <1>6, <1>7, RequestAnew
<1>9. /\ DOMAIN new.values = to.cols
      /\ \A c : CO!cell(new.values, c) = IF c \in to.cols THEN CO!cell(was.values, c) ELSE CO!Empty
      /\ new.complete = CO!isComplete(to, new.values)
  <2> HIDE DEF r, to, was
  <2> QED  BY <1>3, ReshapedCellsOf
<1> HIDE DEF new
<1>10. \/ /\ p \in D /\ new # was
          /\ rows' = [rows EXCEPT ![p].values = new.values, ![p].complete = new.complete]
          /\ raced' = raced \cup (IF rows[p] # was THEN {was.key, rows[p].key} ELSE {})
       \/ /\ (p \notin D \/ new = was) /\ rows' = rows /\ raced' = raced
  BY <1>2 DEF new
<1>11. \A i \in D : IsRow(rows[i])
  BY <1>1 DEF RowsShape
<1>12. ASSUME p \in D, new # was
       PROVE  /\ DOMAIN rows' = D /\ \A j \in D : j # p => rows'[j] = rows[j]
              /\ rows'[p].key = rows[p].key /\ rows'[p].values = new.values
              /\ rows'[p].complete = new.complete
              /\ rows'[p].vector = rows[p].vector /\ IsRow(rows'[p])
  <2>1. rows' = [rows EXCEPT ![p].values = new.values, ![p].complete = new.complete]
    BY <1>10, <1>12
  <2>2. DOMAIN new.values \subseteq Columns
    BY <1>3, <1>9
  <2> DEFINE v == new.values
  <2> DEFINE c == new.complete
  <2>3. rows' = Rewritten(rows, p, v, c) /\ DOMAIN v \subseteq Columns
    BY <2>1, <2>2 DEF Rewritten
  <2> HIDE DEF v, c, was
  <2>4. /\ DOMAIN rows' = D /\ \A j \in D : j # p => rows'[j] = rows[j]
        /\ rows'[p].key = rows[p].key /\ rows'[p].values = v
        /\ rows'[p].complete = c
        /\ rows'[p].vector = rows[p].vector /\ IsRow(rows'[p])
    BY <1>11, <1>12, <2>3, RewrittenRow
  <2> QED  BY <2>4 DEF v, c
<1>13. DOMAIN rows' = D /\ \A j \in D : j # p => rows'[j] = rows[j]
  BY <1>10, <1>12
<1>14. p \in D => /\ rows'[p].key = rows[p].key /\ rows'[p].vector = rows[p].vector
                  /\ IsRow(rows'[p])
  BY <1>10, <1>11, <1>12
<1>15. \A i \in D : rows'[i].key = rows[i].key
  BY <1>13, <1>14
<1>16. raced \subseteq raced'
  BY <1>10
<1>17. RowsShape'
  <2>1. \A i \in DOMAIN rows' : i \in 1 .. born' /\ IsRow(rows'[i])
    BY <1>1, <1>13, <1>14 DEF RowsShape
  <2>2. \A i, j \in DOMAIN rows' : rows'[i].key = rows'[j].key => i = j
    BY <1>1, <1>13, <1>15 DEF RowsShape
  <2>3. \A k \in DOMAIN told' : DOMAIN told'[k] = Columns
    BY <1>1 DEF RowsShape
  <2>4. shape' \in Shapes /\ crowded' \in BOOLEAN
    BY <1>1 DEF RowsShape
  <2> QED  BY <1>7, <1>8, <2>1, <2>2, <2>3, <2>4 DEF RowsShape, CO!Slots, IsRow
<1>18. CO!keys' = CO!keys
  BY <1>13, <1>15 DEF CO!keys
<1>19. Changes(s)' /\ CO!Slots' = CO!Slots
  BY <1>6, <1>8 DEF Changes, CO!Slots
<1>20. \A t \in CO!Slots : t # s =>
        /\ Changes(t)' <=> Changes(t)
        /\ \A i : (Reached(t, i)' <=> Reached(t, i)) /\ (Passed(t, i)' <=> Passed(t, i))
  BY <1>8, <1>13, OthersPass
<1>21. \A i : Reached(s, i)' <=> Reached(s, i)
  BY <1>6, <1>8, <1>13 DEF Reached, CO!Before
<1>22. \A i : Passed(s, i)' <=> Passed(s, i) \/ (i = p /\ Reached(s, p))
  BY <1>1, <1>3, <1>4, <1>6, <1>8, <1>19, <1>21 DEF Passed
<1>23. \A t \in CO!Slots : requests'[t].to = requests[t].to
  BY <1>6, <1>8
<1>24. \A i : i # p => \A c : Dropped(i, c)' <=> Dropped(i, c)
  <2>1. \A t \in CO!Slots : \A i : i # p => (Passed(t, i)' <=> Passed(t, i))
    BY <1>20, <1>22
  <2> QED  BY <1>19, <1>23, <2>1 DEF Dropped
<1>25. Reached(s, p) => \A c : Dropped(p, c)' <=> Dropped(p, c) \/ c \notin to.cols
  <2>1. \A t \in CO!Slots : t # s => (Passed(t, p)' <=> Passed(t, p))
    BY <1>20
  <2>2. ~Passed(s, p)
    BY <1>3 DEF Passed
  <2>3. Reached(s, p) => Passed(s, p)'
    BY <1>22
  <2> HIDE DEF to
  <2>4. requests[s].to = to
    BY DEF to
  <2> QED  BY <1>19, <1>23, <2>1, <2>2, <2>3, <2>4 DEF Dropped
<1>26. ASSUME NEW i \in D, Fresh(i)' PROVE Fresh(i) /\ Sound(i)
  <2>1. Fresh(i)
    BY <1>15, <1>16, <1>26 DEF Fresh
  <2> QED  BY <1>1, <2>1 DEF ToldInv
<1>27. ASSUME p \in D, Fresh(p)'
       PROVE  /\ Spared(s, p) /\ Reached(s, p)
              /\ \A c \in Columns : CO!cell(rows'[p].values, c) =
                                      IF c \in to.cols THEN CO!cell(rows[p].values, c)
                                      ELSE CO!Empty
  <2>1. Fresh(p) /\ Spared(s, p)
    BY <1>1, <1>26, <1>27 DEF ToldInv
  <2>2. /\ Reached(s, p)
        /\ \A c \in Columns : CO!cell(was.values, c) = CO!Empty =>
                                CO!cell(rows[p].values, c) = CO!Empty
    BY <1>3, <2>1 DEF Spared
  <2>3. CASE new # was
    <3>1. rows[p] = was
      <4>1. raced' = raced \cup (IF rows[p] # was THEN {was.key, rows[p].key} ELSE {})
        BY <1>10, <1>27, <2>3
      <4>2. rows[p].key \notin raced'
        BY <1>15, <1>27 DEF Fresh
      <4> HIDE DEF was
      <4> QED  BY <4>1, <4>2
    <3>2. rows'[p].values = new.values
      BY <1>12, <1>27, <2>3
    <3> HIDE DEF was, to
    <3> QED  BY <1>9, <2>1, <2>2, <3>1, <3>2
  <2>4. CASE new = was
    <3>1. rows' = rows
      BY <1>10, <2>4
    <3> HIDE DEF was, to
    <3>2. \A c : c \notin to.cols => CO!cell(was.values, c) = CO!Empty
      BY <1>9, <2>4
    <3> QED  BY <2>1, <2>2, <3>1, <3>2
  <2> QED  BY <2>3, <2>4
<1>28. ASSUME NEW i \in D, Fresh(i)' PROVE Sound(i)'
  <2>1. CASE i # p
    <3>1. Sound(i) /\ rows'[i] = rows[i]
      BY <1>13, <1>26, <1>28, <2>1
    <3> QED  BY <1>1, <1>24, <2>1, <3>1 DEF Sound, VectorOf, CO!cell
  <2>2. CASE i = p
    <3> DEFINE k == rows[p].key
    <3> DEFINE a == rows[p].values
    <3> DEFINE b == rows'[p].values
    <3>1. /\ Sound(p) /\ Spared(s, p) /\ Reached(s, p) /\ rows'[p].key = k
          /\ \A c \in Columns : CO!cell(b, c) =
               IF c \in to.cols THEN CO!cell(a, c) ELSE CO!Empty
      BY <1>15, <1>26, <1>27, <1>28, <2>2
    <3>2. /\ \A c \in Columns : CO!cell(a, c) = IF Dropped(p, c) THEN CO!Empty
                                                ELSE CO!cell(told[k], c)
          /\ k = CO!cell(a, shape.key) /\ VectorOf(rows[p])
      BY <3>1 DEF Sound
    <3>3. \A c \in Columns : CO!cell(b, c) = IF Dropped(p, c)' THEN CO!Empty
                                             ELSE CO!cell(told[k], c)
      <4> HIDE DEF a, b, k, to
      <4> QED  BY <1>25, <3>1, <3>2
    <3>4. k = CO!cell(b, shape.key)
      <4>1. shape.key = to.key /\ shape.key \in Columns
        BY <1>3, <3>1 DEF Spared
      <4> HIDE DEF a, b, k, to
      <4> QED  BY <1>3, <3>1, <3>2, <4>1
    <3>5. VectorOf(rows[p])'
      <4>1. DOMAIN b \subseteq Columns /\ rows'[p].vector = rows[p].vector
        BY <1>14, <2>2 DEF IsRow
      <4>2. \A c \in DOMAIN b : b[c] # CO!Empty => c \in DOMAIN a /\ a[c] = b[c]
        <5> HIDE DEF a, b, to
        <5> QED  BY <3>1, <4>1 DEF CO!cell
      <4> QED  BY <3>2, <4>1, <4>2 DEF VectorOf, CO!cell
    <3> HIDE DEF to
    <3> QED  BY <1>1, <2>2, <3>1, <3>3, <3>4, <3>5 DEF Sound, CO!cell
  <2> QED  BY <2>1, <2>2
<1>29. ASSUME NEW i \in D, Fresh(i)', NEW t \in CO!Slots, Changes(t)' PROVE Spared(t, i)'
  <2>1. Spared(t, i)
    BY <1>1, <1>19, <1>20, <1>26, <1>29 DEF ToldInv
  <2>2. requests'[t].to.key = shape'.key
    BY <1>1, <1>23, <2>1 DEF Spared
  <2>3. requests'[t].last = requests[t].last /\ (Reached(t, i)' <=> Reached(t, i))
    BY <1>6, <1>8, <1>20, <1>21
  <2>4. i \in DOMAIN requests'[t].page =>
          i \in DOMAIN requests[t].page /\ requests'[t].page[i] = requests[t].page[i]
    BY <1>4, <1>6, <1>8
  <2>5. i \in DOMAIN requests'[t].page => \A c \in Columns :
          CO!cell(rows[i].values, c) = CO!Empty => CO!cell(rows'[i].values, c) = CO!Empty
    <3>1. CASE i # p
      BY <1>13, <3>1
    <3>2. CASE i = p
      <4> HIDE DEF to
      <4> QED  BY <1>27, <1>29, <3>2
    <3> QED  BY <3>1, <3>2
  <2> QED  BY <2>1, <2>2, <2>3, <2>4, <2>5 DEF Spared, CO!cell
<1>30. ToldInv'
  <2>1. CO!keys' \ raced' = DOMAIN told' \ raced'
    BY <1>1, <1>16, <1>18 DEF ToldInv
  <2> QED  BY <1>13, <1>19, <1>28, <1>29, <2>1 DEF ToldInv
<1>31. FlagsInv'
  <2> SUFFICES ASSUME ~torn' PROVE FlagsInv'
    BY DEF FlagsInv
  <2>1. /\ \A t \in CO!Slots : Changes(t) => t = s
        /\ r.shape = shape
        /\ \A i \in DOMAIN r.page : i \in D /\ r.page[i] = rows[i]
        /\ \A i \in D : /\ Passed(s, i) => Flagged(to, i)
                        /\ r.last => Reached(s, i)
    BY <1>1 DEF FlagsInv
  <2>2. \A t \in CO!Slots : Changes(t)' => t = s
    BY <1>20, <2>1
  <2>3. requests'[s].shape = shape' /\ requests'[s].last = r.last /\ requests'[s].to = to
    BY <1>1, <1>6, <1>8, <2>1
  <2>4. \A i \in DOMAIN requests'[s].page : i \in DOMAIN rows' /\ requests'[s].page[i] = rows'[i]
    BY <1>4, <1>6, <1>8, <1>13, <2>1
  <2>5. Flagged(to, p)'
    <3>1. p \in D /\ rows[p] = was
      BY <1>3, <2>1
    <3>2. rows'[p].complete = CO!isComplete(to, rows'[p].values)
      <4>1. CASE new # was
        <5> HIDE DEF was, to
        <5> QED  BY <1>9, <1>12, <3>1, <4>1
      <4>2. CASE new = was
        <5>1. rows'[p] = new
          BY <1>10, <3>1, <4>2
        <5> HIDE DEF was, to
        <5> QED  BY <1>9, <5>1
      <4> QED  BY <4>1, <4>2
    <3>3. requests'[s].to = requests[s].to
      BY <2>3
    <3> QED  BY <3>2, <3>3 DEF Flagged, CO!isComplete, CO!cell
  <2>6. ASSUME NEW i \in D, i # p, Passed(s, i)' PROVE Flagged(to, i)'
    <3>1. Flagged(to, i) /\ rows'[i] = rows[i] /\ requests'[s].to = requests[s].to
      BY <1>13, <1>22, <2>1, <2>3, <2>6
    <3> QED  BY <3>1 DEF Flagged, CO!isComplete, CO!cell
  <2>7. \A i \in DOMAIN rows' : Passed(s, i)' => Flagged(to, i)'
    BY <1>13, <2>5, <2>6
  <2>8. \A i \in DOMAIN rows' : requests'[s].last => Reached(s, i)'
    BY <1>13, <1>21, <2>1, <2>3
  <2>9. \A i : Flagged(to, i)' <=> Flagged(requests[s].to, i)'
    OBVIOUS
  <2> HIDE DEF to
  <2> QED  BY <1>19, <2>2, <2>3, <2>4, <2>7, <2>8, <2>9 DEF FlagsInv
<1>32. CO!RoomKept'
  BY <1>1, <1>13 DEF CO!RoomKept, CO!Cardinality
<1> QED  BY <1>8, <1>17, <1>30, <1>31, <1>32 DEF CollectionInv

\* The columns are saved, once every row is passed.
LEMMA NextSaveColumns ==
  ASSUME CollectionInv, NEW s \in CO!Slots, CO!SaveColumns(s)
  PROVE  CollectionInv'
<1> DEFINE r == requests[s]
<1> DEFINE D == DOMAIN rows
<1> DEFINE to == r.to
<1>1. /\ RowsShape /\ RequestsInv /\ ToldInv /\ FlagsInv /\ CO!RoomKept
      /\ AskedChange(r) /\ Changes(s) /\ DOMAIN r.page = {} /\ r.last /\ CO!Ends(s)
      /\ shape' = to /\ torn' = (torn \/ r.shape # shape)
      /\ UNCHANGED <<rows, made, breaks, born, raced, crowded>>
  BY DEF CollectionInv, RequestsInv, Asked, CO!SaveColumns, Changes
<1>2. /\ DOMAIN told' = DOMAIN told
      /\ \A k \in DOMAIN told : told'[k] = [c \in Columns |-> IF c \in to.cols THEN told[k][c]
                                                              ELSE CO!Empty]
  BY DEF CO!SaveColumns
<1>3. /\ to \in Shapes /\ to.cols \subseteq Columns /\ born' \in Nat /\ born <= born'
      /\ made' \in 0 .. MaxRequests /\ breaks' \in 0 .. MaxFaults /\ torn' \in BOOLEAN
  BY <1>1, RowsAssumption DEF AskedChange, RowsShape
<1>4. RequestsInv' /\ DOMAIN requests' = CO!Slots
      /\ requests'[s] = CO!Idle /\ \A t \in CO!Slots : t # s => requests'[t] = requests[t]
  BY <1>1, <1>3, IdleAsked, RequestAnew DEF CO!Ends
<1>5. RowsShape'
  <2>1. \A i \in DOMAIN rows' : i \in 1 .. born' /\ IsRow(rows'[i])
    BY <1>1 DEF RowsShape
  <2>2. \A i, j \in DOMAIN rows' : rows'[i].key = rows'[j].key => i = j
    BY <1>1 DEF RowsShape
  <2>3. \A k \in DOMAIN told' : DOMAIN told'[k] = Columns
    BY <1>2
  <2>4. crowded' \in BOOLEAN
    BY <1>1 DEF RowsShape
  <2> HIDE DEF to
  <2> QED  BY <1>1, <1>3, <1>4, <2>1, <2>2, <2>3, <2>4 DEF RowsShape, CO!Slots, IsRow
<1>6. ~Changes(s)' /\ CO!Slots' = CO!Slots
  BY <1>4 DEF Changes, CO!Idle, CO!Slots
<1>7. \A t \in CO!Slots : t # s =>
        /\ Changes(t)' <=> Changes(t)
        /\ \A i : (Reached(t, i)' <=> Reached(t, i)) /\ (Passed(t, i)' <=> Passed(t, i))
  BY <1>1, <1>4, OthersPass
<1>8. ASSUME NEW i \in D, Reached(s, i)
      PROVE  Passed(s, i) /\ \A c : Dropped(i, c) <=> c \notin to.cols \/ Dropped(i, c)'
  <2>1. Passed(s, i) /\ ~Passed(s, i)'
    BY <1>1, <1>6, <1>8 DEF Passed
  <2>2. \A t \in CO!Slots : t # s =>
          (Passed(t, i)' <=> Passed(t, i)) /\ requests'[t].to = requests[t].to
    BY <1>4, <1>7
  <2> HIDE DEF to
  <2>3. requests[s].to = to
    BY DEF to
  <2> QED  BY <1>6, <2>1, <2>2, <2>3 DEF Dropped
<1>9. ToldInv'
  <2>1. CO!keys' \ raced' = DOMAIN told' \ raced'
    BY <1>1, <1>2 DEF ToldInv, CO!keys
  <2>2. ASSUME NEW i \in D, Fresh(i) PROVE Sound(i)'
    <3> DEFINE k == rows[i].key
    <3> DEFINE a == rows[i].values
    <3>1. Sound(i) /\ Spared(s, i) /\ k \in DOMAIN told
      BY <1>1, <2>2 DEF ToldInv, Fresh, CO!keys
    <3>2. Reached(s, i) /\ to.key = shape.key
      BY <1>1, <3>1 DEF Spared
    <3>3. \A c : Dropped(i, c) <=> c \notin to.cols \/ Dropped(i, c)'
      BY <1>8, <2>2, <3>2
    <3>4. /\ \A c \in Columns : CO!cell(a, c) = IF Dropped(i, c) THEN CO!Empty
                                                ELSE CO!cell(told[k], c)
          /\ k = CO!cell(a, shape.key) /\ VectorOf(rows[i])
      BY <3>1 DEF Sound
    <3>5. \A c \in Columns : CO!cell(told'[k], c) = IF c \in to.cols THEN CO!cell(told[k], c)
                                                    ELSE CO!Empty
      <4>1. DOMAIN told[k] = Columns
        BY <1>1, <3>1 DEF RowsShape
      <4> HIDE DEF k, to
      <4> QED  BY <1>2, <3>1, <4>1 DEF CO!cell
    <3>6. \A c \in Columns : CO!cell(a, c) = IF Dropped(i, c)' THEN CO!Empty
                                             ELSE CO!cell(told'[k], c)
      <4> HIDE DEF k, a, to
      <4> QED  BY <3>3, <3>4, <3>5
    <3>7. k = CO!cell(a, shape'.key)
      BY <1>1, <3>2, <3>4
    <3> HIDE DEF to
    <3> QED  BY <1>1, <3>4, <3>6, <3>7 DEF Sound, VectorOf, CO!cell
  <2>3. ASSUME NEW i \in D, Fresh(i), NEW t \in CO!Slots, Changes(t)' PROVE Spared(t, i)'
    <3>1. t # s /\ requests'[t] = requests[t] /\ Changes(t)
      BY <1>4, <1>6, <1>7, <2>3
    <3>2. Spared(t, i) /\ Spared(s, i)
      BY <1>1, <2>3, <3>1 DEF ToldInv
    <3>3. requests'[t].to.key = shape'.key
      BY <1>1, <3>1, <3>2 DEF Spared
    <3> HIDE DEF to
    <3> QED  BY <1>1, <1>7, <3>1, <3>2, <3>3 DEF Spared, CO!cell
  <2>4. \A i : Fresh(i)' <=> Fresh(i)
    BY <1>1 DEF Fresh
  <2> HIDE DEF to
  <2> QED  BY <1>1, <1>6, <2>1, <2>2, <2>3, <2>4 DEF ToldInv
<1>10. FlagsInv'
  <2> SUFFICES ASSUME ~torn' PROVE FlagsInv'
    BY DEF FlagsInv
  <2>1. /\ \A t \in CO!Slots : Changes(t) => t = s
        /\ \A i \in D : /\ Passed(s, i) => Flagged(to, i)
                        /\ r.last => Reached(s, i)
    BY <1>1 DEF FlagsInv
  <2>2. \A t \in CO!Slots : ~Changes(t)'
    BY <1>6, <1>7, <2>1
  <2>3. \A i \in D : Flagged(to, i)
    BY <1>1, <1>8, <2>1
  <2>4. \A i \in DOMAIN rows' : Flagged(shape, i)'
    <3> HIDE DEF to
    <3> QED  BY <1>1, <2>3 DEF Flagged, CO!isComplete, CO!cell
  <2> QED  BY <1>6, <2>2, <2>4 DEF FlagsInv
<1>11. CO!RoomKept'
  BY <1>1 DEF CO!RoomKept, CO!Cardinality
<1> QED  BY <1>4, <1>5, <1>9, <1>10, <1>11 DEF CollectionInv

\* A step of another part leaves the collection alone.
LEMMA RowsUnchanged ==
  ASSUME CollectionInv, UNCHANGED CO!collectionVars
  PROVE  CollectionInv'
<1>1. UNCHANGED <<shape, rows, requests, made, breaks, born, told, raced, torn, crowded>>
  BY DEF CO!collectionVars
<1>2. RowsShape /\ RequestsInv /\ ToldInv /\ FlagsInv /\ CO!RoomKept
  BY DEF CollectionInv
<1>3. CO!Slots' = CO!Slots
  BY DEF CO!Slots
<1>4. RowsShape'
  BY <1>1, <1>2, <1>3 DEF RowsShape, IsRow
<1>5. RequestsInv'
  BY <1>1, <1>2, <1>3 DEF RequestsInv, Counted
<1>6. CO!keys' = CO!keys
  BY <1>1 DEF CO!keys
<1>7. \A s \in CO!Slots :
        /\ Changes(s)' <=> Changes(s)
        /\ \A i : (Reached(s, i)' <=> Reached(s, i)) /\ (Passed(s, i)' <=> Passed(s, i))
  BY <1>1 DEF Changes, Reached, Passed, CO!Before
<1>8. \A i, c : Dropped(i, c)' <=> Dropped(i, c)
  BY <1>1, <1>3, <1>7 DEF Dropped
<1>9. \A i : (Fresh(i)' <=> Fresh(i)) /\ (Sound(i)' <=> Sound(i))
  BY <1>1, <1>8 DEF Fresh, Sound, VectorOf, CO!cell
<1>10. \A s \in CO!Slots : \A i : Spared(s, i)' <=> Spared(s, i)
  BY <1>1, <1>7 DEF Spared, CO!cell
<1>11. ToldInv'
  BY <1>1, <1>2, <1>3, <1>6, <1>7, <1>9, <1>10 DEF ToldInv
<1>12. \A c, i : Flagged(c, i)' <=> Flagged(c, i)
  BY <1>1 DEF Flagged, CO!isComplete, CO!cell
<1>13. FlagsInv'
  BY <1>1, <1>2, <1>3, <1>7, <1>12 DEF FlagsInv
<1>14. CO!RoomKept'
  BY <1>1, <1>2 DEF CO!RoomKept, CO!Cardinality
<1> QED  BY <1>4, <1>5, <1>11, <1>13, <1>14 DEF CollectionInv

LEMMA InitRows ==
  ASSUME CO!Init
  PROVE  CollectionInv
<1>1. /\ shape \in Shapes /\ rows = <<>> /\ requests = [s \in CO!Slots |-> CO!Idle]
      /\ made = 0 /\ breaks = 0 /\ born = 0
      /\ told = <<>> /\ raced = {} /\ torn = FALSE /\ crowded = FALSE
  BY RowsAssumption DEF CO!Init
<1>2. DOMAIN <<>> = {}
  OBVIOUS
<1>3. DOMAIN rows = {} /\ DOMAIN told = {} /\ CO!keys = {}
  BY <1>1, <1>2 DEF CO!keys
<1>4. RowsShape
  <2>1. born \in Nat /\ made \in 0 .. MaxRequests /\ breaks \in 0 .. MaxFaults
    BY <1>1, RowsAssumption
  <2>2. torn \in BOOLEAN /\ crowded \in BOOLEAN /\ DOMAIN requests = CO!Slots
    BY <1>1
  <2> QED  BY <1>1, <1>3, <2>1, <2>2 DEF RowsShape
<1>5. RequestsInv
  BY <1>1, IdleAsked DEF RequestsInv
<1>6. ToldInv /\ FlagsInv
  <2>1. \A s \in CO!Slots : ~Changes(s)
    BY <1>1 DEF Changes, CO!Idle
  <2>2. ToldInv
    BY <1>3 DEF ToldInv
  <2>3. FlagsInv
    BY <1>3, <2>1 DEF FlagsInv
  <2> QED  BY <2>2, <2>3
<1>7. CO!RoomKept
  BY <1>3, FS_EmptySet, RowCardinality, RowsAssumption DEF CO!RoomKept
<1> QED  BY <1>4, <1>5, <1>6, <1>7 DEF CollectionInv

LEMMA NextRows ==
  ASSUME CollectionInv, CO!Next
  PROVE  CollectionInv'
<1>1. PICK s \in CO!Slots :
        \/ \E given \in Given : \/ CO!AskAdd(s, given)
                                \/ \E i \in DOMAIN rows : CO!AskEdit(s, i, given)
        \/ \E i \in DOMAIN rows : CO!AskRemove(s, i)
        \/ \E to \in Shapes : CO!AskColumns(s, to)
        \/ \E file \in Files : CO!AskImport(s, file)
        \/ CO!InsertRow(s) \/ CO!UpdateRow(s) \/ CO!RemoveRow(s)
        \/ CO!ReadPage(s) \/ CO!ReshapeRow(s) \/ CO!SaveColumns(s)
        \/ CO!ReadBatch(s) \/ CO!InsertBatch(s) \/ CO!UpdateNext(s) \/ CO!EndImport(s)
        \/ CO!BreakOff(s)
  BY Zenon DEF CO!Next
<1>2. CASE \E given \in Given : \/ CO!AskAdd(s, given)
                                \/ \E i \in DOMAIN rows : CO!AskEdit(s, i, given)
  BY <1>2, NextAskAdd, NextAskEdit
<1>3. CASE \/ \E i \in DOMAIN rows : CO!AskRemove(s, i)
           \/ \E to \in Shapes : CO!AskColumns(s, to)
           \/ \E file \in Files : CO!AskImport(s, file)
  BY <1>3, NextAskRemove, NextAskColumns, NextAskImport
<1>4. CASE CO!InsertRow(s) \/ CO!UpdateRow(s) \/ CO!RemoveRow(s)
  BY <1>4, NextInsertRow, NextUpdateRow, NextRemoveRow
<1>5. CASE CO!ReadPage(s) \/ CO!ReshapeRow(s) \/ CO!SaveColumns(s)
  BY <1>5, NextReadPage, NextReshapeRow, NextSaveColumns
<1>6. CASE CO!ReadBatch(s) \/ CO!InsertBatch(s) \/ CO!UpdateNext(s) \/ CO!EndImport(s)
  BY <1>6, NextReadBatch, NextInsertBatch, NextUpdateNext, NextEndImport
<1>7. CASE CO!BreakOff(s)
  BY <1>7, NextBreakOff
<1> QED  BY <1>1, <1>2, <1>3, <1>4, <1>5, <1>6, <1>7, Zenon

\* The rows have as many keys as they are.
LEMMA OneKeyEach ==
  ASSUME RowsShape
  PROVE  Cardinality(CO!keys) = Cardinality(DOMAIN rows)
<1> DEFINE f == [i \in DOMAIN rows |-> rows[i].key]
<1>1. IsFiniteSet(DOMAIN rows)
  BY FiniteRows
<1>2. f \in Bijection(DOMAIN rows, CO!keys)
  <2>1. f \in [DOMAIN rows -> CO!keys] /\ \A k \in CO!keys : \E i \in DOMAIN rows : f[i] = k
    BY DEF CO!keys
  <2>2. \A i, j \in DOMAIN rows : f[i] = f[j] => i = j
    BY DEF RowsShape
  <2> HIDE DEF f
  <2> QED  BY <2>1, <2>2 DEF Bijection, Injection, Surjection, IsInjective
<1>3. ExistsBijection(DOMAIN rows, CO!keys)
  BY <1>2 DEF ExistsBijection
<1> QED  BY <1>1, <1>3, FS_Bijection

LEMMA RowsTell ==
  ASSUME CollectionInv
  PROVE  CO!CollectionTypeOK /\ CO!CollectionKept
<1>1. RowsShape /\ RequestsInv /\ ToldInv /\ FlagsInv /\ CO!RoomKept
  BY DEF CollectionInv
<1>2. CO!CollectionTypeOK
  <2>1. \A i \in DOMAIN rows : i \in 1 .. born /\ DOMAIN rows[i].values \subseteq Columns
    BY <1>1 DEF RowsShape, IsRow
  <2>2. CO!Cardinality(CO!keys) = CO!Cardinality(DOMAIN rows)
    BY <1>1, OneKeyEach, RowCardinality
  <2> QED  BY <1>1, <2>1, <2>2 DEF CO!CollectionTypeOK, RowsShape
<1>3. shape \in Shapes /\ shape.cols \subseteq Columns /\ shape.key \in Columns
  BY <1>1, RowsAssumption DEF RowsShape
<1>4. \A i \in DOMAIN rows : Fresh(i) => Sound(i) /\ rows[i].key \in DOMAIN told
  BY <1>1 DEF ToldInv, Fresh, CO!keys
<1>5. CO!RowsAsTold
  <2>1. CO!keys \ raced = DOMAIN told \ raced
    BY <1>1 DEF ToldInv
  <2>2. ASSUME ~CO!Reshaping, NEW i \in DOMAIN rows, rows[i].key \notin raced, NEW c \in shape.cols
        PROVE  CO!cell(rows[i].values, c) = told[rows[i].key][c]
    <3>1. ~Dropped(i, c)
      BY <2>2 DEF CO!Reshaping, Dropped, Passed, Changes
    <3>2. CO!cell(rows[i].values, c) = CO!cell(told[rows[i].key], c)
      BY <1>3, <1>4, <2>2, <3>1 DEF Sound, Fresh
    <3>3. DOMAIN told[rows[i].key] = Columns
      BY <1>1, <1>4, <2>2 DEF RowsShape, Fresh
    <3> QED  BY <1>3, <2>2, <3>2, <3>3 DEF CO!cell
  <2> QED  BY <2>1, <2>2 DEF CO!RowsAsTold
<1>6. CO!KeyTellsRow
  BY <1>4 DEF CO!KeyTellsRow, CO!keyValueOf, Sound, Fresh
<1>7. CO!CompleteTells
  BY <1>1 DEF CO!CompleteTells, CO!Reshaping, FlagsInv, Flagged, Changes
<1>8. CO!VectorTells
  BY <1>4 DEF CO!VectorTells, Sound, VectorOf, Fresh
<1> QED  BY <1>1, <1>2, <1>5, <1>6, <1>7, <1>8 DEF CO!CollectionKept

\* What the tools of a turn leave behind tells the truth (runAck.ts, typing.ts,
\* collections/server/service.ts): no acknowledgement outlives the outcome, the typing
\* loops go with the turns, and the rows are those the requests asked for, with the key,
\* the flag and the vector of their cells, but for what was written from a stale copy.
THEOREM WorkTellsTrueHolds == AnswersSpec => []WorkTellsTrue
<1> DEFINE Inv == /\ part = "acks" => AcksInv
                  /\ part = "typing" => TypingInv
                  /\ part = "rows" => CollectionInv
<1>1. AnswersInit => Inv
  BY InitAcks, InitTyping, InitRows DEF AnswersInit
<1>2. Inv /\ [AnswersNext]_answerVars => Inv'
  <2> SUFFICES ASSUME Inv, [AnswersNext]_answerVars PROVE Inv'
    OBVIOUS
  <2>1. part' = part
    BY DEF AnswersNext, answerVars
  <2>2. ASSUME part = "acks" PROVE AcksInv'
    <3>1. [RA!Next]_(RA!ackVars)
      BY <2>2 DEF AnswersNext, answerVars, ackVars, RA!ackVars, RA!runVars
    <3> QED  BY <2>2, <3>1, NextAcks
  <2>3. ASSUME part = "typing" PROVE TypingInv'
    <3>1. [TY!Next]_(TY!typingVars)
      BY <2>3 DEF AnswersNext, answerVars, typingVars, TY!typingVars
    <3> QED  BY <2>3, <3>1, NextTyping
  <2>4. ASSUME part = "rows" PROVE CollectionInv'
    <3>1. CO!Next \/ UNCHANGED CO!collectionVars
      BY <2>4 DEF AnswersNext, answerVars, rowVars, CO!collectionVars
    <3> QED  BY <2>4, <3>1, NextRows, RowsUnchanged
  <2> QED  BY <2>1, <2>2, <2>3, <2>4
<1>3. Inv => WorkTellsTrue
  BY AcksTell, TypingTells, RowsTell DEF WorkTellsTrue, SignsFollowWork, RowsFollowTools
<1> QED  BY <1>1, <1>2, <1>3, PTL DEF AnswersSpec
=============================================================================
