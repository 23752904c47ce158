------------------------------ MODULE Answers ------------------------------
(***************************************************************************)
(* Answers and what a chat sees of them: the run of one turn, on every kind*)
(* of turn; the answers that assistants of one chat give each other; the   *)
(* acknowledgement of a run handed to the browser agent; the typing        *)
(* indicator; the collection that the tools of a turn fill and the         *)
(* dashboard changes.  They share no variable, so one instance explores    *)
(* each of them alone: `part` picks one at the start, the others stay as   *)
(* they are.                                                               *)
(***************************************************************************)
EXTENDS ReplyPipeline

CONSTANTS
  Assistants, Limit, MaxParts, MaxHumans, MaxLog, MaxMishaps,   \* of CrossFeed
  Chunks,                                                       \* of RunAcks
  TypingTurns, Messages, messageOf, MaxAttempts,                \* of TypingLoops
  Columns, Shapes, Created, Given, Files, MaxRows, ImportBatch, \* of Collection
  Page, AtOnce, MaxRequests, MaxFaults

\* Chunks and turns are numbered from 1; a turn answers one message.
ASSUME SignsAssumption ==
  /\ Chunks \subseteq Nat \ {0}
  /\ TypingTurns \subseteq Nat \ {0} /\ messageOf \in [TypingTurns -> Messages]

\* A column list has its key column among the columns; what is given are cells of some
\* columns, a document is a finite sequence of them, and 200 and 500 are not 0.
ASSUME RowsAssumption ==
  /\ Created \subseteq Shapes
  /\ \A s \in Shapes : s.cols \subseteq Columns /\ s.key \in s.cols
  /\ \A g \in Given : DOMAIN g \subseteq Columns
  /\ \A f \in Files : Len(f) \in Nat /\ DOMAIN f = 1 .. Len(f)
  /\ MaxRows \in Nat /\ ImportBatch \in Nat \ {0} /\ Page \in Nat \ {0}
  /\ AtOnce \in Nat /\ MaxRequests \in Nat /\ MaxFaults \in Nat

VARIABLES
  part,
  \* CrossFeed
  chat, opening, turns, parts, failedFeeds,
  \* RunAcks
  saying, sending, open, run, entry, ids, deleting, standing, named, refused, excused,
  \* TypingLoops
  phase, typing, busy, attempt, loop,
  \* Collection
  shape, rows, requests, made, breaks, born, told, raced, torn, crowded

feedVars == <<chat, opening, turns, parts, failedFeeds>>
ackVars ==
  <<saying, sending, open, run, entry, ids, deleting, standing, named, refused, excused>>
typingVars == <<phase, typing, busy, attempt, loop>>
rowVars == <<shape, rows, requests, made, breaks, born, told, raced, torn, crowded>>
answerVars == <<part, vars, feedVars, ackVars, typingVars, rowVars>>

CF == INSTANCE CrossFeed WITH mishaps <- failedFeeds
RA == INSTANCE RunAcks WITH reply <- sending
TY == INSTANCE TypingLoops WITH acted <- busy, Turns <- TypingTurns
CO == INSTANCE Collection WITH faults <- breaks

AnswersInit ==
  /\ part \in {"turn", "feed", "acks", "typing", "rows"}
  /\ Init /\ CF!Init /\ RA!Init /\ TY!Init /\ CO!Init
  /\ part # "turn" => window = 0 /\ turn = CHOOSE t \in Turns : t.addressing = "no"

AnswersNext ==
  /\ UNCHANGED part
  /\ \/ part = "turn" /\ Next /\ UNCHANGED <<feedVars, ackVars, typingVars, rowVars>>
     \/ part = "feed" /\ CF!Next /\ UNCHANGED <<vars, ackVars, typingVars, rowVars>>
     \/ part = "acks" /\ RA!Next /\ UNCHANGED <<vars, feedVars, typingVars, rowVars>>
     \/ part = "typing" /\ TY!Next /\ UNCHANGED <<vars, feedVars, ackVars, rowVars>>
     \/ part = "rows" /\ CO!Next /\ UNCHANGED <<vars, feedVars, ackVars, typingVars>>

\* The fairness of each component, for the part that runs.
AnswersSpec ==
  /\ AnswersInit /\ [][AnswersNext]_answerVars
  /\ WF_vars(part = "turn" /\ Next)
  /\ WF_feedVars(part = "feed" /\ CF!ChatStep)

-----------------------------------------------------------------------------
\* The retries of the judgements are harmless: no text of theirs escapes the checks
\* but the honesty gate's, they repeat no action, and they do not go on forever.
RetriesEndHarmless ==
  []NotesOnlyFromTheGate /\ EnforcementRepeatsNothing /\ (part = "turn" => Ends)

\* What a chat sees of work under way goes with the work: no acknowledgement is left
\* once the outcome is told, a typing loop ends with the turn that started it, and a
\* turn that asked for the indicator has one (with the types of RunAcks).
SignsFollowWork ==
  /\ part = "acks" => RA!AckTypeOK /\ RA!NoAckStands
  /\ part = "typing" => TY!TypingFollowsTurns

\* A collection holds the rows its tools were told of, under their keys and with the
\* flag and the vector their cells make (with the types of Collection).
RowsFollowTools == part = "rows" => CO!CollectionTypeOK /\ CO!CollectionKept

\* What the tools of a turn leave behind tells the truth, in the chat and in the rows.
WorkTellsTrue == SignsFollowWork /\ RowsFollowTools

\* At the limit no message of an assistant opens another answer, and assistants
\* that hear each other fall silent (with the types of CrossFeed).
ExchangeEnds == CF!ExchangeEnds

=============================================================================
