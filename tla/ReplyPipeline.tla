--------------------------- MODULE ReplyPipeline ---------------------------
(***************************************************************************)
(* One run of a turn: processInboundEvent of core/server/turn/consume.ts   *)
(* and the reply pipeline under it, handleIncomingMessage of               *)
(* core/features/bot-messaging/server/service.ts, with the collaborators   *)
(* of turn-bindings.ts that share state with it.                           *)
(*                                                                         *)
(* The pipeline decides whether to answer, generates, judges the answer,   *)
(* retries it, and delivers exactly one thing.  The model's text is        *)
(* abstracted to what the checks tell apart.                               *)
(***************************************************************************)
EXTENDS Naturals, Sequences, FiniteSets

CONSTANTS
  MaxWindow,  \* bound: messages in the history window
  MaxCalls    \* bound: tool calls of one turn

ASSUME PipelineAssumption == MaxWindow \in Nat /\ MaxCalls \in Nat

\* What the source and the stores say of a turn before it runs.
Turns == [addressing : {"yes", "no", "undecided"},
          content : BOOLEAN,      \* text, or an attachment the turn can use
          voice : BOOLEAN,        \* a voice message: answered with voice
          owner : BOOLEAN,        \* senderIsOwner
          maintenance : BOOLEAN,  \* maintenanceModeEnabled
          opener : BOOLEAN,       \* a `message` task is set in the chat
          lender : BOOLEAN]       \* a task whose author has owner rights is

\* An answer, the model's deliberation, or a text that claims an action.
Texts == {"plain", "notes", "claim"}

Notices == {"not_produced", "not_applied", "not_taken"}

VARIABLES
  turn,       \* the turn, never changed
  pc,         \* where the run stands
  verdict,    \* the addressing analyzer's: "pending", "yes" or "no"
  match,      \* the unaddressed task match: "pending", "opened" or "nothing"
  task,       \* taskDirective: a standing task opened the turn
  opened,     \* taskOpenedTurn: the delivery tool is on offer
  authority,  \* taskAuthorityIsOwner: the match that lent owner rights
  window,     \* windowCap
  ask,        \* the generation under way: the reply or the kind of its retry
  calls,      \* toolCallCount
  reply,      \* the last text generated
  note,       \* the message about to be sent
  marked,     \* the actions-started marker of the turn
  posts,      \* history: what the chat received, in order
  missed,     \* history: the honesty gate let a claim pass
  failed,     \* history: a send reported a failure
  lost,       \* history: sends that reported a failure and arrived
  acted,      \* history: something left the process
  trace,      \* the reply trace: "none", "open" or as it was settled
  outcome     \* "running", "ignored", "replied", "error" or "thrown"

decision == <<verdict, match, task>>
bindings == <<opened, authority>>
generation == <<window, ask, calls, reply, missed>>
sent == <<marked, posts, failed, lost, acted>>
vars == <<turn, pc, decision, bindings, generation, note, sent, trace, outcome>>

Init ==
  /\ turn \in Turns
  /\ pc = "prepare"
  /\ verdict = "no" /\ match = "nothing" /\ task = FALSE
  /\ opened = FALSE /\ authority = "none"
  /\ window \in 0 .. MaxWindow
  /\ ask = "reply" /\ calls = 0 /\ reply = "plain"
  /\ note = "none" /\ marked = FALSE /\ posts = <<>>
  /\ missed = FALSE /\ failed = FALSE /\ lost = 0 /\ acted = FALSE
  /\ trace = "none" /\ outcome = "running"

\* The run ends with `result`, its trace settled as `settled`.
End(result, settled) ==
  /\ pc' = "done"
  /\ outcome' = result
  /\ trace' = settled

\* A trace that nothing opened is not there to be settled.
Skipped == IF trace = "open" THEN "skipped" ELSE trace

\* The next message to send, and where it is sent from.
GoSend(kind) ==
  /\ pc' = "send"
  /\ note' = kind

\* An error inside the pipeline: the trace fails, an apology is sent.
GoError ==
  /\ GoSend("error")
  /\ trace' = "error"

(***************************************************************************)
(* Before the pipeline: a voice turn opens its trace for the               *)
(* transcription, then the collaborators are built.                        *)
(***************************************************************************)

\* The trace a turn has before the pipeline runs.
EarlyTrace == IF turn.voice THEN "open" ELSE "none"

Prepare ==
  /\ pc = "prepare"
  /\ pc' = "received"
  /\ trace' = EarlyTrace
  /\ UNCHANGED <<turn, decision, bindings, generation, note, sent, outcome>>

\* The policy cannot be read: the job fails, and the consumer may retry it.
PrepareFails ==
  /\ pc = "prepare"
  /\ End("thrown", EarlyTrace)
  /\ UNCHANGED <<turn, decision, bindings, generation, note, sent>>

(***************************************************************************)
(* Whether to answer.                                                      *)
(***************************************************************************)

NoContent ==
  /\ pc = "received" /\ ~turn.content
  /\ End("ignored", Skipped)
  /\ UNCHANGED <<turn, decision, bindings, generation, note, sent>>

Addressed ==
  /\ pc = "received" /\ turn.content
  /\ turn.addressing = "yes"
  /\ pc' = "admitted"
  /\ UNCHANGED <<turn, decision, bindings, generation, note, sent, trace, outcome>>

CanElevate == ~turn.owner /\ turn.lender

\* applyTasks, the match of an unaddressed message: off in maintenance.
MatchWired == ~turn.maintenance /\ (turn.opener \/ CanElevate)

Consider ==
  /\ pc = "received" /\ turn.content
  /\ turn.addressing # "yes"
  /\ pc' = "deciding"
  /\ verdict' = IF turn.addressing = "undecided" /\ ~turn.maintenance
                THEN "pending" ELSE "no"
  /\ match' = IF MatchWired /\ turn.opener THEN "pending" ELSE "nothing"
  /\ trace' = IF verdict' = "pending" \/ MatchWired THEN "open" ELSE trace
  /\ UNCHANGED <<turn, task, bindings, generation, note, sent, outcome>>

\* A failed call is a "no".
AnalyzerAnswers ==
  /\ pc = "deciding" /\ verdict = "pending"
  /\ verdict' \in {"yes", "no"}
  /\ UNCHANGED <<turn, pc, match, task, bindings, generation, note, sent, trace, outcome>>

\* The rights a match in `phase` may lend: none, or its author's.
Lendable(phase) == {"none"} \cup IF turn.lender THEN {phase} ELSE {}

\* The match of an unaddressed message matched a task, nothing, or failed;
\* it runs beside the analyzer and leaves its mark on the turn's bindings.
MatchUnaddressed ==
  /\ pc = "deciding" /\ match = "pending"
  /\ \/ match' = "opened" /\ opened' = TRUE /\ authority' \in Lendable("opening")
     \/ match' = "nothing" /\ authority' \in {"none", authority} /\ UNCHANGED opened
  /\ UNCHANGED <<turn, pc, verdict, task, generation, note, sent, trace, outcome>>

Decided == pc = "deciding" /\ verdict # "pending" /\ match # "pending"

Summoned ==
  /\ Decided /\ verdict = "yes"
  /\ pc' = "admitted"
  /\ UNCHANGED <<turn, decision, bindings, generation, note, sent, trace, outcome>>

OpenedByTask ==
  /\ Decided /\ verdict = "no" /\ match = "opened"
  /\ pc' = "admitted"
  /\ task' = TRUE
  /\ UNCHANGED <<turn, verdict, match, bindings, generation, note, sent, trace, outcome>>

NotAddressed ==
  /\ Decided /\ verdict = "no" /\ match = "nothing"
  /\ End("ignored", Skipped)
  /\ UNCHANGED <<turn, decision, bindings, generation, note, sent>>

Blocked == turn.maintenance /\ ~turn.owner

\* checkMaintenance: everyone but the owner gets the notice.
Maintenance ==
  /\ pc = "admitted" /\ Blocked
  /\ GoSend("maintenance")
  /\ trace' = "open"
  /\ UNCHANGED <<turn, decision, bindings, generation, sent, outcome>>

(***************************************************************************)
(* Context loads, the generation and the judgement of its answer.          *)
(***************************************************************************)

\* applyStandingTasks on an addressed turn: only where rights could be lent.
\* A failed match, and one that asks nothing, leave the bindings as they are.
MatchAddressed ==
  \/ UNCHANGED bindings
  \/ /\ ~task /\ CanElevate
     /\ \/ authority' = "none" /\ UNCHANGED opened
        \/ authority' \in Lendable("addressed") /\ opened' \in {FALSE, turn.opener}

Load ==
  /\ pc = "admitted" /\ ~Blocked
  /\ MatchAddressed
  /\ pc' = "generating"
  /\ trace' = "open"
  /\ UNCHANGED <<turn, decision, generation, note, sent, outcome>>

\* A load, or the language model's configuration, cannot be read.
LoadFails ==
  /\ pc = "admitted" /\ ~Blocked
  /\ GoError
  /\ UNCHANGED <<turn, decision, bindings, generation, sent, outcome>>

\* The loop runs a tool: marked first, and it may be the delivery tool.
ToolRuns ==
  /\ pc = "generating" /\ calls < MaxCalls
  /\ calls' = calls + 1
  /\ marked' = TRUE /\ acted' = TRUE
  /\ posts' \in {posts} \cup IF opened THEN {Append(posts, "tool")} ELSE {}
  /\ UNCHANGED <<turn, pc, decision, bindings, window, ask, reply, missed, note,
                 failed, lost, trace, outcome>>

\* The marker cannot be set: the loop reports a failed call and goes on.
ToolRefused ==
  /\ pc = "generating" /\ calls < MaxCalls
  /\ calls' = calls + 1
  /\ UNCHANGED <<turn, pc, decision, bindings, window, ask, reply, missed, note,
                 sent, trace, outcome>>

\* The reply's first generation overflows the context: half the window.
Overflow ==
  /\ pc = "generating" /\ ask = "reply" /\ window > 0
  /\ window' = window \div 2
  /\ UNCHANGED <<turn, pc, decision, bindings, ask, calls, reply, missed, note, sent,
                 trace, outcome>>

GenerationFails ==
  /\ pc = "generating"
  /\ GoError
  /\ UNCHANGED <<turn, decision, bindings, generation, sent, outcome>>

Generated ==
  /\ pc = "generating"
  /\ pc' = "judging"
  /\ reply' \in Texts
  /\ UNCHANGED <<turn, decision, bindings, window, ask, calls, missed, note, sent,
                 trace, outcome>>

\* The answer is thrown away and asked for once more.
AskAgain(kind) ==
  /\ ask' = kind
  /\ pc' = "generating"
  /\ UNCHANGED <<turn, decision, bindings, window, calls, reply, missed, note, sent,
                 trace, outcome>>

\* Mutation: the answer is thrown away and nobody is told.
SuppressSilently(kind) ==
  /\ End("error", "error")
  /\ UNCHANGED <<turn, decision, bindings, generation, note, sent>>

\* The answer is thrown away and the chat is told so.
Suppress(kind) ==
  /\ GoSend(kind)
  /\ UNCHANGED <<turn, decision, bindings, generation, sent, trace, outcome>>

\* checkReplyIntegrity judges the reply and its integrity retry, no later text.
Deliberation == ask \in {"reply", "integrity"} /\ reply = "notes"

RetryDeliberation == pc = "judging" /\ Deliberation /\ ask = "reply" /\ AskAgain("integrity")

SuppressDeliberation ==
  pc = "judging" /\ Deliberation /\ ask = "integrity" /\ Suppress("not_produced")

\* Mutation: any answer of a task turn is asked for again.
TaskAlways == ~Deliberation /\ task

\* A turn a task opened must have called a tool.
TaskIdle == ~Deliberation /\ task /\ calls = 0

RetryTask == pc = "judging" /\ TaskIdle /\ ask # "enforce" /\ AskAgain("enforce")

SuppressTask == pc = "judging" /\ TaskIdle /\ ask = "enforce" /\ Suppress("not_applied")

\* Mutation: the text of the gate's own retry is not judged.
GatedOnce == ~Deliberation /\ ~task /\ calls = 0 /\ ask # "honesty"

\* runActionClaimGate judges an answer given without a tool call.
Gated == ~Deliberation /\ ~task /\ calls = 0

RetryClaim == pc = "judging" /\ Gated /\ ask # "honesty" /\ AskAgain("honesty")

SuppressClaim == pc = "judging" /\ Gated /\ ask = "honesty" /\ Suppress("not_taken")

\* Mutation: a task turn's own text is delivered as well.
StandPosts ==
  /\ pc = "judging" /\ ~Deliberation /\ ~TaskIdle
  /\ missed' = (Gated /\ reply = "claim")
  /\ pc' = IF turn.voice THEN "speak" ELSE "send"
  /\ note' = "answer"
  /\ UNCHANGED <<turn, decision, bindings, window, ask, calls, reply, sent, trace, outcome>>

\* The answer stands: a task turn has spoken through its tools, any other turn
\* delivers it.  A gate that fails or abstains lets a claim pass.
Stand ==
  /\ pc = "judging" /\ ~Deliberation /\ ~TaskIdle
  /\ missed' = (Gated /\ reply = "claim")
  /\ IF task
     THEN End("replied", "success") /\ UNCHANGED note
     ELSE /\ pc' = IF turn.voice THEN "speak" ELSE "send"
          /\ note' = "answer"
          /\ UNCHANGED <<trace, outcome>>
  /\ UNCHANGED <<turn, decision, bindings, window, ask, calls, reply, sent>>

(***************************************************************************)
(* Delivery.  A send marks the turn first; it succeeds, fails, or reports  *)
(* a failure although the message arrives.                                 *)
(***************************************************************************)

\* Mutation: the send is not marked.
ArrivesUnmarked ==
  /\ acted' = TRUE
  /\ posts' = Append(posts, note)
  /\ UNCHANGED <<marked, failed, lost>>

Arrives ==
  /\ marked' = TRUE /\ acted' = TRUE
  /\ posts' = Append(posts, note)
  /\ UNCHANGED <<failed, lost>>

FailsToArrive ==
  /\ failed' = TRUE
  /\ \/ marked' \in {marked, TRUE} /\ UNCHANGED <<posts, lost, acted>>
     \/ marked' = TRUE /\ acted' = TRUE /\ posts' = Append(posts, note) /\ lost' = lost + 1

\* The voice reply: no audio, or a refused one, falls back to the text.
Speak ==
  /\ pc = "speak"
  /\ \/ Arrives /\ End("replied", "success")
     \/ FailsToArrive /\ pc' = "send" /\ UNCHANGED <<trace, outcome>>
     \/ pc' = "send" /\ UNCHANGED <<sent, trace, outcome>>
  /\ UNCHANGED <<turn, decision, bindings, generation, note>>

\* The marker of a voice reply cannot be set: an error like any other.
SpeakUnmarked ==
  /\ pc = "speak"
  /\ failed' = TRUE
  /\ GoError
  /\ UNCHANGED <<turn, decision, bindings, generation, marked, posts, lost, acted, outcome>>

Send ==
  /\ pc = "send"
  /\ Arrives
  /\ CASE note = "answer" -> End("replied", "success")
       [] note = "maintenance" -> End("ignored", "skipped")
       [] OTHER -> End("error", "error")
  /\ UNCHANGED <<turn, decision, bindings, generation, note>>

\* The two notices sent in passing end the turn, delivered or not; any other
\* failure to send is an error, and the apology is tried.
SendFails ==
  /\ pc = "send"
  /\ FailsToArrive
  /\ CASE note = "maintenance" -> End("ignored", "skipped") /\ UNCHANGED note
       [] note = "error" -> End("error", "error") /\ UNCHANGED note
       [] OTHER -> GoError /\ UNCHANGED outcome
  /\ UNCHANGED <<turn, decision, bindings, generation>>

Next ==
  \/ Prepare \/ PrepareFails
  \/ NoContent \/ Addressed \/ Consider \/ AnalyzerAnswers \/ MatchUnaddressed
  \/ Summoned \/ OpenedByTask \/ NotAddressed \/ Maintenance
  \/ Load \/ LoadFails
  \/ ToolRuns \/ ToolRefused \/ Overflow \/ GenerationFails \/ Generated
  \/ RetryDeliberation \/ SuppressDeliberation \/ RetryTask \/ SuppressTask
  \/ RetryClaim \/ SuppressClaim \/ Stand
  \/ Speak \/ SpeakUnmarked \/ Send \/ SendFails

\* Every await of the run settles: its requests have timeouts.
Spec == Init /\ [][Next]_vars /\ WF_vars(Next)

(***************************************************************************)
(* Properties.                                                             *)
(***************************************************************************)

\* Type correctness.
TypeOK ==
  /\ turn \in Turns
  /\ pc \in {"prepare", "received", "deciding", "admitted", "generating", "judging",
             "speak", "send", "done"}
  /\ verdict \in {"pending", "yes", "no"} /\ match \in {"pending", "opened", "nothing"}
  /\ task \in BOOLEAN /\ opened \in BOOLEAN
  /\ authority \in {"none", "opening", "addressed"}
  /\ window \in 0 .. MaxWindow /\ calls \in 0 .. MaxCalls
  /\ ask \in {"reply", "integrity", "enforce", "honesty"}
  /\ reply \in Texts
  /\ note \in Notices \cup {"none", "answer", "maintenance", "error"}
  /\ posts \in Seq(Notices \cup {"tool", "answer", "maintenance", "error"})
  /\ marked \in BOOLEAN /\ acted \in BOOLEAN /\ missed \in BOOLEAN /\ failed \in BOOLEAN
  /\ lost \in Nat
  /\ trace \in {"none", "open", "success", "skipped", "error"}
  /\ outcome \in {"running", "ignored", "replied", "error", "thrown"}

\* What the pipeline itself said, without the tools' deliveries.
Said == {i \in DOMAIN posts : posts[i] # "tool"}

\* A turn says one thing: an answer, a notice or the apology; a second message
\* goes out only when the send of the one before was reported failed but was not.
AtMostOneText == Cardinality(Said) <= 1 + lost

\* A turn the assistant took up leaves nobody in silence: something reached the
\* chat, or a send failed, or a task's turn did its work through a tool.
NeverSilent ==
  outcome \in {"replied", "error"} /\ posts = <<>> => failed \/ (task /\ calls > 0)

\* An answer that claims an action is sent only if a tool was called, or if the
\* honesty gate could not see the claim.
HonestAnswer ==
  "answer" \in {posts[i] : i \in DOMAIN posts} /\ reply = "claim" => calls > 0 \/ missed

\* Deliberation is sent as an answer only when the honesty gate's retry wrote it,
\* the one text an ordinary turn delivers that checkReplyIntegrity never sees.
NotesOnlyFromTheGate ==
  "answer" \in {posts[i] : i \in DOMAIN posts} /\ reply = "notes" => ask = "honesty"

\* A turn a standing task opened is carried out by a tool call, and its own text
\* is never posted.
TaskTurnActs ==
  task => /\ "answer" \notin {posts[i] : i \in DOMAIN posts}
          /\ outcome = "replied" => calls > 0

\* Every turn the pipeline ends settles its trace, as what happened.
TraceSettled ==
  /\ outcome = "replied" => trace = "success"
  /\ outcome = "error" => trace = "error"
  /\ outcome = "ignored" => trace \in {"none", "skipped"}

\* A turn that has ended is accounted for in the chat and in the traces: it said
\* one thing, it was not silent, and its trace tells how it went.
TurnAccounted == TypeOK /\ AtMostOneText /\ NeverSilent /\ TraceSettled

\* The two enforcement retries, which offer the tools again, run only in a turn
\* that called none: they cannot repeat what a tool has done.
EnforcementRepeatsNothing ==
  [][ask' # ask /\ ask' \in {"enforce", "honesty"} => calls = 0]_vars

\* Every run comes to its end.
Ends == <>(pc = "done")

\* What the consumer sees of a run: how it ended.
Ended == CASE outcome = "running" -> "no" [] outcome = "thrown" -> "thrown"
           [] OTHER -> "returned"

Run == INSTANCE TurnRun WITH ended <- Ended

\* The pipeline keeps the promise of TurnRun: it marks before it acts, and it
\* throws, which is what lets the consumer run it again, only before it acts.
ImplementsTurnRun == Run!Spec
=============================================================================
