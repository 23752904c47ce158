----------------------------- MODULE TypingLoops ---------------------------
(***************************************************************************)
(* The typing indicator of a hosted transport (TypingLoops and lifecycle   *)
(* in core/server/transports/host/delivery.ts), driven by the lifecycle    *)
(* events of the turns of one chat (core/server/turn/consume.ts,           *)
(* turn-events.ts).  A loop is keyed by chat and message: the assistants   *)
(* that answer one group message share it.                                 *)
(***************************************************************************)
EXTENDS Naturals

CONSTANTS
  Turns,        \* the turns of the chat, from 1 on
  Messages,     \* what they answer
  messageOf,    \* the message of a turn
  MaxAttempts   \* MAX_ATTEMPTS (5 in the code)

VARIABLES
  phase,        \* of a turn: "queued", "running", "delayed" (a retry), "settled", "lost"
  typing,       \* whether the attempt that runs has asked for the indicator
  acted,        \* whether it has called a tool
  attempt,
  loop          \* the turn whose start() made the loop of a message, or NoLoop

typingVars == <<phase, typing, acted, attempt, loop>>

NoLoop == 0

Init ==
  /\ phase = [t \in Turns |-> "queued"]
  /\ typing = [t \in Turns |-> FALSE] /\ acted = [t \in Turns |-> FALSE]
  /\ attempt = [t \in Turns |-> 1]
  /\ loop = [m \in Messages |-> NoLoop]

-----------------------------------------------------------------------------
\* TypingLoops.start: nothing if the key has a loop.
start(t) == IF loop[messageOf[t]] = NoLoop THEN [loop EXCEPT ![messageOf[t]] = t] ELSE loop

\* TypingLoops.stop.
stop(t) == [loop EXCEPT ![messageOf[t]] = NoLoop]

\* The chat's chain comes to the turn.
Begin(t) ==
  /\ phase[t] \in {"queued", "delayed"}
  /\ \A u \in Turns : phase[u] # "running"
  /\ phase' = [phase EXCEPT ![t] = "running"]
  /\ UNCHANGED <<typing, acted, attempt, loop>>

\* startTyping, or the wait for a transcription: "accepted".
Accepted(t) ==
  /\ phase[t] = "running" /\ typing' = [typing EXCEPT ![t] = TRUE]
  /\ loop' = start(t)
  /\ UNCHANGED <<phase, acted, attempt>>

\* onBeforeToolCall, once the turn is being answered: the mark, then "progress".
Progress(t) ==
  /\ phase[t] = "running" /\ typing[t] /\ acted' = [acted EXCEPT ![t] = TRUE]
  /\ loop' = start(t)
  /\ UNCHANGED <<phase, typing, attempt>>

\* Mutation: a turn that failed is not reported as settled.
SettledIfHandled(t) ==
  /\ phase[t] = "running" /\ phase' = [phase EXCEPT ![t] = "settled"]
  /\ loop' \in {loop, stop(t)}
  /\ typing' = [typing EXCEPT ![t] = FALSE] /\ UNCHANGED <<acted, attempt>>

\* handleInboundJob: the turn returned, or failed where no retry is allowed.
Settled(t) ==
  /\ phase[t] = "running" /\ phase' = [phase EXCEPT ![t] = "settled"]
  /\ loop' = stop(t)
  /\ typing' = [typing EXCEPT ![t] = FALSE] /\ UNCHANGED <<acted, attempt>>

MayRetry(t) == phase[t] = "running" /\ ~acted[t] /\ attempt[t] < MaxAttempts

\* It failed before it acted: the turn stays live, and so does the indicator.
Retried(t) ==
  /\ MayRetry(t)
  /\ phase' = [phase EXCEPT ![t] = "delayed"] /\ attempt' = [attempt EXCEPT ![t] = @ + 1]
  /\ typing' = [typing EXCEPT ![t] = FALSE] /\ UNCHANGED <<acted, loop>>

\* ... but the queue did not take the retry: the job fails without "settled".
RetryLost(t) ==
  /\ MayRetry(t)
  /\ phase' = [phase EXCEPT ![t] = "lost"]
  /\ typing' = [typing EXCEPT ![t] = FALSE] /\ UNCHANGED <<acted, attempt, loop>>

Next ==
  \E t \in Turns :
    Begin(t) \/ Accepted(t) \/ Progress(t) \/ Settled(t) \/ Retried(t) \/ RetryLost(t)

-----------------------------------------------------------------------------
\* "Typing runs from `accepted` until `settled`" (delivery.ts:37): a loop ends with
\* the turn that started it; one whose retry was lost types on.
LoopEndsWithTurn ==
  \A m \in Messages : loop[m] # NoLoop =>
    messageOf[loop[m]] = m /\ phase[loop[m]] \in {"running", "delayed", "lost"}

\* A turn that has asked for the indicator has one, though assistants that answer
\* one message share the loop and any of them stops it.
AnswererTypes == \A t \in Turns : phase[t] = "running" /\ typing[t] => loop[messageOf[t]] # NoLoop

\* The indicator is shown for the turns that run, and for no other.
TypingFollowsTurns == LoopEndsWithTurn /\ AnswererTypes
=============================================================================
