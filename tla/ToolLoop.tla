------------------------------ MODULE ToolLoop ------------------------------
(***************************************************************************)
(* One generation with tools: runToolLoop of core/server/llm/tool-loop.ts, *)
(* as chatCompletionWithTools calls it.  Each round the model answers,     *)
(* calls tools or produces nothing; the loop runs the calls, re-asks after *)
(* an empty round and takes the tools away from a model that stalls.       *)
(***************************************************************************)
EXTENDS Naturals

CONSTANTS
  Calls,            \* the signatures (name and arguments) of well-formed calls
  MaxRounds,        \* hard cap on rounds (DEFAULT_MAX_ROUNDS is 16)
  MaxStallRounds,   \* MAX_STALL_ROUNDS, 3 in the code
  MaxEmptyRetries,  \* MAX_EMPTY_ROUND_RETRIES, 1 in the code
  HasFinal,         \* whether the caller gave completeFinal
  Malformed         \* whether the model may emit a call without a name

ASSUME ToolLoopAssumption ==
  /\ MaxRounds \in Nat \ {0}
  /\ MaxStallRounds \in Nat \ {0}
  /\ MaxEmptyRetries \in Nat
  /\ HasFinal \in BOOLEAN /\ Malformed \in BOOLEAN

VARIABLES
  rounds,    \* model rounds so far
  stalls,    \* the streak of rounds that introduced no new call
  empties,   \* rounds that produced nothing and were re-asked
  seen,      \* the calls that have run
  result,    \* "running", "forcing" a last answer without tools, or the end
  looped,    \* loopDetected
  idle,      \* history: the streak of rounds that ran nothing new (saturating)
  streak,    \* history: "odd" once that streak holds a call without a name
  glitched   \* history: an empty round followed work that was done

vars == <<rounds, stalls, empties, seen, result, looped, idle, streak, glitched>>

Results == {"running", "forcing", "answer", "empty", "failed"}

Init ==
  /\ rounds = 0 /\ stalls = 0 /\ empties = 0
  /\ seen = {}
  /\ result = "running"
  /\ looped = FALSE
  /\ idle = 0
  /\ streak = "named"
  /\ glitched = FALSE

\* forceAnswer: without completeFinal there is only the empty content.
ForceAnswer(stalled) ==
  /\ result' = IF HasFinal THEN "forcing" ELSE "empty"
  /\ looped' = stalled

\* The round cap.
Cap ==
  /\ result = "running"
  /\ rounds >= MaxRounds
  /\ ForceAnswer(TRUE)
  /\ UNCHANGED <<rounds, stalls, empties, seen, idle, streak, glitched>>

\* Mutation: rounds are not counted.
RoundUncounted ==
  /\ result = "running" /\ rounds < MaxRounds
  /\ rounds' = rounds

\* A round over the conversation, with the tools on offer.
Round ==
  /\ result = "running" /\ rounds < MaxRounds
  /\ rounds' = rounds + 1

\* The round asked for no tool and wrote something: the answer.
Answer ==
  /\ Round
  /\ result' = "answer"
  /\ UNCHANGED <<stalls, empties, seen, looped, idle, streak, glitched>>

\* Mutation: a re-ask offers the tools whatever has been done.
ReAskWithTools ==
  /\ Round
  /\ empties < MaxEmptyRetries
  /\ empties' = empties + 1
  /\ glitched' = (seen # {})
  /\ UNCHANGED <<stalls, seen, result, looped, idle, streak>>

\* Neither an answer nor a call: asked again, without tools if work was done.
ReAsk ==
  /\ Round
  /\ empties < MaxEmptyRetries
  /\ empties' = empties + 1
  /\ glitched' = (seen # {})
  /\ IF seen # {} /\ HasFinal THEN ForceAnswer(FALSE) ELSE UNCHANGED <<result, looped>>
  /\ UNCHANGED <<stalls, seen, idle, streak>>

\* One empty round too many is the caller's empty answer.
StayEmpty ==
  /\ Round
  /\ empties >= MaxEmptyRetries
  /\ result' = "empty"
  /\ glitched' = (seen # {})
  /\ UNCHANGED <<stalls, empties, seen, looped, idle, streak>>

\* Does a round that calls `calls` introduce one the loop has not run?  A call
\* without a name has the signature "", which is never added to `seen`.
IntroducesNew(calls, odd) == odd \/ ~(calls \subseteq seen)

\* Mutation: the streak is compared after the round instead of with it.
StalledLate(calls, odd) ==
  ~IntroducesNew(calls, odd) /\ stalls >= MaxStallRounds

\* Is this the round at which the stall guard stops the loop?
Stalled(calls, odd) ==
  ~IntroducesNew(calls, odd) /\ stalls + 1 >= MaxStallRounds

Saturated(n) == IF n > MaxStallRounds THEN MaxStallRounds ELSE n

\* The stall guard takes the tools away before the round's calls run.
StopStalled(calls, odd) ==
  /\ Round
  /\ Stalled(calls, odd)
  /\ stalls' = stalls + 1
  /\ ForceAnswer(TRUE)
  /\ UNCHANGED <<empties, seen, idle, streak, glitched>>

\* The round's calls run (the nameless ones are skipped) and are reported.
RunCalls(calls, odd) ==
  /\ Round
  /\ ~Stalled(calls, odd)
  /\ stalls' = IF IntroducesNew(calls, odd) THEN 0 ELSE stalls + 1
  /\ seen' = seen \cup calls
  /\ idle' = IF calls \subseteq seen THEN Saturated(idle + 1) ELSE 0
  /\ streak' = IF calls \subseteq seen /\ (odd \/ streak = "odd") THEN "odd" ELSE "named"
  /\ UNCHANGED <<empties, result, looped, glitched>>

\* The forced last round, without tools, answers or stays empty.
Forced ==
  /\ result = "forcing"
  /\ rounds' = rounds + 1
  /\ result' \in {"answer", "empty"}
  /\ UNCHANGED <<stalls, empties, seen, looped, idle, streak, glitched>>

\* A round whose retries (withLlmRetry) are used up fails the generation.
Fail ==
  /\ \/ result = "running" /\ rounds < MaxRounds
     \/ result = "forcing"
  /\ result' = "failed"
  /\ UNCHANGED <<rounds, stalls, empties, seen, looped, idle, streak, glitched>>

\* What a round may call: at least one call, well-formed or not.
Batches == {b \in (SUBSET Calls) \X {TRUE, FALSE} :
              (b[2] => Malformed) /\ (b[1] # {} \/ b[2])}

Next ==
  \/ Cap \/ Answer \/ ReAsk \/ StayEmpty \/ Forced \/ Fail
  \/ \E b \in Batches : StopStalled(b[1], b[2]) \/ RunCalls(b[1], b[2])

\* Every round ends: its request has a wire timeout and its retries a bound.
Spec == Init /\ [][Next]_vars /\ WF_vars(Next)

(***************************************************************************)
(* Properties.                                                             *)
(***************************************************************************)

\* Type correctness: at most the capped rounds and the forced one are asked.
TypeOK ==
  /\ rounds \in 0 .. MaxRounds + 1
  /\ stalls \in 0 .. MaxStallRounds
  /\ empties \in 0 .. MaxEmptyRetries
  /\ seen \subseteq Calls
  /\ result \in Results
  /\ looped \in BOOLEAN
  /\ idle \in 0 .. MaxStallRounds
  /\ streak \in {"named", "odd"}
  /\ glitched \in BOOLEAN

\* "A streak of MAX_STALL_ROUNDS rounds that each introduce no new call takes
\* the tools away": never do MaxStallRounds rounds in a row run nothing new,
\* unless one of them made a call without a name, which the guard takes for a
\* new call every time.
StallGuard == idle < MaxStallRounds \/ streak = "odd"

\* After an empty round that followed real work no round runs calls any more:
\* "an identical call replayed after a glitch does its work twice for real".
\* It holds only where the caller gave completeFinal, as the one caller does.
NoReplayAfterGlitch ==
  [][HasFinal /\ glitched => \A b \in Batches : ~RunCalls(b[1], b[2])]_vars

\* The loop ends, whatever the model keeps asking for.
Ends == <>(result \notin {"running", "forcing"})

\* The loop is bounded, though its for(;;) leaves only by what the model says: by
\* the caps on rounds, on streaks and on empty answers, and it comes to its end.
Bounded == []TypeOK /\ Ends
=============================================================================
