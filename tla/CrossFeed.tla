------------------------------ MODULE CrossFeed ----------------------------
(***************************************************************************)
(* A group chat in which several assistants hear each other: the           *)
(* cross-feed of a delivered message (handleDelivered, crossFeedDelivered  *)
(* in core/server/ingest/consumer.ts), the loop guard that ends such an    *)
(* exchange (core/server/turn/loop-guard.ts and processInboundEvent), and  *)
(* the sends they answer with (sendChatMessage, one message per part).     *)
(*                                                                         *)
(* The turns of a chat run one after another (TurnConsumer); a send is     *)
(* detached from its turn, and a cross-feed from its delivery.             *)
(***************************************************************************)
EXTENDS Naturals, Sequences, FiniteSets

CONSTANTS
  Assistants,   \* those present in the chat
  Limit,        \* assistant_loop_guard_turns
  MaxParts,     \* bound: parts an answer is split into
  MaxHumans,    \* bound: messages of people
  MaxLog,       \* bound: messages, more than the code lets come about
  MaxMishaps    \* bound: cross-feeds that fail

Person == "person"

VARIABLES
  chat,         \* the mirror: who wrote each message, oldest first
  opening,      \* <<message, assistant>>: the turns still to be composed
  turns,        \* the composed turns of the chat, first in line first
  parts,        \* parts of its answers each assistant has still to send
  mishaps

feedVars == <<chat, opening, turns, parts, mishaps>>

Init ==
  /\ chat = <<>> /\ opening = {} /\ turns = <<>>
  /\ parts = [a \in Assistants |-> 0] /\ mishaps = 0

-----------------------------------------------------------------------------
authored(m) == chat[m] # Person

\* The trailing messages of assistants among those of `window`.
trail(window) == Cardinality({m \in window : \A n \in window : n >= m => authored(n)})

\* Mutation: the incoming message does not add itself.
StreakOfWindow(m) == IF authored(m) THEN trail(DOMAIN chat \ {m}) ELSE 0

\* assistantTurnStreak, on the window as it is when the turn is composed.
assistantTurnStreak(m) == IF authored(m) THEN 1 + trail(DOMAIN chat \ {m}) ELSE 0

\* checkLoopGuard.
silenced(seen) == seen > 0 /\ seen >= Limit

\* The chat ends with that many messages of assistants.
streak == trail(DOMAIN chat)

-----------------------------------------------------------------------------
\* A person writes: every assistant there hears it from its own connection.
PersonWrites ==
  /\ Cardinality({m \in DOMAIN chat : chat[m] = Person}) < MaxHumans
  /\ chat' = Append(chat, Person)
  /\ opening' = opening \cup {<<Len(chat) + 1, a>> : a \in Assistants}
  /\ UNCHANGED <<turns, parts, mishaps>>

\* sendChatMessage sends one part; handleDelivered mirrors it, then feeds it to
\* the other assistants.
Deliver(a) ==
  /\ parts[a] > 0 /\ Len(chat) < MaxLog
  /\ parts' = [parts EXCEPT ![a] = @ - 1]
  /\ chat' = Append(chat, a)
  /\ opening' = opening \cup {<<Len(chat) + 1, b>> : b \in Assistants \ {a}}
  /\ UNCHANGED <<turns, mishaps>>

\* The turn is composed and enqueued.
Open(m, a) ==
  /\ <<m, a>> \in opening
  /\ opening' = opening \ {<<m, a>>}
  /\ turns' = Append(turns, [of |-> m, to |-> a, seen |-> assistantTurnStreak(m)])
  /\ UNCHANGED <<chat, parts, mishaps>>

\* One target fails, or the process ended before it was its turn.
OpenFails(m, a) ==
  /\ <<m, a>> \in opening /\ mishaps < MaxMishaps
  /\ opening' = opening \ {<<m, a>>} /\ mishaps' = mishaps + 1
  /\ UNCHANGED <<chat, turns, parts>>

\* processInboundEvent: the guard, then an answer in some parts or none.
RunTurn ==
  /\ turns # <<>> /\ turns' = Tail(turns)
  /\ \E n \in 0 .. MaxParts :
       /\ silenced(Head(turns).seen) => n = 0
       /\ parts' = [parts EXCEPT ![Head(turns).to] = @ + n]
  /\ UNCHANGED <<chat, opening, mishaps>>

ChatStep ==
  \/ RunTurn
  \/ \E a \in Assistants : Deliver(a)
  \/ \E m \in DOMAIN chat, a \in Assistants : Open(m, a)

Next ==
  \/ PersonWrites \/ ChatStep
  \/ \E m \in DOMAIN chat, a \in Assistants : OpenFails(m, a)

\* Queues are drained, sends and reads return.
Fairness == WF_feedVars(ChatStep)

Spec == Init /\ [][Next]_feedVars /\ Fairness

-----------------------------------------------------------------------------
FeedTypeOK ==
  /\ chat \in Seq(Assistants \cup {Person}) /\ Len(chat) <= MaxLog
  /\ opening \subseteq ((DOMAIN chat) \X Assistants)
  /\ \A i \in DOMAIN turns :
       turns[i].of \in DOMAIN chat /\ chat[turns[i].of] # turns[i].to

\* The turns that another assistant's message opened and the guard will let through.
answerable == {i \in DOMAIN turns : turns[i].seen \in 1 .. Limit - 1}

\* Once a chat ends with Limit messages of assistants, none of their messages opens
\* an answer there until a person writes, whatever is still under way.
ClosedAtLimit ==
  [][streak >= Limit /\ streak' >= Limit =>
       Cardinality(answerable') <= Cardinality(answerable)]_feedVars

\* Assistants that hear each other do not go on forever: the chat falls silent.
FallsSilent == <>[](turns = <<>> /\ opening = {} /\ \A a \in Assistants : parts[a] = 0)

\* The loop guard ends an exchange of assistants, and keeps it ended.
ExchangeEnds == []FeedTypeOK /\ ClosedAtLimit /\ FallsSilent
=============================================================================
