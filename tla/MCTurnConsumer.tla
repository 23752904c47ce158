--------------------------- MODULE MCTurnConsumer ---------------------------
(***************************************************************************)
(* Small instances of TurnConsumer.  Turns 1 and 2 share a chat, turn 3    *)
(* has one of its own.                                                     *)
(***************************************************************************)
EXTENDS TurnConsumer

CONSTANTS c1, c2, m1, m2, m3

MCChats == {c1, c2}
MCMessages == {m1, m2, m3}
MCChatOf == [t \in 1 .. 3 |-> IF t <= 2 THEN c1 ELSE c2]
MCMsgOf == [t \in 1 .. 3 |-> <<m1, m2, m3>>[t]]

PairChats == {c1}
PairMessages == {m1, m2}
PairChatOf == [t \in 1 .. 2 |-> c1]
PairMsgOf == [t \in 1 .. 2 |-> <<m1, m2>>[t]]

=============================================================================
