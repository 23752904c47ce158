----------------------------- MODULE MCAnswers -----------------------------
(***************************************************************************)
(* The instance of Answers: three turns at two messages, an acknowledgement*)
(* in at most three, two assistants, and a collection of three columns.    *)
(***************************************************************************)
EXTENDS Answers, TLC

CONSTANTS a1, a2

AnswersMessageOf == [t \in TypingTurns |-> IF t = 3 THEN 2 ELSE 1]

\* Column lists that trade one column for another, or make another one the key (also
\* with rows there: then it is refused); a file that repeats a key, leaves a cell
\* empty, and has more keys than there is room for.
Plain == [cols |-> {"k", "a"}, key |-> "k", required |-> {"a"}]
Traded == [cols |-> {"k", "b"}, key |-> "k", required |-> {"b"}]
Rekeyed == [cols |-> {"k", "a"}, key |-> "a", required |-> {}]
AnswersShapes == {Plain, Traded, Rekeyed}
AnswersCreated == {Plain}
AnswersGiven == {"k" :> 1 @@ "a" :> 1, "k" :> 1 @@ "a" :> 0, "k" :> 2, "a" :> 2, "b" :> 1}
AnswersFiles == {<<"k" :> 1 @@ "a" :> 2, "k" :> 2, "k" :> 1 @@ "b" :> 2, "k" :> 3>>}

=============================================================================
