------------------------------ MODULE MCIngest ------------------------------
(***************************************************************************)
(* Ingest of two messages by two assistants, which are interchangeable.    *)
(***************************************************************************)
EXTENDS Ingest, TLC

CONSTANTS a1, a2

MCAssistants == {a1, a2}
Swap == Permutations(MCAssistants)

=============================================================================
