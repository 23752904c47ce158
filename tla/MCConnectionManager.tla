-------------------------- MODULE MCConnectionManager --------------------------
(***************************************************************************)
(* ConnectionManager for one connection row with two configurations.       *)
(***************************************************************************)
EXTENDS ConnectionManager

\* Whatever is open at a platform is held by the manager, which will close it, and
\* the connection comes to what its row asks for.
HeldAndConverges == []OpenIsHeld /\ Converges

=============================================================================
