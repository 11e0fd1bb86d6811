--------------------------- MODULE MCUpstreamGate ---------------------------
(***************************************************************************)
(* UpstreamGate for TLC, with the soaks of the stages.                     *)
(***************************************************************************)
EXTENDS UpstreamGate

CONSTANT test   \* one of the stages

Soaks == [u \in Stages |-> IF u = test THEN 2 ELSE 1]

=============================================================================
