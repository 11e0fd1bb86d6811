----------------------------- MODULE MCProduct -----------------------------
(***************************************************************************)
(* The instances of Product that TLC checks: two keys, and two sources of  *)
(* which the first is signed by the first key.                             *)
(***************************************************************************)
EXTENDS Product
=============================================================================
