------------------------------ MODULE MCOrder ------------------------------
(***************************************************************************)
(* What model checking Order needs: which intents its Product refuses, and *)
(* which have a patch that does not apply.                                 *)
(***************************************************************************)
EXTENDS Order

RefusedIntents == {<<3, 1>>}
MisfitIntents == {<<2, 2>>}
=============================================================================
