------------------------------ MODULE Promotion ------------------------------
(***************************************************************************)
(* What the Serving controller promises of a promotion, whatever fails,    *)
(* crashes or is read from an old copy: it is decided in the status first, *)
(* then its record is in the registry, then the status says it is          *)
(* deployed, and the deployed Preparation is never forgotten nor replaced  *)
(* by one promoted earlier.  Module Serving implements this                *)
(* (internal/controller/serving_controller.go, promote and deploy).        *)
(***************************************************************************)
EXTENDS Integers

CONSTANTS
  Preps,         \* the Preparations of the Order
  Times,         \* the readings of the clock
  NoPromotion,   \* no promotion
  NoTarget       \* no Preparation

VARIABLES
  pending,       \* the promotion that is decided in the status
  deployed,      \* the promotion that is deployed
  registry,      \* the promotions the registry holds a record of
  target         \* the Preparation the Application is pointed at

vars == <<pending, deployed, registry, target>>

\* The same Preparation may be promoted again at another time.
Promotions == [preparation : Preps, started : Times]

Init ==
  /\ pending = NoPromotion /\ deployed = NoPromotion
  /\ registry = {}
  /\ target = NoTarget

\* A promotion is decided: no earlier than the deployed one was.
Decide ==
  /\ pending' \in Promotions
  /\ deployed # NoPromotion => pending'.started >= deployed.started
  /\ UNCHANGED <<deployed, registry, target>>

Withdraw ==
  /\ pending' = NoPromotion
  /\ UNCHANGED <<deployed, registry, target>>

\* Records are pushed, of promotions that may come to nothing: the pass that
\* pushes one may find later that the status has moved on.
Record ==
  /\ registry \subseteq registry'
  /\ registry' \subseteq registry \cup Promotions
  /\ UNCHANGED <<pending, deployed, target>>

\* The decided promotion, once recorded, is the deployed one.
Promote ==
  /\ pending \in registry
  /\ deployed' = pending
  /\ pending' = NoPromotion
  /\ UNCHANGED <<registry, target>>

\* The Application is pointed at a Preparation with a recorded promotion, or
\* removed.
Point ==
  /\ target' \in {r.preparation : r \in registry} \cup {NoTarget}
  /\ UNCHANGED <<pending, deployed, registry>>

Next == Decide \/ Withdraw \/ Record \/ Promote \/ Point

Spec == Init /\ [][Next]_vars

=============================================================================
