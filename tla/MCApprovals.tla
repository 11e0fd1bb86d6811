---------------------------- MODULE MCApprovals ----------------------------
(***************************************************************************)
(* Approvals for TLC: approvers are interchangeable.                       *)
(***************************************************************************)
EXTENDS Approvals, TLC

Interchangeable == Permutations(Approvers)

=============================================================================
