------------------------------ MODULE MCSessions ------------------------------
(* Sessions for TLC. A user's session is named and checked at the provider, or   *)
(* neither; replicas, and sessions, are interchangeable.                         *)
EXTENDS Sessions, TLC

NamedAndChecked == {[sid |-> p, checked |-> TRUE] : p \in ProviderSids}
NamedOrNot == NamedAndChecked \cup {[sid |-> None, checked |-> FALSE]}

Interchangeable == Permutations(Replicas) \cup Permutations(SessionIds)
=============================================================================
