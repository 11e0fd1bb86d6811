------------------------------- MODULE MCEvents -------------------------------
(* One client, which may be slow and come back, and two names: a burst of         *)
(* changes, and a session that ends at any point of a stream.                      *)
EXTENDS Events
===============================================================================
