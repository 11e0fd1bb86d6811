------------------------------ MODULE MCScanner -------------------------------
(* Scanner for TLC: three versions of the vulnerability database, one of the     *)
(* Java database.                                                                *)
EXTENDS Scanner

ThreeAndOne == [db |-> 1 .. 3, java |-> {1}]
===============================================================================
