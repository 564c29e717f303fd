-------------------------------- MODULE Sorted --------------------------------
(***************************************************************************)
(* Rows and replies that come in the order of their times, as the queries  *)
(* of src/postgres and the servers of the pools and exchanges return them. *)
(***************************************************************************)
EXTENDS Integers, FiniteSets

\* The k-th of the numbers is the one that is not smaller than k of them.
Ascending(S) ==
  [k \in 1..Cardinality(S) |-> CHOOSE x \in S : Cardinality({y \in S : y <= x}) = k]
=============================================================================
