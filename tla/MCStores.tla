------------------------------- MODULE MCStores -------------------------------
(***************************************************************************)
(* A small instance of Stores for TLC, with the instance of Propagation.   *)
(* Neither two votes on one block nor two nodes differ in anything.        *)
(***************************************************************************)
EXTENDS Stores, MCPropagation

TwoAccounts == <<"one", "other">>

TwoSources == <<"a", "b">>

Alike == Permutations(Votes) \cup Permutations(Nodes)
=============================================================================
