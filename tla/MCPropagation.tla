---------------------------- MODULE MCPropagation ----------------------------
(***************************************************************************)
(* A small instance of Propagation for TLC.  Votes on one block differ in  *)
(* nothing, so they are symmetric.                                         *)
(***************************************************************************)
EXTENDS Propagation, TLC

OneBlock == [v \in Votes |-> 1]
OnePeer  == <<"x">>
AnyVote  == Permutations(Votes)
=============================================================================
