--------------------------- MODULE MCProposalsSync ---------------------------
(***************************************************************************)
(* Small instances of ProposalsSync for TLC.                               *)
(***************************************************************************)
EXTENDS ProposalsSync
=============================================================================
