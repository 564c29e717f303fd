----------------------------- MODULE MCCollectors -----------------------------
(***************************************************************************)
(* The exchange collector alone, for TLC.                                  *)
(***************************************************************************)
EXTENDS Collectors

ExchangesOnly == {{"exchanges"}}
=============================================================================
