------------------------------ MODULE MCCrawler ------------------------------
(***************************************************************************)
(* Small instances of Crawler for TLC.                                     *)
(***************************************************************************)
EXTENDS Crawler
=============================================================================
