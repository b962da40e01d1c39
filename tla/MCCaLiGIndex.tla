---------------------------- MODULE MCCaLiGIndex ----------------------------
(***************************************************************************)
(* Instances of CaLiGIndex for TLC, on the graphs of MCGraphs.             *)
(***************************************************************************)
EXTENDS CaLiGIndex, MCGraphs
=============================================================================
