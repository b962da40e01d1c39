---------------------------- MODULE MCGpmaMatching ----------------------------
(* GpmaMatching with the constants of MCMergedMatching. *)
EXTENDS MCMergedMatching, GpmaMatching
=============================================================================
