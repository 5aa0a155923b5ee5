-------------------------- MODULE MCSearchPipeline --------------------------
(***************************************************************************)
(* Values for checking SearchPipeline with TLC.                            *)
(***************************************************************************)
EXTENDS SearchPipeline

CONSTANTS r1, r2, i1, i2, f1, f2, n1, n2, c1, c2

=============================================================================
