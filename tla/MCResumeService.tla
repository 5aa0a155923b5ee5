-------------------------- MODULE MCResumeService --------------------------
(***************************************************************************)
(* Values for checking ResumeService with TLC.                             *)
(***************************************************************************)
EXTENDS ResumeService, TLC

CONSTANTS r1, r2, i1, i2, f1, f2, n1, n2

(* Slots, ids and keys are drawn and compared, never ordered.  (Used in    *)
(* runs without liveness properties, for which symmetry is not sound.)     *)
Symmetry == Permutations(Slots) \cup Permutations(Ids) \cup Permutations(Objects)

=============================================================================
