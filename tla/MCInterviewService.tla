------------------------- MODULE MCInterviewService -------------------------
(***************************************************************************)
(* Values for checking InterviewService with TLC.                          *)
(***************************************************************************)
EXTENDS InterviewService, TLC

CONSTANTS a1, a2, i1, i2, f1, f2, f3, f4, p1, r1, r2

(* Ids and slots are drawn and compared, never ordered.                    *)
Symmetry ==
    Permutations(Slots) \cup Permutations(Resumes) \cup Permutations(Interviews)
        \cup Permutations(Feedbacks)

=============================================================================
