---------------------------- MODULE ResumeStatus ----------------------------
(***************************************************************************)
(* The status machine of a resume, internal/resume/model/resume.go.        *)
(* UpdateStatus consults it; ParseResume and UploadAndParse write a status *)
(* without it.                                                             *)
(***************************************************************************)

Statuses == {"pending", "processing", "parsed", "failed", "archived"}

(* The table as a relation: "archived" has no successor. *)
validStatusTransitions ==
    { <<"pending", "processing">>, <<"pending", "archived">>,
      <<"processing", "parsed">>,  <<"processing", "failed">>,
      <<"parsed", "archived">>,
      <<"failed", "pending">>,     <<"failed", "archived">> }

(* A mistake TypeOK notices: a request's status string taken as it comes. *)
CanTransitionToAny(from, to) == from # to

CanTransitionTo(from, to) == <<from, to>> \in validStatusTransitions

(* A mistake ExclusiveParse notices: letting a stuck resume be parsed again. *)
ParsableOrStuck == {"pending", "failed", "processing"}

(* What ParseResume may claim: the statuses it hands to UpdateStatusIf. *)
Parsable == {"pending", "failed"}

=============================================================================
