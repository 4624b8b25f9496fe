------------------------- MODULE MCAssessmentService -------------------------
(***************************************************************************)
(* Instances of AssessmentService for TLC.                                 *)
(***************************************************************************)
EXTENDS AssessmentService, TLC

CONSTANTS t1, t2

\* Each token is an application of its own.
OwnApps == t1 :> "a" @@ t2 :> "b"

\* Two abilities, in two processes, of one application.
SameApp == t1 :> "a" @@ t2 :> "a"
=============================================================================
