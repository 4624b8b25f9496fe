-------------------------- MODULE MCAssessmentClient --------------------------
(***************************************************************************)
(* An instance of AssessmentClient for TLC: the application's main thread  *)
(* and a worker.                                                           *)
(***************************************************************************)
EXTENDS AssessmentClient, TLC

CONSTANTS main, worker
=============================================================================
