---------------------------- MODULE MCSystemEvents ----------------------------
(***************************************************************************)
(* An instance of SystemEvents for TLC.                                    *)
(***************************************************************************)
EXTENDS SystemEvents, TLC

CONSTANT t1

OneApp == t1 :> "a"
=============================================================================
