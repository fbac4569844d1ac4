---------------------------- MODULE MCFlipIntake ----------------------------
(* Instances of FlipIntake for TLC. *)
EXTENDS FlipIntake

CONSTANTS j1, j2

OneJob  == {j1}
TwoJobs == {j1, j2}
=============================================================================
