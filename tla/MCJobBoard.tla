----------------------------- MODULE MCJobBoard -----------------------------
(* Instances of JobBoard for TLC. *)
EXTENDS JobBoard

CONSTANTS j1, j2

OneJob  == {j1}
TwoJobs == {j1, j2}
=============================================================================
