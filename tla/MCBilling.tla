------------------------------ MODULE MCBilling ------------------------------
(* Instances of Billing for TLC: all its constants are numbers. *)
EXTENDS Billing
=============================================================================
