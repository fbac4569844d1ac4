------------------------- MODULE MCDispatchApproval -------------------------
(* Instances of DispatchApproval for TLC. *)
EXTENDS DispatchApproval

CONSTANTS j1

OneJob == {j1}
Alone  == [j \in OneJob |-> "t1"]
=============================================================================
