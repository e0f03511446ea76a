------------------------------ MODULE MCEvents ------------------------------
(* Instances of Events: the subscribers are model values.                   *)
EXTENDS Events

CONSTANTS p1, l1, l2
=============================================================================
