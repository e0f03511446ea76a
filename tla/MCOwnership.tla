---------------------------- MODULE MCOwnership ----------------------------
(* Instances of Ownership: the owners are model values.                     *)
EXTENDS Ownership

CONSTANTS s1, s2, e1
=============================================================================
