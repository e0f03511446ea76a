---------------------------- MODULE MCResource -----------------------------
(* Instances of Resource: the inputs are model values.                      *)
EXTENDS Resource

CONSTANTS a, b
=============================================================================
