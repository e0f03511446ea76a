--------------------------- MODULE MCObservation ---------------------------
(* Instances of Observation: nodes and subscribers are model values.        *)
EXTENDS Observation

CONSTANTS x1, c1, e1, a1
=============================================================================
