------------------------------ MODULE MCGraph ------------------------------
(* Small instances of the acyclic reactive graph: the shapes of graph the   *)
(* configurations choose from.                                              *)
EXTENDS AcyclicGraph

CONSTANTS s1, s2, t1, m1, m2, e1, e2

RankOf == [n \in Nodes |-> CASE n \in Signals -> 0 [] n = t1 -> 1 [] n = m1 -> 2
                             [] n = m2 -> 3 [] OTHER -> 4]

(* A memo over a thunk, both over the signal; the effects read the ends.     *)
ChainReads ==
  [o \in Observers |-> CASE o = m1 -> {s1, t1} [] o \in Effects -> {m1, s1}
                         [] OTHER -> {s1}]
(* Computed nodes read the first signal, effects read everything.            *)
OpenReads ==
  [o \in Observers |-> IF o \in Effects THEN Observables ELSE {s1}]

(* The first effect writes the signal everything hangs on.                   *)
FeedbackWrites == [o \in Observers |-> IF o = e1 THEN {s1} ELSE {}]
=============================================================================
