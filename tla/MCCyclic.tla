----------------------------- MODULE MCCyclic ------------------------------
(* Instances of the reactive graph whose closures keep to no rank: memos    *)
(* that may read each other.                                                *)
EXTENDS ReactiveGraph

CONSTANTS s1, m1, m2, m3, e1

MutualReads ==
  [o \in Observers |-> CASE o = m1 -> {s1, m2} [] o = m2 -> {s1, m1} [] OTHER -> {m1}]

(* An impure memo: its closure writes the signal it also reads.             *)
ImpureWrites == [o \in Observers |-> IF o = m1 THEN {s1} ELSE {}]
=============================================================================
