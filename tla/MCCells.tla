------------------------------- MODULE MCCells -------------------------------
(* A signal, a memo that keeps half of it, a memo of that, a thunk of that. *)
EXTENDS Cells, TLC

CONSTANTS s1, m1, m2, t1

MCInput == (m1 :> s1) @@ (m2 :> m1) @@ (t1 :> m2)
MCFun ==
  LET half == [v \in Values |-> v \div 2]
      same == [v \in Values |-> v]
  IN (m1 :> half) @@ (m2 :> same) @@ (t1 :> same)
=============================================================================
