---------------------------- MODULE AcyclicGraph ----------------------------
(***************************************************************************)
(* The reactive graph when closures respect a rank: what a computed node's *)
(* closure reads has a smaller rank than the node, and it only reads.  A   *)
(* graph that violates this may panic with a cycle error (ReactiveGraph    *)
(* covers it), but the promises of the README about computed nodes are     *)
(* made for this case.                                                     *)
(***************************************************************************)
EXTENDS ReactiveGraph

CONSTANT Rank

(* A closure of a computed node has no effects, as a memo's closure should.  *)
ASSUME PureAssumption == "impure_compute" \notin Env
ASSUME RankAssumption ==
  /\ Rank \in [Nodes -> Nat]
  /\ \A o \in Observers : \A d \in Reads[o] : Rank[d] < Rank[o]
=============================================================================
