------------------------------ MODULE MCFlush ------------------------------
(* Small instances of the job queue and its flushes.                        *)
EXTENDS Flush

CONSTANTS j1, j2, e1, e2, h1

(* Every effect may invalidate every effect, itself included.               *)
AllFeed == [e \in Effects |-> Effects]
=============================================================================
