----------------------------- MODULE Announcer -----------------------------
(***************************************************************************)
(* What adaptite promises to a party it keeps informed of something: of    *)
(* whether a source is observed (the hooks of source_with_hooks), of the   *)
(* value a closure computes (the handler of watch).  The party is called   *)
(* only with news, the news is true at the moment of the call, and as long *)
(* as the line is open it does not stay wrong for ever.  Changes that      *)
(* cancel out before the call are not reported.                            *)
(***************************************************************************)
EXTENDS Naturals

VARIABLES
  truth,  \* what is the case
  told,   \* what the party was last told
  calls,  \* how often it has been called, modulo 2
  open    \* FALSE once the party has been disconnected

vars == <<truth, told, calls, open>>

Init == calls = 0 /\ open = TRUE

Change ==
  /\ truth' # truth
  /\ UNCHANGED <<told, calls, open>>

Tell ==
  /\ open
  /\ told # truth
  /\ told' = truth
  /\ calls' = 1 - calls
  /\ UNCHANGED <<truth, open>>

Disconnect ==
  /\ open
  /\ open' = FALSE
  /\ UNCHANGED <<told, calls>>

Next == Change \/ Tell \/ Disconnect

Settles == (open /\ told # truth) ~> (told = truth \/ ~open)

Spec == Init /\ [][Next]_vars /\ Settles
=============================================================================
