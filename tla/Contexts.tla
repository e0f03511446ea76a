------------------------------ MODULE Contexts ------------------------------
(***************************************************************************)
(* The thread locals of adaptite: which reactor is the thread's default,   *)
(* how deep in untrack it is, and, in debug builds, whose computation      *)
(* runs.  Each is changed by a guard and put back when the guard is        *)
(* dropped, also by a panic; guards of all kinds nest in one another, and  *)
(* each reactor has an observer stack of its own beneath them.             *)
(*                                                                         *)
(* The module has the operations.  Watch composes them with a watch.       *)
(***************************************************************************)
EXTENDS Naturals, Sequences, SequencesExt

CONSTANTS
  Reactors, Sources, Computations,
  Home,  \* the reactor of each node
  None   \* no reactor, no node, no value

ASSUME ContextsAssumption ==
  /\ Home \in [Sources \cup Computations -> Reactors]
  /\ None \notin Reactors \cup Sources \cup Computations

VARIABLES
  born,       \* reactors made so far
  held,       \* reactors of which somebody holds a handle or a node
  current,    \* CURRENT_REACTOR, a weak reference
  anchored,   \* ANCHORED_REACTOR, a strong one
  untracked,  \* UNTRACKED_DEPTH
  running,    \* RUNNING_REACTOR
  edges,      \* <<observer, observed>>
  stack,      \* the call stack, outermost frame first
  panicking

defaults == <<born, held, current, anchored>>
tracking == <<untracked, running, edges>>
contextVars == <<defaults, tracking, stack, panicking>>

Idle == stack = <<>>
Top == Last(stack)
OnTop(kind) == ~Idle /\ Top.kind = kind
Push(f) == stack' = Append(stack, f) /\ UNCHANGED panicking
Pop == stack' = Front(stack) /\ panicking' = (panicking /\ Len(stack) > 1)

(* The places of the frames of a kind, and the innermost one's. *)
Places(kind) == {i \in DOMAIN stack : stack[i].kind = kind}
Innermost(S) == CHOOSE i \in S : \A j \in S : j <= i

(* active_computations *)
Active(n) == \E i \in Places("compute") : stack[i].node = n

-----------------------------------------------------------------------------
(* The default reactor.                                                    *)

(* An EnterGuard keeps alive the anchor it will put back. *)
Alive(r) ==
  \/ r \in held
  \/ r = anchored
  \/ \E i \in Places("enter") : stack[i].anchor = r

try_current == IF Alive(current) THEN current ELSE None

(* Reactor::new. *)
New(r) ==
  /\ r \notin born
  /\ born' = born \cup {r} /\ held' = held \cup {r}
  /\ UNCHANGED <<current, anchored, tracking, stack, panicking>>

(* The last handle and the last node go; a closure that runs holds its own. *)
Release(r) ==
  /\ r \in held
  /\ \A n \in Computations : Active(n) => Home[n] # r
  /\ held' = held \ {r}
  /\ edges' = {e \in edges : Home[e[1]] # r}
  /\ UNCHANGED <<born, current, anchored, untracked, running, stack, panicking>>

(* Reactor::current, called by a constructor whose node lives on. *)
Ambient ==
  /\ IF try_current # None
     THEN held' = held \cup {current} /\ UNCHANGED <<born, current>>
     ELSE \E r \in Reactors \ born :
            /\ born' = born \cup {r} /\ held' = held \cup {r}
            /\ current' = r
  /\ UNCHANGED <<anchored, tracking, stack, panicking>>

(* Reactor::enter. *)
Enter(r) ==
  /\ r \in held
  /\ current' = r /\ anchored' = r
  /\ Push([kind |-> "enter", reactor |-> r, default |-> current, anchor |-> anchored])
  /\ UNCHANGED <<born, held, tracking>>

(* EnterGuard::drop.  Mutant: the anchor is let go, not put back. *)
ExitUnanchored ==
  /\ OnTop("enter")
  /\ current' = Top.default /\ anchored' = None
  /\ Pop
  /\ UNCHANGED <<born, held, tracking>>
Exit ==
  /\ OnTop("enter")
  /\ current' = Top.default /\ anchored' = Top.anchor
  /\ Pop
  /\ UNCHANGED <<born, held, tracking>>

-----------------------------------------------------------------------------
(* Tracking.                                                               *)

(* untrack, for its own sake (None), for a setter, for the value handed to *)
(* the handler of a watch.                                                 *)
Untrack(x) ==
  /\ untracked' = untracked + 1
  /\ Push([kind |-> "untrack", for |-> x])
  /\ UNCHANGED <<defaults, running>>

EndUntrack ==
  /\ OnTop("untrack")
  /\ untracked' = IF untracked = 0 THEN 0 ELSE untracked - 1
  /\ Pop
  /\ UNCHANGED <<defaults, running, edges>>

(* run_in_context.  Mutant: the computation inherits its reader's depth. *)
ComputeFrame(n) ==
  [kind |-> "compute", node |-> n, depth |-> untracked, outer |-> running]
BeginComputeUntracked(n) ==
  /\ Home[n] \in held /\ ~Active(n)
  /\ edges' = {e \in edges : e[1] # n}
  /\ running' = Home[n]
  /\ Push(ComputeFrame(n))
  /\ UNCHANGED <<defaults, untracked>>
BeginCompute(n) ==
  /\ Home[n] \in held /\ ~Active(n)
  /\ edges' = {e \in edges : e[1] # n}
  /\ untracked' = 0
  /\ running' = Home[n]
  /\ Push(ComputeFrame(n))
  /\ UNCHANGED defaults

EndCompute ==
  /\ OnTop("compute")
  /\ untracked' = Top.depth /\ running' = Top.outer
  /\ Pop
  /\ UNCHANGED <<defaults, edges>>

(* The observer on top of a reactor's own stack. *)
Observing(r) ==
  LET I == {i \in Places("compute") : Home[stack[i].node] = r}
  IN IF I = {} THEN None ELSE stack[Innermost(I)].node

(* try_observe in a debug build; a read of another reactor than the one that *)
(* computes panics.  Mutant: without assert_running_reactor.                 *)
ObserveAnywhere(x) ==
  /\ Home[x] \in held
  /\ edges' = IF untracked > 0 \/ Observing(Home[x]) = None THEN edges
              ELSE edges \cup {<<Observing(Home[x]), x>>}
  /\ UNCHANGED <<defaults, untracked, running, stack, panicking>>
Observe(x) ==
  /\ Home[x] \in held
  /\ LET recorded == untracked = 0 /\ Observing(Home[x]) # None
         foreign == untracked = 0 /\ running \notin {None, Home[x]}
     IN /\ panicking' = foreign
        /\ edges' = IF recorded /\ ~foreign
                    THEN edges \cup {<<Observing(Home[x]), x>>} ELSE edges
  /\ UNCHANGED <<defaults, untracked, running, stack>>

-----------------------------------------------------------------------------
(* While a guard of Reactor::enter is held, its reactor is the thread's     *)
(* default and alive, so that ambient constructors reach no other: whoever  *)
(* drops handles, whatever reactors are entered and left further in.        *)
EnteredIsDefault ==
  Places("enter") # {} => try_current = stack[Innermost(Places("enter"))].reactor

(* Reads are recorded exactly when the innermost computation has not been   *)
(* left for an untracked region: a computation inside such a region is      *)
(* tracked, and the region's guards, unwound or not, leave no depth behind. *)
UntrackedMatches ==
  LET start == IF Places("compute") = {} THEN 0 ELSE Innermost(Places("compute"))
  IN (untracked > 0) <=> (\E i \in Places("untrack") : i > start)

(* A step records a dependency only for the computation that is really      *)
(* reading: the innermost of all reactors, outside any untracked region.    *)
RecordsInnermost ==
  [][\A e \in edges' \ edges :
       /\ Places("compute") # {}
       /\ LET i == Innermost(Places("compute"))
          IN stack[i].node = e[1] /\ \A j \in Places("untrack") : j < i]_contextVars
=============================================================================
