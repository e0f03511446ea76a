-------------------------------- MODULE Views --------------------------------
(***************************************************************************)
(* What is derived from observables: map, which builds a memo on the        *)
(* reactor of what it maps, type-erased or not, and writable, a memo with   *)
(* a setter that runs untracked.                                           *)
(*                                                                         *)
(* Whether a view is stale is left open: it may compute whenever it is read. *)
(* The module has the operations.  Watch composes them with a watch.       *)
(***************************************************************************)
EXTENDS Contexts

CONSTANT Views  \* memos, not made yet

ASSUME ViewsAssumption == Views \subseteq Sources \cap Computations

VARIABLE made  \* how a view was made, and of what

viewVars == <<contextVars, made>>

(* Observables: node is None for a constant, dyn says that a DynObservable  *)
(* is around it.                                                           *)
Constant == [node |-> None, dyn |-> TRUE]
Observables == [node : Sources, dyn : BOOLEAN] \cup {Constant}
Unmade == [by |-> None, of |-> None]
Exists(x) == x \in Views => made[x] # Unmade
MadeBy(how) == {v \in Views : made[v].by = how}

(* Observable::reactor.  Mutant: the trait's default, for what is erased. *)
ReactorUnlessErased(h) == IF h.node = None \/ h.dyn THEN None ELSE Home[h.node]
ReactorOf(h) == IF h.node = None THEN None ELSE Home[h.node]

-----------------------------------------------------------------------------
(* Making views: memo_in, and memo on the default reactor.                 *)

Make(v, how, x) ==
  /\ ~Exists(v)
  /\ x = None \/ Exists(x)
  /\ made' = [made EXCEPT ![v] = [by |-> how, of |-> x]]
MakeOnCurrent(v) == Ambient /\ Home[v] = current'

(* Observable::map. *)
Map(v, h) ==
  /\ Make(v, "map", h.node)
  /\ \/ ReactorOf(h) = None /\ MakeOnCurrent(v)
     \/ ReactorOf(h) = Home[v] /\ UNCHANGED contextVars

(* writable and writable_in: get reads x, of whatever reactor that is. *)
MakeWritable(v, x) ==
  /\ Make(v, "writable", x)
  /\ \/ MakeOnCurrent(v)
     \/ Home[v] \in held /\ UNCHANGED contextVars

-----------------------------------------------------------------------------
(* Using them.                                                             *)

(* Writable::set, up to the setter. *)
CallSetter(v) ==
  /\ v \in MadeBy("writable")
  /\ Untrack(v)
  /\ UNCHANGED <<edges, made>>

(* with and with_peek refresh a view, with observes it. *)
Refresh(v) == Exists(v) /\ BeginCompute(v) /\ UNCHANGED made
Read(x)    == Exists(x) /\ Observe(x) /\ UNCHANGED made

(* The closure of a view reads what it was made of, with with. *)
Viewing == ~panicking /\ OnTop("compute") /\ Top.node \in Views
Input == made[Top.node].of

ReadInput ==
  /\ Viewing /\ Input # None
  /\ \/ Input \in Views /\ BeginCompute(Input)
     \/ Observe(Input)
  /\ UNCHANGED made

Return ==
  /\ Viewing
  /\ Input = None \/ <<Top.node, Input>> \in edges
  /\ EndCompute
  /\ UNCHANGED made

-----------------------------------------------------------------------------
(* A mapped view can read what it maps: it never panics for reading another *)
(* reactor, wherever it was made, through whatever erasures, and whoever    *)
(* makes it compute where.                                                 *)
MapsStayHome ==
  [][Viewing /\ Top.node \in MadeBy("map") => ~panicking']_viewVars
=============================================================================
