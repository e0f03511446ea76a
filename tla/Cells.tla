-------------------------------- MODULE Cells --------------------------------
(***************************************************************************)
(* The values in the nodes.  A signal, a thunk or a memo keeps its value    *)
(* in a RefCell, and closures of the user run while it is borrowed: what    *)
(* with is given, what update is given, the comparison of a write and of a  *)
(* memo.  They write, read and panic, and a borrow in the way is a panic.   *)
(*                                                                         *)
(* One reactor; each computed node reads one other, so its edge is the      *)
(* version it has read.  The closures of computed nodes are functions that  *)
(* may panic; comparisons may do anything.                                 *)
(***************************************************************************)
EXTENDS Naturals, Sequences, SequencesExt

CONSTANTS
  Signals, Thunks, Memos,
  Input,            \* what a computed node reads
  Fun,              \* what its closure makes of that
  Values, None,
  MaxVersion,       \* bound: signals are left alone from this version on
  MaxStack          \* bound: user code enters nothing deeper than this

Computed == Thunks \cup Memos
Nodes == Signals \cup Computed

(* No node is made of itself. *)
ASSUME CellsAssumption ==
  /\ Signals \cap Computed = {}
  /\ Input \in [Computed -> Nodes]
  /\ \A C \in SUBSET Computed : C # {} => \E c \in C : Input[c] \notin C
  /\ Fun \in [Computed -> [Values -> Values]]
  /\ None \notin Values \cup Nat
  /\ MaxVersion \in Nat /\ MaxStack \in Nat

VARIABLES
  value,    \* the cells; None before the first computation
  version,
  state,    \* of computed nodes: "Clean", "Check", "Dirty"
  seen,     \* the version of the input that was read, None without an edge
  stack,    \* the call stack, outermost frame first
  panicking,
  lost,     \* history: computed nodes left clean by a panic after their closure
  behind,   \* history: computed nodes that became clean over a node that was not,
            \* or while one further up was still comparing
  torn      \* history: signals an update left changed and told nobody

cells == <<value, version, state, seen>>
history == <<lost, behind, torn>>
vars == <<cells, stack, panicking, history>>

-----------------------------------------------------------------------------
(* The call stack: val is the value compared or computed, or the version to *)
(* verify; asked, that the node the frame needs has been refreshed.         *)
Frame(k, n, v) == [kind |-> k, node |-> n, val |-> v, asked |-> FALSE]

Idle == stack = <<>>
Top == Last(stack)
OnTop(kind) == ~Idle /\ Top.kind = kind
Below == 1 .. Len(stack) - 1
Push(f) == stack' = Append(stack, f)
Retop(f) == stack' = [stack EXCEPT ![Len(stack)] = f]
Pop == stack' = Front(stack)

(* RefCell::borrow by a frame: with and with_peek, the comparisons, and the *)
(* previous value a memo's closure may see.                                *)
Borrows(f, n) ==
  /\ f.node = n
  /\ f.kind \in {"with", "equal"} \/ (n \in Memos /\ f.kind \in {"compute", "settle"})
Held(n) == \E i \in DOMAIN stack : Borrows(stack[i], n)
HeldBelow(n) == \E i \in Below : Borrows(stack[i], n)
Mutated(n) == \E i \in DOMAIN stack : stack[i].node = n /\ stack[i].kind = "update"

(* What a node is made of, itself included. *)
Upstream ==
  LET up[n \in Nodes] == IF n \in Signals THEN {n} ELSE {n} \cup up[Input[n]]
  IN up

(* active_computations. *)
Active(c) == \E i \in DOMAIN stack : stack[i].node = c /\ stack[i].kind = "compute"

UserCode ==
  /\ ~panicking
  /\ \/ Idle \/ OnTop("with") \/ OnTop("update") \/ OnTop("equal")
     \/ OnTop("settle") /\ Top.node \in Memos /\ value[Top.node] # None
Room == Len(stack) < MaxStack

(* A borrow in the way, a cycle. *)
Panics == panicking' = TRUE /\ UNCHANGED <<cells, stack, history>>

-----------------------------------------------------------------------------
(* Marks.                                                                  *)

(* mark_dependents and mark_computed: what a mark reaches is reached through *)
(* nodes that were clean.                                                   *)
Reached(s) ==
  {c \in Computed :
     /\ s \in Upstream[c]
     /\ \A d \in Upstream[c] \ {s} : seen[d] # None /\ (d = c \/ state[d] = "Clean")}

Mark(s) ==
  state' = [c \in Computed |->
              IF c \notin Reached(s) THEN state[c]
              ELSE IF Input[c] = s THEN "Dirty"
              ELSE IF state[c] = "Clean" THEN "Check" ELSE state[c]]

(* Reactor::trigger. *)
Trigger(s) ==
  /\ version' = [version EXCEPT ![s] = @ + 1]
  /\ Mark(s)
  /\ torn' = torn \ {s}
  /\ UNCHANGED <<seen, lost, behind>>

-----------------------------------------------------------------------------
(* Signals.                                                                *)

Writable(s) == UserCode /\ version[s] < MaxVersion

(* Signal::replace. *)
Replace(s, v) ==
  /\ Writable(s)
  /\ IF Held(s) \/ Mutated(s) THEN Panics
     ELSE /\ value' = [value EXCEPT ![s] = v]
          /\ Trigger(s)
          /\ UNCHANGED <<stack, panicking>>

(* Signal::set, up to PartialEq::eq. *)
Set(s, v) ==
  /\ Writable(s) /\ Room
  /\ IF Mutated(s) THEN Panics
     ELSE Push(Frame("equal", s, v)) /\ UNCHANGED <<cells, panicking, history>>

SetReturn ==
  /\ ~panicking /\ OnTop("equal")
  /\ Pop
  /\ LET s == Top.node IN
     IF Top.val = value[s] THEN UNCHANGED <<cells, panicking, history>>
     ELSE IF HeldBelow(s) THEN panicking' = TRUE /\ UNCHANGED <<cells, history>>
     ELSE value' = [value EXCEPT ![s] = Top.val] /\ Trigger(s) /\ UNCHANGED panicking

(* Signal::update; its closure changes the value when it likes. *)
Update(s) ==
  /\ Writable(s) /\ Room
  /\ IF Held(s) \/ Mutated(s) THEN Panics
     ELSE /\ Push(Frame("update", s, None))
          /\ UNCHANGED <<cells, panicking, history>>

Mutate(v) ==
  /\ UserCode /\ OnTop("update")
  /\ value' = [value EXCEPT ![Top.node] = v]
  /\ UNCHANGED <<version, state, seen, stack, panicking, history>>

UpdateReturn ==
  /\ ~panicking /\ OnTop("update")
  /\ Pop
  /\ Trigger(Top.node)
  /\ UNCHANGED <<value, panicking>>

-----------------------------------------------------------------------------
(* Computed nodes.                                                         *)

(* recompute_inner: clean before it computes, and without edges. *)
StartCompute(c) ==
  /\ state' = [state EXCEPT ![c] = "Clean"]
  /\ seen' = [seen EXCEPT ![c] = None]
  /\ lost' = lost \ {c} /\ behind' = behind \ {c}

(* with and with_peek: a computed node is first refreshed, once, and then   *)
(* borrowed in whatever state that left it.                                *)
With(n) ==
  /\ UserCode /\ Room
  /\ IF Mutated(n) \/ Active(n) THEN Panics
     ELSE /\ Push(Frame(IF n \in Signals THEN "with" ELSE "read", n, None))
          /\ UNCHANGED <<cells, panicking, history>>

WithReturn ==
  /\ ~panicking /\ OnTop("with")
  /\ Pop
  /\ UNCHANGED <<cells, panicking, history>>

(* What a with, a closure, a verification needs. *)
Asks == ~panicking /\ (OnTop("read") \/ OnTop("compute") \/ OnTop("verify"))
Wanted == IF OnTop("read") THEN Top.node ELSE Input[Top.node]
Current(n) == n \in Computed => state[n] = "Clean"
Ready(kind) == ~panicking /\ OnTop(kind) /\ (Top.asked \/ Current(Wanted))

(* ThunkInner::refresh, MemoInner::refresh of a node that is not clean. *)
Enter(f) == stack' = Append([stack EXCEPT ![Len(stack)].asked = TRUE], f)
Refresh(c) ==
  IF state[c] = "Dirty"
  THEN StartCompute(c) /\ Enter(Frame("compute", c, None))
  ELSE Enter(Frame("verify", c, seen[c])) /\ UNCHANGED <<state, seen, lost, behind>>

(* assert_no_cycle and refresh: whatever it leaves marked is used as it is. *)
RefreshWanted ==
  /\ Asks /\ ~Top.asked /\ ~Current(Wanted)
  /\ IF Active(Wanted) THEN Panics
     ELSE Refresh(Wanted) /\ UNCHANGED <<value, version, panicking, torn>>

Lend ==
  /\ Ready("read")
  /\ Retop(Frame("with", Top.node, None))
  /\ UNCHANGED <<cells, panicking, history>>

(* The closure reads the input, in a with of its own, and returns. *)
Compute ==
  /\ Ready("compute")
  /\ LET c == Top.node IN
     IF Mutated(Input[c]) \/ Active(Input[c]) THEN Panics
     ELSE /\ seen' = [seen EXCEPT ![c] = version[Input[c]]]
          /\ Retop(Frame("settle", c, Fun[c][value[Input[c]]]))
          /\ behind' = IF Current(Input[c]) THEN behind ELSE behind \cup {c}
          /\ UNCHANGED <<value, version, state, panicking, lost, torn>>

(* A memo further up is being compared, clean and with its old value and    *)
(* version, while c is refreshed by what its comparator reads.             *)
Comparing(c) ==
  \E i \in DOMAIN stack : stack[i].kind = "settle" /\ stack[i].node \in Upstream[c] \ {c}

(* dependencies_changed has refreshed the input, or found it clean. *)
Verified ==
  /\ Ready("verify")
  /\ LET c == Top.node IN
     IF Active(Input[c]) THEN Panics
     ELSE /\ IF version[Input[c]] # Top.val
             THEN StartCompute(c) /\ Retop(Frame("compute", c, None))
             ELSE /\ state' = [state EXCEPT ![c] = "Clean"]
                  /\ Pop
                  /\ behind' = IF Current(Input[c]) /\ ~Comparing(c)
                               THEN behind \ {c} ELSE behind \cup {c}
                  /\ UNCHANGED <<seen, lost>>
          /\ UNCHANGED <<value, version, panicking, torn>>

(* The end of recompute_inner: a memo compares, the cell is written, and    *)
(* what changed gets a version. *)
Store(c, changed) ==
  /\ value' = [value EXCEPT ![c] = Top.val]
  /\ version' = [version EXCEPT ![c] = IF changed THEN @ + 1 ELSE @]
  /\ behind' = IF Comparing(c) THEN behind \cup {c} ELSE behind
  /\ Pop
  /\ UNCHANGED <<state, seen, panicking, lost, torn>>
Settle ==
  /\ ~panicking /\ OnTop("settle")
  /\ IF HeldBelow(Top.node) THEN Panics
     ELSE Store(Top.node, Top.node \in Thunks \/ value[Top.node] # Top.val)

-----------------------------------------------------------------------------
(* Panics.                                                                 *)

(* User code panics: the host's, a closure, a memo's comparator. *)
Panic ==
  /\ ~panicking /\ ~Idle
  /\ ~OnTop("verify") /\ ~OnTop("read")
  /\ OnTop("settle") => Top.node \in Memos /\ value[Top.node] # None
  /\ Panics

(* DirtyOnUnwind covers the closure, and nothing that comes after it.       *)
(* Mutant: it is missing. *)
UnwindClean ==
  /\ panicking
  /\ lost' = IF OnTop("settle") THEN lost \cup {Top.node} ELSE lost
  /\ torn' = IF OnTop("update") THEN torn \cup {Top.node} ELSE torn
  /\ Pop
  /\ panicking' = (Len(stack) > 1)
  /\ UNCHANGED <<cells, behind>>
Unwind ==
  /\ panicking
  /\ state' = IF OnTop("compute") THEN [state EXCEPT ![Top.node] = "Dirty"] ELSE state
  /\ lost' = IF OnTop("settle") THEN lost \cup {Top.node} ELSE lost
  /\ torn' = IF OnTop("update") THEN torn \cup {Top.node} ELSE torn
  /\ Pop
  /\ panicking' = (Len(stack) > 1)
  /\ UNCHANGED <<value, version, seen, behind>>

-----------------------------------------------------------------------------
Init ==
  /\ \E v \in [Signals -> Values] : value = [n \in Nodes |-> IF n \in Signals THEN v[n] ELSE None]
  /\ version = [n \in Nodes |-> 0]
  /\ state = [c \in Computed |-> "Dirty"]
  /\ seen = [c \in Computed |-> None]
  /\ stack = <<>> /\ panicking = FALSE
  /\ lost = {} /\ behind = {} /\ torn = {}

Next ==
  \/ \E s \in Signals, v \in Values : Replace(s, v) \/ Set(s, v)
  \/ \E s \in Signals : Update(s)
  \/ \E v \in Values : Mutate(v)
  \/ SetReturn \/ UpdateReturn \/ WithReturn
  \/ \E n \in Nodes : With(n)
  \/ RefreshWanted \/ Lend \/ Compute \/ Verified \/ Settle
  \/ Panic \/ Unwind

Spec == Init /\ [][Next]_vars

-----------------------------------------------------------------------------
(* A computed node that is clean, and not being computed, has the value its *)
(* closure makes of what is now true further up, whatever was written,      *)
(* refreshed and broken off by whom in the middle of what.  The exceptions: *)
(* a signal inside an update, or left by one that panicked (signal.rs:195); *)
(* a node that panicked when its closure had returned (thunk.rs:739-741,    *)
(* 830-843); a node that became clean while a memo further up was clean     *)
(* with its old value, comparing (thunk.rs:836), or over one that its own   *)
(* refresh had left marked (thunk.rs:376, 473, reactor.rs:996).  For the    *)
(* last two: until it is computed, or verified over a clean one, again.     *)
Truth ==
  LET truth[n \in Nodes] == IF n \in Signals THEN value[n] ELSE Fun[n][truth[Input[n]]]
  IN truth
CleanIsCurrent ==
  \A c \in Computed :
    /\ state[c] = "Clean"
    /\ \A i \in DOMAIN stack : stack[i].kind \in {"compute", "settle"} => stack[i].node # c
    /\ Upstream[c] \cap (lost \cup behind \cup torn) = {}
    /\ \A s \in Signals : Mutated(s) => s \notin Upstream[c]
    => value[c] = Truth[c]
=============================================================================
