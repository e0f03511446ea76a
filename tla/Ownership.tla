------------------------------ MODULE Ownership -----------------------------
(***************************************************************************)
(* Who owns what in adaptite, and how it is torn down: scopes and effects  *)
(* collect cleanups and children while their closures run, and give every  *)
(* one of them up, in reverse order, when they are disposed or run again.  *)
(*                                                                         *)
(* Cleanups are user code: they dispose, create and flush, and any closure *)
(* may panic, so teardowns nest and start in the middle of other panics.   *)
(* When effects run is the business of ReactiveGraph and Flush; here a     *)
(* live effect may run wherever user code may flush.                       *)
(***************************************************************************)
EXTENDS Naturals, Sequences, FiniteSets, FiniteSetsExt

CONSTANTS
  Scopes, Effects,
  None,        \* no owner
  Catching,    \* the scopes made by scope_catch
  Kept,        \* owners whose Owner handle is stored, for run_in
  Env,         \* what else closures do, see Behaviours
  SweepAt,     \* the length from which children are swept, 8 in the code
  MaxCleanups, \* bound: on_cleanup calls
  MaxStack     \* bound: closures start only below this depth

Owners == Scopes \cup Effects

(*   panic    closures panic                                               *)
(*   drop     handles kept in locals are dropped by a panic                *)
(*   unowned  closures call unowned                                        *)
Behaviours == {"panic", "drop", "unowned"}

ASSUME OwnersAssumption ==
  /\ Scopes \cap Effects = {} /\ None \notin Owners
  /\ Catching \subseteq Scopes /\ Kept \subseteq Owners
ASSUME BoundsAssumption ==
  /\ Env \subseteq Behaviours
  /\ SweepAt \in Nat \ {0} /\ MaxCleanups \in Nat /\ MaxStack \in Nat

Cleanups == 1 .. MaxCleanups

VARIABLES
  status,    \* absent, live, or OwnerFrame::disposed
  parent,    \* OwnerFrame::parent
  guarded,   \* the owners with an error_handler at or above them
  children,  \* OwnerFrame::children
  swept_at,  \* OwnerFrame::swept_at
  cleanups,  \* OwnerFrame::cleanups
  cleanup_registrations, \* the gauges of ownership.rs
  owned_children,
  known,     \* history: how many on_cleanup calls there were
  ran,       \* history: ran[c]: how often cleanup c was called
  stack,     \* the call stack, outermost frame first
  panicking  \* TRUE while a panic unwinds the stack

tree    == <<status, parent, guarded>>
lists   == <<children, swept_at, cleanups>>
gauges  == <<cleanup_registrations, owned_children>>
history == <<known, ran>>
control == <<stack, panicking>>
vars    == <<tree, lists, gauges, history, control>>

-----------------------------------------------------------------------------
(* Frames: the closures of scope, an effect's run, run_in, unowned, cleanup *)
(* and handler; OwnerFrame::reset with the entries it has taken (reset); an *)
(* effect's run before its body (rerun) and after its boundary caught a     *)
(* panic (caught).  unwinding: a panic goes on when the frame is left.      *)
Kinds == {"scope", "run", "run_in", "unowned", "cleanup", "handler",
          "reset", "rerun", "caught"}
Frames == [kind : Kinds, owner : Owners \cup {None},
           cleanups : Seq(Cleanups), children : Seq(Owners),
           failed : BOOLEAN, unwinding : BOOLEAN]
Frame(k, o) == [kind |-> k, owner |-> o, cleanups |-> <<>>, children |-> <<>>,
                failed |-> FALSE, unwinding |-> FALSE]

Idle     == stack = <<>>
Last(s)  == s[Len(s)]
Front(s) == SubSeq(s, 1, Len(s) - 1)
Top      == IF Idle THEN Frame("host", None) ELSE Last(stack)
Pop      == Front(stack)
Retop(f) == [stack EXCEPT ![Len(stack)] = f]
On(k)    == Top.kind = k
InSequence(s) == {s[i] : i \in DOMAIN s}

Closures == {"scope", "run", "run_in", "unowned", "cleanup", "handler"}
UserCode == ~panicking /\ (Idle \/ Top.kind \in Closures)
MayCall  == UserCode /\ Len(stack) < MaxStack
Running(e) == \E i \in DOMAIN stack : stack[i].kind \in {"rerun", "run"} /\ stack[i].owner = e

(* current_owner on the call stack stk: OWNER_STACK holds the frames that   *)
(* install an owner or, for unowned and teardown, a barrier.                *)
(* Mutant: teardown is no barrier. *)
CurrentOwnerNoBarrier(stk) ==
  LET I == {i \in DOMAIN stk : stk[i].kind \in {"scope", "run", "run_in", "unowned"}}
  IN IF I = {} THEN None ELSE stk[Max(I)].owner

CurrentOwner(stk) ==
  LET I == {i \in DOMAIN stk :
              stk[i].kind \in {"scope", "run", "run_in", "unowned", "reset"}}
  IN IF I = {} \/ stk[Max(I)].kind = "reset" THEN None ELSE stk[Max(I)].owner

(* std::thread::panicking, while no panic is on its way down the stack.     *)
ThreadPanicking == \E i \in DOMAIN stack : stack[i].unwinding

-----------------------------------------------------------------------------
(* The gauges, and audit_ownership: those of them that disagree with a walk *)
(* over the frames.  The third one, live_owners, counts by RAII.            *)
Minus(a, b) == IF a > b THEN a - b ELSE 0   \* saturating_sub
cleanup_registered(g) == g + 1
cleanups_taken(g, n)  == Minus(g, n)
child_adopted(g)      == g + 1
children_taken(g, n)  == Minus(g, n)

(* The places in a family of lists. *)
Entries(lists_of) == UNION {{o} \X DOMAIN lists_of[o] : o \in DOMAIN lists_of}

audit_ownership ==
  {g \in {"CleanupRegistrations", "OwnedChildren"} :
     IF g = "OwnedChildren"
     THEN owned_children # Cardinality(Entries(children))
     ELSE cleanup_registrations # Cardinality(Entries(cleanups))}

(* OwnerFrame::new. *)
NewOwner(o, st) ==
  LET p == CurrentOwner(stack) IN
  /\ status' = [status EXCEPT ![o] = st]
  /\ parent' = [parent EXCEPT ![o] = p]
  /\ guarded' = IF o \in Catching \/ p \in guarded THEN guarded \cup {o} ELSE guarded

(* OwnerFrame::reset of o on top of stk takes everything o has, and the     *)
(* steps below attempt each entry.  u: a panic is to go on afterwards.      *)
Reset(o, stk, u) ==
  /\ cleanups' = [cleanups EXCEPT ![o] = <<>>]
  /\ children' = [children EXCEPT ![o] = <<>>]
  /\ swept_at' = [swept_at EXCEPT ![o] = 0]
  /\ cleanup_registrations' = cleanups_taken(cleanup_registrations, Len(cleanups[o]))
  /\ owned_children' = children_taken(owned_children, Len(children[o]))
  /\ stack' = Append(stk, [Frame("reset", o) EXCEPT
                !.cleanups = cleanups[o], !.children = children[o], !.unwinding = u])
  /\ panicking' = FALSE

(* OwnerFrame::dispose, and EffectInner::dispose, which adds nothing here.  *)
DisposeOn(o, stk, u) ==
  IF status[o] = "disposed"
  THEN stack' = stk /\ UNCHANGED <<status, lists, gauges, panicking>>
  ELSE /\ status' = [status EXCEPT ![o] = "disposed"]
       /\ Reset(o, stk, u)

Dead(p) == p # None /\ status[p] = "disposed"

(* release_disposed_children, once the list has doubled since the last time.*)
SweepDue(p) == Len(children[p]) >= SweepAt /\ Len(children[p]) >= 2 * swept_at[p]
Swept(p) ==
  LET left == {i \in DOMAIN children[p] : status[children[p][i]] # "disposed"}
      At(k) == CHOOSE i \in left : Cardinality({j \in left : j <= i}) = k
  IN [k \in 1 .. Cardinality(left) |-> children[p][At(k)]]

(* OwnerFrame::adopt by a live p. *)
(* Mutant: the gauge is not told of what the sweep released. *)
AdoptUncounted(p, o) ==
  LET kept == IF SweepDue(p) THEN Swept(p) ELSE children[p] IN
  /\ children' = [children EXCEPT ![p] = Append(kept, o)]
  /\ swept_at' = IF SweepDue(p) THEN [swept_at EXCEPT ![p] = Len(kept)] ELSE swept_at
  /\ owned_children' = child_adopted(owned_children)
  /\ UNCHANGED <<cleanups, cleanup_registrations>>

Adopt(p, o) ==
  LET kept == IF SweepDue(p) THEN Swept(p) ELSE children[p] IN
  /\ children' = [children EXCEPT ![p] = Append(kept, o)]
  /\ swept_at' = IF SweepDue(p) THEN [swept_at EXCEPT ![p] = Len(kept)] ELSE swept_at
  /\ owned_children' = child_adopted(children_taken(owned_children, Len(children[p]) - Len(kept)))
  /\ UNCHANGED <<cleanups, cleanup_registrations>>

-----------------------------------------------------------------------------
(* What user code does.                                                    *)

(* scope and scope_catch. *)
StartScope(o) ==
  /\ MayCall /\ status[o] = "absent"
  /\ NewOwner(o, "live")
  /\ stack' = Append(stack, Frame("scope", o))
  /\ UNCHANGED <<lists, gauges, history, panicking>>

(* ... whose closure returns: the owner outside adopts it, or disposes it.  *)
ScopeReturn ==
  LET p == CurrentOwner(Pop) IN
  /\ ~panicking /\ On("scope")
  /\ \/ /\ p = None
        /\ stack' = Pop
        /\ UNCHANGED <<status, lists, gauges, panicking>>
     \/ /\ Dead(p)
        /\ DisposeOn(Top.owner, Pop, FALSE)
     \/ /\ p # None /\ ~Dead(p)
        /\ Adopt(p, Top.owner)
        /\ stack' = Pop
        /\ UNCHANGED <<status, panicking>>
  /\ UNCHANGED <<parent, guarded, history>>

(* EffectHandle::new.  An effect has nothing to tear down when it is born   *)
(* under a disposed owner. *)
CreateEffect(e) ==
  LET p == CurrentOwner(stack) IN
  /\ UserCode /\ status[e] = "absent"
  /\ NewOwner(e, IF Dead(p) THEN "disposed" ELSE "live")
  /\ IF p = None \/ Dead(p) THEN UNCHANGED <<lists, gauges>> ELSE Adopt(p, e)
  /\ UNCHANGED <<history, control>>

(* OwnerFrame::add_cleanup: a disposed owner calls it at once. *)
(* Mutant: it is registered all the same. *)
AddCleanupAnyway(p, c) ==
  /\ known' = c
  /\ cleanups' = [cleanups EXCEPT ![p] = Append(@, c)]
  /\ cleanup_registrations' = cleanup_registered(cleanup_registrations)
  /\ UNCHANGED <<children, swept_at, owned_children, ran, control>>

AddCleanup(p, c) ==
  /\ known' = c
  /\ \/ /\ Dead(p)
        /\ ran' = [ran EXCEPT ![c] = 1]
        /\ stack' = Append(stack, Frame("cleanup", None))
        /\ UNCHANGED <<lists, gauges, panicking>>
     \/ /\ ~Dead(p)
        /\ cleanups' = [cleanups EXCEPT ![p] = Append(@, c)]
        /\ cleanup_registrations' = cleanup_registered(cleanup_registrations)
        /\ UNCHANGED <<children, swept_at, owned_children, ran, control>>

(* on_cleanup: a panic without an owner. *)
OnCleanup ==
  LET p == CurrentOwner(stack) IN
  /\ MayCall /\ ~Idle /\ known < MaxCleanups
  /\ IF p = None
     THEN panicking' = TRUE /\ UNCHANGED <<lists, gauges, history, stack>>
     ELSE AddCleanup(p, known + 1)
  /\ UNCHANGED tree

(* Owner::run_in, also of an owner that is disposed by now. *)
RunIn(o) ==
  /\ MayCall /\ o \in Kept /\ status[o] # "absent"
  /\ stack' = Append(stack, Frame("run_in", o))
  /\ UNCHANGED <<tree, lists, gauges, history, panicking>>

Unowned ==
  /\ MayCall /\ "unowned" \in Env
  /\ stack' = Append(stack, Frame("unowned", None))
  /\ UNCHANGED <<tree, lists, gauges, history, panicking>>

(* dispose through a handle, or the drop of the handle.  A scope has one    *)
(* once its closure has returned.                                           *)
HasHandle(o) == status[o] = "live" /\ ~\E i \in DOMAIN stack : stack[i] = Frame("scope", o)

Dispose(o) ==
  /\ UserCode /\ HasHandle(o)
  /\ DisposeOn(o, stack, FALSE)
  /\ UNCHANGED <<parent, guarded, history>>

(* A panic drops the handles a closure kept in its locals.                  *)
DropUnwinding(o) ==
  /\ panicking /\ Top.kind \in Closures /\ "drop" \in Env /\ HasHandle(o)
  /\ DisposeOn(o, stack, TRUE)
  /\ UNCHANGED <<parent, guarded, history>>

Panic ==
  /\ ~panicking /\ "panic" \in Env /\ Top.kind \in Closures
  /\ panicking' = TRUE
  /\ UNCHANGED <<tree, lists, gauges, history, stack>>

Return ==
  /\ ~panicking /\ Top.kind \in Closures \ {"scope"}
  /\ stack' = Pop
  /\ UNCHANGED <<tree, lists, gauges, history, panicking>>

-----------------------------------------------------------------------------
(* Teardown.                                                               *)

(* The next entry is attempted: the cleanups, then the children, the last   *)
(* one first.                                                               *)
RunCleanup ==
  LET c == Last(Top.cleanups) IN
  /\ ~panicking /\ On("reset") /\ Top.cleanups # <<>>
  /\ ran' = [ran EXCEPT ![c] = @ + 1]
  /\ stack' = Append(Retop([Top EXCEPT !.cleanups = Front(@)]), Frame("cleanup", None))
  /\ UNCHANGED <<tree, lists, gauges, known, panicking>>

DisposeChild ==
  /\ ~panicking /\ On("reset") /\ Top.cleanups = <<>> /\ Top.children # <<>>
  /\ DisposeOn(Last(Top.children), Retop([Top EXCEPT !.children = Front(@)]), FALSE)
  /\ UNCHANGED <<parent, guarded, history>>

(* capture_panic. *)
(* Mutant: the loop ends at the first panic. *)
CaptureAborts ==
  /\ panicking /\ On("reset")
  /\ stack' = Pop
  /\ panicking' = (Len(stack) > 1)
  /\ UNCHANGED <<tree, lists, gauges, history>>

Capture ==
  /\ panicking /\ On("reset")
  /\ stack' = Retop([Top EXCEPT !.failed = TRUE])
  /\ panicking' = FALSE
  /\ UNCHANGED <<tree, lists, gauges, history>>

(* The first panic is raised again, unless the thread is unwinding.  What   *)
(* leaves the outermost frame is the host's.                                *)
FinishReset ==
  /\ ~panicking /\ On("reset") /\ Top.cleanups = <<>> /\ Top.children = <<>>
  /\ stack' = Pop
  /\ panicking' = /\ Len(stack) > 1
                  /\ Top.unwinding \/ (Top.failed /\ ~ThreadPanicking)
  /\ UNCHANGED <<tree, lists, gauges, history>>

-----------------------------------------------------------------------------
(* An effect's run.                                                        *)

RunEffect(e) ==
  /\ MayCall /\ status[e] = "live" /\ ~Running(e)
  /\ Reset(e, Append(stack, Frame("rerun", e)), FALSE)
  /\ UNCHANGED <<tree, history>>

(* The previous run's teardown may have disposed the effect. *)
(* Mutant: the body runs anyway. *)
StartBodyAnyway ==
  /\ ~panicking /\ On("rerun")
  /\ stack' = Retop(Frame("run", Top.owner))
  /\ UNCHANGED <<tree, lists, gauges, history, panicking>>

StartBody ==
  /\ ~panicking /\ On("rerun")
  /\ stack' = IF Dead(Top.owner) THEN Pop ELSE Retop(Frame("run", Top.owner))
  /\ UNCHANGED <<tree, lists, gauges, history, panicking>>

(* run_scheduled catches a panic under an error boundary and disposes the   *)
(* effect, which may panic itself, before it tells the handler.             *)
(* Mutant: the handler is told first. *)
CatchTellsFirst ==
  /\ panicking /\ Top.kind \in {"rerun", "run"} /\ Top.owner \in guarded
  /\ stack' = Retop(Frame("handler", Top.owner))
  /\ panicking' = FALSE
  /\ UNCHANGED <<tree, lists, gauges, history>>

Catch ==
  LET stk == Retop(Frame("caught", Top.owner)) IN
  /\ panicking /\ Top.kind \in {"rerun", "run"} /\ Top.owner \in guarded
  /\ IF Dead(Top.owner)
     THEN stack' = stk /\ panicking' = FALSE /\ UNCHANGED <<status, lists, gauges>>
     ELSE DisposeOn(Top.owner, stk, FALSE)
  /\ UNCHANGED <<parent, guarded, history>>

Handle ==
  /\ ~panicking /\ On("caught")
  /\ stack' = Retop(Frame("handler", Top.owner))
  /\ UNCHANGED <<tree, lists, gauges, history, panicking>>

-----------------------------------------------------------------------------
(* Unwinding.                                                              *)

(* A scope whose closure panics has no handle: its frame is dropped, unless *)
(* an Owner handle keeps it.                                                *)
UnwindScope ==
  /\ panicking /\ On("scope")
  /\ IF Top.owner \in Kept
     THEN /\ stack' = Pop
          /\ panicking' = (Len(stack) > 1)
          /\ UNCHANGED <<status, lists, gauges>>
     ELSE DisposeOn(Top.owner, Pop, TRUE)
  /\ UNCHANGED <<parent, guarded, history>>

Unwind ==
  /\ panicking
  /\ \/ Top.kind \in {"run_in", "unowned", "cleanup", "handler", "caught"}
     \/ Top.kind \in {"rerun", "run"} /\ Top.owner \notin guarded
  /\ stack' = Pop
  /\ panicking' = (Len(stack) > 1)
  /\ UNCHANGED <<tree, lists, gauges, history>>

-----------------------------------------------------------------------------
Init ==
  /\ status = [o \in Owners |-> "absent"]
  /\ parent = [o \in Owners |-> None] /\ guarded = {}
  /\ children = [o \in Owners |-> <<>>] /\ swept_at = [o \in Owners |-> 0]
  /\ cleanups = [o \in Owners |-> <<>>]
  /\ cleanup_registrations = 0 /\ owned_children = 0
  /\ known = 0 /\ ran = [c \in Cleanups |-> 0]
  /\ stack = <<>> /\ panicking = FALSE

Next ==
  \/ \E o \in Scopes : StartScope(o)
  \/ \E e \in Effects : CreateEffect(e) \/ RunEffect(e)
  \/ \E o \in Owners : RunIn(o) \/ Dispose(o) \/ DropUnwinding(o)
  \/ OnCleanup \/ Unowned \/ ScopeReturn \/ Return \/ Panic
  \/ RunCleanup \/ DisposeChild \/ Capture \/ FinishReset
  \/ StartBody \/ Catch \/ Handle
  \/ UnwindScope \/ Unwind

Spec == Init /\ [][Next]_vars

-----------------------------------------------------------------------------
(* Correctness.                                                            *)

(* Every variable keeps its type. *)
TypeOK ==
  /\ status \in [Owners -> {"absent", "live", "disposed"}]
  /\ parent \in [Owners -> Owners \cup {None}]
  /\ guarded \subseteq Owners
  /\ children \in [Owners -> Seq(Owners)] /\ swept_at \in [Owners -> Nat]
  /\ cleanups \in [Owners -> Seq(Cleanups)]
  /\ cleanup_registrations \in Nat /\ owned_children \in Nat
  /\ known \in 0 .. MaxCleanups /\ ran \in [Cleanups -> Nat]
  /\ stack \in Seq(Frames)
  /\ panicking \in BOOLEAN
  /\ panicking => ~Idle

(* Teardown is total: every cleanup was run exactly once or waits in one    *)
(* place, with an owner or in a teardown, whatever panics on the way.       *)
Spots(c, lists_of) == {s \in Entries(lists_of) : lists_of[s[1]][s[2]] = c}
AccountedOnce ==
  \A c \in 1 .. known :
    ran[c] + Cardinality(Spots(c, cleanups))
           + Cardinality(Spots(c, [i \in DOMAIN stack |-> stack[i].cleanups])) = 1

(* A live owner that was created under another one is torn down with it: it *)
(* is among the children, or among those a teardown has taken and not yet   *)
(* reached.  A scope is adopted when its closure has returned, and never if *)
(* that panics and a stored Owner handle keeps its frame.                   *)
Opening(o) == \E i \in DOMAIN stack : stack[i] = Frame("scope", o)
LiveIsOwned ==
  \A o \in Owners \ (Kept \cap Scopes) :
    status[o] = "live" /\ parent[o] # None /\ ~Opening(o) =>
      \/ o \in InSequence(children[parent[o]])
      \/ \E i \in DOMAIN stack :
           stack[i].owner = parent[o] /\ o \in InSequence(stack[i].children)

(* Nothing is entrusted to an owner after its only teardown: what closures  *)
(* that still run for a disposed owner, be it the body that disposed it or  *)
(* one entered again with run_in, create or register is disposed of or      *)
(* called at once.                                                          *)
DisposedHoldNothing ==
  \A o \in Owners : Dead(o) => cleanups[o] = <<>> /\ children[o] = <<>>

(* The gauges agree with the lists, which is what audit_ownership compares, *)
(* at every moment and not only when nothing is running.                    *)
GaugesMatch == audit_ownership = {}

(* An error handler hears of an effect when that is disposed and its        *)
(* teardown is over, so that it may put something in its place.             *)
ReportedAfterTeardown ==
  \A i \in DOMAIN stack : stack[i].kind = "handler" =>
    /\ Dead(stack[i].owner)
    /\ \A j \in DOMAIN stack : ~(stack[j].kind = "reset" /\ stack[j].owner = stack[i].owner)

(* No body starts after its effect was disposed, be it by a cleanup of its  *)
(* own previous run.                                                        *)
NoRunAfterDisposal ==
  [][ \A e \in Effects : Dead(e) /\ (\E i \in DOMAIN stack' : stack'[i] = Frame("run", e))
                         => \E i \in DOMAIN stack : stack[i] = Frame("run", e) ]_vars

(* What code in a teardown creates or registers never ends up with an owner *)
(* further out, which may live for ever: an owner only takes in what comes  *)
(* from its own closure, not through a teardown that happens inside it.     *)
Grows(o) == Len(cleanups'[o]) > Len(cleanups[o]) \/ Len(children'[o]) > Len(children[o])
TeardownIsABarrier ==
  [][ \A o \in Owners : Grows(o) =>
        \E i \in DOMAIN stack :
          /\ stack[i].owner = o /\ stack[i].kind \in {"scope", "run", "run_in"}
          /\ \A j \in i .. Len(stack) : stack[j].kind # "reset" ]_vars
=============================================================================
