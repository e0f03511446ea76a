--------------------------- MODULE ReactiveGraph ---------------------------
(***************************************************************************)
(* The reactive graph of adaptite: the reactor's edge and version maps     *)
(* (reactor.rs), the computed nodes that verify before they recompute      *)
(* (thunk.rs) and the effects that are marked, queued, verified, torn down *)
(* and run (effect.rs).                                                    *)
(*                                                                         *)
(* The crate is single threaded, and what makes it hard is re-entrancy: a  *)
(* verification runs closures, a closure reads, writes, flushes, disposes  *)
(* or panics, and each of those re-enters the graph.  The model therefore  *)
(* keeps the call stack as a variable.  One step is one operation of the   *)
(* closure on top of the stack, or one step of the library code on top of  *)
(* it.  Closures are not modelled by what they compute but by everything   *)
(* they may do: read any subset of Reads[n], in any order, tracked or not, *)
(* write any signal of Writes[n], and so on; Env says which of the unusual *)
(* things closures and the host do in a given instance.                    *)
(***************************************************************************)
EXTENDS Naturals, Sequences

CONSTANTS
  Signals,    \* nodes with a version and no inputs: Signal, Source, Event
  Thunks,     \* computed nodes that always propagate
  Memos,      \* computed nodes whose comparator may suppress a change
  Effects,    \* observers that run on a lane
  None,       \* Option::None: no node, no recorded version
  Reads,      \* Reads[n]: the observables the closures of observer n may read
  Writes,     \* Writes[n]: the signals the closures of observer n may write
  Guarded,    \* the effects created under an error boundary (scope_catch)
  Env,        \* what the environment does beyond reading, writing, draining
  MaxVersion  \* bound: a signal is written at most this many times

Computed    == Thunks \cup Memos
Observers   == Computed \cup Effects
Observables == Signals \cup Computed
Nodes       == Signals \cup Observers

(***************************************************************************)
(* The behaviours an instance may allow, by name:                          *)
(*   untracked        a closure reads a computed node under untrack        *)
(*   cleanup_reads    a cleanup reads computed nodes                       *)
(*   impure_compute   a compute closure writes, flushes, disposes or drops *)
(*   nested_flush     a closure drains a lane (flush_now, EffectRun::run)  *)
(*   dispose          effect handles are disposed                          *)
(*   dispose_running  ... also by the effect's own running closure         *)
(*   drop             the last handle of an observable is dropped          *)
(*   discard          a custom lane drops an EffectRun without running it  *)
(*   panic_compute, panic_body, panic_cleanup, panic_compare               *)
(*                    that kind of closure panics                          *)
(***************************************************************************)
Behaviours == {"untracked", "cleanup_reads", "impure_compute", "nested_flush",
               "dispose", "dispose_running", "drop", "discard", "panic_compute",
               "panic_body", "panic_cleanup", "panic_compare"}

ASSUME NodesAssumption ==
  /\ Signals \cap Observers = {}
  /\ Thunks \cap Memos = {}
  /\ Computed \cap Effects = {}
  /\ None \notin Nodes \cup Nat
ASSUME ClosuresAssumption ==
  /\ Reads \in [Observers -> SUBSET Observables]
  /\ Writes \in [Observers -> SUBSET Signals]
  /\ Guarded \subseteq Effects
ASSUME BoundsAssumption ==
  /\ Env \subseteq Behaviours
  /\ MaxVersion \in Nat

VARIABLES
  registered,    \* the nodes the reactor holds metadata and a hook for
  version,       \* NodeMeta::version
  dependencies,  \* dependencies[o][n]: the version of n that o read, or None
  dependents,    \* dependents[n]: the observers that recorded n
  state,         \* State of an observer: Clean, Check or Dirty
  disposed,      \* effects with EffectInner::disposed set
  scheduled,     \* effects with EffectInner::scheduled (the latch) set
  lane,          \* lane[e]: the queued jobs or EffectRuns that will run e
  rerun,         \* effects with EffectInner::rerun_after_current set
  stack,         \* the call stack, outermost frame first
  panicking,     \* TRUE while a panic unwinds the stack
  abandoned      \* history: effects whose last run broke off and left work undone

edges == <<dependencies, dependents>>
queue == <<scheduled, lane, rerun>>
vars  ==
  <<registered, version, edges, state, disposed, queue, stack, panicking, abandoned>>

-----------------------------------------------------------------------------
(* Frames and the call stack.                                              *)

Kinds     == {"verify", "compute", "teardown", "body", "dispose"}
UserKinds == Kinds \ {"verify"}
EdgeMaps  == [Observables -> Nat \cup {None}]
NoEdges   == [n \in Observables |-> None]
Keys(m)   == {n \in Observables : m[n] # None}

(* todo and cur belong to a verification: the copied edges not yet compared *)
(* and the one whose node has been refreshed; tracked says that the node is *)
(* to be observed by the reader once it is fresh.                           *)
KindsOf(n) == IF n \in Computed THEN {"verify", "compute"} ELSE Kinds \ {"compute"}
Frames ==
  {f \in [kind : Kinds, node : Observers, todo : EdgeMaps,
          cur : Observables \cup {None}, tracked : BOOLEAN] :
     f.kind \in KindsOf(f.node)}

Frame(k, n, t) ==
  [kind |-> k, node |-> n, todo |-> NoEdges, cur |-> None, tracked |-> t]
VerifyFrame(n, t) == [Frame("verify", n, t) EXCEPT !.todo = dependencies[n]]

Idle      == stack = <<>>
Top       == stack[Len(stack)]
Pop       == SubSeq(stack, 1, Len(stack) - 1)
Retop(f)  == [stack EXCEPT ![Len(stack)] = f]

HasFrame(n, kinds) ==
  \E i \in DOMAIN stack : stack[i].node = n /\ stack[i].kind \in kinds
Active(n)  == HasFrame(n, {"compute", "body"})
Running(e) == HasFrame(e, {"teardown", "body"})
InCompute  == \E i \in DOMAIN stack : stack[i].kind = "compute"

(* User code runs: the host, which may do anything, or the closure on top.  *)
UserCode == ~panicking /\ (IF Idle THEN TRUE ELSE Top.kind \in UserKinds)
MayRead  ==
  IF Idle THEN Observables
  ELSE IF Top.kind \in {"teardown", "dispose"} /\ "cleanup_reads" \notin Env THEN {}
  ELSE Reads[Top.node]
MayWrite == IF Idle THEN Signals ELSE Writes[Top.node]
(* What a pure compute closure never does. *)
SideEffectAllowed == InCompute => "impure_compute" \in Env

(* The observer reads are recorded for: the innermost computation, unless   *)
(* the code on top is a cleanup, which the crate runs untracked.            *)
ObserverOn(stk) ==
  IF stk # <<>> /\ stk[Len(stk)].kind \in {"compute", "body"}
  THEN stk[Len(stk)].node ELSE None
TrackModes ==
  {t \in BOOLEAN : IF t THEN ObserverOn(stack) # None
                   ELSE ObserverOn(stack) = None \/ "untracked" \in Env}

-----------------------------------------------------------------------------
(* Versions and edges.                                                     *)

VersionOf(n) == IF n \in registered THEN version[n] ELSE 0

Observe(o, d, v) ==
  /\ dependencies' = [dependencies EXCEPT ![o][d] = v]
  /\ dependents' = [dependents EXCEPT ![d] = @ \cup {o}]

ClearDependencies(o) ==
  /\ dependencies' = [dependencies EXCEPT ![o] = NoEdges]
  /\ dependents' = [n \in Observables |-> dependents[n] \ {o}]

(* Reactor::dispose of an observable: both directions of its edges go. *)
ForgetObservable(n) ==
  /\ dependencies' = [o \in Observers |->
       IF o = n THEN NoEdges
       ELSE [dependencies[o] EXCEPT ![n] = None]]
  /\ dependents' = [m \in Observables |->
       IF m = n THEN {} ELSE dependents[m] \ {n}]

-----------------------------------------------------------------------------
(* Marking.  A write delivers Dirty to the direct dependents; a computed    *)
(* node passes Check on when it leaves Clean, and only then.  Reached is    *)
(* the set of observers the recursion delivers a mark to.                   *)

PassesMarksOn(n) == n \in Computed \cap registered /\ state[n] = "Clean"

Reached(s) ==
  {o \in Observers : \A X \in SUBSET Observers :
     ( /\ dependents[s] \subseteq X
       /\ \A c \in X : PassesMarksOn(c) => dependents[c] \subseteq X )
     => o \in X}

(* Mutant: transitive dependents are marked Dirty, not Check. *)
MarkedAllDirty(s) ==
  [o \in Observers |->
     IF o \in registered \cap (dependents[s] \cup Reached(s)) THEN "Dirty" ELSE state[o]]

Marked(s) ==
  [o \in Observers |->
     IF o \notin registered THEN state[o]
     ELSE IF o \in dependents[s] THEN "Dirty"
     ELSE IF o \in Reached(s) /\ state[o] = "Clean" THEN "Check"
     ELSE state[o]]

(* EffectInner::schedule: the latch coalesces, a disposed effect is skipped. *)
Schedule(E) ==
  LET fresh == (E \cap registered) \ (disposed \cup scheduled) IN
  /\ scheduled' = scheduled \cup fresh
  /\ lane' = [e \in Effects |-> lane[e] + (IF e \in fresh THEN 1 ELSE 0)]

(* Reactor::trigger. *)
Trigger(s) ==
  /\ version' = [version EXCEPT ![s] = @ + 1]
  /\ state' = Marked(s)
  /\ Schedule(Reached(s) \cap Effects)

-----------------------------------------------------------------------------
(* Refreshing a computed node.                                             *)

(* recompute_inner up to the closure: Clean first, then a new tracking scope. *)
StartCompute(c, t, stk) ==
  /\ state' = [state EXCEPT ![c] = "Clean"]
  /\ ClearDependencies(c)
  /\ stack' = Append(stk, Frame("compute", c, t))

(* ObserverHook::refresh of a node that is not Clean, on top of stk. *)
StartRefresh(c, t, stk) ==
  \/ /\ state[c] = "Check"
     /\ stack' = Append(stk, VerifyFrame(c, t))
     /\ UNCHANGED <<edges, state>>
  \/ /\ state[c] = "Dirty"
     /\ StartCompute(c, t, stk)

(* The read that follows a refresh, for the code that is now on top of stk. *)
ObserveOn(stk, tracked, d, v) ==
  IF tracked /\ ObserverOn(stk) # None
  THEN Observe(ObserverOn(stk), d, v) ELSE UNCHANGED edges

-----------------------------------------------------------------------------
Init ==
  /\ registered = Nodes
  /\ version = [n \in Observables |-> 0]
  /\ dependencies = [o \in Observers |-> NoEdges]
  /\ dependents = [n \in Observables |-> {}]
  /\ state = [o \in Observers |-> "Dirty"]
  /\ disposed = {}
  /\ scheduled = Effects
  /\ lane = [e \in Effects |-> 1]
  /\ rerun = {}
  /\ stack = <<>>
  /\ panicking = FALSE
  /\ abandoned = {}

-----------------------------------------------------------------------------
(* Operations of user code: the host when the stack is empty, otherwise the *)
(* closure on top of it.                                                    *)

Write(s) ==
  /\ UserCode /\ SideEffectAllowed
  /\ s \in registered \cap MayWrite /\ version[s] < MaxVersion
  /\ Trigger(s)
  /\ UNCHANGED <<registered, edges, disposed, rerun, stack, panicking, abandoned>>

ReadSignal(s) ==
  /\ UserCode /\ ObserverOn(stack) # None
  /\ s \in registered \cap MayRead
  /\ Observe(Top.node, s, version[s])
  /\ UNCHANGED <<registered, version, state, disposed, queue, stack, panicking, abandoned>>

CanRead(c) == UserCode /\ c \in registered \cap MayRead

ReadCycle(c) ==
  /\ CanRead(c) /\ Active(c)
  /\ panicking' = TRUE
  /\ UNCHANGED <<registered, version, edges, state, disposed, queue, stack, abandoned>>

(* Mutant: a node marked Check is read without being verified. *)
ReadUnverified(c) ==
  /\ CanRead(c) /\ ~Active(c) /\ state[c] # "Dirty"
  /\ ObserverOn(stack) # None
  /\ Observe(Top.node, c, version[c])
  /\ UNCHANGED <<registered, version, state, disposed, queue, stack, panicking, abandoned>>

ReadClean(c) ==
  /\ CanRead(c) /\ ~Active(c) /\ state[c] = "Clean"
  /\ ObserverOn(stack) # None
  /\ Observe(Top.node, c, version[c])
  /\ UNCHANGED <<registered, version, state, disposed, queue, stack, panicking, abandoned>>

(* Mutant: no cycle check before the refresh. *)
ReadStaleUnchecked(c) ==
  /\ CanRead(c)
  /\ \E t \in TrackModes : StartRefresh(c, t, stack)
  /\ UNCHANGED <<registered, version, disposed, queue, panicking, abandoned>>

ReadStale(c) ==
  /\ CanRead(c) /\ ~Active(c)
  /\ \E t \in TrackModes : StartRefresh(c, t, stack)
  /\ UNCHANGED <<registered, version, disposed, queue, panicking, abandoned>>

ComputeReturn ==
  /\ ~panicking /\ ~Idle /\ Top.kind = "compute"
  /\ LET c == Top.node IN
     \E changed \in IF c \in Thunks \/ version[c] = 0 THEN {TRUE} ELSE BOOLEAN :
       LET v == IF changed THEN version[c] + 1 ELSE version[c] IN
       /\ version' = [version EXCEPT ![c] = v]
       /\ ObserveOn(Pop, Top.tracked, c, v)
  /\ stack' = Pop
  /\ UNCHANGED <<registered, state, disposed, queue, panicking, abandoned>>

-----------------------------------------------------------------------------
(* Verification: dependencies_changed, one recorded edge at a time.  The    *)
(* copy is a hash map's, so the order is any order.                         *)

Verifying == ~panicking /\ ~Idle /\ Top.kind = "verify"

VerifyCycle(d) ==
  /\ Verifying /\ Top.cur = None /\ d \in Keys(Top.todo)
  /\ Active(d)
  /\ panicking' = TRUE
  /\ UNCHANGED <<registered, version, edges, state, disposed, queue, stack, abandoned>>

(* Mutant: versions are compared without refreshing the node first. *)
VerifyWithoutRefresh(d) ==
  /\ Verifying /\ Top.cur = None /\ d \in Keys(Top.todo)
  /\ ~Active(d)
  /\ stack' = Retop([Top EXCEPT !.cur = d])
  /\ UNCHANGED <<registered, version, edges, state, disposed, queue, panicking, abandoned>>

VerifyRefresh(d) ==
  /\ Verifying /\ Top.cur = None /\ d \in Keys(Top.todo)
  /\ ~Active(d)
  /\ LET stk == Retop([Top EXCEPT !.cur = d]) IN
     IF d \in Computed \cap registered /\ state[d] # "Clean"
     THEN StartRefresh(d, FALSE, stk)
     ELSE stack' = stk /\ UNCHANGED <<edges, state>>
  /\ UNCHANGED <<registered, version, disposed, queue, panicking, abandoned>>

Differs == VersionOf(Top.cur) # Top.todo[Top.cur]

VerifySame ==
  /\ Verifying /\ Top.cur # None /\ ~Differs
  /\ stack' = Retop([Top EXCEPT !.cur = None, !.todo[Top.cur] = None])
  /\ UNCHANGED <<registered, version, edges, state, disposed, queue, panicking, abandoned>>

VerifyChangedComputed ==
  /\ Verifying /\ Top.node \in Computed /\ Top.cur # None /\ Differs
  /\ StartCompute(Top.node, Top.tracked, Pop)
  /\ UNCHANGED <<registered, version, disposed, queue, panicking, abandoned>>

VerifyUnchangedComputed ==
  /\ Verifying /\ Top.node \in Computed /\ Top.cur = None /\ Keys(Top.todo) = {}
  /\ state' = [state EXCEPT ![Top.node] = "Clean"]
  /\ ObserveOn(Pop, Top.tracked, Top.node, version[Top.node])
  /\ stack' = Pop
  /\ UNCHANGED <<registered, version, disposed, queue, panicking, abandoned>>

VerifyChangedEffect ==
  /\ Verifying /\ Top.node \in Effects /\ Top.cur # None /\ Differs
  /\ stack' = IF Top.node \in disposed THEN Pop
              ELSE Retop(Frame("teardown", Top.node, FALSE))
  /\ UNCHANGED <<registered, version, edges, state, disposed, queue, panicking, abandoned>>

VerifyUnchangedEffect ==
  /\ Verifying /\ Top.node \in Effects /\ Top.cur = None /\ Keys(Top.todo) = {}
  /\ stack' = Pop
  /\ UNCHANGED <<registered, version, edges, state, disposed, queue, panicking, abandoned>>

-----------------------------------------------------------------------------
(* Running a queued effect: run_scheduled_inner.                            *)

TakeRun(e) ==
  /\ UserCode /\ SideEffectAllowed /\ (Idle \/ "nested_flush" \in Env)
  /\ lane[e] > 0
  /\ lane' = [lane EXCEPT ![e] = @ - 1]
  /\ scheduled' = scheduled \ {e}

(* The effect is gone, or nothing marked it since it last started. *)
RunNothing(e) ==
  /\ TakeRun(e)
  /\ e \in disposed \/ (~Running(e) /\ state[e] = "Clean")
  /\ UNCHANGED <<registered, version, edges, state, disposed, rerun, stack, panicking, abandoned>>

(* The effect is in the middle of a run: the new one is owed. *)
RunDeferred(e) ==
  /\ TakeRun(e)
  /\ e \notin disposed /\ Running(e)
  /\ rerun' = rerun \cup {e}
  /\ UNCHANGED <<registered, version, edges, state, disposed, stack, panicking, abandoned>>

RunStale(e) ==
  /\ TakeRun(e)
  /\ e \notin disposed /\ ~Running(e)
  /\ \/ state[e] = "Dirty" /\ stack' = Append(stack, Frame("teardown", e, FALSE))
     \/ state[e] = "Check" /\ stack' = Append(stack, VerifyFrame(e, FALSE))
  /\ state' = [state EXCEPT ![e] = "Clean"]
  /\ abandoned' = abandoned \ {e}
  /\ UNCHANGED <<registered, version, edges, disposed, rerun, panicking>>

RunReady(e) == RunNothing(e) \/ RunDeferred(e) \/ RunStale(e)

(* The cleanups of the previous run are done; run the body unless one of    *)
(* them disposed the effect.                                                *)
TeardownReturn ==
  /\ ~panicking /\ ~Idle /\ Top.kind = "teardown"
  /\ \/ /\ Top.node \in disposed
        /\ stack' = Pop
        /\ UNCHANGED edges
     \/ /\ Top.node \notin disposed
        /\ stack' = Retop(Frame("body", Top.node, FALSE))
        /\ ClearDependencies(Top.node)
  /\ UNCHANGED <<registered, version, state, disposed, queue, panicking, abandoned>>

(* Mutant: the owed run is not queued. *)
BodyReturnKeepsDebt ==
  /\ ~panicking /\ ~Idle /\ Top.kind = "body"
  /\ stack' = Pop
  /\ UNCHANGED <<registered, version, edges, state, disposed, queue, panicking, abandoned>>

BodyReturn ==
  /\ ~panicking /\ ~Idle /\ Top.kind = "body"
  /\ Schedule({Top.node} \cap rerun)
  /\ rerun' = rerun \ {Top.node}
  /\ stack' = Pop
  /\ UNCHANGED <<registered, version, edges, state, disposed, panicking, abandoned>>

-----------------------------------------------------------------------------
(* Disposal, dropped handles, discarded runs.                               *)

StartDispose(e, stk) ==
  /\ disposed' = disposed \cup {e}
  /\ stack' = Append(stk, Frame("dispose", e, FALSE))

(* reactor.unregister_observer and Reactor::dispose of an effect. *)
Unhook(e) ==
  /\ registered' = registered \ {e}
  /\ ClearDependencies(e)

Dispose(e) ==
  /\ UserCode /\ SideEffectAllowed /\ "dispose" \in Env
  /\ e \notin disposed
  /\ Running(e) => "dispose_running" \in Env
  /\ StartDispose(e, stack)
  /\ scheduled' = scheduled \ {e}
  /\ UNCHANGED <<registered, version, edges, state, lane, rerun, panicking, abandoned>>

DisposeReturn ==
  /\ ~panicking /\ ~Idle /\ Top.kind = "dispose"
  /\ Unhook(Top.node)
  /\ stack' = Pop
  /\ UNCHANGED <<version, state, disposed, queue, panicking, abandoned>>

DropHandle(n) ==
  /\ UserCode /\ SideEffectAllowed /\ "drop" \in Env
  /\ n \in registered \cap Observables
  /\ ~HasFrame(n, Kinds)
  /\ registered' = registered \ {n}
  /\ ForgetObservable(n)
  /\ UNCHANGED <<version, state, disposed, queue, stack, panicking, abandoned>>

(* Mutant: EffectRun has no Drop. *)
DiscardKeepsLatch(e) ==
  /\ UserCode /\ SideEffectAllowed /\ "discard" \in Env
  /\ lane[e] > 0
  /\ lane' = [lane EXCEPT ![e] = @ - 1]
  /\ UNCHANGED <<registered, version, edges, state, disposed, scheduled, rerun, stack, panicking, abandoned>>

Discard(e) ==
  /\ UserCode /\ SideEffectAllowed /\ "discard" \in Env
  /\ lane[e] > 0
  /\ lane' = [lane EXCEPT ![e] = @ - 1]
  /\ scheduled' = scheduled \ {e}
  /\ UNCHANGED <<registered, version, edges, state, disposed, rerun, stack, panicking, abandoned>>

-----------------------------------------------------------------------------
(* Panics and the guards that run while one unwinds.                        *)

PanicKind(k) == CASE k = "compute" -> "panic_compute"
                  [] k = "body" -> "panic_body"
                  [] OTHER -> "panic_cleanup"

Panic ==
  /\ UserCode /\ ~Idle
  /\ PanicKind(Top.kind) \in Env
  /\ panicking' = TRUE
  /\ UNCHANGED <<registered, version, edges, state, disposed, queue, stack, abandoned>>

(* A panic that leaves the outermost frame is the host's. *)
PopUnwinding == stack' = Pop /\ panicking' = (Len(stack) > 1)

(* The memo's comparator panics: run_in_context has returned and            *)
(* DirtyOnUnwind is disarmed.                                               *)
ComparatorPanic ==
  /\ ~panicking /\ ~Idle /\ Top.kind = "compute" /\ "panic_compare" \in Env
  /\ Top.node \in Memos /\ version[Top.node] > 0
  /\ PopUnwinding
  /\ UNCHANGED <<registered, version, edges, state, disposed, queue, abandoned>>

(* DirtyOnUnwind. *)
UnwindComputed ==
  /\ panicking /\ Top.node \in Computed
  /\ state' = IF Top.kind = "compute"
              THEN [state EXCEPT ![Top.node] = "Dirty"] ELSE state
  /\ PopUnwinding
  /\ UNCHANGED <<registered, version, edges, disposed, queue, abandoned>>

(* RecoverOnUnwind: an effect whose verification unwinds is queued again. *)
(* Mutant: no RecoverOnUnwind. *)
RecoverNothing(e) == UNCHANGED <<state, scheduled, lane>>
Recover(e) ==
  IF Top.kind = "verify" /\ e \notin disposed
  THEN state' = [state EXCEPT ![e] = "Dirty"] /\ Schedule({e})
  ELSE UNCHANGED <<state, scheduled, lane>>

(* No guard covers the teardown, or the run that is owed after the body.     *)
UnwindEffect ==
  /\ panicking /\ Top.node \in Effects \ Guarded
  /\ Top.kind # "dispose"
  /\ Recover(Top.node)
  /\ abandoned' = IF Top.kind = "teardown" \/ (Top.kind = "body" /\ Top.node \in rerun)
                  THEN abandoned \cup {Top.node} ELSE abandoned
  /\ PopUnwinding
  /\ UNCHANGED <<registered, version, edges, disposed, rerun>>

(* run_scheduled under an error boundary: catch, dispose, call the handler. *)
BoundaryCatch ==
  /\ panicking /\ Top.node \in Guarded /\ Top.kind # "dispose"
  /\ panicking' = FALSE
  /\ IF Top.node \in disposed
     THEN stack' = Pop /\ UNCHANGED <<state, disposed, scheduled, lane>>
     ELSE /\ StartDispose(Top.node, Pop)
          /\ state' = IF Top.kind = "verify"
                      THEN [state EXCEPT ![Top.node] = "Dirty"] ELSE state
          /\ scheduled' = scheduled \ {Top.node}
          /\ lane' = IF Top.kind = "verify" /\ Top.node \notin scheduled
                     THEN [lane EXCEPT ![Top.node] = @ + 1] ELSE lane
  /\ UNCHANGED <<registered, version, edges, rerun, abandoned>>

(* UnhookOnUnwind. *)
UnwindDispose ==
  /\ panicking /\ Top.kind = "dispose"
  /\ Unhook(Top.node)
  /\ PopUnwinding
  /\ UNCHANGED <<version, state, disposed, queue, abandoned>>

-----------------------------------------------------------------------------
(* The library's own steps and the returns of closures: they need no        *)
(* decision of the host.                                                    *)
Continue ==
  \/ \E d \in Observables : VerifyCycle(d) \/ VerifyRefresh(d)
  \/ VerifySame \/ VerifyChangedComputed \/ VerifyUnchangedComputed
  \/ VerifyChangedEffect \/ VerifyUnchangedEffect
  \/ ComputeReturn \/ TeardownReturn \/ BodyReturn \/ DisposeReturn
  \/ UnwindComputed \/ UnwindEffect \/ BoundaryCatch \/ UnwindDispose

Next ==
  \/ \E s \in Signals : Write(s) \/ ReadSignal(s)
  \/ \E c \in Computed : ReadCycle(c) \/ ReadClean(c) \/ ReadStale(c)
  \/ \E e \in Effects : RunReady(e) \/ Dispose(e) \/ Discard(e)
  \/ \E n \in Observables : DropHandle(n)
  \/ Panic \/ ComparatorPanic
  \/ Continue

Spec == Init /\ [][Next]_vars

(* Closures return and somebody keeps draining the lanes; nobody owes the   *)
(* graph a read or a write.                                                 *)
Fairness == WF_vars(Continue) /\ \A e \in Effects : WF_vars(RunReady(e))
FairSpec == Spec /\ Fairness

-----------------------------------------------------------------------------
(* Correctness.                                                            *)

(* Every variable keeps its type; in particular the stack only ever holds   *)
(* well-formed frames and a panic is in flight only while there is a frame. *)
TypeOK ==
  /\ registered \subseteq Nodes
  /\ version \in [Observables -> Nat]
  /\ dependencies \in [Observers -> EdgeMaps]
  /\ dependents \in [Observables -> SUBSET Observers]
  /\ state \in [Observers -> {"Clean", "Check", "Dirty"}]
  /\ disposed \subseteq Effects
  /\ scheduled \subseteq Effects
  /\ lane \in [Effects -> Nat]
  /\ rerun \subseteq Effects
  /\ stack \in Seq(Frames)
  /\ panicking \in BOOLEAN
  /\ panicking => ~Idle
  /\ abandoned \subseteq Effects

(* The two edge maps of the reactor mirror each other, as observing,        *)
(* clearing and disposing leave them.  Coherent and what follows rest on it. *)
EdgesAgree ==
  \A o \in Observers, d \in Observables :
    dependencies[o][d] # None <=> o \in dependents[d]

(* A node whose cached value may be used as it is: no mark, no refresh of   *)
(* it in progress.                                                          *)
Settled(n) ==
  n \in Signals \/ (state[n] = "Clean" /\ ~HasFrame(n, {"verify", "compute"}))

UpToDate(o, d) == dependencies[o][d] = version[d] /\ Settled(d)
UpToDateWithAll(o) == \A d \in Keys(dependencies[o]) : UpToDate(o, d)

(* A computed node that is settled has recorded the current version of      *)
(* everything it read, and whatever it read is settled in turn: a cache hit *)
(* is never stale, however marks, verifications and disposals interleaved.  *)
Coherent ==
  \A c \in Computed \cap registered : Settled(c) => UpToDateWithAll(c)

(* Glitch freedom: whatever a running computation has read so far is of one *)
(* moment, the present one, unless the node has been marked meanwhile.      *)
NoTornReads ==
  \A i \in DOMAIN stack :
    LET n == stack[i].node IN
    stack[i].kind \in {"compute", "body"} /\ n \notin disposed /\ state[n] = "Clean"
      => UpToDateWithAll(n)

(* An effect is at rest when nothing of it is queued or on the stack. *)
AtRest(e) ==
  e \notin disposed /\ lane[e] = 0 /\ ~HasFrame(e, {"verify", "teardown", "body"})

(* An effect at rest is not stranded: it is unmarked, and what it saw on    *)
(* its last run is still what it would see.  The exception: a panic broke   *)
(* off the teardown before that run (effect.rs:676), or its body while      *)
(* another run was owed (effect.rs:827).                                    *)
NoStrandedEffect ==
  \A e \in Effects \ abandoned : AtRest(e) => state[e] = "Clean" /\ UpToDateWithAll(e)

(* The latch is set exactly while one run of a live effect is queued, and   *)
(* no effect is ever queued twice.                                          *)
LatchMatchesLane ==
  \A e \in Effects :
    /\ lane[e] <= 1
    /\ e \notin disposed => (e \in scheduled <=> lane[e] = 1)
    /\ e \in disposed => e \notin scheduled

(* A node's closure is never entered while it is already running, which is  *)
(* what the assertion in run_in_context says.                               *)
NoReentry ==
  \A i, j \in DOMAIN stack :
    /\ stack[i].node = stack[j].node
    /\ stack[i].kind \in {"compute", "body"} /\ stack[j].kind \in {"compute", "body"}
    => i = j

(* Whoever could be affected by a write is told in that very step, however  *)
(* long the chain of recorded edges and whatever the marks along it: an     *)
(* effect has a run queued or owed, or one in progress that has not entered *)
(* the body yet; with the same exception.                                   *)
Downstream(s) ==
  {o \in Observers : \A X \in SUBSET Observers :
     ( /\ dependents[s] \subseteq X
       /\ \A c \in X \cap Computed : dependents[c] \subseteq X ) => o \in X}
Written(s) == version'[s] # version[s]

WriteQueuesEffects ==
  [][ \A s \in Signals : Written(s) =>
        \A e \in (Downstream(s) \cap Effects) \ (disposed \cup abandoned) :
          e \in scheduled' \cup rerun \/ HasFrame(e, {"teardown"}) ]_vars

(* No wasted work: without a panic a node becomes dirty only when a version *)
(* it recorded is no longer the current one, and a closure that is not      *)
(* dirty starts only then; so equality-suppressed changes stop where they   *)
(* are suppressed, however the writes, runs and verifications interleave.   *)
EverRan(o) == Keys(dependencies[o]) # {}
Outdated(o) == \E d \in Keys(dependencies[o]) : dependencies[o][d] # VersionOf(d)
Started(o, k) ==
  /\ ~HasFrame(o, {k}) /\ HasFrame(o, {k})'

RunsAreJustified ==
  [][ \A o \in Observers :
        /\ ~panicking /\ state[o] # "Dirty" /\ state'[o] = "Dirty" => Outdated(o)'
        /\ Started(o, IF o \in Computed THEN "compute" ELSE "teardown") /\ EverRan(o)
             => Outdated(o) \/ state[o] = "Dirty" ]_vars

(* Every effect, whenever a write has made it out of date, in the end runs  *)
(* on the current state of everything it reads, unless it is disposed or,   *)
(* as above, abandoned.                                                     *)
Caught(e) == AtRest(e) /\ state[e] = "Clean" /\ UpToDateWithAll(e)
EffectsCatchUp ==
  \A e \in Effects : ~Caught(e) ~> (Caught(e) \/ e \in disposed \cup abandoned)
=============================================================================
